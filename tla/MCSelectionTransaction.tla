------------------------- MODULE MCSelectionTransaction -------------------------
\* SelectionTransaction with transactions of both kinds.
EXTENDS SelectionTransaction

CONSTANTS table1, table2, results1, results2

TwoTables == {table1, table2}
TwoResults == {results1, results2}
OneTable == {table1}
OneResults == {results1}

================================================================================
