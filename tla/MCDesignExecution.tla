----------------------------- MODULE MCDesignExecution -----------------------------
\* DesignExecution on two columns, two selections and two analyses.
EXTENDS DesignExecution

CONSTANTS c1, c2, gravity, seismic, own, foreign, v1, v2

SomeColumns == {c1, c2}
SomeSelections == {gravity, seismic}
SomePopulations == {own, foreign}
SomeContents == {v1, v2}

================================================================================
