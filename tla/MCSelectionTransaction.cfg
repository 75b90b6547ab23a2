CONSTANTS
  table1 = table1
  table2 = table2
  results1 = results1
  results2 = results2
  TableReads <- TwoTables
  ResultReads <- OneResults
  Nobody = Nobody
SPECIFICATION FairSpec
CHECK_DEADLOCK FALSE
INVARIANTS
  FetchSeesSelection
PROPERTIES
  ImplementsReversibleRead
  EveryReadEnds
