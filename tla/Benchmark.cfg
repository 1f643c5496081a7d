SPECIFICATION FairSpec
CONSTANTS
  n1 = n1
  n2 = n2
  None = None
  Nodes <- MCNodes
  Excluded <- MCExcluded
  NumRuns = 2
  JoinAt <- Finishing
  MaxFaults = 1
INVARIANTS
  CleanedUp
  OwnReport
PROPERTIES
  ReleasedInTheEnd
CHECK_DEADLOCK FALSE
