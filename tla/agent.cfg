SPECIFICATION FairSpec
CONSTANTS
  Nodes = {n1, n2}
  MinNodes = 1
  MaxNodes = 2
  MaxRestarts = 1
  MaxVersions = 2
  MaxCrashes = 1
  MaxFaults = 2
  NoNode = NoNode
\* Every agent has ended, or the bound on versions is reached.
CHECK_DEADLOCK FALSE
INVARIANTS NoOrphans ExitTogether RestartBudget RightMaster
PROPERTIES ArrivalNoticed AgentsEnd
