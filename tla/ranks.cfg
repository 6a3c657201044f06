SPECIFICATION RanksSpec
CONSTANTS
  MaxAgents = 4
  Roles = {1, 2, 3}
  Sizes = {1, 2}
\* The assignment is over.
CHECK_DEADLOCK FALSE
INVARIANTS GlobalRanks RoleRanks
