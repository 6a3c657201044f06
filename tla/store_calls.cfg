SPECIFICATION FairSpec
CONSTANTS
  Clients = {c1, c2, c3}
  Keys <- TwoKeys
  Requests <- AllRequests
  NoCall = NoCall
  MaxCalls = 3
  MaxFaults = 1
\* Every call has returned, and the bound is used up.
CHECK_DEADLOCK FALSE
INVARIANTS NoLostWakeup FailureIsTrue
PROPERTIES Linearizable ReadsEnd
