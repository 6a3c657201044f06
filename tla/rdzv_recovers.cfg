SPECIFICATION FairSpec
CONSTANTS
  Agents = {a1, a2, a3}
  MinWorkers = 2
  MaxWorkers = 2
  MaxCalls = 3
  MaxCrashes = 1
  MaxWaiting = 2
  MaxLapses = 0
  MaxFaults = 0
  Resend = FALSE
\* Every call has returned or raised, and the bounds are used up.
CHECK_DEADLOCK FALSE
INVARIANTS FinalQuorum LateWorkersCounted
PROPERTY RecoversFromCrash
