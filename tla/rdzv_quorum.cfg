SPECIFICATION Spec
CONSTANTS
  Agents = {a1, a2}
  MinWorkers = 2
  MaxWorkers = 2
  MaxCalls = 2
  MaxCrashes = 0
  MaxWaiting = 2
  MaxLapses = 0
  MaxFaults = 1
  Resend = TRUE
\* Every call has returned or raised, and the bounds are used up.
CHECK_DEADLOCK FALSE
INVARIANT FinalQuorum
