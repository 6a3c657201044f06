SPECIFICATION FairSpec
CONSTANTS
  Agents = {a1, a2}
  MinWorkers = 1
  MaxWorkers = 2
  MaxCalls = 2
  MaxCrashes = 1
  MaxWaiting = 2
  MaxLapses = 0
  MaxFaults = 1
  Resend = TRUE
\* Every call has returned or raised, and the bounds are used up.
CHECK_DEADLOCK FALSE
PROPERTIES ClosedPropagates BarrierTerminates
