SPECIFICATION Spec
CONSTANTS
  Agents = {a1, a2, a3}
  MinWorkers = 1
  MaxWorkers = 2
  MaxCalls = 3
  MaxCrashes = 1
  MaxWaiting = 2
  MaxLapses = 1
  MaxFaults = 0
  Resend = FALSE
SYMMETRY Interchangeable
\* Every call has returned or raised, and the bounds are used up.
CHECK_DEADLOCK FALSE
INVARIANTS Consistency OneCompleteGroup
PROPERTIES BarrierPromise VersionsUnique
