SPECIFICATION FairSpec
CONSTANTS
  Workers = {w1, w2}
  Scopes = {s1}
  Durations = {1}
  MaxTime = 2
  MaxAcquires = 2
  MaxFailures = 1
\* The server was stopped.
CHECK_DEADLOCK FALSE
INVARIANT InStep
PROPERTIES ReleaseHeeded StuckReaped DeadForgotten
