SPECIFICATION FairSpec
CONSTANTS
  Apps <- SomeApps
  Sessions = {s1}
  CacheSize = 1
  MaxId = 2
  Nothing = Nothing
\* The scheduler was deleted.
CHECK_DEADLOCK FALSE
INVARIANTS Settled NoStrays
PROPERTIES AppPromise WaitReturns
