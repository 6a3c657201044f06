SPECIFICATION FairSpec
CONSTANTS
  N = 2
  MaxStarts = 2
\* The workers have succeeded, or the bound on starts is reached.
CHECK_DEADLOCK FALSE
INVARIANTS SuccessIsComplete FailureIsComplete NoStrays
PROPERTIES HealthyIsTrue Settles
