SPECIFICATION FairSpec
CONSTANTS
  Specs <- SomeSpecs
  MaxReplicas = 2
  MaxLag = 1
  MaxUpsets = 2
\* The job is over.
CHECK_DEADLOCK FALSE
INVARIANT ScaleKept
PROPERTIES OutcomeKept JobEnds
