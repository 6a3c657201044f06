SPECIFICATION Spec
CONSTANTS
  DatasetSize = 5
  NumNodes = 2
  LocalWorldSize = 2
  Epochs = 2
  MaxIncarnations = 3
  MaxFailures = 2
\* The training is over, or stopped by a failure that no group follows.
CHECK_DEADLOCK FALSE
INVARIANTS SameWeights EpochCovers
PROPERTY CheckpointsAdvance
