\* What must happen in the end, with a force merge, a failure and Close.
SPECIFICATION Spec
CONSTANTS
  w1 = w1
  w2 = w2
  f1 = f1
  Writer = {w1}
  ForceMerger = {f1}
  NapTime = TRUE
  InvalidOptions = FALSE
  MaxBatches = 1
  MaxForceMerges = 1
  MaxFailures = 1
PROPERTIES
  BatchReturns
  ForceMergeReturns
  CloseTerminates
\* Batches and force merges are bounded: the index goes quiet.
CHECK_DEADLOCK FALSE
