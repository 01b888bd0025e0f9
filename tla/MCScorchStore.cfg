\* Batches, flushes, merges and purges, and a crash anywhere.
SPECIFICATION Spec
CONSTANTS
  d1 = d1
  d2 = d2
  d3 = d3
  v1 = v1
  v2 = v2
  NoVal = NoVal
  Batch <- MCUpdates
  NumPersisterWorkers = 1
  LegacyFlush = TRUE
  NumSnapshotsToKeep = 1
  CommitMayFail = FALSE
  MaxSegmentID = 4
  MaxBatches = 3
  MaxRestarts = 1
CONSTRAINT MCNoCopyNoRollback
INVARIANTS
  AckedDurable
  RootFilesStay
PROPERTY ImplementsDurableIndex
\* The counters are bounded: when they are used up the model may stop.
CHECK_DEADLOCK FALSE
