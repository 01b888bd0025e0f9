\* A persister worker with a size limit leaves an in-memory segment behind.
SPECIFICATION Spec
CONSTANTS
  d1 = d1
  d2 = d2
  d3 = d3
  v1 = v1
  v2 = v2
  NoVal = NoVal
  Batch <- MCPuts
  NumPersisterWorkers = 1
  LegacyFlush = FALSE
  NumSnapshotsToKeep = 1
  CommitMayFail = FALSE
  MaxSegmentID = 6
  MaxBatches = 3
  MaxRestarts = 0
CONSTRAINT MCNoCopyNoMerger
INVARIANT AckedDurable
\* The counters are bounded: when they are used up the model may stop.
CHECK_DEADLOCK FALSE
