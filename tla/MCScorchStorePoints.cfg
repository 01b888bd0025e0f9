\* Crashes and rollbacks while batches are flushed, or an online copy while
\* they are flushed and merged; two snapshots are kept.
SPECIFICATION Spec
CONSTANTS
  d1 = d1
  d2 = d2
  d3 = d3
  v1 = v1
  v2 = v2
  NoVal = NoVal
  Batch <- MCUpdates
  NumPersisterWorkers = 1
  LegacyFlush = TRUE
  NumSnapshotsToKeep = 2
  CommitMayFail = FALSE
  MaxSegmentID = 6
  MaxBatches = 3
  MaxRestarts = 2
CONSTRAINT MCRollbackOrCopy
INVARIANTS
  RollbackPointsFaithful
  CopiedFilesStay
\* The counters are bounded: when they are used up the model may stop.
CHECK_DEADLOCK FALSE
