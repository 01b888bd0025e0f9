\* Two concurrent writers, the persister and the merger; default options.
SPECIFICATION Spec
CONSTANTS
  d1 = d1
  d2 = d2
  v1 = v1
  v2 = v2
  w1 = w1
  w2 = w2
  DocId = {d1, d2}
  Val = {v1, v2}
  NoVal = NoVal
  Keep = Keep
  Writer <- MCWriters
  Batch <- MCBatches
  NumPersisterWorkers = 1
  LegacyFlush = TRUE
  MaxSegmentID = 4
SYMMETRY MCSymmetry
INVARIANTS
  TypeOK
  LiveUnique
  NoEmptySegments
  DeletesTranslatable
  StaleRootsHarmless
PROPERTY ImplementsAtomicIndex
\* Segment ids are bounded: when they are used up the model stops.
CHECK_DEADLOCK FALSE
