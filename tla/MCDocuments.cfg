SPECIFICATION MCSpec
CONSTANTS
  Subjects = {"crashes", "writers", "back", "two", "kept"}
  d1 = d1
  d2 = d2
  w1 = w1
  w2 = w2
  c1 = c1
  c2 = c2
  DocIDs = {d1, d2}
  Names = {"f", "g"}
  Contents <- More
  Writers = {w1, w2}
  MaxWrites = 4
  MaxBatch = 2
  MayFail = TRUE
  MayCrash = FALSE
  Clients = {c1, c2}
  Terms = {"a"}
  Offsets <- TwoSegments
  Total = 3
  GoBack = TRUE
  Threshold = 0
  MaxObjects = 2
  MaxCalls = 3
SYMMETRY Symmetry
INVARIANTS
  RowsFaithful
  FieldRowsRemain
  ReadersExact
CHECK_DEADLOCK FALSE
