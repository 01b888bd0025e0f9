SPECIFICATION MCSpec
CONSTANTS
  Subjects = {"unsafe", "safe", "fails"}
  w1 = w1
  w2 = w2
  w3 = w3
  r1 = r1
  Writer = {w1, w2, w3}
  Reader = {r1}
  UnsafeBatch = TRUE
  Workers = 1
  MaxBatches = 2
  MaxMerges = 1
  MaxFailures = 1
INVARIANTS
  CountsExact
PROPERTIES
  ClosedForGood
  OldReleasedInTheEnd
CHECK_DEADLOCK FALSE
