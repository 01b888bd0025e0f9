SPECIFICATION Spec
CONSTANTS
  Subjects = {"nested", "boolean", "phrase", "fuzzy", "synonyms", "numbers", "dates", "prefixes", "ranges", "dict", "bytes", "batches"}
  MaxByte = 3
  Pool <- TermPool
  SegmentIds = {1, 2}
  Requests <- TextPrefixes
  MayFail = FALSE
  MaxClauses = 0
  Optimize = FALSE
INVARIANTS
  ResultsExact
  RangesExact
  DictionariesExact
CHECK_DEADLOCK FALSE
