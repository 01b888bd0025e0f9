SPECIFICATION Spec
CONSTANTS
  Subjects = {"one", "newest", "series", "plans", "builds", "fails", "updates", "merged", "written"}
  Docs = {1, 2, 3, 4}
  BatchSize = 2
  MergeMax = 2
  MaxFaults = 2
INVARIANTS
  TasksFit
  BuiltRight
  FieldsFaithful
PROPERTIES
  KeepsWhatItMust
  SettlesDown
CHECK_DEADLOCK FALSE
