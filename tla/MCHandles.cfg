SPECIFICATION MCSpec
CONSTANTS
  Subjects = {"handles", "writers", "creates", "copies"}
  Indexes = {"i1", "i2"}
  Clients = {"c1", "c2"}
  Alias = "alias"
  Members = {"i1"}
  MaxCalls = 3
  Writers = {"c1", "c2"}
  Polite = {"c1", "c2"}
  Procs = {"p1", "p2"}
  Paths = {"x1", "x2"}
  Mappings = {"m1"}
  NoPath = "no path"
  NoMapping = "no mapping"
  Runtime = {"unset", "ro"}
  Known = {TRUE, FALSE}
  MayFail = TRUE
  MayCrash = TRUE
  Copies = TRUE
  MaxBegun = 2
INVARIANTS
  HandlesSafe
  FilesGuarded
  CreatedStaysOpenable
PROPERTIES
  EveryCallReturns
CHECK_DEADLOCK FALSE
