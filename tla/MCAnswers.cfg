SPECIFICATION Spec
CONSTANTS
  Subjects = {"pages", "alias", "terms", "ranges", "sums", "fusion", "direct", "fails"}
  NoReply = NoReply
INVARIANTS
  PageExact
  FacetsAsOneIndex
  AnswersAsOne
  FailuresShow
CHECK_DEADLOCK FALSE
