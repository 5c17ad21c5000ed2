SPECIFICATION Spec
CONSTANTS
  Children <- MCChildren
  Requests <- MCRequests
  Calls <- MCCalls
  Paths = {"p", "q"}
  Absent = Absent
  PipeSize = 1
  OutputCap = 2
  BodyCap = 2
  FetchRetriesMax = 2
  Statuses = {200, 404, 500}
  FlowDepthMax = 2
INVARIANTS
  AnswerIsEarned
  RequestsAreBounded
PROPERTIES
  FilesAreKept
  CallEnds
CHECK_DEADLOCK FALSE
