\* Every map and eval.
SPECIFICATION Spec
CONSTANTS
  Reasons = {timeout, interrupt}
  NoReason = NoReason
  WidthMax = 3
  ConcurrencyMax = 2
  Shapes <- AllShapes
  SubTasks = 2
  NoAnswer = NoAnswer
INVARIANTS CancellationComesUp
CHECK_DEADLOCK FALSE
