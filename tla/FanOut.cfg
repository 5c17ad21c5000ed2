\* Maps and evals of leaves and of sub-flows of two tasks, both watchers armed.
SPECIFICATION Spec
CONSTANTS
  Reasons = {timeout, interrupt}
  NoReason = NoReason
  WidthMax = 3
  ConcurrencyMax = 2
  Shapes <- SoundShapes
  SubTasks = 2
  NoAnswer = NoAnswer
INVARIANTS AnswerIsExplained CancellationComesUp
PROPERTIES ImplementsPort ImplementsPromise EveryFanOutEnds
CHECK_DEADLOCK FALSE
