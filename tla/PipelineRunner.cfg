\* Every hook declared or none, two tasks in each body, both watchers armed.
SPECIFICATION Spec
CONSTANTS
  NoReason = NoReason
  Reasons = {timeout, interrupt}
  a = a
  b = b
  v1 = v1
  v2 = v2
  N = 3
  Key <- MCKey
  KeyOf <- MCKeyOf
  Gated = {1}
  ContinueOnError = {2}
  Nested = {3}
  Contexts <- MCContexts
  HookTasks = 2
  Values <- MCValues
  ErrorSlot = ErrorSlot
  Absent = Absent
  Seed <- MCSeed
  NoHook = NoHook
INVARIANTS
  StateReplaysResults ChangedIsExact ResultsExplainStatus
  OnlyTheTaskInFlightEnds TeardownIsNeverCancelled
PROPERTIES ImplementsLifecycle CancelReachesTeardown CancelEndsRun
CHECK_DEADLOCK FALSE
