\* Every command line, up to two combinations, one edit.
SPECIFICATION Spec
CONSTANTS
  NoReason = NoReason
  Reasons = {"timeout", "interrupt"}
  FlagSets <- OneOrWatched
  MaxCombos = 2
  MaxEdits = 1
  HardCodes = {1, 3}
  Untold = Untold
INVARIANTS AnswerIsExplained
  NothingIsSkipped DeployedIsCleaned NoEditIsLost
PROPERTIES StandingIsLeftAlone StopEndsRun
CHECK_DEADLOCK FALSE
