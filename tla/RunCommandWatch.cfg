\* Watches, one combination, one edit.
SPECIFICATION Spec
CONSTANTS
  NoReason = NoReason
  Reasons = {"timeout", "interrupt"}
  FlagSets <- Watches
  MaxCombos = 1
  MaxEdits = 1
  HardCodes = {1, 3}
  Untold = Untold
PROPERTIES SigintStopsWatching
CHECK_DEADLOCK FALSE
