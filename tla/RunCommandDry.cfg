\* Single runs, one combination.
SPECIFICATION Spec
CONSTANTS
  NoReason = NoReason
  Reasons = {"timeout", "interrupt"}
  FlagSets <- OneRun
  MaxCombos = 1
  MaxEdits = 0
  HardCodes = {1, 3}
  Untold = Untold
INVARIANTS DryRunWritesNothing
CHECK_DEADLOCK FALSE
