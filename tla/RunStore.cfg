SPECIFICATION Spec
CONSTANTS
  w1 = w1
  k1 = k1
  k2 = k2
  OldRuns <- MCOldRuns
  Writers <- MCWriters
  Keepers <- MCKeepers
  Plan <- MCPlan
  Kept <- MCKept
  Sizes <- MCSizes
  Cap = 1
  MaxEvents = 2
  MaxFaults = 1
  Cutoffs <- MCCutoffs
\* Every command ends.
CHECK_DEADLOCK FALSE
INVARIANTS
  LogReplaysStream
  LogIsCapped
  SweptTogether
PROPERTIES
  OnlyAgedRunsLeave
SYMMETRY Symmetry
