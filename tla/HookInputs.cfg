SPECIFICATION Spec
CONSTANTS
  Refs <- MCRefs
  Edits <- MCEdits
  Missing = Missing
  None = None
  TasksMax = 2
  WidthMax = 1
  ConcurrencyMax = 1
  HookTasksMax = 3
  MaxEdits = 1
  Shells <- MCShells
  Reader = "p"
  Candidates <- MCCandidates
  Listing <- MCListing
  Folder = "folder"
  Registry = "registry"
  Situations <- MCSituations
  MaxFaults = 1
PROPERTY HookInputsArePassed
CHECK_DEADLOCK FALSE
