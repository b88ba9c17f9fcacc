CONSTANTS
  Servers = {"a", "b", "c"}
  Metas <- MCMetas
  Modes <- MCModes
  MaxUpdates = 1
  MaxPicks = 7
SPECIFICATION Spec
INVARIANTS SelectedIsListed FoundIfListed ShareKept
CHECK_DEADLOCK FALSE
