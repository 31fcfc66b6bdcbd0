SPECIFICATION FairSpec
CONSTANTS
  NumAnon = 2
  Worktrees = {wt}
  MaxPanes = 2
  Sizes = {small, large}
  NoOverlay = NoOverlay
INVARIANTS
  TypeOK
  ActiveTraySized
  ActiveOverlayListsOpenTrays
  ExitedTraysAreGone
PROPERTIES
  ReapSparesRunningShells
  Refines
  ExitedShellsAreReaped
