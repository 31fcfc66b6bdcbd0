SPECIFICATION Spec
CONSTANTS
  Anon = {home}
  Worktrees = {wt}
  Home = home
  MaxPane = 2
  MaxOverlays = 1
  NoOverlay = NoOverlay
  None = None
  home = home
  wt = wt
CHECK_DEADLOCK FALSE
INVARIANT
  PublishedOverlay
