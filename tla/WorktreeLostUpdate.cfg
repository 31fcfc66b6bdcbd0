SPECIFICATION Spec
CONSTANTS
  Procs = {i, j}
  Repos = {r1, r2}
  Paths = {p1, p2, p3}
  RepoOf <- MCRepoOf
  Branches = {slash, dash, other, far}
  PathFor <- MCPathFor
  Remote = {}
  Startup = none
  NoBranch = NoBranch
  r1 = r1
  r2 = r2
  p1 = p1
  p2 = p2
  p3 = p3
  slash = slash
  dash = dash
  other = other
  far = far
PROPERTIES
  EntriesAreNeverDropped
