SPECIFICATION Spec
CONSTANTS
  Pane = {p1, p2, p3}
  Split = {s1, s2, s3}
  NoNode = NoNode
  None = None
  Full = 100
  Step = 5
  Sizes <- OneSize
VIEW UpToNames
INVARIANT NoNestedAxis
