SPECIFICATION Spec
CONSTANTS
  Pane = {p1, p2, p3}
  Split = {s1, s2, s3}
  NoNode = NoNode
  None = None
  Full = 4
  Step = 2
  Sizes <- SmallSizes
VIEW UpToNames
INVARIANTS
  TypeOK
  LayoutIsSound
  InteractionIsLive
  PtySizesMatchLayout
  RegionsTile
  FailsOnlyWhenNested
  RotatingTwiceRestoresShape
PROPERTIES
  OthersKeepTheirOrder
  MovesLand
