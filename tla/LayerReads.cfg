SPECIFICATION Spec
INVARIANTS
  PanelCountsBusyLayers
  ScreenIsAskedFor
  OneLiveRequest
PROPERTIES
  ImplementsLatestRead
  LoadingEnds
CONSTANTS
  Layer    <- MCLayer
  View     <- MCView
  Shown    <- MCShown
  Covers   <- MCCovers
  Request  = {1, 2, 3}
  MaxTiles = 1
  None     = None
