SPECIFICATION Spec
INVARIANTS
  CurrentIsVisible
CONSTANTS
  Theme        <- MCTheme
  News         <- MCNews
  Cat          <- MCCat
  Marker       <- MCMarker
  Members      <- MCMembers
  First        <- MCFirst
  Place        <- MCPlace
  Arrangements <- MCArrangements
  View         <- MCView
  Zoom         <- MCZoom
  AreasShown   <- MCAreasShown
  InView       <- MCInView
  ClusterView  <- MCClusterView
  None         = None
