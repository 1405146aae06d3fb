SPECIFICATION Spec
INVARIANTS
  TypeOK
  ClustersMatchLegend
  HiddenMatchesLegend
  EachOnceOrNone
  ScreenIsComplete
PROPERTIES
  NoOverlapAfterClustering
CONSTANTS
  Class    <- MCClass
  Feature  <- MCFeature
  Cat      <- MCCat
  Pos      <- MCPos
  Centre   <- MCCentre
  Zoom     <- MCZoom
  InRange  <- MCInRange
  Half     <- MCHalf
  Distance <- MCDistance
  Column   <- MCColumn
  None     = None

