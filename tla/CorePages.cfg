SPECIFICATION Spec
INVARIANTS
  TypeOK
  CoreStays
  ShowsTheChosenPlace
  NothingIsMissing
  AreasAreNear
CONSTANTS
  Place      <- MCPlace
  Text       <- MCText
  TextKind   <- MCTextKind
  TextRadius <- MCTextRadius
  Radius     = {20, 40, 80}
  HitRadius  <- MCHitRadius
  Standard   = 20
  None       = None
  NoNumber   = NoNumber
  Name       <- MCName
  Ends       <- MCEnds
  InLink     <- MCInLink
  InForm     <- MCInForm
  Empty      = ""
  Unknown    = "onbekend"
  Area       <- MCArea
  Shape      <- MCShape
  Surface    <- MCSurface
  RelevantDivisor = 100
  Centrum    = 5
  Midden     = 40
  Rand       = 80
