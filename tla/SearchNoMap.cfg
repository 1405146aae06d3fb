SPECIFICATION SearchSpec
PROPERTY
  MapComesUp
CONSTANTS
  Query  <- MCQuery
  Hits   <- MCHits
  Hashes <- MCHashes
  MaxSearches = 2
  Default = Default
  None    = None
  baarn   = baarn
  bergen  = bergen
  nergens = nergens
  bergenNH = bergenNH
  bergenL  = bergenL
CHECK_DEADLOCK FALSE
