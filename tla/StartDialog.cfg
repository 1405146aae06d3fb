SPECIFICATION Spec
INVARIANTS
  TypeOK
  OneMessage
  UrlNamesView
  PagingConsistent
  TopListPages
PROPERTIES
  BusyEndsWithMap
CONSTANTS
  Query  <- MCQuery
  Hits   <- MCHits
  Hashes <- MCHashes
  MaxSearches = 2
  Default = Default
  None    = None
  baarn   = baarn
  bergen  = bergen
  nergens = nergens
  bergenNH = bergenNH
  bergenL  = bergenL
  ItemsPerPage = 2
  Counts <- MCCounts
  MaxRequests = 2
CHECK_DEADLOCK FALSE
