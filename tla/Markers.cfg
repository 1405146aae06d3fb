SPECIFICATION Spec
INVARIANTS
  TypeOK
  CountIsVisibleSum
  ScreenIsCurrent
  MarkerMatchesLegend
  AnchorIsCurrent
CONSTANTS
  Theme   <- MCTheme
  Area    <- MCArea
  Amount  <- MCAmount
  Other   <- MCOther
  Members <- MCMembers
  Cat     <- MCCat
  Absent  = Absent
  None    = None
  NoNode  = NoNode
  oost    = oost
  west    = west
