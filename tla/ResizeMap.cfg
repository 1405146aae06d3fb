SPECIFICATION Spec
INVARIANTS
  LooksAgree
  ListensWhenMaximized
  QuietMapFits
PROPERTY
  MapFollowsWindow
CONSTANTS
  StaticW = 5
  StaticH = 4
  AnchorW = 1
  Widths  <- MCWidths
  Heights <- MCHeights
  MaxResizes = 3
  MaxListeners = 3
CHECK_DEADLOCK FALSE
