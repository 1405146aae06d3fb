SPECIFICATION Spec
INVARIANT
  OnlyRealPages
CONSTANTS
  ItemsPerPage = 2
  MaxFound <- MCMaxFound
