SPECIFICATION Spec
INVARIANTS
  TypeOK
  WalkSeesAll
  SevenNumbersAround
  OnlyFourPagesWrong
CONSTANTS
  ItemsPerPage = 2
  MaxFound <- MCMaxFound
