SPECIFICATION Spec
CONSTANTS
  Cards = {a, b}
  NoCard = NoCard
  MaxMoves = 2
INVARIANTS
  TypeOK
  StatusTellsInfo
  ListedOnlyWhenAvailable
PROPERTIES
  StatusSettles
CHECK_DEADLOCK FALSE
