SPECIFICATION Spec
CONSTANTS
  Cards = {a, b}
  NoCard = NoCard
  MaxMoves = 1
PROPERTIES
  ExitsReturn
CHECK_DEADLOCK FALSE
