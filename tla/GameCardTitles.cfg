SPECIFICATION Spec
CONSTANTS
  Cards = {a, b}
  NoCard = NoCard
  MaxMoves = 1
PROPERTIES
  LoadedCardAvailable
CHECK_DEADLOCK FALSE
