SPECIFICATION ExchangeSpec
CONSTANTS
  Message <- Messages
  Cut <- CutMessages
  CutAt = {1, 3, 4, 40, 120}
  Room = 60
INVARIANTS
  RoundTrip
  WireIsDer
  OnlyNegativeFails
  NoFalseError
PROPERTIES
  RecvReturns
CHECK_DEADLOCK FALSE
