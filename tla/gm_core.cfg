SPECIFICATION Spec
CONSTANTS
  Clients = {1, 2, 3}
  NoOne = NoOne
  Total = 2
  QMax = 2
  Products <- MCProducts
  Crosslink <- MCCrosslink
  Scenarios <- MCScenarios
INVARIANTS TypeOK PlayersSound NoDeletedPlayer RoomsAgree HeardWithinGame
PROPERTIES ServedAndReleased
CHECK_DEADLOCK FALSE
