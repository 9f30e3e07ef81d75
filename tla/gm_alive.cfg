SPECIFICATION Spec
CONSTANTS
  Clients = {1, 2, 3}
  NoOne = NoOne
  Total = 2
  QMax = 2
  Products <- MCProducts
  Crosslink <- MCCrosslink
  Scenarios <- LoginAgain
INVARIANT RoomPlayersAlive
CHECK_DEADLOCK FALSE
