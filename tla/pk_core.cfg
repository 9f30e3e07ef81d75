SPECIFICATION FairSpec
CONSTANTS
  a = a
  b = b
  c = c
  Conn = {a, b, c}
  FdOf <- MCFdOf
  NetNum = 2
  HandleNum = 2
  RunModes = {1, 2}
  MaxPackets = 2
  QMax = 1
  QCap = 2
INVARIANTS TypeOK OneOwner InOrder
PROPERTIES StopReturns PacketsLeave
CHECK_DEADLOCK FALSE
