SPECIFICATION Spec
CONSTANTS
  k1 = k1
  k2 = k2
  k3 = k3
  Conn = {k1, k2, k3}
  NoConn = NoConn
  Total = 2
  Keep = 2
  MaxTime = 4
  Uninit <- Memories
  Exempt <- MCExempt
INVARIANTS TypeOK IdsUnique NoSlotLost TimeListExact
PROPERTY TimedOutWereIdle
SYMMETRY Sym
CHECK_DEADLOCK FALSE
