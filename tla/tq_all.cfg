SPECIFICATION Spec
CONSTANTS
  Producers = {p1, p2}
  Consumers = {c1, c2}
  Calls <- AllCalls
  Millis <- AllMillis
  MaxSize = 2
  Limits <- MCLimits
  Batch = 2
  Leftover = 2
  MaxPush = 2
INVARIANTS NoLostWakeup AssertHolds
SYMMETRY Sym
VIEW View
CHECK_DEADLOCK FALSE
