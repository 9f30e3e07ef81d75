SPECIFICATION FairSpec
CONSTANTS
  Producers = {p1, p2}
  Consumers = {c1, c2}
  Calls <- AppendCalls
  Millis <- MCMillis
  MaxSize = 2
  Limits <- MCLimits
  Batch = 2
  Leftover = 0
  MaxPush = 3
INVARIANT CapacityBound
PROPERTIES Abstract Delivered
CHECK_DEADLOCK FALSE
