SPECIFICATION FairSpec
CONSTANTS
  Conn <- OneTwoThree
  NoConn = 0
  Total = 2
  Keep = 1
  MaxTime = 0
  Uninit <- Zeroed
  Exempt = {}
  Index = 1
  Fds <- OneTwo
  PeerOf <- MCPeerOf
  Allowed <- OneThree
  Closers <- One
  Handlers = {h1, h2}
  Programs <- CloseProgram
  Budget = 3
  QMax = 1
  QCap = 2
  AddMayFail = TRUE
INVARIANTS ListAssertsHold
 
CHECK_DEADLOCK FALSE
