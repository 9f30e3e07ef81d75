SPECIFICATION FairSpec
CONSTANTS
  Conn <- OneTwo
  NoConn = 0
  Total = 2
  Keep = 1
  MaxTime = 1
  Uninit <- Memories
  Exempt = {}
  Index = 0
  Fds <- OneTwo
  PeerOf <- MCPeerOf
  Allowed <- OneTwo
  Closers <- One
  Handlers = {h1}
  Programs <- CloseProgram
  Budget = 1
  QMax = 8
  QCap = 8
  AddMayFail = FALSE
PROPERTIES IdleClosed
CHECK_DEADLOCK FALSE
