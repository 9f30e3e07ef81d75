SPECIFICATION Spec
CONSTANTS
  Conn <- OneTwoThree
  NoConn = 0
  Total = 2
  Keep = 1
  MaxTime = 0
  Uninit <- Zeroed
  Exempt = {}
  Index = 1
  Fds <- OneTwo
  PeerOf <- MCPeerOf
  Allowed <- OneTwoThree
  Closers <- One
  Handlers = {h1}
  Programs <- SetReplyProgram
  Budget = 2
  QMax = 1
  QCap = 2
  AddMayFail = FALSE
INVARIANTS TypeOK NoLostNotify NoLostEdge RegistrationSound CallbacksBalanced AnsweredBeforeClosed
PROPERTIES RightTarget
CHECK_DEADLOCK FALSE
