SPECIFICATION MCSpec
CONSTANTS
  ULLONG_MAX = 4095
  HTTP_MAX_HEADER_SIZE = 260
  MAX_HEADERS = 13
  MAX_PATH_SIZE = 32
  MAX_ELEMENT_SIZE = 48
  MAX_BODY_SIZE = 16
  MaxPiece = 2
  MaxCalls = 5
  Streams <- MCStreams
  Types <- MCTypes
  Pieces <- MCPieces
INVARIANTS SplitInvariant Delivered AssertsHold
PROPERTY ErrorIsFinal
CHECK_DEADLOCK FALSE
