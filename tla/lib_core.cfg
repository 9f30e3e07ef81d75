SPECIFICATION MCSpec
CONSTANTS
  Parts = {"table", "bytes", "heap", "web", "lock", "pool", "time", "logs"}
  Fds = {0, 2}
  INIT_EVENTS = 2
  Growth = 2
  MaxList = 2
  init_size = 2
  READBYTES = 2
  Copied = 4
  Arriving = 5
  Align = 8
  MaxBytes = 24
  PerChunk = 2
  Sizes = {3, 9, 24, 30}
  MaxChunks = 2
  Conns = {1}
  Paths = {"/a", "/b"}
  MAX_BODY_SIZE = 1
  MaxFds = 1
  MaxSize = 2
  Requests = 2
  Readers = {"r1", "r2", "r3", "r4"}
  Writers = {"w1", "w2"}
  Workers = {"t1", "t2"}
  queue_size = 2
  Tasks = 4
  Askers = {1}
  Rate = 3
  SecondTicks = 2
  Slack = 2
  Boot = 10
  EndOfClock = 6
  Threads = {1, 2}
  Names = {"a"}
  Logged = {2}
  Reload = 1
  Period = 2
  Configured <- MCConfigured
  EndOfLog = 4
  Lines = 1
INVARIANTS DataSound ThreadsRight RequestsServed ResultsRight
PROPERTY Progress
CHECK_DEADLOCK FALSE
