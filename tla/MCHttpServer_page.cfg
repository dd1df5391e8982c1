SPECIFICATION Spec
CONSTANTS
  MAX_CLIENT_QUEUE = 2
  NUM_LEDS = 2
  Fds <- MCFds
  Conns = {c1, c2}
  Requests <- MCPages
  PAGE_CHUNKS = 2
  MAX_UPTIME = 1
  SocketErrors = FALSE
  Free = Free
  Listening = Listening
  Unbound = Unbound
  NoConn = NoConn
  NoReq = NoReq
SYMMETRY Symmetry
CHECK_DEADLOCK FALSE
INVARIANTS PageIntact
