SPECIFICATION FairSpec
CONSTANTS
  MAX_CLIENT_QUEUE = 1
  NUM_LEDS = 2
  Fds <- MCFds
  Conns = {c1, c2}
  Requests <- MCQueries
  PAGE_CHUNKS = 2
  MAX_UPTIME = 1
  SocketErrors = FALSE
  Free = Free
  Listening = Listening
  Unbound = Unbound
  NoConn = NoConn
  NoReq = NoReq
CHECK_DEADLOCK FALSE
PROPERTIES BacklogDrains ServedIsClosed SlotsComeBack
