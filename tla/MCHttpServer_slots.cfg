SPECIFICATION Spec
CONSTANTS
  MAX_CLIENT_QUEUE = 2
  NUM_LEDS = 2
  Fds <- MCFds
  Conns = {c1, c2, c3}
  Requests <- MCUpdates
  PAGE_CHUNKS = 2
  MAX_UPTIME = 0
  SocketErrors = TRUE
  Free = Free
  Listening = Listening
  Unbound = Unbound
  NoConn = NoConn
  NoReq = NoReq
SYMMETRY Symmetry
CHECK_DEADLOCK FALSE
INVARIANTS TypeOK AnswersMatch SocketOwnership SlotsMatchThreads NoConnectionLeak FdBudget IInv
PROPERTIES NoLiveThreadReuse ImplementsService
