SPECIFICATION Spec
CONSTANTS
  Users <- ButtonOnly
  Fds <- ThreeFds
  Faults <- ResolveFault
  MAX_CALLBACKS = 1
  MAX_JOBS = 2
  MAX_SERVER = 1
  SERIAL = FALSE
CHECK_DEADLOCK FALSE
INVARIANT MessagesStayOwn
