SPECIFICATION Spec
CONSTANTS
  Users <- AllUsers
  Fds <- FourFds
  Faults <- AllFaults
  MAX_CALLBACKS = 2
  MAX_JOBS = 2
  MAX_SERVER = 2
  SERIAL = TRUE
CHECK_DEADLOCK FALSE
INVARIANTS TypeOK ClosesOwn SendsAsOpened NothingLeft LeaksCounted
