SPECIFICATION Spec
CONSTANTS
  Users <- NetworkAndButton
  Fds <- ThreeFds
  Faults = {}
  MAX_CALLBACKS = 1
  MAX_JOBS = 1
  MAX_SERVER = 1
  SERIAL = FALSE
CHECK_DEADLOCK FALSE
INVARIANT ClosesOwn
