SPECIFICATION FairSpec
CONSTANTS
  QUEUE_SIZE = 2
  FlowIds <- TwoFlows
  MAX_CHANGES = 4
  MAX_TWT = 2
CHECK_DEADLOCK FALSE
INVARIANTS TypeOK PermitMeansConnected ViewAgrees IInv
PROPERTIES StartsConnected ServerStarts LossNoticed
