SPECIFICATION FairSpec
CONSTANTS
  QUEUE_SIZE = 2
  FlowIds <- TwoFlows
  MAX_CHANGES = 3
  MAX_TWT = 2
CHECK_DEADLOCK FALSE
PROPERTY EventsAreHandled
