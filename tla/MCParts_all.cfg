SPECIFICATION Spec
CONSTANTS
  Statuses <- TwoStatuses
  NotAssociated = "down"
  MAX_LINKS = 2
  MAX_CHANGES = 2
  MAX_ERRORS = 2
  MAX_LOSSES = 2
  MAX_MESSAGES = 2
  Callers <- TwoCallers
  MAX_CALLS = 5
  MAX_PIN_ERRORS = 2
  Fetchers <- TwoCallers
  MAX_FETCHES = 4
  MAX_SPI_ERRORS = 3
  MAX_TOUCHES = 4
CHECK_DEADLOCK FALSE
INVARIANTS PartsInv CancelledMeansQuiet RestartsOnlyWhenDown SessionOverNetwork OffStaysOff PowerBalanced
PROPERTIES AdvertisesAgain StatusAdvertised OnlyPressMisleads
