CONSTANTS
  Requests <- MCRequests
  HelperOf <- MCHelperOf
  Finishing <- MCFinishing
  Entries = 2
  CqEntries = 2
  Modulus = 4
SPECIFICATION UringSpec
CHECK_DEADLOCK FALSE
INVARIANT SqIntact
INVARIANT CqIntact
PROPERTY EveryRequestHandled
