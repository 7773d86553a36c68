SPECIFICATION FairServerSpec
CONSTANTS
  Conn = {1, 2}
  Requests <- MCRequests
  Permits = 1
  HeaderLimit = 7
  BodyLimit = 2
  IdLimit = 2
  LongestRead = 10
INVARIANTS HeadExact PermitsConserved
PROPERTIES PermitReturns Drains
CHECK_DEADLOCK FALSE
