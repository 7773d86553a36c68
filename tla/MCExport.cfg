SPECIFICATION Spec
CONSTANTS
  EventId = {1, 2, 3, 4}
  IdOrder <- MCIdOrder
  Size <- MCSize
  ProjectionLimits <- MCProjectionLimits
  PageLimits <- MCPageLimits
  Overhead = 2
  Envelope = 1
CHECK_DEADLOCK FALSE
INVARIANTS ListsHistory LimitsExact  PagesFollowOn
PROPERTY Answered
