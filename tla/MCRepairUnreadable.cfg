SPECIFICATION Spec
CONSTANTS
  EventId <- MCOne
  Held <- MCOne
  Parents <- MCOneParents
  Critical = {}
  Uncovered = {}
  PayloadBytes <- MCOneBytes
  MaxEvents = 3
  MaxBytes = 4
  None = None
  Bounds <- MCOneBounds
  Omittable = {1}
  LineFits = {TRUE}
  MaxRuns = 3
  MaxFaults = 2
CHECK_DEADLOCK FALSE
PROPERTY AppendKeepsReadable
