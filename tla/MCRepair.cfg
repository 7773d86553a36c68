SPECIFICATION Spec
CONSTANTS
  EventId <- MCEventId
  Held <- MCEventId
  Parents <- MCParents
  Critical = {3}
  Uncovered = {2}
  PayloadBytes <- MCPayloadBytes
  MaxEvents = 3
  MaxBytes = 3
  None = None
  Bounds <- MCBounds
  Omittable = {2, 3}
  LineFits = {TRUE}
  MaxRuns = 2
  MaxFaults = 1
CHECK_DEADLOCK FALSE
INVARIANTS ReIncludedOmissions OfferedHonestly DeliveredFresh FileConsistent ReportBacked
