SPECIFICATION ExchangeSpec
CONSTANTS
  c1 = c1  c2 = c2  sam = sam  main = main  dev = dev  peer = peer  None = None
  ContextId = {c1, c2}
  AuthorId = {sam}
  EventId = {1, 2, 3, 4, 5}
  RefName = {main, dev}
  PeerName = {peer}
  Body <- MCBody  Projected <- MCProjected
  Provisions = {}
  Bundles = {}
  IdOrder <- MCIdOrder
  Size <- MCSize
  Ctx = c1
  Genesis = 1
  Peer = peer
  Asked <- MCAsked
  KnownToUser <- MCKnownToUser
  Referenced <- MCReferenced
  Tasks <- MCTasks
  CandidateSets <- MCCandidateSets
  Critical = {4}
  Uncovered = {2}
  PayloadBytes <- MCSize
  MaxEvents = 4
  MaxBytes = 4
  MaxCandidates = 3
  MaxSelected = 2
  MaxSelectedBytes = 3
  MaxMade = 2
CHECK_DEADLOCK FALSE
INVARIANTS FileImportable NeverAhead ReceiptsHold SummaryExact OfferUsable
