SPECIFICATION PullSpec
CONSTANTS
  c1 = c1  sam = sam  carol = carol  main = main  dev = dev  peer = peer
  p1 = p1  p2 = p2  None = None
  ContextId = {c1}
  AuthorId = {sam, carol}
  EventId = {1, 2, 3, 4}
  RefName = {main}
  PeerName = {peer}
  Body <- MCBody  Projected <- MCProjected
  Provisions = {}
  Bundles = {}
  IdOrder <- MCIdOrder
  Size <- MCSize
  Puller = {p1, p2}
  Peer = peer
  Ctx = c1
  Genesis = 1
  ClientAuthors = {sam}
  PageEvents = 1
  MaxPages = 3
  MaxKnown = 2
  MaxAborts = 1
INVARIANTS PagesImportable CompletePull
SYMMETRY Symmetric
