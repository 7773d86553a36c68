SPECIFICATION FairPullSpec
CONSTANTS
  c1 = c1  sam = sam  carol = carol  main = main  dev = dev  peer = peer
  p1 = p1  p2 = p2  None = None
  ContextId = {c1}
  AuthorId = {sam, carol}
  EventId = {1, 2, 3}
  RefName = {main, dev}
  PeerName = {peer}
  Body <- MCBody  Projected <- MCProjected
  Provisions = {}
  Bundles = {}
  IdOrder <- MCIdOrder
  Size <- MCSize
  Puller = {p1}
  Peer = peer
  Ctx = c1
  Genesis = 1
  ClientAuthors = {sam, carol}
  PageEvents = 1
  MaxPages = 4
  MaxKnown = 4
  MaxAborts = 1
PROPERTIES MirrorsPeer MirrorForward Converges
