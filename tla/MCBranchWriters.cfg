SPECIFICATION WritersSpec
CONSTANTS
  c1 = c1  alice = alice  bob = bob
  g = g  a = a  b = b  ab = ab  ba = ba  m = m  d = d
  w1 = w1  w2 = w2  main = main  dev = dev  peer = peer  None = None
  ContextId = {c1}
  AuthorId = {alice, bob}
  EventId = {g, a, b, ab, ba, m, d}
  RefName = {main, dev}
  PeerName = {peer}
  Body <- MCBody
  Provisions = {}
  Bundles = {}
  Writer = {w1, w2}
  IdentityOf <- MCIdentityOf
  Ctx = c1
INVARIANTS AckedStaysInHistory OneWinner NoOrphans
PROPERTY WritersAtomic
