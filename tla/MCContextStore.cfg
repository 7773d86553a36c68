SPECIFICATION Spec
CONSTANTS
  c1 = c1  c2 = c2  a1 = a1  a2 = a2
  g1 = g1  x1 = x1  y1 = y1  m1 = m1  s1 = s1  g2 = g2  z2 = z2
  main = main  dev = dev  peer = peer  None = None
  ContextId = {c1, c2}
  AuthorId = {a1, a2}
  EventId = {g1, x1, y1, m1, s1, g2, z2}
  RefName = {main, dev}
  PeerName = {peer}
  Body <- MCBody
  Provisions <- MCProvisions
  Bundles <- MCBundles
  Rank <- MCRank
  Unreadable = Unreadable
  ProjectionEvents = 3
INVARIANTS TypeOK HistoryRooted VerifiesClean DamageFound
SYMMETRY Symmetric
