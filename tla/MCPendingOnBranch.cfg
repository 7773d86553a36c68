SPECIFICATION InvocationSpec
CONSTANTS
  c1 = c1  alice = alice
  g = g  r1 = r1  r2 = r2  p1 = p1  x1 = x1  n1 = n1  m = m
  i1 = i1  i2 = i2  main = main  dev = dev  peer = peer  None = None
  ContextId = {c1}
  AuthorId = {alice}
  EventId = {g, r1, r2, p1, x1, n1, m}
  RefName = {main, dev}
  PeerName = {peer}
  Body <- MCBody
  Provisions = {}
  Bundles = {}
  Invoker = {i1, i2}
  IdentityOf <- MCIdentityOf
  Ctx = c1
  QueryLimits = {2}
INVARIANTS PendingOnBranch
SYMMETRY Symmetric
