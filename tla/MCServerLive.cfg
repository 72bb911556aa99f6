CONSTANTS
  c1 = c1 c2 = c2 c3 = c3 h1 = h1 h2 = h2 a1 = a1 a2 = a2
  Conns = {c1, c2, c3}
  Requests <- MissedRequest
  Addrs = {a1, a2}
  Configs <- OneTable
  MaxConns = 1
  MaxDials = 1
  Discovers = TRUE
  MaxReloads = 0
SPECIFICATION Spec
INVARIANT WithinLimits
PROPERTY ClientsAreServed
