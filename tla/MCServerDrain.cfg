CONSTANTS
  c1 = c1 c2 = c2 c3 = c3 h1 = h1 h2 = h2 a1 = a1 a2 = a2
  Conns = {c1}
  Requests <- OneRequest
  Addrs = {a1, a2}
  Configs <- TwoTables
  MaxConns = 1
  MaxDials = 1
  Discovers = FALSE
  MaxReloads = 1
SPECIFICATION Spec
INVARIANT DrainedMeansNoTunnels
