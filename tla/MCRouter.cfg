CONSTANTS
  h1 = h1 h2 = h2 h3 = h3
  a1 = a1 a2 = a2 a3 = a3
  Addrs = {a1, a2, a3}
  Names = {h1, h2, h3}
  Routes <- SharedRoutes
  Pickers = {p1, p2}
  Wrap = 4
SPECIFICATION Spec
INVARIANTS TypeOK NoAliveIsExhaustive AddressStaysInItsRoute DeadLeavesRotation
PROPERTY NoStarvation
