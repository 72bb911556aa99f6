SPECIFICATION Spec
CONSTANTS
  Trim <- Text
  NormalizeHost <- Text
  Rooted <- Text
  Listenable <- Listens
  Resolves <- Lookup
  Unusable = "unusable"
  HalfRange = 64
  Millisecond = 2
  Defaults <- Times
  Files <- NameFiles
  Addresses = {"x", "y"}
  SigCap = 2
  MaxRouters = 2
INVARIANT ServedIsProbed
