CONSTANTS
  s1 = s1 s2 = s2
  Sessions = {s1, s2}
  Requests <- TwoPorts
  Literals = {"ip5"}
  DNS <- Names
  Base <- BaseConfig
  OperatorHosts <- OperatorKeys
  OperatorGroup = "new"
  OperatorAddrs <- OperatorAddresses
  Flat <- FlatName
  Numbered <- NumberedName
  Place <- KeyPlace
  QueueCap = 1
  TearsAgain = FALSE
SPECIFICATION Spec
INVARIANTS TypeOK OneDiscoveryPerKey RunningKeepsBase
PROPERTY DiscoverEnds
