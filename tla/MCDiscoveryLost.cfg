CONSTANTS
  s1 = s1 s2 = s2
  Sessions = {s1, s2}
  Requests <- TwoHosts
  Literals = {"ip5"}
  DNS <- Names
  Base <- BaseConfig
  OperatorHosts <- NoKeys
  OperatorGroup = "new"
  OperatorAddrs <- OperatorAddresses
  Flat <- FlatName
  Numbered <- NumberedName
  Place <- KeyPlace
  QueueCap = 1
  TearsAgain = FALSE
SPECIFICATION Spec
CHECK_DEADLOCK FALSE
INVARIANT AddedIsServed
