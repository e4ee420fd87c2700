SPECIFICATION FairSpec
CONSTANTS
  Nonces = {n1, n2}
  Backlog = 1
  Rare = {"cut", "redis", "getdel", "fault", "setup", "other", "reattach"}
  RareBound = 1
INVARIANTS TypeOK NonceOnce NewsIsUnderWay
PROPERTIES CodeIsShown LinkIsNoticed
CHECK_DEADLOCK FALSE
