SPECIFICATION FairSpec
CONSTANTS
  s1 = s1
  s2 = s2
  s3 = s3
  None = None
  Sockets = {s1, s2}
  TabOf <- MCTabOf
  Users = {"alice", "anonymous"}
  Tokens = {"tokenA", "expired", "anonymous"}
  Anonymous = "anonymous"
  JwtEnabled = TRUE
  Decoded <- MCDecoded
  Results = {"a", "b"}
  OwnerOf <- MCOwnerOf
  MaxPublications = 3
  MaxBreaks = 2
INVARIANTS
  OnlyOwnResults
  OrderKept
  NothingMissed
PROPERTIES
  DeadSocketIsReleased
CHECK_DEADLOCK FALSE
