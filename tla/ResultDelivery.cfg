SPECIFICATION DeliveryFairSpec
CONSTANTS
  r1 = r1
  r2 = r2
  s1 = s1
  None = None
  Requests = {r1}
  Workers = {"w1"}
  Orchestrators = {"o1"}
  Users = {"alice", "anonymous"}
  Chats = {"chat"}
  Correlations = {r1}
  UserOf <- MCUserOf
  ChatOf <- MCChatOf
  CorrelationOf <- MCCorrelationOf
  HostOf <- MCHostOf
  EmptyPrompt = {}
  RedisRetries = TRUE
  MaxFaults = 1
  Sockets = {s1}
  TabOf <- MCTabOf
  Tokens = {"alice", "anonymous"}
  Anonymous = "anonymous"
  JwtEnabled = TRUE
  Decoded <- MCDecoded
  MaxPublications = 2
  MaxBreaks = 1
INVARIANTS
  ShownAgreesWithRow
PROPERTIES
  StoredIsShown
CHECK_DEADLOCK FALSE
