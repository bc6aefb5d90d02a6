SPECIFICATION Spec
CONSTANTS
  r1 = r1
  r2 = r2
  r3 = r3
  w1 = w1
  w2 = w2
  o1 = o1
  o2 = o2
  None = None
  Requests = {r1, r2, r3}
  Workers = {w1, w2}
  Orchestrators = {o1}
  Users = {"alice", "bob"}
  Chats = {"chat1", "chat2"}
  Correlations = {"x", "y"}
  UserOf <- MCUserOf
  ChatOf <- MCChatOf
  CorrelationOf <- MCCorrelationOf
  HostOf <- MCHostOf
  EmptyPrompt <- MCEmptyPrompt
  RedisRetries = TRUE
  MaxFaults = 2
SYMMETRY WorkerSymmetry
INVARIANTS
  TypeOK
  MessagesMatchRows
  OneOutcomePerQuery
  PublishedAgreesWithRow
  NoSilentLoss
PROPERTIES
  SettledRowsFrozen
  LifecycleSpec
