SPECIFICATION Spec
CONSTANTS
  Queries = {1, 2, 3, 4}
  Users = {"alice", "bob"}
  Chats = {"a", "b"}
  UserOf <- MCUserOf
  ChatOf <- MCChatOf
  CreatedAt <- MCCreatedAt
  Reader = "alice"
  OpenChat = "a"
  Limits = {0, 2, 3}
  DefaultLimit = 1
  MaxLimit = 2
  MaxReads = 1
INVARIANTS
  NothingSkipped
  QuietReadIsExact
  CompletedHasResponse
CHECK_DEADLOCK FALSE
