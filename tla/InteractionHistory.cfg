SPECIFICATION Spec
CONSTANTS
  t1 = t1
  t2 = t2
  t3 = t3
  t4 = t4
  t5 = t5
  w1 = w1
  w2 = w2
  None = None
  Workers = {w1, w2}
  Tasks = {t1, t2, t3, t4, t5}
  Chats = {"chat1", "chat2"}
  ChatOf <- MCChatOf
  Mocked = {t5}
  MaxFaults = 2
SYMMETRY WorkerSymmetry
INVARIANTS
  HistoryIsConversation
  SerialRunsAreKept
  RecordedIsCompleted
CHECK_DEADLOCK FALSE
