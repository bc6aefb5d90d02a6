SPECIFICATION Spec
CONSTANTS
  q1 = q1
  q2 = q2
  c1 = c1
  c2 = c2
  c3 = c3
  None = None
  Conversations = {c1, c2, c3}
  Queries = {q1, q2}
  Earlier <- MCEarlier
  HistoryLimit = 1
  ListLimit = 1
  MaxObjects = 4
  MaxLists = 2
INVARIANTS
  ChatsDoNotMix
  LoadingEnds
  LoadedIsComplete
CHECK_DEADLOCK FALSE
