----------------------- MODULE InteractionHistoryProofs -----------------------
(***************************************************************************)
(* Proofs about InteractionHistory, for any workers, tasks, chats and      *)
(* number of faults.                                                       *)
(***************************************************************************)
EXTENDS InteractionHistory, TLAPS

USE HistoryAssumption

-----------------------------------------------------------------------------
(* Types.                                                                  *)

LEMMA EntryTypes ==
  ASSUME NEW t \in Tasks
  PROVE  /\ Prompt(t) \in Entries /\ Prompt(t).role = "user" /\ Prompt(t).task = t
         /\ Reply(t) \in Entries /\ Reply(t).role = "model" /\ Reply(t).task = t
  BY DEF Prompt, Reply, Entries

(* A task is run by one worker, and has no result until then.              *)
RunInv ==
  /\ \A w \in Workers :
       task[w] # None => task[w] \in Tasks \ Mocked /\ status[task[w]] = "none"
  /\ \A v, w \in Workers : task[v] = task[w] /\ task[w] # None => v = w

TypeInv == TypeOK /\ RunInv

(* What is known of a worker that is in an await.                          *)
LEMMA BusyTypes ==
  ASSUME TypeInv, NEW w \in Workers, phase[w] # "idle"
  PROVE  /\ task[w] \in Tasks \ Mocked
         /\ status[task[w]] = "none"
         /\ ChatOf[task[w]] \in Chats
  BY DEF TypeInv, TypeOK, RunInv

LEMMA FinishTypes ==
  ASSUME TypeInv, NEW w \in Workers, phase[w] # "idle",
         NEW s \in {"COMPLETED", "FAILED", "dropped"}, Finish(w, s)
  PROVE  /\ status' \in [Tasks -> {"none", "COMPLETED", "MOCKED", "FAILED", "dropped"}]
         /\ phase' \in [Workers -> {"idle", "reading", "asking", "storing"}]
         /\ task' \in [Workers -> Tasks \cup {None}]
         /\ contents' \in [Workers -> Seq(Entries)]
         /\ \A v \in Workers : phase'[v] = "idle" <=> task'[v] = None
         /\ RunInv'
<1>1. task[w] \in Tasks
  BY BusyTypes
<1>2. <<>> \in Seq(Entries)
  OBVIOUS
<1>. QED
  BY <1>1, <1>2 DEF Finish, TypeInv, TypeOK, RunInv

LEMMA StoreTypes ==
  ASSUME TypeInv, NEW w \in Workers, phase[w] # "idle", Store(w)
  PROVE  stored' \in [Chats -> Seq(Entries)]
  BY BusyTypes DEF Store, TypeInv, TypeOK

LEMMA FaultType ==
  ASSUME TypeInv, Fault
  PROVE  faults' \in Nat
  BY DEF Fault, TypeInv, TypeOK

(* The tasks of a list of contents.                                        *)
TasksIn(seq) == {seq[i].task : i \in DOMAIN seq}

LEMMA TasksInEmpty == TasksIn(<<>>) = {}
  BY DEF TasksIn

LEMMA TasksInType ==
  ASSUME NEW s \in Seq(Entries)
  PROVE  TasksIn(s) \subseteq Tasks
<1>. SUFFICES ASSUME NEW i \in DOMAIN s
              PROVE  s[i].task \in Tasks
  BY DEF TasksIn
<1>1. s[i] \in Entries
  OBVIOUS
<1>. QED
  BY <1>1 DEF Entries

LEMMA TasksInAppend ==
  ASSUME NEW s \in Seq(Entries), NEW e \in Entries
  PROVE  TasksIn(Append(s, e)) = TasksIn(s) \cup {e.task}
<1>1. /\ Append(s, e) \in Seq(Entries)
      /\ DOMAIN s = 1 .. Len(s) /\ Len(s) \in Nat
      /\ DOMAIN Append(s, e) = 1 .. Len(s) + 1
      /\ \A i \in 1 .. Len(s) : Append(s, e)[i] = s[i]
      /\ Append(s, e)[Len(s) + 1] = e
  OBVIOUS
<1>2. ASSUME NEW t \in TasksIn(Append(s, e))
      PROVE  t \in TasksIn(s) \cup {e.task}
  BY <1>1 DEF TasksIn
<1>3. ASSUME NEW t \in TasksIn(s) \cup {e.task}
      PROVE  t \in TasksIn(Append(s, e))
  <2>1. CASE t = e.task
    BY <1>1, <2>1 DEF TasksIn
  <2>2. CASE t \in TasksIn(s)
    <3>1. PICK i \in 1 .. Len(s) : t = s[i].task
      BY <1>1, <2>2 DEF TasksIn
    <3>2. i \in 1 .. Len(s) + 1 /\ t = Append(s, e)[i].task
      BY <1>1, <3>1
    <3>. QED
      BY <1>1, <3>2 DEF TasksIn
  <2>. QED
    BY <1>3, <2>1, <2>2
<1>. QED
  BY <1>2, <1>3

LEMMA RecordedTasks ==
  \A c \in Chats : Recorded(c) = TasksIn(stored[c]) /\ Recorded(c)' = TasksIn(stored'[c])
  BY DEF Recorded, TasksIn

LEMMA NextTypeInv ==
  ASSUME TypeInv, [Next]_vars
  PROVE  TypeInv'
<1>. USE DEF TypeInv
<1>1. ASSUME NEW w \in Workers, NEW t \in Tasks, StartRun(w, t)
      PROVE  TypeInv'
  <2>1. ChatOf[t] \in Chats /\ t # None
    OBVIOUS
  <2>2. TypeOK'
    BY <1>1, <2>1 DEF StartRun, TypeOK
  <2>3. RunInv'
    BY <1>1, <2>1 DEF StartRun, TypeOK, RunInv
  <2>. QED
    BY <2>2, <2>3
<1>2. ASSUME NEW w \in Workers, NEW t \in Tasks, MockRun(w, t)
      PROVE  TypeInv'
  BY <1>2 DEF MockRun, TypeOK, RunInv
<1>3. ASSUME NEW w \in Workers, ReadHistory(w)
      PROVE  TypeInv'
  <2>1. task[w] \in Tasks /\ ChatOf[task[w]] \in Chats
    BY <1>3, BusyTypes DEF ReadHistory
  <2>2. Append(stored[ChatOf[task[w]]], Prompt(task[w])) \in Seq(Entries)
    BY <2>1, EntryTypes DEF TypeOK
  <2>. QED
    BY <1>3, <2>2 DEF ReadHistory, TypeOK, RunInv
<1>4. ASSUME NEW w \in Workers, Ask(w)
      PROVE  TypeInv'
  <2>1. task[w] \in Tasks
    BY <1>4, BusyTypes DEF Ask
  <2>2. Append(contents[w], Reply(task[w])) \in Seq(Entries)
    BY <2>1, EntryTypes DEF TypeOK
  <2>. QED
    BY <1>4, <2>2 DEF Ask, TypeOK, RunInv
<1>5. ASSUME NEW w \in Workers, WriteHistory(w)
      PROVE  TypeInv'
  BY <1>5, FinishTypes, StoreTypes DEF WriteHistory, TypeOK
<1>6. ASSUME NEW w \in Workers, RunFails(w)
      PROVE  TypeInv'
  <2>1. PICK s \in {"FAILED", "dropped"} : Finish(w, s)
    BY <1>6 DEF RunFails
  <2>2. faults' \in Nat
    BY <1>6, FaultType DEF RunFails
  <2>3. stored' \in [Chats -> Seq(Entries)] /\ unsure' \subseteq Tasks
    BY <1>6, BusyTypes, StoreTypes DEF RunFails, TypeOK
  <2>. QED
    BY <1>6, <2>1, <2>2, <2>3, FinishTypes DEF RunFails, TypeOK
<1>7. ASSUME NEW c \in Chats, ExpireHistory(c)
      PROVE  TypeInv'
  <2>1. faults' \in Nat
    BY <1>7, FaultType DEF ExpireHistory
  <2>2. Recorded(c) \subseteq Tasks
    BY RecordedTasks, TasksInType DEF TypeOK
  <2>3. stored' \in [Chats -> Seq(Entries)]
    BY <1>7 DEF ExpireHistory, TypeOK
  <2>. QED
    BY <1>7, <2>1, <2>2, <2>3 DEF ExpireHistory, TypeOK, RunInv
<1>8. CASE UNCHANGED vars
  BY <1>8 DEF vars, TypeOK, RunInv
<1>. QED
  BY <1>1, <1>2, <1>3, <1>4, <1>5, <1>6, <1>7, <1>8 DEF Next, WorkerStep

LEMMA InitTypeInv == Init => TypeInv
  BY DEF Init, TypeInv, TypeOK, RunInv

LEMMA TypeInvAlways == Spec => []TypeInv
  BY InitTypeInv, NextTypeInv, PTL DEF Spec

(* The types of the workers and of what they store.                        *)
THEOREM HistoryTypeCorrect == Spec => []TypeOK
<1>1. TypeInv => TypeOK
  BY DEF TypeInv
<1>. QED
  BY <1>1, TypeInvAlways, PTL

-----------------------------------------------------------------------------
(* Conversations.                                                          *)

LEMMA EmptyIsConversation == \A c \in Chats : Conversation(c, <<>>)
  BY DEF Conversation

LEMMA ExchangeIsConversation ==
  ASSUME NEW c \in Chats, NEW s \in Seq(Entries), Conversation(c, s),
         NEW t \in Tasks, ChatOf[t] = c
  PROVE  Conversation(c, Append(Append(s, Prompt(t)), Reply(t)))
<1>. DEFINE n == Len(s)
            u == Append(Append(s, Prompt(t)), Reply(t))
<1>1. n \in Nat /\ n % 2 = 0
  BY DEF Conversation
<1>2. /\ Len(u) = n + 2
      /\ u[n + 1] = Prompt(t) /\ u[n + 2] = Reply(t)
      /\ \A i \in 1 .. n : u[i] = s[i]
  <2>1. Append(s, Prompt(t)) \in Seq(Entries)
    BY EntryTypes
  <2>. QED
    BY <2>1, EntryTypes
<1>. HIDE DEF u
<1>3. (n + 2) % 2 = 0 /\ (n + 1) % 2 = 1
  BY <1>1
<1>4. ASSUME NEW i \in 1 .. Len(u)
      PROVE  /\ ChatOf[u[i].task] = c
             /\ i % 2 = 1 => u[i].role = "user"
             /\ i % 2 = 0 => u[i].role = "model" /\ u[i].task = u[i - 1].task
  <2>1. CASE i \in 1 .. n
    <3>1. /\ ChatOf[s[i].task] = c
          /\ i % 2 = 1 => s[i].role = "user"
          /\ i % 2 = 0 => s[i].role = "model" /\ s[i].task = s[i - 1].task
      BY <2>1 DEF Conversation
    <3>2. i % 2 = 0 => i - 1 \in 1 .. n
      BY <1>1, <2>1
    <3>. QED
      BY <1>2, <2>1, <3>1, <3>2
  <2>2. CASE i = n + 1
    BY <1>1, <1>2, <1>3, <2>2, EntryTypes
  <2>3. CASE i = n + 2
    BY <1>1, <1>2, <1>3, <2>3, EntryTypes
  <2>. QED
    BY <1>1, <1>2, <2>1, <2>2, <2>3
<1>5. Conversation(c, u)
  BY <1>2, <1>3, <1>4 DEF Conversation
<1>. QED
  BY <1>5 DEF u

(* What a run sends is a conversation and one prompt more.                 *)
Question(c, t, seq) ==
  \E s \in Seq(Entries) : Conversation(c, s) /\ seq = Append(s, Prompt(t))

ConversationInv ==
  /\ HistoryIsConversation
  /\ \A w \in Workers :
       /\ phase[w] = "asking" => Question(ChatOf[task[w]], task[w], contents[w])
       /\ phase[w] = "storing" => Conversation(ChatOf[task[w]], contents[w])

(* A run that ends, and stores its contents or leaves the key alone.       *)
LEMMA EndKeepsConversation ==
  ASSUME TypeInv, ConversationInv, NEW w \in Workers, phase[w] # "idle",
         NEW s \in {"COMPLETED", "FAILED", "dropped"}, Finish(w, s),
         \/ UNCHANGED stored
         \/ phase[w] = "storing" /\ Store(w)
  PROVE  ConversationInv'
<1>1. task[w] \in Tasks /\ ChatOf[task[w]] \in Chats
  BY BusyTypes
<1>2. HistoryIsConversation'
  BY <1>1 DEF ConversationInv, HistoryIsConversation, Store, TypeInv, TypeOK
<1>3. ASSUME NEW v \in Workers
      PROVE  /\ phase'[v] = "asking" => Question(ChatOf[task'[v]], task'[v], contents'[v])
             /\ phase'[v] = "storing" => Conversation(ChatOf[task'[v]], contents'[v])
  <2>1. CASE v = w
    BY <2>1 DEF Finish, TypeInv, TypeOK
  <2>2. CASE v # w
    BY <2>2 DEF Finish, TypeInv, TypeOK, ConversationInv
  <2>. QED
    BY <2>1, <2>2
<1>. QED
  BY <1>2, <1>3 DEF ConversationInv, Question

LEMMA NextConversationInv ==
  ASSUME TypeInv, ConversationInv, [Next]_vars
  PROVE  ConversationInv'
<1>. USE DEF TypeInv
<1>1. ASSUME NEW w \in Workers, NEW t \in Tasks, StartRun(w, t)
      PROVE  ConversationInv'
  BY <1>1 DEF StartRun, TypeOK, ConversationInv, HistoryIsConversation, Question
<1>2. ASSUME NEW w \in Workers, NEW t \in Tasks, MockRun(w, t)
      PROVE  ConversationInv'
  BY <1>2 DEF MockRun, ConversationInv, HistoryIsConversation, Question
<1>3. ASSUME NEW w \in Workers, ReadHistory(w)
      PROVE  ConversationInv'
  <2>1. task[w] \in Tasks /\ ChatOf[task[w]] \in Chats
    BY <1>3, BusyTypes DEF ReadHistory
  <2>2. Question(ChatOf[task[w]], task[w], contents'[w])
    BY <1>3, <2>1 DEF ReadHistory, TypeOK, Question, ConversationInv, HistoryIsConversation
  <2>3. /\ phase'[w] = "asking" /\ task' = task /\ stored' = stored
        /\ \A v \in Workers \ {w} : phase'[v] = phase[v] /\ contents'[v] = contents[v]
    BY <1>3 DEF ReadHistory, TypeOK
  <2>. QED
    BY <2>2, <2>3 DEF ConversationInv, HistoryIsConversation, Question
<1>4. ASSUME NEW w \in Workers, Ask(w)
      PROVE  ConversationInv'
  <2>1. task[w] \in Tasks /\ ChatOf[task[w]] \in Chats
    BY <1>4, BusyTypes DEF Ask
  <2>2. PICK s \in Seq(Entries) :
          Conversation(ChatOf[task[w]], s) /\ contents[w] = Append(s, Prompt(task[w]))
    BY <1>4 DEF Ask, ConversationInv, Question
  <2>3. contents'[w] = Append(Append(s, Prompt(task[w])), Reply(task[w]))
    BY <1>4, <2>2 DEF Ask, TypeOK
  <2>4. Conversation(ChatOf[task[w]], contents'[w])
    BY <2>1, <2>2, <2>3, ExchangeIsConversation
  <2>5. /\ phase'[w] = "storing" /\ task' = task /\ stored' = stored
        /\ \A v \in Workers \ {w} : phase'[v] = phase[v] /\ contents'[v] = contents[v]
    BY <1>4 DEF Ask, TypeOK
  <2>. QED
    BY <2>4, <2>5 DEF ConversationInv, HistoryIsConversation, Question
<1>5. ASSUME NEW w \in Workers, WriteHistory(w)
      PROVE  ConversationInv'
  BY <1>5, EndKeepsConversation DEF WriteHistory
<1>6. ASSUME NEW w \in Workers, RunFails(w)
      PROVE  ConversationInv'
  BY <1>6, EndKeepsConversation DEF RunFails
<1>7. ASSUME NEW c \in Chats, ExpireHistory(c)
      PROVE  ConversationInv'
  <2>1. HistoryIsConversation'
    BY <1>7, EmptyIsConversation
    DEF ExpireHistory, TypeOK, ConversationInv, HistoryIsConversation
  <2>. QED
    BY <1>7, <2>1 DEF ExpireHistory, ConversationInv, Question
<1>8. CASE UNCHANGED vars
  BY <1>8 DEF vars, ConversationInv, HistoryIsConversation, Question
<1>. QED
  BY <1>1, <1>2, <1>3, <1>4, <1>5, <1>6, <1>7, <1>8 DEF Next, WorkerStep

(* Whatever overlaps, fails or crashes, the history of a chat consists of  *)
(* complete exchanges of the chat.                                         *)
THEOREM HistoryStaysConversation == Spec => []HistoryIsConversation
<1>1. Init => ConversationInv
  BY EmptyIsConversation DEF Init, ConversationInv, HistoryIsConversation
<1>2. TypeInv /\ ConversationInv /\ [Next]_vars => ConversationInv'
  BY NextConversationInv
<1>3. ConversationInv => HistoryIsConversation
  BY DEF ConversationInv
<1>. QED
  BY <1>1, <1>2, <1>3, TypeInvAlways, PTL DEF Spec

-----------------------------------------------------------------------------
(* What is recorded completed.                                             *)

(* The tasks whose exchange Redis has, or had.                             *)
Kept == {t \in Tasks : status[t] = "COMPLETED"} \cup unsure

RecordedInv ==
  /\ \A c \in Chats : TasksIn(stored[c]) \subseteq Kept
  /\ \A w \in Workers : phase[w] \in {"asking", "storing"} =>
       TasksIn(contents[w]) \subseteq Kept \cup {task[w]}

LEMMA RunEndsKept ==
  ASSUME TypeInv, RecordedInv, NEW w \in Workers, phase[w] # "idle",
         NEW s \in {"COMPLETED", "FAILED", "dropped"}, Finish(w, s),
         \/ UNCHANGED <<stored, unsure>>
         \/ /\ phase[w] = "storing" /\ Store(w)
            /\ \/ s = "COMPLETED" /\ unsure' = unsure
               \/ unsure' = unsure \cup {task[w]}
  PROVE  RecordedInv'
<1>1. task[w] \in Tasks /\ status[task[w]] = "none" /\ ChatOf[task[w]] \in Chats
  BY BusyTypes
<1>2. Kept \subseteq Kept'
  BY <1>1 DEF Kept, Finish, TypeInv, TypeOK
<1>3. /\ phase'[w] = "idle"
      /\ \A v \in Workers \ {w} :
           phase'[v] = phase[v] /\ contents'[v] = contents[v] /\ task'[v] = task[v]
  BY DEF Finish, TypeInv, TypeOK
<1>4. ASSUME NEW c \in Chats
      PROVE  TasksIn(stored'[c]) \subseteq Kept'
  <2>1. CASE stored'[c] = stored[c]
    BY <1>2, <2>1 DEF RecordedInv
  <2>2. CASE stored'[c] # stored[c]
    <3>1. phase[w] = "storing" /\ stored'[c] = contents[w]
      BY <1>1, <2>2 DEF Store, TypeInv, TypeOK
    <3>2. task[w] \in Kept'
      BY <1>1, <2>2 DEF Kept, Finish, TypeInv, TypeOK
    <3>. QED
      BY <1>2, <3>1, <3>2 DEF RecordedInv
  <2>. QED
    BY <2>1, <2>2
<1>. QED
  BY <1>2, <1>3, <1>4 DEF RecordedInv

LEMMA NextRecordedInv ==
  ASSUME TypeInv, RecordedInv, [Next]_vars
  PROVE  RecordedInv'
<1>. USE DEF TypeInv
<1>1. ASSUME NEW w \in Workers, NEW t \in Tasks, StartRun(w, t)
      PROVE  RecordedInv'
  BY <1>1 DEF StartRun, TypeOK, RecordedInv, Kept
<1>2. ASSUME NEW w \in Workers, NEW t \in Tasks, MockRun(w, t)
      PROVE  RecordedInv'
  <2>1. Kept' = Kept
    BY <1>2 DEF MockRun, Kept, TypeOK
  <2>. QED
    BY <1>2, <2>1 DEF MockRun, RecordedInv
<1>3. ASSUME NEW w \in Workers, ReadHistory(w)
      PROVE  RecordedInv'
  <2>1. task[w] \in Tasks /\ ChatOf[task[w]] \in Chats
    BY <1>3, BusyTypes DEF ReadHistory
  <2>2. TasksIn(contents'[w]) = TasksIn(stored[ChatOf[task[w]]]) \cup {task[w]}
    BY <1>3, <2>1, TasksInAppend, EntryTypes DEF ReadHistory, TypeOK
  <2>3. /\ Kept' = Kept /\ task' = task /\ stored' = stored
        /\ \A v \in Workers \ {w} : phase'[v] = phase[v] /\ contents'[v] = contents[v]
    BY <1>3 DEF ReadHistory, TypeOK, Kept
  <2>. QED
    BY <2>1, <2>2, <2>3 DEF RecordedInv
<1>4. ASSUME NEW w \in Workers, Ask(w)
      PROVE  RecordedInv'
  <2>1. task[w] \in Tasks /\ phase[w] = "asking"
    BY <1>4, BusyTypes DEF Ask
  <2>2. TasksIn(contents'[w]) = TasksIn(contents[w]) \cup {task[w]}
    <3>1. contents'[w] = Append(contents[w], Reply(task[w])) /\ contents[w] \in Seq(Entries)
      BY <1>4 DEF Ask, TypeOK
    <3>. QED
      BY <2>1, <3>1, TasksInAppend, EntryTypes
  <2>3. /\ Kept' = Kept /\ task' = task /\ stored' = stored
        /\ \A v \in Workers \ {w} : phase'[v] = phase[v] /\ contents'[v] = contents[v]
    BY <1>4 DEF Ask, TypeOK, Kept
  <2>. QED
    BY <2>1, <2>2, <2>3 DEF RecordedInv
<1>5. ASSUME NEW w \in Workers, WriteHistory(w)
      PROVE  RecordedInv'
  BY <1>5, RunEndsKept DEF WriteHistory
<1>6. ASSUME NEW w \in Workers, RunFails(w)
      PROVE  RecordedInv'
  BY <1>6, RunEndsKept DEF RunFails
<1>7. ASSUME NEW c \in Chats, ExpireHistory(c)
      PROVE  RecordedInv'
  BY <1>7, TasksInEmpty DEF ExpireHistory, TypeOK, RecordedInv, Kept
<1>8. CASE UNCHANGED vars
  BY <1>8 DEF vars, RecordedInv, Kept
<1>. QED
  BY <1>1, <1>2, <1>3, <1>4, <1>5, <1>6, <1>7, <1>8 DEF Next, WorkerStep

(* The history holds no exchange of a run that failed, unless its SET      *)
(* raised after Redis had executed it.                                     *)
THEOREM RecordedHasCompleted == Spec => []RecordedIsCompleted
<1>1. Init => RecordedInv
  BY TasksInEmpty DEF Init, RecordedInv
<1>2. TypeInv /\ RecordedInv /\ [Next]_vars => RecordedInv'
  BY NextRecordedInv
<1>3. RecordedInv => RecordedIsCompleted
  BY RecordedTasks DEF RecordedInv, RecordedIsCompleted, Kept
<1>. QED
  BY <1>1, <1>2, <1>3, TypeInvAlways, PTL DEF Spec

-----------------------------------------------------------------------------
(* Runs of a chat that do not overlap.                                     *)

RunsIn(w, c) == task[w] # None /\ ChatOf[task[w]] = c

(* One run at a time, which has read all that is recorded and is about to  *)
(* store itself, and the goal.                                             *)
SerialChat(c) ==
  /\ \A v, w \in Workers : RunsIn(v, c) /\ RunsIn(w, c) => v = w
  /\ \A w \in Workers : RunsIn(w, c) =>
       /\ phase[w] \in {"asking", "storing"} => TasksIn(stored[c]) \subseteq TasksIn(contents[w])
       /\ phase[w] = "storing" => task[w] \in TasksIn(contents[w])
  /\ \A t \in Tasks : status[t] = "COMPLETED" /\ ChatOf[t] = c =>
       t \in TasksIn(stored[c]) \cup expired[c]

SerialInv == \A c \in Chats \ overlapped : SerialChat(c)

LEMMA EndKeepsSerial ==
  ASSUME TypeInv, SerialInv, NEW w \in Workers, phase[w] # "idle",
         NEW s \in {"COMPLETED", "FAILED", "dropped"}, Finish(w, s),
         \/ UNCHANGED stored /\ s # "COMPLETED"
         \/ phase[w] = "storing" /\ Store(w),
         UNCHANGED <<overlapped, expired>>
  PROVE  SerialInv'
<1>. SUFFICES ASSUME NEW c \in Chats \ overlapped
              PROVE  SerialChat(c)'
  BY DEF SerialInv
<1>0. SerialChat(c)
  BY DEF SerialInv
<1>1. task[w] \in Tasks /\ ChatOf[task[w]] \in Chats
  BY BusyTypes
<1>2. /\ ~RunsIn(w, c)'
      /\ \A v \in Workers \ {w} :
           /\ phase'[v] = phase[v] /\ contents'[v] = contents[v] /\ task'[v] = task[v]
           /\ RunsIn(v, c)' <=> RunsIn(v, c)
  BY DEF Finish, TypeInv, TypeOK, RunsIn
<1>3. /\ status'[task[w]] = s
      /\ \A t \in Tasks \ {task[w]} : status'[t] = status[t]
  BY <1>1 DEF Finish, TypeInv, TypeOK
<1>4. CASE RunsIn(w, c)
  <2>1. \A v \in Workers : ~RunsIn(v, c)'
    BY <1>0, <1>2, <1>4 DEF SerialChat
  <2>2. CASE stored' = stored /\ s # "COMPLETED"
    BY <1>0, <1>3, <2>1, <2>2 DEF SerialChat
  <2>3. CASE phase[w] = "storing" /\ Store(w)
    <3>1. stored'[c] = contents[w]
      BY <1>1, <1>4, <2>3 DEF Store, RunsIn, TypeInv, TypeOK
    <3>2. TasksIn(stored[c]) \cup {task[w]} \subseteq TasksIn(stored'[c])
      BY <1>0, <1>4, <2>3, <3>1 DEF SerialChat
    <3>. QED
      BY <1>0, <1>3, <2>1, <3>2 DEF SerialChat
  <2>. QED
    BY <2>2, <2>3
<1>5. CASE ~RunsIn(w, c)
  <2>1. ChatOf[task[w]] # c
    BY <1>1, <1>5 DEF RunsIn
  <2>2. stored'[c] = stored[c]
    BY <1>1, <2>1 DEF Store, TypeInv, TypeOK
  <2>. QED
    BY <1>0, <1>2, <1>3, <2>1, <2>2 DEF SerialChat
<1>. QED
  BY <1>4, <1>5

LEMMA NextSerialInv ==
  ASSUME TypeInv, SerialInv, [Next]_vars
  PROVE  SerialInv'
<1>. USE DEF TypeInv
<1>1. ASSUME NEW w \in Workers, NEW t \in Tasks, StartRun(w, t)
      PROVE  SerialInv'
  <2>. SUFFICES ASSUME NEW c \in Chats \ overlapped'
                PROVE  SerialChat(c)'
    BY DEF SerialInv
  <2>0. SerialChat(c)
    BY <1>1 DEF StartRun, SerialInv
  <2>1. /\ phase'[w] = "reading" /\ task'[w] = t /\ t # None /\ task[w] = None
        /\ \A v \in Workers \ {w} : phase'[v] = phase[v] /\ task'[v] = task[v]
        /\ contents' = contents /\ stored' = stored /\ status' = status /\ expired' = expired
    BY <1>1 DEF StartRun, TypeOK
  <2>2. ChatOf[t] = c => \A v \in Workers : ~RunsIn(v, c)
    BY <1>1 DEF StartRun, Running, RunsIn
  <2>. QED
    BY <2>0, <2>1, <2>2 DEF SerialChat, RunsIn
<1>2. ASSUME NEW w \in Workers, NEW t \in Tasks, MockRun(w, t)
      PROVE  SerialInv'
  <2>1. /\ \A u \in Tasks : status'[u] = "COMPLETED" => status[u] = "COMPLETED"
        /\ UNCHANGED <<stored, phase, task, contents, overlapped, expired>>
    BY <1>2 DEF MockRun, TypeOK
  <2>. QED
    BY <2>1 DEF SerialInv, SerialChat, RunsIn
<1>3. ASSUME NEW w \in Workers, ReadHistory(w)
      PROVE  SerialInv'
  <2>1. task[w] \in Tasks /\ ChatOf[task[w]] \in Chats
    BY <1>3, BusyTypes DEF ReadHistory
  <2>2. TasksIn(contents'[w]) = TasksIn(stored[ChatOf[task[w]]]) \cup {task[w]}
    BY <1>3, <2>1, TasksInAppend, EntryTypes DEF ReadHistory, TypeOK
  <2>3. /\ UNCHANGED <<stored, task, status, overlapped, expired>>
        /\ phase'[w] = "asking"
        /\ \A v \in Workers \ {w} : phase'[v] = phase[v] /\ contents'[v] = contents[v]
    BY <1>3 DEF ReadHistory, TypeOK
  <2>. QED
    BY <2>2, <2>3 DEF SerialInv, SerialChat, RunsIn
<1>4. ASSUME NEW w \in Workers, Ask(w)
      PROVE  SerialInv'
  <2>1. task[w] \in Tasks /\ phase[w] = "asking"
    BY <1>4, BusyTypes DEF Ask
  <2>2. TasksIn(contents'[w]) = TasksIn(contents[w]) \cup {task[w]}
    <3>1. contents'[w] = Append(contents[w], Reply(task[w])) /\ contents[w] \in Seq(Entries)
      BY <1>4 DEF Ask, TypeOK
    <3>. QED
      BY <2>1, <3>1, TasksInAppend, EntryTypes
  <2>3. /\ UNCHANGED <<stored, task, status, overlapped, expired>>
        /\ \A v \in Workers \ {w} : phase'[v] = phase[v] /\ contents'[v] = contents[v]
    BY <1>4 DEF Ask, TypeOK
  <2>. QED
    BY <2>1, <2>2, <2>3 DEF SerialInv, SerialChat, RunsIn
<1>5. ASSUME NEW w \in Workers, WriteHistory(w)
      PROVE  SerialInv'
  BY <1>5, EndKeepsSerial DEF WriteHistory
<1>6. ASSUME NEW w \in Workers, RunFails(w)
      PROVE  SerialInv'
  <2>1. PICK s \in {"FAILED", "dropped"} : Finish(w, s)
    BY <1>6 DEF RunFails
  <2>. QED
    BY <1>6, <2>1, EndKeepsSerial DEF RunFails
<1>7. ASSUME NEW d \in Chats, ExpireHistory(d)
      PROVE  SerialInv'
  <2>. SUFFICES ASSUME NEW c \in Chats \ overlapped'
                PROVE  SerialChat(c)'
    BY DEF SerialInv
  <2>0. SerialChat(c)
    BY <1>7 DEF ExpireHistory, SerialInv
  <2>1. UNCHANGED <<phase, task, contents, status>>
    BY <1>7 DEF ExpireHistory
  <2>2. CASE c = d
    <3>1. \A v \in Workers : ~RunsIn(v, c)
      BY <1>7, <2>2 DEF ExpireHistory, Running, RunsIn
    <3>2. expired'[c] = expired[c] \cup TasksIn(stored[c])
      BY <1>7, <2>2, RecordedTasks DEF ExpireHistory, TypeOK
    <3>. QED
      BY <2>0, <2>1, <3>1, <3>2 DEF SerialChat, RunsIn
  <2>3. CASE c # d
    <3>1. stored'[c] = stored[c] /\ expired'[c] = expired[c]
      BY <1>7, <2>3 DEF ExpireHistory, TypeOK
    <3>. QED
      BY <2>0, <2>1, <3>1 DEF SerialChat, RunsIn
  <2>. QED
    BY <2>2, <2>3
<1>8. CASE UNCHANGED vars
  BY <1>8 DEF vars, SerialInv, SerialChat, RunsIn
<1>. QED
  BY <1>1, <1>2, <1>3, <1>4, <1>5, <1>6, <1>7, <1>8 DEF Next, WorkerStep

(* Without overlapping runs a chat's history has all its completed tasks.  *)
THEOREM SerialRunsStay == Spec => []SerialRunsAreKept
<1>1. Init => SerialInv
  BY DEF Init, SerialInv, SerialChat, RunsIn
<1>2. TypeInv /\ SerialInv /\ [Next]_vars => SerialInv'
  BY NextSerialInv
<1>3. SerialInv => SerialRunsAreKept
  BY RecordedTasks DEF SerialInv, SerialChat, SerialRunsAreKept
<1>. QED
  BY <1>1, <1>2, <1>3, TypeInvAlways, PTL DEF Spec
=============================================================================
