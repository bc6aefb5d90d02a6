------------------------- MODULE InteractionHistory -------------------------
(***************************************************************************)
(* The conversation that GeminiTextGenerator keeps in Redis for each chat, *)
(* under InferenceRunner.run in several ml_worker processes: a run reads   *)
(* the stored contents, sends them to Gemini with the new prompt, and      *)
(* stores them again with prompt and answer added.  Nothing locks the key  *)
(* between the GET and the SET, and it expires a day after the last SET.   *)
(***************************************************************************)
EXTENDS Naturals, Sequences, FiniteSets

CONSTANTS
  Workers, Tasks, Chats,
  ChatOf,       \* ChatOf[t]: field interaction_id of task t
  Mocked,       \* the tasks that go to a worker with MockTextGenerator
  MaxFaults,    \* bound on failures, crashes and expiries
  None

ASSUME HistoryAssumption ==
  /\ ChatOf \in [Tasks -> Chats]
  /\ Mocked \subseteq Tasks
  /\ MaxFaults \in Nat
  /\ None \notin Tasks

VARIABLES
  stored,     \* stored[c]: the contents under interaction:<c>:history; no key is <<>>
  phase,      \* phase[w]: which await of generate worker w is in
  task,       \* task[w]: the task it runs, or None
  contents,   \* contents[w]: its local list
  status,     \* status[t]: of the result of t: "none" so far, COMPLETED, MOCKED, FAILED
  overlapped, \* history: chats of which two runs overlapped, or whose key expired in a run
  expired,    \* history: expired[c] are the tasks whose exchange expired with the key
  unsure,     \* history: tasks whose SET raised although Redis executed it
  faults

vars == <<stored, phase, task, contents, status, overlapped, expired, unsure, faults>>

Entries == [role : {"user", "model"}, task : Tasks]

Prompt(t) == [role |-> "user", task |-> t]
Reply(t) == [role |-> "model", task |-> t]

TypeOK ==
  /\ stored \in [Chats -> Seq(Entries)]
  /\ phase \in [Workers -> {"idle", "reading", "asking", "storing"}]
  /\ task \in [Workers -> Tasks \cup {None}]
  /\ contents \in [Workers -> Seq(Entries)]
  /\ status \in [Tasks -> {"none", "COMPLETED", "MOCKED", "FAILED", "dropped"}]
  /\ overlapped \subseteq Chats
  /\ expired \in [Chats -> SUBSET Tasks]
  /\ unsure \subseteq Tasks
  /\ faults \in Nat
  /\ \A w \in Workers : phase[w] = "idle" <=> task[w] = None

Init ==
  /\ stored = [c \in Chats |-> <<>>]
  /\ phase = [w \in Workers |-> "idle"]
  /\ task = [w \in Workers |-> None]
  /\ contents = [w \in Workers |-> <<>>]
  /\ status = [t \in Tasks |-> "none"]
  /\ overlapped = {}
  /\ expired = [c \in Chats |-> {}]
  /\ unsure = {}
  /\ faults = 0

Fault == faults < MaxFaults /\ faults' = faults + 1

Running(c) == {w \in Workers : task[w] # None /\ ChatOf[task[w]] = c}

Recorded(c) == {stored[c][i].task : i \in DOMAIN stored[c]}

-----------------------------------------------------------------------------
StartRun(w, t) ==
  /\ phase[w] = "idle"
  /\ status[t] = "none"
  /\ t \notin Mocked
  /\ \A v \in Workers : task[v] # t
  /\ phase' = [phase EXCEPT ![w] = "reading"]
  /\ task' = [task EXCEPT ![w] = t]
  /\ overlapped' = IF Running(ChatOf[t]) = {} THEN overlapped
                   ELSE overlapped \cup {ChatOf[t]}
  /\ UNCHANGED <<stored, contents, status, expired, unsure, faults>>

(* MockTextGenerator answers without Redis and Gemini.                     *)
MockRun(w, t) ==
  /\ phase[w] = "idle"
  /\ status[t] = "none"
  /\ t \in Mocked
  /\ status' = [status EXCEPT ![t] = "MOCKED"]
  /\ UNCHANGED <<stored, phase, task, contents, overlapped, expired, unsure, faults>>

(* Mutant of ReadHistory: the prompt is stored before Gemini is asked.     *)
ReadHistoryStoringPrompt(w) ==
  LET c == ChatOf[task[w]]
  IN  /\ phase[w] = "reading"
      /\ contents' = [contents EXCEPT ![w] = Append(stored[c], Prompt(task[w]))]
      /\ stored' = [stored EXCEPT ![c] = contents'[w]]
      /\ phase' = [phase EXCEPT ![w] = "asking"]
      /\ UNCHANGED <<task, status, overlapped, expired, unsure, faults>>

(* Mutant of ReadHistory: what GET returned is not used.                   *)
ReadNothing(w) ==
  /\ phase[w] = "reading"
  /\ contents' = [contents EXCEPT ![w] = <<Prompt(task[w])>>]
  /\ phase' = [phase EXCEPT ![w] = "asking"]
  /\ UNCHANGED <<stored, task, status, overlapped, expired, unsure, faults>>

(* GET, and the prompt appended to what it returned.                       *)
ReadHistory(w) ==
  /\ phase[w] = "reading"
  /\ contents' = [contents EXCEPT ![w] = Append(stored[ChatOf[task[w]]], Prompt(task[w]))]
  /\ phase' = [phase EXCEPT ![w] = "asking"]
  /\ UNCHANGED <<stored, task, status, overlapped, expired, unsure, faults>>

(* Gemini answers with a text, which is appended.                          *)
Ask(w) ==
  /\ phase[w] = "asking"
  /\ contents' = [contents EXCEPT ![w] = Append(@, Reply(task[w]))]
  /\ phase' = [phase EXCEPT ![w] = "storing"]
  /\ UNCHANGED <<stored, task, status, overlapped, expired, unsure, faults>>

Finish(w, s) ==
  /\ status' = [status EXCEPT ![task[w]] = s]
  /\ phase' = [phase EXCEPT ![w] = "idle"]
  /\ task' = [task EXCEPT ![w] = None]
  /\ contents' = [contents EXCEPT ![w] = <<>>]

Store(w) == stored' = [stored EXCEPT ![ChatOf[task[w]]] = contents[w]]

(* SET with the expiry of a day, and the result.                           *)
WriteHistory(w) ==
  /\ phase[w] = "storing"
  /\ Store(w)
  /\ Finish(w, "COMPLETED")
  /\ UNCHANGED <<overlapped, expired, unsure, faults>>

(* Mutant of RunFails: the contents are stored in a finally.               *)
RunFailsStoring(w) ==
  /\ phase[w] # "idle"
  /\ Fault
  /\ \E s \in {"FAILED", "dropped"} : Finish(w, s)
  /\ Store(w)
  /\ UNCHANGED <<overlapped, expired, unsure>>

(* The exceptions that InferenceRunner turns into a FAILED result: Redis,  *)
(* a request that times out or is refused, an answer without text; or the  *)
(* process stops and the task is dropped.  A SET may have been executed.   *)
RunFails(w) ==
  /\ phase[w] # "idle"
  /\ Fault
  /\ \E s \in {"FAILED", "dropped"} : Finish(w, s)
  /\ \/ UNCHANGED <<stored, unsure>>
     \/ /\ phase[w] = "storing"
        /\ Store(w)
        /\ unsure' = unsure \cup {task[w]}
  /\ UNCHANGED <<overlapped, expired>>

(* A day after the last SET.                                               *)
ExpireHistory(c) ==
  /\ stored[c] # <<>>
  /\ Fault
  /\ stored' = [stored EXCEPT ![c] = <<>>]
  /\ expired' = [expired EXCEPT ![c] = @ \cup Recorded(c)]
  /\ overlapped' = IF Running(c) = {} THEN overlapped ELSE overlapped \cup {c}
  /\ UNCHANGED <<phase, task, contents, status, unsure>>

WorkerStep(w) ==
  \/ \E t \in Tasks : StartRun(w, t) \/ MockRun(w, t)
  \/ ReadHistory(w) \/ Ask(w) \/ WriteHistory(w) \/ RunFails(w)

Next == (\E w \in Workers : WorkerStep(w)) \/ \E c \in Chats : ExpireHistory(c)

Spec == Init /\ [][Next]_vars

-----------------------------------------------------------------------------
(* The contents sent to Gemini are a conversation it accepts: complete     *)
(* exchanges of this chat, each a prompt and then its own answer, even     *)
(* when runs of the chat overlap, fail half-way or crash.                  *)
Conversation(c, seq) ==
  /\ Len(seq) % 2 = 0
  /\ \A i \in 1 .. Len(seq) :
       /\ ChatOf[seq[i].task] = c
       /\ i % 2 = 1 => seq[i].role = "user"
       /\ i % 2 = 0 => seq[i].role = "model" /\ seq[i].task = seq[i - 1].task

HistoryIsConversation == \A c \in Chats : Conversation(c, stored[c])

(* As long as no two runs of a chat overlapped, its history holds all its  *)
(* completed tasks, but for those the key expired with.                    *)
SerialRunsAreKept ==
  \A c \in Chats \ overlapped : \A t \in Tasks :
    status[t] = "COMPLETED" /\ ChatOf[t] = c => t \in Recorded(c) \cup expired[c]

(* A task of the history completed: one whose run failed is not in it,     *)
(* unless what failed is the SET itself, after Redis had executed it.      *)
RecordedIsCompleted ==
  \A c \in Chats : \A t \in Recorded(c) : status[t] = "COMPLETED" \/ t \in unsure
=============================================================================
