--------------------------- MODULE PipelineProofs ---------------------------
(***************************************************************************)
(* Proofs about Pipeline, for any sets of requests, workers and            *)
(* orchestrators and any number of faults, and, at the end, about          *)
(* ResultDelivery: what a page is shown is right, from what is proved here *)
(* about what is published and in WebSocketBridgeProofs about what sockets *)
(* carry.                                                                  *)
(***************************************************************************)
EXTENDS ResultDelivery, TLAPS, SequenceTheorems

USE PipelineAssumption

-----------------------------------------------------------------------------
(* Type correctness.  The conjunct on lost is proved apart from the rest.  *)

LEMMA TaskOfType == \A r \in Requests : TaskOf(r) \in Tasks
  BY DEF TaskOf, Tasks

LEMMA RunResultsType ==
  ASSUME NEW t \in Tasks
  PROVE  RunResults(t) \subseteq Results
  BY DEF RunResults, Tasks, Results

LEMMA InitTypeOK == Init => TypeOK
  BY DEF Init, TypeOK, RowsType, WorkType, ConsumerType, LostType

LEMMA QueryOfMessage ==
  /\ \A t \in Tasks : t.query \in Requests
  /\ \A m \in Results : m.query \in Requests /\ m.chat \in Chats
  BY DEF Tasks, Results

(* Popping from and pushing to a Redis list.                               *)
LEMMA QueueTypes ==
  ASSUME NEW S, NEW q \in Seq(S)
  PROVE  /\ q # <<>> => Head(q) \in S /\ Tail(q) \in Seq(S)
         /\ \A m \in S : Append(q, m) \in Seq(S)
  OBVIOUS

LEMMA LosesType ==
  ASSUME LostType, NEW q \in Requests, NEW where \in LossPoints, Loses(q, where)
  PROVE  LostType'
<1>1. lost[q] \cup {where} \in SUBSET LossPoints
  BY DEF LostType
<1>. QED
  BY <1>1 DEF LostType, Loses

(* What a step that is not OrchestratorCrash does to lost.                 *)
LostStep ==
  \/ UNCHANGED lost
  \/ \E q \in Requests : \E where \in LossPoints : Loses(q, where)

LEMMA LostStepType == LostType /\ LostStep => LostType'
  BY LosesType DEF LostStep, LostType

LEMMA FaultsType ==
  ASSUME faults \in Nat, UNCHANGED faults \/ Fault
  PROVE  faults' \in Nat
  BY DEF Fault

-----------------------------------------------------------------------------
(* What the steps of each process do to each variable, whichever of its    *)
(* actions they are.  The invariance proofs below start from these facts.  *)

HandlerAction(r) ==
  CommitQuery(r) \/ CommitQueryConflict(r) \/ CommitQueryFails(r) \/ HandlerStep(r)

LEMMA HandlerEffects ==
  ASSUME NEW r \in Requests, HandlerAction(r)
  PROVE  /\ \/ UNCHANGED handler
            \/ \E h \in {"committed", "published", "accepted", "error"} :
                 handler' = [handler EXCEPT ![r] = h]
         /\ UNCHANGED <<state, chat>> \/ (StoreRow(r) /\ ~CorrelationTaken(r))
         /\ taskQueue' = taskQueue
              \/ (handler[r] = "committed" /\ taskQueue' = Append(taskQueue, TaskOf(r)))
         /\ UNCHANGED <<responses, logs, job, produced, resultQueue, step, inbox,
                        published>>
         /\ LostStep
         /\ UNCHANGED faults \/ Fault
<1>. USE DEF HandlerAction, HandlerStep, CommitQuery, CommitQueryConflict,
             CommitQueryFails, BuildTaskInvalid, EnqueueTask,
             EnqueueTaskReplyLost, EnqueueTaskFails, Respond, MayEnqueue, dbVars,
             workerVars, consumerVars, faultVars
<1>1. \/ UNCHANGED handler
      \/ \E h \in {"committed", "published", "accepted", "error"} :
           handler' = [handler EXCEPT ![r] = h]
  OBVIOUS
<1>2. UNCHANGED <<state, chat>> \/ (StoreRow(r) /\ ~CorrelationTaken(r))
  OBVIOUS
<1>3. taskQueue' = taskQueue
        \/ (handler[r] = "committed" /\ taskQueue' = Append(taskQueue, TaskOf(r)))
  OBVIOUS
<1>4. UNCHANGED <<responses, logs, job, produced, resultQueue, step, inbox, published>>
  OBVIOUS
<1>5. LostStep
  BY DEF LostStep, LossPoints
<1>6. UNCHANGED faults \/ Fault
  OBVIOUS
<1>. QED
  BY <1>1, <1>2, <1>3, <1>4, <1>5, <1>6

WorkerAction(w) == WorkerStep(w) \/ WorkerCrash(w)

LEMMA WorkerEffects ==
  ASSUME NEW w \in Workers, WorkerAction(w)
  PROVE  /\ \/ UNCHANGED taskQueue
            \/ taskQueue # <<>> /\ taskQueue' = Tail(taskQueue)
         /\ \/ UNCHANGED job
            \/ job' = [job EXCEPT ![w] = None]
            \/ taskQueue # <<>> /\ job' = [job EXCEPT ![w] = Head(taskQueue)]
         /\ \/ UNCHANGED produced
            \/ produced' = [produced EXCEPT ![w] = None]
            \/ /\ job[w] # None
               /\ \E res \in RunResults(job[w]) : produced' = [produced EXCEPT ![w] = res]
         /\ \/ UNCHANGED resultQueue
            \/ produced[w] # None /\ resultQueue' = Append(resultQueue, produced[w])
         /\ UNCHANGED <<handler, state, chat, responses, logs, step, inbox, published>>
         /\ UNCHANGED faults \/ Fault
<1>. USE DEF WorkerAction, WorkerStep, TakeTask, TakeTaskReplyLost, RunTask,
             RunTaskRaises, PublishResult, PublishResultReplyLost,
             PublishResultFails, WorkerCrash, dbVars, workerVars, consumerVars,
             faultVars
<1>1. \/ UNCHANGED taskQueue
      \/ taskQueue # <<>> /\ taskQueue' = Tail(taskQueue)
  OBVIOUS
<1>2. \/ UNCHANGED job
      \/ job' = [job EXCEPT ![w] = None]
      \/ taskQueue # <<>> /\ job' = [job EXCEPT ![w] = Head(taskQueue)]
  OBVIOUS
<1>3. \/ UNCHANGED produced
      \/ produced' = [produced EXCEPT ![w] = None]
      \/ /\ job[w] # None
         /\ \E res \in RunResults(job[w]) : produced' = [produced EXCEPT ![w] = res]
  OBVIOUS
<1>4. \/ UNCHANGED resultQueue
      \/ produced[w] # None /\ resultQueue' = Append(resultQueue, produced[w])
  OBVIOUS
<1>5. UNCHANGED <<handler, state, chat, responses, logs, step, inbox, published>>
  OBVIOUS
<1>6. UNCHANGED faults \/ Fault
  OBVIOUS
<1>. QED
  BY <1>1, <1>2, <1>3, <1>4, <1>5, <1>6

LEMMA WorkerLostStep ==
  ASSUME TypeOK, NEW w \in Workers, WorkerAction(w)
  PROVE  LostStep
<1>1. /\ taskQueue # <<>> => Head(taskQueue).query \in Requests
      /\ job[w] # None => job[w].query \in Requests
      /\ produced[w] # None => produced[w].query \in Requests
  BY QueryOfMessage, QueueTypes DEF TypeOK, WorkType
<1>. QED
  BY <1>1 DEF LostStep, LossPoints, WorkerAction, WorkerStep, TakeTask,
       TakeTaskReplyLost, RunTask, RunTaskRaises, PublishResult,
       PublishResultReplyLost, PublishResultFails, WorkerCrash, WorkerIdle,
       faultVars

ConsumerAction(o) == ConsumerStep(o) \/ OrchestratorCrash(o)

LEMMA ConsumerEffects ==
  ASSUME NEW o \in Orchestrators, ConsumerAction(o)
  PROVE  /\ \/ UNCHANGED handler
            \/ handler' = [r \in Requests |->
                             IF r \in Serving(o) THEN "dead" ELSE handler[r]]
         /\ \/ UNCHANGED <<state, chat, responses, logs>>
            \/ step[o] = "fetched" /\ Settle(inbox[o])
         /\ \/ UNCHANGED resultQueue
            \/ resultQueue # <<>> /\ resultQueue' = Tail(resultQueue)
         /\ \/ UNCHANGED <<step, inbox>> /\ UNCHANGED <<state, chat, responses, logs>>
            \/ Release(o)
            \/ /\ step[o] = "waiting" /\ resultQueue # <<>>
               /\ inbox' = [inbox EXCEPT ![o] = Head(resultQueue)]
               /\ step' = [step EXCEPT ![o] = "received"]
               /\ UNCHANGED <<state, chat, responses, logs>>
            \/ /\ step[o] = "received" /\ state[inbox[o].query] = "PENDING"
               /\ step' = [step EXCEPT ![o] = "fetched"]
               /\ UNCHANGED <<inbox, state, chat, responses, logs>>
            \/ /\ step[o] = "fetched" /\ Settle(inbox[o])
               /\ step' = [step EXCEPT ![o] = "committed"]
               /\ UNCHANGED inbox
         /\ \/ UNCHANGED published
            \/ /\ step[o] = "committed"
               /\ published' = published \cup {inbox[o]}
               /\ UNCHANGED <<state, chat, responses, logs>>
         /\ UNCHANGED <<taskQueue, job, produced>>
         /\ UNCHANGED faults \/ Fault
<1>. USE DEF ConsumerAction, ConsumerStep, TakeResult, TakeResultReplyLost,
             FetchQuery, IgnoreResult, SettleQuery, ProcessResultFails,
             PublishToUser, PublishToUserFails, OrchestratorCrash, dbVars,
             workerVars, consumerVars, faultVars
<1>1. \/ UNCHANGED handler
      \/ handler' = [r \in Requests |-> IF r \in Serving(o) THEN "dead" ELSE handler[r]]
  OBVIOUS
<1>2. \/ UNCHANGED <<state, chat, responses, logs>>
      \/ step[o] = "fetched" /\ Settle(inbox[o])
  OBVIOUS
<1>3. \/ UNCHANGED resultQueue
      \/ resultQueue # <<>> /\ resultQueue' = Tail(resultQueue)
  OBVIOUS
<1>4. \/ UNCHANGED <<step, inbox>> /\ UNCHANGED <<state, chat, responses, logs>>
      \/ Release(o)
      \/ /\ step[o] = "waiting" /\ resultQueue # <<>>
         /\ inbox' = [inbox EXCEPT ![o] = Head(resultQueue)]
         /\ step' = [step EXCEPT ![o] = "received"]
         /\ UNCHANGED <<state, chat, responses, logs>>
      \/ /\ step[o] = "received" /\ state[inbox[o].query] = "PENDING"
         /\ step' = [step EXCEPT ![o] = "fetched"]
         /\ UNCHANGED <<inbox, state, chat, responses, logs>>
      \/ /\ step[o] = "fetched" /\ Settle(inbox[o])
         /\ step' = [step EXCEPT ![o] = "committed"]
         /\ UNCHANGED inbox
  OBVIOUS
<1>5. \/ UNCHANGED published
      \/ /\ step[o] = "committed"
         /\ published' = published \cup {inbox[o]}
         /\ UNCHANGED <<state, chat, responses, logs>>
  OBVIOUS
<1>6. UNCHANGED <<taskQueue, job, produced>>
  OBVIOUS
<1>7. UNCHANGED faults \/ Fault
  OBVIOUS
<1>. QED
  BY <1>1, <1>2, <1>3, <1>4, <1>5, <1>6, <1>7

LEMMA ConsumerLostType ==
  ASSUME TypeOK, NEW o \in Orchestrators, ConsumerAction(o)
  PROVE  LostType'
<1>1. /\ resultQueue # <<>> => Head(resultQueue).query \in Requests
      /\ step[o] # "waiting" => inbox[o].query \in Requests
  BY QueryOfMessage, QueueTypes DEF TypeOK, WorkType, ConsumerType
<1>2. LostType
  BY DEF TypeOK
<1>3. LostStep \/ OrchestratorCrash(o)
  BY <1>1 DEF LostStep, LossPoints, ConsumerAction, ConsumerStep, TakeResult,
       TakeResultReplyLost, FetchQuery, IgnoreResult, SettleQuery,
       ProcessResultFails, PublishToUser, PublishToUserFails, faultVars
<1>4. CASE OrchestratorCrash(o)
  BY <1>2, <1>4 DEF LostType, OrchestratorCrash, LossPoints
<1>. QED
  BY <1>2, <1>3, <1>4, LostStepType

-----------------------------------------------------------------------------

LEMMA HandlerTypeOK ==
  ASSUME TypeOK, NEW r \in Requests, HandlerAction(r)
  PROVE  TypeOK'
<1>1. RowsType /\ WorkType /\ ConsumerType /\ LostType /\ faults \in Nat
  BY DEF TypeOK
<1>2. RowsType'
  BY <1>1, HandlerEffects DEF RowsType, StoreRow
<1>3. WorkType'
  <2>1. Append(taskQueue, TaskOf(r)) \in Seq(Tasks)
    BY <1>1, TaskOfType, QueueTypes DEF WorkType
  <2>. QED
    BY <1>1, <2>1, HandlerEffects DEF WorkType
<1>4. ConsumerType'
  BY <1>1, HandlerEffects DEF ConsumerType
<1>5. LostType' /\ faults' \in Nat
  BY <1>1, HandlerEffects, LostStepType, FaultsType
<1>. QED
  BY <1>2, <1>3, <1>4, <1>5 DEF TypeOK

LEMMA WorkerTypeOK ==
  ASSUME TypeOK, NEW w \in Workers, WorkerAction(w)
  PROVE  TypeOK'
<1>1. RowsType /\ WorkType /\ ConsumerType /\ LostType /\ faults \in Nat
  BY DEF TypeOK
<1>2. RowsType' /\ ConsumerType'
  BY <1>1, WorkerEffects DEF RowsType, ConsumerType
<1>3. WorkType'
  <2>0. /\ taskQueue # <<>> => Head(taskQueue) \in Tasks /\ Tail(taskQueue) \in Seq(Tasks)
        /\ produced[w] # None => Append(resultQueue, produced[w]) \in Seq(Results)
    BY <1>1, QueueTypes DEF WorkType
  <2>1. taskQueue' \in Seq(Tasks)
    BY <1>1, <2>0, WorkerEffects DEF WorkType
  <2>2. job' \in [Workers -> Tasks \cup {None}]
    BY <1>1, <2>0, WorkerEffects DEF WorkType
  <2>3. produced' \in [Workers -> Results \cup {None}]
    <3>1. job[w] # None => RunResults(job[w]) \subseteq Results
      BY <1>1, RunResultsType DEF WorkType
    <3>. QED
      BY <1>1, <3>1, WorkerEffects DEF WorkType
  <2>4. resultQueue' \in Seq(Results)
    BY <1>1, <2>0, WorkerEffects DEF WorkType
  <2>. QED
    BY <2>1, <2>2, <2>3, <2>4 DEF WorkType
<1>4. LostType' /\ faults' \in Nat
  BY <1>1, WorkerEffects, WorkerLostStep, LostStepType, FaultsType
<1>. QED
  BY <1>2, <1>3, <1>4 DEF TypeOK

LEMMA SettleType ==
  ASSUME RowsType, NEW res \in Results, Settle(res)
  PROVE  /\ state' \in [Requests -> {"absent", "PENDING", "COMPLETED", "FAILED"}]
         /\ chat' \in [Requests -> Chats]
         /\ responses' \in [Requests -> Nat]
         /\ logs' \in [Requests -> Nat]
<1>1. res.query \in Requests /\ res.chat \in Chats
  BY QueryOfMessage
<1>. QED
  BY <1>1 DEF RowsType, Settle, Outcome

LEMMA ConsumerTypeOK ==
  ASSUME TypeOK, NEW o \in Orchestrators, ConsumerAction(o)
  PROVE  TypeOK'
<1>1. RowsType /\ WorkType /\ ConsumerType /\ faults \in Nat
  BY DEF TypeOK
<1>2. /\ resultQueue # <<>> => /\ Head(resultQueue) \in Results
                               /\ Head(resultQueue) # None
                               /\ Tail(resultQueue) \in Seq(Results)
      /\ step[o] # "waiting" => inbox[o] \in Results /\ inbox[o] # None
  BY <1>1, QueueTypes DEF WorkType, ConsumerType
<1>3. RowsType'
  <2>1. handler' \in [Requests -> {"new", "committed", "published", "accepted",
                                   "error", "dead"}]
    BY <1>1, ConsumerEffects DEF RowsType
  <2>2. CASE UNCHANGED <<state, chat, responses, logs>>
    BY <1>1, <2>1, <2>2 DEF RowsType
  <2>3. CASE step[o] = "fetched" /\ Settle(inbox[o])
    BY <1>1, <1>2, <2>1, <2>3, SettleType DEF RowsType
  <2>. QED
    BY <2>2, <2>3, ConsumerEffects
<1>4. WorkType'
  BY <1>1, <1>2, ConsumerEffects DEF WorkType
<1>5. ConsumerType'
  <2>1. published' \subseteq Results
    BY <1>1, <1>2, ConsumerEffects DEF ConsumerType
  <2>2. CASE UNCHANGED <<step, inbox>>
    BY <1>1, <2>1, <2>2 DEF ConsumerType
  <2>3. CASE Release(o)
    BY <1>1, <2>1, <2>3 DEF ConsumerType, Release
  <2>4. CASE /\ resultQueue # <<>>
             /\ inbox' = [inbox EXCEPT ![o] = Head(resultQueue)]
             /\ step' = [step EXCEPT ![o] = "received"]
    BY <1>1, <1>2, <2>1, <2>4 DEF ConsumerType
  <2>5. CASE /\ step[o] # "waiting"
             /\ \E s \in {"fetched", "committed"} : step' = [step EXCEPT ![o] = s]
             /\ UNCHANGED inbox
    BY <1>1, <1>2, <2>1, <2>5 DEF ConsumerType
  <2>. QED
    BY <2>2, <2>3, <2>4, <2>5, ConsumerEffects
<1>6. LostType' /\ faults' \in Nat
  BY <1>1, ConsumerEffects, ConsumerLostType, FaultsType
<1>. QED
  BY <1>3, <1>4, <1>5, <1>6 DEF TypeOK

(* Every variable keeps its type, whatever fails.                          *)
THEOREM TypeCorrect == Spec => []TypeOK
<1>1. TypeOK /\ [Next]_vars => TypeOK'
  <2>. SUFFICES ASSUME TypeOK, [Next]_vars
                PROVE  TypeOK'
    OBVIOUS
  <2>1. CASE UNCHANGED vars
    BY <2>1 DEF vars, dbVars, workerVars, consumerVars, faultVars, TypeOK,
         RowsType, WorkType, ConsumerType, LostType
  <2>. QED
    BY <2>1, HandlerTypeOK, WorkerTypeOK, ConsumerTypeOK
    DEF Next, Idle, HandlerAction, WorkerAction, ConsumerAction
<1>. QED
  BY <1>1, InitTypeOK, PTL DEF Spec

-----------------------------------------------------------------------------
(* Messages match the rows they name.  The property is inductive once it   *)
(* also says that a handler about to enqueue has committed its row.        *)

MessageInv ==
  /\ MessagesMatchRows
  /\ \A r \in Requests : handler[r] = "committed" => state[r] # "absent"

LEMMA HandlerRowsStay ==
  ASSUME TypeOK, NEW r \in Requests, HandlerAction(r)
  PROVE  \A q \in Requests : state[q] # "absent" => state'[q] # "absent"
  BY HandlerEffects DEF TypeOK, RowsType, StoreRow

LEMMA ConsumerRowsStay ==
  ASSUME TypeOK, NEW o \in Orchestrators, ConsumerAction(o)
  PROVE  \A q \in Requests : state[q] # "absent" => state'[q] # "absent"
<1>1. CASE UNCHANGED state
  BY <1>1
<1>2. CASE step[o] = "fetched" /\ Settle(inbox[o])
  BY <1>2 DEF TypeOK, RowsType, Settle, Outcome
<1>. QED
  BY <1>1, <1>2, ConsumerEffects

LEMMA CarriesStays ==
  ASSUME \A q \in Requests : state[q] # "absent" => state'[q] # "absent",
         NEW m \in Tasks \cup Results, Carries(m)
  PROVE  Carries(m)'
  BY QueryOfMessage DEF Carries

(* Membership in a set S of what a queue holds, across RPUSH and BLPOP.    *)
LEMMA QueueMembers ==
  ASSUME NEW T, NEW S, NEW q \in Seq(T), \A i \in DOMAIN q : q[i] \in S
  PROVE  /\ q # <<>> => /\ Head(q) \in S
                        /\ \A i \in DOMAIN Tail(q) : Tail(q)[i] \in S
         /\ \A m \in S \cap T : \A i \in DOMAIN Append(q, m) : Append(q, m)[i] \in S
<1>1. ASSUME q # <<>>
      PROVE  Head(q) \in S /\ \A i \in DOMAIN Tail(q) : Tail(q)[i] \in S
  <2>1. /\ Head(q) = q[1]
        /\ 1 \in DOMAIN q
        /\ \A i \in DOMAIN Tail(q) : i + 1 \in DOMAIN q /\ Tail(q)[i] = q[i + 1]
    BY <1>1
  <2>. QED
    BY <2>1
<1>2. ASSUME NEW m \in S \cap T, NEW i \in DOMAIN Append(q, m)
      PROVE  Append(q, m)[i] \in S
  <2>1. CASE i = Len(q) + 1
    BY <2>1
  <2>2. CASE i # Len(q) + 1
    BY <2>2
  <2>. QED
    BY <2>1, <2>2
<1>. QED
  BY <1>1, <1>2

LEMMA InitMessageInv == Init => MessageInv
  BY DEF Init, MessageInv, MessagesMatchRows

LEMMA HandlerMessageInv ==
  ASSUME TypeOK, MessageInv, NEW r \in Requests, HandlerAction(r)
  PROVE  MessageInv'
<1>. DEFINE S == {m \in Tasks \cup Results : Carries(m)'}
<1>1. /\ \A q \in Requests : state[q] # "absent" => state'[q] # "absent"
      /\ \A m \in Tasks \cup Results : Carries(m) => m \in S
  BY HandlerRowsStay, CarriesStays
<1>2. \A i \in DOMAIN taskQueue' : Carries(taskQueue[i])'
  <2>1. \A i \in DOMAIN taskQueue : taskQueue[i] \in S
    BY <1>1 DEF MessageInv, MessagesMatchRows, TypeOK, WorkType
  <2>2. handler[r] = "committed" => TaskOf(r) \in S \cap Tasks
    BY <1>1, TaskOfType DEF MessageInv, Carries, TaskOf
  <2>3. handler[r] = "committed" =>
          \A i \in DOMAIN Append(taskQueue, TaskOf(r)) :
            Append(taskQueue, TaskOf(r))[i] \in S
    BY <2>1, <2>2, QueueMembers DEF TypeOK, WorkType
  <2>4. \A i \in DOMAIN taskQueue' : taskQueue'[i] \in S
    BY <2>1, <2>3, HandlerEffects
  <2>. QED
    BY <2>4
<1>3. \A i \in DOMAIN resultQueue' : Carries(resultQueue[i])'
  BY <1>1, HandlerEffects DEF MessageInv, MessagesMatchRows, TypeOK, WorkType
<1>4. /\ \A w \in Workers : job'[w] # None => Carries(job[w])'
      /\ \A w \in Workers : produced'[w] # None => Carries(produced[w])'
  BY <1>1, HandlerEffects DEF MessageInv, MessagesMatchRows, TypeOK, WorkType
<1>5. \A o \in Orchestrators : step'[o] # "waiting" => Carries(inbox[o])'
  BY <1>1, HandlerEffects DEF MessageInv, MessagesMatchRows, TypeOK, ConsumerType
<1>6. \A q \in Requests : chat'[q] = ChatOf[q]
  BY HandlerEffects DEF MessageInv, MessagesMatchRows, TypeOK, RowsType, StoreRow
<1>7. \A q \in Requests : handler'[q] = "committed" => state'[q] # "absent"
  <2>1. CASE CommitQuery(r)
    BY <2>1 DEF CommitQuery, StoreRow, MessageInv, TypeOK, RowsType
  <2>2. CASE ~CommitQuery(r)
    <3>1. handler' = handler \/ \E h \in {"published", "accepted", "error"} :
                                  handler' = [handler EXCEPT ![r] = h]
      BY <2>2 DEF HandlerAction, HandlerStep, CommitQueryConflict,
           CommitQueryFails, BuildTaskInvalid, EnqueueTask, EnqueueTaskReplyLost,
           EnqueueTaskFails, Respond
    <3>2. \A q \in Requests : handler'[q] = "committed" => handler[q] = "committed"
      BY <3>1 DEF TypeOK, RowsType
    <3>. QED
      BY <1>1, <3>2 DEF MessageInv
  <2>. QED
    BY <2>1, <2>2
<1>. QED
  BY <1>2, <1>3, <1>4, <1>5, <1>6, <1>7 DEF MessageInv, MessagesMatchRows

LEMMA WorkerMessageInv ==
  ASSUME TypeOK, MessageInv, NEW w \in Workers, WorkerAction(w)
  PROVE  MessageInv'
<1>. DEFINE S == {m \in Tasks \cup Results : Carries(m)'}
<1>1. /\ UNCHANGED <<handler, state, chat, step, inbox>>
      /\ \A m \in Tasks \cup Results : Carries(m) => m \in S
  BY WorkerEffects, CarriesStays
<1>2. /\ \A i \in DOMAIN taskQueue : taskQueue[i] \in S
      /\ \A i \in DOMAIN resultQueue : resultQueue[i] \in S
      /\ \A v \in Workers : job[v] # None => job[v] \in S \cap Tasks
      /\ \A v \in Workers : produced[v] # None => produced[v] \in S \cap Results
  BY <1>1 DEF MessageInv, MessagesMatchRows, TypeOK, WorkType
<1>3. \A i \in DOMAIN taskQueue' : taskQueue'[i] \in S
  BY <1>2, WorkerEffects, QueueMembers DEF TypeOK, WorkType
<1>4. \A i \in DOMAIN resultQueue' : resultQueue'[i] \in S
  <2>1. produced[w] # None =>
          \A i \in DOMAIN Append(resultQueue, produced[w]) :
            Append(resultQueue, produced[w])[i] \in S
    BY <1>2, QueueMembers DEF TypeOK, WorkType
  <2>. QED
    BY <1>2, <2>1, WorkerEffects
<1>5. \A v \in Workers : job'[v] # None => job'[v] \in S
  <2>1. taskQueue # <<>> => Head(taskQueue) \in S
    BY <1>2, QueueMembers DEF TypeOK, WorkType
  <2>. QED
    BY <1>2, <2>1, WorkerEffects DEF TypeOK, WorkType
<1>6. \A v \in Workers : produced'[v] # None => produced'[v] \in S
  <2>1. job[w] # None => RunResults(job[w]) \subseteq S
    <3>. SUFFICES ASSUME job[w] # None, NEW res \in RunResults(job[w])
                  PROVE  res \in S
      OBVIOUS
    <3>1. res \in Results
      BY RunResultsType DEF TypeOK, WorkType
    <3>2. /\ res.query = job[w].query
          /\ res.user = job[w].user
          /\ res.chat = job[w].chat
      BY DEF RunResults
    <3>3. Carries(job[w])
      BY DEF MessageInv, MessagesMatchRows
    <3>. QED
      BY <1>1, <3>1, <3>2, <3>3 DEF Carries
  <2>2. \/ UNCHANGED produced
        \/ produced' = [produced EXCEPT ![w] = None]
        \/ \E res \in S : produced' = [produced EXCEPT ![w] = res]
    BY <2>1, WorkerEffects
  <2>. QED
    BY <1>2, <2>2 DEF TypeOK, WorkType
<1>. QED
  BY <1>1, <1>3, <1>4, <1>5, <1>6 DEF MessageInv, MessagesMatchRows, Carries

LEMMA ConsumerMessageInv ==
  ASSUME TypeOK, MessageInv, NEW o \in Orchestrators, ConsumerAction(o)
  PROVE  MessageInv'
<1>. DEFINE S == {m \in Tasks \cup Results : Carries(m)'}
<1>1. /\ \A q \in Requests : state[q] # "absent" => state'[q] # "absent"
      /\ \A m \in Tasks \cup Results : Carries(m) => m \in S
  BY ConsumerRowsStay, CarriesStays
<1>2. /\ \A i \in DOMAIN taskQueue : taskQueue[i] \in S
      /\ \A i \in DOMAIN resultQueue : resultQueue[i] \in S
      /\ \A w \in Workers : job[w] # None => job[w] \in S
      /\ \A w \in Workers : produced[w] # None => produced[w] \in S
      /\ \A p \in Orchestrators : step[p] # "waiting" => inbox[p] \in S
  BY <1>1 DEF MessageInv, MessagesMatchRows, TypeOK, WorkType, ConsumerType
<1>3. UNCHANGED <<taskQueue, job, produced>>
  BY ConsumerEffects
<1>4. resultQueue # <<>> => /\ Head(resultQueue) \in S
                            /\ \A i \in DOMAIN Tail(resultQueue) : Tail(resultQueue)[i] \in S
  BY <1>2, QueueMembers DEF TypeOK, WorkType
<1>5. \A i \in DOMAIN resultQueue' : resultQueue'[i] \in S
  BY <1>2, <1>4, ConsumerEffects
<1>6. \A p \in Orchestrators : step'[p] # "waiting" => inbox'[p] \in S
  BY <1>2, <1>4, ConsumerEffects DEF TypeOK, ConsumerType, Release
<1>7. \A q \in Requests : chat'[q] = ChatOf[q]
  <2>1. CASE UNCHANGED chat
    BY <2>1 DEF MessageInv, MessagesMatchRows
  <2>2. CASE step[o] = "fetched" /\ Settle(inbox[o])
    <3>1. Carries(inbox[o])
      BY <2>2 DEF MessageInv, MessagesMatchRows
    <3>. QED
      BY <2>2, <3>1 DEF Settle, Carries, MessageInv, MessagesMatchRows, TypeOK, RowsType
  <2>. QED
    BY <2>1, <2>2, ConsumerEffects
<1>8. \A q \in Requests : handler'[q] = "committed" => handler[q] = "committed"
  <2>1. \/ UNCHANGED handler
        \/ handler' = [r \in Requests |-> IF r \in Serving(o) THEN "dead" ELSE handler[r]]
    BY ConsumerEffects
  <2>. QED
    BY <2>1
<1>9. \A q \in Requests : handler'[q] = "committed" => state'[q] # "absent"
  BY <1>1, <1>8 DEF MessageInv
<1>. QED
  BY <1>2, <1>3, <1>5, <1>6, <1>7, <1>9 DEF MessageInv, MessagesMatchRows

(* Every task and result on its way names a committed row and carries its  *)
(* user and chat, so "Query not found" is never logged.                    *)
THEOREM MessagesAlwaysMatchRows == Spec => []MessagesMatchRows
<1>1. TypeOK /\ MessageInv /\ [Next]_vars => MessageInv'
  <2>. SUFFICES ASSUME TypeOK, MessageInv, [Next]_vars
                PROVE  MessageInv'
    OBVIOUS
  <2>1. CASE UNCHANGED vars
    BY <2>1 DEF vars, dbVars, workerVars, consumerVars, faultVars, MessageInv,
         MessagesMatchRows, Carries
  <2>. QED
    BY <2>1, HandlerMessageInv, WorkerMessageInv, ConsumerMessageInv
    DEF Next, Idle, HandlerAction, WorkerAction, ConsumerAction
<1>2. MessageInv => MessagesMatchRows
  BY DEF MessageInv
<1>. QED
  BY <1>1, <1>2, TypeCorrect, InitMessageInv, PTL DEF Spec

-----------------------------------------------------------------------------
(* A worker has a task or a result, not both.                              *)

OneAtATime == \A w \in Workers : job[w] = None \/ produced[w] = None

LEMMA WorkerOneAtATime ==
  ASSUME TypeOK, OneAtATime, NEW w \in Workers, WorkerAction(w)
  PROVE  OneAtATime'
<1>1. /\ job \in [Workers -> Tasks \cup {None}]
      /\ produced \in [Workers -> Results \cup {None}]
  BY DEF TypeOK, WorkType
<1>2. job'[w] = None \/ produced'[w] = None
  BY <1>1 DEF OneAtATime, WorkerAction, WorkerStep, TakeTask, TakeTaskReplyLost,
       RunTask, RunTaskRaises, PublishResult, PublishResultReplyLost,
       PublishResultFails, WorkerCrash, WorkerIdle, workerVars
<1>3. \A v \in Workers \ {w} : job'[v] = job[v] /\ produced'[v] = produced[v]
  BY <1>1, WorkerEffects
<1>. QED
  BY <1>2, <1>3 DEF OneAtATime

LEMMA WorkersOneAtATime == Spec => []OneAtATime
<1>1. Init => OneAtATime
  BY DEF Init, OneAtATime
<1>2. TypeOK /\ OneAtATime /\ [Next]_vars => OneAtATime'
  <2>. SUFFICES ASSUME TypeOK, OneAtATime, [Next]_vars
                PROVE  OneAtATime'
    OBVIOUS
  <2>1. ASSUME UNCHANGED <<job, produced>>
        PROVE  OneAtATime'
    BY <2>1 DEF OneAtATime
  <2>2. CASE UNCHANGED vars
    BY <2>1, <2>2 DEF vars, workerVars
  <2>. QED
    BY <2>1, <2>2, HandlerEffects, WorkerOneAtATime, ConsumerEffects
    DEF Next, Idle, HandlerAction, WorkerAction, ConsumerAction
<1>. QED
  BY <1>1, <1>2, TypeCorrect, PTL DEF Spec

-----------------------------------------------------------------------------
(* When Redis never gets a command twice, every request has at most one    *)
(* message, in one place: about to be sent by its handler, in a list, with *)
(* a worker, or with a consumer.                                           *)

(* The queries that a list names, and those whose messages are held by     *)
(* processes.                                                              *)
Named(q) == {q[i].query : i \in DOMAIN q}

Holders(f) == {p \in DOMAIN f : f[p] # None}

Held(f) == {f[p].query : p \in Holders(f)}

OnceIn(q) == \A i, j \in DOMAIN q : q[i].query = q[j].query => i = j

OnceHeld(f) == \A p, v \in Holders(f) : f[p].query = f[v].query => p = v

BeingSent == {r \in Requests : handler[r] = "committed"}

Disjoint(S, T) == S \cap T = {}

(* No two of the six have a query in common.                               *)
Apart(A, B, C, D, E, F) ==
  /\ Disjoint(A, B \cup C \cup D \cup E \cup F)
  /\ Disjoint(B, C \cup D \cup E \cup F)
  /\ Disjoint(C, D \cup E \cup F)
  /\ Disjoint(D, E \cup F)
  /\ Disjoint(E, F)

OnePlace ==
  /\ OnceIn(taskQueue) /\ OnceHeld(job) /\ OnceHeld(produced)
  /\ OnceIn(resultQueue) /\ OnceHeld(inbox)
  /\ Apart(BeingSent, Named(taskQueue), Held(job), Held(produced),
           Named(resultQueue), Held(inbox))

LEMMA ApartShrinks ==
  ASSUME NEW A, NEW B, NEW C, NEW D, NEW E, NEW F, Apart(A, B, C, D, E, F),
         NEW A1, NEW B1, NEW C1, NEW D1, NEW E1, NEW F1,
         A1 \subseteq A, B1 \subseteq B, C1 \subseteq C,
         D1 \subseteq D, E1 \subseteq E, F1 \subseteq F
  PROVE  Apart(A1, B1, C1, D1, E1, F1)
  BY DEF Apart, Disjoint

(* A query that goes on to the next place leaves the one where it was.     *)
LEMMA ApartMoves ==
  ASSUME NEW A, NEW B, NEW C, NEW D, NEW E, NEW F, NEW q, Apart(A, B, C, D, E, F)
  PROVE  /\ q \in A => Apart(A \ {q}, B \cup {q}, C, D, E, F)
         /\ q \in B => Apart(A, B \ {q}, C \cup {q}, D, E, F)
         /\ q \in C => Apart(A, B, C \ {q}, D \cup {q}, E, F)
         /\ q \in D => Apart(A, B, C, D \ {q}, E \cup {q}, F)
         /\ q \in E => Apart(A, B, C, D, E \ {q}, F \cup {q})
  BY DEF Apart, Disjoint

LEMMA InitOnePlace == Init => OnePlace
  BY DEF Init, OnePlace, Named, Holders, Held, OnceIn, OnceHeld, BeingSent, Apart, Disjoint

(* Popping takes the name of the head out of the list, pushing adds one.   *)
LEMMA PopNames ==
  ASSUME NEW S, NEW q \in Seq(S), q # <<>>, OnceIn(q)
  PROVE  /\ Head(q).query \in Named(q)
         /\ Named(Tail(q)) = Named(q) \ {Head(q).query}
         /\ OnceIn(Tail(q))
<1>1. /\ Len(q) \in Nat \ {0} /\ DOMAIN q = 1 .. Len(q) /\ Head(q) = q[1]
      /\ DOMAIN Tail(q) = 1 .. Len(q) - 1
      /\ \A i \in 1 .. Len(q) - 1 : Tail(q)[i] = q[i + 1]
  OBVIOUS
<1>2. Head(q).query \in Named(q)
  BY <1>1 DEF Named
<1>3. \A i \in 2 .. Len(q) : i - 1 \in 1 .. Len(q) - 1 /\ Tail(q)[i - 1] = q[i]
  BY <1>1
<1>4. \A i \in 1 .. Len(q) : i = 1 \/ i \in 2 .. Len(q)
  BY <1>1
<1>5. Named(q) \ {Head(q).query} \subseteq Named(Tail(q))
  <2>. SUFFICES ASSUME NEW i \in 1 .. Len(q), q[i].query # q[1].query
                PROVE  q[i].query \in Named(Tail(q))
    BY <1>1 DEF Named
  <2>1. i - 1 \in DOMAIN Tail(q) /\ Tail(q)[i - 1] = q[i]
    BY <1>1, <1>3, <1>4
  <2>. QED
    BY <2>1 DEF Named
<1>6. Named(Tail(q)) \subseteq Named(q) \ {Head(q).query}
  <2>. SUFFICES ASSUME NEW i \in 1 .. Len(q) - 1
                PROVE  /\ Tail(q)[i].query \in Named(q)
                       /\ Tail(q)[i].query # q[1].query
    BY <1>1 DEF Named
  <2>1. i + 1 \in DOMAIN q /\ i + 1 # 1 /\ 1 \in DOMAIN q /\ Tail(q)[i] = q[i + 1]
    BY <1>1
  <2>. QED
    BY <2>1 DEF Named, OnceIn
<1>7. OnceIn(Tail(q))
  <2>. SUFFICES ASSUME NEW i \in 1 .. Len(q) - 1, NEW j \in 1 .. Len(q) - 1,
                       Tail(q)[i].query = Tail(q)[j].query
                PROVE  i = j
    BY <1>1 DEF OnceIn
  <2>1. /\ i + 1 \in DOMAIN q /\ Tail(q)[i] = q[i + 1]
        /\ j + 1 \in DOMAIN q /\ Tail(q)[j] = q[j + 1]
    BY <1>1
  <2>2. i + 1 = j + 1
    BY <2>1 DEF OnceIn
  <2>. QED
    BY <2>2
<1>. QED
  BY <1>2, <1>5, <1>6, <1>7

LEMMA PushNames ==
  ASSUME NEW S, NEW q \in Seq(S), NEW m \in S, OnceIn(q), m.query \notin Named(q)
  PROVE  /\ Named(Append(q, m)) = Named(q) \cup {m.query}
         /\ OnceIn(Append(q, m))
<1>. DEFINE q1 == Append(q, m)
<1>1. /\ Len(q) \in Nat /\ DOMAIN q = 1 .. Len(q) /\ DOMAIN q1 = 1 .. Len(q) + 1
      /\ \A i \in 1 .. Len(q) : q1[i] = q[i]
      /\ q1[Len(q) + 1] = m
  OBVIOUS
<1>2. \A i \in DOMAIN q1 : i \in DOMAIN q \/ i = Len(q) + 1
  BY <1>1
<1>3. DOMAIN q \subseteq DOMAIN q1 /\ Len(q) + 1 \in DOMAIN q1
  BY <1>1
<1>. HIDE DEF q1
<1>4. \A i \in DOMAIN q : q1[i] = q[i] /\ q1[i].query \in Named(q)
  BY <1>1 DEF Named
<1>5. Named(q1) = Named(q) \cup {m.query}
  BY <1>1, <1>2, <1>3, <1>4 DEF Named
<1>6. OnceIn(q1)
  BY <1>1, <1>2, <1>4 DEF OnceIn
<1>. QED
  BY <1>5, <1>6 DEF q1

(* A process takes a message, or lets go of the one it has.                *)
Becomes(f, f1, p, m) == f1 = [f EXCEPT ![p] = m]

LEMMA HoldNames ==
  ASSUME NEW f, NEW f1, NEW p \in DOMAIN f, NEW m, Becomes(f, f1, p, m),
         m # None, f[p] = None, OnceHeld(f), m.query \notin Held(f)
  PROVE  /\ Held(f1) = Held(f) \cup {m.query}
         /\ OnceHeld(f1)
<1>0. f1[p] = m /\ \A v \in DOMAIN f : v # p => f1[v] = f[v]
  BY DEF Becomes
<1>1. Holders(f1) = Holders(f) \cup {p}
  BY DEF Holders, Becomes
<1>2. \A v \in Holders(f) : v # p /\ v \in DOMAIN f /\ f[v].query # m.query
  BY DEF Holders, Held
<1>3. Held(f1) = Held(f) \cup {m.query}
  BY <1>0, <1>1, <1>2 DEF Held
<1>4. OnceHeld(f1)
  BY <1>0, <1>1, <1>2 DEF OnceHeld
<1>. QED
  BY <1>3, <1>4

LEMMA LetGoNames ==
  ASSUME NEW f, NEW f1, NEW p \in DOMAIN f, Becomes(f, f1, p, None), OnceHeld(f)
  PROVE  /\ Held(f1) \subseteq Held(f)
         /\ f[p] # None => f[p].query \in Held(f) /\ Held(f1) = Held(f) \ {f[p].query}
         /\ OnceHeld(f1)
<1>0. \A v \in DOMAIN f : v # p => f1[v] = f[v]
  BY DEF Becomes
<1>1. Holders(f1) = Holders(f) \ {p}
  BY DEF Holders, Becomes
<1>2. \A v \in Holders(f) : v # p => v \in DOMAIN f /\ f1[v] = f[v]
  BY <1>0 DEF Holders
<1>3. Held(f1) = {f[v].query : v \in Holders(f) \ {p}}
  BY <1>1, <1>2 DEF Held
<1>4. OnceHeld(f1)
  BY <1>1, <1>2 DEF OnceHeld
<1>5. f[p] # None => p \in Holders(f) /\ \A v \in Holders(f) \ {p} : f[v].query # f[p].query
  BY DEF Holders, OnceHeld
<1>. QED
  BY <1>3, <1>4, <1>5 DEF Held

(* A message names a stored row, so a row that is absent has none.         *)
LEMMA NamesAreStored ==
  ASSUME TypeOK, MessagesMatchRows
  PROVE  \A r \in Named(taskQueue) \cup Held(job) \cup Held(produced)
                    \cup Named(resultQueue) \cup Held(inbox) : state[r] # "absent"
<1>1. \A o \in Holders(inbox) : o \in Orchestrators /\ step[o] # "waiting"
  BY DEF Holders, TypeOK, ConsumerType
<1>2. Holders(job) \subseteq Workers /\ Holders(produced) \subseteq Workers
  BY DEF Holders, TypeOK, WorkType
<1>3. \A r \in Held(job) \cup Held(produced) \cup Held(inbox) : state[r] # "absent"
  BY <1>1, <1>2 DEF Held, Holders, MessagesMatchRows, Carries
<1>4. \A r \in Named(taskQueue) \cup Named(resultQueue) : state[r] # "absent"
  BY DEF Named, MessagesMatchRows, Carries
<1>. QED
  BY <1>3, <1>4

LEMMA HandlerOnePlace ==
  ASSUME ~RedisRetries, TypeOK, MessagesMatchRows, OnePlace,
         NEW r \in Requests, HandlerAction(r)
  PROVE  OnePlace'
<1>1. \/ /\ \A q \in Requests : handler'[q] = "committed" =>
              handler[q] = "committed" \/ (q = r /\ state[r] = "absent")
         /\ UNCHANGED taskQueue
      \/ /\ handler[r] = "committed"
         /\ handler' = [handler EXCEPT ![r] = "published"]
         /\ taskQueue' = Append(taskQueue, TaskOf(r))
  BY DEF TypeOK, RowsType, HandlerAction, HandlerStep, CommitQuery,
         CommitQueryConflict, CommitQueryFails, BuildTaskInvalid, EnqueueTask,
         EnqueueTaskReplyLost, EnqueueTaskFails, Respond, MayEnqueue,
         CorrelationTaken, dbVars, workerVars, consumerVars, faultVars
<1>2. UNCHANGED <<job, produced, resultQueue, inbox>>
  BY HandlerEffects
<1>3. CASE /\ \A q \in Requests : handler'[q] = "committed" =>
                handler[q] = "committed" \/ (q = r /\ state[r] = "absent")
           /\ UNCHANGED taskQueue
  <2>1. BeingSent' \subseteq BeingSent \cup {q \in {r} : state[r] = "absent"}
    BY <1>3 DEF BeingSent
  <2>2. Apart(BeingSent', Named(taskQueue), Held(job), Held(produced),
              Named(resultQueue), Held(inbox))
    BY <2>1, NamesAreStored DEF OnePlace, Apart, Disjoint
  <2>. QED
    BY <1>2, <1>3, <2>2 DEF OnePlace
<1>4. CASE /\ handler[r] = "committed"
           /\ handler' = [handler EXCEPT ![r] = "published"]
           /\ taskQueue' = Append(taskQueue, TaskOf(r))
  <2>1. r \in BeingSent /\ BeingSent' = BeingSent \ {r}
    BY <1>4 DEF BeingSent, TypeOK, RowsType
  <2>2. r \notin Named(taskQueue)
    BY <2>1 DEF OnePlace, Apart, Disjoint
  <2>3. TaskOf(r) \in Tasks /\ TaskOf(r).query = r /\ taskQueue \in Seq(Tasks)
    BY TaskOfType DEF TaskOf, TypeOK, WorkType
  <2>4. Named(taskQueue') = Named(taskQueue) \cup {r} /\ OnceIn(taskQueue')
    BY <1>4, <2>2, <2>3, PushNames DEF OnePlace
  <2>5. Apart(BeingSent \ {r}, Named(taskQueue) \cup {r}, Held(job), Held(produced),
              Named(resultQueue), Held(inbox))
    BY <2>1, ApartMoves DEF OnePlace
  <2>. QED
    BY <1>2, <2>1, <2>4, <2>5 DEF OnePlace
<1>. QED
  BY <1>1, <1>3, <1>4

LEMMA WorkerOnePlace ==
  ASSUME ~RedisRetries, TypeOK, OneAtATime, OnePlace, NEW w \in Workers, WorkerAction(w)
  PROVE  OnePlace'
<1>0. /\ taskQueue \in Seq(Tasks) /\ resultQueue \in Seq(Results)
      /\ job \in [Workers -> Tasks \cup {None}]
      /\ produced \in [Workers -> Results \cup {None}]
      /\ w \in DOMAIN job /\ w \in DOMAIN produced
  BY DEF TypeOK, WorkType
<1>1. BeingSent' = BeingSent /\ UNCHANGED inbox
  BY WorkerEffects DEF BeingSent
<1>2. CASE TakeTask(w)
  <2>. DEFINE q == Head(taskQueue).query
  <2>1. /\ job[w] = None /\ taskQueue # <<>> /\ taskQueue' = Tail(taskQueue)
        /\ Becomes(job, job', w, Head(taskQueue))
        /\ UNCHANGED <<produced, resultQueue>>
    BY <1>2 DEF TakeTask, WorkerIdle, Becomes
  <2>2. /\ q \in Named(taskQueue)
        /\ Named(taskQueue') = Named(taskQueue) \ {q}
        /\ OnceIn(taskQueue')
    BY <1>0, <2>1, PopNames DEF OnePlace
  <2>3. Head(taskQueue) # None /\ q \notin Held(job)
    BY <1>0, <2>1, <2>2 DEF OnePlace, Apart, Disjoint
  <2>4. Held(job') = Held(job) \cup {q} /\ OnceHeld(job')
    BY <1>0, <2>1, <2>3, HoldNames DEF OnePlace
  <2>. HIDE DEF q
  <2>5. Apart(BeingSent, Named(taskQueue) \ {q}, Held(job) \cup {q}, Held(produced),
              Named(resultQueue), Held(inbox))
    BY <2>2, ApartMoves DEF OnePlace
  <2>. QED
    BY <1>1, <2>1, <2>2, <2>4, <2>5 DEF OnePlace
<1>3. CASE RunTask(w)
  <2>. DEFINE q == job[w].query
  <2>1. PICK res \in Results : res.query = q /\ Becomes(produced, produced', w, res)
    BY <1>0, <1>3, RunResultsType DEF RunTask, RunResults, Becomes
  <2>2. /\ job[w] # None /\ Becomes(job, job', w, None)
        /\ UNCHANGED <<taskQueue, resultQueue>>
    BY <1>3 DEF RunTask, Becomes
  <2>3. q \in Held(job) /\ Held(job') = Held(job) \ {q} /\ OnceHeld(job')
    BY <1>0, <2>2, LetGoNames DEF OnePlace
  <2>4. produced[w] = None /\ res # None /\ q \notin Held(produced)
    BY <2>2, <2>3 DEF OneAtATime, OnePlace, Apart, Disjoint
  <2>5. Held(produced') = Held(produced) \cup {q} /\ OnceHeld(produced')
    BY <1>0, <2>1, <2>4, HoldNames DEF OnePlace
  <2>. HIDE DEF q
  <2>6. Apart(BeingSent, Named(taskQueue), Held(job) \ {q}, Held(produced) \cup {q},
              Named(resultQueue), Held(inbox))
    BY <2>3, ApartMoves DEF OnePlace
  <2>. QED
    BY <1>1, <2>2, <2>3, <2>5, <2>6 DEF OnePlace
<1>4. CASE /\ produced[w] # None
           /\ resultQueue' = Append(resultQueue, produced[w])
           /\ produced' = [produced EXCEPT ![w] = None]
           /\ UNCHANGED <<taskQueue, job>>
  <2>. DEFINE q == produced[w].query
  <2>1. Becomes(produced, produced', w, None)
    BY <1>4 DEF Becomes
  <2>2. q \in Held(produced) /\ Held(produced') = Held(produced) \ {q} /\ OnceHeld(produced')
    BY <1>0, <1>4, <2>1, LetGoNames DEF OnePlace
  <2>3. produced[w] \in Results /\ q \notin Named(resultQueue)
    BY <1>0, <1>4, <2>2 DEF OnePlace, Apart, Disjoint
  <2>4. Named(resultQueue') = Named(resultQueue) \cup {q} /\ OnceIn(resultQueue')
    BY <1>0, <1>4, <2>3, PushNames DEF OnePlace
  <2>. HIDE DEF q
  <2>5. Apart(BeingSent, Named(taskQueue), Held(job), Held(produced) \ {q},
              Named(resultQueue) \cup {q}, Held(inbox))
    BY <2>2, ApartMoves DEF OnePlace
  <2>. QED
    BY <1>1, <1>4, <2>2, <2>4, <2>5 DEF OnePlace
<1>5. CASE /\ UNCHANGED taskQueue \/ (taskQueue # <<>> /\ taskQueue' = Tail(taskQueue))
           /\ UNCHANGED job \/ job' = [job EXCEPT ![w] = None]
           /\ UNCHANGED produced \/ produced' = [produced EXCEPT ![w] = None]
           /\ UNCHANGED resultQueue
  <2>1. UNCHANGED job \/ Becomes(job, job', w, None)
    BY <1>5 DEF Becomes
  <2>2. UNCHANGED produced \/ Becomes(produced, produced', w, None)
    BY <1>5 DEF Becomes
  <2>3. Named(taskQueue') \subseteq Named(taskQueue) /\ OnceIn(taskQueue')
    <3>1. CASE taskQueue' = taskQueue
      BY <3>1 DEF OnePlace
    <3>2. CASE taskQueue # <<>> /\ taskQueue' = Tail(taskQueue)
      BY <1>0, <3>2, PopNames DEF OnePlace
    <3>. QED
      BY <1>5, <3>1, <3>2
  <2>4. Held(job') \subseteq Held(job) /\ OnceHeld(job')
    BY <1>0, <2>1, LetGoNames DEF OnePlace
  <2>5. Held(produced') \subseteq Held(produced) /\ OnceHeld(produced')
    BY <1>0, <2>2, LetGoNames DEF OnePlace
  <2>6. Apart(BeingSent, Named(taskQueue'), Held(job'), Held(produced'),
              Named(resultQueue), Held(inbox))
    BY <2>3, <2>4, <2>5, ApartShrinks DEF OnePlace
  <2>. QED
    BY <1>1, <1>5, <2>3, <2>4, <2>5, <2>6 DEF OnePlace
<1>. QED
  BY <1>2, <1>3, <1>4, <1>5
  DEF WorkerAction, WorkerStep, TakeTaskReplyLost, RunTaskRaises, PublishResult,
      PublishResultReplyLost, PublishResultFails, WorkerCrash, workerVars

LEMMA ConsumerOnePlace ==
  ASSUME TypeOK, OnePlace, NEW o \in Orchestrators, ConsumerAction(o)
  PROVE  OnePlace'
<1>0. /\ resultQueue \in Seq(Results)
      /\ inbox \in [Orchestrators -> Results \cup {None}]
      /\ o \in DOMAIN inbox
  BY DEF TypeOK, WorkType, ConsumerType
<1>1. UNCHANGED <<taskQueue, job, produced>>
  BY ConsumerEffects
<1>2. BeingSent' \subseteq BeingSent
  BY ConsumerEffects DEF BeingSent
<1>3. CASE TakeResult(o)
  <2>. DEFINE q == Head(resultQueue).query
  <2>1. /\ inbox[o] = None /\ resultQueue # <<>> /\ resultQueue' = Tail(resultQueue)
        /\ Becomes(inbox, inbox', o, Head(resultQueue))
        /\ BeingSent' = BeingSent
    BY <1>3 DEF TakeResult, TypeOK, ConsumerType, Becomes, BeingSent
  <2>2. /\ q \in Named(resultQueue)
        /\ Named(resultQueue') = Named(resultQueue) \ {q}
        /\ OnceIn(resultQueue')
    BY <1>0, <2>1, PopNames DEF OnePlace
  <2>3. Head(resultQueue) # None /\ q \notin Held(inbox)
    BY <1>0, <2>1, <2>2 DEF OnePlace, Apart, Disjoint
  <2>4. Held(inbox') = Held(inbox) \cup {q} /\ OnceHeld(inbox')
    BY <1>0, <2>1, <2>3, HoldNames DEF OnePlace
  <2>. HIDE DEF q
  <2>5. Apart(BeingSent, Named(taskQueue), Held(job), Held(produced),
              Named(resultQueue) \ {q}, Held(inbox) \cup {q})
    BY <2>2, ApartMoves DEF OnePlace
  <2>. QED
    BY <1>1, <2>1, <2>2, <2>4, <2>5 DEF OnePlace
<1>4. CASE /\ UNCHANGED resultQueue
             \/ (resultQueue # <<>> /\ resultQueue' = Tail(resultQueue))
           /\ UNCHANGED inbox \/ inbox' = [inbox EXCEPT ![o] = None]
  <2>1. UNCHANGED inbox \/ Becomes(inbox, inbox', o, None)
    BY <1>4 DEF Becomes
  <2>2. Named(resultQueue') \subseteq Named(resultQueue) /\ OnceIn(resultQueue')
    <3>1. CASE resultQueue' = resultQueue
      BY <3>1 DEF OnePlace
    <3>2. CASE resultQueue # <<>> /\ resultQueue' = Tail(resultQueue)
      BY <1>0, <3>2, PopNames DEF OnePlace
    <3>. QED
      BY <1>4, <3>1, <3>2
  <2>3. Held(inbox') \subseteq Held(inbox) /\ OnceHeld(inbox')
    BY <1>0, <2>1, LetGoNames DEF OnePlace
  <2>4. Apart(BeingSent', Named(taskQueue), Held(job), Held(produced),
              Named(resultQueue'), Held(inbox'))
    BY <1>2, <2>2, <2>3, ApartShrinks DEF OnePlace
  <2>. QED
    BY <1>1, <2>2, <2>3, <2>4 DEF OnePlace
<1>. QED
  BY <1>3, <1>4
  DEF ConsumerAction, ConsumerStep, TakeResultReplyLost, FetchQuery, IgnoreResult,
      SettleQuery, ProcessResultFails, PublishToUser, PublishToUserFails,
      OrchestratorCrash, Release, consumerVars

(* When Redis never gets a command twice, no query has two messages.       *)
LEMMA OnePlaceInvariant ==
  ASSUME ~RedisRetries
  PROVE  Spec => []OnePlace
<1>1. TypeOK /\ MessagesMatchRows /\ OneAtATime /\ OnePlace /\ [Next]_vars => OnePlace'
  <2>. SUFFICES ASSUME TypeOK, MessagesMatchRows, OneAtATime, OnePlace, [Next]_vars
                PROVE  OnePlace'
    OBVIOUS
  <2>1. CASE UNCHANGED vars
    BY <2>1 DEF vars, workerVars, consumerVars, OnePlace, BeingSent
  <2>. QED
    BY <2>1, HandlerOnePlace, WorkerOnePlace, ConsumerOnePlace
    DEF Next, Idle, HandlerAction, WorkerAction, ConsumerAction
<1>. QED
  BY <1>1, InitOnePlace, TypeCorrect, MessagesAlwaysMatchRows, WorkersOneAtATime,
     PTL DEF Spec

-----------------------------------------------------------------------------
(* One outcome per query, when one process consumes the results, or when   *)
(* Redis never gets a command twice.                                       *)

SingleConsumer == \A o, p \in Orchestrators : o = p

(* No two consumers are about to settle or to announce the same query.     *)
NoRivals ==
  \A o, p \in Orchestrators :
    /\ step[o] \in {"fetched", "committed"}
    /\ step[p] \in {"fetched", "committed"}
    /\ inbox[o].query = inbox[p].query
    => o = p

LEMMA NeverRivals ==
  ASSUME SingleConsumer \/ ~RedisRetries
  PROVE  Spec => []NoRivals
<1>1. SingleConsumer => NoRivals
  BY DEF SingleConsumer, NoRivals
<1>2. TypeOK /\ OnePlace => NoRivals
  <2>1. ASSUME TypeOK, NEW o \in Orchestrators, step[o] \in {"fetched", "committed"}
        PROVE  o \in Holders(inbox)
    BY <2>1 DEF TypeOK, ConsumerType, Holders
  <2>. QED
    BY <2>1 DEF OnePlace, OnceHeld, NoRivals
<1>3. CASE SingleConsumer
  BY <1>1, <1>3, PTL
<1>4. CASE ~RedisRetries
  BY <1>2, <1>4, TypeCorrect, OnePlaceInvariant, PTL
<1>. QED
  BY <1>3, <1>4

(* The two invariants are inductive once it is known that a fetched entity *)
(* is as the database has it, and that a result about to be published is   *)
(* the first one published for its query.                                  *)
ConsumerInv ==
  \A o \in Orchestrators :
    /\ step[o] = "fetched" => state[inbox[o].query] = "PENDING"
    /\ step[o] = "committed" =>
         /\ Outcome(inbox[o].status) = state[inbox[o].query]
         /\ \A m \in published : m.query # inbox[o].query

OutcomeInv == OneOutcomePerQuery /\ PublishedAgreesWithRow /\ ConsumerInv

LEMMA OutcomeType ==
  ASSUME NEW m \in Results
  PROVE  /\ m.query \in Requests
         /\ Outcome(m.status) \in {"COMPLETED", "FAILED"}
         /\ Outcome(m.status) = "FAILED" => m.body
  BY DEF Results, Outcome

LEMMA InitOutcomeInv == Init => OutcomeInv
  BY DEF Init, OutcomeInv, OneOutcomePerQuery, PublishedAgreesWithRow, ConsumerInv

(* A row is only inserted where there is none.                             *)
LEMMA HandlerInserts ==
  ASSUME TypeOK, NEW r \in Requests, HandlerAction(r)
  PROVE  \/ UNCHANGED state
         \/ state[r] = "absent" /\ state' = [state EXCEPT ![r] = "PENDING"]
<1>1. UNCHANGED state \/ (StoreRow(r) /\ ~CorrelationTaken(r))
  BY HandlerEffects
<1>. QED
  BY <1>1 DEF StoreRow, CorrelationTaken

LEMMA HandlerOutcomeInv ==
  ASSUME TypeOK, OutcomeInv, NEW r \in Requests, HandlerAction(r)
  PROVE  OutcomeInv'
<1>1. UNCHANGED <<responses, logs, step, inbox, published>>
  BY HandlerEffects
<1>2. CASE UNCHANGED state
  BY <1>1, <1>2 DEF OutcomeInv, OneOutcomePerQuery, PublishedAgreesWithRow, ConsumerInv
<1>3. CASE state[r] = "absent" /\ state' = [state EXCEPT ![r] = "PENDING"]
  <2>1. /\ \A q \in Requests \ {r} : state'[q] = state[q]
        /\ state'[r] = "PENDING"
    BY <1>3 DEF TypeOK, RowsType
  <2>2. OneOutcomePerQuery'
    <3>. SUFFICES ASSUME NEW q \in Requests
                  PROVE  /\ responses[q] <= (IF state'[q] = "COMPLETED" THEN 1 ELSE 0)
                         /\ logs[q] = (IF state'[q] = "FAILED" THEN 1 ELSE 0)
      BY <1>1 DEF OneOutcomePerQuery
    <3>. QED
      BY <1>3, <2>1 DEF OutcomeInv, OneOutcomePerQuery
  <2>3. \A m \in published : m.query \in Requests \ {r}
    BY <1>3, OutcomeType DEF OutcomeInv, PublishedAgreesWithRow, TypeOK, ConsumerType
  <2>4. PublishedAgreesWithRow'
    BY <1>1, <2>1, <2>3 DEF OutcomeInv, PublishedAgreesWithRow
  <2>5. \A o \in Orchestrators :
          step[o] \in {"fetched", "committed"} => inbox[o].query \in Requests \ {r}
    BY <1>3, OutcomeType DEF OutcomeInv, ConsumerInv, TypeOK, ConsumerType
  <2>6. ConsumerInv'
    BY <1>1, <2>1, <2>5 DEF OutcomeInv, ConsumerInv
  <2>. QED
    BY <2>2, <2>4, <2>6 DEF OutcomeInv
<1>. QED
  BY <1>2, <1>3, HandlerInserts

LEMMA WorkerOutcomeInv ==
  ASSUME OutcomeInv, NEW w \in Workers, WorkerAction(w)
  PROVE  OutcomeInv'
  BY WorkerEffects DEF OutcomeInv, OneOutcomePerQuery, PublishedAgreesWithRow, ConsumerInv

(* What the steps of a consumer do to what this section is about.          *)
LEMMA ConsumerOutcomeEffects ==
  ASSUME NEW o \in Orchestrators, ConsumerAction(o)
  PROVE  \/ /\ UNCHANGED <<state, chat, responses, logs, published>>
            /\ \/ UNCHANGED <<step, inbox>>
               \/ Release(o)
               \/ step' = [step EXCEPT ![o] = "received"]
               \/ /\ step[o] = "received" /\ state[inbox[o].query] = "PENDING"
                  /\ step' = [step EXCEPT ![o] = "fetched"]
                  /\ UNCHANGED inbox
         \/ /\ step[o] = "fetched" /\ Settle(inbox[o])
            /\ UNCHANGED published
            /\ \/ Release(o)
               \/ step' = [step EXCEPT ![o] = "committed"] /\ UNCHANGED inbox
         \/ /\ step[o] = "committed"
            /\ published' = published \cup {inbox[o]}
            /\ Release(o)
            /\ UNCHANGED <<state, chat, responses, logs>>
  BY DEF ConsumerAction, ConsumerStep, TakeResult, TakeResultReplyLost,
         FetchQuery, IgnoreResult, SettleQuery, ProcessResultFails,
         PublishToUser, PublishToUserFails, OrchestratorCrash, dbVars, consumerVars

(* A consumer keeps its hands off the messages of the others.              *)
LEMMA OthersKeep ==
  ASSUME TypeOK, NEW o \in Orchestrators, ConsumerAction(o)
  PROVE  \A p \in Orchestrators \ {o} : step'[p] = step[p] /\ inbox'[p] = inbox[p]
<1>1. \/ UNCHANGED <<step, inbox>>
      \/ Release(o)
      \/ \E c : step' = [step EXCEPT ![o] = c] /\ UNCHANGED inbox
      \/ \E c, m : step' = [step EXCEPT ![o] = c] /\ inbox' = [inbox EXCEPT ![o] = m]
  BY DEF ConsumerAction, ConsumerStep, TakeResult, TakeResultReplyLost,
         FetchQuery, IgnoreResult, SettleQuery, ProcessResultFails,
         PublishToUser, PublishToUserFails, OrchestratorCrash, consumerVars
<1>. QED
  BY <1>1 DEF Release, TypeOK, ConsumerType

LEMMA SettleOutcome ==
  ASSUME TypeOK, OneOutcomePerQuery, PublishedAgreesWithRow,
         NEW res \in Results, state[res.query] = "PENDING", Settle(res),
         UNCHANGED published
  PROVE  /\ OneOutcomePerQuery'
         /\ PublishedAgreesWithRow'
         /\ state'[res.query] = Outcome(res.status)
         /\ \A m \in published : m.query # res.query
<1>. DEFINE q == res.query
<1>1. /\ q \in Requests
      /\ Outcome(res.status) \in {"COMPLETED", "FAILED"}
      /\ Outcome(res.status) = "FAILED" => res.body
  BY OutcomeType
<1>2. /\ state'[q] = Outcome(res.status)
      /\ responses'[q] = IF Outcome(res.status) = "COMPLETED" /\ res.body
                         THEN responses[q] + 1 ELSE responses[q]
      /\ logs'[q] = IF Outcome(res.status) = "FAILED" /\ res.body
                    THEN logs[q] + 1 ELSE logs[q]
  BY <1>1 DEF Settle, TypeOK, RowsType
<1>3. \A r \in Requests \ {q} : /\ state'[r] = state[r]
                                /\ responses'[r] = responses[r]
                                /\ logs'[r] = logs[r]
  BY <1>1 DEF Settle, TypeOK, RowsType
<1>4. responses[q] = 0 /\ logs[q] = 0
  BY <1>1 DEF OneOutcomePerQuery, TypeOK, RowsType
<1>5. OneOutcomePerQuery'
  BY <1>1, <1>2, <1>3, <1>4 DEF OneOutcomePerQuery
<1>6. \A m \in published : m.query \in Requests \ {q}
  BY OutcomeType DEF PublishedAgreesWithRow, TypeOK, ConsumerType
<1>7. PublishedAgreesWithRow'
  BY <1>3, <1>6 DEF PublishedAgreesWithRow
<1>. QED
  BY <1>2, <1>5, <1>6, <1>7

LEMMA ConsumerOutcomeInv ==
  ASSUME NoRivals, TypeOK, MessagesMatchRows, OutcomeInv,
         NEW o \in Orchestrators, ConsumerAction(o)
  PROVE  OutcomeInv'
<1>1. step[o] \in {"fetched", "committed"} =>
        \A p \in Orchestrators \ {o} :
          step[p] \in {"fetched", "committed"} => inbox[p].query # inbox[o].query
  BY DEF NoRivals
<1>2. /\ step \in [Orchestrators -> {"waiting", "received", "fetched", "committed"}]
      /\ inbox \in [Orchestrators -> Results \cup {None}]
      /\ step[o] # "waiting" => inbox[o] \in Results
  BY DEF TypeOK, ConsumerType
<1>0. \A p \in Orchestrators \ {o} : step'[p] = step[p] /\ inbox'[p] = inbox[p]
  BY OthersKeep
<1>3. CASE /\ UNCHANGED <<state, chat, responses, logs, published>>
           /\ \/ UNCHANGED <<step, inbox>>
              \/ Release(o)
              \/ step' = [step EXCEPT ![o] = "received"]
              \/ /\ step[o] = "received" /\ state[inbox[o].query] = "PENDING"
                 /\ step' = [step EXCEPT ![o] = "fetched"]
                 /\ UNCHANGED inbox
  <2>2. /\ step'[o] \in {"fetched", "committed"} => inbox'[o] = inbox[o]
        /\ step'[o] = "fetched" => step[o] = "fetched" \/ state[inbox[o].query] = "PENDING"
        /\ step'[o] = "committed" => step[o] = "committed"
    BY <1>2, <1>3 DEF Release
  <2>3. ConsumerInv'
    BY <1>0, <1>3, <2>2 DEF OutcomeInv, ConsumerInv
  <2>. QED
    BY <1>3, <2>3 DEF OutcomeInv, OneOutcomePerQuery, PublishedAgreesWithRow
<1>4. CASE /\ step[o] = "fetched" /\ Settle(inbox[o])
           /\ UNCHANGED published
           /\ \/ Release(o)
              \/ step' = [step EXCEPT ![o] = "committed"] /\ UNCHANGED inbox
  <2>1. inbox[o] \in Results /\ state[inbox[o].query] = "PENDING"
    BY <1>2, <1>4 DEF OutcomeInv, ConsumerInv
  <2>2. /\ OneOutcomePerQuery'
        /\ PublishedAgreesWithRow'
        /\ state'[inbox[o].query] = Outcome(inbox[o].status)
        /\ \A m \in published : m.query # inbox[o].query
    BY <1>4, <2>1, SettleOutcome DEF OutcomeInv
  <2>3. \A p \in Orchestrators \ {o} : step'[p] \in {"fetched", "committed"} =>
          /\ inbox[p].query # inbox[o].query
          /\ inbox[p] \in Results
          /\ state'[inbox[p].query] = state[inbox[p].query]
    <3>1. /\ state \in [Requests -> {"absent", "PENDING", "COMPLETED", "FAILED"}]
          /\ \A p \in Orchestrators : step[p] # "waiting" => inbox[p] \in Results
      BY DEF TypeOK, RowsType, ConsumerType
    <3>2. \A q \in Requests : q # inbox[o].query => state'[q] = state[q]
      BY <1>4, <3>1 DEF Settle
    <3>. QED
      BY <1>0, <1>1, <1>4, <3>1, <3>2, OutcomeType
  <2>4. step'[o] = "waiting" \/ (step'[o] = "committed" /\ inbox'[o] = inbox[o])
    BY <1>2, <1>4 DEF Release
  <2>5. ConsumerInv'
    BY <1>0, <1>4, <2>2, <2>3, <2>4 DEF OutcomeInv, ConsumerInv
  <2>. QED
    BY <2>2, <2>5 DEF OutcomeInv
<1>5. CASE /\ step[o] = "committed"
           /\ published' = published \cup {inbox[o]}
           /\ Release(o)
           /\ UNCHANGED <<state, chat, responses, logs>>
  <2>1. /\ Outcome(inbox[o].status) = state[inbox[o].query]
        /\ inbox[o].user = UserOf[inbox[o].query]
        /\ \A m \in published : m.query # inbox[o].query
    BY <1>5 DEF OutcomeInv, ConsumerInv, MessagesMatchRows, Carries
  <2>2. PublishedAgreesWithRow'
    BY <1>5, <2>1 DEF OutcomeInv, PublishedAgreesWithRow
  <2>3. step'[o] = "waiting"
    BY <1>2, <1>5 DEF Release
  <2>4. ConsumerInv'
    BY <1>0, <1>1, <1>5, <2>3 DEF OutcomeInv, ConsumerInv
  <2>. QED
    BY <1>5, <2>2, <2>4 DEF OutcomeInv, OneOutcomePerQuery
<1>. QED
  BY <1>3, <1>4, <1>5, ConsumerOutcomeEffects

LEMMA OutcomeInvariant ==
  ASSUME SingleConsumer \/ ~RedisRetries
  PROVE  Spec => [](TypeOK /\ MessagesMatchRows /\ OutcomeInv)
<1>1. TypeOK /\ MessagesMatchRows /\ NoRivals /\ OutcomeInv /\ [Next]_vars => OutcomeInv'
  <2>. SUFFICES ASSUME TypeOK, MessagesMatchRows, NoRivals, OutcomeInv, [Next]_vars
                PROVE  OutcomeInv'
    OBVIOUS
  <2>1. CASE UNCHANGED vars
    BY <2>1 DEF vars, dbVars, workerVars, consumerVars, faultVars, OutcomeInv,
         OneOutcomePerQuery, PublishedAgreesWithRow, ConsumerInv
  <2>. QED
    BY <2>1, HandlerOutcomeInv, WorkerOutcomeInv, ConsumerOutcomeInv
    DEF Next, Idle, HandlerAction, WorkerAction, ConsumerAction
<1>. QED
  BY <1>1, TypeCorrect, MessagesAlwaysMatchRows, NeverRivals, InitOutcomeInv, PTL DEF Spec

(* With one consumer of results, or when Redis never gets a command twice, *)
(* a query has one response or one log, whatever is dropped or restarted.  *)
THEOREM OneOutcome ==
  ASSUME SingleConsumer \/ ~RedisRetries
  PROVE  Spec => []OneOutcomePerQuery
<1>1. OutcomeInv => OneOutcomePerQuery
  BY DEF OutcomeInv
<1>. QED
  BY <1>1, OutcomeInvariant, PTL

(* With one consumer of results, or when Redis never gets a command twice, *)
(* owners hear what the database says, and one thing about each query.     *)
THEOREM OwnersHearTheOutcome ==
  ASSUME SingleConsumer \/ ~RedisRetries
  PROVE  Spec => []PublishedAgreesWithRow
<1>1. OutcomeInv => PublishedAgreesWithRow
  BY DEF OutcomeInv
<1>. QED
  BY <1>1, OutcomeInvariant, PTL

-----------------------------------------------------------------------------
(* What any step does to the rows and to the channels, given the invariant: *)
(* it inserts a row, settles a PENDING one, or announces a settled one.     *)

RowStep ==
  \/ UNCHANGED <<state, responses, logs, published>>
  \/ \E r \in Requests :
       /\ state[r] = "absent"
       /\ state' = [state EXCEPT ![r] = "PENDING"]
       /\ UNCHANGED <<responses, logs, published>>
  \/ \E res \in Results :
       /\ state[res.query] = "PENDING"
       /\ Settle(res)
       /\ UNCHANGED published
  \/ \E m \in Results :
       /\ state[m.query] = Outcome(m.status)
       /\ published' = published \cup {m}
       /\ UNCHANGED <<state, responses, logs>>

LEMMA StepIsRowStep ==
  ASSUME TypeOK, OutcomeInv, [Next]_vars
  PROVE  RowStep
<1>1. ASSUME NEW r \in Requests, HandlerAction(r)
      PROVE  RowStep
  <2>1. UNCHANGED <<responses, logs, published>>
    BY <1>1, HandlerEffects
  <2>. QED
    BY <1>1, <2>1, HandlerInserts DEF RowStep
<1>2. ASSUME NEW w \in Workers, WorkerAction(w)
      PROVE  RowStep
  BY <1>2, WorkerEffects DEF RowStep
<1>3. ASSUME NEW o \in Orchestrators, ConsumerAction(o)
      PROVE  RowStep
  <2>1. step[o] # "waiting" => inbox[o] \in Results
    BY DEF TypeOK, ConsumerType
  <2>2. /\ step[o] = "fetched" => state[inbox[o].query] = "PENDING"
        /\ step[o] = "committed" => Outcome(inbox[o].status) = state[inbox[o].query]
    BY DEF OutcomeInv, ConsumerInv
  <2>3. \/ UNCHANGED <<state, responses, logs, published>>
        \/ step[o] = "fetched" /\ Settle(inbox[o]) /\ UNCHANGED published
        \/ /\ step[o] = "committed"
           /\ published' = published \cup {inbox[o]}
           /\ UNCHANGED <<state, responses, logs>>
    BY <1>3, ConsumerOutcomeEffects
  <2>. QED
    BY <2>1, <2>2, <2>3 DEF RowStep
<1>4. CASE UNCHANGED vars
  BY <1>4 DEF vars, dbVars, RowStep
<1>. QED
  BY <1>1, <1>2, <1>3, <1>4
  DEF Next, Idle, HandlerAction, WorkerAction, ConsumerAction

(* With one consumer of results, or when Redis never gets a command twice, *)
(* a settled row is never written again.                                   *)
THEOREM SettledRowsStayFrozen ==
  ASSUME SingleConsumer \/ ~RedisRetries
  PROVE  Spec => SettledRowsFrozen
<1>. DEFINE Frozen(r) == /\ TransitionAllowed(state[r], state'[r])
                         /\ state[r] # "absent" => state'[r] # "absent"
                         /\ state[r] \in Terminal =>
                              UNCHANGED <<responses[r], logs[r], chat[r]>>
<1>1. TypeOK /\ MessagesMatchRows /\ OutcomeInv /\ MessagesMatchRows' /\ [Next]_vars
        => [\A r \in Requests : Frozen(r)]_vars
  <2>. SUFFICES ASSUME TypeOK, MessagesMatchRows, OutcomeInv, MessagesMatchRows',
                       [Next]_vars, NEW r \in Requests
                PROVE  Frozen(r)
    OBVIOUS
  <2>1. chat'[r] = chat[r]
    BY DEF MessagesMatchRows
  <2>2. /\ state \in [Requests -> {"absent", "PENDING", "COMPLETED", "FAILED"}]
        /\ responses \in [Requests -> Nat]
        /\ logs \in [Requests -> Nat]
    BY DEF TypeOK, RowsType
  <2>3. CASE UNCHANGED <<state, responses, logs, published>>
    BY <2>1, <2>3 DEF TransitionAllowed
  <2>4. ASSUME NEW q \in Requests, state[q] = "absent",
               state' = [state EXCEPT ![q] = "PENDING"],
               UNCHANGED <<responses, logs>>
        PROVE  Frozen(r)
    BY <2>1, <2>2, <2>4 DEF TransitionAllowed, Terminal
  <2>5. ASSUME NEW res \in Results, state[res.query] = "PENDING", Settle(res)
        PROVE  Frozen(r)
    <3>1. res.query \in Requests /\ Outcome(res.status) \in {"COMPLETED", "FAILED"}
      BY OutcomeType
    <3>2. CASE r = res.query
      <4>1. state'[r] = Outcome(res.status)
        BY <2>2, <2>5, <3>1, <3>2 DEF Settle
      <4>. QED
        BY <2>5, <3>1, <3>2, <4>1 DEF TransitionAllowed, Terminal
    <3>3. CASE r # res.query
      <4>1. state'[r] = state[r] /\ responses'[r] = responses[r] /\ logs'[r] = logs[r]
        BY <2>2, <2>5, <3>1, <3>3 DEF Settle
      <4>. QED
        BY <2>1, <4>1 DEF TransitionAllowed
    <3>. QED
      BY <3>2, <3>3
  <2>6. CASE UNCHANGED <<state, responses, logs>>
    BY <2>1, <2>6 DEF TransitionAllowed
  <2>. QED
    BY <2>3, <2>4, <2>5, <2>6, StepIsRowStep DEF RowStep
<1>. QED
  BY <1>1, OutcomeInvariant, PTL DEF Spec, SettledRowsFrozen

-----------------------------------------------------------------------------
(* Pipeline implements QueryLifecycle, when one process consumes the       *)
(* results, or when Redis never gets a command twice.                      *)

LEMMA InitRefines == Init => Lifecycle!Init
  BY DEF Init, Lifecycle!Init

LEMMA StepRefines ==
  ASSUME TypeOK, OutcomeInv, [Next]_vars
  PROVE  [Lifecycle!Next]_Lifecycle!vars
<1>. DEFINE told == {<<m.query, Outcome(m.status)>> : m \in published}
<1>1. CASE UNCHANGED <<state, responses, logs, published>>
  BY <1>1 DEF Lifecycle!vars
<1>2. ASSUME NEW r \in Requests, state[r] = "absent",
             state' = [state EXCEPT ![r] = "PENDING"],
             UNCHANGED <<responses, logs, published>>
      PROVE  Lifecycle!Next
  <2>1. Lifecycle!Submit(r)
    BY <1>2 DEF Lifecycle!Submit
  <2>. QED
    BY <2>1 DEF Lifecycle!Next
<1>3. ASSUME NEW res \in Results, state[res.query] = "PENDING", Settle(res),
             UNCHANGED published
      PROVE  Lifecycle!Next
  <2>. DEFINE q == res.query
  <2>1. /\ q \in Requests
        /\ Outcome(res.status) \in {"COMPLETED", "FAILED"}
        /\ Outcome(res.status) = "FAILED" => res.body
    BY OutcomeType
  <2>2. responses \in [Requests -> Nat] /\ logs \in [Requests -> Nat]
    BY DEF TypeOK, RowsType
  <2>3. CASE Outcome(res.status) = "COMPLETED"
    <3>1. state' = [state EXCEPT ![q] = "COMPLETED"] /\ logs' = logs
      BY <1>3, <2>1, <2>2, <2>3 DEF Settle
    <3>2. responses' = [responses EXCEPT ![q] = IF res.body THEN @ + 1 ELSE @]
      BY <1>3, <2>1, <2>2, <2>3 DEF Settle
    <3>3. \E n \in {0, 1} : responses' = [responses EXCEPT ![q] = @ + n]
      <4>1. CASE res.body
        BY <3>2, <4>1
      <4>2. CASE ~res.body
        <5>1. responses[q] + 0 = responses[q]
          BY <2>1, <2>2
        <5>2. responses' = [responses EXCEPT ![q] = responses[q] + 0]
          BY <3>2, <4>2, <5>1
        <5>. QED
          BY <5>2
      <4>. QED
        BY <4>1, <4>2
    <3>4. Lifecycle!Complete(q)
      BY <1>3, <3>1, <3>3 DEF Lifecycle!Complete
    <3>. QED
      BY <2>1, <3>4 DEF Lifecycle!Next
  <2>4. CASE Outcome(res.status) = "FAILED"
    <3>1. /\ state' = [state EXCEPT ![q] = "FAILED"]
          /\ logs' = [logs EXCEPT ![q] = @ + 1]
          /\ responses' = responses
      BY <1>3, <2>1, <2>2, <2>4 DEF Settle
    <3>2. Lifecycle!Fail(q)
      BY <1>3, <3>1 DEF Lifecycle!Fail
    <3>. QED
      BY <2>1, <3>2 DEF Lifecycle!Next
  <2>. QED
    BY <2>1, <2>3, <2>4
<1>4. ASSUME NEW m \in Results, state[m.query] = Outcome(m.status),
             published' = published \cup {m}, UNCHANGED <<state, responses, logs>>
      PROVE  Lifecycle!Next
  <2>1. m.query \in Requests /\ Outcome(m.status) \in {"COMPLETED", "FAILED"}
    BY OutcomeType
  <2>2. {<<n.query, Outcome(n.status)>> : n \in published'}
          = told \cup {<<m.query, state[m.query]>>}
    BY <1>4
  <2>3. Lifecycle!Tell(m.query)
    BY <1>4, <2>1, <2>2 DEF Lifecycle!Tell, Lifecycle!Terminal
  <2>. QED
    BY <2>1, <2>3 DEF Lifecycle!Next
<1>. QED
  BY <1>1, <1>2, <1>3, <1>4, StepIsRowStep DEF RowStep

(* With one consumer of results, or when Redis never gets a command twice, *)
(* the pipeline only ever does to a query what QueryLifecycle allows.      *)
THEOREM ImplementsLifecycle ==
  ASSUME SingleConsumer \/ ~RedisRetries
  PROVE  Spec => LifecycleSpec
<1>. QED
  BY InitRefines, StepRefines, OutcomeInvariant, PTL
  DEF Spec, LifecycleSpec, Lifecycle!Spec

-----------------------------------------------------------------------------
(* Nothing is dropped silently: every step that takes a message about r    *)
(* from one place puts it into the next one, settles r, or records the     *)
(* loss.                                                                   *)

Holds(q, r) == \E i \in DOMAIN q : q[i].query = r

LEMMA QueueHolds ==
  ASSUME NEW T, NEW q \in Seq(T), NEW r, NEW m \in T
  PROVE  /\ Holds(q, r) => Holds(Append(q, m), r)
         /\ m.query = r => Holds(Append(q, m), r)
         /\ q # <<>> /\ Holds(q, r) => Head(q).query = r \/ Holds(Tail(q), r)
<1>1. /\ DOMAIN q = 1 .. Len(q) /\ Len(q) \in Nat
      /\ DOMAIN Append(q, m) = 1 .. (Len(q) + 1)
      /\ \A i \in 1 .. Len(q) : Append(q, m)[i] = q[i]
      /\ Append(q, m)[Len(q) + 1] = m
  OBVIOUS
<1>2. Holds(q, r) => Holds(Append(q, m), r)
  BY <1>1 DEF Holds
<1>3. m.query = r => Holds(Append(q, m), r)
  BY <1>1 DEF Holds
<1>4. ASSUME q # <<>>, NEW i \in DOMAIN q, q[i].query = r
      PROVE  Head(q).query = r \/ Holds(Tail(q), r)
  <2>1. CASE i = 1
    BY <1>4, <2>1
  <2>2. CASE i # 1
    <3>1. i - 1 \in DOMAIN Tail(q) /\ Tail(q)[i - 1] = q[i]
      BY <1>1, <1>4, <2>2
    <3>. QED
      BY <1>4, <3>1 DEF Holds
  <2>. QED
    BY <2>1, <2>2
<1>. QED
  BY <1>2, <1>3, <1>4 DEF Holds

(* The conjuncts of NoSilentLoss for one request.                          *)
OnItsWay(r) == CanSettle(r) \/ lost[r] \cap {"enqueue", "task", "result"} # {}

Announcing(r) == \E o \in Orchestrators : step[o] = "committed" /\ inbox[o].query = r

NotLost(r) ==
  /\ state[r] = "PENDING" => OnItsWay(r)
  /\ state[r] \in Terminal => Answered(r) \/ Announcing(r) \/ "notify" \in lost[r]

LEMMA NoSilentLossIs == NoSilentLoss <=> \A r \in Requests : NotLost(r)
  BY DEF NoSilentLoss, NotLost, OnItsWay, Announcing

LEMMA NoSilentLossIsPrimed == NoSilentLoss' <=> \A r \in Requests : NotLost(r)'
  BY DEF NoSilentLoss, NotLost, OnItsWay, Announcing

LEMMA LosesGrows ==
  ASSUME LostType, LostStep
  PROVE  \A r \in Requests : lost[r] \subseteq lost'[r]
  BY DEF LostType, LostStep, Loses

LEMMA LosesAdds ==
  ASSUME LostType, NEW r \in Requests, NEW where, Loses(r, where)
  PROVE  where \in lost'[r]
  BY DEF LostType, Loses

(* The handler of r hands its query over to the queue, or loses it.        *)
LEMMA HandlerHandsOver ==
  ASSUME TypeOK, NEW r \in Requests, HandlerAction(r)
  PROVE  /\ \A q \in Requests \ {r} : handler'[q] = handler[q] /\ state'[q] = state[q]
         /\ handler[r] = "committed" => \/ handler'[r] = "committed"
                                        \/ taskQueue' = Append(taskQueue, TaskOf(r))
                                        \/ Loses(r, "enqueue")
         /\ \/ state'[r] = state[r]
            \/ /\ state'[r] = "PENDING"
               /\ handler'[r] = "committed" \/ Loses(r, "enqueue")
<1>1. handler \in [Requests -> {"new", "committed", "published", "accepted", "error", "dead"}]
  BY DEF TypeOK, RowsType
<1>2. state \in [Requests -> {"absent", "PENDING", "COMPLETED", "FAILED"}]
  BY DEF TypeOK, RowsType
<1>3. \A q \in Requests \ {r} : handler'[q] = handler[q] /\ state'[q] = state[q]
  BY <1>1, <1>2, HandlerEffects DEF StoreRow
<1>4. CASE CommitQuery(r) \/ CommitQueryConflict(r) \/ CommitQueryFails(r)
  BY <1>1, <1>2, <1>3, <1>4
  DEF CommitQuery, CommitQueryConflict, CommitQueryFails, StoreRow, dbVars
<1>5. CASE HandlerStep(r)
  BY <1>1, <1>2, <1>3, <1>5
  DEF HandlerStep, BuildTaskInvalid, EnqueueTask, EnqueueTaskReplyLost,
      EnqueueTaskFails, Respond, MayEnqueue, dbVars
<1>. QED
  BY <1>4, <1>5 DEF HandlerAction

LEMMA HandlerNotLost ==
  ASSUME TypeOK, NoSilentLoss, NEW h \in Requests, HandlerAction(h)
  PROVE  NoSilentLoss'
<1>. SUFFICES ASSUME NEW r \in Requests
              PROVE  NotLost(r)'
  BY NoSilentLossIsPrimed
<1>0. NotLost(r)
  BY NoSilentLossIs
<1>1. /\ UNCHANGED <<job, produced, resultQueue, step, inbox, published>>
      /\ taskQueue' = taskQueue \/ taskQueue' = Append(taskQueue, TaskOf(h))
  BY HandlerEffects
<1>2. lost[r] \subseteq lost'[r]
  BY HandlerEffects, LosesGrows DEF TypeOK
<1>3. /\ Holds(taskQueue, r) => Holds(taskQueue', r)
      /\ taskQueue' = Append(taskQueue, TaskOf(r)) => Holds(taskQueue', r)
  <2>1. taskQueue \in Seq(Tasks) /\ TaskOf(h) \in Tasks /\ TaskOf(r) \in Tasks
    BY TaskOfType DEF TypeOK, WorkType
  <2>2. TaskOf(r).query = r
    BY DEF TaskOf
  <2>3. Holds(taskQueue, r) => Holds(Append(taskQueue, TaskOf(h)), r)
    BY <2>1, QueueHolds
  <2>4. Holds(Append(taskQueue, TaskOf(r)), r)
    BY <2>1, <2>2, QueueHolds
  <2>. QED
    BY <1>1, <2>3, <2>4
<1>4. Loses(r, "enqueue") => "enqueue" \in lost'[r]
  BY LosesAdds DEF TypeOK
<1>5. handler[r] = "committed" => \/ handler'[r] = "committed"
                                 \/ Holds(taskQueue', r)
                                 \/ "enqueue" \in lost'[r]
  BY <1>3, <1>4, HandlerHandsOver
<1>6. CanSettle(r) => OnItsWay(r)'
  BY <1>1, <1>3, <1>5 DEF CanSettle, OnItsWay, Holds
<1>7. OnItsWay(r) => OnItsWay(r)'
  BY <1>2, <1>6 DEF OnItsWay
<1>8. CASE state'[r] = state[r]
  BY <1>0, <1>1, <1>2, <1>7, <1>8 DEF NotLost, Answered, Announcing
<1>9. CASE state'[r] = "PENDING" /\ (handler'[r] = "committed" \/ Loses(r, "enqueue"))
  BY <1>4, <1>9 DEF NotLost, OnItsWay, CanSettle, Terminal
<1>. QED
  BY <1>8, <1>9, HandlerHandsOver

(* A worker hands on what it takes, or loses it.                           *)
LEMMA WorkerHandsOn ==
  ASSUME TypeOK, OneAtATime, NEW w \in Workers, WorkerAction(w), NEW r \in Requests
  PROVE  /\ Holds(taskQueue, r) => \/ Holds(taskQueue', r)
                                   \/ job'[w] # None /\ job'[w].query = r
                                   \/ "task" \in lost'[r]
         /\ job[w] # None /\ job[w].query = r =>
              \/ job'[w] # None /\ job'[w].query = r
              \/ produced'[w] # None /\ produced'[w].query = r
              \/ "task" \in lost'[r]
         /\ produced[w] # None /\ produced[w].query = r =>
              \/ produced'[w] # None /\ produced'[w].query = r
              \/ Holds(resultQueue', r)
              \/ "task" \in lost'[r]
         /\ Holds(resultQueue, r) => Holds(resultQueue', r)
         /\ \A v \in Workers \ {w} : job'[v] = job[v] /\ produced'[v] = produced[v]
<1>. USE DEF WorkerAction, WorkerStep, TakeTask, TakeTaskReplyLost, RunTask,
             RunTaskRaises, PublishResult, PublishResultReplyLost,
             PublishResultFails, WorkerCrash, WorkerIdle, workerVars, faultVars
<1>1. /\ taskQueue \in Seq(Tasks)
      /\ job \in [Workers -> Tasks \cup {None}]
      /\ produced \in [Workers -> Results \cup {None}]
      /\ resultQueue \in Seq(Results)
      /\ \A t \in Tasks : t # None
      /\ \A m \in Results : m # None
  BY DEF TypeOK, WorkType
<1>2. /\ job[w] # None => job[w] \in Tasks /\ job[w].query \in Requests
      /\ produced[w] # None => produced[w] \in Results /\ produced[w].query \in Requests
      /\ taskQueue # <<>> => /\ Head(taskQueue) \in Tasks /\ Head(taskQueue) # None
                            /\ Head(taskQueue).query \in Requests
  BY <1>1, QueryOfMessage, QueueTypes
<1>3. \A q \in Requests : Loses(q, "task") => "task" \in lost'[q]
  BY LosesAdds DEF TypeOK
<1>4. Holds(taskQueue, r) => \/ Holds(taskQueue', r)
                             \/ job'[w] # None /\ job'[w].query = r
                             \/ "task" \in lost'[r]
  <2>1. taskQueue # <<>> /\ Holds(taskQueue, r) =>
          Head(taskQueue).query = r \/ Holds(Tail(taskQueue), r)
    <3>1. ASSUME taskQueue # <<>>
          PROVE  Holds(taskQueue, r) => Head(taskQueue).query = r \/ Holds(Tail(taskQueue), r)
      BY <1>1, <1>2, <3>1, QueueHolds
    <3>. QED
      BY <3>1
  <2>2. \/ UNCHANGED taskQueue
        \/ /\ taskQueue # <<>> /\ taskQueue' = Tail(taskQueue)
           /\ \/ job' = [job EXCEPT ![w] = Head(taskQueue)]
              \/ Loses(Head(taskQueue).query, "task")
    OBVIOUS
  <2>3. job' = [job EXCEPT ![w] = Head(taskQueue)] => job'[w] = Head(taskQueue)
    BY <1>1
  <2>. QED
    BY <1>2, <1>3, <2>1, <2>2, <2>3
<1>5. job[w] # None /\ job[w].query = r =>
              \/ job'[w] # None /\ job'[w].query = r
              \/ produced'[w] # None /\ produced'[w].query = r
              \/ "task" \in lost'[r]
  <2>1. job[w] # None => \A res \in RunResults(job[w]) : res # None /\ res.query = job[w].query
    <3>. SUFFICES ASSUME job[w] # None, NEW res \in RunResults(job[w])
                  PROVE  res # None /\ res.query = job[w].query
      OBVIOUS
    <3>1. res \in Results
      BY <1>2, RunResultsType
    <3>2. res.query = job[w].query
      BY DEF RunResults
    <3>. QED
      BY <1>1, <3>1, <3>2
  <2>2. job[w] # None =>
          \/ UNCHANGED job
          \/ \E res \in RunResults(job[w]) : produced' = [produced EXCEPT ![w] = res]
          \/ Loses(job[w].query, "task")
    OBVIOUS
  <2>3. \A res : produced' = [produced EXCEPT ![w] = res] => produced'[w] = res
    BY <1>1
  <2>. QED
    BY <1>2, <1>3, <2>1, <2>2, <2>3
<1>6. produced[w] # None /\ produced[w].query = r =>
              \/ produced'[w] # None /\ produced'[w].query = r
              \/ Holds(resultQueue', r)
              \/ "task" \in lost'[r]
  <2>1. produced[w] # None => Holds(Append(resultQueue, produced[w]), produced[w].query)
    BY <1>1, <1>2, QueueHolds
  <2>2. produced[w] # None => job[w] = None
    BY DEF OneAtATime
  <2>3. produced[w] # None =>
          \/ UNCHANGED produced
          \/ resultQueue' = Append(resultQueue, produced[w])
          \/ Loses(produced[w].query, "task")
    BY <2>2
  <2>. QED
    BY <1>2, <1>3, <2>1, <2>3
<1>7. Holds(resultQueue, r) => Holds(resultQueue', r)
  <2>1. produced[w] # None =>
          (Holds(resultQueue, r) => Holds(Append(resultQueue, produced[w]), r))
    BY <1>1, <1>2, QueueHolds
  <2>. QED
    BY <2>1, WorkerEffects
<1>8. \A v \in Workers \ {w} : job'[v] = job[v] /\ produced'[v] = produced[v]
  BY <1>1, WorkerEffects
<1>. QED
  BY <1>4, <1>5, <1>6, <1>7, <1>8

LEMMA WorkerNotLost ==
  ASSUME TypeOK, OneAtATime, NoSilentLoss, NEW w \in Workers, WorkerAction(w)
  PROVE  NoSilentLoss'
<1>. SUFFICES ASSUME NEW r \in Requests
              PROVE  NotLost(r)'
  BY NoSilentLossIsPrimed
<1>0. NotLost(r)
  BY NoSilentLossIs
<1>1. UNCHANGED <<handler, state, step, inbox, published>>
  BY WorkerEffects
<1>2. lost[r] \subseteq lost'[r]
  BY WorkerLostStep, LosesGrows DEF TypeOK
<1>3. CanSettle(r) => CanSettle(r)' \/ "task" \in lost'[r]
  <2>1. CASE handler[r] = "committed"
             \/ \E o \in Orchestrators : step[o] \in {"received", "fetched"} /\ inbox[o].query = r
    BY <1>1, <2>1 DEF CanSettle
  <2>2. CASE Holds(taskQueue, r) \/ Holds(resultQueue, r)
    BY <2>2, WorkerHandsOn DEF CanSettle, Holds
  <2>3. ASSUME NEW v \in Workers, job[v] # None /\ job[v].query = r
        PROVE  CanSettle(r)' \/ "task" \in lost'[r]
    BY <2>3, WorkerHandsOn DEF CanSettle
  <2>4. ASSUME NEW v \in Workers, produced[v] # None /\ produced[v].query = r
        PROVE  CanSettle(r)' \/ "task" \in lost'[r]
    BY <2>4, WorkerHandsOn DEF CanSettle, Holds
  <2>. QED
    BY <2>1, <2>2, <2>3, <2>4 DEF CanSettle, Holds
<1>. QED
  BY <1>0, <1>1, <1>2, <1>3 DEF NotLost, OnItsWay, Answered, Announcing

(* A consumer settles the query, finds it settled, or loses the result.    *)
LEMMA ConsumerHandsOn ==
  ASSUME TypeOK, NEW o \in Orchestrators, ConsumerAction(o), NEW r \in Requests
  PROVE  /\ Holds(resultQueue, r) => \/ Holds(resultQueue', r)
                                     \/ step'[o] = "received" /\ inbox'[o].query = r
                                     \/ "result" \in lost'[r]
         /\ step[o] \in {"received", "fetched"} /\ inbox[o].query = r =>
              \/ step'[o] \in {"received", "fetched"} /\ inbox'[o].query = r
              \/ state'[r] # "PENDING"
              \/ "result" \in lost'[r]
         /\ step[o] = "committed" /\ inbox[o].query = r =>
              \/ step'[o] = "committed" /\ inbox'[o].query = r
              \/ published' = published \cup {inbox[o]}
              \/ "notify" \in lost'[r]
         /\ handler[r] = "committed" => handler'[r] = "committed" \/ "enqueue" \in lost'[r]
         /\ \A p \in Orchestrators \ {o} : step'[p] = step[p] /\ inbox'[p] = inbox[p]
<1>. USE DEF ConsumerAction, ConsumerStep, TakeResult, TakeResultReplyLost,
             FetchQuery, IgnoreResult, SettleQuery, ProcessResultFails,
             PublishToUser, PublishToUserFails, consumerVars, faultVars
<1>1. /\ resultQueue \in Seq(Results)
      /\ step \in [Orchestrators -> {"waiting", "received", "fetched", "committed"}]
      /\ inbox \in [Orchestrators -> Results \cup {None}]
      /\ step[o] # "waiting" => inbox[o] \in Results /\ inbox[o].query \in Requests
      /\ state \in [Requests -> {"absent", "PENDING", "COMPLETED", "FAILED"}]
  BY QueryOfMessage DEF TypeOK, RowsType, WorkType, ConsumerType
<1>2. resultQueue # <<>> => Head(resultQueue) \in Results /\ Head(resultQueue).query \in Requests
  BY <1>1, QueryOfMessage, QueueTypes
<1>3. \A q \in Requests : \A where : Loses(q, where) => where \in lost'[q]
  BY LosesAdds DEF TypeOK
<1>4. Holds(resultQueue, r) => \/ Holds(resultQueue', r)
                               \/ step'[o] = "received" /\ inbox'[o].query = r
                               \/ "result" \in lost'[r]
  <2>1. ASSUME resultQueue # <<>>
        PROVE  Holds(resultQueue, r) => Head(resultQueue).query = r \/ Holds(Tail(resultQueue), r)
    BY <1>1, <1>2, <2>1, QueueHolds
  <2>2. \/ UNCHANGED resultQueue
        \/ /\ resultQueue # <<>> /\ resultQueue' = Tail(resultQueue)
           /\ \/ /\ inbox' = [inbox EXCEPT ![o] = Head(resultQueue)]
                 /\ step' = [step EXCEPT ![o] = "received"]
              \/ Loses(Head(resultQueue).query, "result")
    BY DEF OrchestratorCrash
  <2>. QED
    BY <1>1, <1>2, <1>3, <2>1, <2>2
<1>5. step[o] \in {"received", "fetched"} /\ inbox[o].query = r =>
        \/ step'[o] \in {"received", "fetched"} /\ inbox'[o].query = r
        \/ state'[r] # "PENDING"
        \/ "result" \in lost'[r]
  <2>1. step[o] \in {"received", "fetched"} /\ inbox[o].query = r =>
          \/ step' = [step EXCEPT ![o] = "fetched"] /\ UNCHANGED inbox
          \/ state[r] # "PENDING" /\ UNCHANGED state
          \/ Settle(inbox[o])
          \/ Loses(r, "result")
          \/ OrchestratorCrash(o)
    BY DEF dbVars
  <2>2. step[o] # "waiting" /\ inbox[o].query = r /\ Settle(inbox[o]) => state'[r] # "PENDING"
    BY <1>1, OutcomeType DEF Settle
  <2>3. step[o] \in {"received", "fetched"} /\ inbox[o].query = r /\ OrchestratorCrash(o)
          => "result" \in lost'[r]
    BY DEF OrchestratorCrash
  <2>. QED
    BY <1>1, <1>3, <2>1, <2>2, <2>3
<1>6. step[o] = "committed" /\ inbox[o].query = r =>
        \/ step'[o] = "committed" /\ inbox'[o].query = r
        \/ published' = published \cup {inbox[o]}
        \/ "notify" \in lost'[r]
  <2>1. step[o] = "committed" /\ inbox[o].query = r /\ OrchestratorCrash(o)
          => "notify" \in lost'[r]
    BY DEF OrchestratorCrash
  <2>. QED
    BY <1>3, <2>1
<1>7. handler[r] = "committed" => handler'[r] = "committed" \/ "enqueue" \in lost'[r]
  <2>1. CASE ConsumerStep(o)
    BY <2>1
  <2>2. CASE OrchestratorCrash(o)
    BY <2>2 DEF OrchestratorCrash
  <2>. QED
    BY <2>1, <2>2
<1>8. \A p \in Orchestrators \ {o} : step'[p] = step[p] /\ inbox'[p] = inbox[p]
  BY <1>1, ConsumerEffects DEF Release
<1>. QED
  BY <1>4, <1>5, <1>6, <1>7, <1>8

(* A row that a consumer takes to a terminal state is about to be          *)
(* announced.                                                              *)
LEMMA ConsumerAnnounces ==
  ASSUME TypeOK, NEW o \in Orchestrators, ConsumerAction(o), NEW r \in Requests
  PROVE  \/ state'[r] = state[r]
         \/ step'[o] = "committed" /\ inbox'[o].query = r
         \/ "notify" \in lost'[r]
<1>1. /\ step \in [Orchestrators -> {"waiting", "received", "fetched", "committed"}]
      /\ step[o] # "waiting" => inbox[o] \in Results /\ inbox[o].query \in Requests
      /\ state \in [Requests -> {"absent", "PENDING", "COMPLETED", "FAILED"}]
  BY QueryOfMessage DEF TypeOK, RowsType, ConsumerType
<1>2. Loses(r, "notify") => "notify" \in lost'[r]
  BY LosesAdds DEF TypeOK
<1>3. \/ UNCHANGED state
      \/ /\ step[o] = "fetched" /\ Settle(inbox[o])
         /\ \/ step' = [step EXCEPT ![o] = "committed"] /\ UNCHANGED inbox
            \/ Loses(inbox[o].query, "notify")
  BY DEF ConsumerAction, ConsumerStep, TakeResult, TakeResultReplyLost,
         FetchQuery, IgnoreResult, SettleQuery, ProcessResultFails,
         PublishToUser, PublishToUserFails, OrchestratorCrash, dbVars
<1>4. step[o] = "fetched" /\ Settle(inbox[o]) /\ inbox[o].query # r => state'[r] = state[r]
  BY <1>1 DEF Settle
<1>. QED
  BY <1>1, <1>2, <1>3, <1>4

LEMMA ConsumerLostGrows ==
  ASSUME TypeOK, NEW o \in Orchestrators, ConsumerAction(o), NEW r \in Requests
  PROVE  lost[r] \subseteq lost'[r]
<1>1. CASE ConsumerStep(o)
  <2>1. resultQueue # <<>> => Head(resultQueue).query \in Requests
    BY QueryOfMessage, QueueTypes DEF TypeOK, WorkType
  <2>2. step[o] # "waiting" => inbox[o].query \in Requests
    BY QueryOfMessage DEF TypeOK, ConsumerType
  <2>3. LostStep
    BY <1>1, <2>1, <2>2 DEF ConsumerStep, TakeResult, TakeResultReplyLost,
       FetchQuery, IgnoreResult, SettleQuery, ProcessResultFails, PublishToUser,
       PublishToUserFails, faultVars, LostStep, LossPoints
  <2>. QED
    BY <2>3, LosesGrows DEF TypeOK
<1>2. CASE OrchestratorCrash(o)
  BY <1>2 DEF OrchestratorCrash
<1>. QED
  BY <1>1, <1>2 DEF ConsumerAction

LEMMA ConsumerNotLost ==
  ASSUME TypeOK, NoSilentLoss, NEW o \in Orchestrators, ConsumerAction(o)
  PROVE  NoSilentLoss'
<1>. SUFFICES ASSUME NEW r \in Requests
              PROVE  NotLost(r)'
  BY NoSilentLossIsPrimed
<1>0. NotLost(r)
  BY NoSilentLossIs
<1>1. UNCHANGED <<taskQueue, job, produced>>
  BY ConsumerEffects
<1>2. lost[r] \subseteq lost'[r]
  BY ConsumerLostGrows
<1>3. CanSettle(r) => OnItsWay(r)' \/ state'[r] # "PENDING"
  <2>1. CASE handler[r] = "committed"
    BY <2>1, ConsumerHandsOn DEF CanSettle, OnItsWay
  <2>2. CASE \/ Holds(taskQueue, r)
             \/ \E w \in Workers : job[w] # None /\ job[w].query = r
             \/ \E w \in Workers : produced[w] # None /\ produced[w].query = r
    BY <1>1, <2>2 DEF CanSettle, OnItsWay, Holds
  <2>3. CASE Holds(resultQueue, r)
    BY <2>3, ConsumerHandsOn DEF CanSettle, OnItsWay, Holds
  <2>4. ASSUME NEW p \in Orchestrators, step[p] \in {"received", "fetched"}, inbox[p].query = r
        PROVE  OnItsWay(r)' \/ state'[r] # "PENDING"
    BY <2>4, ConsumerHandsOn DEF CanSettle, OnItsWay
  <2>. QED
    BY <2>1, <2>2, <2>3, <2>4 DEF CanSettle, Holds
<1>4. OnItsWay(r) => OnItsWay(r)' \/ state'[r] # "PENDING"
  BY <1>2, <1>3 DEF OnItsWay
<1>5. Answered(r) => Answered(r)'
  BY ConsumerEffects DEF Answered
<1>6. Announcing(r) => Answered(r)' \/ Announcing(r)' \/ "notify" \in lost'[r]
  <2>. SUFFICES ASSUME NEW p \in Orchestrators, step[p] = "committed", inbox[p].query = r
                PROVE  Answered(r)' \/ Announcing(r)' \/ "notify" \in lost'[r]
    BY DEF Announcing
  <2>. QED
    BY ConsumerHandsOn DEF Answered, Announcing
<1>7. CASE state'[r] = state[r]
  BY <1>0, <1>2, <1>4, <1>5, <1>6, <1>7 DEF NotLost
<1>8. CASE state'[r] # state[r]
  <2>1. state'[r] # "PENDING"
    <3>1. \/ UNCHANGED state
          \/ step[o] = "fetched" /\ Settle(inbox[o])
      BY ConsumerEffects
    <3>2. step[o] = "fetched" => inbox[o] \in Results
      BY DEF TypeOK, ConsumerType
    <3>. QED
      BY <1>8, <3>1, <3>2, OutcomeType DEF Settle, TypeOK, RowsType
  <2>2. Announcing(r)' \/ "notify" \in lost'[r]
    BY <1>8, ConsumerAnnounces DEF Announcing
  <2>. QED
    BY <2>1, <2>2 DEF NotLost
<1>. QED
  BY <1>7, <1>8

(* A query is stuck, or its owner not told, only if a message about it was *)
(* dropped; this holds for any number of orchestrators.                    *)
THEOREM NothingIsLostSilently == Spec => []NoSilentLoss
<1>1. Init => NoSilentLoss
  BY DEF Init, NoSilentLoss, Terminal
<1>2. TypeOK /\ OneAtATime /\ NoSilentLoss /\ [Next]_vars => NoSilentLoss'
  <2>. SUFFICES ASSUME TypeOK, OneAtATime, NoSilentLoss, [Next]_vars
                PROVE  NoSilentLoss'
    OBVIOUS
  <2>1. CASE UNCHANGED vars
    BY <2>1 DEF vars, dbVars, workerVars, consumerVars, faultVars, NoSilentLoss,
         CanSettle, Answered
  <2>. QED
    BY <2>1, HandlerNotLost, WorkerNotLost, ConsumerNotLost
    DEF Next, Idle, HandlerAction, WorkerAction, ConsumerAction
<1>. QED
  BY <1>1, <1>2, TypeCorrect, WorkersOneAtATime, PTL DEF Spec

-----------------------------------------------------------------------------
(* From the pipeline to the page.                                          *)

Socket == INSTANCE WebSocketBridgeProofs WITH OwnerOf <- [m \in Results |-> m.user]

LEMMA SocketAssumption == Socket!BridgeAssumption
<1>1. \A m \in Results : m.user \in Users
  BY DEF Results
<1>. QED
  BY <1>1, DeliveryAssumption DEF Socket!BridgeAssumption

-----------------------------------------------------------------------------
(* The composition is a behaviour of each of its parts.                    *)

LEMMA StepOfPipeline == [DeliveryNext]_deliveryVars => [Next]_vars
  BY DEF DeliveryNext, deliveryVars, PipelineStep, BridgeStep, Announce, AnnounceThenFail,
         BeforeAnnouncing, Next, ConsumerStep

LEMMA RunsPipeline == DeliverySpec => Spec
  BY StepOfPipeline, PTL DEF DeliverySpec, DeliveryInit, Spec

LEMMA SameInit == Bridge!Init => Socket!Init
  BY DEF Bridge!Init, Socket!Init

LEMMA SamePublish ==
  ASSUME NEW m \in Results, Bridge!Publish(m)
  PROVE  Socket!Publish(m)
  BY DEF Bridge!Publish, Socket!Publish, Bridge!Hears, Socket!Hears

LEMMA SameConnect ==
  ASSUME NEW s \in Sockets, NEW t \in Tokens, Bridge!Connect(s, t) \/ Bridge!ConnectRefused(s, t)
  PROVE  Socket!Connect(s, t) \/ Socket!ConnectRefused(s, t)
  BY DEF Bridge!Connect, Socket!Connect, Bridge!ConnectRefused, Socket!ConnectRefused,
         Bridge!CloseOthers, Socket!CloseOthers, Bridge!Identity, Socket!Identity

LEMMA SameHandlerStep ==
  ASSUME NEW s \in Sockets, Bridge!HandlerStep(s)
  PROVE  Socket!HandlerStep(s)
  BY DEF Bridge!HandlerStep, Socket!HandlerStep, Bridge!Subscribe, Socket!Subscribe,
         Bridge!Forward, Socket!Forward, Bridge!SendFails, Socket!SendFails,
         Bridge!Resubscribe, Socket!Resubscribe, Bridge!End, Socket!End

LEMMA SameSocketStep ==
  ASSUME NEW s \in Sockets, Bridge!SocketStep(s)
  PROVE  Socket!SocketStep(s)
<1>1. Bridge!Leave(s) \/ Bridge!CloseArrives(s) => Socket!Leave(s) \/ Socket!CloseArrives(s)
  BY DEF Bridge!Leave, Socket!Leave, Bridge!CloseArrives, Socket!CloseArrives
<1>2. Bridge!ListenFails(s) \/ Bridge!LoseRedis(s) => Socket!ListenFails(s) \/ Socket!LoseRedis(s)
  BY DEF Bridge!ListenFails, Socket!ListenFails, Bridge!LoseRedis, Socket!LoseRedis,
         Bridge!Break, Socket!Break, Bridge!End, Socket!End, Bridge!Range, Socket!Range
<1>. QED
  BY <1>1, <1>2, SameConnect, SameHandlerStep DEF Bridge!SocketStep, Socket!SocketStep

LEMMA SameRestart == Bridge!GatewayRestart => Socket!GatewayRestart
  BY DEF Bridge!GatewayRestart, Socket!GatewayRestart, Bridge!Break, Socket!Break

(* What is announced is a result: a consumer that has committed holds one. *)
LEMMA AnnouncedIsResult ==
  ASSUME TypeOK, NEW o \in Orchestrators, step[o] = "committed"
  PROVE  inbox[o] \in Results
  BY DEF TypeOK, ConsumerType

LEMMA StepOfSocket ==
  ASSUME TypeOK, [DeliveryNext]_deliveryVars
  PROVE  [Socket!Next]_(Socket!vars)
<1>1. CASE UNCHANGED bridgeVars
  BY <1>1 DEF bridgeVars, Socket!vars
<1>2. ASSUME NEW o \in Orchestrators, Announce(o) \/ AnnounceThenFail(o), ~UNCHANGED bridgeVars
      PROVE  Socket!Next
  <2>1. step[o] = "committed" /\ Bridge!Publish(inbox[o])
    BY <1>2 DEF Announce, AnnounceThenFail, PublishToUser, PublishToUserFails
  <2>. QED
    BY <2>1, AnnouncedIsResult, SamePublish DEF Socket!Next
<1>3. CASE BridgeStep
  BY <1>3, SameSocketStep, SameRestart DEF BridgeStep, Socket!Next
<1>. QED
  BY <1>1, <1>2, <1>3 DEF DeliveryNext, PipelineStep, deliveryVars

LEMMA RunsSocket == DeliverySpec => Socket!Spec
  BY RunsPipeline, TypeCorrect, StepOfSocket, SameInit, PTL
  DEF DeliverySpec, DeliveryInit, Socket!Spec

-----------------------------------------------------------------------------
(* What sits in the log of the channels was published by a consumer.       *)

LogIsPublished == \A i \in 1 .. Len(log) : log[i] \in published

LEMMA LogStaysPublished ==
  ASSUME TypeOK, Socket!TypeOK, LogIsPublished, [DeliveryNext]_deliveryVars
  PROVE  LogIsPublished'
<1>0. log \in Seq(Results) /\ Len(log) \in Nat
  BY DEF Socket!TypeOK
<1>1. published \subseteq published'
  <2>1. [Next]_vars
    BY StepOfPipeline
  <2>2. CASE UNCHANGED vars
    BY <2>2 DEF vars
  <2>3. ASSUME NEW r \in Requests, HandlerAction(r)
        PROVE  UNCHANGED published
    BY <2>3, HandlerEffects
  <2>4. ASSUME NEW w \in Workers, WorkerAction(w)
        PROVE  UNCHANGED published
    BY <2>4, WorkerEffects
  <2>5. ASSUME NEW o \in Orchestrators, ConsumerAction(o)
        PROVE  published \subseteq published'
    BY <2>5, ConsumerEffects
  <2>. QED
    BY <2>1, <2>2, <2>3, <2>4, <2>5
    DEF Next, Idle, HandlerAction, WorkerAction, ConsumerAction
<1>2. CASE UNCHANGED log
  BY <1>1, <1>2 DEF LogIsPublished
<1>3. ASSUME NEW o \in Orchestrators, Announce(o) \/ AnnounceThenFail(o), ~UNCHANGED log
      PROVE  LogIsPublished'
  <2>1. /\ step[o] = "committed"
        /\ published' = published \cup {inbox[o]}
        /\ Bridge!Publish(inbox[o])
    BY <1>3 DEF Announce, AnnounceThenFail, PublishToUser, PublishToUserFails, bridgeVars
  <2>2. log' = Append(log, inbox[o]) /\ inbox[o] \in Results
    BY <2>1, AnnouncedIsResult DEF Bridge!Publish
  <2>3. /\ Len(log') = Len(log) + 1
        /\ \A i \in 1 .. Len(log) : log'[i] = log[i]
        /\ log'[Len(log) + 1] = inbox[o]
    BY <1>0, <2>2
  <2>4. \A i \in 1 .. Len(log') : i \in 1 .. Len(log) \/ i = Len(log) + 1
    BY <1>0, <2>3
  <2>. QED
    BY <1>1, <2>1, <2>3, <2>4 DEF LogIsPublished
<1>4. BridgeStep => UNCHANGED log
  BY DEF BridgeStep, Bridge!SocketStep, Bridge!HandlerStep, Bridge!GatewayRestart,
         Bridge!Connect, Bridge!ConnectRefused, Bridge!Subscribe, Bridge!Forward,
         Bridge!SendFails, Bridge!Resubscribe, Bridge!Leave, Bridge!CloseArrives,
         Bridge!ListenFails, Bridge!LoseRedis
<1>. QED
  BY <1>2, <1>3, <1>4 DEF DeliveryNext, PipelineStep, deliveryVars, bridgeVars

LEMMA AlwaysLogIsPublished == DeliverySpec => [](LogIsPublished /\ Socket!OnlyOwnResults)
<1>1. DeliveryInit => LogIsPublished
  BY DEF DeliveryInit, Bridge!Init, LogIsPublished
<1>2. DeliverySpec => [](TypeOK /\ Socket!TypeOK)
  BY RunsPipeline, TypeCorrect, RunsSocket, SocketAssumption, Socket!BridgeTypeCorrect, PTL
<1>3. DeliverySpec => []Socket!OnlyOwnResults
  BY RunsSocket, SocketAssumption, Socket!SocketsCarryOwnResults, PTL
<1>. QED
  BY <1>1, <1>2, <1>3, LogStaysPublished, PTL DEF DeliverySpec

-----------------------------------------------------------------------------
(* With one consumer of results, or when Redis never gets a command twice, *)
(* what a page is shown about a query is the state of its row, and is for  *)
(* the user who asked, whatever fails and however many requests, workers   *)
(* and sockets there are.                                                  *)
THEOREM ShownIsRight ==
  ASSUME SingleConsumer \/ ~RedisRetries
  PROVE  DeliverySpec => []ShownAgreesWithRow
<1>1. ASSUME TypeOK, PublishedAgreesWithRow, LogIsPublished, Socket!OnlyOwnResults
      PROVE  ShownAgreesWithRow
  <2>. SUFFICES ASSUME NEW s \in Sockets, NEW i \in Range(received[s])
                PROVE  /\ Outcome(log[i].status) = state[log[i].query]
                       /\ UserOf[log[i].query] = user[s]
    BY DEF ShownAgreesWithRow, Arrived
  <2>1. i \in Socket!Range(received[s])
    BY DEF Range, Socket!Range
  <2>2. i \in 1 .. Len(log) /\ [m \in Results |-> m.user][log[i]] = user[s]
    BY <1>1, <2>1 DEF Socket!OnlyOwnResults
  <2>3. log[i] \in published /\ log[i] \in Results
    BY <1>1, <2>2 DEF LogIsPublished, TypeOK, ConsumerType
  <2>4. log[i].user = user[s]
    BY <2>2, <2>3
  <2>5. /\ Outcome(log[i].status) = state[log[i].query]
        /\ log[i].user = UserOf[log[i].query]
    BY <1>1, <2>3 DEF PublishedAgreesWithRow
  <2>. QED
    BY <2>4, <2>5
<1>. QED
  BY <1>1, RunsPipeline, TypeCorrect, OwnersHearTheOutcome, AlwaysLogIsPublished, PTL
=============================================================================
