------------------------------ MODULE Pipeline ------------------------------
(***************************************************************************)
(* The asynchronous pipeline: an HTTP handler of the orchestrator stores a *)
(* query and pushes a task to Redis; an ml_worker pops the task, runs it   *)
(* and pushes a result; the result consumer of an orchestrator pops the    *)
(* result, settles the query in Postgres and publishes the result on the   *)
(* owner's channel.                                                        *)
(*                                                                         *)
(* One action per await that another process can observe.  Every action    *)
(* named ...Fails, ...ReplyLost, ...Raises or Crash is a fault and takes   *)
(* one unit of the budget MaxFaults; the others are what the code does     *)
(* when Redis, Postgres and the processes stay up.                         *)
(***************************************************************************)
EXTENDS Naturals, Sequences, FiniteSets

CONSTANTS
  Requests,       \* POST /api/run requests; the query a request creates has its name
  Workers,        \* ml_worker processes
  Orchestrators,  \* orchestrator processes, each with one result consumer
  Users, Chats, Correlations,
  UserOf,         \* UserOf[r]: the X-User-ID header of request r
  ChatOf,         \* ChatOf[r]: its interaction_id (given, or the uuid4 made for it)
  CorrelationOf,  \* CorrelationOf[r]: its X-Correlation-ID header
  HostOf,         \* HostOf[r]: the orchestrator process that serves r
  EmptyPrompt,    \* the requests whose message is ""
  RedisRetries,   \* does the Redis client resend a command whose reply was lost?
  MaxFaults,      \* bound on the number of faults in a behaviour
  None            \* no message

(* A task, and a result, as the fields the orchestrator and the worker act *)
(* on.  "body" stands for output_text, or for error when FAILED, being     *)
(* non-empty: an error is always a code.                                   *)
Tasks == [query : Requests, user : Users, chat : Chats]

Results ==
  {m \in [query : Requests, user : Users, chat : Chats,
          status : {"COMPLETED", "MOCKED", "FAILED"}, body : BOOLEAN] :
     m.status = "FAILED" => m.body}

(* Where a message can be dropped: the task before it is in task_queue, the *)
(* task or its result before it is in result_queue, the result before it   *)
(* settles the query, and the result before it is published.               *)
LossPoints == {"enqueue", "task", "result", "notify"}

ASSUME PipelineAssumption ==
  /\ UserOf \in [Requests -> Users]
  /\ ChatOf \in [Requests -> Chats]
  /\ CorrelationOf \in [Requests -> Correlations]
  /\ HostOf \in [Requests -> Orchestrators]
  /\ EmptyPrompt \subseteq Requests
  /\ RedisRetries \in BOOLEAN
  /\ MaxFaults \in Nat
  /\ None \notin Tasks \cup Results

VARIABLES
  handler,      \* handler[r]: how far the HTTP handler of r has come
  state,        \* state[r]: column state of r's row of queries, or "absent"
  chat,         \* chat[r]: column interaction_id of that row
  responses,    \* responses[r]: number of rows of responses for r
  logs,         \* logs[r]: number of rows of logs for r
  taskQueue,    \* Redis list task_queue
  job,          \* job[w]: the task worker w has popped and not yet run
  produced,     \* produced[w]: the result worker w has not yet pushed
  resultQueue,  \* Redis list result_queue
  step,         \* step[o]: how far o's result consumer is with its message
  inbox,        \* inbox[o]: that message
  published,    \* the results ever published on the channels "results:<user>"
  lost,         \* history: lost[r] says where a message about r was dropped
  faults        \* history: number of faults so far

dbVars == <<state, chat, responses, logs>>
workerVars == <<job, produced>>
consumerVars == <<step, inbox>>
faultVars == <<lost, faults>>
vars == <<handler, dbVars, taskQueue, workerVars, resultQueue, consumerVars,
          published, faultVars>>

RowsType ==
  /\ handler \in [Requests -> {"new", "committed", "published", "accepted",
                               "error", "dead"}]
  /\ state \in [Requests -> {"absent", "PENDING", "COMPLETED", "FAILED"}]
  /\ chat \in [Requests -> Chats]
  /\ responses \in [Requests -> Nat]
  /\ logs \in [Requests -> Nat]

WorkType ==
  /\ taskQueue \in Seq(Tasks)
  /\ job \in [Workers -> Tasks \cup {None}]
  /\ produced \in [Workers -> Results \cup {None}]
  /\ resultQueue \in Seq(Results)

ConsumerType ==
  /\ step \in [Orchestrators -> {"waiting", "received", "fetched", "committed"}]
  /\ inbox \in [Orchestrators -> Results \cup {None}]
  /\ \A o \in Orchestrators : step[o] = "waiting" <=> inbox[o] = None
  /\ published \subseteq Results

LostType == lost \in [Requests -> SUBSET LossPoints]

TypeOK == RowsType /\ WorkType /\ ConsumerType /\ LostType /\ faults \in Nat

Init ==
  /\ handler = [r \in Requests |-> "new"]
  /\ state = [r \in Requests |-> "absent"]
  /\ chat = ChatOf
  /\ responses = [r \in Requests |-> 0]
  /\ logs = [r \in Requests |-> 0]
  /\ taskQueue = <<>>
  /\ job = [w \in Workers |-> None]
  /\ produced = [w \in Workers |-> None]
  /\ resultQueue = <<>>
  /\ step = [o \in Orchestrators |-> "waiting"]
  /\ inbox = [o \in Orchestrators |-> None]
  /\ published = {}
  /\ lost = [r \in Requests |-> {}]
  /\ faults = 0

(* A fault happens, and drops nothing or a message about query q.          *)
Fault ==
  /\ faults < MaxFaults
  /\ faults' = faults + 1

Loses(q, where) == lost' = [lost EXCEPT ![q] = @ \cup {where}]

-----------------------------------------------------------------------------
(* The HTTP handler: QueryService.create_and_enqueue_task.                 *)

TaskOf(r) == [query |-> r, user |-> UserOf[r], chat |-> ChatOf[r]]

(* Column correlation_id is unique.                                        *)
CorrelationTaken(r) ==
  \E q \in Requests : state[q] # "absent" /\ CorrelationOf[q] = CorrelationOf[r]

StoreRow(r) ==
  /\ state' = [state EXCEPT ![r] = "PENDING"]
  /\ chat' = [chat EXCEPT ![r] = ChatOf[r]]

(* Mutant of CommitQuery: the commit is forgotten, the row never visible.  *)
CommitQueryForgotten(r) ==
  /\ handler[r] = "new"
  /\ ~CorrelationTaken(r)
  /\ handler' = [handler EXCEPT ![r] = "committed"]
  /\ UNCHANGED <<dbVars, taskQueue, workerVars, resultQueue, consumerVars,
                 published, faultVars>>

(* repo.save and session.commit: the row becomes visible as PENDING.       *)
CommitQuery(r) ==
  /\ handler[r] = "new"
  /\ ~CorrelationTaken(r)
  /\ StoreRow(r)
  /\ handler' = [handler EXCEPT ![r] = "committed"]
  /\ UNCHANGED <<responses, logs, taskQueue, workerVars, resultQueue,
                 consumerVars, published, faultVars>>

(* The flush violates the unique index, and the request gets a 500.        *)
CommitQueryConflict(r) ==
  /\ handler[r] = "new"
  /\ CorrelationTaken(r)
  /\ handler' = [handler EXCEPT ![r] = "error"]
  /\ UNCHANGED <<dbVars, taskQueue, workerVars, resultQueue, consumerVars,
                 published, faultVars>>

(* Postgres fails.  When the connection breaks during COMMIT the row may   *)
(* be there although session.commit raised.                                *)
CommitQueryFails(r) ==
  /\ handler[r] = "new"
  /\ ~CorrelationTaken(r)
  /\ Fault
  /\ handler' = [handler EXCEPT ![r] = "error"]
  /\ \/ /\ StoreRow(r)
        /\ Loses(r, "enqueue")
     \/ UNCHANGED <<state, chat, lost>>
  /\ UNCHANGED <<responses, logs, taskQueue, workerVars, resultQueue,
                 consumerVars, published>>

(* PipelineRequest admits an empty message and TaskMessage does not: its   *)
(* constructor raises after the commit, and the row stays PENDING.         *)
BuildTaskInvalid(r) ==
  /\ handler[r] = "committed"
  /\ r \in EmptyPrompt
  /\ handler' = [handler EXCEPT ![r] = "error"]
  /\ Loses(r, "enqueue")
  /\ UNCHANGED <<dbVars, taskQueue, workerVars, resultQueue, consumerVars,
                 published, faults>>

MayEnqueue(r) == handler[r] = "committed" /\ r \notin EmptyPrompt

(* Mutant of EnqueueTask: the coroutine of publish is not awaited.         *)
EnqueueTaskNotAwaited(r) ==
  /\ MayEnqueue(r)
  /\ handler' = [handler EXCEPT ![r] = "published"]
  /\ UNCHANGED <<dbVars, taskQueue, workerVars, resultQueue, consumerVars,
                 published, faultVars>>

(* QueuePublisher.publish pushes the task.                                 *)
EnqueueTask(r) ==
  /\ MayEnqueue(r)
  /\ taskQueue' = Append(taskQueue, TaskOf(r))
  /\ handler' = [handler EXCEPT ![r] = "published"]
  /\ UNCHANGED <<dbVars, workerVars, resultQueue, consumerVars, published,
                 faultVars>>

(* RPUSH is executed, its reply is lost, and the client sends it again.    *)
EnqueueTaskReplyLost(r) ==
  /\ RedisRetries
  /\ MayEnqueue(r)
  /\ Fault
  /\ taskQueue' = Append(taskQueue, TaskOf(r))
  /\ UNCHANGED <<handler, dbVars, workerVars, resultQueue, consumerVars,
                 published, lost>>

(* RPUSH raises, executed or not: publish logs the exception and returns,  *)
(* and the handler goes on as after a success.                             *)
EnqueueTaskFails(r) ==
  /\ MayEnqueue(r)
  /\ Fault
  /\ handler' = [handler EXCEPT ![r] = "published"]
  /\ \/ /\ taskQueue' = Append(taskQueue, TaskOf(r))
        /\ UNCHANGED lost
     \/ /\ Loses(r, "enqueue")
        /\ UNCHANGED taskQueue
  /\ UNCHANGED <<dbVars, workerVars, resultQueue, consumerVars, published>>

(* 202, "Task enqueued".                                                   *)
Respond(r) ==
  /\ handler[r] = "published"
  /\ handler' = [handler EXCEPT ![r] = "accepted"]
  /\ UNCHANGED <<dbVars, taskQueue, workerVars, resultQueue, consumerVars,
                 published, faultVars>>

HandlerStep(r) ==
  \/ BuildTaskInvalid(r) \/ EnqueueTask(r) \/ EnqueueTaskReplyLost(r)
  \/ EnqueueTaskFails(r) \/ Respond(r)

-----------------------------------------------------------------------------
(* The worker: QueueConsumer.run around TaskProcessor.process.             *)

WorkerIdle(w) == job[w] = None /\ produced[w] = None

(* Mutant of TakeTask: the task is read and stays in the list.             *)
PeekTask(w) ==
  /\ WorkerIdle(w)
  /\ taskQueue # <<>>
  /\ job' = [job EXCEPT ![w] = Head(taskQueue)]
  /\ UNCHANGED <<handler, dbVars, taskQueue, produced, resultQueue,
                 consumerVars, published, faultVars>>

(* BLPOP hands the oldest task to one of the waiting workers.              *)
TakeTask(w) ==
  /\ WorkerIdle(w)
  /\ taskQueue # <<>>
  /\ job' = [job EXCEPT ![w] = Head(taskQueue)]
  /\ taskQueue' = Tail(taskQueue)
  /\ UNCHANGED <<handler, dbVars, produced, resultQueue, consumerVars,
                 published, faultVars>>

(* The element is popped but the reply does not arrive.                    *)
TakeTaskReplyLost(w) ==
  /\ WorkerIdle(w)
  /\ taskQueue # <<>>
  /\ Fault
  /\ Loses(Head(taskQueue).query, "task")
  /\ taskQueue' = Tail(taskQueue)
  /\ UNCHANGED <<handler, dbVars, workerVars, resultQueue, consumerVars,
                 published>>

(* What Runner.run returns for task t: an exception of the graph or of the *)
(* model is a FAILED result with an error code.  A dry run of              *)
(* InferenceRunner, which main leaves unused, is MOCKED.                   *)
RunResults(t) ==
  LET Result(s, b) == [query |-> t.query, user |-> t.user, chat |-> t.chat,
                       status |-> s, body |-> b]
  IN  {Result("COMPLETED", TRUE), Result("COMPLETED", FALSE),
       Result("MOCKED", TRUE), Result("FAILED", TRUE)}

RunTask(w) ==
  /\ job[w] # None
  /\ \E res \in RunResults(job[w]) : produced' = [produced EXCEPT ![w] = res]
  /\ job' = [job EXCEPT ![w] = None]
  /\ UNCHANGED <<handler, dbVars, taskQueue, resultQueue, consumerVars,
                 published, faultVars>>

(* An exception that leaves process: task_wrapper turns it into a FAILED   *)
(* result, which the consumer loop drops.                                  *)
RunTaskRaises(w) ==
  /\ job[w] # None
  /\ Fault
  /\ Loses(job[w].query, "task")
  /\ job' = [job EXCEPT ![w] = None]
  /\ UNCHANGED <<handler, dbVars, taskQueue, produced, resultQueue,
                 consumerVars, published>>

PublishResult(w) ==
  /\ produced[w] # None
  /\ resultQueue' = Append(resultQueue, produced[w])
  /\ produced' = [produced EXCEPT ![w] = None]
  /\ UNCHANGED <<handler, dbVars, taskQueue, job, consumerVars, published,
                 faultVars>>

PublishResultReplyLost(w) ==
  /\ RedisRetries
  /\ produced[w] # None
  /\ Fault
  /\ resultQueue' = Append(resultQueue, produced[w])
  /\ UNCHANGED <<handler, dbVars, taskQueue, workerVars, consumerVars,
                 published, lost>>

(* As in EnqueueTaskFails, the publisher hides the exception.              *)
PublishResultFails(w) ==
  /\ produced[w] # None
  /\ Fault
  /\ produced' = [produced EXCEPT ![w] = None]
  /\ \/ /\ resultQueue' = Append(resultQueue, produced[w])
        /\ UNCHANGED lost
     \/ /\ Loses(produced[w].query, "task")
        /\ UNCHANGED resultQueue
  /\ UNCHANGED <<handler, dbVars, taskQueue, job, consumerVars, published>>

(* The process dies with what it held and is started again.                *)
WorkerCrash(w) ==
  /\ ~WorkerIdle(w)
  /\ Fault
  /\ Loses(IF job[w] # None THEN job[w].query ELSE produced[w].query, "task")
  /\ job' = [job EXCEPT ![w] = None]
  /\ produced' = [produced EXCEPT ![w] = None]
  /\ UNCHANGED <<handler, dbVars, taskQueue, resultQueue, consumerVars,
                 published>>

WorkerStep(w) ==
  \/ TakeTask(w) \/ TakeTaskReplyLost(w) \/ RunTask(w) \/ RunTaskRaises(w)
  \/ PublishResult(w) \/ PublishResultReplyLost(w) \/ PublishResultFails(w)

-----------------------------------------------------------------------------
(* The result consumer: QueueConsumer.run around ResultProcessor.process.  *)

TakeResult(o) ==
  /\ step[o] = "waiting"
  /\ resultQueue # <<>>
  /\ inbox' = [inbox EXCEPT ![o] = Head(resultQueue)]
  /\ step' = [step EXCEPT ![o] = "received"]
  /\ resultQueue' = Tail(resultQueue)
  /\ UNCHANGED <<handler, dbVars, taskQueue, workerVars, published, faultVars>>

TakeResultReplyLost(o) ==
  /\ step[o] = "waiting"
  /\ resultQueue # <<>>
  /\ Fault
  /\ Loses(Head(resultQueue).query, "result")
  /\ resultQueue' = Tail(resultQueue)
  /\ UNCHANGED <<handler, dbVars, taskQueue, workerVars, consumerVars, published>>

(* The consumer is done with its message and waits for the next one.       *)
Release(o) ==
  /\ step' = [step EXCEPT ![o] = "waiting"]
  /\ inbox' = [inbox EXCEPT ![o] = None]

(* Mutant of FetchQuery: the check for PENDING is missing.                 *)
FetchAnyState(o) ==
  /\ step[o] = "received"
  /\ state[inbox[o].query] # "absent"
  /\ step' = [step EXCEPT ![o] = "fetched"]
  /\ UNCHANGED <<handler, dbVars, taskQueue, workerVars, resultQueue, inbox,
                 published, faultVars>>

(* get_by_id reads the row; "fetched" holds the entity, which is PENDING.  *)
FetchQuery(o) ==
  /\ step[o] = "received"
  /\ state[inbox[o].query] = "PENDING"
  /\ step' = [step EXCEPT ![o] = "fetched"]
  /\ UNCHANGED <<handler, dbVars, taskQueue, workerVars, resultQueue, inbox,
                 published, faultVars>>

(* No such row, or a result for a query that is no longer PENDING.         *)
IgnoreResult(o) ==
  /\ step[o] = "received"
  /\ state[inbox[o].query] # "PENDING"
  /\ Release(o)
  /\ UNCHANGED <<handler, dbVars, taskQueue, workerVars, resultQueue,
                 published, faultVars>>

(* Mutant of Outcome: the status of the result is stored as it is.         *)
RawOutcome(status) == status

(* QueryState MOCKED is stored as COMPLETED.                               *)
Outcome(status) == IF status = "FAILED" THEN "FAILED" ELSE "COMPLETED"

(* handle_result: the transition, the response or log, and the row.        *)
Settle(res) ==
  LET q == res.query
      done == Outcome(res.status)
  IN  /\ state' = [state EXCEPT ![q] = done]
      /\ responses' = [responses EXCEPT ![q] =
                         IF done = "COMPLETED" /\ res.body THEN @ + 1 ELSE @]
      /\ logs' = [logs EXCEPT ![q] =
                    IF done = "FAILED" /\ res.body THEN @ + 1 ELSE @]
      /\ chat' = [chat EXCEPT ![q] = res.chat]

(* Mutant of SettleQuery: process returns after the commit.                *)
SettleQueryUnannounced(o) ==
  /\ step[o] = "fetched"
  /\ Settle(inbox[o])
  /\ Release(o)
  /\ UNCHANGED <<handler, taskQueue, workerVars, resultQueue, published,
                 faultVars>>

(* handle_result on the entity read before, then session.commit.           *)
SettleQuery(o) ==
  /\ step[o] = "fetched"
  /\ Settle(inbox[o])
  /\ step' = [step EXCEPT ![o] = "committed"]
  /\ UNCHANGED <<handler, taskQueue, workerVars, resultQueue, inbox, published,
                 faultVars>>

(* Postgres fails while reading or writing: the session is rolled back and *)
(* the loop backs off, without the message it had popped.  A COMMIT may    *)
(* have been executed all the same.                                        *)
ProcessResultFails(o) ==
  /\ Fault
  /\ \/ /\ step[o] \in {"received", "fetched"}
        /\ Loses(inbox[o].query, "result")
        /\ UNCHANGED dbVars
     \/ /\ step[o] = "fetched"
        /\ Settle(inbox[o])
        /\ Loses(inbox[o].query, "notify")
  /\ Release(o)
  /\ UNCHANGED <<handler, taskQueue, workerVars, resultQueue, published>>

(* Mutant of PublishToUser: the channel is not usable any more after the   *)
(* first failure.                                                          *)
PublishToUserUntilFault(o) ==
  /\ step[o] = "committed"
  /\ published' = IF faults = 0 THEN published \cup {inbox[o]} ELSE published
  /\ Release(o)
  /\ UNCHANGED <<handler, dbVars, taskQueue, workerVars, resultQueue, faultVars>>

(* PUBLISH on the channel of the user the result names.                    *)
PublishToUser(o) ==
  /\ step[o] = "committed"
  /\ published' = published \cup {inbox[o]}
  /\ Release(o)
  /\ UNCHANGED <<handler, dbVars, taskQueue, workerVars, resultQueue, faultVars>>

(* ResultPublishFailed: logged by the loop.  PUBLISH raised, or was        *)
(* executed and its reply did not arrive.                                  *)
PublishToUserFails(o) ==
  /\ step[o] = "committed"
  /\ Fault
  /\ \/ Loses(inbox[o].query, "notify") /\ UNCHANGED published
     \/ published' = published \cup {inbox[o]} /\ UNCHANGED lost
  /\ Release(o)
  /\ UNCHANGED <<handler, dbVars, taskQueue, workerVars, resultQueue>>

ConsumerStep(o) ==
  \/ TakeResult(o) \/ TakeResultReplyLost(o) \/ FetchQuery(o) \/ IgnoreResult(o)
  \/ SettleQuery(o) \/ ProcessResultFails(o) \/ PublishToUser(o)
  \/ PublishToUserFails(o)

(* An orchestrator stops, by a crash or a reload, between any two awaits:  *)
(* its handlers end without a response, the consumer task is cancelled and *)
(* an uncommitted transaction is rolled back.  The process starts again.   *)
Serving(o) == {r \in Requests : HostOf[r] = o /\ handler[r] \in {"committed", "published"}}

OrchestratorCrash(o) ==
  /\ Serving(o) # {} \/ step[o] # "waiting"
  /\ Fault
  /\ handler' = [r \in Requests |-> IF r \in Serving(o) THEN "dead" ELSE handler[r]]
  /\ lost' = [r \in Requests |->
       lost[r]
         \cup {p \in {"enqueue"} : r \in Serving(o) /\ handler[r] = "committed"}
         \cup {p \in {"result"} : step[o] \in {"received", "fetched"}
                                    /\ inbox[o].query = r}
         \cup {p \in {"notify"} : step[o] = "committed" /\ inbox[o].query = r}]
  /\ Release(o)
  /\ UNCHANGED <<dbVars, taskQueue, workerVars, resultQueue, published>>

-----------------------------------------------------------------------------
(* Every handler has ended and every loop blocks in BLPOP.                 *)
Quiescent ==
  /\ \A r \in Requests : handler[r] \in {"accepted", "error", "dead"}
  /\ taskQueue = <<>> /\ resultQueue = <<>>
  /\ \A w \in Workers : WorkerIdle(w)
  /\ \A o \in Orchestrators : step[o] = "waiting"

Idle == Quiescent /\ UNCHANGED vars

Next ==
  \/ \E r \in Requests :
       CommitQuery(r) \/ CommitQueryConflict(r) \/ CommitQueryFails(r) \/ HandlerStep(r)
  \/ \E w \in Workers : WorkerStep(w) \/ WorkerCrash(w)
  \/ \E o \in Orchestrators : ConsumerStep(o) \/ OrchestratorCrash(o)
  \/ Idle

Spec == Init /\ [][Next]_vars

(* Clients need not send requests and nothing has to fail; a handler, a    *)
(* worker or a consumer that can go on does so, whether its next call      *)
(* succeeds or fails.                                                      *)
Fairness ==
  /\ \A r \in Requests : WF_vars(HandlerStep(r))
  /\ \A w \in Workers : WF_vars(WorkerStep(w))
  /\ \A o \in Orchestrators : WF_vars(ConsumerStep(o))

FairSpec == Spec /\ Fairness

-----------------------------------------------------------------------------
(* Correctness.                                                            *)

Terminal == {"COMPLETED", "FAILED"}

(* The guard of QueryEntity.transition_to.                                 *)
TransitionAllowed(from, to) == from \in Terminal => to = from

(* Some message still on its way can settle r.                             *)
CanSettle(r) ==
  \/ handler[r] = "committed"
  \/ \E i \in DOMAIN taskQueue : taskQueue[i].query = r
  \/ \E w \in Workers : job[w] # None /\ job[w].query = r
  \/ \E w \in Workers : produced[w] # None /\ produced[w].query = r
  \/ \E i \in DOMAIN resultQueue : resultQueue[i].query = r
  \/ \E o \in Orchestrators : step[o] \in {"received", "fetched"} /\ inbox[o].query = r

Answered(r) == \E m \in published : m.query = r

(* Every message on its way names a row that is already committed, and     *)
(* carries that row's user and chat: the reason why the handler commits    *)
(* before it enqueues.  Were it not so, ResultProcessor would drop a fast  *)
(* worker's result as "Query not found".                                   *)
Carries(m) ==
  /\ state[m.query] # "absent"
  /\ m.user = UserOf[m.query]
  /\ m.chat = ChatOf[m.query]

MessagesMatchRows ==
  /\ \A i \in DOMAIN taskQueue : Carries(taskQueue[i])
  /\ \A i \in DOMAIN resultQueue : Carries(resultQueue[i])
  /\ \A w \in Workers : job[w] # None => Carries(job[w])
  /\ \A w \in Workers : produced[w] # None => Carries(produced[w])
  /\ \A o \in Orchestrators : step[o] # "waiting" => Carries(inbox[o])
  /\ \A r \in Requests : chat[r] = ChatOf[r]

(* However many workers ran a task and however many copies of a result     *)
(* arrived, a query has the one record that its state calls for: at most   *)
(* one response when COMPLETED, exactly one log when FAILED.               *)
OneOutcomePerQuery ==
  \A r \in Requests :
    /\ responses[r] <= (IF state[r] = "COMPLETED" THEN 1 ELSE 0)
    /\ logs[r] = (IF state[r] = "FAILED" THEN 1 ELSE 0)

(* The owner never hears of an outcome that the database does not have,    *)
(* and never of two different ones for the same query.                     *)
PublishedAgreesWithRow ==
  /\ \A m \in published : /\ Outcome(m.status) = state[m.query]
                          /\ m.user = UserOf[m.query]
  /\ \A m, n \in published : m.query = n.query => m = n

(* A query that is stored and not settled is on its way to be settled,     *)
(* unless a message about it was dropped; a query that is settled has been *)
(* announced or is about to be, unless that was dropped.  Nothing in the   *)
(* code forgets a query without a fault or an empty message.               *)
NoSilentLoss ==
  \A r \in Requests :
    /\ state[r] = "PENDING" =>
         CanSettle(r) \/ lost[r] \cap {"enqueue", "task", "result"} # {}
    /\ state[r] \in Terminal =>
         \/ Answered(r)
         \/ \E o \in Orchestrators : step[o] = "committed" /\ inbox[o].query = r
         \/ "notify" \in lost[r]

(* No step takes a row where transition_to forbids, removes a row, or      *)
(* touches a row that is settled, although transition_to only looks at the *)
(* consumer's own copy of the entity.                                      *)
SettledRowsFrozen ==
  [][\A r \in Requests :
       /\ TransitionAllowed(state[r], state'[r])
       /\ state[r] # "absent" => state'[r] # "absent"
       /\ state[r] \in Terminal =>
            UNCHANGED <<responses[r], logs[r], chat[r]>>]_vars

(* The pipeline implements the life of a query that QueryLifecycle allows. *)
Lifecycle == INSTANCE QueryLifecycle WITH
  Queries <- Requests,
  told <- {<<m.query, Outcome(m.status)>> : m \in published}

LifecycleSpec == Lifecycle!Spec

(* A request that got its 202 is settled and its owner told, unless a      *)
(* message about that very request was dropped: the loops survive every    *)
(* failure of a message and go on with the next one.                       *)
AcceptedIsAnsweredOrLost ==
  \A r \in Requests :
    handler[r] = "accepted" ~> Answered(r) \/ lost[r] # {}

(* What test_create_and_enqueue_task_fails_on_publish says of a failed     *)
(* push: the request is not accepted.                                      *)
EnqueueFailureRaises ==
  \A r \in Requests : handler[r] = "accepted" => "enqueue" \notin lost[r]
=============================================================================
