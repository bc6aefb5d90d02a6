------------------------------ MODULE RagGraph ------------------------------
(***************************************************************************)
(* One ml_worker process at work on its tasks, seen from inside            *)
(* LangGraphRunner.run: the graph of RagGraphService routes a question,    *)
(* retrieves documents from the process's own vector store or does not,    *)
(* and lets the model answer.  LangGraph runs a node again when it raises  *)
(* a retryable exception, and the model's client repeats a call to the     *)
(* provider by itself, both up to MaxRetries times.                        *)
(***************************************************************************)
EXTENDS Naturals, FiniteSets

CONSTANTS
  Tasks,          \* the tasks this worker gets
  AboutProject,   \* those whose prompt has a keyword of the dry-run router
  Knowledge,      \* the documents of ml_worker/knowledge, each with its source
  MaxRetries,     \* setting MAX_RETRIES
  MaxRestarts,    \* bound on the number of restarts of the process
  None

ASSUME RagAssumption ==
  /\ AboutProject \subseteq Tasks
  /\ MaxRetries \in Nat \ {0}
  /\ MaxRestarts \in Nat
  /\ None \notin Tasks

VARIABLES
  dryRun,    \* settings: no API_KEY, or ML_WORKER_DRY_RUN
  store,     \* documents in the collection of the process, or None before it is seeded
  todo,      \* tasks this worker has not taken yet
  task,      \* the task being run, or None
  node,      \* the node of the graph that runs next
  attempt,   \* how often it has failed already
  graph,     \* GraphState: route, documents, sources and generation
  context,   \* history: the documents that were in the prompt of the generation
  calls,     \* history: requests sent to the provider for this task
  result,    \* the result message of the last task, or None
  restarts   \* history

vars == <<dryRun, store, todo, task, node, attempt, graph, context, calls, result, restarts>>

Routes == {"retrieve", "direct_chat"}
Nodes == {"route_query", "retrieve", "generate_grounded_answer", "direct_chat"}

GraphStates == [route : Routes \cup {""}, documents : SUBSET Knowledge,
                sources : SUBSET Knowledge, generation : {"", "text"}]

NewGraphState == [route |-> "", documents |-> {}, sources |-> {}, generation |-> ""]

ResultMessages == [task : Tasks, status : {"COMPLETED", "FAILED"},
                   route : Routes \cup {""}, sources : SUBSET Knowledge, text : {"", "text"}]

TypeOK ==
  /\ dryRun \in BOOLEAN
  /\ store \in {None} \cup SUBSET Knowledge
  /\ todo \subseteq Tasks
  /\ task \in Tasks \cup {None}
  /\ node \in Nodes \cup {"idle"}
  /\ attempt \in 0 .. MaxRetries - 1
  /\ graph \in GraphStates
  /\ context \subseteq Knowledge
  /\ calls \in Nat
  /\ result \in ResultMessages \cup {None}
  /\ restarts \in 0 .. MaxRestarts

Init ==
  /\ dryRun \in BOOLEAN
  /\ store = None
  /\ todo = Tasks
  /\ task = None
  /\ node = "idle"
  /\ attempt = 0
  /\ graph = NewGraphState
  /\ context = {}
  /\ calls = 0
  /\ result = None
  /\ restarts = 0

-----------------------------------------------------------------------------
(* get_vector_store at the start of the process.  The collection lives in  *)
(* memory, so it is empty and gets the documents, unless adding them       *)
(* raises, which is logged and leaves it empty for good.                   *)
SeedStore ==
  /\ store = None
  /\ store' \in {Knowledge, {}}
  /\ UNCHANGED <<dryRun, todo, task, node, attempt, graph, context, calls, result, restarts>>

(* LangGraphRunner.run, RagGraphService.ainvoke: a task starts with a new  *)
(* GraphState.                                                             *)
StartTask(t) ==
  /\ store # None
  /\ task = None
  /\ t \in todo
  /\ todo' = todo \ {t}
  /\ task' = t
  /\ node' = "route_query"
  /\ attempt' = 0
  /\ graph' = NewGraphState
  /\ context' = {}
  /\ calls' = 0
  /\ UNCHANGED <<dryRun, store, result, restarts>>

(* One call of the model: the client repeats it until it succeeds, gives   *)
(* up or gets an error that repeating does not help.                       *)
Calls == \E n \in 1 .. MaxRetries : calls' = calls + n

(* A node succeeds: its return value goes into the state, and on to the    *)
(* next node.                                                              *)
Proceed(next) ==
  /\ node' = next
  /\ attempt' = 0
  /\ UNCHANGED <<dryRun, store, todo, task, result, restarts>>

(* _node_route_query and _decide_route: keywords without a model, else the *)
(* model's choice, and "retrieve" when asking it raises.                   *)
RouteQuery ==
  /\ node = "route_query"
  /\ \E route \in Routes :
       /\ dryRun => (route = "retrieve" <=> task \in AboutProject)
       /\ graph' = [graph EXCEPT !.route = route]
       /\ Proceed(route)
  /\ IF dryRun THEN UNCHANGED calls ELSE Calls
  /\ UNCHANGED context

(* VectorStoreService.search: the store has no more documents than top_k,  *)
(* so it finds all, or none when the query raises.                         *)
Found == {store, {}}

(* Mutant of Retrieve: the sources are those of the whole collection.      *)
RetrieveNamingAll ==
  /\ node = "retrieve"
  /\ \E found \in Found :
       graph' = [graph EXCEPT !.documents = found, !.sources = store]
  /\ Proceed("generate_grounded_answer")
  /\ UNCHANGED <<context, calls>>

(* _node_retrieve: the documents found, and their sources.                 *)
Retrieve ==
  /\ node = "retrieve"
  /\ \E found \in Found :
       graph' = [graph EXCEPT !.documents = found, !.sources = found]
  /\ Proceed("generate_grounded_answer")
  /\ UNCHANGED <<context, calls>>

(* The generation that a node adds to its values: a text made up in a dry  *)
(* run, else the model's, which may be empty.                              *)
Answer(values) ==
  IF dryRun
  THEN UNCHANGED calls /\ graph' = [values EXCEPT !.generation = "text"]
  ELSE Calls /\ \E text \in {"", "text"} : graph' = [values EXCEPT !.generation = text]

(* LangGraphRunner.run returns; the worker is free for its next task.      *)
Return(message) ==
  /\ result' = message
  /\ task' = None
  /\ node' = "idle"
  /\ attempt' = 0
  /\ UNCHANGED <<dryRun, store, todo, restarts>>

Completed(state) == [task |-> task, status |-> "COMPLETED", route |-> state.route,
                     sources |-> state.sources, text |-> state.generation]

Failed == [task |-> task, status |-> "FAILED", route |-> "", sources |-> {}, text |-> ""]

GenerateGroundedAnswer ==
  /\ node = "generate_grounded_answer"
  /\ Answer(graph)
  /\ context' = graph.documents
  /\ Return(Completed(graph'))

DirectChat ==
  /\ node = "direct_chat"
  /\ Answer([graph EXCEPT !.sources = {}])
  /\ context' = {}
  /\ Return(Completed(graph'))

Answering == node \in {"generate_grounded_answer", "direct_chat"}

(* Mutant of RetryNode: the count starts again with every second attempt.  *)
RetryUncounted ==
  /\ Answering
  /\ ~dryRun
  /\ attempt' = 1 - attempt
  /\ UNCHANGED <<dryRun, store, todo, task, node, graph, context, calls, result, restarts>>

(* Mutant of RetryNode: MaxRetries repetitions after the first attempt.    *)
RetryOnceMore ==
  /\ Answering
  /\ ~dryRun
  /\ attempt < MaxRetries
  /\ attempt' = attempt + 1
  /\ Calls
  /\ UNCHANGED <<dryRun, store, todo, task, node, graph, context, result, restarts>>

(* The model raises in an answering node: LangGraph runs the node again,   *)
(* on the state as it was, after a retryable exception.                    *)
RetryNode ==
  /\ Answering
  /\ ~dryRun
  /\ attempt + 1 < MaxRetries
  /\ attempt' = attempt + 1
  /\ Calls
  /\ UNCHANGED <<dryRun, store, todo, task, node, graph, context, result, restarts>>

(* After the last attempt, or an exception that is not retryable, ainvoke  *)
(* raises and the runner returns a FAILED result.                          *)
FailNode ==
  /\ Answering
  /\ ~dryRun
  /\ Calls
  /\ Return(Failed)
  /\ UNCHANGED <<graph, context>>

(* The process stops: its task is gone, and so is the collection.          *)
Restart ==
  /\ store # None
  /\ restarts < MaxRestarts
  /\ restarts' = restarts + 1
  /\ store' = None
  /\ task' = None
  /\ node' = "idle"
  /\ attempt' = 0
  /\ graph' = NewGraphState
  /\ context' = {}
  /\ result' = None
  /\ UNCHANGED <<dryRun, todo, calls>>

Work ==
  \/ SeedStore
  \/ \E t \in Tasks : StartTask(t)
  \/ RouteQuery \/ Retrieve \/ GenerateGroundedAnswer \/ DirectChat
  \/ RetryNode \/ FailNode

Idle == todo = {} /\ task = None /\ UNCHANGED vars

Next == Work \/ Restart \/ Idle

Spec == Init /\ [][Next]_vars

(* The event loop runs the node that is due; the provider may fail each    *)
(* time, and the process may be restarted.                                 *)
FairSpec == Spec /\ WF_vars(Work)

-----------------------------------------------------------------------------
(* The two layers of retries multiply, and still one task never costs more *)
(* requests than MaxRetries for the route and MaxRetries squared for the   *)
(* answer.                                                                 *)
CallsBounded ==
  calls <= (IF dryRun THEN 0 ELSE MaxRetries + MaxRetries * MaxRetries)

(* The sources a result names are the documents that were in the prompt of *)
(* its text, whatever was retried, restarted or asked before: none for     *)
(* direct_chat, none for a failure, and none left over from another task.  *)
SourcesMatchContext ==
  result # None /\ task = None /\ result.status = "COMPLETED" =>
    /\ result.sources = context
    /\ result.route = "direct_chat" => result.sources = {}

(* A task that is started ends, in a result or with its process.           *)
EveryTaskEnds == \A t \in Tasks : task = t ~> task # t
=============================================================================
