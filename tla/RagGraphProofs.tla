--------------------------- MODULE RagGraphProofs ---------------------------
(***************************************************************************)
(* Proofs about RagGraph, for any tasks, documents, retries and restarts.  *)
(***************************************************************************)
EXTENDS RagGraph, TLAPS

USE RagAssumption

-----------------------------------------------------------------------------
(* Types.                                                                  *)

LEMMA FirstAttempt == 0 \in 0 .. MaxRetries - 1
  OBVIOUS

LEMMA NewGraphStateType == NewGraphState \in GraphStates
  BY DEF NewGraphState, GraphStates

LEMMA InitType == Init => TypeOK
<1>. SUFFICES ASSUME Init
              PROVE  TypeOK
  OBVIOUS
<1>1. restarts \in 0 .. MaxRestarts
  BY DEF Init
<1>2. attempt \in 0 .. MaxRetries - 1
  BY FirstAttempt DEF Init
<1>. QED
  BY <1>1, <1>2, NewGraphStateType DEF Init, TypeOK

LEMMA CallsType ==
  ASSUME TypeOK, Calls
  PROVE  calls' \in Nat
  BY DEF TypeOK, Calls

(* What a node that answers returns, and what it asks for.                 *)
LEMMA AnswerType ==
  ASSUME TypeOK, NEW values \in GraphStates, Answer(values)
  PROVE  /\ graph' \in GraphStates
         /\ graph'.sources = values.sources
         /\ graph'.route = values.route
         /\ calls' \in Nat
<1>1. CASE dryRun
  BY <1>1 DEF Answer, TypeOK, GraphStates
<1>2. CASE ~dryRun
  BY <1>2, CallsType DEF Answer, GraphStates
<1>. QED
  BY <1>1, <1>2

LEMMA CompletedType ==
  ASSUME NEW state \in GraphStates, task \in Tasks
  PROVE  /\ Completed(state) \in ResultMessages
         /\ Completed(state).sources = state.sources
         /\ Completed(state).route = state.route
  BY DEF Completed, ResultMessages, GraphStates

(* A task is being run as long as a node is due, on a seeded store.        *)
BusyInv ==
  /\ task # None <=> node # "idle"
  /\ task # None => store # None

TypeInv == TypeOK /\ BusyInv

LEMMA NextTypeInv ==
  ASSUME TypeInv, [Next]_vars
  PROVE  TypeInv'
<1>. USE DEF TypeInv, TypeOK, BusyInv
<1>0. 0 \in 0 .. MaxRetries - 1 /\ NewGraphState \in GraphStates
  BY FirstAttempt, NewGraphStateType
<1>1. CASE SeedStore
  BY <1>1 DEF SeedStore
<1>2. CASE \E t \in Tasks : StartTask(t)
  BY <1>0, <1>2 DEF StartTask, Nodes
<1>3. CASE RouteQuery
  <2>1. calls' \in Nat
    BY <1>3, CallsType DEF RouteQuery
  <2>2. PICK route \in Routes : graph' = [graph EXCEPT !.route = route] /\ Proceed(route)
    BY <1>3 DEF RouteQuery
  <2>3. graph' \in GraphStates
    BY <2>2 DEF GraphStates
  <2>. QED
    BY <1>0, <1>3, <2>1, <2>2, <2>3 DEF RouteQuery, Proceed, Routes, Nodes
<1>4. CASE Retrieve
  <2>1. PICK found \in Found : graph' = [graph EXCEPT !.documents = found, !.sources = found]
    BY <1>4 DEF Retrieve
  <2>2. store \in SUBSET Knowledge /\ found \in SUBSET Knowledge
    BY <1>4 DEF Retrieve, Found
  <2>3. graph' \in GraphStates
    BY <2>1, <2>2 DEF GraphStates
  <2>. QED
    BY <1>0, <1>4, <2>2, <2>3 DEF Retrieve, Proceed, Nodes
<1>5. CASE GenerateGroundedAnswer
  <2>1. task \in Tasks /\ graph.documents \in SUBSET Knowledge
    BY <1>5 DEF GenerateGroundedAnswer, GraphStates
  <2>2. graph' \in GraphStates /\ calls' \in Nat
    BY <1>5, AnswerType DEF GenerateGroundedAnswer
  <2>3. Completed(graph') \in ResultMessages
    BY <2>1, <2>2, CompletedType
  <2>. QED
    BY <1>0, <1>5, <2>1, <2>2, <2>3 DEF GenerateGroundedAnswer, Return
<1>6. CASE DirectChat
  <2>1. task \in Tasks /\ [graph EXCEPT !.sources = {}] \in GraphStates
    BY <1>6 DEF DirectChat, GraphStates
  <2>2. graph' \in GraphStates /\ calls' \in Nat
    BY <1>6, <2>1, AnswerType DEF DirectChat
  <2>3. Completed(graph') \in ResultMessages
    BY <2>1, <2>2, CompletedType
  <2>. QED
    BY <1>0, <1>6, <2>2, <2>3 DEF DirectChat, Return
<1>7. CASE RetryNode
  <2>1. calls' \in Nat
    BY <1>7, CallsType DEF RetryNode
  <2>2. attempt' \in 0 .. MaxRetries - 1
    BY <1>7 DEF RetryNode
  <2>. QED
    BY <1>7, <2>1, <2>2 DEF RetryNode
<1>8. CASE FailNode
  <2>1. task \in Tasks /\ Failed \in ResultMessages
    BY <1>8 DEF FailNode, Answering, Failed, ResultMessages
  <2>2. calls' \in Nat
    BY <1>8, CallsType DEF FailNode
  <2>. QED
    BY <1>0, <1>8, <2>1, <2>2 DEF FailNode, Return
<1>9. CASE Restart
  BY <1>0, <1>9 DEF Restart
<1>10. CASE Idle \/ UNCHANGED vars
  BY <1>10 DEF Idle, vars
<1>. QED
  BY <1>1, <1>2, <1>3, <1>4, <1>5, <1>6, <1>7, <1>8, <1>9, <1>10 DEF Next, Work

(* The types of a worker's state.                                          *)
THEOREM RagTypeCorrect == Spec => []TypeOK
<1>1. Init => TypeInv
  BY InitType DEF TypeInv, BusyInv, Init
<1>2. TypeInv /\ [Next]_vars => TypeInv'
  BY NextTypeInv
<1>3. TypeInv => TypeOK
  BY DEF TypeInv
<1>. QED
  BY <1>1, <1>2, <1>3, PTL DEF Spec

LEMMA TypeInvAlways == Spec => []TypeInv
<1>1. Init => TypeInv
  BY InitType DEF TypeInv, BusyInv, Init
<1>2. TypeInv /\ [Next]_vars => TypeInv'
  BY NextTypeInv
<1>. QED
  BY <1>1, <1>2, PTL DEF Spec

-----------------------------------------------------------------------------
(* Requests to the provider.                                               *)

PerTask == MaxRetries + MaxRetries * MaxRetries

(* How many requests the task can have cost when a node is due.  A node    *)
(* that answers has cost MaxRetries for each of its failed attempts.       *)
CallsInv ==
  /\ dryRun => calls = 0
  /\ node = "route_query" => calls = 0
  /\ node = "retrieve" => calls <= MaxRetries
  /\ Answering => calls <= MaxRetries + attempt * MaxRetries
  /\ calls <= PerTask

LEMMA Products ==
  ASSUME NEW a \in 0 .. MaxRetries - 1
  PROVE  /\ a * MaxRetries \in Nat
         /\ MaxRetries * MaxRetries \in Nat
         /\ (a + 1) * MaxRetries = a * MaxRetries + MaxRetries
         /\ a * MaxRetries + MaxRetries <= MaxRetries * MaxRetries
         /\ 0 * MaxRetries = 0
<1>1. a \in Nat /\ MaxRetries \in Nat /\ a + 1 <= MaxRetries
  OBVIOUS
<1>2. (a + 1) * MaxRetries = a * MaxRetries + MaxRetries
  BY <1>1
<1>3. (a + 1) * MaxRetries <= MaxRetries * MaxRetries
  BY <1>1
<1>. QED
  BY <1>1, <1>2, <1>3

LEMMA CallsAdd ==
  ASSUME calls \in Nat, Calls
  PROVE  calls' \in Nat /\ calls' <= calls + MaxRetries
  BY DEF Calls

LEMMA AnswerCalls ==
  ASSUME calls \in Nat, NEW values, Answer(values)
  PROVE  calls' \in Nat /\ calls' <= calls + MaxRetries /\ (dryRun => calls' = calls)
<1>1. CASE dryRun
  <2>1. calls' = calls
    BY <1>1 DEF Answer
  <2>. QED
    BY <2>1
<1>2. CASE ~dryRun
  <2>1. Calls
    BY <1>2 DEF Answer
  <2>. QED
    BY <1>2, <2>1, CallsAdd
<1>. QED
  BY <1>1, <1>2

LEMMA NextCallsInv ==
  ASSUME TypeInv, CallsInv, [Next]_vars
  PROVE  CallsInv'
<1>. USE DEF CallsInv, PerTask
<1>0. calls \in Nat /\ attempt \in 0 .. MaxRetries - 1 /\ dryRun \in BOOLEAN
  BY DEF TypeInv, TypeOK
<1>p. /\ attempt * MaxRetries \in Nat
      /\ MaxRetries * MaxRetries \in Nat
      /\ (attempt + 1) * MaxRetries = attempt * MaxRetries + MaxRetries
      /\ attempt * MaxRetries + MaxRetries <= MaxRetries * MaxRetries
      /\ 0 * MaxRetries = 0
  BY <1>0, Products
<1>1. CASE SeedStore
  BY <1>1 DEF SeedStore, Answering
<1>2. CASE \E t \in Tasks : StartTask(t)
  BY <1>2, <1>p DEF StartTask, Answering
<1>3. CASE RouteQuery
  <2>1. calls' \in Nat /\ calls' <= MaxRetries /\ (dryRun => calls' = 0)
    BY <1>0, <1>3, CallsAdd DEF RouteQuery
  <2>2. /\ node' # "route_query" /\ attempt' = 0 /\ dryRun' = dryRun
    BY <1>3 DEF RouteQuery, Proceed, Routes
  <2>. QED
    BY <2>1, <2>2, <1>p
<1>4. CASE Retrieve
  BY <1>0, <1>4, <1>p DEF Retrieve, Proceed
<1>5. CASE GenerateGroundedAnswer
  <2>1. calls' \in Nat /\ calls' <= calls + MaxRetries /\ (dryRun => calls' = 0)
    BY <1>0, <1>5, AnswerCalls DEF GenerateGroundedAnswer
  <2>2. node' = "idle" /\ dryRun' = dryRun
    BY <1>5 DEF GenerateGroundedAnswer, Return
  <2>3. calls <= MaxRetries + attempt * MaxRetries
    BY <1>5 DEF GenerateGroundedAnswer, Answering
  <2>. QED
    BY <1>0, <1>p, <2>1, <2>2, <2>3 DEF Answering
<1>6. CASE DirectChat
  <2>1. calls' \in Nat /\ calls' <= calls + MaxRetries /\ (dryRun => calls' = 0)
    BY <1>0, <1>6, AnswerCalls DEF DirectChat
  <2>2. node' = "idle" /\ dryRun' = dryRun
    BY <1>6 DEF DirectChat, Return
  <2>3. calls <= MaxRetries + attempt * MaxRetries
    BY <1>6 DEF DirectChat, Answering
  <2>. QED
    BY <1>0, <1>p, <2>1, <2>2, <2>3 DEF Answering
<1>7. CASE RetryNode
  <2>1. calls' \in Nat /\ calls' <= calls + MaxRetries
    BY <1>0, <1>7, CallsAdd DEF RetryNode
  <2>2. ~dryRun' /\ node' = node /\ Answering /\ attempt' = attempt + 1
    BY <1>7 DEF RetryNode
  <2>3. calls' <= MaxRetries + attempt' * MaxRetries /\ calls' <= PerTask
    BY <1>0, <1>p, <2>1, <2>2
  <2>. QED
    BY <2>2, <2>3 DEF Answering
<1>8. CASE FailNode
  <2>1. calls' \in Nat /\ calls' <= calls + MaxRetries
    BY <1>0, <1>8, CallsAdd DEF FailNode
  <2>2. node' = "idle" /\ ~dryRun'
    BY <1>8 DEF FailNode, Return
  <2>3. calls <= MaxRetries + attempt * MaxRetries
    BY <1>8 DEF FailNode
  <2>. QED
    BY <1>0, <1>p, <2>1, <2>2, <2>3 DEF Answering
<1>9. CASE Restart
  BY <1>9 DEF Restart, Answering
<1>10. CASE Idle \/ UNCHANGED vars
  BY <1>10 DEF Idle, vars, Answering
<1>. QED
  BY <1>1, <1>2, <1>3, <1>4, <1>5, <1>6, <1>7, <1>8, <1>9, <1>10 DEF Next, Work

(* However the retries of the graph and those of the model's client meet,  *)
(* a task costs at most MaxRetries + MaxRetries^2 requests, and none in a  *)
(* dry run.                                                                *)
THEOREM RetriesAreBounded == Spec => []CallsBounded
<1>1. Init => CallsInv
  <2>1. MaxRetries * MaxRetries \in Nat
    BY FirstAttempt, Products
  <2>. QED
    BY <2>1 DEF Init, CallsInv, PerTask, Answering
<1>2. TypeInv /\ CallsInv /\ [Next]_vars => CallsInv'
  BY NextCallsInv
<1>3. CallsInv => CallsBounded
  BY DEF CallsInv, CallsBounded, PerTask
<1>. QED
  BY <1>1, <1>2, <1>3, TypeInvAlways, PTL DEF Spec

-----------------------------------------------------------------------------
(* Sources.                                                                *)

(* The state of the graph follows its route until the answer.              *)
SourceInv ==
  /\ node = "retrieve" => graph.route = "retrieve"
  /\ node = "generate_grounded_answer" =>
       graph.route = "retrieve" /\ graph.sources = graph.documents
  /\ SourcesMatchContext

LEMMA NextSourceInv ==
  ASSUME TypeInv, SourceInv, [Next]_vars
  PROVE  SourceInv'
<1>. USE DEF SourceInv, SourcesMatchContext
<1>0. graph \in GraphStates
  BY DEF TypeInv, TypeOK
<1>1. CASE SeedStore
  BY <1>1 DEF SeedStore
<1>2. CASE \E t \in Tasks : StartTask(t)
  BY <1>2 DEF StartTask
<1>3. CASE RouteQuery
  <2>1. PICK route \in Routes : graph' = [graph EXCEPT !.route = route] /\ Proceed(route)
    BY <1>3 DEF RouteQuery
  <2>2. graph'.route = route
    BY <2>1, <1>0 DEF GraphStates
  <2>3. task # None
    BY <1>3 DEF RouteQuery, TypeInv, BusyInv
  <2>. QED
    BY <2>1, <2>2, <2>3 DEF Proceed, Routes
<1>4. CASE Retrieve
  <2>1. PICK found \in Found : graph' = [graph EXCEPT !.documents = found, !.sources = found]
    BY <1>4 DEF Retrieve
  <2>2. /\ graph'.sources = graph'.documents
        /\ graph'.route = graph.route
    BY <2>1, <1>0 DEF GraphStates
  <2>3. task # None
    BY <1>4 DEF Retrieve, TypeInv, BusyInv
  <2>. QED
    BY <1>4, <2>2, <2>3 DEF Retrieve, Proceed
<1>5. CASE GenerateGroundedAnswer
  <2>1. task \in Tasks
    BY <1>5 DEF GenerateGroundedAnswer, TypeInv, TypeOK, BusyInv
  <2>2. /\ graph' \in GraphStates
        /\ graph'.sources = graph.documents
        /\ graph'.route = "retrieve"
    BY <1>0, <1>5, AnswerType DEF GenerateGroundedAnswer, TypeInv
  <2>3. result'.sources = graph.documents /\ result'.route = "retrieve"
    BY <1>5, <2>1, <2>2, CompletedType DEF GenerateGroundedAnswer, Return
  <2>. QED
    BY <1>5, <2>3 DEF GenerateGroundedAnswer, Return
<1>6. CASE DirectChat
  <2>1. task \in Tasks /\ [graph EXCEPT !.sources = {}] \in GraphStates
    BY <1>0, <1>6 DEF DirectChat, TypeInv, TypeOK, BusyInv, GraphStates
  <2>2. graph' \in GraphStates /\ graph'.sources = {}
    BY <1>0, <1>6, <2>1, AnswerType DEF DirectChat, TypeInv, GraphStates
  <2>3. result'.sources = {}
    BY <1>6, <2>1, <2>2, CompletedType DEF DirectChat, Return
  <2>. QED
    BY <1>6, <2>3 DEF DirectChat, Return
<1>7. CASE RetryNode
  BY <1>7 DEF RetryNode
<1>8. CASE FailNode
  BY <1>8 DEF FailNode, Return, Failed
<1>9. CASE Restart
  BY <1>9 DEF Restart
<1>10. CASE Idle \/ UNCHANGED vars
  BY <1>10 DEF Idle, vars
<1>. QED
  BY <1>1, <1>2, <1>3, <1>4, <1>5, <1>6, <1>7, <1>8, <1>9, <1>10 DEF Next, Work

(* A result names exactly the documents its text was generated from.       *)
THEOREM SourcesAreTheContext == Spec => []SourcesMatchContext
<1>1. Init => SourceInv
  BY DEF Init, SourceInv, SourcesMatchContext
<1>2. TypeInv /\ SourceInv /\ [Next]_vars => SourceInv'
  BY NextSourceInv
<1>3. SourceInv => SourcesMatchContext
  BY DEF SourceInv
<1>. QED
  BY <1>1, <1>2, <1>3, TypeInvAlways, PTL DEF Spec
=============================================================================
