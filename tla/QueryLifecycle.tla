--------------------------- MODULE QueryLifecycle ---------------------------
(***************************************************************************)
(* What the pipeline promises about one query, whatever processes, queues  *)
(* and failures lie between the HTTP request and the answer: a query is    *)
(* stored once, settled at most once, gets at most one response or log     *)
(* when it is settled and none before or after, and its owner is only told *)
(* of the state it was settled in.                                         *)
(*                                                                         *)
(* Translated from orchestrator/schemas/query.py (the entity and its state *)
(* machine) and from what handle_result persists with a transition.        *)
(***************************************************************************)
EXTENDS Naturals

CONSTANT Queries        \* the queries that clients may ever submit

VARIABLES
  state,      \* state[q]: the state of q's row, or "absent"
  responses,  \* responses[q]: number of rows of table responses for q
  logs,       \* logs[q]: number of rows of table logs for q
  told        \* pairs <<q, s>>: q's owner was told that q ended in state s

vars == <<state, responses, logs, told>>

Terminal == {"COMPLETED", "FAILED"}

Init ==
  /\ state = [q \in Queries |-> "absent"]
  /\ responses = [q \in Queries |-> 0]
  /\ logs = [q \in Queries |-> 0]
  /\ told = {}

(* A request is stored as a PENDING row.                                   *)
Submit(q) ==
  /\ state[q] = "absent"
  /\ state' = [state EXCEPT ![q] = "PENDING"]
  /\ UNCHANGED <<responses, logs, told>>

(* The query completes, with a response unless the answer is empty.        *)
Complete(q) ==
  /\ state[q] = "PENDING"
  /\ state' = [state EXCEPT ![q] = "COMPLETED"]
  /\ \E n \in {0, 1} : responses' = [responses EXCEPT ![q] = @ + n]
  /\ UNCHANGED <<logs, told>>

(* The query fails, with a log of the error code.                          *)
Fail(q) ==
  /\ state[q] = "PENDING"
  /\ state' = [state EXCEPT ![q] = "FAILED"]
  /\ logs' = [logs EXCEPT ![q] = @ + 1]
  /\ UNCHANGED <<responses, told>>

(* The owner is told how the query ended.                                  *)
Tell(q) ==
  /\ state[q] \in Terminal
  /\ told' = told \cup {<<q, state[q]>>}
  /\ UNCHANGED <<state, responses, logs>>

Next == \E q \in Queries : Submit(q) \/ Complete(q) \/ Fail(q) \/ Tell(q)

Spec == Init /\ [][Next]_vars
=============================================================================
