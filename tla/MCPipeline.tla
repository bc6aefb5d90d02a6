----------------------------- MODULE MCPipeline -----------------------------
(***************************************************************************)
(* Instances of Pipeline for TLC.  r1 and r2 belong to one user and one    *)
(* chat; r3 is another user's, has an empty message, and reuses the        *)
(* correlation id of r1, as a client does that sends a request again.      *)
(***************************************************************************)
EXTENDS Pipeline, TLC

CONSTANTS r1, r2, r3, w1, w2, o1, o2

MCUserOf == [r \in Requests |-> IF r = r3 THEN "bob" ELSE "alice"]

MCChatOf == [r \in Requests |-> IF r = r3 THEN "chat2" ELSE "chat1"]

MCCorrelationOf == [r \in Requests |-> IF r = r2 THEN "y" ELSE "x"]

(* With one orchestrator all requests are on it; with two, r2 is on o2.    *)
MCHostOf ==
  [r \in Requests |-> IF r = r2 /\ o2 \in Orchestrators THEN o2 ELSE o1]

MCEmptyPrompt == Requests \cap {r3}

WorkerSymmetry == Permutations(Workers)
=============================================================================
