-------------------------- MODULE RequestContract --------------------------
(***************************************************************************)
(* What a client may conclude from the answer to a request that goes       *)
(* through a proxy: a success says that the service did its work, a        *)
(* refusal that it did not and never will, and a failure says nothing: the *)
(* work may have been done, or may be done after the answer.  It is done   *)
(* at most once.                                                           *)
(***************************************************************************)
CONSTANT Requests

VARIABLES
  worked,  \* the requests whose work the service has done
  verdict  \* verdict[r]: "open", or what the client was told

contractVars == <<worked, verdict>>

Init ==
  /\ worked = {}
  /\ verdict = [r \in Requests |-> "open"]

Work(r) ==
  /\ r \notin worked
  /\ verdict[r] \in {"open", "failed"}
  /\ worked' = worked \cup {r}
  /\ UNCHANGED verdict

Tell(r, v) ==
  /\ verdict[r] = "open"
  /\ verdict' = [verdict EXCEPT ![r] = v]
  /\ UNCHANGED worked

Succeed(r) == r \in worked /\ Tell(r, "success")

Refuse(r) == r \notin worked /\ Tell(r, "refused")

(* A process that goes down fails several requests at once.                *)
Fail(R) ==
  /\ R # {}
  /\ \A r \in R : verdict[r] = "open"
  /\ verdict' = [r \in Requests |-> IF r \in R THEN "failed" ELSE verdict[r]]
  /\ UNCHANGED worked

Next ==
  \/ \E r \in Requests : Work(r) \/ Succeed(r) \/ Refuse(r)
  \/ \E R \in SUBSET Requests : Fail(R)

Spec == Init /\ [][Next]_contractVars
=============================================================================
