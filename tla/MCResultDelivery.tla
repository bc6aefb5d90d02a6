-------------------------- MODULE MCResultDelivery --------------------------
(***************************************************************************)
(* Instances of ResultDelivery for TLC: a request of alice and one sent    *)
(* without a token, and a page that either of them may open.               *)
(***************************************************************************)
EXTENDS ResultDelivery

CONSTANTS r1, r2, s1

MCUserOf == [r \in Requests |-> IF r = r1 THEN "alice" ELSE "anonymous"]

MCChatOf == [r \in Requests |-> "chat"]

MCCorrelationOf == [r \in Requests |-> r]

MCHostOf == [r \in Requests |-> "o1"]

MCTabOf == [s \in Sockets |-> s]

MCDecoded == [t \in Tokens |-> IF t = "alice" THEN t ELSE None]
=============================================================================
