------------------------ MODULE MCInteractionHistory ------------------------
(***************************************************************************)
(* Instances of InteractionHistory for TLC: t4 belongs to a chat of its    *)
(* own, the other tasks to one chat.                                       *)
(***************************************************************************)
EXTENDS InteractionHistory, TLC

CONSTANTS t1, t2, t3, t4, t5, w1, w2

MCChatOf == [t \in Tasks |-> IF t = t4 THEN "chat2" ELSE "chat1"]

WorkerSymmetry == Permutations(Workers)
=============================================================================
