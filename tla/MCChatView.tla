----------------------------- MODULE MCChatView -----------------------------
(***************************************************************************)
(* Instances of ChatView for TLC: an older chat with a query, and one query *)
(* to be asked in it or in a new chat.                                     *)
(***************************************************************************)
EXTENDS ChatView, TLC

CONSTANTS q1, q2, c1, c2, c3

MCEarlier == q1 :> c1 @@ q2 :> None
=============================================================================
