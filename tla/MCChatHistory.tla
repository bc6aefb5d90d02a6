---------------------------- MODULE MCChatHistory ----------------------------
(***************************************************************************)
(* Instances of ChatHistory for TLC.  The queries are their own times of   *)
(* creation, and may commit in any order: alice has two messages in chat a *)
(* and one in b, and bob's is in a too.                                    *)
(***************************************************************************)
EXTENDS ChatHistory

MCUserOf == [q \in Queries |-> IF q = 2 THEN "bob" ELSE "alice"]

MCChatOf == [q \in Queries |-> IF q = 4 THEN "b" ELSE "a"]

MCCreatedAt == [q \in Queries |-> q]
=============================================================================
