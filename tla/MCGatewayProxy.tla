--------------------------- MODULE MCGatewayProxy ---------------------------
(***************************************************************************)
(* Instances of GatewayProxy for TLC: a run request, its resend under the  *)
(* same correlation id, and a request for the messages of a chat or the    *)
(* list of chats.  As JWT_PUBLIC_PATHS starts with "/", every route is     *)
(* public.                                                                 *)
(***************************************************************************)
EXTENDS GatewayProxy

CONSTANTS r1, r2, r3, c1, f1, f2, f3

MCRouteOf == [r \in Requests |-> IF r = r3 THEN "history" ELSE "run"]

MCAddressOf == [r \in Requests |-> "office"]

(* The paths of a run and of messages have a parameter: all three requests *)
(* have the place 0.  The path of the list has none.                       *)
MCPathOfMessages == [r \in Requests |-> IF r = r3 THEN "/chats/1/messages" ELSE "/pipelines/1/run"]
MCPlaceOfMessages == [r \in Requests |-> 0]

MCPathOfList == [r \in Requests |-> IF r = r3 THEN "/chats" ELSE "/pipelines/1/run"]
MCPlaceOfList == [r \in Requests |-> IF r = r3 THEN 1 ELSE 0]

MCHeaderOf == [r \in Requests |-> IF r = r3 THEN None ELSE c1]

MCFreshId == [r \in Requests |-> CASE r = r1 -> f1 [] r = r2 -> f2 [] r = r3 -> f3]

MCDecoded == [t \in Tokens |-> CASE t = "no token" -> Anonymous [] t = "expired" -> None
                                 [] OTHER -> "alice"]

MCLimitOf == [l \in Limiters |-> 1]

MCLimitOfTwo == [l \in Limiters |-> IF l = "global" THEN 2 ELSE 1]
=============================================================================
