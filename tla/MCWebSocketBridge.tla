-------------------------- MODULE MCWebSocketBridge --------------------------
(***************************************************************************)
(* Instances of WebSocketBridge for TLC: alice's page opens s1 and, after  *)
(* a login or a refresh, s2; s3 is another page with any token.            *)
(***************************************************************************)
EXTENDS WebSocketBridge

CONSTANTS s1, s2, s3

MCTabOf == [s \in Sockets |-> IF s = s3 THEN "page2" ELSE "page1"]

MCDecoded == [t \in Tokens |-> IF t = "tokenA" THEN "alice" ELSE None]

MCOwnerOf == [m \in Results |-> IF m = "a" THEN "alice" ELSE "anonymous"]
=============================================================================
