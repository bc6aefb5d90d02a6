--------------------------- MODULE WebSocketBridge ---------------------------
(***************************************************************************)
(* Delivery of results to browsers: an orchestrator publishes a result on  *)
(* the Redis channel of its owner, and for each WebSocket of the gateway a *)
(* handler (results_socket) that has subscribed to the channel of the      *)
(* socket's user sends on what it hears.                                   *)
(*                                                                         *)
(* Redis keeps nothing for a channel without subscribers, the handler only *)
(* writes to the socket and never reads it, and the browser opens a socket *)
(* when the page loads or the session changes, never because one closed.   *)
(***************************************************************************)
EXTENDS Naturals, Sequences, Functions

CONSTANTS
  Sockets,          \* the WebSocket connections that browsers ever open
  TabOf,            \* TabOf[s]: the page that opens socket s
  Users, Tokens,
  Anonymous,        \* the token "anonymous", and the user it stands for
  JwtEnabled,       \* setting JWT_ENABLED
  Decoded,          \* Decoded[t]: the user decode_jwt_token finds in t, or None
  Results,          \* the messages an orchestrator publishes
  OwnerOf,          \* OwnerOf[m]: field user_id of m, which names the channel
  MaxPublications,  \* bound on the number of PUBLISH commands
  MaxBreaks,        \* bound on the number of faults
  None

ASSUME BridgeAssumption ==
  /\ Anonymous \in Tokens \cap Users
  /\ JwtEnabled \in BOOLEAN
  /\ ~JwtEnabled => Tokens \subseteq Users
  /\ Decoded \in [Tokens -> Users \cup {None}]
  /\ OwnerOf \in [Results -> Users]
  /\ MaxPublications \in Nat
  /\ MaxBreaks \in Nat
  /\ None \notin Users

VARIABLES
  phase,     \* phase[s]: how far the handler of s is
  wire,      \* wire[s]: the browser's end of s; "leaving" is closed, unseen by the gateway
  user,      \* user[s]: the user validate_jwt returned
  log,       \* history: the results published, in the order Redis ran the commands
  pending,   \* pending[s]: positions in log, pushed to the subscription, not yet sent on
  received,  \* received[s]: positions in log the browser got, in order of arrival
  since,     \* history: since[s] is the length of log at the SUBSCRIBE of s
  dropped,   \* history: dropped[s] are the positions lost with a connection to Redis
  breaks     \* history: number of faults

vars == <<phase, wire, user, log, pending, received, since, dropped, breaks>>

TypeOK ==
  /\ phase \in [Sockets -> {"idle", "accepted", "subscribed", "reconnecting", "ended"}]
  /\ wire \in [Sockets -> {"none", "open", "leaving", "gone"}]
  /\ user \in [Sockets -> Users \cup {None}]
  /\ log \in Seq(Results)
  /\ pending \in [Sockets -> Seq(Nat)]
  /\ received \in [Sockets -> Seq(Nat)]
  /\ since \in [Sockets -> Nat]
  /\ dropped \in [Sockets -> SUBSET Nat]
  /\ breaks \in Nat

Init ==
  /\ phase = [s \in Sockets |-> "idle"]
  /\ wire = [s \in Sockets |-> "none"]
  /\ user = [s \in Sockets |-> None]
  /\ log = <<>>
  /\ pending = [s \in Sockets |-> <<>>]
  /\ received = [s \in Sockets |-> <<>>]
  /\ since = [s \in Sockets |-> 0]
  /\ dropped = [s \in Sockets |-> {}]
  /\ breaks = 0

(* The user of a token: decoded if JWT is enabled, else the token itself.  *)
Identity(t) == IF t = Anonymous \/ ~JwtEnabled THEN t ELSE Decoded[t]

Hears(s, m) == user[s] = OwnerOf[m]

-----------------------------------------------------------------------------
(* connectWebSocket closes the socket the page had and opens s.            *)
CloseOthers(s) ==
  [x \in Sockets |->
     IF TabOf[x] = TabOf[s] /\ wire[x] = "open" THEN "leaving" ELSE wire[x]]

Connect(s, t) ==
  /\ phase[s] = "idle"
  /\ Identity(t) # None
  /\ phase' = [phase EXCEPT ![s] = "accepted"]
  /\ wire' = [CloseOthers(s) EXCEPT ![s] = "open"]
  /\ user' = [user EXCEPT ![s] = Identity(t)]
  /\ UNCHANGED <<log, pending, received, since, dropped, breaks>>

(* The token does not decode: accepted and closed with code 1008.          *)
ConnectRefused(s, t) ==
  /\ phase[s] = "idle"
  /\ Identity(t) = None
  /\ phase' = [phase EXCEPT ![s] = "ended"]
  /\ wire' = [CloseOthers(s) EXCEPT ![s] = "gone"]
  /\ UNCHANGED <<user, log, pending, received, since, dropped, breaks>>

(* Redis executes SUBSCRIBE.  The browser's socket has been open for a     *)
(* while: what was published meanwhile is not heard.                       *)
Subscribe(s) ==
  /\ phase[s] = "accepted"
  /\ phase' = [phase EXCEPT ![s] = "subscribed"]
  /\ since' = [since EXCEPT ![s] = Len(log)]
  /\ UNCHANGED <<wire, user, log, pending, received, dropped, breaks>>

(* Mutant of Publish: one channel for the results of all users.            *)
PublishToAll(m) ==
  /\ Len(log) < MaxPublications
  /\ log' = Append(log, m)
  /\ pending' = [s \in Sockets |->
       IF phase[s] = "subscribed" THEN Append(pending[s], Len(log) + 1) ELSE pending[s]]
  /\ dropped' = [s \in Sockets |->
       IF phase[s] = "reconnecting" /\ Hears(s, m) THEN dropped[s] \cup {Len(log) + 1}
       ELSE dropped[s]]
  /\ UNCHANGED <<phase, wire, user, received, since, breaks>>

(* PUBLISH: Redis pushes m to the channel's subscribers of this moment.    *)
Publish(m) ==
  /\ Len(log) < MaxPublications
  /\ log' = Append(log, m)
  /\ pending' = [s \in Sockets |->
       IF phase[s] = "subscribed" /\ Hears(s, m) THEN Append(pending[s], Len(log) + 1)
       ELSE pending[s]]
  /\ dropped' = [s \in Sockets |->
       IF phase[s] = "reconnecting" /\ Hears(s, m) THEN dropped[s] \cup {Len(log) + 1}
       ELSE dropped[s]]
  /\ UNCHANGED <<phase, wire, user, received, since, breaks>>

(* Mutant of Forward: only the newest of the waiting messages is sent.     *)
ForwardNewest(s) ==
  /\ phase[s] = "subscribed"
  /\ pending[s] # <<>>
  /\ wire[s] # "gone"
  /\ pending' = [pending EXCEPT ![s] = <<>>]
  /\ received' = [received EXCEPT ![s] =
       IF wire[s] = "open" THEN Append(@, pending[s][Len(pending[s])]) ELSE @]
  /\ UNCHANGED <<phase, wire, user, log, since, dropped, breaks>>

(* Mutant of Forward: a message is sent without leaving the buffer.        *)
ForwardAndKeep(s) ==
  /\ phase[s] = "subscribed"
  /\ pending[s] # <<>>
  /\ wire[s] # "gone"
  /\ Len(received[s]) < MaxPublications
  /\ received' = [received EXCEPT ![s] =
       IF wire[s] = "open" THEN Append(@, Head(pending[s])) ELSE @]
  /\ UNCHANGED <<phase, wire, user, log, pending, since, dropped, breaks>>

(* send_text: until the gateway sees that the browser has closed, sending  *)
(* succeeds and the message is lost on the way.                            *)
Forward(s) ==
  /\ phase[s] = "subscribed"
  /\ pending[s] # <<>>
  /\ wire[s] # "gone"
  /\ pending' = [pending EXCEPT ![s] = Tail(@)]
  /\ received' = [received EXCEPT ![s] =
       IF wire[s] = "open" THEN Append(@, Head(pending[s])) ELSE @]
  /\ UNCHANGED <<phase, wire, user, log, since, dropped, breaks>>

(* The handler returns: listen's finally closes the subscription, and the  *)
(* server closes what is left of the connection.                           *)
End(s) ==
  /\ phase' = [phase EXCEPT ![s] = "ended"]
  /\ wire' = [wire EXCEPT ![s] = "gone"]
  /\ pending' = [pending EXCEPT ![s] = <<>>]

(* Mutant of SendFails: the exception is caught around send_text, inside   *)
(* the loop, and the message stays to be sent again.                       *)
SendFailsForever(s) ==
  /\ phase[s] = "subscribed"
  /\ pending[s] # <<>>
  /\ wire[s] = "gone"
  /\ UNCHANGED vars

(* WebSocketDisconnect: the only way the handler learns of a closed socket.*)
SendFails(s) ==
  /\ phase[s] = "subscribed"
  /\ pending[s] # <<>>
  /\ wire[s] = "gone"
  /\ End(s)
  /\ UNCHANGED <<user, log, received, since, dropped, breaks>>

(* The page is closed, or its network is.                                  *)
Leave(s) ==
  /\ wire[s] = "open"
  /\ wire' = [wire EXCEPT ![s] = "leaving"]
  /\ UNCHANGED <<phase, user, log, pending, received, since, dropped, breaks>>

(* The close frame, a reset or a missed pong reaches the gateway's server. *)
CloseArrives(s) ==
  /\ wire[s] = "leaving"
  /\ wire' = [wire EXCEPT ![s] = "gone"]
  /\ UNCHANGED <<phase, user, log, pending, received, since, dropped, breaks>>

Break == breaks < MaxBreaks /\ breaks' = breaks + 1

(* SUBSCRIBE or the read of the subscription raises and ends the handler.  *)
ListenFails(s) ==
  /\ phase[s] \in {"accepted", "subscribed", "reconnecting"}
  /\ Break
  /\ End(s)
  /\ UNCHANGED <<user, log, received, since, dropped>>

(* Or the client reconnects and subscribes again, without what was in the  *)
(* old connection and what is published meanwhile.                         *)
LoseRedis(s) ==
  /\ phase[s] = "subscribed"
  /\ Break
  /\ phase' = [phase EXCEPT ![s] = "reconnecting"]
  /\ dropped' = [dropped EXCEPT ![s] = @ \cup Range(pending[s])]
  /\ pending' = [pending EXCEPT ![s] = <<>>]
  /\ UNCHANGED <<wire, user, log, received, since>>

Resubscribe(s) ==
  /\ phase[s] = "reconnecting"
  /\ phase' = [phase EXCEPT ![s] = "subscribed"]
  /\ UNCHANGED <<wire, user, log, pending, received, since, dropped, breaks>>

(* The gateway's process stops and is started again.                       *)
GatewayRestart ==
  /\ \E s \in Sockets : phase[s] \notin {"idle", "ended"}
  /\ Break
  /\ phase' = [s \in Sockets |-> IF phase[s] = "idle" THEN "idle" ELSE "ended"]
  /\ wire' = [s \in Sockets |-> IF phase[s] = "idle" THEN "none" ELSE "gone"]
  /\ pending' = [s \in Sockets |-> <<>>]
  /\ UNCHANGED <<user, log, received, since, dropped>>

HandlerStep(s) == Subscribe(s) \/ Forward(s) \/ SendFails(s) \/ Resubscribe(s)

SocketStep(s) ==
  \/ \E t \in Tokens : Connect(s, t) \/ ConnectRefused(s, t)
  \/ HandlerStep(s)
  \/ Leave(s) \/ CloseArrives(s)
  \/ ListenFails(s) \/ LoseRedis(s)

Next ==
  \/ \E m \in Results : Publish(m)
  \/ \E s \in Sockets : SocketStep(s)
  \/ GatewayRestart

Spec == Init /\ [][Next]_vars

(* The handler goes on while it can, and the network reports a closed      *)
(* socket some time; nobody needs to publish, connect or leave.            *)
Fairness == \A s \in Sockets : WF_vars(HandlerStep(s)) /\ WF_vars(CloseArrives(s))

FairSpec == Spec /\ Fairness

-----------------------------------------------------------------------------
(* A socket carries only results of the user whose token opened it, on     *)
(* their way as well as arrived.                                           *)
OnlyOwnResults ==
  \A s \in Sockets : \A i \in Range(received[s]) \cup Range(pending[s]) :
    i \in 1 .. Len(log) /\ OwnerOf[log[i]] = user[s]

(* A browser gets results in the order they were published, and each       *)
(* publication at most once, reconnections to Redis included.              *)
Increasing(seq) == \A i, j \in DOMAIN seq : i < j => seq[i] < seq[j]

OrderKept == \A s \in Sockets : Increasing(received[s] \o pending[s])

(* From its SUBSCRIBE on, an open socket misses nothing of its user's      *)
(* results but what went down with a connection to Redis.                  *)
Owed(s) == {i \in since[s] + 1 .. Len(log) : OwnerOf[log[i]] = user[s]}

NothingMissed ==
  \A s \in Sockets :
    /\ phase[s] = "subscribed" /\ wire[s] = "open" =>
         Owed(s) = Range(received[s]) \cup Range(pending[s]) \cup dropped[s]
    /\ dropped[s] # {} => breaks > 0

(* The handler of a closed socket keeps its subscription only until the    *)
(* next result for its user: it cannot go on failing to send.              *)
DeadSocketIsReleased ==
  \A s \in Sockets :
    wire[s] = "gone" /\ pending[s] # <<>> ~> phase[s] = "ended" \/ pending[s] = <<>>
=============================================================================
