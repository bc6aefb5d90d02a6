--------------------------- MODULE ResultDelivery ---------------------------
(***************************************************************************)
(* The pipeline and the results WebSocket together: every PUBLISH that a   *)
(* result consumer of Pipeline has executed is a Publish of                *)
(* WebSocketBridge, and all their other steps interleave.  This is the     *)
(* way of an answer from the worker to the user's page.                    *)
(***************************************************************************)
EXTENDS Pipeline, Functions

CONSTANTS Sockets, TabOf, Tokens, Anonymous, JwtEnabled, Decoded,
          MaxPublications, MaxBreaks

VARIABLES phase, wire, user, log, pending, received, since, dropped, breaks

bridgeVars == <<phase, wire, user, log, pending, received, since, dropped, breaks>>

ASSUME DeliveryAssumption ==
  /\ Anonymous \in Tokens \cap Users
  /\ JwtEnabled \in BOOLEAN
  /\ ~JwtEnabled => Tokens \subseteq Users
  /\ Decoded \in [Tokens -> Users \cup {None}]
  /\ MaxPublications \in Nat
  /\ MaxBreaks \in Nat
  /\ None \notin Users

Bridge == INSTANCE WebSocketBridge WITH OwnerOf <- [m \in Results |-> m.user]

DeliveryInit == Init /\ Bridge!Init

(* PUBLISH was executed and answered, or raised, executed or not.          *)
Announce(o) ==
  /\ PublishToUser(o)
  /\ Bridge!Publish(inbox[o])

AnnounceThenFail(o) ==
  /\ PublishToUserFails(o)
  /\ IF published' = published THEN UNCHANGED bridgeVars ELSE Bridge!Publish(inbox[o])

BeforeAnnouncing ==
  \/ \E r \in Requests :
       CommitQuery(r) \/ CommitQueryConflict(r) \/ CommitQueryFails(r) \/ HandlerStep(r)
  \/ \E w \in Workers : WorkerStep(w) \/ WorkerCrash(w)
  \/ \E o \in Orchestrators :
       \/ TakeResult(o) \/ TakeResultReplyLost(o) \/ FetchQuery(o) \/ IgnoreResult(o)
       \/ SettleQuery(o) \/ ProcessResultFails(o) \/ OrchestratorCrash(o)

PipelineStep ==
  \/ \E o \in Orchestrators : Announce(o) \/ AnnounceThenFail(o)
  \/ (BeforeAnnouncing \/ Idle) /\ UNCHANGED bridgeVars

BridgeStep ==
  /\ (\E s \in Sockets : Bridge!SocketStep(s)) \/ Bridge!GatewayRestart
  /\ UNCHANGED vars

DeliveryNext == PipelineStep \/ BridgeStep

deliveryVars == <<vars, bridgeVars>>

DeliverySpec == DeliveryInit /\ [][DeliveryNext]_deliveryVars

(* The fairness of the two parts.                                          *)
ConsumerRuns(o) ==
  \/ Announce(o) \/ AnnounceThenFail(o)
  \/ /\ TakeResult(o) \/ FetchQuery(o) \/ IgnoreResult(o) \/ SettleQuery(o)
     /\ UNCHANGED bridgeVars

DeliveryFairness ==
  /\ \A r \in Requests : WF_deliveryVars(HandlerStep(r) /\ UNCHANGED bridgeVars)
  /\ \A w \in Workers : WF_deliveryVars(WorkerStep(w) /\ UNCHANGED bridgeVars)
  /\ \A o \in Orchestrators : WF_deliveryVars(ConsumerRuns(o))
  /\ \A s \in Sockets : WF_deliveryVars(Bridge!HandlerStep(s) /\ UNCHANGED vars)

DeliveryFairSpec == DeliverySpec /\ DeliveryFairness

-----------------------------------------------------------------------------
Arrived(s) == {log[i] : i \in Range(received[s])}

(* What a page is shown about a query is the state of its row, is for the  *)
(* user who asked, and was asked for: across worker, consumer, Redis and   *)
(* gateway, and whatever of it failed.                                     *)
ShownAgreesWithRow ==
  \A s \in Sockets : \A m \in Arrived(s) :
    /\ Outcome(m.status) = state[m.query]
    /\ UserOf[m.query] = user[s]

(* A page that listens when a request of its user is stored, and goes on   *)
(* listening, is shown the answer, unless a message about it was dropped.  *)
Listens(s) == phase[s] = "subscribed" /\ wire[s] = "open"

StoredIsShown ==
  \A r \in Requests : \A s \in Sockets :
    Listens(s) /\ user[s] = UserOf[r] /\ state[r] = "PENDING" /\ handler[r] # "error"
      ~> \/ \E m \in Arrived(s) : m.query = r
         \/ ~Listens(s)
         \/ handler[r] = "error" \/ lost[r] # {}
=============================================================================
