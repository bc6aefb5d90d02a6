---------------------------- MODULE GatewayProxy ----------------------------
(***************************************************************************)
(* The gateway between clients and the services behind it: the middlewares *)
(* give a request its correlation id and its user, the rate limiters count *)
(* it in Redis, and proxy_request sends it on over one of a bounded number *)
(* of connections.  The service goes on with a request when the gateway    *)
(* has given it up.                                                        *)
(*                                                                         *)
(* An exception that no handler is registered for is answered outside of   *)
(* all middlewares ("error"), hence without the correlation id.            *)
(***************************************************************************)
EXTENDS Naturals, FiniteSets

CONSTANTS
  Requests,        \* HTTP requests
  Addresses, Users, Correlations,
  Tokens,          \* bearer tokens, one standing for none
  Routes,          \* the routes, as far as they differ here
  RouteOf,         \* RouteOf[r]: the route r is for
  Paths, PathOf,   \* PathOf[r]: the path r was sent to
  Places, PlaceOf, \* PlaceOf[r]: the place in app.routes that a limiter finds for r
  AddressOf,       \* AddressOf[r]: the client's address
  HeaderOf,        \* HeaderOf[r]: its X-Correlation-ID, or None
  FreshId,         \* FreshId[r]: the uuid4 made for r if it has none
  Decoded,         \* Decoded[t]: a user, Anonymous (no token or claim), None (invalid)
  JwtEnabled,      \* JWT_ENABLED
  PublicRoutes,    \* the routes under JWT_PUBLIC_PATHS
  LimitedRoutes,   \* the routes with a limiter of their own
  BodyRoutes,      \* the routes that take a body
  MappedRoutes,    \* the routes with a status_error_map
  RunRoutes,       \* the routes to POST /api/run
  LimitOf,         \* LimitOf[l]: requests per window, l a limited route or "global"
  MaxConnections,  \* HTTPX_MAX_CONNECTIONS
  MaxFaults,       \* bound on failures of Redis and restarts of the gateway
  Anonymous, None

Limiters == {"global"} \cup LimitedRoutes
Buckets == ({"global"} \X Addresses \X Places) \cup (LimitedRoutes \X Addresses \X Paths)

Statuses == {"2xx", "4xx", "500"}
Refusals == {"401", "422", "429", "4xx"}
Failures == {"500", "502", "error", "cut"}

ASSUME GatewayAssumption ==
  /\ IsFiniteSet(Requests)
  /\ RouteOf \in [Requests -> Routes]
  /\ AddressOf \in [Requests -> Addresses]
  /\ PathOf \in [Requests -> Paths]
  /\ PlaceOf \in [Requests -> Places]
  /\ HeaderOf \in [Requests -> Correlations \cup {None}]
  /\ FreshId \in [Requests -> Correlations]
  /\ \A p, r \in Requests : FreshId[p] = FreshId[r] => p = r
  /\ \A p, r \in Requests : FreshId[p] # HeaderOf[r]
  /\ Decoded \in [Tokens -> Users \cup {Anonymous, None}]
  /\ Anonymous \notin Users
  /\ None \notin Users \cup {Anonymous} \cup Correlations
  /\ None \notin {"2xx"} \cup Refusals \cup Failures
  /\ JwtEnabled \in BOOLEAN
  /\ "global" \notin Routes
  /\ PublicRoutes \cup LimitedRoutes \cup BodyRoutes \cup MappedRoutes \cup RunRoutes \subseteq Routes
  /\ LimitOf \in [Limiters -> Nat]
  /\ MaxConnections \in Nat
  /\ MaxFaults \in Nat

VARIABLES
  stage,        \* stage[r]: where r is in the gateway
  correlation,  \* correlation[r]: scope.state.correlation_id
  used,         \* used[b]: the counter under key b, in Redis
  connections,  \* the requests that hold a connection of the pool
  sentAs,       \* sentAs[r]: the correlation id r was sent on with
  upstream,     \* upstream[r]: the service's work on r: "idle", "working", or its status
  done,         \* the requests whose work the service has done
  answer,       \* answer[r]: the status the client got, or "cut"
  traced,       \* traced[r]: the X-Correlation-ID of the answer
  open,         \* history: open[b], the requests counted in the window now open
  closed,       \* history: closed[b], for each window that is over, those counted in it
  faults        \* history

limiterVars == <<used, open, closed>>
upstreamVars == <<sentAs, upstream, done>>
answerVars == <<answer, traced>>

vars == <<stage, correlation, limiterVars, connections, upstreamVars, answerVars, faults>>

TypeOK ==
  /\ stage \in [Requests -> {"new", "arrived", "counted", "admitted", "waiting",
                             "sent", "answered"}]
  /\ correlation \in [Requests -> Correlations \cup {None}]
  /\ used \in [Buckets -> Nat]
  /\ open \in [Buckets -> SUBSET Requests]
  /\ closed \in [Buckets -> SUBSET SUBSET Requests]
  /\ connections \subseteq Requests
  /\ sentAs \in [Requests -> Correlations \cup {None}]
  /\ upstream \in [Requests -> {"idle", "working"} \cup Statuses]
  /\ done \subseteq Requests
  /\ answer \in [Requests -> {None, "2xx"} \cup Refusals \cup Failures]
  /\ traced \in [Requests -> Correlations \cup {None}]
  /\ faults \in 0 .. MaxFaults

Init ==
  /\ stage = [r \in Requests |-> "new"]
  /\ correlation = [r \in Requests |-> None]
  /\ used = [b \in Buckets |-> 0]
  /\ open = [b \in Buckets |-> {}]
  /\ closed = [b \in Buckets |-> {}]
  /\ connections = {}
  /\ sentAs = [r \in Requests |-> None]
  /\ upstream = [r \in Requests |-> "idle"]
  /\ done = {}
  /\ answer = [r \in Requests |-> None]
  /\ traced = [r \in Requests |-> None]
  /\ faults = 0

-----------------------------------------------------------------------------
(* Answers.                                                                *)

(* From within the middlewares: send_wrapper adds the correlation id.      *)
Answer(r, status) ==
  /\ stage' = [stage EXCEPT ![r] = "answered"]
  /\ answer' = [answer EXCEPT ![r] = status]
  /\ traced' = [traced EXCEPT ![r] = correlation'[r]]

(* unified_handler for an exception of no mapped type.                     *)
AnswerError(r) ==
  /\ stage' = [stage EXCEPT ![r] = "answered"]
  /\ answer' = [answer EXCEPT ![r] = "error"]
  /\ UNCHANGED traced

Continue(r, s) ==
  /\ stage' = [stage EXCEPT ![r] = s]
  /\ UNCHANGED answerVars

-----------------------------------------------------------------------------
(* The middlewares.                                                        *)

(* Mutant of CorrelationId: the header of the request is not looked at.    *)
CorrelationIdAlwaysNew(r) == FreshId[r]

CorrelationId(r) == IF HeaderOf[r] = None THEN FreshId[r] ELSE HeaderOf[r]

(* JWTAuthMiddleware: the user in X-User-ID, None for a refused request.   *)
Identify(r, token) ==
  CASE ~JwtEnabled -> Anonymous
    [] JwtEnabled /\ Decoded[token] = Anonymous ->
         IF RouteOf[r] \in PublicRoutes THEN Anonymous ELSE None
    [] OTHER -> Decoded[token]

(* The middlewares in their order: correlation id, then user.              *)
Arrive(r) ==
  /\ stage[r] = "new"
  /\ correlation' = [correlation EXCEPT ![r] = CorrelationId(r)]
  /\ \E token \in Tokens :
       IF Identify(r, token) = None THEN Answer(r, "401") ELSE Continue(r, "arrived")
  /\ UNCHANGED <<limiterVars, connections, upstreamVars, faults>>

-----------------------------------------------------------------------------
(* The rate limiters: the global one, then the one of the route.           *)

LimitersOf(r) == {"global"} \cup ({RouteOf[r]} \cap LimitedRoutes)

LimiterFor(r) == IF stage[r] = "arrived" THEN "global" ELSE RouteOf[r]

(* The key is what the identifier returns, followed by the place that the  *)
(* limiter finds in app.routes: the place of the route with the very path  *)
(* of the request, or 0 if the route's path has a parameter.  The global   *)
(* identifier is the address; that of a limiter of its own, the default,   *)
(* is the address and the path, which determines the place.                *)
BucketOf(r, l) ==
  IF l = "global" THEN <<l, AddressOf[r], PlaceOf[r]>> ELSE <<l, AddressOf[r], PathOf[r]>>

BucketFor(r) == BucketOf(r, LimiterFor(r))

(* The first request of a window is let through whatever the limit.        *)
Allowed(l) == IF LimitOf[l] = 0 THEN 1 ELSE LimitOf[l]

Counted(r) ==
  Continue(r, IF stage[r] = "arrived" /\ RouteOf[r] \in LimitedRoutes
              THEN "counted" ELSE "admitted")

AddTo(b, r) ==
  /\ used' = [used EXCEPT ![b] = @ + 1]
  /\ open' = [open EXCEPT ![b] = @ \cup {r}]
  /\ UNCHANGED closed

(* Mutant of Count: a request more than the limit is let through.          *)
CountOneMore(r) ==
  /\ stage[r] \in {"arrived", "counted"}
  /\ used[BucketFor(r)] <= Allowed(LimiterFor(r))
  /\ AddTo(BucketFor(r), r)
  /\ Counted(r)
  /\ UNCHANGED <<correlation, connections, upstreamVars, faults>>

(* The first request of a window sets the counter, the others add to it.   *)
Count(r) ==
  /\ stage[r] \in {"arrived", "counted"}
  /\ used[BucketFor(r)] < Allowed(LimiterFor(r))
  /\ AddTo(BucketFor(r), r)
  /\ Counted(r)
  /\ UNCHANGED <<correlation, connections, upstreamVars, faults>>

OverLimit(r) ==
  /\ stage[r] \in {"arrived", "counted"}
  /\ used[BucketFor(r)] >= Allowed(LimiterFor(r))
  /\ UNCHANGED correlation
  /\ Answer(r, "429")
  /\ UNCHANGED <<limiterVars, connections, upstreamVars, faults>>

(* Redis does not answer the limiter.                                      *)
LimiterFails(r) ==
  /\ stage[r] \in {"arrived", "counted"}
  /\ faults < MaxFaults
  /\ faults' = faults + 1
  /\ AnswerError(r)
  /\ UNCHANGED <<correlation, limiterVars, connections, upstreamVars>>

(* The counter's key expires.                                              *)
WindowEnds(b) ==
  /\ used[b] > 0
  /\ used' = [used EXCEPT ![b] = 0]
  /\ open' = [open EXCEPT ![b] = {}]
  /\ closed' = [closed EXCEPT ![b] = @ \cup {open[b]}]
  /\ UNCHANGED <<stage, correlation, connections, upstreamVars, answerVars, faults>>

-----------------------------------------------------------------------------
(* The endpoint and proxy_request.                                         *)

(* The body of the request fits its route, or it does not.                 *)
Validate(r) ==
  /\ stage[r] = "admitted"
  /\ UNCHANGED correlation
  /\ \/ Continue(r, "waiting")
     \/ RouteOf[r] \in BodyRoutes /\ Answer(r, "422")
  /\ UNCHANGED <<limiterVars, connections, upstreamVars, faults>>

(* Mutant of Send: the context headers come before those of the request.   *)
SendOwnHeader(r) ==
  /\ stage[r] = "waiting"
  /\ Cardinality(connections) < MaxConnections
  /\ connections' = connections \cup {r}
  /\ sentAs' = [sentAs EXCEPT ![r] = HeaderOf[r]]
  /\ upstream' = [upstream EXCEPT ![r] = "working"]
  /\ Continue(r, "sent")
  /\ UNCHANGED <<correlation, limiterVars, done, faults>>

Send(r) ==
  /\ stage[r] = "waiting"
  /\ Cardinality(connections) < MaxConnections
  /\ connections' = connections \cup {r}
  /\ sentAs' = [sentAs EXCEPT ![r] = correlation[r]]
  /\ upstream' = [upstream EXCEPT ![r] = "working"]
  /\ Continue(r, "sent")
  /\ UNCHANGED <<correlation, limiterVars, done, faults>>

(* httpx.PoolTimeout, or no connection to the service.                     *)
NoConnection(r) ==
  /\ stage[r] = "waiting"
  /\ AnswerError(r)
  /\ UNCHANGED <<correlation, limiterVars, connections, upstreamVars, faults>>

(* The unique correlation_id of queries is taken.                          *)
Conflicts(r) ==
  /\ RouteOf[r] \in RunRoutes
  /\ \E p \in done : RouteOf[p] \in RunRoutes /\ sentAs[p] = sentAs[r]

(* The service answers: the work is done, or it is not; a server error     *)
(* does not tell which.                                                    *)
Respond(r) ==
  /\ upstream[r] = "working"
  /\ \/ /\ ~Conflicts(r)
        /\ done' = done \cup {r}
        /\ \E status \in {"2xx", "500"} : upstream' = [upstream EXCEPT ![r] = status]
     \/ /\ \E status \in {"4xx", "500"} : upstream' = [upstream EXCEPT ![r] = status]
        /\ UNCHANGED done
  /\ UNCHANGED <<stage, correlation, limiterVars, connections, sentAs, answerVars, faults>>

(* status_error_map: a 5xx becomes an error of the gateway, a 502.         *)
MappedStatus(r) ==
  IF RouteOf[r] \in MappedRoutes /\ upstream[r] = "500" THEN "502" ELSE upstream[r]

(* The answer of the service is given to the client.                       *)
Forward(r) ==
  /\ stage[r] = "sent"
  /\ upstream[r] \in Statuses
  /\ connections' = connections \ {r}
  /\ UNCHANGED correlation
  /\ Answer(r, MappedStatus(r))
  /\ UNCHANGED <<limiterVars, upstreamVars, faults>>

(* Mutant of GiveUp: the gateway refuses what it has not seen accepted.    *)
GiveUpRefusing(r) ==
  /\ stage[r] = "sent"
  /\ connections' = connections \ {r}
  /\ UNCHANGED correlation
  /\ Answer(r, "4xx")
  /\ UNCHANGED <<limiterVars, upstreamVars, faults>>

(* Mutant of GiveUp: there is no timeout, only a broken connection.        *)
GiveUpWhenDone(r) ==
  /\ stage[r] = "sent"
  /\ upstream[r] # "working"
  /\ connections' = connections \ {r}
  /\ AnswerError(r)
  /\ UNCHANGED <<correlation, limiterVars, upstreamVars, faults>>

(* httpx.ReadTimeout, or the connection breaks.                            *)
GiveUp(r) ==
  /\ stage[r] = "sent"
  /\ connections' = connections \ {r}
  /\ AnswerError(r)
  /\ UNCHANGED <<correlation, limiterVars, upstreamVars, faults>>

(* The gateway restarts: what it was working on is cut off.                *)
Restart ==
  LET cut == {r \in Requests : stage[r] \notin {"new", "answered"}}
  IN  /\ cut # {}
      /\ faults < MaxFaults
      /\ faults' = faults + 1
      /\ stage' = [r \in Requests |-> IF r \in cut THEN "answered" ELSE stage[r]]
      /\ answer' = [r \in Requests |-> IF r \in cut THEN "cut" ELSE answer[r]]
      /\ connections' = {}
      /\ UNCHANGED <<correlation, limiterVars, upstreamVars, traced>>

-----------------------------------------------------------------------------
GatewayStep(r) ==
  \/ Count(r) \/ OverLimit(r) \/ LimiterFails(r)
  \/ Validate(r) \/ Send(r) \/ NoConnection(r) \/ Forward(r) \/ GiveUp(r)

Next ==
  \/ \E r \in Requests : Arrive(r) \/ GatewayStep(r) \/ Respond(r)
  \/ \E b \in Buckets : WindowEnds(b)
  \/ Restart

Spec == Init /\ [][Next]_vars

(* The gateway goes on with its requests and its timeouts expire; services *)
(* need not answer.                                                        *)
FairSpec == Spec /\ \A r \in Requests : WF_vars(GatewayStep(r))

-----------------------------------------------------------------------------
(* Correctness.                                                            *)

Verdict(r) ==
  CASE answer[r] = None -> "open"
    [] answer[r] = "2xx" -> "success"
    [] answer[r] \in Refusals -> "refused"
    [] answer[r] \in Failures -> "failed"

(* The gateway and the services behind it implement the contract: whatever *)
(* times out, breaks off or restarts, a success is work done, and a        *)
(* refusal is work that is not done and will not be.                       *)
Contract ==
  INSTANCE RequestContract WITH worked <- done, verdict <- [r \in Requests |-> Verdict(r)]

ContractKept == Contract!Spec

(* An answer carries the correlation id the service got the request under, *)
(* so that it can be found in logs and rows; only the answer to an         *)
(* unhandled exception carries none.                                       *)
AnswersAreTraceable ==
  \A r \in Requests :
    /\ answer[r] \notin {None, "error", "cut"} => traced[r] # None
    /\ traced[r] # None /\ upstream[r] # "idle" => traced[r] = sentAs[r]

(* A client that sends a request again under the same correlation id, not  *)
(* knowing whether it was accepted, does not get it done twice.            *)
ResendIsNotRepeated ==
  \A p, r \in Requests :
    /\ p # r
    /\ {RouteOf[p], RouteOf[r]} \subseteq RunRoutes
    /\ HeaderOf[p] = HeaderOf[r] /\ HeaderOf[p] # None
    => ~({p, r} \subseteq done)

(* The requests counted in one window after the other.                     *)
Windows(b) == closed[b] \cup {open[b]}

(* What a service gets has been counted by each limiter of its route, and  *)
(* of the requests counted in one window of a counter it gets no more than *)
(* the limit, though they wait for another limiter, for each other and for *)
(* a connection, and may be sent on when the window is long over.          *)
QuotaHolds ==
  /\ \A r \in Requests : upstream[r] # "idle" =>
       \A l \in LimitersOf(r) : \E W \in Windows(BucketOf(r, l)) : r \in W
  /\ \A b \in Buckets : \A W \in Windows(b) :
       Cardinality({r \in W : upstream[r] # "idle"}) <= Allowed(b[1])

(* What the comment on the global limiter says: all routes share one key   *)
(* for an address.  Then no more than the limit would be let through in    *)
(* the windows that are open at one time.  The key has the place of the    *)
(* route in it, so that routes of different places are counted apart.      *)
QuotaIsShared ==
  \A a \in Addresses :
    Cardinality(UNION {open[<<"global", a, i>>] : i \in Places}) <= Allowed("global")

(* However a request ends, its connection is free again.                   *)
NoConnectionLeaks == connections = {r \in Requests : stage[r] = "sent"}

(* Every request is answered, or cut off, even if no service ever is.      *)
EveryRequestEnds ==
  \A r \in Requests : stage[r] # "new" ~> answer[r] # None
=============================================================================
