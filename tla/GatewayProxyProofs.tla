------------------------ MODULE GatewayProxyProofs -------------------------
(***************************************************************************)
(* Proofs about GatewayProxy, for any requests, limits, routes and numbers *)
(* of connections and faults.                                              *)
(***************************************************************************)
EXTENDS GatewayProxy, TLAPS, FiniteSetTheorems

USE GatewayAssumption

(* What happens to one request, and what happens besides.                  *)
RequestStep(r) == Arrive(r) \/ GatewayStep(r) \/ Respond(r)

LEMMA StepsOfNext ==
  Next => \/ \E r \in Requests : RequestStep(r)
          \/ \E b \in Buckets : WindowEnds(b)
          \/ Restart
  BY DEF Next, RequestStep

-----------------------------------------------------------------------------
(* Types.                                                                  *)

LEMMA CorrelationIdType ==
  ASSUME NEW r \in Requests
  PROVE  CorrelationId(r) \in Correlations /\ CorrelationId(r) # None
  BY DEF CorrelationId

LEMMA BucketType ==
  ASSUME NEW r \in Requests, stage[r] \in {"arrived", "counted"},
         stage[r] = "counted" => RouteOf[r] \in LimitedRoutes
  PROVE  /\ BucketFor(r) \in Buckets
         /\ LimiterFor(r) \in Limiters /\ BucketFor(r)[1] = LimiterFor(r)
  BY DEF BucketFor, BucketOf, LimiterFor, Buckets, Limiters

(* Only the routes with a limiter wait for it.                             *)
CountedInv == \A r \in Requests : stage[r] = "counted" => RouteOf[r] \in LimitedRoutes

TypeInv == TypeOK /\ CountedInv

LEMMA InitTypeInv == Init => TypeInv
  BY DEF Init, TypeInv, TypeOK, CountedInv, Statuses

AnswerTypes ==
  /\ stage \in [Requests -> {"new", "arrived", "counted", "admitted", "waiting",
                             "sent", "answered"}]
  /\ answer \in [Requests -> {None, "2xx"} \cup Refusals \cup Failures]
  /\ traced \in [Requests -> Correlations \cup {None}]
  /\ CountedInv

LEMMA AnswerType ==
  ASSUME TypeInv, NEW r \in Requests, NEW status \in {"2xx"} \cup Refusals \cup Failures,
         Answer(r, status), correlation'[r] \in Correlations \cup {None}
  PROVE  AnswerTypes'
  BY DEF TypeInv, TypeOK, CountedInv, Answer, AnswerTypes

LEMMA AnswerErrorType ==
  ASSUME TypeInv, NEW r \in Requests, AnswerError(r)
  PROVE  AnswerTypes'
  BY DEF TypeInv, TypeOK, CountedInv, AnswerError, AnswerTypes, Failures

LEMMA RequestStepType ==
  ASSUME TypeInv, NEW r \in Requests, RequestStep(r)
  PROVE  TypeInv'
<1>. USE DEF TypeInv, TypeOK, CountedInv, limiterVars, upstreamVars, answerVars
<1>1. CASE Arrive(r)
  BY <1>1, CorrelationIdType DEF Arrive, Answer, Continue, Refusals
<1>2. CASE Count(r)
  <2>1. /\ used' \in [Buckets -> Nat]
        /\ open' \in [Buckets -> SUBSET Requests]
        /\ closed' = closed
    BY <1>2, BucketType DEF Count, AddTo
  <2>. QED
    BY <1>2, <2>1 DEF Count, Counted, Continue
<1>3. CASE OverLimit(r)
  <2>1. AnswerTypes'
    BY <1>3, AnswerType DEF OverLimit, Refusals
  <2>. QED
    BY <1>3, <2>1 DEF OverLimit, AnswerTypes
<1>4. CASE Validate(r)
  <2>1. CASE Continue(r, "waiting")
    BY <1>4, <2>1 DEF Validate, Continue
  <2>2. CASE Answer(r, "422")
    <3>1. AnswerTypes'
      BY <1>4, <2>2, AnswerType DEF Validate, Refusals
    <3>. QED
      BY <1>4, <3>1 DEF Validate, AnswerTypes
  <2>. QED
    BY <1>4, <2>1, <2>2 DEF Validate
<1>5. CASE Send(r)
  BY <1>5 DEF Send, Continue
<1>6. CASE Forward(r)
  <2>1. MappedStatus(r) \in {"2xx"} \cup Refusals \cup Failures
    BY <1>6 DEF Forward, MappedStatus, Statuses, Refusals, Failures
  <2>2. AnswerTypes'
    BY <1>6, <2>1, AnswerType DEF Forward
  <2>. QED
    BY <1>6, <2>2 DEF Forward, AnswerTypes
<1>7. CASE Respond(r)
  BY <1>7 DEF Respond, Statuses
<1>8. CASE LimiterFails(r) \/ NoConnection(r) \/ GiveUp(r)
  <2>1. AnswerTypes'
    BY <1>8, AnswerErrorType DEF LimiterFails, NoConnection, GiveUp
  <2>. QED
    BY <1>8, <2>1 DEF LimiterFails, NoConnection, GiveUp, AnswerTypes
<1>. QED
  BY <1>1, <1>2, <1>3, <1>4, <1>5, <1>6, <1>7, <1>8 DEF RequestStep, GatewayStep

LEMMA NextType ==
  ASSUME TypeInv, [Next]_vars
  PROVE  TypeInv'
<1>. USE DEF TypeInv, TypeOK, CountedInv, limiterVars, upstreamVars, answerVars
<1>1. CASE \E r \in Requests : RequestStep(r)
  BY <1>1, RequestStepType
<1>2. CASE \E b \in Buckets : WindowEnds(b)
  BY <1>2 DEF WindowEnds
<1>3. CASE Restart
  BY <1>3 DEF Restart, Failures
<1>4. CASE UNCHANGED vars
  BY <1>4 DEF vars
<1>. QED
  BY <1>1, <1>2, <1>3, <1>4, StepsOfNext

(* Every variable of the gateway keeps its type.                           *)
THEOREM GatewayTypeCorrect == Spec => []TypeOK
<1>1. TypeInv => TypeOK
  BY DEF TypeInv
<1>. QED
  BY <1>1, InitTypeInv, NextType, PTL DEF Spec

-----------------------------------------------------------------------------
(* What is known about a request at every moment.                          *)

Early == {"new", "arrived", "counted", "admitted", "waiting"}

(* The correlation id is set once, and sent on and answered as it is.      *)
TraceInv(r) ==
  /\ stage[r] = "new" <=> correlation[r] = None
  /\ correlation[r] # None => correlation[r] = CorrelationId(r)
  /\ upstream[r] # "idle" => sentAs[r] = correlation[r] /\ sentAs[r] # None
  /\ traced[r] # None => stage[r] = "answered" /\ traced[r] = correlation[r]
  /\ stage[r] = "answered" /\ answer[r] \notin {"error", "cut"} => traced[r] # None

(* The service works on what was sent; a success was done, a refusal not.  *)
WorkInv(r) ==
  /\ answer[r] = None <=> stage[r] # "answered"
  /\ stage[r] \in Early => upstream[r] = "idle"
  /\ stage[r] = "sent" => upstream[r] # "idle"
  /\ r \in done => upstream[r] \in {"2xx", "500"}
  /\ upstream[r] = "2xx" => r \in done
  /\ answer[r] = "2xx" => r \in done
  /\ answer[r] \in Refusals => upstream[r] \in {"idle", "4xx"}

RequestInv == \A r \in Requests : TraceInv(r) /\ WorkInv(r)

LEMMA InitRequestInv == Init => RequestInv
  BY DEF Init, RequestInv, TraceInv, WorkInv, Early, Refusals

LEMMA RequestStepInv ==
  ASSUME TypeInv, RequestInv, NEW r \in Requests, RequestStep(r), NEW p \in Requests
  PROVE  TraceInv(p)' /\ WorkInv(p)'
<1>. USE DEF TypeInv, TypeOK, RequestInv, TraceInv, WorkInv, Early,
             limiterVars, upstreamVars, answerVars
<1>0. None # "2xx" /\ None \notin Refusals /\ None # "error" /\ None # "cut"
  BY DEF Failures
<1>1. CASE Arrive(r)
  BY <1>0, <1>1, CorrelationIdType DEF Arrive, Answer, Continue, Refusals, CorrelationId
<1>2. CASE Count(r)
  BY <1>2 DEF Count, Counted, Continue
<1>3. CASE OverLimit(r) \/ LimiterFails(r)
  BY <1>0, <1>3 DEF OverLimit, LimiterFails, Answer, AnswerError, Refusals, CorrelationId
<1>4. CASE Validate(r)
  BY <1>0, <1>4 DEF Validate, Answer, Continue, Refusals, CorrelationId
<1>5. CASE Send(r)
  BY <1>5 DEF Send, Continue, Refusals, CorrelationId
<1>6. CASE NoConnection(r) \/ GiveUp(r)
  BY <1>0, <1>6 DEF NoConnection, GiveUp, AnswerError, Refusals, CorrelationId
<1>7. CASE Forward(r)
  <2>1. /\ MappedStatus(r) \in {"2xx", "4xx", "500", "502"}
        /\ MappedStatus(r) = "2xx" => upstream[r] = "2xx"
        /\ MappedStatus(r) \in Refusals => upstream[r] = "4xx"
    BY <1>7 DEF Forward, MappedStatus, Statuses, Refusals
  <2>2. /\ stage' = [stage EXCEPT ![r] = "answered"]
        /\ answer' = [answer EXCEPT ![r] = MappedStatus(r)]
        /\ traced' = [traced EXCEPT ![r] = correlation[r]]
        /\ UNCHANGED <<correlation, sentAs, upstream, done>>
    BY <1>7 DEF Forward, Answer
  <2>3. TraceInv(p)'
    BY <1>7, <2>2 DEF Forward, CorrelationId
  <2>4. MappedStatus(r) # None
    BY <2>1 DEF Refusals, Failures
  <2>5. WorkInv(p)'
    <3>1. CASE p = r
      BY <1>7, <2>1, <2>2, <2>4, <3>1 DEF Forward
    <3>2. CASE p # r
      BY <2>2, <3>2
    <3>. QED
      BY <3>1, <3>2
  <2>. QED
    BY <2>3, <2>5
<1>8. CASE Respond(r)
  BY <1>8 DEF Respond, Refusals, CorrelationId
<1>. QED
  BY <1>1, <1>2, <1>3, <1>4, <1>5, <1>6, <1>7, <1>8 DEF RequestStep, GatewayStep

LEMMA NextRequestInv ==
  ASSUME TypeInv, RequestInv, [Next]_vars
  PROVE  RequestInv'
<1>1. CASE \E r \in Requests : RequestStep(r)
  BY <1>1, RequestStepInv DEF RequestInv
<1>2. CASE \E b \in Buckets : WindowEnds(b)
  BY <1>2 DEF WindowEnds, RequestInv, TraceInv, WorkInv, upstreamVars, answerVars, CorrelationId
<1>3. CASE Restart
  BY <1>3 DEF Restart, RequestInv, TraceInv, WorkInv, TypeInv, TypeOK, upstreamVars,
     CorrelationId, Early, Refusals, Failures
<1>4. CASE UNCHANGED vars
  BY <1>4 DEF vars, RequestInv, TraceInv, WorkInv, upstreamVars, answerVars, CorrelationId
<1>. QED
  BY <1>1, <1>2, <1>3, <1>4, StepsOfNext

LEMMA AlwaysRequestInv == Spec => [](TypeInv /\ RequestInv)
  BY InitTypeInv, NextType, InitRequestInv, NextRequestInv, PTL DEF Spec

(* An answer carries the correlation id the service got, except for errors *)
(* that are answered outside of the middlewares, whatever fails.           *)
THEOREM AnswersStayTraceable == Spec => []AnswersAreTraceable
<1>1. RequestInv => AnswersAreTraceable
  BY DEF RequestInv, TraceInv, WorkInv, AnswersAreTraceable
<1>. QED
  BY <1>1, AlwaysRequestInv, PTL

-----------------------------------------------------------------------------
(* The pool.                                                               *)

LEMMA PoolStep ==
  ASSUME TypeInv, NoConnectionLeaks, [Next]_vars
  PROVE  NoConnectionLeaks'
<1>. USE DEF TypeInv, TypeOK, NoConnectionLeaks, limiterVars, upstreamVars, answerVars
<1>1. ASSUME NEW r \in Requests, RequestStep(r)
      PROVE  NoConnectionLeaks'
  <2>1. CASE Arrive(r) \/ Count(r) \/ OverLimit(r) \/ LimiterFails(r)
    BY <2>1 DEF Arrive, Count, Counted, OverLimit, LimiterFails, Answer, AnswerError, Continue
  <2>2. CASE Validate(r) \/ NoConnection(r)
    BY <2>2 DEF Validate, NoConnection, Answer, AnswerError, Continue
  <2>3. CASE Send(r)
    BY <2>3 DEF Send, Continue
  <2>4. CASE Forward(r) \/ GiveUp(r)
    BY <2>4 DEF Forward, GiveUp, Answer, AnswerError
  <2>5. CASE Respond(r)
    BY <2>5 DEF Respond
  <2>. QED
    BY <1>1, <2>1, <2>2, <2>3, <2>4, <2>5 DEF RequestStep, GatewayStep
<1>2. CASE \E b \in Buckets : WindowEnds(b)
  BY <1>2 DEF WindowEnds
<1>3. CASE Restart
  BY <1>3 DEF Restart
<1>4. CASE UNCHANGED vars
  BY <1>4 DEF vars
<1>. QED
  BY <1>1, <1>2, <1>3, <1>4, StepsOfNext

(* However requests end, the pool holds the connections of those only that *)
(* a service is working on, whatever times out or restarts.                *)
THEOREM PoolIsNeverLeaked == Spec => []NoConnectionLeaks
<1>1. Init => NoConnectionLeaks
  BY DEF Init, NoConnectionLeaks
<1>. QED
  BY <1>1, InitTypeInv, NextType, PoolStep, PTL DEF Spec

-----------------------------------------------------------------------------
(* A resend.                                                               *)

(* The rows of two runs have different correlation ids.                    *)
UniqueRuns ==
  \A p, r \in done :
    p # r /\ {RouteOf[p], RouteOf[r]} \subseteq RunRoutes => sentAs[p] # sentAs[r]

LEMMA RespondUnique ==
  ASSUME TypeInv, RequestInv, UniqueRuns, NEW r \in Requests, Respond(r)
  PROVE  UniqueRuns'
<1>1. sentAs' = sentAs /\ done' \subseteq done \cup {r}
  BY DEF Respond
<1>2. CASE done' = done
  BY <1>1, <1>2 DEF UniqueRuns
<1>3. CASE ~Conflicts(r)
  BY <1>1, <1>3 DEF UniqueRuns, Conflicts
<1>. QED
  BY <1>2, <1>3 DEF Respond

LEMMA NextUnique ==
  ASSUME TypeInv, RequestInv, UniqueRuns, [Next]_vars
  PROVE  UniqueRuns'
<1>. USE DEF UniqueRuns, upstreamVars
<1>1. ASSUME NEW r \in Requests, RequestStep(r)
      PROVE  UniqueRuns'
  <2>1. CASE Send(r)
    <3>1. r \notin done
      BY <2>1 DEF Send, RequestInv, WorkInv, Early
    <3>2. \A p \in done : sentAs'[p] = sentAs[p]
      BY <2>1, <3>1 DEF Send, TypeInv, TypeOK
    <3>. QED
      BY <2>1, <3>2 DEF Send
  <2>2. CASE Respond(r)
    BY <2>2, RespondUnique
  <2>. QED
    BY <1>1, <2>1, <2>2 DEF RequestStep, GatewayStep, Arrive, Count, OverLimit, LimiterFails,
       Validate, NoConnection, Forward, GiveUp
<1>2. CASE (\E b \in Buckets : WindowEnds(b)) \/ Restart \/ UNCHANGED vars
  BY <1>2 DEF WindowEnds, Restart, vars
<1>. QED
  BY <1>1, <1>2, StepsOfNext

(* Of two run requests with one correlation id, at most one is ever done.  *)
THEOREM ResendsAreNotRepeated == Spec => []ResendIsNotRepeated
<1>1. TypeInv /\ RequestInv /\ UniqueRuns => ResendIsNotRepeated
  <2>. SUFFICES ASSUME TypeInv, RequestInv, UniqueRuns, NEW p \in done, NEW r \in done,
                       p # r, {RouteOf[p], RouteOf[r]} \subseteq RunRoutes,
                       HeaderOf[p] = HeaderOf[r], HeaderOf[p] # None
                PROVE  FALSE
    BY DEF ResendIsNotRepeated
  <2>1. p \in Requests /\ r \in Requests
    BY DEF TypeInv, TypeOK
  <2>2. sentAs[p] = CorrelationId(p) /\ sentAs[r] = CorrelationId(r)
    BY <2>1 DEF RequestInv, TraceInv, WorkInv
  <2>. QED
    BY <2>2 DEF UniqueRuns, CorrelationId
<1>2. Init => UniqueRuns
  BY DEF Init, UniqueRuns
<1>. QED
  BY <1>1, <1>2, InitTypeInv, NextType, InitRequestInv, NextRequestInv, NextUnique, PTL DEF Spec

-----------------------------------------------------------------------------
(* The contract of a proxy.                                                *)

LEMMA VerdictIs ==
  ASSUME TypeInv, NEW r \in Requests
  PROVE  /\ Verdict(r) = "open" <=> answer[r] = None
         /\ Verdict(r) = "success" <=> answer[r] = "2xx"
         /\ Verdict(r) = "refused" <=> answer[r] \in Refusals
         /\ Verdict(r) = "failed" <=> answer[r] \in Failures
         /\ Verdict(r) \in {"open", "success", "refused", "failed"}
<1>1. answer[r] \in {None, "2xx"} \cup Refusals \cup Failures
  BY DEF TypeInv, TypeOK
<1>. QED
  BY <1>1 DEF Verdict, Refusals, Failures

LEMMA NextVerdictIs ==
  ASSUME TypeInv', NEW r \in Requests
  PROVE  /\ answer'[r] = "2xx" => Verdict(r)' = "success"
         /\ answer'[r] \in Refusals => Verdict(r)' = "refused"
         /\ answer'[r] \in Failures => Verdict(r)' = "failed"
         /\ answer'[r] = answer[r] => Verdict(r)' = Verdict(r)
<1>1. answer'[r] \in {None, "2xx"} \cup Refusals \cup Failures
  BY DEF TypeInv, TypeOK
<1>. QED
  BY <1>1 DEF Verdict, Refusals, Failures

(* What a step of a request does to answers and to the work.               *)
LEMMA RequestStepEffect ==
  ASSUME TypeInv, RequestInv, NEW r \in Requests, RequestStep(r)
  PROVE  \/ UNCHANGED <<answer, done>>
         \/ /\ answer[r] = None /\ answer'[r] # None
            /\ \A p \in Requests \ {r} : answer'[p] = answer[p]
            /\ UNCHANGED done
         \/ /\ upstream[r] = "working"
            /\ done' = done \cup {r}
            /\ UNCHANGED answer
<1>. USE DEF TypeInv, TypeOK, upstreamVars, answerVars
<1>0. stage[r] # "answered" => answer[r] = None
  BY DEF RequestInv, WorkInv
<1>1. ASSUME NEW status \in {"2xx"} \cup Refusals \cup Failures, Answer(r, status), done' = done,
             stage[r] # "answered"
      PROVE  /\ answer[r] = None /\ answer'[r] # None
             /\ \A p \in Requests \ {r} : answer'[p] = answer[p]
  BY <1>0, <1>1 DEF Answer
<1>2. ASSUME AnswerError(r), stage[r] # "answered"
      PROVE  /\ answer[r] = None /\ answer'[r] # None
             /\ \A p \in Requests \ {r} : answer'[p] = answer[p]
  BY <1>0, <1>2 DEF AnswerError, Failures
<1>3. CASE Arrive(r) \/ Validate(r)
  BY <1>1, <1>3 DEF Arrive, Validate, Continue, Refusals
<1>4. CASE Count(r) \/ Send(r)
  BY <1>4 DEF Count, Counted, Send, Continue
<1>5. CASE OverLimit(r)
  BY <1>1, <1>5 DEF OverLimit, Refusals
<1>6. CASE LimiterFails(r) \/ NoConnection(r) \/ GiveUp(r)
  BY <1>2, <1>6 DEF LimiterFails, NoConnection, GiveUp
<1>7. CASE Forward(r)
  <2>1. MappedStatus(r) \in {"2xx"} \cup Refusals \cup Failures
    BY <1>7 DEF Forward, MappedStatus, Statuses, Refusals, Failures
  <2>. QED
    BY <1>1, <1>7, <2>1 DEF Forward
<1>8. CASE Respond(r)
  BY <1>8 DEF Respond
<1>. QED
  BY <1>3, <1>4, <1>5, <1>6, <1>7, <1>8 DEF RequestStep, GatewayStep

LEMMA InitContract == Init => Contract!Init
  BY DEF Init, Contract!Init, Verdict

(* One answer is given.                                                    *)
LEMMA AnswerTells ==
  ASSUME TypeInv, TypeInv', RequestInv', NEW r \in Requests,
         answer[r] = None, answer'[r] # None,
         \A p \in Requests \ {r} : answer'[p] = answer[p], UNCHANGED done
  PROVE  Contract!Next
<1>. DEFINE verdict == [p \in Requests |-> Verdict(p)]
<1>1. /\ verdict[r] = "open"
      /\ verdict' = [verdict EXCEPT ![r] = verdict'[r]]
  <2>1. \A p \in Requests \ {r} : Verdict(p)' = Verdict(p)
    BY NextVerdictIs
  <2>. QED
    BY <2>1, VerdictIs
<1>2. CASE answer'[r] = "2xx"
  <2>1. r \in done /\ verdict'[r] = "success"
    BY <1>2, NextVerdictIs DEF RequestInv, WorkInv
  <2>2. Contract!Succeed(r)
    BY <1>1, <2>1 DEF Contract!Succeed, Contract!Tell
  <2>. QED
    BY <2>2 DEF Contract!Next
<1>3. CASE answer'[r] \in Refusals
  <2>1. r \notin done
    BY <1>3 DEF RequestInv, WorkInv
  <2>2. verdict'[r] = "refused"
    BY <1>3, NextVerdictIs
  <2>3. Contract!Refuse(r)
    BY <1>1, <2>1, <2>2 DEF Contract!Refuse, Contract!Tell
  <2>. QED
    BY <2>3 DEF Contract!Next
<1>4. CASE answer'[r] \in Failures
  <2>1. verdict'[r] = "failed"
    BY <1>4, NextVerdictIs
  <2>2. \A p \in {r} : verdict[p] = "open"
    BY <1>1
  <2>3. verdict' = [p \in Requests |-> IF p \in {r} THEN "failed" ELSE verdict[p]]
    BY <1>1, <2>1
  <2>4. Contract!Fail({r})
    BY <2>2, <2>3 DEF Contract!Fail
  <2>. QED
    BY <2>4 DEF Contract!Next
<1>. QED
  BY <1>2, <1>3, <1>4 DEF TypeInv, TypeOK

LEMMA StepKeepsContract ==
  ASSUME TypeInv, TypeInv', RequestInv, RequestInv', [Next]_vars
  PROVE  [Contract!Next]_(Contract!contractVars)
<1>0. UNCHANGED <<answer, done>> => UNCHANGED Contract!contractVars
  BY DEF Contract!contractVars, Verdict
<1>1. ASSUME NEW r \in Requests, RequestStep(r)
      PROVE  [Contract!Next]_(Contract!contractVars)
  <2>1. CASE /\ upstream[r] = "working"
             /\ done' = done \cup {r}
             /\ UNCHANGED answer
    <3>1. r \notin done
      BY <2>1 DEF RequestInv, WorkInv
    <3>2. Verdict(r) \in {"open", "failed"}
      BY <2>1, <3>1, VerdictIs DEF RequestInv, WorkInv
    <3>3. [p \in Requests |-> Verdict(p)]' = [p \in Requests |-> Verdict(p)]
      BY <2>1 DEF Verdict
    <3>4. Contract!Work(r)
      BY <2>1, <3>1, <3>2, <3>3 DEF Contract!Work
    <3>. QED
      BY <3>4 DEF Contract!Next
  <2>. QED
    BY <1>0, <1>1, <2>1, RequestStepEffect, AnswerTells
<1>2. CASE Restart
  <2>. DEFINE cut == {r \in Requests : stage[r] \notin {"new", "answered"}}
              verdict == [r \in Requests |-> Verdict(r)]
  <2>1. answer' = [r \in Requests |-> IF r \in cut THEN "cut" ELSE answer[r]]
    BY <1>2 DEF Restart
  <2>2. \A r \in cut : verdict[r] = "open"
    BY DEF RequestInv, WorkInv, Verdict
  <2>3. \A r \in Requests : verdict'[r] = IF r \in cut THEN "failed" ELSE verdict[r]
    <3>1. \A r \in Requests : IF r \in cut THEN answer'[r] \in Failures ELSE answer'[r] = answer[r]
      BY <2>1 DEF Failures
    <3>. QED
      BY <3>1, NextVerdictIs
  <2>4. verdict' = [r \in Requests |-> IF r \in cut THEN "failed" ELSE verdict[r]]
    BY <2>3
  <2>5. Contract!Fail(cut)
    BY <1>2, <2>2, <2>4 DEF Restart, Contract!Fail, upstreamVars
  <2>. QED
    BY <2>5 DEF Contract!Next
<1>3. CASE (\E b \in Buckets : WindowEnds(b)) \/ UNCHANGED vars
  BY <1>0, <1>3 DEF WindowEnds, vars, upstreamVars, answerVars
<1>. QED
  BY <1>1, <1>2, <1>3, StepsOfNext

(* Whatever times out, breaks off or restarts: a success is work done, and *)
(* a refusal is work that is not done and will not be; it is done once.    *)
THEOREM KeepsTheContract == Spec => ContractKept
<1>1. TypeInv /\ TypeInv' /\ RequestInv /\ RequestInv' /\ [Next]_vars
        => [Contract!Next]_(Contract!contractVars)
  BY StepKeepsContract
<1>. QED
  BY <1>1, InitContract, AlwaysRequestInv, PTL DEF Spec, ContractKept, Contract!Spec

-----------------------------------------------------------------------------
(* The quota.                                                              *)

LEMMA AllowedType ==
  ASSUME NEW b \in Buckets
  PROVE  Allowed(b[1]) \in Nat
  BY DEF Buckets, Limiters, Allowed

(* The steps as the counter of a bucket sees them.                         *)
LEMMA CounterStep ==
  ASSUME TypeInv, [Next]_vars, NEW b \in Buckets
  PROVE  \/ UNCHANGED <<used[b], open[b], closed[b]>>
         \/ used'[b] = 0 /\ open'[b] = {} /\ closed'[b] = closed[b] \cup {open[b]}
         \/ \E r \in Requests :
              /\ used[b] < Allowed(b[1]) /\ used'[b] = used[b] + 1
              /\ open'[b] = open[b] \cup {r} /\ closed'[b] = closed[b]
<1>. USE DEF TypeInv, TypeOK, CountedInv, limiterVars
<1>1. ASSUME NEW r \in Requests, Count(r), BucketFor(r) = b
      PROVE  /\ used[b] < Allowed(b[1]) /\ used'[b] = used[b] + 1
             /\ open'[b] = open[b] \cup {r} /\ closed'[b] = closed[b]
  BY <1>1, BucketType DEF Count, AddTo
<1>2. ASSUME NEW r \in Requests, Count(r), BucketFor(r) # b
      PROVE  UNCHANGED <<used[b], open[b], closed[b]>>
  BY <1>2, BucketType DEF Count, AddTo
<1>3. ASSUME NEW r \in Requests, RequestStep(r), ~Count(r)
      PROVE  UNCHANGED <<used[b], open[b], closed[b]>>
  BY <1>3 DEF RequestStep, GatewayStep, Arrive, OverLimit, LimiterFails, Validate, Send,
     NoConnection, Forward, GiveUp, Respond
<1>4. CASE \E c \in Buckets : WindowEnds(c)
  BY <1>4 DEF WindowEnds
<1>5. CASE Restart \/ UNCHANGED vars
  BY <1>5 DEF Restart, vars
<1>. QED
  BY <1>1, <1>2, <1>3, <1>4, <1>5, StepsOfNext

(* No window has more requests than its limit allows.                      *)
WindowInv(b) ==
  /\ used[b] <= Allowed(b[1])
  /\ Cardinality(open[b]) <= used[b]
  /\ \A W \in closed[b] : Cardinality(W) <= Allowed(b[1])

LEMMA WindowFinite ==
  ASSUME NEW W \in SUBSET Requests
  PROVE  IsFiniteSet(W) /\ Cardinality(W) \in Nat
  BY FS_Subset, FS_CardinalityType

LEMMA NextWindow ==
  ASSUME TypeInv, [Next]_vars, NEW b \in Buckets, WindowInv(b)
  PROVE  WindowInv(b)'
<1>. DEFINE n == Cardinality(open[b])
<1>1. /\ open[b] \in SUBSET Requests /\ used[b] \in Nat /\ Allowed(b[1]) \in Nat
      /\ IsFiniteSet(open[b]) /\ n \in Nat
  BY AllowedType, WindowFinite DEF TypeInv, TypeOK
<1>2. CASE UNCHANGED <<used[b], open[b], closed[b]>>
  BY <1>2 DEF WindowInv, Allowed
<1>3. CASE used'[b] = 0 /\ open'[b] = {} /\ closed'[b] = closed[b] \cup {open[b]}
  <2>1. Cardinality(open[b]) <= Allowed(b[1])
    BY <1>1 DEF WindowInv
  <2>2. Cardinality({}) = 0
    BY FS_EmptySet
  <2>. QED
    BY <1>1, <1>3, <2>1, <2>2 DEF WindowInv, Allowed
<1>4. ASSUME NEW r \in Requests, used[b] < Allowed(b[1]), used'[b] = used[b] + 1,
             open'[b] = open[b] \cup {r}, closed'[b] = closed[b]
      PROVE  WindowInv(b)'
  <2>1. Cardinality(open[b] \cup {r}) = IF r \in open[b] THEN n ELSE n + 1
    BY <1>1, FS_AddElement
  <2>2. n <= used[b]
    BY DEF WindowInv
  <2>. HIDE DEF n
  <2>3. Cardinality(open[b] \cup {r}) <= used[b] + 1
    BY <1>1, <2>1, <2>2
  <2>. QED
    BY <1>1, <1>4, <2>3 DEF WindowInv, Allowed
<1>. QED
  BY <1>2, <1>3, <1>4, CounterStep

(* A request that goes on has been counted.                                *)
Passed(r, l) == \E W \in Windows(BucketOf(r, l)) : r \in W

PassedInv ==
  \A r \in Requests :
    /\ stage[r] = "counted" => Passed(r, "global")
    /\ stage[r] \in {"admitted", "waiting"} \/ upstream[r] # "idle" =>
         \A l \in LimitersOf(r) : Passed(r, l)

LEMMA BucketOfType ==
  ASSUME NEW r \in Requests, NEW l \in LimitersOf(r)
  PROVE  BucketOf(r, l) \in Buckets
  BY DEF BucketOf, Buckets, LimitersOf

LEMMA PassedStays ==
  ASSUME TypeInv, [Next]_vars, NEW r \in Requests, NEW l \in LimitersOf(r), Passed(r, l)
  PROVE  Passed(r, l)'
<1>. DEFINE b == BucketOf(r, l)
<1>1. b \in Buckets
  BY BucketOfType
<1>2. PICK W \in closed[b] \cup {open[b]} : r \in W
  BY DEF Passed, Windows
<1>. HIDE DEF b
<1>3. \E V \in closed'[b] \cup {open'[b]} : r \in V
  BY <1>1, <1>2, CounterStep
<1>. QED
  BY <1>3 DEF Passed, Windows, BucketOf, b

LEMMA CountPasses ==
  ASSUME TypeInv, NEW r \in Requests, Count(r), NEW l, l = LimiterFor(r)
  PROVE  Passed(r, l)'
<1>1. BucketFor(r) \in Buckets
  BY BucketType DEF Count, TypeInv, CountedInv
<1>2. r \in open'[BucketOf(r, l)]
  BY <1>1 DEF Count, AddTo, BucketFor, TypeInv, TypeOK
<1>. QED
  BY <1>2 DEF Passed, Windows, BucketOf

LEMMA NextPassed ==
  ASSUME TypeInv, TypeInv', RequestInv, PassedInv, [Next]_vars
  PROVE  PassedInv'
<1>. USE DEF TypeInv, TypeOK, CountedInv, upstreamVars, answerVars
<1>1. ASSUME NEW p \in Requests,
             stage'[p] = "counted" => stage[p] = "counted",
             stage'[p] \in {"admitted", "waiting"} \/ upstream'[p] # "idle" =>
               stage[p] \in {"admitted", "waiting"} \/ upstream[p] # "idle"
      PROVE  /\ stage'[p] = "counted" => Passed(p, "global")'
             /\ stage'[p] \in {"admitted", "waiting"} \/ upstream'[p] # "idle" =>
                  \A l \in LimitersOf(p) : Passed(p, l)'
  <2>1. "global" \in LimitersOf(p)
    BY DEF LimitersOf
  <2>. QED
    BY <1>1, <2>1, PassedStays DEF PassedInv
<1>2. ASSUME NEW r \in Requests, Count(r)
      PROVE  PassedInv'
  <2>1. /\ stage[r] \in {"arrived", "counted"} /\ upstream' = upstream
        /\ stage' = [stage EXCEPT ![r] = IF stage[r] = "arrived" /\ RouteOf[r] \in LimitedRoutes
                                         THEN "counted" ELSE "admitted"]
    BY <1>2 DEF Count, Counted, Continue
  <2>2. ASSUME NEW p \in Requests \ {r}
        PROVE  /\ stage'[p] = "counted" => Passed(p, "global")'
               /\ stage'[p] \in {"admitted", "waiting"} \/ upstream'[p] # "idle" =>
                    \A l \in LimitersOf(p) : Passed(p, l)'
    BY <1>1, <2>1
  <2>3. upstream'[r] = "idle"
    BY <2>1 DEF RequestInv, WorkInv, Early
  <2>4. \A l : l = LimiterFor(r) => Passed(r, l)'
    BY <1>2, CountPasses
  <2>5. CASE stage[r] = "arrived"
    <3>1. Passed(r, "global")'
      BY <2>4, <2>5 DEF LimiterFor
    <3>2. RouteOf[r] \notin LimitedRoutes => LimitersOf(r) = {"global"}
      BY DEF LimitersOf
    <3>3. stage'[r] = "counted" \/ (stage'[r] = "admitted" /\ RouteOf[r] \notin LimitedRoutes)
      BY <2>1, <2>5
    <3>. QED
      BY <2>2, <2>3, <3>1, <3>2, <3>3 DEF PassedInv
  <2>6. CASE stage[r] = "counted"
    <3>1. "global" \in LimitersOf(r) /\ LimitersOf(r) = {"global", RouteOf[r]}
      BY <2>6 DEF LimitersOf
    <3>2. Passed(r, "global")'
      BY <2>6, <3>1, PassedStays DEF PassedInv
    <3>3. Passed(r, RouteOf[r])'
      BY <2>4, <2>6 DEF LimiterFor
    <3>4. stage'[r] = "admitted"
      BY <2>1, <2>6
    <3>5. \A l \in LimitersOf(r) : Passed(r, l)'
      BY <3>1, <3>2, <3>3
    <3>. QED
      BY <2>2, <3>4, <3>5 DEF PassedInv
  <2>. QED
    BY <2>1, <2>5, <2>6
<1>3. ASSUME NEW r \in Requests, RequestStep(r), ~Count(r), NEW p \in Requests
      PROVE  /\ stage'[p] = "counted" => stage[p] = "counted"
             /\ stage'[p] \in {"admitted", "waiting"} \/ upstream'[p] # "idle" =>
                  stage[p] \in {"admitted", "waiting"} \/ upstream[p] # "idle"
  <2>1. CASE Arrive(r) \/ OverLimit(r) \/ LimiterFails(r)
    BY <2>1 DEF Arrive, OverLimit, LimiterFails, Answer, AnswerError, Continue
  <2>2. CASE Validate(r) \/ NoConnection(r)
    BY <2>2 DEF Validate, NoConnection, Answer, AnswerError, Continue
  <2>3. CASE Send(r)
    BY <2>3 DEF Send, Continue
  <2>4. CASE Forward(r) \/ GiveUp(r)
    BY <2>4 DEF Forward, GiveUp, Answer, AnswerError
  <2>5. CASE Respond(r)
    BY <2>5 DEF Respond
  <2>. QED
    BY <1>3, <2>1, <2>2, <2>3, <2>4, <2>5 DEF RequestStep, GatewayStep
<1>4. CASE (\E c \in Buckets : WindowEnds(c)) \/ Restart \/ UNCHANGED vars
  <2>1. \A p \in Requests : stage'[p] \in {stage[p], "answered"} /\ upstream'[p] = upstream[p]
    BY <1>4 DEF WindowEnds, Restart, vars
  <2>. QED
    BY <1>1, <2>1 DEF PassedInv
<1>. QED
  BY <1>1, <1>2, <1>3, <1>4, StepsOfNext DEF PassedInv

(* However requests wait between the limiters and for a connection, the    *)
(* services get only requests that were counted, and of those counted in   *)
(* one window no more than its limit.                                      *)
THEOREM QuotaAlwaysHolds == Spec => []QuotaHolds
<1>. DEFINE Inv == PassedInv /\ \A b \in Buckets : WindowInv(b)
<1>1. Init => Inv
  <2>1. Init => PassedInv
    BY DEF Init, PassedInv
  <2>2. ASSUME Init, NEW b \in Buckets
        PROVE  WindowInv(b)
    BY <2>2, AllowedType, FS_EmptySet DEF Init, WindowInv
  <2>. QED
    BY <2>1, <2>2
<1>2. TypeInv /\ TypeInv' /\ RequestInv /\ Inv /\ [Next]_vars => Inv'
  BY NextPassed, NextWindow
<1>3. TypeInv /\ Inv => QuotaHolds
  <2>1. PassedInv => \A r \in Requests : upstream[r] # "idle" =>
                       \A l \in LimitersOf(r) : \E W \in Windows(BucketOf(r, l)) : r \in W
    BY DEF PassedInv, Passed
  <2>2. ASSUME TypeInv, NEW b \in Buckets, WindowInv(b), NEW W \in Windows(b)
        PROVE  Cardinality({r \in W : upstream[r] # "idle"}) <= Allowed(b[1])
    <3>. DEFINE sent == {r \in W : upstream[r] # "idle"}
    <3>1. /\ W \in SUBSET Requests /\ sent \in SUBSET Requests /\ sent \subseteq W
          /\ open[b] \in SUBSET Requests /\ used[b] \in Nat
      BY <2>2 DEF Windows, TypeInv, TypeOK
    <3>2. IsFiniteSet(W) /\ Cardinality(W) \in Nat /\ Cardinality(sent) \in Nat
          /\ Cardinality(open[b]) \in Nat
      BY <3>1, WindowFinite
    <3>3. Cardinality(sent) <= Cardinality(W)
      BY <3>1, <3>2, FS_Subset
    <3>4. Cardinality(W) <= Allowed(b[1])
      BY <2>2, <3>1, <3>2, AllowedType DEF Windows, WindowInv
    <3>. HIDE DEF sent
    <3>5. Cardinality(sent) <= Allowed(b[1])
      BY <3>2, <3>3, <3>4, AllowedType
    <3>. QED
      BY <3>5 DEF sent
  <2>. QED
    BY <2>1, <2>2 DEF QuotaHolds
<1>. HIDE DEF Inv
<1>. QED
  BY <1>1, <1>2, <1>3, AlwaysRequestInv, PTL DEF Spec
=============================================================================
