----------------------- MODULE WebSocketBridgeProofs -----------------------
(***************************************************************************)
(* Proofs about WebSocketBridge, for any sockets, pages, tokens and        *)
(* results, and any numbers of publications and faults.                    *)
(***************************************************************************)
EXTENDS WebSocketBridge, TLAPS, SequenceTheorems

USE BridgeAssumption

-----------------------------------------------------------------------------
(* Sequences.                                                              *)

LEMMA SeqFacts ==
  ASSUME NEW S, NEW q \in Seq(S)
  PROVE  /\ DOMAIN q = 1 .. Len(q)
         /\ Len(q) \in Nat
         /\ \A i \in 1 .. Len(q) : q[i] \in S
         /\ Range(q) \subseteq S
<1>1. /\ DOMAIN q = 1 .. Len(q)
      /\ Len(q) \in Nat
      /\ \A i \in 1 .. Len(q) : q[i] \in S
  OBVIOUS
<1>. QED
  BY <1>1 DEF Range

LEMMA AppendFacts ==
  ASSUME NEW S, NEW q \in Seq(S), NEW x \in S
  PROVE  /\ Append(q, x) \in Seq(S)
         /\ Len(Append(q, x)) = Len(q) + 1
         /\ \A i \in 1 .. Len(q) : Append(q, x)[i] = q[i]
         /\ Append(q, x)[Len(q) + 1] = x
         /\ Range(Append(q, x)) = Range(q) \cup {x}
<1>1. /\ Append(q, x) \in Seq(S)
      /\ Len(Append(q, x)) = Len(q) + 1
      /\ \A i \in 1 .. Len(q) : Append(q, x)[i] = q[i]
      /\ Append(q, x)[Len(q) + 1] = x
  OBVIOUS
<1>2. Len(q) \in Nat /\ DOMAIN q = 1 .. Len(q) /\ DOMAIN Append(q, x) = 1 .. Len(q) + 1
  OBVIOUS
<1>3. Range(Append(q, x)) = Range(q) \cup {x}
  BY <1>1, <1>2 DEF Range
<1>. QED
  BY <1>1, <1>3

LEMMA TailFacts ==
  ASSUME NEW S, NEW q \in Seq(S), q # <<>>
  PROVE  /\ Head(q) \in S /\ Tail(q) \in Seq(S)
         /\ Head(q) = q[1]
         /\ Len(Tail(q)) = Len(q) - 1
         /\ \A i \in 1 .. Len(Tail(q)) : Tail(q)[i] = q[i + 1]
         /\ Range(q) = {Head(q)} \cup Range(Tail(q))
<1>1. /\ Head(q) \in S /\ Tail(q) \in Seq(S)
      /\ Head(q) = q[1]
      /\ Len(Tail(q)) = Len(q) - 1
      /\ Len(q) \in Nat \ {0}
      /\ \A i \in 1 .. Len(Tail(q)) : Tail(q)[i] = q[i + 1]
  OBVIOUS
<1>2. DOMAIN q = 1 .. Len(q) /\ DOMAIN Tail(q) = 1 .. Len(q) - 1
  OBVIOUS
<1>3. ASSUME NEW i \in 1 .. Len(q)
      PROVE  q[i] \in {Head(q)} \cup Range(Tail(q))
  <2>1. CASE i = 1
    BY <1>1, <2>1
  <2>2. CASE i # 1
    <3>1. i - 1 \in 1 .. Len(q) - 1 /\ (i - 1) + 1 = i
      BY <1>1, <2>2
    <3>2. Tail(q)[i - 1] = q[i]
      BY <1>1, <3>1
    <3>. QED
      BY <1>2, <3>1, <3>2 DEF Range
  <2>. QED
    BY <2>1, <2>2
<1>4. Range(q) \subseteq {Head(q)} \cup Range(Tail(q))
  BY <1>2, <1>3 DEF Range
<1>5. {Head(q)} \cup Range(Tail(q)) \subseteq Range(q)
  BY <1>1, <1>2 DEF Range
<1>. QED
  BY <1>1, <1>4, <1>5

LEMMA EmptyFacts == Range(<<>>) = {} /\ <<>> \in Seq(Nat) /\ Len(<<>>) = 0
  BY DEF Range

LEMMA IncreasingAppend ==
  ASSUME NEW q \in Seq(Nat), NEW x \in Nat, Increasing(q), \A i \in Range(q) : i < x
  PROVE  Increasing(Append(q, x))
<1>. DEFINE a == Append(q, x)
            n == Len(q)
<1>1. /\ DOMAIN q = 1 .. n /\ n \in Nat /\ a \in Seq(Nat) /\ Len(a) = n + 1
      /\ \A i \in 1 .. n : a[i] = q[i] /\ q[i] \in Range(q)
      /\ a[n + 1] = x
  BY SeqFacts, AppendFacts DEF Range
<1>2. DOMAIN a = 1 .. n + 1
  BY <1>1, SeqFacts
<1>. HIDE DEF a, n
<1>3. ASSUME NEW i \in 1 .. n + 1, NEW j \in 1 .. n + 1, i < j
      PROVE  a[i] < a[j]
  <2>1. CASE j = n + 1
    <3>1. i \in 1 .. n
      BY <1>1, <1>3, <2>1
    <3>. QED
      BY <1>1, <2>1, <3>1
  <2>2. CASE j # n + 1
    <3>1. i \in 1 .. n /\ j \in 1 .. n
      BY <1>1, <1>3, <2>2
    <3>. QED
      BY <1>1, <1>3, <3>1 DEF Increasing
  <2>. QED
    BY <2>1, <2>2
<1>4. Increasing(a)
  BY <1>2, <1>3 DEF Increasing
<1>. QED
  BY <1>4 DEF a

LEMMA IncreasingTail ==
  ASSUME NEW q \in Seq(Nat), q # <<>>, Increasing(q)
  PROVE  /\ Increasing(Tail(q))
         /\ \A j \in Range(Tail(q)) : Head(q) < j
<1>. DEFINE t == Tail(q)
            n == Len(q)
<1>1. /\ DOMAIN q = 1 .. n /\ n \in Nat /\ t \in Seq(Nat) /\ Len(t) = n - 1 /\ Head(q) = q[1]
      /\ \A i \in 1 .. n - 1 : t[i] = q[i + 1]
  BY SeqFacts, TailFacts
<1>2. DOMAIN t = 1 .. n - 1
  BY <1>1, SeqFacts
<1>3. \A i \in 1 .. n - 1 : i + 1 \in 1 .. n /\ 1 \in 1 .. n /\ 1 < i + 1
  BY <1>1
<1>. HIDE DEF t, n
<1>4. Increasing(t)
  <2>. SUFFICES ASSUME NEW i \in 1 .. n - 1, NEW j \in 1 .. n - 1, i < j
                PROVE  t[i] < t[j]
    BY <1>2 DEF Increasing
  <2>1. i + 1 < j + 1
    BY <1>1
  <2>2. q[i + 1] < q[j + 1]
    BY <1>1, <1>3, <2>1 DEF Increasing
  <2>. QED
    BY <1>1, <2>2
<1>5. ASSUME NEW i \in 1 .. n - 1
      PROVE  Head(q) < t[i]
  <2>1. q[1] < q[i + 1]
    BY <1>1, <1>3 DEF Increasing
  <2>. QED
    BY <1>1, <2>1
<1>6. \A j \in Range(t) : Head(q) < j
  BY <1>2, <1>5 DEF Range
<1>. QED
  BY <1>4, <1>6 DEF t

LEMMA IncreasingConcat ==
  ASSUME NEW p \in Seq(Nat), NEW q \in Seq(Nat), Increasing(p), Increasing(q),
         \A i \in Range(p), j \in Range(q) : i < j
  PROVE  Increasing(p \o q)
<1>. DEFINE both == p \o q
            n == Len(p)
            k == Len(q)
<1>1. /\ DOMAIN p = 1 .. n /\ DOMAIN q = 1 .. k /\ n \in Nat /\ k \in Nat
      /\ \A i \in 1 .. n : p[i] \in Range(p)
      /\ \A i \in 1 .. k : q[i] \in Range(q)
  BY SeqFacts DEF Range
<1>2. /\ DOMAIN both = 1 .. n + k
      /\ \A i \in 1 .. n + k : both[i] = IF i <= n THEN p[i] ELSE q[i - n]
  OBVIOUS
<1>. HIDE DEF both, n, k
<1>3. ASSUME NEW i \in 1 .. n + k, NEW j \in 1 .. n + k, i < j
      PROVE  both[i] < both[j]
  <2>1. CASE j <= n
    <3>1. i \in 1 .. n /\ j \in 1 .. n
      BY <1>1, <1>3, <2>1
    <3>2. both[i] = p[i] /\ both[j] = p[j]
      BY <1>1, <1>2, <3>1
    <3>. QED
      BY <1>1, <1>3, <3>1, <3>2 DEF Increasing
  <2>2. CASE i > n
    <3>1. i - n \in 1 .. k /\ j - n \in 1 .. k /\ i - n < j - n
      BY <1>1, <1>3, <2>2
    <3>2. both[i] = q[i - n] /\ both[j] = q[j - n]
      BY <1>1, <1>2, <1>3, <2>2
    <3>. QED
      BY <1>1, <3>1, <3>2 DEF Increasing
  <2>3. CASE i <= n /\ j > n
    <3>1. i \in 1 .. n /\ j - n \in 1 .. k
      BY <1>1, <1>3, <2>3
    <3>2. both[i] = p[i] /\ both[j] = q[j - n]
      BY <1>1, <1>2, <1>3, <2>3
    <3>. QED
      BY <1>1, <3>1, <3>2
  <2>. QED
    BY <1>1, <2>1, <2>2, <2>3
<1>4. Increasing(both)
  BY <1>2, <1>3 DEF Increasing
<1>. QED
  BY <1>4 DEF both

-----------------------------------------------------------------------------
(* Types.                                                                  *)

LEMMA InitType == Init => TypeOK
  BY DEF Init, TypeOK

LEMMA NextType ==
  ASSUME TypeOK, [Next]_vars
  PROVE  TypeOK'
<1>. USE DEF TypeOK
<1>1. ASSUME NEW m \in Results, Publish(m)
      PROVE  TypeOK'
  <2>1. log' \in Seq(Results) /\ Len(log) + 1 \in Nat
    BY <1>1 DEF Publish
  <2>2. pending' \in [Sockets -> Seq(Nat)]
    BY <1>1, <2>1, AppendFacts DEF Publish
  <2>. QED
    BY <1>1, <2>1, <2>2 DEF Publish
<1>2. ASSUME NEW s \in Sockets, NEW t \in Tokens, Connect(s, t) \/ ConnectRefused(s, t)
      PROVE  TypeOK'
  <2>1. Identity(t) \in Users \cup {None}
    BY DEF Identity
  <2>. QED
    <3>1. CloseOthers(s) \in [Sockets -> {"none", "open", "leaving", "gone"}]
      BY DEF CloseOthers
    <3>. QED
      <4>1. wire' \in [Sockets -> {"none", "open", "leaving", "gone"}]
        BY <1>2, <3>1 DEF Connect, ConnectRefused
      <4>2. phase' \in [Sockets -> {"idle", "accepted", "subscribed", "reconnecting", "ended"}]
        BY <1>2 DEF Connect, ConnectRefused
      <4>3. user' \in [Sockets -> Users \cup {None}]
        BY <1>2, <2>1 DEF Connect, ConnectRefused
      <4>4. UNCHANGED <<log, pending, received, since, dropped, breaks>>
        BY <1>2 DEF Connect, ConnectRefused
      <4>. QED
        BY <4>1, <4>2, <4>3, <4>4
<1>3. ASSUME NEW s \in Sockets, Forward(s)
      PROVE  TypeOK'
  <2>1. Head(pending[s]) \in Nat /\ Tail(pending[s]) \in Seq(Nat)
    BY <1>3, TailFacts DEF Forward
  <2>2. Append(received[s], Head(pending[s])) \in Seq(Nat)
    BY <2>1, AppendFacts
  <2>. QED
    BY <1>3, <2>1, <2>2 DEF Forward
<1>4. ASSUME NEW s \in Sockets, Subscribe(s) \/ Resubscribe(s) \/ Leave(s) \/ CloseArrives(s)
      PROVE  TypeOK'
  <2>1. CASE Subscribe(s)
    <3>1. Len(log) \in Nat
      OBVIOUS
    <3>. QED
      BY <2>1, <3>1 DEF Subscribe
  <2>. QED
    BY <1>4, <2>1 DEF Resubscribe, Leave, CloseArrives
<1>5. ASSUME NEW s \in Sockets, SendFails(s) \/ ListenFails(s)
      PROVE  TypeOK'
  <2>1. /\ End(s)
        /\ breaks' \in Nat
        /\ UNCHANGED <<user, log, received, since, dropped>>
    BY <1>5 DEF SendFails, ListenFails, Break
  <2>. QED
    BY <2>1, EmptyFacts DEF End
<1>6. ASSUME NEW s \in Sockets, LoseRedis(s)
      PROVE  TypeOK'
  <2>1. Range(pending[s]) \in SUBSET Nat
    BY SeqFacts
  <2>. QED
    BY <1>6, <2>1, EmptyFacts DEF LoseRedis, Break
<1>7. CASE GatewayRestart
  BY <1>7, EmptyFacts DEF GatewayRestart, Break
<1>8. CASE UNCHANGED vars
  BY <1>8 DEF vars
<1>. QED
  BY <1>1, <1>2, <1>3, <1>4, <1>5, <1>6, <1>7, <1>8 DEF Next, SocketStep, HandlerStep

(* Every variable of the bridge keeps its type.                            *)
THEOREM BridgeTypeCorrect == Spec => []TypeOK
  BY InitType, NextType, PTL DEF Spec

-----------------------------------------------------------------------------
(* The invariant of a socket.                                              *)

(* Only a subscription has messages waiting, and nothing happened on a     *)
(* socket before it.                                                       *)
PlaceInv(s) ==
  /\ phase[s] # "subscribed" => pending[s] = <<>>
  /\ phase[s] \in {"idle", "accepted"} => received[s] = <<>> /\ dropped[s] = {}
  /\ wire[s] = "open" => phase[s] \in {"accepted", "subscribed", "reconnecting"}
  /\ phase[s] = "reconnecting" \/ dropped[s] # {} => breaks > 0
  /\ since[s] <= Len(log)

(* What is on its way or has arrived is the user's, and since SUBSCRIBE.   *)
OwnInv(s) == Range(received[s]) \cup Range(pending[s]) \subseteq Owed(s)

OrderInv(s) ==
  /\ Increasing(received[s])
  /\ Increasing(pending[s])
  /\ \A i \in Range(received[s]), j \in Range(pending[s]) : i < j

MissInv(s) ==
  phase[s] \in {"subscribed", "reconnecting"} /\ wire[s] = "open" =>
    Owed(s) = Range(received[s]) \cup Range(pending[s]) \cup dropped[s]

SocketInv(s) == PlaceInv(s) /\ OwnInv(s) /\ OrderInv(s) /\ MissInv(s)

BridgeInv == \A s \in Sockets : SocketInv(s)

LEMMA InitSocketInv == Init => BridgeInv
  BY EmptyFacts DEF Init, BridgeInv, SocketInv, PlaceInv, OwnInv, OrderInv, MissInv, Increasing

(* A step that leaves the messages of a socket alone.                      *)
LEMMA QuietStep ==
  ASSUME TypeOK, NEW s \in Sockets, SocketInv(s),
         UNCHANGED <<log, received[s], pending[s], since[s], dropped[s]>>,
         user'[s] = user[s] \/ (received[s] = <<>> /\ pending[s] = <<>>)
  PROVE  OwnInv(s)' /\ OrderInv(s)'
<1>1. Range(<<>>) = {}
  BY EmptyFacts
<1>. QED
  BY <1>1 DEF SocketInv, OwnInv, OrderInv, Owed

LEMMA PublishInv ==
  ASSUME TypeOK, NEW m \in Results, Publish(m), NEW s \in Sockets, SocketInv(s)
  PROVE  SocketInv(s)'
<1>. DEFINE n == Len(log) + 1
<1>0. \A q \in Seq(Nat), x \in Nat : Range(Append(q, x)) = Range(q) \cup {x}
  BY AppendFacts
<1>. USE DEF TypeOK, SocketInv
<1>1. /\ Len(log') = n /\ n \in Nat /\ Len(log) \in Nat /\ log'[n] = m
      /\ \A i \in 1 .. Len(log) : log'[i] = log[i]
  BY AppendFacts DEF Publish
<1>2. Owed(s)' = IF Hears(s, m) /\ since[s] <= Len(log) THEN Owed(s) \cup {n} ELSE Owed(s)
  <2>1. since'[s] = since[s] /\ user' = user /\ since[s] \in Nat
    BY DEF Publish
  <2>2. Owed(s)' = {i \in since[s] + 1 .. n : OwnerOf[log'[i]] = user[s]}
    BY <1>1, <2>1 DEF Owed
  <2>3. \A i : i \in since[s] + 1 .. n <=> i \in since[s] + 1 .. Len(log) \/ (i = n /\ since[s] <= Len(log))
    BY <1>1, <2>1
  <2>4. \A i \in since[s] + 1 .. Len(log) : log'[i] = log[i]
    BY <1>1, <2>1
  <2>. QED
    BY <1>1, <2>2, <2>3, <2>4 DEF Owed, Hears
<1>3. \A i \in Owed(s) : i < n
  BY <1>1 DEF Owed
<1>4. PlaceInv(s)'
  BY <1>1 DEF Publish, PlaceInv
<1>5. CASE phase[s] = "subscribed" /\ Hears(s, m)
  <2>1. /\ pending'[s] = Append(pending[s], n)
        /\ UNCHANGED <<received, phase, wire>> /\ dropped'[s] = dropped[s]
    BY <1>5 DEF Publish
  <2>2. pending[s] \in Seq(Nat) /\ n \in Nat
    BY <1>1
  <2>3. Range(pending'[s]) = Range(pending[s]) \cup {n}
    BY <1>0, <2>1, <2>2
  <2>4. Owed(s)' = Owed(s) \cup {n}
    BY <1>2, <1>5 DEF PlaceInv
  <2>5. OwnInv(s)' /\ MissInv(s)'
    BY <2>1, <2>3, <2>4 DEF OwnInv, MissInv
  <2>6. \A i \in Range(received[s]) \cup Range(pending[s]) : i < n
    BY <1>3 DEF OwnInv
  <2>7. Increasing(pending'[s])
    BY <2>1, <2>2, <2>6, IncreasingAppend DEF OrderInv
  <2>8. OrderInv(s)'
    BY <2>1, <2>3, <2>6, <2>7 DEF OrderInv, Increasing
  <2>. QED
    BY <1>4, <2>5, <2>8
<1>6. CASE ~(phase[s] = "subscribed" /\ Hears(s, m))
  <2>1. /\ pending'[s] = pending[s] /\ UNCHANGED <<received, phase, wire, user, since>>
        /\ dropped'[s] = IF phase[s] = "reconnecting" /\ Hears(s, m) THEN dropped[s] \cup {n}
                         ELSE dropped[s]
    BY <1>6 DEF Publish
  <2>2. OwnInv(s)'
    BY <1>2, <2>1 DEF OwnInv
  <2>3. OrderInv(s)'
    BY <2>1 DEF OrderInv, Increasing
  <2>4. MissInv(s)'
    <3>1. CASE phase[s] = "reconnecting" /\ Hears(s, m)
      BY <1>2, <2>1, <3>1 DEF MissInv, PlaceInv
    <3>2. CASE ~Hears(s, m)
      BY <1>2, <2>1, <3>2 DEF MissInv
    <3>3. CASE phase[s] \notin {"subscribed", "reconnecting"}
      BY <2>1, <3>3 DEF MissInv
    <3>. QED
      BY <1>6, <3>1, <3>2, <3>3
  <2>. QED
    BY <1>4, <2>2, <2>3, <2>4
<1>. QED
  BY <1>5, <1>6

LEMMA ForwardInv ==
  ASSUME TypeOK, NEW x \in Sockets, Forward(x), NEW s \in Sockets, SocketInv(s)
  PROVE  SocketInv(s)'
<1>. USE DEF TypeOK, SocketInv
<1>1. UNCHANGED <<phase, wire, user, log, since, dropped, breaks>>
  BY DEF Forward
<1>2. Owed(s)' = Owed(s)
  BY <1>1 DEF Owed
<1>3. CASE s # x
  BY <1>1, <1>2, <1>3 DEF Forward, PlaceInv, OwnInv, OrderInv, MissInv, Increasing
<1>4. CASE s = x
  <2>1. /\ pending'[s] = Tail(pending[s])
        /\ received'[s] = IF wire[s] = "open" THEN Append(received[s], Head(pending[s]))
                          ELSE received[s]
        /\ phase[s] = "subscribed"
    BY <1>4 DEF Forward
  <2>2. pending[s] # <<>> /\ pending[s] \in Seq(Nat) /\ received[s] \in Seq(Nat)
    BY <1>4 DEF Forward
  <2>3. /\ Head(pending[s]) \in Nat
        /\ Range(pending[s]) = {Head(pending[s])} \cup Range(pending'[s])
    BY <2>1, <2>2, TailFacts
  <2>4. /\ Increasing(pending'[s])
        /\ \A j \in Range(pending'[s]) : Head(pending[s]) < j
    BY <2>1, <2>2, IncreasingTail DEF OrderInv
  <2>7. PlaceInv(s)'
    BY <1>1, <2>1 DEF PlaceInv
  <2>8. CASE wire[s] = "open"
    <3>1. /\ received'[s] = Append(received[s], Head(pending[s]))
          /\ Range(received'[s]) = Range(received[s]) \cup {Head(pending[s])}
      BY <2>1, <2>2, <2>3, <2>8, AppendFacts
    <3>2. OwnInv(s)' /\ MissInv(s)'
      BY <1>1, <1>2, <2>3, <3>1 DEF OwnInv, MissInv
    <3>3. \A i \in Range(received[s]) : i < Head(pending[s])
      BY <2>3 DEF OrderInv
    <3>4. Increasing(received'[s])
      BY <2>2, <2>3, <3>1, <3>3, IncreasingAppend DEF OrderInv
    <3>5. \A i \in Range(received'[s]), j \in Range(pending'[s]) : i < j
      BY <2>3, <2>4, <3>1 DEF OrderInv
    <3>6. OrderInv(s)'
      BY <2>4, <3>4, <3>5 DEF OrderInv, Increasing
    <3>. QED
      BY <2>7, <3>2, <3>6
  <2>9. CASE wire[s] # "open"
    <3>1. OwnInv(s)' /\ MissInv(s)'
      BY <1>1, <1>2, <2>1, <2>3, <2>9 DEF OwnInv, MissInv
    <3>2. OrderInv(s)'
      BY <2>1, <2>3, <2>4, <2>9 DEF OrderInv, Increasing
    <3>. QED
      BY <2>7, <3>1, <3>2
  <2>. QED
    BY <2>8, <2>9
<1>. QED
  BY <1>3, <1>4

(* The steps that let go of what is waiting.                               *)
LEMMA ReleaseInv ==
  ASSUME TypeOK, NEW s \in Sockets, SocketInv(s),
         UNCHANGED <<user, log, received, since>>,
         pending'[s] = <<>>, phase'[s] # "accepted", phase'[s] # "idle"
  PROVE  OwnInv(s)' /\ OrderInv(s)'
<1>1. Owed(s)' = Owed(s) /\ Range(pending'[s]) = {} /\ Range(received'[s]) = Range(received[s])
  BY EmptyFacts DEF Owed
<1>2. Increasing(pending'[s])
  BY DEF Increasing
<1>. QED
  BY <1>1, <1>2 DEF SocketInv, OwnInv, OrderInv, Increasing

LEMMA NextSocketInv ==
  ASSUME TypeOK, BridgeInv, [Next]_vars, NEW s \in Sockets
  PROVE  SocketInv(s)'
<1>0. SocketInv(s)
  BY DEF BridgeInv
<1>. USE DEF TypeOK
<1>1. ASSUME NEW x \in Sockets, NEW t \in Tokens, Connect(x, t) \/ ConnectRefused(x, t)
      PROVE  SocketInv(s)'
  <2>1. OwnInv(s)' /\ OrderInv(s)'
    BY <1>0, <1>1, QuietStep DEF Connect, ConnectRefused, SocketInv, PlaceInv
  <2>2. PlaceInv(s)'
    BY <1>0, <1>1 DEF Connect, ConnectRefused, CloseOthers, SocketInv, PlaceInv
  <2>3. MissInv(s)'
    <3>1. CASE s = x
      BY <1>1, <3>1 DEF Connect, ConnectRefused, MissInv
    <3>2. CASE s # x
      <4>1. /\ phase'[s] = phase[s] /\ user'[s] = user[s]
            /\ wire'[s] = "open" => wire[s] = "open"
            /\ UNCHANGED <<log, pending, received, since, dropped>>
        BY <1>1, <3>2 DEF Connect, ConnectRefused, CloseOthers
      <4>. QED
        BY <1>0, <4>1 DEF SocketInv, MissInv, Owed
    <3>. QED
      BY <3>1, <3>2
  <2>. QED
    BY <2>1, <2>2, <2>3 DEF SocketInv
<1>2. ASSUME NEW x \in Sockets, Subscribe(x)
      PROVE  SocketInv(s)'
  <2>1. CASE s # x
    BY <1>0, <1>2, <2>1 DEF Subscribe, SocketInv, PlaceInv, OwnInv, OrderInv, MissInv, Owed, Increasing
  <2>2. CASE s = x
    <3>1. /\ received'[s] = <<>> /\ pending'[s] = <<>> /\ dropped'[s] = {}
          /\ since'[s] = Len(log) /\ Len(log) \in Nat /\ log' = log
      BY <1>0, <1>2, <2>2 DEF Subscribe, SocketInv, PlaceInv
    <3>2. Owed(s)' = {}
      BY <3>1 DEF Owed
    <3>3. OwnInv(s)' /\ OrderInv(s)' /\ MissInv(s)'
      BY <3>1, <3>2, EmptyFacts DEF OwnInv, OrderInv, MissInv, Increasing
    <3>4. PlaceInv(s)'
      BY <1>0, <1>2, <2>2, <3>1 DEF Subscribe, SocketInv, PlaceInv
    <3>. QED
      BY <3>3, <3>4 DEF SocketInv
  <2>. QED
    BY <2>1, <2>2
<1>3. ASSUME NEW x \in Sockets, Resubscribe(x) \/ Leave(x) \/ CloseArrives(x)
      PROVE  SocketInv(s)'
  <2>1. OwnInv(s)' /\ OrderInv(s)'
    BY <1>0, <1>3, QuietStep DEF Resubscribe, Leave, CloseArrives
  <2>2. PlaceInv(s)'
    BY <1>0, <1>3 DEF Resubscribe, Leave, CloseArrives, SocketInv, PlaceInv
  <2>3. MissInv(s)'
    BY <1>0, <1>3 DEF Resubscribe, Leave, CloseArrives, SocketInv, MissInv, Owed
  <2>. QED
    BY <2>1, <2>2, <2>3 DEF SocketInv
<1>4. ASSUME NEW x \in Sockets, SendFails(x) \/ ListenFails(x)
      PROVE  SocketInv(s)'
  <2>1. CASE s # x
    <3>1. OwnInv(s)' /\ OrderInv(s)'
      BY <1>0, <1>4, <2>1, QuietStep DEF SendFails, ListenFails, End
    <3>2. PlaceInv(s)'
      BY <1>0, <1>4, <2>1 DEF SendFails, ListenFails, End, Break, SocketInv, PlaceInv
    <3>3. MissInv(s)'
      BY <1>0, <1>4, <2>1 DEF SendFails, ListenFails, End, SocketInv, MissInv, Owed
    <3>. QED
      BY <3>1, <3>2, <3>3 DEF SocketInv
  <2>2. CASE s = x
    <3>1. OwnInv(s)' /\ OrderInv(s)'
      BY <1>0, <1>4, <2>2, ReleaseInv DEF SendFails, ListenFails, End
    <3>. QED
      BY <1>0, <1>4, <2>2, <3>1 DEF SendFails, ListenFails, End, Break, SocketInv, PlaceInv, MissInv
  <2>. QED
    BY <2>1, <2>2
<1>5. ASSUME NEW x \in Sockets, LoseRedis(x)
      PROVE  SocketInv(s)'
  <2>1. CASE s # x
    <3>1. OwnInv(s)' /\ OrderInv(s)'
      BY <1>0, <1>5, <2>1, QuietStep DEF LoseRedis
    <3>. QED
      BY <1>0, <1>5, <2>1, <3>1 DEF LoseRedis, Break, SocketInv, PlaceInv, MissInv, Owed
  <2>2. CASE s = x
    <3>1. OwnInv(s)' /\ OrderInv(s)'
      BY <1>0, <1>5, <2>2, ReleaseInv DEF LoseRedis
    <3>2. MissInv(s)'
      BY <1>0, <1>5, <2>2, EmptyFacts DEF LoseRedis, SocketInv, MissInv, Owed
    <3>3. PlaceInv(s)'
      BY <1>0, <1>5, <2>2 DEF LoseRedis, Break, SocketInv, PlaceInv
    <3>. QED
      BY <3>1, <3>2, <3>3 DEF SocketInv
  <2>. QED
    BY <2>1, <2>2
<1>6. CASE GatewayRestart
  <2>1. CASE phase[s] = "idle"
    <3>1. OwnInv(s)' /\ OrderInv(s)'
      BY <1>0, <1>6, <2>1, QuietStep DEF GatewayRestart, SocketInv, PlaceInv
    <3>. QED
      BY <1>0, <1>6, <2>1, <3>1 DEF GatewayRestart, Break, SocketInv, PlaceInv, MissInv
  <2>2. CASE phase[s] # "idle"
    <3>1. OwnInv(s)' /\ OrderInv(s)'
      BY <1>0, <1>6, <2>2, ReleaseInv DEF GatewayRestart
    <3>. QED
      BY <1>0, <1>6, <2>2, <3>1 DEF GatewayRestart, Break, SocketInv, PlaceInv, MissInv
  <2>. QED
    BY <2>1, <2>2
<1>7. CASE UNCHANGED vars
  BY <1>0, <1>7 DEF vars, SocketInv, PlaceInv, OwnInv, OrderInv, MissInv, Owed, Increasing
<1>. QED
  BY <1>0, <1>1, <1>2, <1>3, <1>4, <1>5, <1>6, <1>7, PublishInv, ForwardInv
  DEF Next, SocketStep, HandlerStep

LEMMA AlwaysBridgeInv == Spec => [](TypeOK /\ BridgeInv)
<1>1. TypeOK /\ BridgeInv /\ [Next]_vars => BridgeInv'
  BY NextSocketInv DEF BridgeInv
<1>. QED
  BY <1>1, InitType, NextType, InitSocketInv, PTL DEF Spec

-----------------------------------------------------------------------------
(* A socket carries only results of the user whose token opened it.        *)
THEOREM SocketsCarryOwnResults == Spec => []OnlyOwnResults
<1>1. TypeOK /\ BridgeInv => OnlyOwnResults
  <2>. SUFFICES ASSUME TypeOK, BridgeInv, NEW s \in Sockets,
                       NEW i \in Range(received[s]) \cup Range(pending[s])
                PROVE  i \in 1 .. Len(log) /\ OwnerOf[log[i]] = user[s]
    BY DEF OnlyOwnResults
  <2>1. i \in Owed(s)
    BY DEF BridgeInv, SocketInv, OwnInv
  <2>2. since[s] \in Nat /\ Len(log) \in Nat
    BY DEF TypeOK
  <2>. QED
    BY <2>1, <2>2 DEF Owed
<1>. QED
  BY <1>1, AlwaysBridgeInv, PTL

(* A browser gets the results in the order of their publication, each of   *)
(* them at most once.                                                      *)
THEOREM OrderIsKept == Spec => []OrderKept
<1>1. TypeOK /\ BridgeInv => OrderKept
  <2>. SUFFICES ASSUME TypeOK, BridgeInv, NEW s \in Sockets
                PROVE  Increasing(received[s] \o pending[s])
    BY DEF OrderKept
  <2>1. received[s] \in Seq(Nat) /\ pending[s] \in Seq(Nat)
    BY DEF TypeOK
  <2>2. OrderInv(s)
    BY DEF BridgeInv, SocketInv
  <2>. QED
    BY <2>1, <2>2, IncreasingConcat DEF OrderInv
<1>. QED
  BY <1>1, AlwaysBridgeInv, PTL

(* From its SUBSCRIBE on, an open socket misses nothing but what went down *)
(* with a connection to Redis.                                             *)
THEOREM NothingIsMissed == Spec => []NothingMissed
<1>1. BridgeInv => NothingMissed
  BY DEF BridgeInv, SocketInv, PlaceInv, MissInv, NothingMissed
<1>. QED
  BY <1>1, AlwaysBridgeInv, PTL
=============================================================================
