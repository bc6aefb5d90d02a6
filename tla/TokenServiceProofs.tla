------------------------- MODULE TokenServiceProofs -------------------------
(***************************************************************************)
(* Proofs about TokenService, for any numbers of handlers, users and       *)
(* tokens.                                                                 *)
(***************************************************************************)
EXTENDS TokenService, TLAPS, FiniteSetTheorems

USE TokenAssumption

HandlerAction(h) ==
  \/ \E e \in Emails : RegisterCheck(h, e)
  \/ \E u \in Users : Authenticate(h, u)
  \/ \E t \in Tokens : Refresh(h, t) \/ Logout(h, t)
  \/ Step(h) \/ BreakOff(h)

-----------------------------------------------------------------------------
(* Types, and the rows that variables refer to.                            *)

(* A lineage has the row of its root; a row that is not there has neither  *)
(* been revoked nor sent nor linked.                                       *)
RootInv ==
  \A t \in Tokens :
    IF owner[t] = None
    THEN root[t] = None /\ t \notin revoked \cup issued \cup loggedOut /\ replacedBy[t] = None
    ELSE root[t] \in Tokens /\ owner[root[t]] # None

(* A link leads to another row of the lineage.                             *)
LinkInv ==
  \A t \in Tokens : replacedBy[t] # None =>
    /\ t \in revoked /\ owner[replacedBy[t]] = owner[t] /\ root[replacedBy[t]] = root[t]
    /\ replacedBy[t] # root[t]

(* What a handler refers to exists, and a walk stays in its lineage.       *)
HandlerInv(h) ==
  /\ pc[h] \in Presented \cup {"replying"} => owner[arg[h]] # None
  /\ cursor[h] # None =>
       pc[h] = "walking" /\ owner[cursor[h]] # None /\ root[cursor[h]] = root[arg[h]]
  /\ \A t \in marked[h] :
       pc[h] = "walking" /\ owner[t] # None /\ root[t] = root[arg[h]]

RowInv == RootInv /\ LinkInv /\ \A h \in Handlers : HandlerInv(h)

LEMMA NoneIsFresh == None \notin Emails /\ None \notin Users /\ None \notin Tokens
  OBVIOUS

LEMMA InitTypeOK == Init => TypeOK /\ RowInv
  BY DEF Init, TypeOK, RowsType, LocalsType, OrNone, Places, Presented,
         RowInv, RootInv, LinkInv, HandlerInv

(* The two ways in which a handler moves on.                               *)
LEMMA GotoType ==
  ASSUME LocalsType, NEW h \in Handlers, NEW place \in Places \ {"idle"}, NEW a,
         Goto(h, place, a),
         place = "hashing" => a \in Emails,
         place = "authenticated" => a \in Users,
         place \in Presented \cup {"replying"} => a \in Tokens
  PROVE  LocalsType'
<1>1. a \in Emails \cup Users \cup Tokens
  BY DEF Places, Presented
<1>. QED
  BY <1>1 DEF LocalsType, Goto, OrNone, Places

LEMMA FinishType ==
  ASSUME LocalsType, NEW h \in Handlers, Finish(h)
  PROVE  LocalsType'
  BY DEF LocalsType, Finish, OrNone, Places, Presented

LEMMA HandlerType ==
  ASSUME TypeOK, RowInv, NEW h \in Handlers, HandlerAction(h)
  PROVE  TypeOK'
<1>. USE DEF TypeOK
<1>1. CASE \E e \in Emails : RegisterCheck(h, e)
  BY <1>1, GotoType DEF RegisterCheck, RowsType, Places, Presented, users, rows, clock, history
<1>2. CASE \E u \in Users : Authenticate(h, u)
  BY <1>2, GotoType DEF Authenticate, RowsType, Places, Presented, users, rows, clock, history
<1>3. CASE \E t \in Tokens : Refresh(h, t)
  <2>1. PICK t \in Tokens : Refresh(h, t)
    BY <1>3
  <2>2. LocalsType'
    BY <2>1, GotoType DEF Refresh, Places, Presented
  <2>3. root[t] \in Tokens
    BY <2>1 DEF Refresh, Presents, RowInv, RootInv
  <2>4. overlapped' \in SUBSET Tokens
    BY <2>1, <2>3 DEF Refresh, Presents, NoteOverlap
  <2>. QED
    BY <2>1, <2>2, <2>4 DEF Refresh, Presents, RowsType, users, rows, clock
<1>4. CASE \E t \in Tokens : Logout(h, t)
  <2>1. PICK t \in Tokens : Logout(h, t)
    BY <1>4
  <2>2. LocalsType'
    BY <2>1 DEF Logout, LocalsType, Places, Presented, OrNone
  <2>3. root[t] \in Tokens
    BY <2>1 DEF Logout, Presents, RowInv, RootInv
  <2>4. overlapped' \in SUBSET Tokens
    BY <2>1, <2>3 DEF Logout, Presents, NoteOverlap
  <2>. QED
    BY <2>1, <2>2, <2>4 DEF Logout, Presents, RowsType, users, rows, clock
<1>5. CASE RegisterCommit(h)
  BY <1>5, FinishType DEF RegisterCommit, LocalsType, RowsType, OrNone, rows, clock, history
<1>6. CASE IssueTokens(h)
  <2>1. PICK t \in Tokens : AddToken(t, arg[h], t) /\ Goto(h, "replying", t)
    BY <1>6 DEF IssueTokens
  <2>2. LocalsType'
    BY <2>1, GotoType DEF Places, Presented
  <2>3. arg[h] \in Users
    BY <1>6 DEF IssueTokens, LocalsType
  <2>. QED
    BY <1>6, <2>1, <2>2, <2>3 DEF IssueTokens, AddToken, RowsType, OrNone, users, clock, history
<1>7. CASE Reply(h)
  BY <1>7, FinishType DEF Reply, LocalsType, RowsType, users, rows, clock, history
<1>8. CASE ReadToken(h)
  BY <1>8, GotoType DEF ReadToken, LocalsType, RowsType, Places, Presented, users, rows, clock, history
<1>9. CASE RefuseToken(h)
  BY <1>9, FinishType DEF RefuseToken, RowsType, users, rows, clock, history
<1>10. CASE CheckExpiry(h)
  BY <1>10, GotoType DEF CheckExpiry, LocalsType, RowsType, Places, Presented, users, rows, clock, history
<1>11. CASE RotateToken(h)
  <2>1. PICK t \in Tokens : /\ AddToken(t, owner[arg[h]], root[arg[h]])
                            /\ replacedBy' = [replacedBy EXCEPT ![arg[h]] = t]
                            /\ Goto(h, "replying", t)
    BY <1>11 DEF RotateToken
  <2>2. LocalsType'
    BY <2>1, GotoType DEF Places, Presented
  <2>3. arg[h] \in Tokens
    BY <1>11 DEF RotateToken, LocalsType, Presented
  <2>. QED
    BY <1>11, <2>1, <2>2, <2>3 DEF RotateToken, AddToken, RowsType, OrNone, users, clock, history
<1>12. CASE ReloadExpired(h)
  BY <1>12, GotoType DEF ReloadExpired, LocalsType, RowsType, Places, Presented, users, rows, clock,
              history
<1>16. CASE RevokeExpired(h)
  <2>1. arg[h] \in Tokens
    BY <1>16 DEF RevokeExpired, LocalsType, Presented
  <2>2. replacedBy' \in [Tokens -> OrNone(Tokens)]
    BY <1>16, <2>1 DEF RevokeExpired, RowsType, OrNone
  <2>. QED
    BY <1>16, <2>1, <2>2, FinishType DEF RevokeExpired, RowsType, users, clock, history
<1>13. CASE VisitToken(h)
  <2>1. cursor[h] \in Tokens /\ replacedBy[cursor[h]] \in OrNone(Tokens)
    BY <1>13 DEF VisitToken, LocalsType, RowsType, OrNone
  <2>2. LocalsType'
    BY <1>13, <2>1 DEF VisitToken, LocalsType
  <2>. QED
    BY <1>13, <2>2 DEF VisitToken, RowsType, users, rows, clock, history
<1>14. CASE LogoutCommit(h)
  <2>1. arg[h] \in Tokens /\ marked[h] \in SUBSET Tokens
    BY <1>14 DEF LogoutCommit, LocalsType, Presented
  <2>2. root[arg[h]] \in Tokens
    BY <1>14, <2>1 DEF LogoutCommit, RowInv, HandlerInv, RootInv, Presented
  <2>. QED
    BY <1>14, <2>1, <2>2, FinishType DEF LogoutCommit, RowsType, users, clock
<1>15. CASE BreakOff(h)
  BY <1>15, FinishType DEF BreakOff, RowsType, users, rows, clock, history
<1>. QED
  BY <1>1, <1>2, <1>3, <1>4, <1>5, <1>6, <1>7, <1>8, <1>9, <1>10, <1>11,
     <1>12, <1>13, <1>14, <1>15, <1>16 DEF HandlerAction, Step

-----------------------------------------------------------------------------
(* The four things that a step can do to the rows: what a login, a rotation *)
(* and the revocation of an expired row with a link do, and all the others. *)

NewLineage(h, t) ==
  /\ AddToken(t, arg[h], t) /\ arg[h] \in Users
  /\ UNCHANGED <<revoked, replacedBy, issued, loggedOut>>

Rotation(h, t) ==
  /\ pc[h] = "live"
  /\ AddToken(t, owner[arg[h]], root[arg[h]])
  /\ arg[h] \in Tokens /\ owner[arg[h]] # None
  /\ replacedBy' = [replacedBy EXCEPT ![arg[h]] = t]
  /\ revoked' = revoked \cup {arg[h]}
  /\ UNCHANGED <<issued, loggedOut>>

(* Tokens that have a row are revoked, sent or taken out of use.           *)
RowsKept ==
  /\ UNCHANGED <<owner, root, replacedBy>>
  /\ revoked \subseteq revoked'
  /\ \A t \in Tokens : t \in revoked' \cup issued' \cup loggedOut' =>
                         owner[t] # None \/ t \in revoked \cup issued \cup loggedOut

LinkCut(h) ==
  /\ pc[h] = "linked"
  /\ arg[h] \in Tokens /\ owner[arg[h]] # None
  /\ replacedBy' = [replacedBy EXCEPT ![arg[h]] = None]
  /\ revoked' = revoked \cup {arg[h]}
  /\ UNCHANGED <<owner, root, issued, loggedOut>>

RowStep(h) ==
  RowsKept \/ LinkCut(h) \/ \E t \in Tokens : NewLineage(h, t) \/ Rotation(h, t)

LEMMA RowEffects ==
  ASSUME TypeOK, RowInv, NEW h \in Handlers, HandlerAction(h)
  PROVE  RowStep(h)
<1>. USE DEF TypeOK
<1>1. CASE \E e \in Emails : RegisterCheck(h, e)
  BY <1>1 DEF RegisterCheck, RowStep, RowsKept, rows, history
<1>2. CASE \E u \in Users : Authenticate(h, u)
  BY <1>2 DEF Authenticate, RowStep, RowsKept, rows, history
<1>3. CASE \E t \in Tokens : Refresh(h, t) \/ Logout(h, t)
  BY <1>3 DEF Refresh, Logout, Presents, RowStep, RowsKept, rows
<1>4. CASE RegisterCommit(h)
  BY <1>4 DEF RegisterCommit, RowStep, RowsKept, rows, history
<1>5. CASE IssueTokens(h)
  <2>1. PICK t \in Tokens : AddToken(t, arg[h], t)
    BY <1>5 DEF IssueTokens
  <2>2. NewLineage(h, t)
    BY <1>5, <2>1 DEF IssueTokens, NewLineage, LocalsType, history
  <2>. QED
    BY <2>2 DEF RowStep
<1>6. CASE Reply(h)
  BY <1>6 DEF Reply, RowStep, RowsKept, RowInv, HandlerInv, rows, history
<1>7. CASE ReadToken(h) \/ RefuseToken(h) \/ CheckExpiry(h) \/ ReloadExpired(h) \/ VisitToken(h)
           \/ BreakOff(h)
  BY <1>7 DEF ReadToken, RefuseToken, CheckExpiry, ReloadExpired, VisitToken, BreakOff, RowStep,
              RowsKept, rows, history
<1>8. CASE RotateToken(h)
  <2>1. PICK t \in Tokens : /\ AddToken(t, owner[arg[h]], root[arg[h]])
                            /\ replacedBy' = [replacedBy EXCEPT ![arg[h]] = t]
    BY <1>8 DEF RotateToken
  <2>2. arg[h] \in Tokens /\ owner[arg[h]] # None
    BY <1>8 DEF RotateToken, LocalsType, RowInv, HandlerInv, Presented
  <2>3. Rotation(h, t)
    BY <1>8, <2>1, <2>2 DEF RotateToken, Rotation, history
  <2>. QED
    BY <2>3 DEF RowStep
<1>9. CASE RevokeExpired(h)
  <2>1. arg[h] \in Tokens /\ owner[arg[h]] # None
    BY <1>9 DEF RevokeExpired, LocalsType, RowInv, HandlerInv, Presented
  <2>2. CASE pc[h] = "linked"
    BY <1>9, <2>1, <2>2 DEF RevokeExpired, RowStep, LinkCut, history
  <2>3. CASE pc[h] # "linked"
    BY <1>9, <2>1, <2>3 DEF RevokeExpired, RowStep, RowsKept, history
  <2>. QED
    BY <2>2, <2>3
<1>10. CASE LogoutCommit(h)
  <2>1. arg[h] \in Tokens /\ owner[arg[h]] # None
    BY <1>10 DEF LogoutCommit, LocalsType, RowInv, HandlerInv, Presented
  <2>2. owner[root[arg[h]]] # None
    BY <2>1 DEF RowInv, RootInv
  <2>. QED
    BY <1>10, <2>2 DEF LogoutCommit, RowStep, RowsKept, RowInv, HandlerInv
<1>. QED
  BY <1>1, <1>2, <1>3, <1>4, <1>5, <1>6, <1>7, <1>8, <1>9, <1>10 DEF HandlerAction, Step

(* Facts about the token that a step adds.                                 *)
LEMMA NewToken ==
  ASSUME TypeOK, RowInv, NEW t \in Tokens, owner[t] = None
  PROVE  /\ t \notin revoked \cup issued \cup loggedOut /\ replacedBy[t] = None
         /\ \A u \in Tokens : replacedBy[u] # t
         /\ \A u \in Tokens : root[u] # t
<1>1. t \notin revoked \cup issued \cup loggedOut /\ replacedBy[t] = None
  BY DEF RowInv, RootInv
<1>2. \A u \in Tokens : replacedBy[u] # t
  BY DEF RowInv, RootInv, LinkInv
<1>3. \A u \in Tokens : root[u] # t
  BY DEF RowInv, RootInv
<1>. QED
  BY <1>1, <1>2, <1>3

LEMMA RowsStaySound ==
  ASSUME TypeOK, RowInv, NEW h \in Handlers, RowStep(h)
  PROVE  RootInv' /\ LinkInv'
<1>. USE DEF TypeOK, RowsType, OrNone
<1>1. CASE RowsKept
  BY <1>1 DEF RowsKept, RowInv, RootInv, LinkInv
<1>2. ASSUME NEW t \in Tokens, NewLineage(h, t)
      PROVE  RootInv' /\ LinkInv'
  <2>1. /\ owner[t] = None /\ arg[h] # None
        /\ owner' = [owner EXCEPT ![t] = arg[h]] /\ root' = [root EXCEPT ![t] = t]
        /\ UNCHANGED <<revoked, replacedBy, issued, loggedOut>>
    BY <1>2 DEF NewLineage, AddToken
  <2>2. replacedBy[t] = None /\ \A u \in Tokens : replacedBy[u] # t
    BY <2>1, NewToken
  <2>3. RootInv'
    BY <2>1, <2>2 DEF RowInv, RootInv
  <2>4. LinkInv'
    BY <2>1, <2>2 DEF RowInv, LinkInv
  <2>. QED
    BY <2>3, <2>4
<1>3. ASSUME NEW t \in Tokens, Rotation(h, t)
      PROVE  RootInv' /\ LinkInv'
  <2>1. /\ owner[t] = None /\ arg[h] \in Tokens /\ owner[arg[h]] # None
        /\ owner' = [owner EXCEPT ![t] = owner[arg[h]]]
        /\ root' = [root EXCEPT ![t] = root[arg[h]]]
        /\ replacedBy' = [replacedBy EXCEPT ![arg[h]] = t]
        /\ revoked' = revoked \cup {arg[h]}
        /\ UNCHANGED <<issued, loggedOut>>
    BY <1>3 DEF Rotation, AddToken
  <2>2. replacedBy[t] = None /\ \A u \in Tokens : replacedBy[u] # t
    BY <2>1, NewToken
  <2>3. root[arg[h]] \in Tokens /\ owner[root[arg[h]]] # None
    BY <2>1 DEF RowInv, RootInv
  <2>4. RootInv'
    BY <2>1, <2>2, <2>3 DEF RowInv, RootInv
  <2>5. LinkInv'
    BY <2>1, <2>2, <2>3 DEF RowInv, LinkInv
  <2>. QED
    BY <2>4, <2>5
<1>4. CASE LinkCut(h)
  BY <1>4 DEF LinkCut, RowInv, RootInv, LinkInv
<1>. QED
  BY <1>1, <1>2, <1>3, <1>4 DEF RowStep

(* Rows stay as they are, but for revocation and the link.                 *)
RowsGrow ==
  /\ \A t \in Tokens : owner[t] # None => owner'[t] = owner[t] /\ root'[t] = root[t]
  /\ revoked \subseteq revoked'
  /\ loggedOut \subseteq loggedOut'

LEMMA RowStepGrows ==
  ASSUME TypeOK, RowInv, NEW h \in Handlers, RowStep(h)
  PROVE  /\ \A t \in Tokens : owner[t] # None => owner'[t] = owner[t] /\ root'[t] = root[t]
         /\ revoked \subseteq revoked'
  BY DEF RowStep, RowsKept, LinkCut, NewLineage, Rotation, AddToken, TypeOK, RowsType

SameLocals(g) ==
  pc'[g] = pc[g] /\ arg'[g] = arg[g] /\ cursor'[g] = cursor[g] /\ marked'[g] = marked[g]

LEMMA OthersStay ==
  ASSUME TypeOK, NEW h \in Handlers, HandlerAction(h), NEW g \in Handlers \ {h}
  PROVE  SameLocals(g)
<1>. USE DEF TypeOK, LocalsType, SameLocals
<1>1. CASE Finish(h)
  BY <1>1 DEF Finish
<1>2. CASE \E place, a : Goto(h, place, a)
  BY <1>2 DEF Goto
<1>3. CASE \E t \in Tokens : Logout(h, t)
  BY <1>3 DEF Logout
<1>4. CASE VisitToken(h)
  BY <1>4 DEF VisitToken
<1>. QED
  BY <1>1, <1>2, <1>3, <1>4 DEF HandlerAction, Step, RegisterCheck, Authenticate, Refresh,
     RegisterCommit, IssueTokens, Reply, ReadToken, RefuseToken, CheckExpiry, RotateToken,
     ReloadExpired, RevokeExpired, LogoutCommit, BreakOff

(* What the acting handler refers to.                                      *)
LEMMA HandlerStaysSound ==
  ASSUME TypeOK, RowInv, NEW h \in Handlers, HandlerAction(h),
         \A t \in Tokens : owner[t] # None => owner'[t] = owner[t] /\ root'[t] = root[t]
  PROVE  HandlerInv(h)'
<1>. USE DEF TypeOK, LocalsType
<1>0. HandlerInv(h)
  BY DEF RowInv
<1>1. CASE Finish(h)
  BY <1>1 DEF Finish, HandlerInv, Presented
<1>2. ASSUME NEW place, NEW a, Goto(h, place, a), pc[h] # "walking", place # "walking",
             place \in Presented \cup {"replying"} => owner'[a] # None
      PROVE  HandlerInv(h)'
  BY <1>0, <1>2 DEF Goto, HandlerInv
<1>3. CASE \E e \in Emails : RegisterCheck(h, e)
  BY <1>2, <1>3 DEF RegisterCheck, Presented
<1>4. CASE \E u \in Users : Authenticate(h, u)
  BY <1>2, <1>4 DEF Authenticate, Presented
<1>5. CASE \E t \in Tokens : Refresh(h, t)
  <2>1. PICK t \in Tokens : Refresh(h, t)
    BY <1>5
  <2>2. owner'[t] # None
    BY <2>1 DEF Refresh, Presents, RowInv, RootInv, rows
  <2>. QED
    BY <1>2, <2>1, <2>2 DEF Refresh, Presents
<1>6. CASE \E t \in Tokens : Logout(h, t)
  <2>1. PICK t \in Tokens : Logout(h, t)
    BY <1>6
  <2>2. owner'[t] # None /\ cursor[h] = None /\ marked[h] = {}
    BY <1>0, <2>1 DEF Logout, Presents, RowInv, RootInv, HandlerInv, rows
  <2>. QED
    BY <2>1, <2>2 DEF Logout, HandlerInv
<1>7. CASE IssueTokens(h)
  <2>1. PICK t \in Tokens : AddToken(t, arg[h], t) /\ Goto(h, "replying", t)
    BY <1>7 DEF IssueTokens
  <2>2. owner'[t] # None
    BY <1>7, <2>1, NoneIsFresh DEF IssueTokens, AddToken, RowsType
  <2>. QED
    BY <1>2, <1>7, <2>1, <2>2 DEF IssueTokens
<1>8. CASE RotateToken(h)
  <2>1. PICK t \in Tokens : AddToken(t, owner[arg[h]], root[arg[h]]) /\ Goto(h, "replying", t)
    BY <1>8 DEF RotateToken
  <2>2. owner'[t] # None
    BY <1>0, <1>8, <2>1 DEF RotateToken, AddToken, RowsType, HandlerInv, Presented
  <2>. QED
    BY <1>2, <1>8, <2>1, <2>2 DEF RotateToken
<1>9. CASE ReadToken(h) \/ CheckExpiry(h) \/ ReloadExpired(h)
  <2>1. arg[h] \in Tokens /\ owner'[arg[h]] # None /\ pc[h] # "walking"
    BY <1>0, <1>9 DEF ReadToken, CheckExpiry, ReloadExpired, HandlerInv, Presented
  <2>. QED
    BY <1>2, <1>9, <2>1 DEF ReadToken, CheckExpiry, ReloadExpired
<1>10. CASE VisitToken(h)
  <2>1. cursor[h] \in Tokens /\ owner[cursor[h]] # None /\ root[cursor[h]] = root[arg[h]]
    BY <1>0, <1>10 DEF VisitToken, HandlerInv, OrNone
  <2>2. replacedBy[cursor[h]] # None =>
          owner[replacedBy[cursor[h]]] # None /\ root[replacedBy[cursor[h]]] = root[arg[h]]
    BY <2>1 DEF RowInv, LinkInv
  <2>3. pc[h] = "walking" /\ pc'[h] = pc[h] /\ arg'[h] = arg[h]
        /\ cursor'[h] = replacedBy[cursor[h]] /\ marked'[h] \subseteq marked[h] \cup {cursor[h]}
        /\ UNCHANGED <<owner, root>>
    BY <1>10 DEF VisitToken, rows
  <2>. QED
    BY <1>0, <2>1, <2>2, <2>3 DEF HandlerInv
<1>. QED
  BY <1>1, <1>3, <1>4, <1>5, <1>6, <1>7, <1>8, <1>9, <1>10 DEF HandlerAction, Step,
     RegisterCommit, Reply, RefuseToken, RevokeExpired, LogoutCommit, BreakOff

LEMMA RowInvStep ==
  ASSUME TypeOK, RowInv, NEW h \in Handlers, HandlerAction(h)
  PROVE  RowInv'
<1>1. RowStep(h)
  BY RowEffects
<1>2. \A t \in Tokens : owner[t] # None => owner'[t] = owner[t] /\ root'[t] = root[t]
  BY <1>1, RowStepGrows
<1>3. ASSUME NEW g \in Handlers \ {h}
      PROVE  HandlerInv(g)'
  <2>1. SameLocals(g)
    BY OthersStay
  <2>2. HandlerInv(g)
    BY DEF RowInv
  <2>3. /\ pc[g] \in Presented \cup {"replying"} => arg[g] \in Tokens
        /\ cursor[g] # None => cursor[g] \in Tokens
        /\ marked[g] \subseteq Tokens
        /\ pc[g] = "walking" => arg[g] \in Tokens
    BY DEF TypeOK, LocalsType, OrNone, Presented
  <2>4. "walking" \in Presented
    BY DEF Presented
  <2>. QED
    BY <1>2, <2>1, <2>2, <2>3, <2>4 DEF SameLocals, HandlerInv
<1>. QED
  BY <1>1, <1>2, <1>3, RowsStaySound, HandlerStaysSound DEF RowInv

LEMMA ClockStep ==
  ASSUME TypeOK, RowInv, NEW t \in Tokens, ExpireRow(t) \/ ExpireClaim(t)
  PROVE  TypeOK' /\ RowInv' /\ UNCHANGED <<users, rows, locals, issued, history>>
<1>1. UNCHANGED <<users, rows, locals, issued, history, faults>>
  BY DEF ExpireRow, ExpireClaim
<1>2. expired' \in SUBSET Tokens /\ rejected' \in SUBSET Tokens
  BY DEF ExpireRow, ExpireClaim, TypeOK
<1>3. TypeOK'
  BY <1>1, <1>2 DEF TypeOK, RowsType, LocalsType, users, rows, locals, history
<1>4. RowInv'
  BY <1>1 DEF RowInv, RootInv, LinkInv, HandlerInv, rows, locals, history
<1>. QED
  BY <1>1, <1>3, <1>4

LEMMA NextSplit ==
  ASSUME Next
  PROVE  \/ \E h \in Handlers : HandlerAction(h)
         \/ \E t \in Tokens : ExpireRow(t) \/ ExpireClaim(t)
  BY DEF Next, HandlerAction

LEMMA RowsAreSound == Spec => [](TypeOK /\ RowInv)
<1>1. TypeOK /\ RowInv /\ UNCHANGED vars => (TypeOK /\ RowInv)'
  <2>. SUFFICES ASSUME TypeOK, RowInv, UNCHANGED vars
                PROVE  TypeOK' /\ RowInv'
    OBVIOUS
  <2>1. TypeOK'
    BY DEF vars, users, rows, clock, locals, history, TypeOK, RowsType, LocalsType
  <2>2. RowInv'
    BY DEF vars, rows, locals, history, RowInv, RootInv, LinkInv, HandlerInv
  <2>. QED
    BY <2>1, <2>2
<1>2. TypeOK /\ RowInv /\ Next => (TypeOK /\ RowInv)'
  BY NextSplit, HandlerType, RowInvStep, ClockStep
<1>. QED
  BY InitTypeOK, <1>1, <1>2, PTL DEF Spec

(* Every variable of the auth service keeps its type, for any number of    *)
(* handlers, tokens and faults.                                            *)
THEOREM TokenTypeCorrect == Spec => []TypeOK
  BY RowsAreSound, PTL

-----------------------------------------------------------------------------
(* Accounts.                                                               *)

(* An email has one account, however registrations interleave.             *)
THEOREM AccountsAreUnique == Spec => []OneAccountPerEmail
<1>1. Init => OneAccountPerEmail
  BY DEF Init, OneAccountPerEmail
<1>2. ASSUME TypeOK, OneAccountPerEmail, Next
      PROVE  OneAccountPerEmail'
  <2>1. CASE UNCHANGED email
    BY <1>2, <2>1 DEF OneAccountPerEmail
  <2>2. CASE \E h \in Handlers : RegisterCommit(h)
    <3>1. PICK h \in Handlers : RegisterCommit(h)
      BY <2>2
    <3>2. CASE ~Registered(arg[h])
      BY <1>2, <3>1, <3>2 DEF RegisterCommit, Registered, OneAccountPerEmail, TypeOK, RowsType
    <3>. QED
      BY <2>1, <3>1, <3>2 DEF RegisterCommit
  <2>. QED
    BY <1>2, <2>1, <2>2 DEF Next, Step, RegisterCheck, Authenticate, Refresh, Logout, Presents,
       IssueTokens, Reply, ReadToken, RefuseToken, CheckExpiry, RotateToken, ReloadExpired,
       RevokeExpired, VisitToken, LogoutCommit, BreakOff, ExpireRow, ExpireClaim, users
<1>3. OneAccountPerEmail /\ UNCHANGED vars => OneAccountPerEmail'
  BY DEF OneAccountPerEmail, vars, users
<1>. QED
  BY RowsAreSound, <1>1, <1>2, <1>3, PTL DEF Spec

-----------------------------------------------------------------------------
(* The links.                                                              *)

Injective ==
  \A t, u \in Tokens : replacedBy[t] = replacedBy[u] /\ replacedBy[t] # None => t = u

Acyclic ==
  \A S \in SUBSET Tokens : S # {} => \E t \in S : replacedBy[t] \notin S

LEMMA LinkStep ==
  ASSUME TypeOK, RowInv, NEW h \in Handlers, RowStep(h), Injective, Acyclic
  PROVE  Injective' /\ Acyclic'
<1>. USE DEF TypeOK, RowsType
<1>1. CASE UNCHANGED replacedBy
  BY <1>1 DEF Injective, Acyclic
<1>2. ASSUME NEW t \in Tokens, Rotation(h, t)
      PROVE  Injective' /\ Acyclic'
  <2>1. /\ owner[t] = None /\ arg[h] \in Tokens /\ owner[arg[h]] # None
        /\ replacedBy' = [replacedBy EXCEPT ![arg[h]] = t]
    BY <1>2 DEF Rotation, AddToken
  <2>2. replacedBy[t] = None /\ \A u \in Tokens : replacedBy[u] # t
    BY <2>1, NewToken
  <2>3. Injective'
    BY <2>1, <2>2 DEF Injective
  <2>4. ASSUME NEW S \in SUBSET Tokens, S # {}
        PROVE  \E u \in S : replacedBy'[u] \notin S
    <3>1. CASE t \in S
      <4>1. replacedBy'[t] = None /\ None \notin S
        BY <2>1, <2>2
      <4>. QED
        BY <3>1, <4>1
    <3>2. CASE t \notin S
      <4>1. PICK u \in S : replacedBy[u] \notin S
        BY <2>4 DEF Acyclic
      <4>2. replacedBy'[u] \in {t, replacedBy[u]}
        BY <2>1
      <4>. QED
        BY <3>2, <4>1, <4>2
    <3>. QED
      BY <3>1, <3>2
  <2>5. Acyclic'
    BY <2>4 DEF Acyclic
  <2>. QED
    BY <2>3, <2>5
<1>3. CASE LinkCut(h)
  <2>1. /\ arg[h] \in Tokens /\ replacedBy[arg[h]] \in OrNone(Tokens)
        /\ replacedBy' = [replacedBy EXCEPT ![arg[h]] = None]
    BY <1>3 DEF LinkCut
  <2>2. Injective'
    BY <2>1 DEF Injective
  <2>3. ASSUME NEW S \in SUBSET Tokens, S # {}
        PROVE  \E u \in S : replacedBy'[u] \notin S
    <3>1. PICK u \in S : replacedBy[u] \notin S
      BY <2>3 DEF Acyclic
    <3>2. replacedBy'[u] \in {None, replacedBy[u]} /\ None \notin S
      BY <2>1
    <3>. QED
      BY <3>1, <3>2
  <2>. QED
    BY <2>2, <2>3 DEF Acyclic
<1>. QED
  BY <1>1, <1>2, <1>3 DEF RowStep, RowsKept, NewLineage

(* The links between tokens form disjoint paths inside one lineage and one *)
(* user, whatever rotations of the same token overtake each other.         *)
THEOREM LinksAreSound == Spec => []ChainsAreSound
<1>1. Init => Injective /\ Acyclic
  BY DEF Init, Injective, Acyclic
<1>2. ASSUME TypeOK, RowInv, Injective, Acyclic, Next
      PROVE  (Injective /\ Acyclic)'
  <2>1. CASE \E h \in Handlers : HandlerAction(h)
    BY <1>2, <2>1, RowEffects, LinkStep
  <2>2. CASE UNCHANGED replacedBy
    BY <1>2, <2>2 DEF Injective, Acyclic
  <2>. QED
    BY <1>2, <2>1, <2>2, NextSplit, ClockStep DEF rows
<1>3. Injective /\ Acyclic /\ UNCHANGED vars => (Injective /\ Acyclic)'
  BY DEF Injective, Acyclic, vars, rows
<1>4. TypeOK /\ RowInv /\ Injective /\ Acyclic => ChainsAreSound
  <2>. SUFFICES ASSUME TypeOK, RowInv, Injective, Acyclic
                PROVE  ChainsAreSound
    OBVIOUS
  <2>1. ASSUME NEW t \in Tokens, replacedBy[t] # None
        PROVE  LET u == replacedBy[t]
               IN  t \in revoked /\ owner[u] = owner[t] /\ root[u] = root[t] /\ u # root[u]
    BY <2>1 DEF RowInv, LinkInv
  <2>. QED
    BY <2>1 DEF ChainsAreSound, Injective, Acyclic
<1>. QED
  BY RowsAreSound, <1>1, <1>2, <1>3, <1>4, PTL DEF Spec

-----------------------------------------------------------------------------
(* Lineages whose requests came one after the other.                       *)

Reading == {"read", "live", "stale"}

OneAtATime ==
  \A g, h \in Handlers, r \in Tokens \ overlapped : Busy(g, r) /\ Busy(h, r) => g = h

(* What such a request has read is still so.                               *)
ReadIsFresh ==
  \A h \in Handlers :
    pc[h] \in Reading /\ root[arg[h]] \notin overlapped => arg[h] \notin revoked

(* The lineage has one end.                                                *)
OneEnd ==
  \A t, u \in Tokens :
    /\ owner[t] # None /\ replacedBy[t] = None
    /\ owner[u] # None /\ replacedBy[u] = None
    /\ root[t] = root[u] /\ root[t] \notin overlapped
    => t = u

(* A walk that is over has seen every usable token of the lineage.         *)
WalkSees ==
  \A h \in Handlers :
    pc[h] = "walking" /\ cursor[h] = None /\ root[arg[h]] \notin overlapped
      => Live(root[arg[h]]) \subseteq marked[h]

(* A link that is about to be cut: the row had none when the request read  *)
(* it, so another request of the lineage set it.                           *)
CutIsOverlapped ==
  \A h \in Handlers : pc[h] = "linked" => root[arg[h]] \in overlapped

SerialInv ==
  OneAtATime /\ ReadIsFresh /\ CutIsOverlapped /\ OneEnd /\ WalkSees /\ LogoutEndsLineage

LEMMA InitSerial == Init => SerialInv
  BY DEF Init, SerialInv, OneAtATime, ReadIsFresh, CutIsOverlapped, OneEnd, WalkSees, LogoutEndsLineage,
         Busy, Presented, Reading, Live

(* What each handler action does to the places of requests and to overlap. *)
LEMMA BusyStep ==
  ASSUME TypeOK, RowInv, NEW h \in Handlers, HandlerAction(h)
  PROVE  /\ overlapped \subseteq overlapped'
         /\ \A r \in Tokens \ overlapped' : Busy(h, r)' =>
              \/ Busy(h, r)
              \/ \A g \in Handlers \ {h} : ~Busy(g, r)
<1>. USE DEF TypeOK, LocalsType
<1>1. CASE \E t \in Tokens : Refresh(h, t) \/ Logout(h, t)
  <2>1. PICK t \in Tokens : Refresh(h, t) \/ Logout(h, t)
    BY <1>1
  <2>2. Presents(h, t) /\ arg' = [arg EXCEPT ![h] = t] /\ root' = root
    BY <2>1 DEF Refresh, Logout, Goto, Presents, rows
  <2>. QED
    BY <2>2 DEF Presents, NoteOverlap, Busy
<1>2. CASE Finish(h) /\ UNCHANGED overlapped
  BY <1>2 DEF Finish, Busy, Presented
<1>3. CASE \E place, a : /\ Goto(h, place, a) /\ UNCHANGED overlapped
                         /\ place \in Presented => /\ pc[h] \in Presented /\ a = arg[h]
                                                   /\ UNCHANGED root
  BY <1>3 DEF Goto, Busy
<1>4. CASE VisitToken(h)
  BY <1>4 DEF VisitToken, Busy, rows, history
<1>5. CASE RegisterCommit(h) \/ Reply(h) \/ RefuseToken(h) \/ RevokeExpired(h)
           \/ LogoutCommit(h) \/ BreakOff(h)
  BY <1>2, <1>5 DEF RegisterCommit, Reply, RefuseToken, RevokeExpired, LogoutCommit, BreakOff,
     history
<1>6. CASE ReadToken(h) \/ CheckExpiry(h) \/ ReloadExpired(h)
  BY <1>3, <1>6 DEF ReadToken, CheckExpiry, ReloadExpired, Presented, rows, history
<1>7. CASE IssueTokens(h) \/ RotateToken(h)
  BY <1>3, <1>7 DEF IssueTokens, RotateToken, Presented, history
<1>8. CASE \E e \in Emails : RegisterCheck(h, e)
  BY <1>3, <1>8 DEF RegisterCheck, Presented, history
<1>9. CASE \E u \in Users : Authenticate(h, u)
  BY <1>3, <1>9 DEF Authenticate, Presented, history
<1>. QED
  BY <1>1, <1>4, <1>5, <1>6, <1>7, <1>8, <1>9 DEF HandlerAction, Step

(* Only a request for a lineage revokes its tokens or ends it.             *)
LEMMA RevokeStep ==
  ASSUME TypeOK, RowInv, NEW h \in Handlers, HandlerAction(h)
  PROVE  /\ \A t \in revoked' \ revoked : Busy(h, root[t])
         /\ loggedOut' # loggedOut => LogoutCommit(h)
<1>. USE DEF Busy, Presented, RowInv, HandlerInv, history, rows
<1>1. CASE UNCHANGED <<revoked, loggedOut>>
  BY <1>1
<1>2. CASE RotateToken(h)
  BY <1>2 DEF RotateToken
<1>3. CASE RevokeExpired(h)
  BY <1>3 DEF RevokeExpired
<1>4. CASE LogoutCommit(h)
  BY <1>4 DEF LogoutCommit
<1>. QED
  BY <1>1, <1>2, <1>3, <1>4 DEF HandlerAction, Step, RegisterCheck, Authenticate, Refresh,
     Logout, Presents, RegisterCommit, IssueTokens, Reply, ReadToken, RefuseToken, CheckExpiry,
     ReloadExpired, VisitToken, BreakOff

(* A token becomes usable by a login or by a rotation only.                *)
LEMMA LiveStep ==
  ASSUME TypeOK, RowInv, NEW h \in Handlers, RowStep(h), NEW r \in Tokens,
         NEW x \in Live(r)', x \notin Live(r)
  PROVE  owner[r] = None \/ (\E t \in Tokens : Rotation(h, t) /\ root[arg[h]] = r)
<1>. USE DEF Live, TypeOK, RowsType
<1>1. ~RowsKept /\ ~LinkCut(h)
  BY DEF RowsKept, LinkCut
<1>2. ASSUME NEW t \in Tokens, NewLineage(h, t)
      PROVE  owner[r] = None
  BY <1>2 DEF NewLineage, AddToken
<1>3. ASSUME NEW t \in Tokens, Rotation(h, t)
      PROVE  root[arg[h]] = r
  BY <1>3 DEF Rotation, AddToken
<1>. QED
  BY <1>1, <1>2, <1>3 DEF RowStep

LEMMA OneAtATimeStep ==
  ASSUME TypeOK, RowInv, NEW h \in Handlers, HandlerAction(h), OneAtATime
  PROVE  OneAtATime'
<1>1. RowStep(h)
  BY RowEffects
<1>2. ASSUME NEW g \in Handlers \ {h}, NEW r \in Tokens, Busy(g, r)'
      PROVE  Busy(g, r)
  <2>1. SameLocals(g)
    BY OthersStay
  <2>2. pc[g] \in Presented => arg[g] \in Tokens /\ owner[arg[g]] # None
    BY DEF TypeOK, LocalsType, RowInv, HandlerInv
  <2>. QED
    BY <1>1, <1>2, <2>1, <2>2, RowStepGrows DEF SameLocals, Busy
<1>3. overlapped \subseteq overlapped'
  BY BusyStep
<1>4. ASSUME NEW r \in Tokens \ overlapped', NEW g \in Handlers \ {h}, Busy(g, r)'
      PROVE  ~Busy(h, r)'
  <2>1. Busy(g, r)
    BY <1>2, <1>4
  <2>2. ~Busy(h, r)
    BY <1>3, <2>1 DEF OneAtATime
  <2>. QED
    BY <2>1, <2>2, BusyStep
<1>5. ASSUME NEW r \in Tokens \ overlapped', NEW f \in Handlers \ {h}, NEW g \in Handlers \ {h},
             Busy(f, r)', Busy(g, r)'
      PROVE  f = g
  BY <1>2, <1>3, <1>5 DEF OneAtATime
<1>. QED
  BY <1>4, <1>5 DEF OneAtATime

LEMMA ReadIsFreshStep ==
  ASSUME TypeOK, RowInv, NEW h \in Handlers, HandlerAction(h), OneAtATime, ReadIsFresh
  PROVE  ReadIsFresh'
<1>1. RowStep(h) /\ overlapped \subseteq overlapped'
  BY RowEffects, BusyStep
<1>2. ASSUME NEW g \in Handlers \ {h}, pc'[g] \in Reading, root'[arg'[g]] \notin overlapped'
      PROVE  arg'[g] \notin revoked'
  <2>1. SameLocals(g)
    BY OthersStay
  <2>2. pc[g] \in Presented /\ arg[g] \in Tokens /\ owner[arg[g]] # None
    BY <1>2, <2>1 DEF SameLocals, TypeOK, LocalsType, RowInv, HandlerInv, Reading, Presented
  <2>3. root'[arg[g]] = root[arg[g]] /\ root[arg[g]] \in Tokens
    BY <1>1, <2>2, RowStepGrows DEF RowInv, RootInv
  <2>4. root[arg[g]] \notin overlapped /\ arg[g] \notin revoked
    BY <1>1, <1>2, <2>1, <2>3 DEF SameLocals, ReadIsFresh
  <2>5. Busy(g, root[arg[g]])
    BY <2>2 DEF Busy
  <2>6. ~Busy(h, root[arg[g]])
    BY <2>3, <2>4, <2>5 DEF OneAtATime
  <2>. QED
    BY <2>1, <2>4, <2>6, RevokeStep DEF SameLocals
<1>3. ASSUME pc'[h] \in Reading, root'[arg'[h]] \notin overlapped'
      PROVE  arg'[h] \notin revoked'
  <2>. USE DEF TypeOK, LocalsType, Reading
  <2>1. CASE ReadToken(h)
    BY <2>1 DEF ReadToken, Goto, rows
  <2>2. CASE CheckExpiry(h)
    BY <1>3, <2>2 DEF CheckExpiry, Goto, rows, history, ReadIsFresh
  <2>3. pc'[h] \notin Reading \/ ReadToken(h) \/ CheckExpiry(h)
    BY DEF HandlerAction, Step, RegisterCheck, Authenticate, Refresh, Logout, RegisterCommit,
       IssueTokens, Reply, RefuseToken, RotateToken, ReloadExpired, RevokeExpired, VisitToken,
       LogoutCommit, BreakOff, Goto, Finish
  <2>. QED
    BY <1>3, <2>1, <2>2, <2>3
<1>. QED
  BY <1>2, <1>3 DEF ReadIsFresh

LEMMA CutIsOverlappedStep ==
  ASSUME TypeOK, RowInv, NEW h \in Handlers, HandlerAction(h), ReadIsFresh, CutIsOverlapped
  PROVE  CutIsOverlapped'
<1>1. RowStep(h) /\ overlapped \subseteq overlapped'
  BY RowEffects, BusyStep
<1>2. ASSUME NEW g \in Handlers \ {h}, pc'[g] = "linked"
      PROVE  root'[arg'[g]] \in overlapped'
  <2>1. SameLocals(g)
    BY OthersStay
  <2>2. pc[g] = "linked" /\ arg[g] \in Tokens /\ owner[arg[g]] # None
    BY <1>2, <2>1 DEF SameLocals, TypeOK, LocalsType, RowInv, HandlerInv, Presented
  <2>. QED
    BY <1>1, <2>1, <2>2, RowStepGrows DEF SameLocals, CutIsOverlapped
<1>3. ASSUME pc'[h] = "linked"
      PROVE  root'[arg'[h]] \in overlapped'
  <2>. USE DEF TypeOK, LocalsType
  <2>1. ReloadExpired(h)
    BY <1>3 DEF HandlerAction, Step, RegisterCheck, Authenticate, Refresh, Logout, RegisterCommit,
       IssueTokens, Reply, ReadToken, RefuseToken, CheckExpiry, RotateToken, RevokeExpired,
       VisitToken, LogoutCommit, BreakOff, Goto, Finish
  <2>2. /\ pc[h] = "stale" /\ arg[h] \in Tokens /\ replacedBy[arg[h]] # None
        /\ arg'[h] = arg[h] /\ UNCHANGED <<root, overlapped>>
    BY <1>3, <2>1 DEF ReloadExpired, Goto, Presented, rows, history
  <2>3. arg[h] \in revoked
    BY <2>2 DEF RowInv, LinkInv
  <2>. QED
    BY <2>2, <2>3 DEF ReadIsFresh, Reading
<1>. QED
  BY <1>2, <1>3 DEF CutIsOverlapped

(* The token that a rotation replaces is the end of its lineage.           *)
LEMMA RotatesTheEnd ==
  ASSUME TypeOK, RowInv, NEW h \in Handlers, ReadIsFresh, NEW t \in Tokens, Rotation(h, t),
         root[arg[h]] \notin overlapped
  PROVE  arg[h] \notin revoked /\ replacedBy[arg[h]] = None
  BY DEF Rotation, ReadIsFresh, Reading, RowInv, LinkInv

LEMMA OneEndStep ==
  ASSUME TypeOK, RowInv, NEW h \in Handlers, RowStep(h), overlapped \subseteq overlapped',
         ReadIsFresh, CutIsOverlapped, OneEnd
  PROVE  OneEnd'
<1>. USE DEF TypeOK, RowsType
<1>1. CASE RowsKept
  BY <1>1 DEF RowsKept, OneEnd
<1>2. ASSUME NEW t \in Tokens, NewLineage(h, t)
      PROVE  OneEnd'
  <2>1. /\ owner[t] = None /\ replacedBy' = replacedBy
        /\ owner' = [owner EXCEPT ![t] = arg[h]] /\ root' = [root EXCEPT ![t] = t]
    BY <1>2 DEF NewLineage, AddToken
  <2>2. \A u \in Tokens : root[u] # t
    BY <2>1, NewToken
  <2>. QED
    BY <2>1, <2>2 DEF OneEnd
<1>3. ASSUME NEW t \in Tokens, Rotation(h, t)
      PROVE  OneEnd'
  <2>1. /\ owner[t] = None /\ arg[h] \in Tokens /\ owner[arg[h]] # None
        /\ owner' = [owner EXCEPT ![t] = owner[arg[h]]]
        /\ root' = [root EXCEPT ![t] = root[arg[h]]]
        /\ replacedBy' = [replacedBy EXCEPT ![arg[h]] = t]
    BY <1>3 DEF Rotation, AddToken
  <2>2. root[arg[h]] \notin overlapped => replacedBy[arg[h]] = None
    BY <1>3, RotatesTheEnd
  <2>3. ASSUME NEW x \in Tokens, owner'[x] # None, replacedBy'[x] = None,
               root'[x] \notin overlapped', root'[x] = root[arg[h]]
        PROVE  x = t
    BY <2>1, <2>2, <2>3, NoneIsFresh DEF OneEnd
  <2>4. ASSUME NEW x \in Tokens, NEW y \in Tokens,
               owner'[x] # None, replacedBy'[x] = None, owner'[y] # None, replacedBy'[y] = None,
               root'[x] = root'[y], root'[x] \notin overlapped'
        PROVE  x = y
    <3>1. CASE root'[x] = root[arg[h]]
      BY <2>3, <2>4, <3>1
    <3>2. CASE root'[x] # root[arg[h]]
      BY <2>1, <2>4, <3>2, NoneIsFresh DEF OneEnd
    <3>. QED
      BY <3>1, <3>2
  <2>. QED
    BY <2>4 DEF OneEnd
<1>4. CASE LinkCut(h)
  BY <1>4 DEF LinkCut, CutIsOverlapped, OneEnd
<1>. QED
  BY <1>1, <1>2, <1>3, <1>4 DEF RowStep

(* Nothing becomes usable in a lineage that another request works on.      *)
LEMMA LiveShrinks ==
  ASSUME TypeOK, RowInv, NEW h \in Handlers, RowStep(h), NEW r \in Tokens,
         owner[r] # None, ~Busy(h, r)
  PROVE  Live(r)' \subseteq Live(r)
  BY LiveStep DEF Rotation, Busy, Presented

LEMMA WalkSeesStep ==
  ASSUME TypeOK, RowInv, NEW h \in Handlers, HandlerAction(h), SerialInv
  PROVE  WalkSees'
<1>1. RowStep(h) /\ overlapped \subseteq overlapped'
  BY RowEffects, BusyStep
<1>2. ASSUME NEW g \in Handlers \ {h}, pc'[g] = "walking", cursor'[g] = None,
             NEW r, r = root'[arg'[g]], r \notin overlapped'
      PROVE  Live(r)' \subseteq marked'[g]
  <2>1. SameLocals(g)
    BY OthersStay
  <2>2. pc[g] \in Presented /\ arg[g] \in Tokens /\ owner[arg[g]] # None
    BY <1>2, <2>1 DEF SameLocals, TypeOK, LocalsType, RowInv, HandlerInv, Presented
  <2>3. root[arg[g]] = r /\ r \in Tokens /\ owner[r] # None
    BY <1>1, <1>2, <2>1, <2>2, RowStepGrows DEF SameLocals, RowInv, RootInv
  <2>4. r \notin overlapped
    BY <1>1, <1>2
  <2>5. Busy(g, r)
    BY <2>2, <2>3 DEF Busy
  <2>6. ~Busy(h, r)
    BY <2>3, <2>4, <2>5 DEF SerialInv, OneAtATime
  <2>7. Live(r)' \subseteq Live(r)
    BY <1>1, <2>3, <2>6, LiveShrinks
  <2>8. Live(r) \subseteq marked[g]
    BY <1>2, <2>1, <2>3, <2>4 DEF SameLocals, SerialInv, WalkSees
  <2>. QED
    BY <2>1, <2>7, <2>8 DEF SameLocals
<1>3. ASSUME pc'[h] = "walking", cursor'[h] = None
      PROVE  VisitToken(h)
  BY <1>3 DEF TypeOK, LocalsType, HandlerAction, Step, RegisterCheck, Authenticate, Refresh,
     Logout, RegisterCommit, IssueTokens, Reply, ReadToken, RefuseToken, CheckExpiry,
     RotateToken, ReloadExpired, RevokeExpired, LogoutCommit, BreakOff, Goto, Finish
<1>4. ASSUME VisitToken(h), cursor'[h] = None, NEW r, r = root'[arg'[h]], r \notin overlapped'
      PROVE  Live(r)' \subseteq marked'[h]
  <2>1. /\ replacedBy[cursor[h]] = None /\ UNCHANGED <<owner, root, revoked, overlapped>>
        /\ r = root[arg[h]] /\ marked'[h] = marked[h] \cup ({cursor[h]} \ revoked)
    BY <1>4 DEF VisitToken, TypeOK, LocalsType, rows, history
  <2>2. cursor[h] \in Tokens /\ owner[cursor[h]] # None /\ root[cursor[h]] = r
    BY <1>4, <2>1 DEF VisitToken, TypeOK, LocalsType, OrNone, RowInv, HandlerInv
  <2>3. ASSUME NEW x \in Live(r)
        PROVE  x = cursor[h] /\ x \notin revoked
    <3>1. x \in Tokens /\ owner[x] # None /\ root[x] = r /\ x \notin revoked
      BY DEF Live
    <3>2. replacedBy[x] = None
      BY <3>1 DEF RowInv, LinkInv
    <3>. QED
      BY <1>4, <2>1, <2>2, <3>1, <3>2 DEF SerialInv, OneEnd
  <2>4. Live(r)' = Live(r)
    BY <2>1 DEF Live
  <2>. QED
    BY <2>1, <2>3, <2>4
<1>5. ASSUME NEW g \in Handlers, pc'[g] = "walking", cursor'[g] = None,
             NEW r, r = root'[arg'[g]], r \notin overlapped'
      PROVE  Live(r)' \subseteq marked'[g]
  BY <1>2, <1>3, <1>4, <1>5
<1>. QED
  BY <1>5 DEF WalkSees, Live

LEMMA LogoutStep ==
  ASSUME TypeOK, RowInv, NEW h \in Handlers, HandlerAction(h), SerialInv
  PROVE  LogoutEndsLineage'
<1>1. RowStep(h) /\ overlapped \subseteq overlapped'
  BY RowEffects, BusyStep
<1>2. ASSUME NEW r \in loggedOut, r \notin overlapped'
      PROVE  Live(r)' = {}
  <2>1. r \in Tokens /\ owner[r] # None
    BY DEF TypeOK, RowInv, RootInv
  <2>2. Live(r) = {} /\ r \notin overlapped
    BY <1>1, <1>2 DEF SerialInv, LogoutEndsLineage
  <2>3. ASSUME NEW t \in Tokens, Rotation(h, t), root[arg[h]] = r
        PROVE  FALSE
    <3>1. arg[h] \notin revoked
      BY <2>2, <2>3, RotatesTheEnd DEF SerialInv
    <3>2. arg[h] \in Live(r)
      BY <2>3, <3>1 DEF Live, Rotation
    <3>. QED
      BY <2>2, <3>2
  <2>. QED
    BY <1>1, <2>1, <2>2, <2>3, LiveStep
<1>3. ASSUME NEW r \in loggedOut' \ loggedOut, r \notin overlapped'
      PROVE  Live(r)' = {}
  <2>1. LogoutCommit(h)
    BY RevokeStep
  <2>2. /\ UNCHANGED <<owner, root, overlapped>> /\ revoked' = revoked \cup marked[h]
        /\ r = root[arg[h]] /\ pc[h] = "walking" /\ cursor[h] = None
    BY <2>1 DEF LogoutCommit
  <2>3. Live(r) \subseteq marked[h]
    BY <1>3, <2>2 DEF SerialInv, WalkSees
  <2>. QED
    BY <2>2, <2>3 DEF Live
<1>. QED
  BY <1>2, <1>3 DEF LogoutEndsLineage

LEMMA SerialStep ==
  ASSUME TypeOK, RowInv, SerialInv, Next
  PROVE  SerialInv'
<1>1. ASSUME NEW h \in Handlers, HandlerAction(h)
      PROVE  SerialInv'
  <2>1. OneAtATime' /\ ReadIsFresh' /\ CutIsOverlapped'
    BY <1>1, OneAtATimeStep, ReadIsFreshStep, CutIsOverlappedStep DEF SerialInv
  <2>2. OneEnd'
    BY <1>1, RowEffects, BusyStep, OneEndStep DEF SerialInv
  <2>3. WalkSees' /\ LogoutEndsLineage'
    BY <1>1, WalkSeesStep, LogoutStep
  <2>. QED
    BY <2>1, <2>2, <2>3 DEF SerialInv
<1>2. CASE UNCHANGED <<rows, locals, history>>
  BY <1>2 DEF rows, locals, history, SerialInv, OneAtATime, ReadIsFresh, CutIsOverlapped, OneEnd, WalkSees,
     LogoutEndsLineage, Live, Busy
<1>. QED
  BY <1>1, <1>2, NextSplit, ClockStep

LEMMA SerialAlways == Spec => []SerialInv
<1>1. SerialInv /\ UNCHANGED vars => SerialInv'
  BY DEF vars, rows, locals, history, SerialInv, OneAtATime, ReadIsFresh, CutIsOverlapped, OneEnd, WalkSees,
     LogoutEndsLineage, Live, Busy
<1>. QED
  BY RowsAreSound, InitSerial, SerialStep, <1>1, PTL DEF Spec

(* A lineage whose requests did not overlap has at most one usable token,  *)
(* whatever replies were lost and however other lineages were used.        *)
THEOREM OneUsableToken == Spec => []OneLiveToken
<1>1. ASSUME RowInv, SerialInv, NEW r \in Tokens \ overlapped
      PROVE  Cardinality(Live(r)) <= 1
  <2>1. ASSUME NEW x \in Live(r), NEW y \in Live(r)
        PROVE  x = y
    BY <1>1 DEF Live, RowInv, LinkInv, SerialInv, OneEnd
  <2>2. Live(r) = {} \/ \E x : Live(r) = {x}
    BY <2>1
  <2>3. CASE Live(r) = {}
    BY <2>3, FS_EmptySet
  <2>4. ASSUME NEW x, Live(r) = {x}
        PROVE  Cardinality(Live(r)) <= 1
    <3>1. Cardinality({x}) = 1
      BY FS_Singleton
    <3>. QED
      BY <2>4, <3>1
  <2>. QED
    BY <2>2, <2>3, <2>4
<1>2. RowInv /\ SerialInv => OneLiveToken
  BY <1>1 DEF OneLiveToken
<1>. QED
  BY RowsAreSound, SerialAlways, <1>2, PTL

(* A logout with any token of such a lineage leaves it without a usable    *)
(* token, for good.                                                        *)
THEOREM LogoutIsFinal == Spec => []LogoutEndsLineage
  BY SerialAlways, PTL DEF SerialInv

(* A row is only found expired once it has expired.                        *)
StaleIsExpired ==
  \A h \in Handlers : pc[h] \in {"stale", "unlinked", "linked"} => arg[h] \in expired

LEMMA StaleStep ==
  ASSUME TypeOK, RowInv, StaleIsExpired, Next
  PROVE  StaleIsExpired'
<1>1. ASSUME NEW h \in Handlers, HandlerAction(h), NEW g \in Handlers,
             pc'[g] \in {"stale", "unlinked", "linked"}
      PROVE  arg'[g] \in expired'
  <2>. USE DEF TypeOK, LocalsType
  <2>1. expired' = expired
    BY <1>1 DEF HandlerAction, Step, RegisterCheck, Authenticate, Refresh, Logout, Presents,
       RegisterCommit, IssueTokens, Reply, ReadToken, RefuseToken, CheckExpiry, RotateToken,
       ReloadExpired, RevokeExpired, VisitToken, LogoutCommit, BreakOff, clock
  <2>2. CASE g # h
    BY <1>1, <2>1, <2>2, OthersStay DEF SameLocals, StaleIsExpired
  <2>3. CASE g = h
    <3>1. CASE CheckExpiry(h)
      BY <1>1, <2>1, <2>3, <3>1 DEF CheckExpiry, Goto
    <3>2. CASE ReloadExpired(h)
      BY <2>1, <2>3, <3>2 DEF ReloadExpired, Goto, StaleIsExpired
    <3>3. CheckExpiry(h) \/ ReloadExpired(h)
      BY <1>1, <2>3 DEF HandlerAction, Step, RegisterCheck, Authenticate, Refresh, Logout,
         RegisterCommit, IssueTokens, Reply, ReadToken, RefuseToken, RotateToken, RevokeExpired,
         VisitToken, LogoutCommit, BreakOff, Goto, Finish
    <3>. QED
      BY <3>1, <3>2, <3>3
  <2>. QED
    BY <2>2, <2>3
<1>2. ASSUME NEW t \in Tokens, ExpireRow(t) \/ ExpireClaim(t)
      PROVE  StaleIsExpired'
  BY <1>2 DEF ExpireRow, ExpireClaim, StaleIsExpired, locals
<1>. QED
  BY <1>1, <1>2, NextSplit DEF StaleIsExpired

LEMMA StaleAlways == Spec => []StaleIsExpired
<1>1. Init => StaleIsExpired
  BY DEF Init, StaleIsExpired
<1>2. StaleIsExpired /\ UNCHANGED vars => StaleIsExpired'
  BY DEF vars, locals, clock, StaleIsExpired
<1>. QED
  BY RowsAreSound, StaleStep, <1>1, <1>2, PTL DEF Spec

(* No step takes back a revocation.  A link is written over or cut only in *)
(* a lineage of which two requests overlapped, and cut only if its token   *)
(* has expired.                                                            *)
THEOREM RevocationLasts == Spec => RevocationIsForever
<1>. DEFINE Kept(t) == replacedBy[t] # None /\ replacedBy'[t] # replacedBy[t] =>
                         /\ root[t] \in overlapped
                         /\ replacedBy'[t] = None => t \in expired
            Lasts == revoked \subseteq revoked' /\ \A t \in Tokens : Kept(t)
<1>1. ASSUME TypeOK, RowInv, SerialInv, StaleIsExpired, NEW h \in Handlers, RowStep(h)
      PROVE  Lasts
  <2>1. revoked \subseteq revoked'
    BY <1>1, RowStepGrows
  <2>2. ASSUME NEW t \in Tokens, UNCHANGED replacedBy
        PROVE  Kept(t)
    BY <2>2
  <2>3. ASSUME NEW t \in Tokens, NEW u \in Tokens, Rotation(h, u)
        PROVE  Kept(t)
    <3>1. /\ arg[h] \in Tokens /\ replacedBy' = [replacedBy EXCEPT ![arg[h]] = u]
          /\ u # None
      BY <2>3, NoneIsFresh DEF Rotation
    <3>2. root[arg[h]] \notin overlapped => replacedBy[arg[h]] = None
      BY <1>1, <2>3, RotatesTheEnd DEF SerialInv
    <3>. QED
      BY <1>1, <3>1, <3>2 DEF TypeOK, RowsType
  <2>4. ASSUME NEW t \in Tokens, LinkCut(h)
        PROVE  Kept(t)
    <3>1. root[arg[h]] \in overlapped /\ arg[h] \in expired
      BY <1>1, <2>4 DEF LinkCut, SerialInv, CutIsOverlapped, StaleIsExpired
    <3>. QED
      BY <1>1, <2>4, <3>1 DEF LinkCut, TypeOK, RowsType
  <2>. QED
    BY <1>1, <2>1, <2>2, <2>3, <2>4 DEF RowStep, RowsKept, NewLineage
<1>2. ASSUME TypeOK, RowInv, SerialInv, StaleIsExpired, Next
      PROVE  Lasts
  BY <1>1, <1>2, NextSplit, RowEffects, ClockStep DEF rows
<1>3. TypeOK /\ RowInv /\ SerialInv /\ StaleIsExpired /\ [Next]_vars => [Lasts]_vars
  BY <1>2
<1>. QED
  BY RowsAreSound, SerialAlways, StaleAlways, <1>3, PTL DEF Spec, RevocationIsForever
=============================================================================
