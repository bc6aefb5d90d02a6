---------------------------- MODULE TokenService ----------------------------
(***************************************************************************)
(* The auth service: registration, login, rotation of refresh tokens and   *)
(* logout, as concurrent requests on the tables users and refresh_tokens.  *)
(*                                                                         *)
(* A refresh token is named by its jti.  A rotation revokes the token it   *)
(* is given and links it, by replaced_by, to the one it issues; the tokens *)
(* that stem from one login are a lineage.  Each request is a session of   *)
(* its own under READ COMMITTED: it reads rows at some awaits, without a   *)
(* lock, and writes them, without a version check, when it commits.  An    *)
(* UPDATE is flushed right before its commit, so that the row locks it     *)
(* takes only decide which of two commits comes first.                     *)
(***************************************************************************)
EXTENDS Naturals, FiniteSets

CONSTANTS
  Handlers,   \* request handlers that run side by side
  Emails, Users, Tokens,
  Leeway,     \* is JWT_LEEWAY_SECONDS positive?
  MaxFaults,  \* bound on requests that break off
  None

ASSUME TokenAssumption ==
  /\ Leeway \in BOOLEAN
  /\ MaxFaults \in Nat
  /\ None \notin Emails \cup Users \cup Tokens

VARIABLES
  email,       \* email[u]: column email of row u of users; None: no such row
  owner,       \* owner[t]: column user_id of row t of refresh_tokens; None: no row
  revoked,     \* the tokens whose column revoked_at is set
  replacedBy,  \* replacedBy[t]: column replaced_by, or None
  expired,     \* the tokens whose column expires_at has passed
  rejected,    \* the tokens that jwt.decode rejects as expired
  issued,      \* the refresh tokens that reached a client
  pc,          \* pc[h]: how far handler h has come
  arg,         \* arg[h]: the email, user or token that h works on
  cursor,      \* cursor[h]: current_jti of revoke_lineage
  marked,      \* marked[h]: the rows that revoke_lineage has changed so far
  root,        \* history: root[t] is the token of the login that t stems from
  loggedOut,   \* history: the lineages of which some logout committed
  overlapped,  \* history: the lineages that had two requests at a time
  faults       \* history: number of requests that broke off

users == <<email>>
rows == <<owner, revoked, replacedBy, root>>
clock == <<expired, rejected>>
locals == <<pc, arg, cursor, marked>>
history == <<loggedOut, overlapped>>
vars == <<users, rows, clock, issued, locals, history, faults>>

OrNone(S) == S \cup {None}

(* Where arg[h] is a token: one that was presented, or one to be sent.     *)
Presented == {"decoded", "read", "live", "stale", "unlinked", "linked", "walking"}

Places == {"idle", "hashing", "authenticated", "replying"} \cup Presented

RowsType ==
  /\ email \in [Users -> OrNone(Emails)]
  /\ owner \in [Tokens -> OrNone(Users)]
  /\ revoked \in SUBSET Tokens
  /\ replacedBy \in [Tokens -> OrNone(Tokens)]
  /\ root \in [Tokens -> OrNone(Tokens)]
  /\ issued \in SUBSET Tokens

LocalsType ==
  /\ pc \in [Handlers -> Places]
  /\ arg \in [Handlers -> OrNone(Emails \cup Users \cup Tokens)]
  /\ \A h \in Handlers :
       /\ pc[h] = "idle" => arg[h] = None
       /\ pc[h] = "hashing" => arg[h] \in Emails
       /\ pc[h] = "authenticated" => arg[h] \in Users
       /\ pc[h] \in Presented \cup {"replying"} => arg[h] \in Tokens
  /\ cursor \in [Handlers -> OrNone(Tokens)]
  /\ marked \in [Handlers -> SUBSET Tokens]

TypeOK ==
  /\ RowsType /\ LocalsType
  /\ expired \in SUBSET Tokens /\ rejected \in SUBSET Tokens
  /\ loggedOut \in SUBSET Tokens /\ overlapped \in SUBSET Tokens
  /\ faults \in Nat

Init ==
  /\ email = [u \in Users |-> None]
  /\ owner = [t \in Tokens |-> None]
  /\ revoked = {}
  /\ replacedBy = [t \in Tokens |-> None]
  /\ expired = {} /\ rejected = {}
  /\ issued = {}
  /\ pc = [h \in Handlers |-> "idle"]
  /\ arg = [h \in Handlers |-> None]
  /\ cursor = [h \in Handlers |-> None]
  /\ marked = [h \in Handlers |-> {}]
  /\ root = [t \in Tokens |-> None]
  /\ loggedOut = {} /\ overlapped = {}
  /\ faults = 0

Goto(h, place, a) ==
  /\ pc' = [pc EXCEPT ![h] = place]
  /\ arg' = [arg EXCEPT ![h] = a]
  /\ UNCHANGED <<cursor, marked>>

(* Mutant of Finish: the session outlives its request.                     *)
FinishKeepingSession(h) ==
  /\ pc' = [pc EXCEPT ![h] = "idle"]
  /\ UNCHANGED <<arg, cursor, marked>>

(* The request is over, and with it the session.                           *)
Finish(h) ==
  /\ pc' = [pc EXCEPT ![h] = "idle"]
  /\ arg' = [arg EXCEPT ![h] = None]
  /\ cursor' = [cursor EXCEPT ![h] = None]
  /\ marked' = [marked EXCEPT ![h] = {}]

-----------------------------------------------------------------------------
(* POST /auth/register.  A request for a known email ends at once.         *)

Registered(e) == \E u \in Users : email[u] = e

RegisterCheck(h, e) ==
  /\ pc[h] = "idle"
  /\ ~Registered(e)
  /\ Goto(h, "hashing", e)
  /\ UNCHANGED <<users, rows, clock, issued, history, faults>>

(* Mutant of RegisterCommit: column email is not unique.                   *)
RegisterWithoutIndex(h) ==
  /\ pc[h] = "hashing"
  /\ \E u \in Users : /\ email[u] = None
                       /\ email' = [email EXCEPT ![u] = arg[h]]
  /\ Finish(h)
  /\ UNCHANGED <<rows, clock, issued, history, faults>>

(* repo.save and commit; the unique index on email has the last word.      *)
RegisterCommit(h) ==
  /\ pc[h] = "hashing"
  /\ IF Registered(arg[h]) THEN UNCHANGED email
     ELSE \E u \in Users : /\ email[u] = None
                           /\ email' = [email EXCEPT ![u] = arg[h]]
  /\ Finish(h)
  /\ UNCHANGED <<rows, clock, issued, history, faults>>

-----------------------------------------------------------------------------
(* POST /auth/login.                                                       *)

(* authenticate_user finds the row of the email and the password fits.     *)
Authenticate(h, u) ==
  /\ pc[h] = "idle"
  /\ email[u] # None
  /\ Goto(h, "authenticated", u)
  /\ UNCHANGED <<users, rows, clock, issued, history, faults>>

(* RefreshTokenEntity.create with a jti that is new.                       *)
AddToken(t, u, r) ==
  /\ owner[t] = None
  /\ owner' = [owner EXCEPT ![t] = u]
  /\ root' = [root EXCEPT ![t] = r]

IssueTokens(h) ==
  /\ pc[h] = "authenticated"
  /\ \E t \in Tokens : AddToken(t, arg[h], t) /\ Goto(h, "replying", t)
  /\ UNCHANGED <<users, revoked, replacedBy, clock, issued, history, faults>>

(* The token pair reaches the client.                                      *)
Reply(h) ==
  /\ pc[h] = "replying"
  /\ issued' = issued \cup {arg[h]}
  /\ Finish(h)
  /\ UNCHANGED <<users, rows, clock, history, faults>>

-----------------------------------------------------------------------------
(* POST /auth/refresh and POST /auth/logout begin by decoding the token.   *)

Busy(h, r) == pc[h] \in Presented /\ root[arg[h]] = r

(* Another request for the same lineage is on its way.                     *)
NoteOverlap(h, t) ==
  overlapped' = IF \E g \in Handlers \ {h} : Busy(g, root[t])
                THEN overlapped \cup {root[t]} ELSE overlapped

Presents(h, t) ==
  /\ pc[h] = "idle"
  /\ t \in issued \ rejected
  /\ NoteOverlap(h, t)
  /\ UNCHANGED <<users, rows, clock, issued, loggedOut, faults>>

Refresh(h, t) == Presents(h, t) /\ Goto(h, "decoded", t)

(* Mutant of ReadToken: is_revoked is not looked at.                       *)
ReadAnyToken(h) ==
  /\ pc[h] = "decoded"
  /\ owner[arg[h]] # None
  /\ Goto(h, "read", arg[h])
  /\ UNCHANGED <<users, rows, clock, issued, history, faults>>

(* get_by_jti finds a row that is not revoked.                             *)
ReadToken(h) ==
  /\ pc[h] = "decoded"
  /\ owner[arg[h]] # None /\ arg[h] \notin revoked
  /\ Goto(h, "read", arg[h])
  /\ UNCHANGED <<users, rows, clock, issued, history, faults>>

(* RefreshTokenNotFound, RefreshTokenRevoked.                              *)
RefuseToken(h) ==
  /\ pc[h] = "decoded"
  /\ owner[arg[h]] = None \/ arg[h] \in revoked
  /\ Finish(h)
  /\ UNCHANGED <<users, rows, clock, issued, history, faults>>

CheckExpiry(h) ==
  /\ pc[h] = "read"
  /\ Goto(h, IF arg[h] \in expired THEN "stale" ELSE "live", arg[h])
  /\ UNCHANGED <<users, rows, clock, issued, history, faults>>

(* Mutant of RotateToken: the old token is linked and not revoked.         *)
RotateWithoutRevoking(h) ==
  /\ pc[h] = "live"
  /\ \E t \in Tokens :
       /\ AddToken(t, owner[arg[h]], root[arg[h]])
       /\ replacedBy' = [replacedBy EXCEPT ![arg[h]] = t]
       /\ Goto(h, "replying", t)
  /\ UNCHANGED <<users, revoked, clock, issued, history, faults>>

(* The new row, the revocation and the link are one transaction.           *)
RotateToken(h) ==
  /\ pc[h] = "live"
  /\ \E t \in Tokens :
       /\ AddToken(t, owner[arg[h]], root[arg[h]])
       /\ replacedBy' = [replacedBy EXCEPT ![arg[h]] = t]
       /\ Goto(h, "replying", t)
  /\ revoked' = revoked \cup {arg[h]}
  /\ UNCHANGED <<users, clock, issued, history, faults>>

(* BaseRepository.save of an expired token reads its row again: the object *)
(* get_by_jti had of it is gone, as an entity was made of it and a session *)
(* refers to unchanged objects weakly.                                     *)
ReloadExpired(h) ==
  /\ pc[h] = "stale"
  /\ Goto(h, IF replacedBy[arg[h]] = None THEN "unlinked" ELSE "linked", arg[h])
  /\ UNCHANGED <<users, rows, clock, issued, history, faults>>

(* RefreshTokenExpired.  The entity has no replaced_by, and this is copied *)
(* to the row that was read again: the UPDATE has the column if it was set *)
(* there, and cuts a link that a rotation has committed meanwhile.         *)
RevokeExpired(h) ==
  /\ pc[h] \in {"unlinked", "linked"}
  /\ revoked' = revoked \cup {arg[h]}
  /\ replacedBy' = IF pc[h] = "linked" THEN [replacedBy EXCEPT ![arg[h]] = None] ELSE replacedBy
  /\ Finish(h)
  /\ UNCHANGED <<users, owner, root, clock, issued, history, faults>>

-----------------------------------------------------------------------------
(* POST /auth/logout: revoke_lineage follows replaced_by row by row.       *)

Logout(h, t) ==
  /\ Presents(h, t)
  /\ pc' = [pc EXCEPT ![h] = "walking"]
  /\ arg' = [arg EXCEPT ![h] = t]
  /\ cursor' = [cursor EXCEPT ![h] = t]
  /\ UNCHANGED marked

(* Mutant of VisitToken: only the token that was presented is revoked.     *)
VisitFirstOnly(h) ==
  /\ pc[h] = "walking"
  /\ cursor[h] # None
  /\ marked' = [marked EXCEPT ![h] = @ \cup ({cursor[h]} \ revoked)]
  /\ cursor' = [cursor EXCEPT ![h] = None]
  /\ UNCHANGED <<users, rows, clock, issued, pc, arg, history, faults>>

(* Rows are never deleted, so the row is there; what is changed is visible *)
(* to others when the walk commits.                                        *)
VisitToken(h) ==
  /\ pc[h] = "walking"
  /\ cursor[h] # None
  /\ marked' = [marked EXCEPT ![h] = @ \cup ({cursor[h]} \ revoked)]
  /\ cursor' = [cursor EXCEPT ![h] = replacedBy[cursor[h]]]
  /\ UNCHANGED <<users, rows, clock, issued, pc, arg, history, faults>>

LogoutCommit(h) ==
  /\ pc[h] = "walking"
  /\ cursor[h] = None
  /\ revoked' = revoked \cup marked[h]
  /\ loggedOut' = loggedOut \cup {root[arg[h]]}
  /\ Finish(h)
  /\ UNCHANGED <<users, owner, replacedBy, root, clock, issued, overlapped, faults>>

-----------------------------------------------------------------------------
(* Postgres fails, the process stops or the reply is lost: what was not    *)
(* committed is rolled back.                                               *)
BreakOff(h) ==
  /\ pc[h] # "idle"
  /\ faults < MaxFaults
  /\ faults' = faults + 1
  /\ Finish(h)
  /\ UNCHANGED <<users, rows, clock, issued, history>>

(* Time passes.  The claim exp is expires_at cut to whole seconds, so      *)
(* without a leeway the token is rejected before its row expires.          *)
ExpireRow(t) ==
  /\ owner[t] # None
  /\ Leeway \/ t \in rejected
  /\ expired' = expired \cup {t}
  /\ UNCHANGED <<users, rows, rejected, issued, locals, history, faults>>

ExpireClaim(t) ==
  /\ owner[t] # None
  /\ ~Leeway \/ t \in expired
  /\ rejected' = rejected \cup {t}
  /\ UNCHANGED <<users, rows, expired, issued, locals, history, faults>>

Step(h) ==
  \/ RegisterCommit(h) \/ IssueTokens(h) \/ Reply(h)
  \/ ReadToken(h) \/ RefuseToken(h) \/ CheckExpiry(h) \/ RotateToken(h)
  \/ ReloadExpired(h) \/ RevokeExpired(h) \/ VisitToken(h) \/ LogoutCommit(h)

Next ==
  \/ \E h \in Handlers :
       \/ \E e \in Emails : RegisterCheck(h, e)
       \/ \E u \in Users : Authenticate(h, u)
       \/ \E t \in Tokens : Refresh(h, t) \/ Logout(h, t)
       \/ Step(h) \/ BreakOff(h)
  \/ \E t \in Tokens : ExpireRow(t) \/ ExpireClaim(t)

Spec == Init /\ [][Next]_vars

-----------------------------------------------------------------------------
(* Correctness.                                                            *)

Live(r) == {t \in Tokens : owner[t] # None /\ root[t] = r /\ t \notin revoked}

(* However many requests run, an email has one account: the check of       *)
(* register_user alone does not ensure it.                                 *)
OneAccountPerEmail ==
  \A u, v \in Users : email[u] = email[v] /\ email[u] # None => u = v

(* The links that revoke_lineage follows stay within one lineage and one   *)
(* user, start at revoked tokens, join nowhere, and form no cycle, so that *)
(* the walk ends; this holds also when rotations of one token overtake     *)
(* each other.                                                             *)
ChainsAreSound ==
  /\ \A t \in Tokens : replacedBy[t] # None =>
       LET u == replacedBy[t]
       IN  t \in revoked /\ owner[u] = owner[t] /\ root[u] = root[t] /\ u # root[u]
  /\ \A t, u \in Tokens : replacedBy[t] = replacedBy[u] /\ replacedBy[t] # None => t = u
  /\ \A S \in SUBSET Tokens : S # {} => \E t \in S : replacedBy[t] \notin S

(* A revoked token stays revoked.  The link from it, which a logout with   *)
(* it has to follow, is lost only where two requests for the lineage       *)
(* overlapped: written over by a second rotation, or cut if it had expired. *)
RevocationIsForever ==
  [][/\ revoked \subseteq revoked'
     /\ \A t \in Tokens : replacedBy[t] # None /\ replacedBy'[t] # replacedBy[t] =>
          /\ root[t] \in overlapped
          /\ replacedBy'[t] = None => t \in expired]_vars

(* A lineage whose requests came one after the other has at most one       *)
(* usable token, whatever replies were lost.                               *)
OneLiveToken ==
  \A r \in Tokens \ overlapped : Cardinality(Live(r)) <= 1

(* After a logout with any token of such a lineage, be it an old one, the  *)
(* lineage has no usable token.                                            *)
LogoutEndsLineage ==
  \A r \in loggedOut \ overlapped : Live(r) = {}
=============================================================================
