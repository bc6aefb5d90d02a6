----------------------------- MODULE ChatHistory -----------------------------
(***************************************************************************)
(* GET /api/chats and GET /api/chats/<id>/messages: lists of rows of       *)
(* queries, cut into pages, while requests commit new rows and the result  *)
(* consumer settles them.  A request runs several statements, each of      *)
(* which sees what is committed when it runs (READ COMMITTED): the count,  *)
(* the page, and, for messages, the responses of the page.                 *)
(*                                                                         *)
(* created_at is Postgres's now(), the start of the transaction, so a row  *)
(* may appear that is older than rows which were there before.             *)
(***************************************************************************)
EXTENDS Integers, Sequences, FiniteSets, SequencesExt

CONSTANTS
  Queries,       \* the queries clients ever submit
  Users, Chats,
  UserOf,        \* UserOf[q]: column user_id
  ChatOf,        \* ChatOf[q]: column interaction_id
  CreatedAt,     \* CreatedAt[q]: column created_at, no two the same
  Reader,        \* the user who reads lists
  OpenChat,      \* the chat whose messages are read
  Limits,        \* values of parameter limit, 0 for none
  DefaultLimit,  \* DEFAULT_PAGINATION_LIMIT
  MaxLimit,      \* MAX_PAGINATION_LIMIT
  MaxReads       \* bound on the number of lists read from end to end

ASSUME HistoryAssumption ==
  /\ UserOf \in [Queries -> Users]
  /\ ChatOf \in [Queries -> Chats]
  /\ CreatedAt \in [Queries -> Nat]
  /\ \A p, q \in Queries : CreatedAt[p] = CreatedAt[q] => p = q
  /\ Reader \in Users /\ OpenChat \in Chats
  /\ Limits \subseteq Nat
  /\ MaxLimit \in Nat /\ DefaultLimit \in 1 .. MaxLimit
  /\ MaxReads \in Nat

VARIABLES
  rows,       \* the queries whose row is committed
  completed,  \* those whose state is COMPLETED
  responses,  \* those with a row in responses
  phase,      \* where the reading client and the request it waits for are
  list,       \* the list it reads: "chats" or "messages"
  limit,      \* parameter limit of its requests
  advance,    \* does it go on after the "items" it got or by the "limit" of the answer?
  skip,       \* parameter skip of the next request
  total,      \* field total of the answer
  page,       \* the rows of the page, as [query, completed, response]
  seen,       \* the queries of all pages so far
  atStart,    \* history: what the list held when the reading began
  changed,    \* history: what happened since to the list: "added", "moved"
  reads       \* history

rowVars == <<rows, completed, responses>>

vars == <<rowVars, phase, list, limit, advance, skip, total, page, seen, atStart,
          changed, reads>>

Items == [query : Queries, completed : BOOLEAN, response : BOOLEAN]

TypeOK ==
  /\ rows \subseteq Queries
  /\ completed \subseteq rows
  /\ responses \subseteq completed
  /\ phase \in {"idle", "requested", "counted", "paged", "answered"}
  /\ list \in {"chats", "messages"}
  /\ limit \in Limits \cup {0}
  /\ advance \in {"items", "limit"}
  /\ skip \in Nat /\ total \in Nat
  /\ page \in Seq(Items)
  /\ seen \in Seq(Queries)
  /\ atStart \subseteq Queries
  /\ changed \subseteq {"added", "moved"}
  /\ reads \in 0 .. MaxReads

Init ==
  /\ rows = {} /\ completed = {} /\ responses = {}
  /\ phase = "idle" /\ list = "chats"
  /\ limit = 0 /\ advance = "items"
  /\ skip = 0 /\ total = 0
  /\ page = <<>> /\ seen = <<>>
  /\ atStart = {} /\ changed = {}
  /\ reads = 0

-----------------------------------------------------------------------------
(* The statements.                                                         *)
(* The elements of S, the one with the least key first.                    *)
SortedBy(S, key) ==
  [i \in 1 .. Cardinality(S) |->
     CHOOSE q \in S : Cardinality({p \in S : key[p] < key[q]}) = i - 1]

Newest(S) == SortedBy(S, [q \in Queries |-> -CreatedAt[q]])
Oldest(S) == SortedBy(S, CreatedAt)

(* Mutant of FirstTimes: the sub-select is not restricted to the user.     *)
FirstTimesOfAll(S) ==
  {[chat |-> ChatOf[q], time |-> CreatedAt[q]] : q \in
     {q \in S : \A p \in S : ChatOf[p] = ChatOf[q] => CreatedAt[q] <= CreatedAt[p]}}

(* The sub-select: min(created_at) of each chat of the reader.             *)
FirstTimes(S) ==
  LET own == {q \in S : UserOf[q] = Reader}
  IN  {[chat |-> ChatOf[q], time |-> CreatedAt[q]] : q \in
         {q \in own : \A p \in own : ChatOf[p] = ChatOf[q] => CreatedAt[q] <= CreatedAt[p]}}

(* get_chats_paginated: the rows that join with it, the newest first.      *)
ChatRows(S) ==
  Newest({q \in S : [chat |-> ChatOf[q], time |-> CreatedAt[q]] \in FirstTimes(S)})

(* get_chat_messages_paginated: the oldest first.                          *)
MessageRows(S) == Oldest({q \in S : UserOf[q] = Reader /\ ChatOf[q] = OpenChat})

Listing(l, S) == IF l = "chats" THEN ChatRows(S) ELSE MessageRows(S)

(* QueryService: the default, and the cap.                                 *)
EffectiveLimit ==
  LET wanted == IF limit = 0 THEN DefaultLimit ELSE limit
  IN  IF wanted < MaxLimit THEN wanted ELSE MaxLimit

(* OFFSET skip LIMIT limit.                                                *)
Slice(s) ==
  LET last == skip + EffectiveLimit
  IN  SubSeq(s, skip + 1, IF last < Len(s) THEN last ELSE Len(s))

-----------------------------------------------------------------------------
(* Writers.                                                                *)

(* A handler of POST /api/run commits its row.                             *)
CommitQuery(q) ==
  /\ q \notin rows
  /\ rows' = rows \cup {q}
  /\ LET before == Listing(list, rows)
         after == Listing(list, rows')
     IN  changed' = changed
           \cup {x \in {"added"} : phase # "idle" /\ after # before}
           \cup {x \in {"moved"} : phase # "idle" /\ ~(ToSet(before) \subseteq ToSet(after))}
  /\ UNCHANGED <<completed, responses, phase, list, limit, advance, skip, total, page, seen,
                 atStart, reads>>

(* The result consumer commits state COMPLETED and, if the result has a    *)
(* text, the response, together.  A FAILED query looks like a PENDING one. *)
Settle(q) ==
  /\ q \in rows \ completed
  /\ completed' = completed \cup {q}
  /\ responses' \in {responses, responses \cup {q}}
  /\ UNCHANGED <<rows, phase, list, limit, advance, skip, total, page, seen,
                 atStart, changed, reads>>

-----------------------------------------------------------------------------
(* A client that reads a list from end to end.                             *)
StartReading(l, lim, by) ==
  /\ phase = "idle"
  /\ reads < MaxReads
  /\ reads' = reads + 1
  /\ phase' = "requested"
  /\ list' = l /\ limit' = lim /\ advance' = by
  /\ skip' = 0
  /\ seen' = <<>>
  /\ atStart' = ToSet(Listing(l, rows))
  /\ changed' = {}
  /\ UNCHANGED <<rowVars, total, page>>

(* The count of the rows of the list.                                      *)
CountRows ==
  /\ phase = "requested"
  /\ phase' = "counted"
  /\ total' = Len(Listing(list, rows))
  /\ UNCHANGED <<rowVars, list, limit, advance, skip, page, seen, atStart,
                 changed, reads>>

ReadPage ==
  /\ phase = "counted"
  /\ phase' = IF list = "messages" THEN "paged" ELSE "answered"
  /\ LET found == Slice(Listing(list, rows))
     IN  page' = [i \in DOMAIN found |->
                    [query |-> found[i], completed |-> found[i] \in completed,
                     response |-> FALSE]]
  /\ UNCHANGED <<rowVars, list, limit, advance, skip, total, seen, atStart,
                 changed, reads>>

(* Mutant of LoadResponses: the responses are read before the states.      *)
LoadStatesLast ==
  /\ phase = "paged"
  /\ phase' = "answered"
  /\ page' = [i \in DOMAIN page |->
       [page[i] EXCEPT !.completed = page[i].query \in completed,
                       !.response = page[i].completed /\ page[i].query \in responses]]
  /\ UNCHANGED <<rowVars, list, limit, advance, skip, total, seen, atStart, changed, reads>>

(* selectinload(QueryModel.responses): a statement of its own.             *)
LoadResponses ==
  /\ phase = "paged"
  /\ phase' = "answered"
  /\ page' = [i \in DOMAIN page |-> [page[i] EXCEPT !.response = page[i].query \in responses]]
  /\ UNCHANGED <<rowVars, list, limit, advance, skip, total, seen, atStart,
                 changed, reads>>

(* Mutant of ReportedLimit: the largest limit stands for no limit.         *)
ReportedMaximum == IF limit = 0 THEN MaxLimit ELSE limit

(* Field limit of PaginatedResponse: the parameter as it was given.        *)
ReportedLimit == IF limit = 0 THEN Len(page) ELSE limit

(* The client takes the page, and goes on until one is empty.              *)
NextPage ==
  /\ phase = "answered"
  /\ page # <<>>
  /\ phase' = "requested"
  /\ seen' = seen \o [i \in DOMAIN page |-> page[i].query]
  /\ skip' = skip + (IF advance = "items" THEN Len(page) ELSE ReportedLimit)
  /\ page' = <<>>
  /\ UNCHANGED <<rowVars, list, limit, advance, total, atStart, changed, reads>>

StopReading ==
  /\ phase = "answered"
  /\ page = <<>>
  /\ phase' = "idle"
  /\ UNCHANGED <<rowVars, list, limit, advance, skip, total, page, seen,
                 atStart, changed, reads>>

Reading == CountRows \/ ReadPage \/ LoadResponses \/ NextPage \/ StopReading

Next ==
  \/ \E q \in Queries : CommitQuery(q) \/ Settle(q)
  \/ \E l \in {"chats", "messages"} : \E lim \in Limits : \E by \in {"items", "limit"} :
       StartReading(l, lim, by)
  \/ Reading

Spec == Init /\ [][Next]_vars

-----------------------------------------------------------------------------
(* Reading pages while rows are added skips nothing that was there at the  *)
(* start, though it may repeat it; unless, in the list of chats, an older  *)
(* first message turns up and moves its chat back, or the client asked for *)
(* more than MaxLimit and goes on by the limit in the answer.              *)
AtEnd == phase = "answered" /\ page = <<>>

Trusted == advance = "items" \/ limit <= MaxLimit

NothingSkipped ==
  AtEnd /\ Trusted /\ (list = "messages" \/ "moved" \notin changed) => atStart \subseteq ToSet(seen)

(* If nothing changes in the meantime, the pages put together are each of  *)
(* the reader's chats once, by its first message, the newest first (though *)
(* the outer select of the join does not look at the user), or all their   *)
(* messages of the chat, the oldest first; and total is their number.      *)
Own(q) == UserOf[q] = Reader

First(q) == \A p \in rows : Own(p) /\ ChatOf[p] = ChatOf[q] => CreatedAt[q] <= CreatedAt[p]

Wanted(q) == Own(q) /\ IF list = "chats" THEN First(q) ELSE ChatOf[q] = OpenChat

QuietReadIsExact ==
  AtEnd /\ Trusted /\ changed = {} =>
    /\ ToSet(seen) = {q \in rows : Wanted(q)}
    /\ \A i, j \in DOMAIN seen :
         i < j => IF list = "chats" THEN CreatedAt[seen[i]] > CreatedAt[seen[j]]
                  ELSE CreatedAt[seen[i]] < CreatedAt[seen[j]]
    /\ total = Len(seen)

(* A message that is shown as COMPLETED comes with the response it has,    *)
(* although state and responses are read by different statements.          *)
CompletedHasResponse ==
  phase = "answered" /\ list = "messages" =>
    \A i \in DOMAIN page :
      page[i].completed /\ page[i].query \in responses => page[i].response
=============================================================================
