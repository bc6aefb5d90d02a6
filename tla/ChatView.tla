------------------------------ MODULE ChatView ------------------------------
(***************************************************************************)
(* A page of the frontend (app.js): the chats it keeps in memory, the one  *)
(* that is shown, and the answers of the gateway and the messages of the   *)
(* socket that arrive while the user goes on clicking.                     *)
(*                                                                         *)
(* Callbacks run to completion between two awaits, so a step is what a     *)
(* click, an answer or a message runs.  loadChats puts new objects in the  *)
(* place of the chats, while callbacks still hold the old ones and the     *)
(* sidebar the old ids.  The clean view is modelled as the set of messages *)
(* it shows; the raw view is kept in the same way, and shows more.         *)
(***************************************************************************)
EXTENDS Naturals, Sequences, FiniteSets, SequencesExt

CONSTANTS
  Conversations,  \* interaction ids
  Queries,        \* the user's requests
  Earlier,        \* Earlier[q]: the conversation of a query older than the page, or None
  HistoryLimit,   \* messages in the one page of a history that is asked for
  ListLimit,      \* chats in the one page of the list
  MaxObjects,     \* bound on the chat objects the page makes
  MaxLists,       \* bound on the calls of loadChats
  None

Objects == 1 .. MaxObjects
Lists == 1 .. MaxLists

VARIABLES
  loggedIn,  \* a token is in localStorage; the user of the model is its owner
  obj,       \* obj[o]: a chat object
  made,      \* the objects made so far are 1 .. made
  chats,     \* the objects in the array chats
  current,   \* currentChatId, or None
  sidebar,   \* the ids in the onclick closures of the list that is rendered
  dom,       \* what cleanOutput shows
  astray,    \* history: a dropped chat was chosen, and none has been shown since
  load,      \* the history request historyAbortController belongs to, or None
  list,      \* list[k]: the k-th call of loadChats
  target,    \* target[q]: the object captured by btnRun until its answer arrives, or 0
  home,      \* home[q]: the interaction_id q was sent with
  status,    \* status[q]: what the services have done about q
  due        \* history: queries whose result the page got and should still show

serverVars == <<home, status>>
pageVars == <<chats, current, dom, load, obj, sidebar, astray>>

vars == <<loggedIn, pageVars, made, list, target, serverVars, due>>

(* own: made by createChat, with an id of its own (Date.now()); the id of  *)
(* a chat from the server is its interaction_id.  A stray message answers  *)
(* a request sent from no chat.                                            *)
Messages == Queries \X {"prompt", "accepted", "stray", "result"}

Chat == [conv : Conversations \cup {None}, own : BOOLEAN, cache : SUBSET Messages,
         loaded : BOOLEAN, loading : BOOLEAN]

(* A request for a history, sent with a token or without.                  *)
Loads == [object : Objects, answer : {None} \cup SUBSET Messages, token : BOOLEAN]

ASSUME ViewAssumption ==
  /\ IsFiniteSet(Conversations)
  /\ Earlier \in [Queries -> Conversations \cup {None}]
  /\ HistoryLimit \in Nat \ {0}
  /\ ListLimit \in Nat \ {0}
  /\ MaxObjects \in Nat
  /\ MaxLists \in Nat \ {0}
  /\ None \notin Conversations \cup (Conversations \X BOOLEAN) \cup Loads
  /\ None \notin Nat

NewChat(c, own) == [conv |-> c, own |-> own, cache |-> {}, loaded |-> own, loading |-> FALSE]

IdOf(ob, o) == <<ob[o].conv, ob[o].own>>
Id(o) == IdOf(obj, o)
Ids(ob, list_) == {IdOf(ob, o) : o \in list_}

(* A result without a text ("failed") has no place in the clean view.      *)
Stored == {q \in Queries : status[q] \notin {"new", "sent"}}
Settled == {q \in Queries : status[q] \in {"settled", "told"}}

(* The first page of S, whose order is not modelled.                       *)
FirstPages(S, limit) ==
  {T \in SUBSET S : \/ T = S /\ Cardinality(S) <= limit
                    \/ Cardinality(T) = limit}

(* GET /chats/c/messages: the prompts of one page, with their responses.   *)
Histories(c) ==
  {{<<q, "prompt">> : q \in page} \cup {<<q, "result">> : q \in page \cap Settled} :
     page \in FirstPages({q \in Stored : home[q] = c}, HistoryLimit)}

TypeOK ==
  /\ loggedIn \in BOOLEAN
  /\ made \in 0 .. MaxObjects
  /\ obj \in [Objects -> Chat]
  /\ \A o \in 1 .. made : obj[o].conv # None
  /\ chats \subseteq 1 .. made
  /\ current \in {None} \cup (Conversations \X BOOLEAN)
  /\ sidebar \subseteq Conversations \X BOOLEAN
  /\ dom \subseteq Messages
  /\ astray \in BOOLEAN
  /\ load \in {None} \cup Loads
  /\ load # None => load.object <= made
  /\ list \in [Lists -> [stage : {"unused", "asked", "answered", "over"},
                         found : SUBSET Conversations]]
  /\ target \in [Queries -> 0 .. made \cup {None}]
  /\ home \in [Queries -> Conversations \cup {None}]
  /\ status \in [Queries -> {"new", "sent", "stored", "settled", "failed", "told"}]
  /\ \A q \in Queries : home[q] = None <=> status[q] = "new"
  /\ due \subseteq Settled

(* The page is opened with a token: updateStatus calls loadChats.          *)
Init ==
  /\ loggedIn = TRUE
  /\ obj = [o \in Objects |-> NewChat(None, FALSE)]
  /\ made = 0
  /\ chats = {}
  /\ current = None
  /\ sidebar = {}
  /\ dom = {}
  /\ astray = FALSE
  /\ load = None
  /\ list = [k \in Lists |->
       [stage |-> IF k = 1 THEN "asked" ELSE "unused", found |-> {}]]
  /\ target = [q \in Queries |-> None]
  /\ home = Earlier
  /\ status = [q \in Queries |-> IF Earlier[q] = None THEN "new" ELSE "stored"]
  /\ due = {}

-----------------------------------------------------------------------------
(* switchChat.                                                             *)

(* What is shown is kept in the chat that is left, unless it is loading.   *)
Saved(list_, ob) ==
  [o \in Objects |->
     IF o \in list_ /\ IdOf(ob, o) = current /\ ~ob[o].loading
       THEN [ob[o] EXCEPT !.cache = dom] ELSE ob[o]]

(* Mutant of Aborted: loaded is set with loading, in the finally clause.   *)
AbortedAsLoaded(ob) ==
  IF load = None THEN ob
  ELSE [ob EXCEPT ![load.object].loading = FALSE, ![load.object].loaded = TRUE]

(* The history request of the chat that is left ends with an AbortError.   *)
Aborted(ob) ==
  IF load = None THEN ob ELSE [ob EXCEPT ![load.object].loading = FALSE]

(* switchChat(o), with the objects ob in the array list_.  The sidebar is  *)
(* rendered at its end, which is after the answer if one is awaited.       *)
Show(o, list_, ob) ==
  LET left == Aborted(Saved(list_, ob))
  IN  /\ chats' = list_
      /\ current' = IdOf(ob, o)
      /\ astray' = FALSE
      /\ IF ob[o].loaded
           THEN /\ dom' = left[o].cache
                /\ load' = None
                /\ obj' = left
                /\ sidebar' = Ids(ob, list_)
           ELSE /\ dom' = {}
                /\ load' = [object |-> o, answer |-> None, token |-> loggedIn']
                /\ obj' = [left EXCEPT ![o].loading = TRUE]
                /\ UNCHANGED sidebar

SwitchChat(o) ==
  /\ o \in chats
  /\ Id(o) \in sidebar
  /\ current # Id(o)
  /\ UNCHANGED loggedIn
  /\ Show(o, chats, obj)
  /\ UNCHANGED <<made, list, target, serverVars, due>>

(* The sidebar still has a chat that loadChats dropped: its id is current, *)
(* and what was shown before stays.                                        *)
SwitchToDropped(id) ==
  /\ id \in sidebar
  /\ id \notin Ids(obj, chats)
  /\ current # id
  /\ current' = id
  /\ obj' = Aborted(Saved(chats, obj))
  /\ load' = None
  /\ astray' = TRUE
  /\ UNCHANGED <<loggedIn, chats, dom, sidebar, made, list, target, serverVars, due>>

NewIds == Conversations \ ({obj[o].conv : o \in Objects} \cup {home[q] : q \in Queries})

(* A chat with a new id and a new interaction_id, in front of list_.       *)
Create(list_) ==
  /\ made < MaxObjects
  /\ \E c \in NewIds :
       Show(made + 1, list_ \cup {made + 1}, [obj EXCEPT ![made + 1] = NewChat(c, TRUE)])
  /\ made' = made + 1

CreateChat ==
  /\ UNCHANGED loggedIn
  /\ Create(chats)
  /\ UNCHANGED <<list, target, serverVars, due>>

-----------------------------------------------------------------------------
(* The history of a chat.                                                  *)

(* The messages are those of the user whose token came with the request.   *)
AnswerHistory ==
  /\ load # None
  /\ load.answer = None
  /\ \E answer \in IF load.token THEN Histories(obj[load.object].conv) ELSE {{}} :
       load' = [load EXCEPT !.answer = answer]
  /\ UNCHANGED <<loggedIn, chats, current, dom, obj, sidebar, astray, made, list, target,
                 serverVars, due>>

(* q is not in the page of its history, which is full.                     *)
BeyondPage(q) ==
  /\ <<q, "prompt">> \notin load.answer
  /\ Cardinality({x \in Queries : <<x, "prompt">> \in load.answer}) = HistoryLimit

(* The page starts afresh from what came; what was added while it was on   *)
(* its way is gone.                                                        *)
HistoryArrives ==
  /\ load # None
  /\ load.answer # None
  /\ load' = None
  /\ IF current = Id(load.object)
       THEN /\ obj' = [obj EXCEPT ![load.object].cache = load.answer,
                                  ![load.object].loaded = TRUE,
                                  ![load.object].loading = FALSE]
            /\ dom' = load.answer
            /\ sidebar' = Ids(obj, chats)
            /\ due' = {q \in due : ~(home[q] = current[1] /\ BeyondPage(q))}
       ELSE /\ obj' = [obj EXCEPT ![load.object].loading = FALSE]
            /\ UNCHANGED <<dom, sidebar, due>>
  /\ UNCHANGED <<loggedIn, chats, current, astray, made, list, target, serverVars>>

(* Mutant of HistoryFails: loading is reset on success only.               *)
HistoryFailsForever ==
  /\ load # None
  /\ load' = None
  /\ obj' = [obj EXCEPT ![load.object].cache = {}]
  /\ dom' = {}
  /\ sidebar' = Ids(obj, chats)
  /\ UNCHANGED <<loggedIn, chats, current, astray, made, list, target, serverVars, due>>

(* apiRequest returns null: an error, or no network.                       *)
HistoryFails ==
  /\ load # None
  /\ load' = None
  /\ IF current = Id(load.object)
       THEN /\ obj' = [obj EXCEPT ![load.object].cache = {}, ![load.object].loading = FALSE]
            /\ dom' = {}
            /\ sidebar' = Ids(obj, chats)
       ELSE /\ obj' = [obj EXCEPT ![load.object].loading = FALSE]
            /\ UNCHANGED <<dom, sidebar>>
  /\ UNCHANGED <<loggedIn, chats, current, astray, made, list, target, serverVars, due>>

-----------------------------------------------------------------------------
(* loadChats.                                                              *)

Ask(k) ==
  /\ list[k].stage = "unused"
  /\ list' = [list EXCEPT ![k].stage = "asked"]

(* Ten minutes without a click, or btnRefresh.                             *)
LoadChats(k) ==
  /\ loggedIn
  /\ Ask(k)
  /\ UNCHANGED <<loggedIn, pageVars, made, target, serverVars, due>>

AnswerList(k) ==
  /\ list[k].stage = "asked"
  /\ \E found \in FirstPages({home[q] : q \in Stored}, ListLimit) :
       list' = [list EXCEPT ![k].stage = "answered", ![k].found = found]
  /\ UNCHANGED <<loggedIn, pageVars, made, target, serverVars, due>>

(* New objects for all chats; the first of them is switched to, unless it  *)
(* is the current one.                                                     *)
ListArrives(k) ==
  LET found == SetToSeq(list[k].found)
      new == {made + i : i \in DOMAIN found}
      ob == [o \in Objects |-> IF o \in new THEN NewChat(found[o - made], FALSE) ELSE obj[o]]
  IN  /\ list[k].stage = "answered"
      /\ list[k].found # {}
      /\ list' = [list EXCEPT ![k].stage = "over"]
      /\ made + Len(found) <= MaxObjects
      /\ made' = made + Len(found)
      /\ UNCHANGED <<loggedIn, target, serverVars, due>>
      /\ \E first \in new :
           IF current = IdOf(ob, first)
             THEN /\ chats' = new
                  /\ obj' = ob
                  /\ UNCHANGED <<current, dom, load, sidebar, astray>>
             ELSE Show(first, new, ob)

(* No chats, or no answer: an empty chat takes the place of all others.    *)
ListEmpty(k) ==
  /\ \/ list[k].stage = "asked"
     \/ list[k].stage = "answered" /\ list[k].found = {}
  /\ list' = [list EXCEPT ![k].stage = "over"]
  /\ UNCHANGED loggedIn
  /\ Create({})
  /\ UNCHANGED <<target, serverVars, due>>

-----------------------------------------------------------------------------
(* Requests and their results.                                             *)

(* Mutant of LogToClean: what comes is shown at once, in any chat.         *)
LogToAnyClean(o, message) ==
  /\ obj' = [obj EXCEPT ![o].cache = @ \cup {message}]
  /\ dom' = dom \cup {message}

(* To the cached view, and to the page if the chat has the current id.     *)
LogToClean(o, message) ==
  /\ obj' = [obj EXCEPT ![o].cache = @ \cup {message}]
  /\ dom' = IF Id(o) = current THEN dom \cup {message} ELSE dom

(* btnRun with a chat.  A chat that is titled "Chat ..." gets a title, and *)
(* the sidebar is rendered; titles are not modelled.                       *)
RunInChat(q, o) ==
  /\ Id(o) = current
  /\ target' = [target EXCEPT ![q] = o]
  /\ home' = [home EXCEPT ![q] = obj[o].conv]
  /\ sidebar' \in {sidebar, Ids(obj, chats)}

(* btnRun without one, before the first list or after the choice of a chat *)
(* that was dropped: the services give it a new interaction_id.            *)
RunOutside(q) ==
  /\ current \notin Ids(obj, chats)
  /\ target' = [target EXCEPT ![q] = 0]
  /\ \E c \in NewIds : home' = [home EXCEPT ![q] = c]
  /\ UNCHANGED sidebar

Run(q) ==
  /\ status[q] = "new"
  /\ loggedIn
  /\ RunOutside(q) \/ \E o \in chats : RunInChat(q, o)
  /\ status' = [status EXCEPT ![q] = "sent"]
  /\ UNCHANGED <<loggedIn, chats, current, dom, load, obj, astray, made, list, due>>

(* The row is committed.                                                   *)
Accept(q) ==
  /\ status[q] = "sent"
  /\ status' = [status EXCEPT ![q] = "stored"]
  /\ UNCHANGED <<loggedIn, pageVars, made, list, target, home, due>>

(* The answer goes to the object captured before the await; if there was   *)
(* none, to the chat that is current now, if there is one.                 *)
RunArrives(q) ==
  /\ target[q] # None
  /\ q \in Stored
  /\ IF target[q] # 0
       THEN LogToClean(target[q], <<q, "accepted">>)
       ELSE \/ \E o \in chats : Id(o) = current /\ LogToClean(o, <<q, "stray">>)
            \/ current \notin Ids(obj, chats) /\ UNCHANGED <<obj, dom>>
  /\ target' = [target EXCEPT ![q] = None]
  /\ UNCHANGED <<loggedIn, chats, current, load, sidebar, astray, made, list, serverVars, due>>

Settle(q) ==
  /\ status[q] = "stored"
  /\ \E s \in {"settled", "failed"} : status' = [status EXCEPT ![q] = s]
  /\ UNCHANGED <<loggedIn, pageVars, made, list, target, home, due>>

(* The history of q's chat is on its way, and does not have its result, or *)
(* was asked for without a token and has nothing.                          *)
Overtaken(q) ==
  /\ load # None
  /\ obj[load.object].conv = home[q]
  /\ ~load.token \/ (load.answer # None /\ <<q, "result">> \notin load.answer)

(* onmessage.  A result that no socket of the page hears stays "settled";  *)
(* one without a text changes nothing that is modelled.                    *)
Push(q) ==
  /\ status[q] = "settled"
  /\ loggedIn
  /\ status' = [status EXCEPT ![q] = "told"]
  /\ IF \E o \in chats : obj[o].conv = home[q]
       THEN /\ \E o \in chats : obj[o].conv = home[q] /\ LogToClean(o, <<q, "result">>)
            /\ due' = IF Overtaken(q) THEN due ELSE due \cup {q}
       ELSE UNCHANGED <<obj, dom, due>>
  /\ UNCHANGED <<loggedIn, chats, current, load, sidebar, astray, made, list, target, home>>

-----------------------------------------------------------------------------
(* btnClearTerminal: the page is emptied, the cached view is not.          *)
Clear ==
  /\ dom # {}
  /\ dom' = {}
  /\ due' = {q \in due : \A o \in chats : Id(o) = current => obj[o].conv # home[q]}
  /\ UNCHANGED <<loggedIn, chats, current, load, obj, sidebar, astray, made, list, target,
                 serverVars>>

Login(k) ==
  /\ ~loggedIn
  /\ loggedIn' = TRUE
  /\ Ask(k)
  /\ UNCHANGED <<pageVars, made, target, serverVars, due>>

(* The memory is cleared, and updateStatus makes a blank chat.             *)
Logout ==
  /\ loggedIn
  /\ loggedIn' = FALSE
  /\ due' = {}
  /\ made < MaxObjects
  /\ \E c \in NewIds :
       /\ chats' = {made + 1}
       /\ current' = <<c, TRUE>>
       /\ sidebar' = {<<c, TRUE>>}
       /\ obj' = [Aborted(obj) EXCEPT ![made + 1] = NewChat(c, TRUE)]
  /\ made' = made + 1
  /\ dom' = {}
  /\ astray' = FALSE
  /\ load' = None
  /\ UNCHANGED <<list, target, serverVars>>

-----------------------------------------------------------------------------
Click ==
  \/ \E o \in Objects : SwitchChat(o)
  \/ \E id \in Conversations \X BOOLEAN : SwitchToDropped(id)
  \/ CreateChat \/ Clear \/ Logout
  \/ \E k \in Lists : LoadChats(k) \/ Login(k)
  \/ \E q \in Queries : Run(q)

Arrival ==
  \/ HistoryArrives \/ HistoryFails
  \/ \E k \in Lists : ListArrives(k) \/ ListEmpty(k)
  \/ \E q \in Queries : RunArrives(q) \/ Push(q)

ServerStep ==
  \/ AnswerHistory
  \/ \E k \in Lists : AnswerList(k)
  \/ \E q \in Queries : Accept(q) \/ Settle(q)

Next == Click \/ Arrival \/ ServerStep

Spec == Init /\ [][Next]_vars

-----------------------------------------------------------------------------
(* Whatever answer comes when, the page shows only messages of the chat    *)
(* that is chosen, until a chat is chosen that was dropped; and a chat     *)
(* that counts as loaded, whose view is shown again without being asked    *)
(* for, keeps only messages of its own even then.  Only the answer to a    *)
(* request that was sent from no chat may be in any.                       *)
OfConversation(messages, c) == \A m \in messages : m[2] = "stray" \/ home[m[1]] = c

ChatsDoNotMix ==
  /\ dom # {} /\ ~astray => current # None /\ OfConversation(dom, current[1])
  /\ \A o \in Objects : obj[o].loaded => OfConversation(obj[o].cache, obj[o].conv)

(* A chat counts as loading, so that its view is not saved, exactly while  *)
(* its history is on the way, though requests are aborted and fail.        *)
LoadingEnds ==
  \A o \in Objects : obj[o].loading <=> load # None /\ load.object = o

(* A chat that counts as loaded, and is not asked for again, shows every   *)
(* result with a text the page got for it, unless the user cleared it, it  *)
(* came while an older history was on its way, or the history that came    *)
(* after it was a full page of others.                                     *)
View(o) == IF Id(o) = current THEN dom ELSE obj[o].cache

LoadedIsComplete ==
  \A o \in chats : obj[o].loaded =>
    \A q \in due : home[q] = obj[o].conv => <<q, "result">> \in View(o)
=============================================================================
