--------------------------- MODULE ChatViewProofs ---------------------------
(***************************************************************************)
(* Proofs about ChatView, for any numbers of conversations, queries, chat  *)
(* objects and calls of loadChats.                                         *)
(***************************************************************************)
EXTENDS ChatView, TLAPS, FiniteSetTheorems

USE ViewAssumption

-----------------------------------------------------------------------------
(* What holds of the chat objects, the page and the answers on their way.  *)

(* Objects not made yet are blank; the answers and the captured objects    *)
(* belong to the conversation they were asked for.                         *)
BlankInv == \A o \in Objects : o > made => obj[o].cache = {}
AnswerInv ==
  load # None /\ load.answer # None => OfConversation(load.answer, obj[load.object].conv)
TargetInv ==
  \A q \in Queries : target[q] \notin {None, 0} => home[q] = obj[target[q]].conv

(* The ids the page works with are those of objects it made, so that a new *)
(* chat is never taken for another.                                        *)
Known(id) == \E o \in 1 .. made : Id(o) = id
KnownInv == (current # None => Known(current)) /\ \A id \in sidebar : Known(id)

(* While a chat that was dropped is chosen, what is shown is not saved in  *)
(* a chat that counts as loaded, and no history is on its way.             *)
AstrayInv ==
  astray => load = None /\ \A o \in chats : Id(o) = current => ~obj[o].loaded

MixInv == ChatsDoNotMix /\ BlankInv /\ AnswerInv /\ TargetInv /\ KnownInv /\ AstrayInv

LEMMA InitInv == Init => TypeOK /\ LoadingEnds /\ MixInv
<1>. SUFFICES ASSUME Init
              PROVE  TypeOK /\ LoadingEnds /\ MixInv
  OBVIOUS
<1>1. NewChat(None, FALSE) \in Chat
  BY DEF NewChat, Chat
<1>2. /\ made = 0 /\ Objects \subseteq Nat
      /\ obj \in [Objects -> Chat]
      /\ \A o \in Objects : obj[o].cache = {} /\ obj[o].loading = FALSE
  BY <1>1 DEF Init, Objects, NewChat
<1>3. list \in [Lists -> [stage : {"unused", "asked", "answered", "over"},
                          found : SUBSET Conversations]]
  BY DEF Init
<1>4. /\ home = Earlier /\ home \in [Queries -> Conversations \cup {None}]
      /\ status \in [Queries -> {"new", "sent", "stored", "settled", "failed", "told"}]
      /\ \A q \in Queries : home[q] = None <=> status[q] = "new"
      /\ target \in [Queries -> {None}]
      /\ \A q \in Queries : target[q] = None
  BY DEF Init
<1>5. TypeOK
  <2>1. made \in 0 .. MaxObjects /\ (\A o \in 1 .. made : obj[o].conv # None) /\ chats \subseteq 1 .. made
    BY <1>2 DEF Init
  <2>2. target \in [Queries -> 0 .. made \cup {None}]
    BY <1>4
  <2>. QED
    BY <1>2, <1>3, <1>4, <2>1, <2>2 DEF Init, TypeOK
<1>6. LoadingEnds
  BY <1>2 DEF LoadingEnds, Init
<1>7. MixInv
  BY <1>2, <1>4 DEF MixInv, ChatsDoNotMix, BlankInv, AnswerInv, TargetInv, KnownInv, AstrayInv,
                    OfConversation, Init
<1>. QED
  BY <1>5, <1>6, <1>7

-----------------------------------------------------------------------------
(* switchChat.                                                             *)

LEMMA SavedFacts ==
  ASSUME NEW L, NEW ob \in [Objects -> Chat], dom \subseteq Messages
  PROVE  /\ Saved(L, ob) \in [Objects -> Chat]
         /\ \A p \in Objects :
              /\ Saved(L, ob)[p].conv = ob[p].conv
              /\ Saved(L, ob)[p].own = ob[p].own
              /\ Saved(L, ob)[p].loaded = ob[p].loaded
              /\ Saved(L, ob)[p].loading = ob[p].loading
              /\ \/ Saved(L, ob)[p].cache = ob[p].cache
                 \/ p \in L /\ IdOf(ob, p) = current /\ Saved(L, ob)[p].cache = dom
<1>1. \A p \in Objects : [ob[p] EXCEPT !.cache = dom] \in Chat
  BY DEF Chat
<1>. QED
  BY <1>1 DEF Saved, Chat

LEMMA AbortedFacts ==
  ASSUME NEW ob \in [Objects -> Chat], load # None => load.object \in Objects
  PROVE  /\ Aborted(ob) \in [Objects -> Chat]
         /\ \A p \in Objects :
              /\ Aborted(ob)[p].conv = ob[p].conv
              /\ Aborted(ob)[p].own = ob[p].own
              /\ Aborted(ob)[p].cache = ob[p].cache
              /\ Aborted(ob)[p].loaded = ob[p].loaded
              /\ Aborted(ob)[p].loading <=>
                   ob[p].loading /\ ~(load # None /\ load.object = p)
<1>1. CASE load = None
  BY <1>1 DEF Aborted
<1>2. CASE load # None
  <2>1. \A p \in Objects : [ob[p] EXCEPT !.loading = FALSE] \in Chat
    <3>. SUFFICES ASSUME NEW b \in BOOLEAN, NEW p \in Objects
                  PROVE  [ob[p] EXCEPT !.loading = b] \in Chat
      OBVIOUS
    <3>. QED
      BY DEF Chat
  <2>2. load.object \in Objects
    BY <1>2
  <2>. QED
    BY <1>2, <2>1, <2>2 DEF Aborted, Chat
<1>. QED
  BY <1>1, <1>2

(* The objects of ob are those of the page, perhaps with new ones that are *)
(* blank, and none of them is loading but the one load is for.             *)
Fits(ob) ==
  /\ ob \in [Objects -> Chat]
  /\ \A p \in Objects : ob[p].loaded => OfConversation(ob[p].cache, ob[p].conv)
  /\ \A p \in Objects : ob[p].loading <=> load # None /\ load.object = p

(* What is shown may be saved in a chat of L that counts as loaded.        *)
Savable(L, ob) == astray => \A p \in L : IdOf(ob, p) = current => ~ob[p].loaded

LEMMA ShowFacts ==
  ASSUME TypeOK, MixInv, loggedIn' \in BOOLEAN,
         NEW L, NEW ob, Fits(ob), NEW o \in Objects, ob[o].conv \in Conversations,
         Savable(L, ob), Show(o, L, ob)
  PROVE  /\ chats' = L
         /\ current' = IdOf(ob, o) /\ current' \in Conversations \X BOOLEAN
         /\ current' # None /\ current'[1] = ob[o].conv
         /\ dom' \subseteq Messages /\ OfConversation(dom', ob[o].conv)
         /\ load' \in {None} \cup Loads
         /\ load' # None => load'.object = o /\ load'.answer = None
         /\ obj' \in [Objects -> Chat]
         /\ astray' = FALSE
         /\ sidebar' = sidebar \/ sidebar' = Ids(ob, L)
         /\ \A p \in Objects :
              /\ obj'[p].conv = ob[p].conv /\ obj'[p].own = ob[p].own
              /\ obj'[p].loaded => OfConversation(obj'[p].cache, ob[p].conv)
              /\ obj'[p].loading <=> load' # None /\ load'.object = p
              /\ obj'[p].cache # ob[p].cache => p \in L
<1>. DEFINE saved == Saved(L, ob)
            left == Aborted(saved)
<1>1. /\ ob \in [Objects -> Chat] /\ dom \subseteq Messages
      /\ load # None => load.object \in Objects
  BY DEF Fits, TypeOK, Loads
<1>2. /\ saved \in [Objects -> Chat]
      /\ \A p \in Objects :
           /\ saved[p].conv = ob[p].conv
           /\ saved[p].own = ob[p].own
           /\ saved[p].loaded = ob[p].loaded
           /\ saved[p].loading = ob[p].loading
           /\ \/ saved[p].cache = ob[p].cache
              \/ p \in L /\ IdOf(ob, p) = current /\ saved[p].cache = dom
  BY <1>1, SavedFacts
<1>3. /\ left \in [Objects -> Chat]
      /\ \A p \in Objects :
           /\ left[p].conv = ob[p].conv
           /\ left[p].own = ob[p].own
           /\ left[p].loaded = ob[p].loaded
           /\ left[p].cache = saved[p].cache
           /\ ~left[p].loading
  <2>1. /\ left \in [Objects -> Chat]
        /\ \A p \in Objects :
             /\ left[p].conv = saved[p].conv
             /\ left[p].own = saved[p].own
             /\ left[p].loaded = saved[p].loaded
             /\ left[p].cache = saved[p].cache
             /\ left[p].loading <=> saved[p].loading /\ ~(load # None /\ load.object = p)
    BY <1>1, <1>2, AbortedFacts
  <2>. QED
    BY <1>2, <2>1 DEF Fits
<1>4. ASSUME NEW p \in Objects, ob[p].loaded
      PROVE  OfConversation(left[p].cache, ob[p].conv)
  <2>1. CASE saved[p].cache = ob[p].cache
    BY <1>3, <1>4, <2>1 DEF Fits
  <2>2. CASE p \in L /\ IdOf(ob, p) = current /\ saved[p].cache = dom
    <3>1. current[1] = ob[p].conv /\ ~astray
      BY <1>4, <2>2 DEF IdOf, Savable
    <3>. QED
      BY <1>3, <2>2, <3>1 DEF MixInv, ChatsDoNotMix, OfConversation
  <2>. QED
    BY <1>2, <2>1, <2>2
<1>5. ob[o] \in Chat /\ left[o] \in Chat
  BY <1>1, <1>3
<1>6. /\ chats' = L
      /\ current' = IdOf(ob, o) /\ current' \in Conversations \X BOOLEAN
      /\ current' # None /\ current'[1] = ob[o].conv
      /\ astray' = FALSE /\ (sidebar' = sidebar \/ sidebar' = Ids(ob, L))
  BY <1>5 DEF Show, IdOf, Chat
<1>7. CASE ob[o].loaded
  <2>1. dom' = left[o].cache /\ load' = None /\ obj' = left
    BY <1>7 DEF Show
  <2>2. dom' \subseteq Messages
    BY <1>5, <2>1 DEF Chat
  <2>3. OfConversation(dom', ob[o].conv)
    BY <1>4, <1>7, <2>1
  <2>. HIDE DEF left, saved
  <2>. QED
    BY <1>2, <1>3, <1>4, <1>6, <2>1, <2>2, <2>3
<1>8. CASE ~ob[o].loaded
  <2>1. /\ dom' = {}
        /\ load' = [object |-> o, answer |-> None, token |-> loggedIn']
        /\ obj' = [left EXCEPT ![o].loading = TRUE]
    BY <1>8 DEF Show
  <2>2. load' \in Loads /\ load' # None /\ load'.object = o /\ load'.answer = None
    BY <2>1 DEF Loads
  <2>3. [left[o] EXCEPT !.loading = TRUE] \in Chat
    BY <1>5 DEF Chat
  <2>4. /\ obj' \in [Objects -> Chat]
        /\ \A p \in Objects :
             /\ obj'[p].conv = left[p].conv
             /\ obj'[p].own = left[p].own
             /\ obj'[p].loaded = left[p].loaded
             /\ obj'[p].cache = left[p].cache
             /\ obj'[p].loading <=> p = o
    BY <1>3, <2>1, <2>3 DEF Chat
  <2>5. dom' \subseteq Messages /\ OfConversation(dom', ob[o].conv)
    BY <2>1 DEF OfConversation
  <2>. QED
    BY <1>2, <1>3, <1>4, <1>6, <2>2, <2>4, <2>5
<1>. QED
  BY <1>7, <1>8

(* The conjuncts of TypeOK that are about the page, and the others.        *)
PageType ==
  /\ made \in 0 .. MaxObjects
  /\ obj \in [Objects -> Chat]
  /\ \A o \in 1 .. made : obj[o].conv # None
  /\ chats \subseteq 1 .. made
  /\ current \in {None} \cup (Conversations \X BOOLEAN)
  /\ sidebar \subseteq Conversations \X BOOLEAN
  /\ dom \subseteq Messages
  /\ astray \in BOOLEAN
  /\ load \in {None} \cup Loads
  /\ load # None => load.object <= made

RestType ==
  /\ loggedIn \in BOOLEAN
  /\ list \in [Lists -> [stage : {"unused", "asked", "answered", "over"},
                         found : SUBSET Conversations]]
  /\ target \in [Queries -> 0 .. made \cup {None}]
  /\ home \in [Queries -> Conversations \cup {None}]
  /\ status \in [Queries -> {"new", "sent", "stored", "settled", "failed", "told"}]
  /\ \A q \in Queries : home[q] = None <=> status[q] = "new"
  /\ due \subseteq Settled

LEMMA TypeParts == TypeOK <=> PageType /\ RestType
  BY DEF TypeOK, PageType, RestType

LEMMA TypePartsPrimed == TypeOK' <=> PageType' /\ RestType'
  BY DEF TypeOK, PageType, RestType

LEMMA ObjFits ==
  ASSUME TypeOK, LoadingEnds, MixInv
  PROVE  Fits(obj) /\ \A p \in 1 .. made : p \in Objects /\ obj[p].conv \in Conversations
<1>1. /\ obj \in [Objects -> Chat] /\ made \in 0 .. MaxObjects
      /\ \A p \in 1 .. made : obj[p].conv # None
  BY DEF TypeOK
<1>2. \A p \in 1 .. made : p \in Objects
  BY <1>1 DEF Objects
<1>3. Fits(obj)
  BY <1>1 DEF Fits, MixInv, ChatsDoNotMix, LoadingEnds
<1>. QED
  BY <1>1, <1>2, <1>3 DEF Chat

LEMMA ShowKeeps ==
  ASSUME TypeOK, LoadingEnds, MixInv, loggedIn' \in BOOLEAN, UNCHANGED <<home, target>>,
         NEW L, NEW ob, Fits(ob), made' \in made .. MaxObjects,
         L \subseteq 1 .. made', NEW o \in L, Savable(L, ob), Show(o, L, ob),
         \A p \in 1 .. made' : ob[p].conv \in Conversations,
         \A p \in 1 .. made : IdOf(ob, p) = Id(p),
         \A p \in Objects : p > made' => ob[p].cache = {}
  PROVE  PageType' /\ LoadingEnds' /\ MixInv'
<1>1. made \in Nat /\ made' \in 0 .. MaxObjects /\ made <= made'
  BY DEF TypeOK
<1>2. 1 .. made' \subseteq Objects /\ 1 .. made \subseteq 1 .. made' /\ Objects' = Objects
  BY <1>1 DEF Objects
<1>3. o \in Objects /\ ob[o].conv \in Conversations
  BY <1>2
<1>3a. \A p \in 1 .. made : ob[p].conv = obj[p].conv
  BY DEF IdOf, Id
<1>4. /\ chats' = L
      /\ current' = IdOf(ob, o) /\ current' \in Conversations \X BOOLEAN
      /\ current' # None /\ current'[1] = ob[o].conv
      /\ dom' \subseteq Messages /\ OfConversation(dom', ob[o].conv)
      /\ load' \in {None} \cup Loads
      /\ load' # None => load'.object = o /\ load'.answer = None
      /\ obj' \in [Objects -> Chat]
      /\ astray' = FALSE
      /\ sidebar' = sidebar \/ sidebar' = Ids(ob, L)
      /\ \A p \in Objects :
           /\ obj'[p].conv = ob[p].conv /\ obj'[p].own = ob[p].own
           /\ obj'[p].loaded => OfConversation(obj'[p].cache, ob[p].conv)
           /\ obj'[p].loading <=> load' # None /\ load'.object = p
           /\ obj'[p].cache # ob[p].cache => p \in L
  BY <1>3, ShowFacts
<1>4a. \A p \in 1 .. made' : Id(p)' = IdOf(ob, p) /\ IdOf(ob, p) \in Conversations \X BOOLEAN
  BY <1>2, <1>4 DEF Id, IdOf, Fits, Chat
<1>5. PageType'
  <2>1. \A p \in 1 .. made' : obj'[p].conv # None
    BY <1>2, <1>4
  <2>2. o <= made'
    BY <1>1
  <2>3. sidebar' \subseteq Conversations \X BOOLEAN
    BY <1>4, <1>4a DEF Ids, TypeOK
  <2>. QED
    BY <1>1, <1>2, <1>4, <2>1, <2>2, <2>3 DEF PageType
<1>6. LoadingEnds'
  BY <1>2, <1>4 DEF LoadingEnds
<1>7. ChatsDoNotMix'
  BY <1>2, <1>4 DEF ChatsDoNotMix, OfConversation
<1>8. BlankInv'
  <2>1. \A p \in L : p <= made'
    BY <1>1
  <2>2. ASSUME NEW p \in Objects, p > made'
        PROVE  obj'[p].cache = {}
    <3>1. p \notin L
      BY <1>1, <2>1, <2>2 DEF Objects
    <3>. QED
      BY <1>4, <2>2, <3>1
  <2>. QED
    BY <1>2, <2>2 DEF BlankInv
<1>9. AnswerInv'
  BY <1>4 DEF AnswerInv
<1>10. TargetInv'
  <2>1. \A q \in Queries : target[q] \notin {None, 0} => target[q] \in 1 .. made
    BY <1>1 DEF TypeOK
  <2>. QED
    BY <1>2, <1>3a, <1>4, <2>1 DEF MixInv, TargetInv
<1>11. KnownInv'
  <2>1. \A p \in 1 .. made : p \in 1 .. made' /\ Id(p)' = Id(p)
    BY <1>2, <1>4a
  <2>2. \A id \in sidebar : Known(id)'
    BY <2>1 DEF MixInv, KnownInv, Known
  <2>3. \A p \in L : Known(IdOf(ob, p))'
    BY <1>4a DEF Known
  <2>. QED
    BY <1>4, <2>2, <2>3 DEF KnownInv, Ids
<1>12. AstrayInv'
  BY <1>4 DEF AstrayInv
<1>. QED
  BY <1>5, <1>6, <1>7, <1>8, <1>9, <1>10, <1>11, <1>12 DEF MixInv

LEMMA NewChatType ==
  ASSUME NEW c \in Conversations, NEW own \in BOOLEAN
  PROVE  /\ NewChat(c, own) \in Chat
         /\ NewChat(c, own).conv = c
         /\ NewChat(c, own).loaded = own
         /\ NewChat(c, own).cache = {}
         /\ ~NewChat(c, own).loading
  BY DEF NewChat, Chat

(* The objects with a blank one more, or several.                          *)
LEMMA MoreObjectsFit ==
  ASSUME TypeOK, LoadingEnds, MixInv, NEW n \in made .. MaxObjects,
         NEW ob \in [Objects -> Chat],
         \A p \in Objects : p \in 1 .. made \/ p > n => ob[p] = obj[p],
         \A p \in 1 .. n : p > made => /\ ob[p].conv \in Conversations
                                       /\ ob[p].cache = {} /\ ~ob[p].loading
  PROVE  /\ Fits(ob)
         /\ \A p \in 1 .. n : ob[p].conv \in Conversations
         /\ \A p \in 1 .. made : IdOf(ob, p) = Id(p)
         /\ \A p \in Objects : p > n => ob[p].cache = {}
<1>1. /\ made \in Nat /\ n \in Nat /\ made <= n /\ n <= MaxObjects
      /\ load # None => load.object <= made
  BY DEF TypeOK
<1>2. Fits(obj) /\ \A p \in 1 .. made : p \in Objects /\ obj[p].conv \in Conversations
  BY ObjFits
<1>3. /\ \A p \in 1 .. n : p \in Objects /\ (p \in 1 .. made \/ p > made)
      /\ \A p \in Objects : p \in 1 .. made \/ p > n \/ (p \in 1 .. n /\ p > made)
      /\ \A p \in Objects : p > made => ~(load # None /\ load.object = p)
      /\ \A p \in Objects : p > n => p > made
  BY <1>1 DEF Objects
<1>4. ASSUME NEW p \in Objects
      PROVE  /\ ob[p].loaded => OfConversation(ob[p].cache, ob[p].conv)
             /\ ob[p].loading <=> load # None /\ load.object = p
  <2>1. CASE p \in 1 .. made \/ p > n
    BY <1>2, <2>1 DEF Fits
  <2>2. CASE p \in 1 .. n /\ p > made
    BY <1>3, <2>2 DEF OfConversation
  <2>. QED
    BY <1>3, <2>1, <2>2
<1>5. \A p \in 1 .. n : ob[p].conv \in Conversations
  BY <1>2, <1>3
<1>6. \A p \in 1 .. made : IdOf(ob, p) = Id(p)
  BY <1>2 DEF IdOf, Id
<1>7. \A p \in Objects : p > n => ob[p].cache = {}
  BY <1>3 DEF MixInv, BlankInv
<1>. QED
  BY <1>4, <1>5, <1>6, <1>7 DEF Fits

LEMMA OneMoreObject ==
  ASSUME TypeOK, NEW c \in Conversations,
         NEW ob \in [Objects -> Chat], made < MaxObjects,
         NEW new, new = [ob EXCEPT ![made + 1] = NewChat(c, TRUE)]
  PROVE  /\ made + 1 \in made .. MaxObjects
         /\ new \in [Objects -> Chat]
         /\ new[made + 1] = NewChat(c, TRUE)
         /\ \A p \in Objects : p # made + 1 => new[p] = ob[p]
         /\ \A p \in Objects : p \in 1 .. made \/ p > made + 1 => p # made + 1
         /\ \A p \in 1 .. made + 1 : p > made => p = made + 1
<1>1. made \in Nat /\ MaxObjects \in Nat
  BY DEF TypeOK
<1>2. made + 1 \in Objects /\ made + 1 \in made .. MaxObjects
  BY <1>1 DEF Objects
<1>3. NewChat(c, TRUE) \in Chat
  BY NewChatType
<1>4. /\ new \in [Objects -> Chat]
      /\ new[made + 1] = NewChat(c, TRUE)
      /\ \A p \in Objects : p # made + 1 => new[p] = ob[p]
  BY <1>2, <1>3
<1>5. /\ \A p \in Objects : p \in 1 .. made \/ p > made + 1 => p # made + 1
      /\ \A p \in 1 .. made + 1 : p > made => p = made + 1
  BY <1>1 DEF Objects
<1>. QED
  BY <1>2, <1>4, <1>5

LEMMA CreateKeeps ==
  ASSUME TypeOK, LoadingEnds, MixInv, loggedIn' \in BOOLEAN, UNCHANGED <<home, target>>,
         NEW L \in {{}, chats}, Create(L)
  PROVE  PageType' /\ LoadingEnds' /\ MixInv' /\ made' \in made .. MaxObjects
<1>1. PICK c \in NewIds :
        Show(made + 1, L \cup {made + 1}, [obj EXCEPT ![made + 1] = NewChat(c, TRUE)])
  BY DEF Create
<1>1a. c \in Conversations /\ \A p \in Objects : obj[p].conv # c
  BY DEF NewIds
<1>. DEFINE ob == [obj EXCEPT ![made + 1] = NewChat(c, TRUE)]
<1>2. made < MaxObjects /\ made' = made + 1
  BY DEF Create
<1>3. obj \in [Objects -> Chat] /\ made \in Nat
  BY DEF TypeOK
<1>. HIDE DEF ob
<1>4. /\ made + 1 \in made .. MaxObjects
      /\ ob \in [Objects -> Chat]
      /\ ob[made + 1] = NewChat(c, TRUE)
      /\ \A p \in Objects : p # made + 1 => ob[p] = obj[p]
      /\ \A p \in Objects : p \in 1 .. made \/ p > made + 1 => p # made + 1
      /\ \A p \in 1 .. made + 1 : p > made => p = made + 1
  BY <1>1a, <1>2, <1>3, OneMoreObject DEF ob
<1>5. \A p \in 1 .. made + 1 : p > made => /\ ob[p].conv \in Conversations
                                           /\ ob[p].cache = {} /\ ~ob[p].loading
  <2>1. /\ ob[made + 1].conv \in Conversations
        /\ ob[made + 1].cache = {} /\ ~ob[made + 1].loading
    <3>1. /\ NewChat(c, TRUE).conv = c
          /\ NewChat(c, TRUE).cache = {} /\ ~NewChat(c, TRUE).loading
      BY <1>1a, NewChatType
    <3>2. ob[made + 1] = NewChat(c, TRUE)
      BY <1>4
    <3>. QED
      BY <1>1a, <3>1, <3>2
  <2>. QED
    BY <1>4, <2>1
<1>6. \A p \in Objects : p \in 1 .. made \/ p > made + 1 => ob[p] = obj[p]
  BY <1>4
<1>7. /\ Fits(ob)
      /\ \A p \in 1 .. made' : ob[p].conv \in Conversations
      /\ \A p \in 1 .. made : IdOf(ob, p) = Id(p)
      /\ \A p \in Objects : p > made' => ob[p].cache = {}
  BY <1>2, <1>4, <1>5, <1>6, MoreObjectsFit
<1>8. made' \in made .. MaxObjects /\ L \cup {made + 1} \subseteq 1 .. made'
  <2>1. made' \in made .. MaxObjects
    BY <1>2, <1>4
  <2>2. 1 .. made \subseteq 1 .. made' /\ made + 1 \in 1 .. made'
    BY <1>2, <1>3
  <2>3. L \subseteq 1 .. made
    BY DEF TypeOK
  <2>. QED
    BY <2>1, <2>2, <2>3
<1>9. Show(made + 1, L \cup {made + 1}, ob)
  BY <1>1 DEF ob
<1>10. Savable(L \cup {made + 1}, ob)
  <2>1. \A p \in 1 .. made : p \in Objects
    BY <1>2, <1>3 DEF Objects, TypeOK
  <2>2. IdOf(ob, made + 1) # current
    <3>1. IdOf(ob, made + 1)[1] = c
      <4>1. NewChat(c, TRUE).conv = c
        BY <1>1a, NewChatType
      <4>. QED
        BY <1>4, <4>1 DEF IdOf
    <3>2. CASE current = None
      <4>1. ob[made + 1] \in Chat /\ ob[made + 1].conv = c
        BY <1>1a, <1>4, NewChatType
      <4>2. IdOf(ob, made + 1) \in Conversations \X BOOLEAN
        BY <1>1a, <4>1 DEF IdOf, Chat
      <4>. QED
        BY <3>2, <4>2
    <3>3. CASE current # None
      <4>1. PICK v \in 1 .. made : Id(v) = current
        BY <3>3 DEF MixInv, KnownInv, Known
      <4>2. current[1] = obj[v].conv /\ obj[v].conv # c
        BY <1>1a, <2>1, <4>1 DEF Id, IdOf
      <4>. QED
        BY <3>1, <4>2
    <3>. QED
      BY <3>2, <3>3
  <2>3. \A p \in L : p \in chats /\ p \in 1 .. made /\ p # made + 1 /\ ob[p] = obj[p]
    BY <1>3, <1>4, <2>1 DEF TypeOK
  <2>. QED
    BY <2>2, <2>3 DEF Savable, MixInv, AstrayInv, Id, IdOf
<1>. QED
  BY <1>7, <1>8, <1>9, <1>10, ShowKeeps

-----------------------------------------------------------------------------
(* The actions.                                                            *)

Inv == TypeOK /\ LoadingEnds /\ MixInv

LEMMA RestKeeps ==
  ASSUME TypeOK, made' \in made .. MaxObjects, loggedIn' \in BOOLEAN,
         list' \in [Lists -> [stage : {"unused", "asked", "answered", "over"},
                              found : SUBSET Conversations]],
         UNCHANGED <<target, home, status>>, due' \subseteq due
  PROVE  RestType'
<1>1. 1 .. made \subseteq 1 .. made'
  BY DEF TypeOK
<1>2. target' \in [Queries -> 0 .. made' \cup {None}]
  BY <1>1 DEF TypeOK
<1>. QED
  BY <1>2 DEF TypeOK, RestType, Settled

LEMMA PageKeeps ==
  ASSUME Inv, UNCHANGED <<pageVars, made, home, target>>
  PROVE  PageType' /\ LoadingEnds' /\ MixInv'
  BY DEF Inv, TypeOK, PageType, pageVars, LoadingEnds, MixInv, ChatsDoNotMix, BlankInv,
         AnswerInv, TargetInv, KnownInv, Known, AstrayInv, Id, IdOf, OfConversation

LEMMA ListStage ==
  ASSUME TypeOK, NEW k \in Lists, NEW s \in {"unused", "asked", "answered", "over"},
         list' = [list EXCEPT ![k].stage = s]
  PROVE  list' \in [Lists -> [stage : {"unused", "asked", "answered", "over"},
                              found : SUBSET Conversations]]
  BY DEF TypeOK

LEMMA SwitchInv ==
  ASSUME Inv, NEW o \in Objects, SwitchChat(o)
  PROVE  Inv'
<1>1. /\ o \in chats /\ Show(o, chats, obj)
      /\ UNCHANGED <<loggedIn, made, list, target, home, status, due>>
  BY DEF SwitchChat, serverVars
<1>2. /\ chats \subseteq 1 .. made' /\ made' \in made .. MaxObjects /\ loggedIn' \in BOOLEAN
      /\ list' \in [Lists -> [stage : {"unused", "asked", "answered", "over"},
                              found : SUBSET Conversations]]
  BY <1>1 DEF Inv, TypeOK
<1>3. RestType'
  BY <1>1, <1>2, RestKeeps DEF Inv
<1>4. /\ Fits(obj) /\ \A p \in 1 .. made : obj[p].conv \in Conversations
      /\ \A p \in Objects : p > made => obj[p].cache = {}
      /\ \A p \in 1 .. made : IdOf(obj, p) = Id(p)
      /\ Savable(chats, obj)
  BY ObjFits DEF Inv, MixInv, BlankInv, Id, Savable, AstrayInv
<1>5. PageType' /\ LoadingEnds' /\ MixInv'
  BY <1>1, <1>2, <1>4, ShowKeeps DEF Inv
<1>. QED
  BY <1>3, <1>5, TypePartsPrimed DEF Inv

(* The page goes on showing what it showed, and no loaded chat is chosen.  *)
LEMMA SwitchToDroppedInv ==
  ASSUME Inv, NEW id \in Conversations \X BOOLEAN, SwitchToDropped(id)
  PROVE  Inv'
<1>. DEFINE saved == Saved(chats, obj)
<1>1. /\ id \in sidebar /\ id \notin Ids(obj, chats)
      /\ current' = id /\ obj' = Aborted(saved) /\ load' = None /\ astray' = TRUE
      /\ UNCHANGED <<loggedIn, chats, dom, sidebar, made, list, target, home, status, due>>
  BY DEF SwitchToDropped, serverVars
<1>2. /\ obj \in [Objects -> Chat] /\ dom \subseteq Messages /\ made \in Nat
      /\ load # None => load.object \in Objects
      /\ chats \subseteq 1 .. made
      /\ 1 .. made \subseteq Objects /\ Objects' = Objects
      /\ made' \in made .. MaxObjects
  BY <1>1 DEF Inv, TypeOK, Loads, Objects
<1>3. /\ saved \in [Objects -> Chat]
      /\ \A p \in Objects :
           /\ saved[p].conv = obj[p].conv
           /\ saved[p].own = obj[p].own
           /\ saved[p].loaded = obj[p].loaded
           /\ saved[p].loading = obj[p].loading
           /\ \/ saved[p].cache = obj[p].cache
              \/ p \in chats /\ IdOf(obj, p) = current /\ saved[p].cache = dom
  BY <1>2, SavedFacts
<1>4. /\ obj' \in [Objects -> Chat]
      /\ \A p \in Objects :
           /\ obj'[p].conv = obj[p].conv
           /\ obj'[p].own = obj[p].own
           /\ obj'[p].loaded = obj[p].loaded
           /\ obj'[p].cache = saved[p].cache
           /\ ~obj'[p].loading
  <2>1. /\ Aborted(saved) \in [Objects -> Chat]
        /\ \A p \in Objects :
             /\ Aborted(saved)[p].conv = saved[p].conv
             /\ Aborted(saved)[p].own = saved[p].own
             /\ Aborted(saved)[p].loaded = saved[p].loaded
             /\ Aborted(saved)[p].cache = saved[p].cache
             /\ Aborted(saved)[p].loading <=>
                  saved[p].loading /\ ~(load # None /\ load.object = p)
    BY <1>2, <1>3, AbortedFacts
  <2>. HIDE DEF saved
  <2>. QED
    BY <1>1, <1>3, <2>1 DEF Inv, LoadingEnds
<1>. HIDE DEF saved
<1>5. \A p \in Objects : Id(p)' = Id(p)
  BY <1>4 DEF Id, IdOf
<1>6. RestType'
  BY <1>1, <1>2, RestKeeps DEF Inv, TypeOK
<1>7. PageType'
  BY <1>1, <1>2, <1>4 DEF Inv, TypeOK, PageType
<1>8. LoadingEnds'
  BY <1>1, <1>2, <1>4 DEF LoadingEnds
<1>9. ChatsDoNotMix'
  <2>1. ASSUME NEW p \in Objects, obj[p].loaded
        PROVE  OfConversation(saved[p].cache, obj[p].conv)
    <3>1. CASE saved[p].cache = obj[p].cache
      BY <2>1, <3>1 DEF Inv, MixInv, ChatsDoNotMix
    <3>2. CASE p \in chats /\ IdOf(obj, p) = current /\ saved[p].cache = dom
      <4>1. ~astray /\ current[1] = obj[p].conv
        BY <2>1, <3>2 DEF Inv, MixInv, AstrayInv, Id, IdOf
      <4>. QED
        BY <3>2, <4>1 DEF Inv, MixInv, ChatsDoNotMix, OfConversation
    <3>. QED
      BY <1>3, <3>1, <3>2
  <2>. QED
    BY <1>1, <1>2, <1>4, <2>1 DEF ChatsDoNotMix, OfConversation
<1>10. BlankInv'
  <2>1. \A p \in Objects : p > made => p \notin chats
    BY <1>2 DEF Objects
  <2>. QED
    BY <1>1, <1>2, <1>3, <1>4, <2>1 DEF Inv, MixInv, BlankInv
<1>11. AnswerInv' /\ TargetInv'
  <2>1. \A q \in Queries : target[q] \notin {None, 0} => target[q] \in Objects
    BY <1>2 DEF Inv, TypeOK, Objects
  <2>. QED
    BY <1>1, <1>4, <2>1 DEF Inv, MixInv, AnswerInv, TargetInv
<1>12. KnownInv'
  BY <1>1, <1>2, <1>5 DEF Inv, MixInv, KnownInv, Known
<1>13. AstrayInv'
  <2>1. \A p \in chats : Id(p) # id
    BY <1>1 DEF Ids, Id
  <2>. QED
    BY <1>1, <1>2, <1>5, <2>1 DEF AstrayInv
<1>. QED
  BY <1>6, <1>7, <1>8, <1>9, <1>10, <1>11, <1>12, <1>13, TypePartsPrimed DEF Inv, MixInv

LEMMA CreateInv ==
  ASSUME Inv, CreateChat \/ \E k \in Lists : ListEmpty(k)
  PROVE  Inv'
<1>1. ASSUME NEW L \in {{}, chats}, Create(L), loggedIn' \in BOOLEAN,
             list' \in [Lists -> [stage : {"unused", "asked", "answered", "over"},
                                  found : SUBSET Conversations]],
             UNCHANGED <<target, home, status, due>>
      PROVE  Inv'
  BY <1>1, CreateKeeps, RestKeeps, TypePartsPrimed DEF Inv
<1>2. CASE CreateChat
  BY <1>1, <1>2 DEF CreateChat, serverVars, Inv, TypeOK
<1>3. ASSUME NEW k \in Lists, ListEmpty(k)
      PROVE  Inv'
  BY <1>1, <1>3, ListStage DEF ListEmpty, serverVars, Inv, TypeOK
<1>. QED
  BY <1>2, <1>3

LEMMA AskInv ==
  ASSUME Inv, NEW k \in Lists, LoadChats(k) \/ AnswerList(k) \/ Login(k)
  PROVE  Inv'
<1>1. UNCHANGED <<pageVars, made, target, home, status, due>> /\ loggedIn' \in BOOLEAN
  BY DEF LoadChats, AnswerList, Login, serverVars, Inv, TypeOK
<1>2. list' \in [Lists -> [stage : {"unused", "asked", "answered", "over"},
                           found : SUBSET Conversations]]
  <2>1. CASE LoadChats(k) \/ Login(k)
    BY <2>1, ListStage DEF LoadChats, Login, Ask, Inv
  <2>2. CASE AnswerList(k)
    <3>1. \A found \in FirstPages({home[q] : q \in Stored}, ListLimit) :
            found \in SUBSET Conversations
      BY DEF Inv, TypeOK, Stored, FirstPages
    <3>2. PICK found \in SUBSET Conversations :
            list' = [list EXCEPT ![k].stage = "answered", ![k].found = found]
      BY <2>2, <3>1 DEF AnswerList
    <3>3. list \in [Lists -> [stage : {"unused", "asked", "answered", "over"},
                              found : SUBSET Conversations]]
      BY DEF Inv, TypeOK
    <3>4. [list[k] EXCEPT !.stage = "answered", !.found = found]
            \in [stage : {"unused", "asked", "answered", "over"},
                 found : SUBSET Conversations]
      BY <3>3
    <3>5. list' = [list EXCEPT ![k] = [list[k] EXCEPT !.stage = "answered", !.found = found]]
      BY <3>2, <3>3
    <3>. QED
      BY <3>3, <3>4, <3>5
  <2>. QED
    BY <2>1, <2>2
<1>3. made' \in made .. MaxObjects
  BY <1>1 DEF Inv, TypeOK
<1>. QED
  BY <1>1, <1>2, <1>3, PageKeeps, RestKeeps, TypePartsPrimed DEF Inv

LEMMA ServerInv ==
  ASSUME Inv, NEW q \in Queries, Accept(q) \/ Settle(q)
  PROVE  Inv'
<1>1. UNCHANGED <<loggedIn, pageVars, made, list, target, home, due>>
  BY DEF Accept, Settle
<1>2. RestType'
  BY <1>1 DEF Accept, Settle, Inv, TypeOK, RestType, Settled
<1>. QED
  BY <1>1, <1>2, PageKeeps, TypePartsPrimed DEF Inv

(* A history answered, arrived or failed.                                  *)
LEMMA HistoryInv ==
  ASSUME Inv, AnswerHistory \/ HistoryArrives \/ HistoryFails
  PROVE  Inv'
<1>. DEFINE l == load.object
<1>1. /\ load # None /\ load \in Loads /\ l \in Objects /\ l <= made
      /\ obj \in [Objects -> Chat] /\ obj[l] \in Chat
      /\ UNCHANGED <<loggedIn, chats, current, astray, made, list, target, home, status>>
      /\ due' \subseteq due
      /\ ~astray
      /\ chats \subseteq 1 .. made
  BY DEF Inv, TypeOK, Loads, AnswerHistory, HistoryArrives, HistoryFails, serverVars,
         MixInv, AstrayInv
<1>2. RestType' /\ Objects' = Objects
  <2>1. made' \in made .. MaxObjects
    BY <1>1 DEF Inv, TypeOK
  <2>. QED
    BY <1>1, <2>1, RestKeeps DEF Inv, TypeOK, Objects
<1>3. CASE AnswerHistory
  <2>1. PICK answer \in SUBSET Messages :
          load' = [load EXCEPT !.answer = answer] /\ OfConversation(answer, obj[l].conv)
    <3>1. ASSUME NEW answer \in Histories(obj[l].conv)
          PROVE  answer \in SUBSET Messages /\ OfConversation(answer, obj[l].conv)
      <4>1. PICK page \in FirstPages({q \in Stored : home[q] = obj[l].conv}, HistoryLimit) :
              answer = {<<q, "prompt">> : q \in page}
                         \cup {<<q, "result">> : q \in page \cap Settled}
        BY DEF Histories
      <4>2. \A q \in page : q \in Queries /\ home[q] = obj[l].conv
        BY DEF FirstPages, Stored
      <4>. QED
        BY <4>1, <4>2 DEF Messages, OfConversation
    <3>2. {} \in SUBSET Messages /\ OfConversation({}, obj[l].conv)
      BY DEF OfConversation
    <3>. QED
      BY <1>3, <3>1, <3>2 DEF AnswerHistory
  <2>2. /\ load' \in Loads /\ load'.object = l /\ load'.answer = answer /\ load' # None
        /\ UNCHANGED <<obj, dom, sidebar>>
    BY <1>1, <1>3, <2>1 DEF Loads, AnswerHistory
  <2>3. PageType'
    BY <1>1, <2>2 DEF PageType, Inv, TypeOK
  <2>4. LoadingEnds'
    BY <1>1, <1>2, <2>2 DEF LoadingEnds, Inv
  <2>5. MixInv'
    BY <1>1, <1>2, <2>1, <2>2
    DEF Inv, MixInv, ChatsDoNotMix, BlankInv, AnswerInv, TargetInv, KnownInv, Known, AstrayInv,
        Id, IdOf, OfConversation
  <2>. QED
    BY <1>2, <2>3, <2>4, <2>5, TypePartsPrimed DEF Inv
<1>4. CASE HistoryArrives \/ HistoryFails
  <2>1. PICK answer \in SUBSET Messages, c \in Chat :
          /\ OfConversation(answer, obj[l].conv)
          /\ load' = None
          /\ obj' = [obj EXCEPT ![l] = c]
          /\ c.conv = obj[l].conv /\ c.own = obj[l].own /\ ~c.loading
          /\ \/ current = Id(l) /\ dom' = answer /\ c.cache = answer
             \/ dom' = dom /\ c.cache = obj[l].cache /\ c.loaded = obj[l].loaded
          /\ sidebar' = sidebar \/ sidebar' = Ids(obj, chats)
    <3>1. /\ [obj[l] EXCEPT !.loading = FALSE] \in Chat
          /\ [obj[l] EXCEPT !.loading = FALSE].conv = obj[l].conv
          /\ [obj[l] EXCEPT !.loading = FALSE].own = obj[l].own
          /\ [obj[l] EXCEPT !.loading = FALSE].cache = obj[l].cache
          /\ [obj[l] EXCEPT !.loading = FALSE].loaded = obj[l].loaded
          /\ ~[obj[l] EXCEPT !.loading = FALSE].loading
      BY <1>1 DEF Chat
    <3>2. OfConversation({}, obj[l].conv) /\ {} \in SUBSET Messages
      BY DEF OfConversation
    <3>3. CASE current # Id(l)
      <4>1. obj' = [obj EXCEPT ![l] = [obj[l] EXCEPT !.loading = FALSE]]
        BY <1>1, <1>4, <3>3 DEF HistoryArrives, HistoryFails
      <4>2. load' = None /\ dom' = dom /\ sidebar' = sidebar
        BY <1>4, <3>3 DEF HistoryArrives, HistoryFails
      <4>. QED
        BY <3>1, <3>2, <4>1, <4>2
    <3>4. CASE current = Id(l) /\ HistoryArrives
      <4>. DEFINE c == [obj[l] EXCEPT !.cache = load.answer, !.loaded = TRUE, !.loading = FALSE]
      <4>1. /\ load.answer \in SUBSET Messages
            /\ OfConversation(load.answer, obj[l].conv)
        BY <1>1, <3>4 DEF HistoryArrives, Loads, Inv, MixInv, AnswerInv
      <4>2. /\ c \in Chat /\ c.conv = obj[l].conv /\ c.own = obj[l].own
            /\ c.cache = load.answer /\ ~c.loading
        BY <1>1, <4>1 DEF Chat
      <4>3. /\ obj' = [obj EXCEPT ![l] = c] /\ load' = None /\ dom' = load.answer
            /\ sidebar' = Ids(obj, chats)
        BY <1>1, <3>4 DEF HistoryArrives
      <4>. QED
        BY <3>4, <4>1, <4>2, <4>3
    <3>5. CASE current = Id(l) /\ HistoryFails
      <4>. DEFINE c == [obj[l] EXCEPT !.cache = {}, !.loading = FALSE]
      <4>1. /\ c \in Chat /\ c.conv = obj[l].conv /\ c.own = obj[l].own
            /\ c.cache = {} /\ ~c.loading
        BY <1>1 DEF Chat
      <4>2. /\ obj' = [obj EXCEPT ![l] = c] /\ load' = None /\ dom' = {}
            /\ sidebar' = Ids(obj, chats)
        BY <1>1, <3>5 DEF HistoryFails
      <4>. QED
        BY <3>2, <3>5, <4>1, <4>2
    <3>. QED
      BY <1>4, <3>3, <3>4, <3>5
  <2>2. /\ obj' \in [Objects -> Chat]
        /\ \A p \in Objects : /\ obj'[p].conv = obj[p].conv /\ obj'[p].own = obj[p].own
                              /\ p # l => obj'[p] = obj[p]
        /\ ~obj'[l].loading
        /\ \/ obj'[l].cache = answer
           \/ obj'[l].cache = obj[l].cache /\ obj'[l].loaded = obj[l].loaded
    BY <1>1, <2>1
  <2>2a. \A p \in 1 .. made : /\ Id(p)' = Id(p) /\ Id(p) \in Conversations \X BOOLEAN
    BY <1>1, <2>2, ObjFits DEF Inv, Id, IdOf, Chat
  <2>3. dom' \subseteq Messages /\ ((current = Id(l) /\ dom' = answer) \/ dom' = dom)
    BY <2>1 DEF Inv, TypeOK
  <2>4. PageType'
    <3>1. \A o \in 1 .. made : o \in Objects
      BY DEF Objects, Inv, TypeOK
    <3>2. sidebar' \subseteq Conversations \X BOOLEAN
      BY <1>1, <2>1, <2>2a DEF Inv, TypeOK, Ids, Id
    <3>. QED
      BY <1>1, <1>2, <2>1, <2>2, <2>3, <3>1, <3>2 DEF PageType, Inv, TypeOK
  <2>5. LoadingEnds'
    BY <1>1, <1>2, <2>1, <2>2 DEF LoadingEnds, Inv
  <2>6. ChatsDoNotMix'
    <3>1. ASSUME NEW o \in Objects, obj'[o].loaded
          PROVE  OfConversation(obj'[o].cache, obj'[o].conv)
      BY <2>1, <2>2, <3>1 DEF Inv, MixInv, ChatsDoNotMix
    <3>2. CASE dom' = dom
      BY <1>1, <1>2, <3>1, <3>2 DEF Inv, MixInv, ChatsDoNotMix, OfConversation
    <3>3. CASE current = Id(l) /\ dom' = answer
      <4>1. current[1] = obj[l].conv /\ current # None
        <5>1. obj[l].conv \in Conversations /\ obj[l].own \in BOOLEAN
          BY <1>1, ObjFits DEF Inv, Chat, Objects
        <5>. QED
          BY <3>3, <5>1 DEF Id, IdOf
      <4>. QED
        BY <1>1, <1>2, <2>1, <3>1, <3>3, <4>1 DEF ChatsDoNotMix, OfConversation
    <3>. QED
      BY <2>3, <3>2, <3>3
  <2>7. BlankInv'
    <3>1. \A o \in Objects : o > made => o # l
      BY <1>1 DEF Objects, Inv, TypeOK
    <3>. QED
      BY <1>1, <1>2, <2>2, <3>1 DEF Inv, MixInv, BlankInv
  <2>8. AnswerInv' /\ TargetInv'
    <3>1. \A q \in Queries : target[q] \notin {None, 0} => target[q] \in Objects
      BY DEF Inv, TypeOK, Objects
    <3>. QED
      BY <1>1, <2>1, <2>2, <3>1 DEF Inv, MixInv, AnswerInv, TargetInv
  <2>9. KnownInv'
    <3>1. \A id : Known(id) => Known(id)'
      BY <1>1, <2>2a DEF Known
    <3>2. \A id \in Ids(obj, chats) : Known(id)
      BY <1>1 DEF Ids, Known, Id
    <3>. QED
      BY <1>1, <2>1, <3>1, <3>2 DEF Inv, MixInv, KnownInv
  <2>10. AstrayInv'
    BY <1>1 DEF AstrayInv
  <2>. QED
    BY <1>2, <2>4, <2>5, <2>6, <2>7, <2>8, <2>9, <2>10, TypePartsPrimed DEF Inv, MixInv
<1>. QED
  BY <1>3, <1>4

(* A message is added to the view of a chat it belongs to.                 *)
LEMMA LogKeeps ==
  ASSUME Inv, NEW o \in 1 .. made, NEW message \in Messages,
         message[2] = "stray" \/ home[message[1]] = obj[o].conv,
         LogToClean(o, message),
         UNCHANGED <<chats, current, load, sidebar, astray, made, home>>,
         \A q \in Queries : target'[q] = None \/ target'[q] = target[q]
  PROVE  PageType' /\ LoadingEnds' /\ MixInv'
<1>. DEFINE c == [obj[o] EXCEPT !.cache = @ \cup {message}]
<1>1. /\ o \in Objects /\ obj \in [Objects -> Chat] /\ obj[o] \in Chat
      /\ obj[o].conv \in Conversations /\ Objects' = Objects /\ o <= made /\ made \in Nat
  BY ObjFits DEF Inv, TypeOK, Objects
<1>2. /\ c \in Chat /\ c.conv = obj[o].conv /\ c.own = obj[o].own
      /\ c.loaded = obj[o].loaded /\ c.loading = obj[o].loading
      /\ c.cache = obj[o].cache \cup {message}
  BY <1>1 DEF Chat
<1>3. obj' = [obj EXCEPT ![o] = c]
  BY DEF LogToClean
<1>4. /\ obj' \in [Objects -> Chat]
      /\ \A p \in Objects : /\ obj'[p].conv = obj[p].conv /\ obj'[p].own = obj[p].own
                            /\ obj'[p].loaded = obj[p].loaded
                            /\ obj'[p].loading = obj[p].loading
      /\ \A p \in Objects : p # o => obj'[p].cache = obj[p].cache
      /\ obj'[o].cache = obj[o].cache \cup {message}
  <2>. HIDE DEF c
  <2>. QED
    BY <1>1, <1>2, <1>3
<1>5. dom' = dom \/ (Id(o) = current /\ dom' = dom \cup {message})
  BY DEF LogToClean
<1>6. PageType'
  <2>1. dom' \subseteq Messages
    BY <1>5 DEF Inv, TypeOK
  <2>2. \A p \in 1 .. made : p \in Objects
    BY DEF Objects, Inv, TypeOK
  <2>. QED
    BY <1>1, <1>4, <2>1, <2>2 DEF PageType, Inv, TypeOK
<1>7. LoadingEnds'
  BY <1>1, <1>4 DEF LoadingEnds, Inv
<1>8. ChatsDoNotMix'
  <2>1. ASSUME NEW p \in Objects, obj'[p].loaded
        PROVE  OfConversation(obj'[p].cache, obj'[p].conv)
    BY <1>4, <2>1 DEF Inv, MixInv, ChatsDoNotMix, OfConversation
  <2>2. CASE dom' = dom
    BY <1>1, <2>1, <2>2 DEF Inv, MixInv, ChatsDoNotMix, OfConversation
  <2>3. CASE Id(o) = current /\ dom' = dom \cup {message}
    <3>1. current[1] = obj[o].conv /\ current # None
      <4>1. obj[o].own \in BOOLEAN
        BY <1>1 DEF Chat
      <4>. QED
        BY <1>1, <2>3, <4>1 DEF Id, IdOf
    <3>. QED
      BY <1>1, <2>1, <2>3, <3>1 DEF Inv, MixInv, ChatsDoNotMix, OfConversation
  <2>. QED
    BY <1>5, <2>2, <2>3
<1>9. BlankInv' /\ AnswerInv' /\ TargetInv' /\ KnownInv' /\ AstrayInv'
  <2>1. \A p \in Objects : p > made => p # o
    BY <1>1 DEF Objects
  <2>2. \A q \in Queries : target[q] \notin {None, 0} => target[q] \in Objects
    BY DEF Inv, TypeOK, Objects
  <2>3. load # None => load.object \in Objects
    BY DEF Inv, TypeOK, Loads
  <2>4. BlankInv'
    BY <1>1, <1>4, <2>1 DEF Inv, MixInv, BlankInv
  <2>5. AnswerInv'
    BY <1>4, <2>3 DEF Inv, MixInv, AnswerInv, OfConversation
  <2>6. TargetInv'
    BY <1>4, <2>2 DEF Inv, MixInv, TargetInv
  <2>7. \A p \in 1 .. made : p \in Objects /\ Id(p)' = Id(p)
    BY <1>4, ObjFits DEF Inv, Id, IdOf
  <2>8. KnownInv'
    BY <2>7 DEF Inv, MixInv, KnownInv, Known
  <2>9. AstrayInv'
    <3>1. chats \subseteq 1 .. made
      BY DEF Inv, TypeOK
    <3>. QED
      BY <1>4, <2>7, <3>1 DEF Inv, MixInv, AstrayInv
  <2>. QED
    BY <2>4, <2>5, <2>6, <2>8, <2>9
<1>. QED
  BY <1>6, <1>7, <1>8, <1>9 DEF MixInv

LEMMA RunArrivesInv ==
  ASSUME Inv, NEW q \in Queries, RunArrives(q)
  PROVE  Inv'
<1>1. /\ target' = [target EXCEPT ![q] = None]
      /\ UNCHANGED <<loggedIn, chats, current, load, sidebar, astray, made, list, home, status, due>>
  BY DEF RunArrives, serverVars
<1>2. /\ target \in [Queries -> 0 .. made \cup {None}]
      /\ chats \subseteq 1 .. made /\ made \in Nat
  BY DEF Inv, TypeOK
<1>3. \A x \in Queries : target'[x] = None \/ target'[x] = target[x]
  BY <1>1, <1>2
<1>4. PageType' /\ LoadingEnds' /\ MixInv'
  <2>1. CASE target[q] # 0
    <3>1. /\ target[q] \in 1 .. made /\ home[q] = obj[target[q]].conv
          /\ LogToClean(target[q], <<q, "accepted">>)
      BY <1>2, <2>1 DEF RunArrives, Inv, MixInv, TargetInv
    <3>2. <<q, "accepted">> \in Messages /\ <<q, "accepted">>[1] = q
      BY DEF Messages
    <3>. QED
      BY <1>1, <1>3, <3>1, <3>2, LogKeeps
  <2>2. ASSUME NEW o \in chats, LogToClean(o, <<q, "stray">>)
        PROVE  PageType' /\ LoadingEnds' /\ MixInv'
    <3>1. <<q, "stray">> \in Messages /\ <<q, "stray">>[2] = "stray" /\ o \in 1 .. made
      BY <1>2 DEF Messages
    <3>. QED
      BY <1>1, <1>3, <2>2, <3>1, LogKeeps
  <2>3. CASE UNCHANGED <<obj, dom>>
    <3>1. /\ PageType' /\ LoadingEnds' /\ ChatsDoNotMix' /\ BlankInv' /\ AnswerInv'
          /\ KnownInv' /\ AstrayInv'
      BY <1>1, <2>3 DEF Inv, TypeOK, PageType, LoadingEnds, MixInv, ChatsDoNotMix, BlankInv,
                        AnswerInv, KnownInv, Known, AstrayInv, Id, IdOf, OfConversation
    <3>2. TargetInv'
      BY <1>1, <1>3, <2>3 DEF Inv, MixInv, TargetInv
    <3>. QED
      BY <3>1, <3>2 DEF MixInv
  <2>. QED
    BY <2>1, <2>2, <2>3 DEF RunArrives
<1>5. RestType'
  <2>1. target' \in [Queries -> 0 .. made' \cup {None}]
    BY <1>1, <1>2
  <2>. QED
    BY <1>1, <2>1 DEF Inv, TypeOK, RestType, Settled
<1>. QED
  BY <1>4, <1>5, TypePartsPrimed DEF Inv

LEMMA PushInv ==
  ASSUME Inv, NEW q \in Queries, Push(q)
  PROVE  Inv'
<1>1. /\ status[q] = "settled" /\ status' = [status EXCEPT ![q] = "told"]
      /\ UNCHANGED <<loggedIn, chats, current, load, sidebar, astray, made, list, target, home>>
  BY DEF Push
<1>2. due' \subseteq due \cup {q}
  BY DEF Push
<1>3. RestType'
  <2>1. /\ status' \in [Queries -> {"new", "sent", "stored", "settled", "failed", "told"}]
        /\ \A x \in Queries : status[x] = "new" <=> status'[x] = "new"
        /\ Settled \cup {q} \subseteq Settled'
    BY <1>1 DEF Inv, TypeOK, Settled
  <2>. QED
    BY <1>1, <1>2, <2>1 DEF Inv, TypeOK, RestType
<1>4. PageType' /\ LoadingEnds' /\ MixInv'
  <2>1. CASE \E o \in chats : obj[o].conv = home[q]
    <3>1. PICK o \in chats : obj[o].conv = home[q] /\ LogToClean(o, <<q, "result">>)
      BY <2>1 DEF Push
    <3>2. o \in 1 .. made
      BY DEF Inv, TypeOK
    <3>3. <<q, "result">> \in Messages /\ <<q, "result">>[1] = q
      BY DEF Messages
    <3>. QED
      BY <1>1, <3>1, <3>2, <3>3, LogKeeps
  <2>2. CASE ~ \E o \in chats : obj[o].conv = home[q]
    <3>1. UNCHANGED <<obj, dom>>
      BY <2>2 DEF Push
    <3>. QED
      BY <1>1, <3>1, PageKeeps DEF pageVars
  <2>. QED
    BY <2>1, <2>2
<1>. QED
  BY <1>3, <1>4, TypePartsPrimed DEF Inv

LEMMA RunInv ==
  ASSUME Inv, NEW q \in Queries, Run(q)
  PROVE  Inv'
<1>1. PICK o \in 0 .. made, c \in Conversations :
        /\ target' = [target EXCEPT ![q] = o]
        /\ home' = [home EXCEPT ![q] = c]
        /\ o # 0 => o \in Objects /\ c = obj[o].conv
        /\ sidebar' = sidebar \/ sidebar' = Ids(obj, chats)
  <2>1. CASE RunOutside(q)
    <3>1. 0 \in 0 .. made
      BY DEF Inv, TypeOK
    <3>. QED
      BY <2>1, <3>1 DEF RunOutside, NewIds
  <2>2. ASSUME NEW o \in chats, RunInChat(q, o)
        PROVE  \E v \in 0 .. made, c \in Conversations :
                 /\ target' = [target EXCEPT ![q] = v]
                 /\ home' = [home EXCEPT ![q] = c]
                 /\ v # 0 => v \in Objects /\ c = obj[v].conv
                 /\ sidebar' = sidebar \/ sidebar' = Ids(obj, chats)
    <3>1. o \in 0 .. made /\ o \in Objects /\ obj[o].conv \in Conversations
      BY ObjFits DEF Inv, TypeOK
    <3>. QED
      BY <2>2, <3>1 DEF RunInChat
  <2>. QED
    BY <2>1, <2>2 DEF Run
<1>2. /\ status[q] = "new" /\ status' = [status EXCEPT ![q] = "sent"]
      /\ UNCHANGED <<loggedIn, chats, current, dom, load, obj, astray, made, list, due>>
      /\ home[q] = None
  BY DEF Run, Inv, TypeOK
<1>3. /\ obj \in [Objects -> Chat] /\ Objects' = Objects
      /\ chats \subseteq 1 .. made
      /\ \A p \in 1 .. made : Id(p)' = Id(p) /\ Id(p) \in Conversations \X BOOLEAN
  BY <1>2, ObjFits DEF Inv, TypeOK, Objects, Id, IdOf, Chat
<1>4. /\ home \in [Queries -> Conversations \cup {None}]
      /\ target \in [Queries -> 0 .. made \cup {None}]
      /\ status \in [Queries -> {"new", "sent", "stored", "settled", "failed", "told"}]
      /\ \A x \in Queries : home[x] = None <=> status[x] = "new"
      /\ due \subseteq Settled
  BY DEF Inv, TypeOK
<1>5. RestType'
  <2>1. /\ home' \in [Queries -> Conversations \cup {None}]
        /\ target' \in [Queries -> 0 .. made \cup {None}]
        /\ status' \in [Queries -> {"new", "sent", "stored", "settled", "failed", "told"}]
    BY <1>1, <1>2, <1>3, <1>4
  <2>2. \A x \in Queries : home'[x] = None <=> status'[x] = "new"
    BY <1>1, <1>2, <1>3, <1>4
  <2>3. Settled \subseteq Settled'
    BY <1>2, <1>4 DEF Settled
  <2>. QED
    BY <1>2, <1>4, <2>1, <2>2, <2>3 DEF RestType, Inv, TypeOK
<1>6. PageType' /\ LoadingEnds'
  <2>1. sidebar' \subseteq Conversations \X BOOLEAN
    BY <1>1, <1>3 DEF Inv, TypeOK, Ids, Id
  <2>. QED
    BY <1>2, <1>3, <2>1 DEF PageType, LoadingEnds, Inv, TypeOK
<1>7. ASSUME NEW M \in SUBSET Messages, NEW d \in Conversations, OfConversation(M, d)
      PROVE  \A m \in M : m[2] = "stray" \/ home'[m[1]] = d
  <2>1. ASSUME NEW m \in M, m[2] # "stray"
        PROVE  home'[m[1]] = d
    <3>1. m[1] \in Queries /\ home[m[1]] = d
      BY <1>7, <2>1 DEF OfConversation, Messages
    <3>2. m[1] # q
      BY <1>2, <3>1
    <3>. QED
      BY <1>1, <1>4, <3>1, <3>2
  <2>. QED
    BY <2>1
<1>8. ChatsDoNotMix'
  <2>1. dom # {} /\ ~astray => current' # None /\ OfConversation(dom, current[1])'
    <3>1. current \in {None} \cup (Conversations \X BOOLEAN) /\ dom \in SUBSET Messages
      BY DEF Inv, TypeOK
    <3>2. OfConversation(dom, current[1])'
          <=> \A m \in dom : m[2] = "stray" \/ home'[m[1]] = current[1]
      BY <1>2 DEF OfConversation
    <3>3. ASSUME dom # {}, ~astray
          PROVE  current # None /\ \A m \in dom : m[2] = "stray" \/ home'[m[1]] = current[1]
      <4>1. current # None /\ OfConversation(dom, current[1])
        BY <3>3 DEF Inv, MixInv, ChatsDoNotMix
      <4>2. current[1] \in Conversations
        BY <3>1, <4>1
      <4>. QED
        BY <1>7, <3>1, <4>1, <4>2
    <3>. QED
      BY <1>2, <3>2, <3>3
  <2>2. ASSUME NEW p \in Objects, obj[p].loaded
        PROVE  OfConversation(obj[p].cache, obj[p].conv)'
    <3>1. CASE p > made
      BY <1>2, <3>1 DEF Inv, MixInv, BlankInv, OfConversation
    <3>2. CASE p \in 1 .. made
      <4>1. obj[p].conv \in Conversations /\ obj[p].cache \in SUBSET Messages
        BY <1>3, <3>2, ObjFits DEF Inv, Chat
      <4>2. OfConversation(obj[p].cache, obj[p].conv)'
            <=> \A m \in obj[p].cache : m[2] = "stray" \/ home'[m[1]] = obj[p].conv
        BY <1>2 DEF OfConversation
      <4>3. OfConversation(obj[p].cache, obj[p].conv)
        BY <2>2 DEF Inv, MixInv, ChatsDoNotMix
      <4>4. \A m \in obj[p].cache : m[2] = "stray" \/ home'[m[1]] = obj[p].conv
        BY <1>7, <4>1, <4>3
      <4>. QED
        BY <4>2, <4>4
    <3>3. p > made \/ p \in 1 .. made
      BY DEF Objects, Inv, TypeOK
    <3>. QED
      BY <3>1, <3>2, <3>3
  <2>. QED
    BY <1>2, <1>3, <2>1, <2>2 DEF ChatsDoNotMix, OfConversation
<1>9. BlankInv'
  BY <1>2, <1>3 DEF Inv, MixInv, BlankInv
<1>10. AnswerInv'
  <2>. SUFFICES ASSUME load # None, load.answer # None
                PROVE  \A m \in load.answer :
                         m[2] = "stray" \/ home'[m[1]] = obj[load.object].conv
    BY <1>2 DEF AnswerInv, OfConversation
  <2>1. load.object \in 1 .. made /\ load.answer \in SUBSET Messages
    BY DEF Inv, TypeOK, Loads, Objects
  <2>2. obj[load.object].conv \in Conversations
    BY <2>1, ObjFits DEF Inv
  <2>3. OfConversation(load.answer, obj[load.object].conv)
    BY DEF Inv, MixInv, AnswerInv
  <2>. QED
    BY <1>7, <2>1, <2>2, <2>3
<1>11. TargetInv'
  <2>1. ASSUME NEW x \in Queries, target'[x] \notin {None, 0}
        PROVE  home'[x] = obj'[target'[x]].conv
    <3>1. CASE x = q
      BY <1>1, <1>2, <1>4, <2>1, <3>1
    <3>2. CASE x # q
      BY <1>1, <1>2, <1>4, <2>1, <3>2 DEF Inv, MixInv, TargetInv
    <3>. QED
      BY <3>1, <3>2
  <2>. QED
    BY <2>1 DEF TargetInv
<1>12. KnownInv'
  <2>1. \A id : Known(id) => Known(id)'
    BY <1>2, <1>3 DEF Known
  <2>2. \A id \in Ids(obj, chats) : Known(id)
    BY <1>3 DEF Ids, Known, Id
  <2>. QED
    BY <1>1, <1>2, <2>1, <2>2 DEF Inv, MixInv, KnownInv
<1>13. AstrayInv'
  BY <1>2, <1>3 DEF Inv, MixInv, AstrayInv
<1>. QED
  BY <1>5, <1>6, <1>8, <1>9, <1>10, <1>11, <1>12, <1>13, TypePartsPrimed DEF Inv, MixInv

LEMMA ClearInv ==
  ASSUME Inv, Clear
  PROVE  Inv'
<1>1. /\ dom' = {} /\ due' \subseteq due
      /\ UNCHANGED <<loggedIn, chats, current, load, obj, sidebar, astray, made, list, target,
                     home, status>>
  BY DEF Clear, serverVars
<1>2. made' \in made .. MaxObjects
  BY <1>1 DEF Inv, TypeOK
<1>3. RestType'
  BY <1>1, <1>2, RestKeeps DEF Inv, TypeOK
<1>4. PageType' /\ LoadingEnds' /\ MixInv'
  BY <1>1 DEF Inv, TypeOK, PageType, LoadingEnds, MixInv, ChatsDoNotMix, BlankInv,
              AnswerInv, TargetInv, KnownInv, Known, AstrayInv, Id, IdOf, OfConversation
<1>. QED
  BY <1>3, <1>4, TypePartsPrimed DEF Inv

LEMMA LogoutInv ==
  ASSUME Inv, Logout
  PROVE  Inv'
<1>1. PICK c \in Conversations :
        /\ chats' = {made + 1} /\ current' = <<c, TRUE>> /\ sidebar' = {<<c, TRUE>>}
        /\ obj' = [Aborted(obj) EXCEPT ![made + 1] = NewChat(c, TRUE)]
  BY DEF Logout, NewIds
<1>2. /\ loggedIn' = FALSE /\ due' = {} /\ made < MaxObjects /\ made' = made + 1
      /\ dom' = {} /\ load' = None /\ astray' = FALSE
      /\ UNCHANGED <<list, target, home, status>>
  BY DEF Logout, serverVars
<1>3. /\ made \in Nat /\ obj \in [Objects -> Chat] /\ Objects' = Objects
      /\ load # None => load.object \in Objects
  BY DEF Inv, TypeOK, Loads, Objects
<1>4. /\ Aborted(obj) \in [Objects -> Chat]
      /\ \A p \in Objects :
           /\ Aborted(obj)[p].conv = obj[p].conv
           /\ Aborted(obj)[p].cache = obj[p].cache
           /\ Aborted(obj)[p].loaded = obj[p].loaded
           /\ ~Aborted(obj)[p].loading
  <2>1. /\ Aborted(obj) \in [Objects -> Chat]
        /\ \A p \in Objects :
             /\ Aborted(obj)[p].conv = obj[p].conv
             /\ Aborted(obj)[p].cache = obj[p].cache
             /\ Aborted(obj)[p].loaded = obj[p].loaded
             /\ Aborted(obj)[p].loading <=> obj[p].loading /\ ~(load # None /\ load.object = p)
    BY <1>3, AbortedFacts
  <2>. QED
    BY <2>1 DEF Inv, LoadingEnds
<1>5. /\ made + 1 \in made .. MaxObjects
      /\ obj' \in [Objects -> Chat]
      /\ obj'[made + 1] = NewChat(c, TRUE)
      /\ \A p \in Objects : p # made + 1 => obj'[p] = Aborted(obj)[p]
      /\ \A p \in Objects : p \in 1 .. made \/ p > made + 1 => p # made + 1
      /\ \A p \in 1 .. made + 1 : p > made => p = made + 1
  <2>. DEFINE ob == Aborted(obj)
              new == [ob EXCEPT ![made + 1] = NewChat(c, TRUE)]
  <2>1. obj' = new /\ ob \in [Objects -> Chat] /\ TypeOK
    BY <1>1, <1>4 DEF Inv
  <2>2. new = [ob EXCEPT ![made + 1] = NewChat(c, TRUE)]
    OBVIOUS
  <2>. HIDE DEF ob, new
  <2>3. /\ made + 1 \in made .. MaxObjects
        /\ new \in [Objects -> Chat]
        /\ new[made + 1] = NewChat(c, TRUE)
        /\ \A p \in Objects : p # made + 1 => new[p] = ob[p]
        /\ \A p \in Objects : p \in 1 .. made \/ p > made + 1 => p # made + 1
        /\ \A p \in 1 .. made + 1 : p > made => p = made + 1
    BY <1>2, <2>1, <2>2, OneMoreObject
  <2>. QED
    BY <2>1, <2>3 DEF ob
<1>6. /\ obj'[made + 1].conv = c /\ obj'[made + 1].cache = {} /\ ~obj'[made + 1].loading
      /\ obj'[made + 1].own = TRUE
  <2>1. /\ NewChat(c, TRUE).conv = c /\ NewChat(c, TRUE).own = TRUE
        /\ NewChat(c, TRUE).cache = {} /\ ~NewChat(c, TRUE).loading
    BY DEF NewChat
  <2>. QED
    BY <1>5, <2>1
<1>7. made' \in made .. MaxObjects /\ 1 .. made \subseteq Objects /\ made + 1 \in 1 .. made'
  BY <1>2, <1>3, <1>5 DEF Objects
<1>8. RestType'
  BY <1>2, <1>7, RestKeeps DEF Inv, TypeOK
<1>9. PageType'
  <2>1. ASSUME NEW p \in 1 .. made'
        PROVE  obj'[p].conv # None
    <3>1. p \in 1 .. made \/ p = made + 1
      BY <1>2, <1>3
    <3>2. CASE p \in 1 .. made
      BY <1>4, <1>5, <1>7, <3>2 DEF Inv, TypeOK
    <3>3. CASE p = made + 1
      BY <1>6, <3>3
    <3>. QED
      BY <3>1, <3>2, <3>3
  <2>2. made' \in 0 .. MaxObjects
    BY <1>3, <1>7
  <2>3. /\ sidebar' \subseteq Conversations \X BOOLEAN
        /\ current' \in Conversations \X BOOLEAN
        /\ chats' \subseteq 1 .. made'
    <3>1. <<c, TRUE>> \in Conversations \X BOOLEAN
      OBVIOUS
    <3>2. \A x, S : x \in S => {x} \subseteq S
      OBVIOUS
    <3>3. sidebar' \subseteq Conversations \X BOOLEAN /\ current' \in Conversations \X BOOLEAN
      BY <1>1, <3>1
    <3>4. chats' \subseteq 1 .. made'
      BY <1>1, <1>7, <3>2
    <3>. QED
      BY <3>3, <3>4
  <2>. QED
    BY <1>2, <1>3, <1>5, <2>1, <2>2, <2>3 DEF PageType
<1>10. LoadingEnds'
  BY <1>2, <1>3, <1>4, <1>5, <1>6 DEF LoadingEnds
<1>11. ChatsDoNotMix'
  <2>1. ASSUME NEW p \in Objects, obj'[p].loaded
        PROVE  OfConversation(obj'[p].cache, obj'[p].conv)
    <3>1. CASE p = made + 1
      BY <1>6, <3>1 DEF OfConversation
    <3>2. CASE p # made + 1
      <4>1. obj'[p].cache = obj[p].cache /\ obj'[p].conv = obj[p].conv /\ obj[p].loaded
        BY <1>4, <1>5, <2>1, <3>2
      <4>. QED
        BY <4>1 DEF Inv, MixInv, ChatsDoNotMix
    <3>. QED
      BY <3>1, <3>2
  <2>. QED
    BY <1>2, <1>3, <2>1 DEF ChatsDoNotMix, OfConversation
<1>12. BlankInv'
  <2>1. \A p \in Objects : p > made' => p > made /\ p # made + 1
    BY <1>2, <1>3 DEF Objects
  <2>. QED
    BY <1>3, <1>4, <1>5, <2>1 DEF Inv, MixInv, BlankInv
<1>13. AnswerInv' /\ TargetInv'
  <2>1. \A q \in Queries : target[q] \notin {None, 0} => target[q] \in 1 .. made
    BY <1>3 DEF Inv, TypeOK
  <2>. QED
    BY <1>2, <1>4, <1>5, <1>7, <2>1 DEF Inv, MixInv, AnswerInv, TargetInv
<1>14. KnownInv'
  <2>1. \E o \in 1 .. made' : <<obj'[o].conv, obj'[o].own>> = <<c, TRUE>>
    BY <1>6, <1>7
  <2>2. Known(<<c, TRUE>>)'
    BY <2>1 DEF Known, Id, IdOf
  <2>. QED
    BY <1>1, <2>2 DEF KnownInv
<1>15. AstrayInv'
  BY <1>2 DEF AstrayInv
<1>. QED
  BY <1>8, <1>9, <1>10, <1>11, <1>12, <1>13, <1>14, <1>15, TypePartsPrimed DEF Inv, MixInv

(* The list of a finite set of conversations has each of them once.        *)
LEMMA SetToSeqType ==
  ASSUME NEW S \in SUBSET Conversations
  PROVE  /\ Cardinality(S) \in Nat
         /\ SetToSeq(S) \in [1 .. Cardinality(S) -> S]
         /\ IsInjective(SetToSeq(S))
<1>1. IsFiniteSet(S)
  BY FS_Subset
<1>2. Cardinality(S) \in Nat /\ ExistsBijection(1 .. Cardinality(S), S)
  BY <1>1, FS_CardinalityType
<1>3. \E f \in [1 .. Cardinality(S) -> S] : IsInjective(f)
  BY <1>2 DEF ExistsBijection, Bijection, Injection, IsInjective
<1>. QED
  BY <1>2, <1>3 DEF SetToSeq

LEMMA ListArrivesInv ==
  ASSUME Inv, NEW k \in Lists, ListArrives(k)
  PROVE  Inv'
<1>. DEFINE found == SetToSeq(list[k].found)
            n == Cardinality(list[k].found)
            new == {made + i : i \in DOMAIN found}
            ob == [o \in Objects |->
                     IF o \in new THEN NewChat(found[o - made], FALSE) ELSE obj[o]]
<1>1. /\ list[k].found \in SUBSET Conversations
      /\ made \in Nat /\ obj \in [Objects -> Chat]
      /\ chats \subseteq 1 .. made
  BY DEF Inv, TypeOK
<1>2. n \in Nat /\ found \in [1 .. n -> Conversations]
  BY <1>1, SetToSeqType
<1>. HIDE DEF found, n
<1>3. Len(found) = n /\ DOMAIN found = 1 .. n
  BY <1>2
<1>4. /\ made + Len(found) <= MaxObjects
      /\ made' = made + Len(found)
      /\ list' = [list EXCEPT ![k].stage = "over"]
      /\ UNCHANGED <<loggedIn, target, home, status, due>>
      /\ \E first \in new :
           IF current = IdOf(ob, first)
             THEN chats' = new /\ obj' = ob /\ UNCHANGED <<current, dom, load, sidebar, astray>>
             ELSE Show(first, new, ob)
  BY DEF ListArrives, found, serverVars
<1>5. new \subseteq 1 .. made' /\ made' \in made .. MaxObjects /\ made' = made + n
  BY <1>1, <1>2, <1>3, <1>4
<1>6. \A o \in 1 .. made' : o > made => o \in new /\ o - made \in 1 .. n
  <2>1. ASSUME NEW o \in 1 .. made', o > made
        PROVE  o - made \in 1 .. n /\ o = made + (o - made)
    BY <1>1, <1>2, <1>5, <2>1
  <2>. QED
    BY <1>3, <2>1
<1>7. \A o \in Objects : o \in 1 .. made \/ o > made' => o \notin new
  BY <1>1, <1>2, <1>3, <1>5 DEF Objects
<1>8. ASSUME NEW o \in new
      PROVE  /\ NewChat(found[o - made], FALSE) \in Chat
             /\ NewChat(found[o - made], FALSE).conv \in Conversations
             /\ NewChat(found[o - made], FALSE).cache = {}
             /\ ~NewChat(found[o - made], FALSE).loaded
             /\ ~NewChat(found[o - made], FALSE).loading
  <2>1. o - made \in 1 .. n
    BY <1>1, <1>2, <1>3
  <2>2. found[o - made] \in Conversations
    BY <1>2, <2>1
  <2>. QED
    BY <2>2, NewChatType
<1>9. /\ ob \in [Objects -> Chat]
      /\ \A o \in Objects : o \in new => ob[o] = NewChat(found[o - made], FALSE)
      /\ \A o \in Objects : o \notin new => ob[o] = obj[o]
  BY <1>1, <1>8
<1>10. \A o \in 1 .. made' : o \in Objects
  BY <1>5 DEF Objects
<1>. HIDE DEF new, ob
<1>11. \A p \in Objects : p \in 1 .. made \/ p > made' => ob[p] = obj[p]
  BY <1>7, <1>9
<1>12. \A p \in 1 .. made' : p > made => /\ ob[p].conv \in Conversations
                                         /\ ob[p].cache = {} /\ ~ob[p].loading
  <2>. SUFFICES ASSUME NEW p \in 1 .. made', p > made
                PROVE  /\ ob[p].conv \in Conversations
                       /\ ob[p].cache = {} /\ ~ob[p].loading
    OBVIOUS
  <2>1. p \in new /\ p \in Objects
    BY <1>6, <1>10
  <2>2. ob[p] = NewChat(found[p - made], FALSE)
    BY <1>9, <2>1
  <2>. QED
    BY <1>8, <2>1, <2>2
<1>13. /\ Fits(ob)
       /\ \A p \in 1 .. made' : ob[p].conv \in Conversations
       /\ \A p \in 1 .. made : IdOf(ob, p) = Id(p)
       /\ \A p \in Objects : p > made' => ob[p].cache = {}
  BY <1>5, <1>9, <1>11, <1>12, MoreObjectsFit DEF Inv
<1>13a. \A p \in 1 .. made : ob[p].conv = obj[p].conv
  BY <1>13 DEF IdOf, Id
<1>13b. \A p \in new : ~ob[p].loaded
  <2>. SUFFICES ASSUME NEW p \in new
                PROVE  ~ob[p].loaded
    OBVIOUS
  <2>1. p \in Objects
    BY <1>5, <1>10
  <2>2. ob[p] = NewChat(found[p - made], FALSE)
    BY <1>9, <2>1
  <2>. QED
    BY <1>8, <2>2
<1>14. RestType'
  BY <1>4, <1>5, ListStage, RestKeeps DEF Inv, TypeOK
<1>15. CASE chats' = new /\ obj' = ob /\ UNCHANGED <<current, dom, load, sidebar, astray>>
  <2>1. 1 .. made \subseteq Objects /\ Objects' = Objects /\ 1 .. made \subseteq 1 .. made'
    BY <1>1, <1>5 DEF Objects
  <2>2. PageType'
    <3>1. made' \in 0 .. MaxObjects /\ (load' # None => load'.object <= made')
      BY <1>1, <1>5, <1>15 DEF Inv, TypeOK, Loads, Objects
    <3>2. \A o \in 1 .. made' : ob[o].conv # None
      BY <1>13
    <3>. QED
      BY <1>5, <1>9, <1>15, <2>1, <3>1, <3>2 DEF PageType, Inv, TypeOK
  <2>3. LoadingEnds'
    BY <1>13, <1>15, <2>1 DEF Fits, LoadingEnds
  <2>4. ChatsDoNotMix'
    BY <1>4, <1>13, <1>15, <2>1 DEF Fits, Inv, MixInv, ChatsDoNotMix, OfConversation
  <2>5. BlankInv'
    BY <1>13, <1>15, <2>1 DEF BlankInv
  <2>6. AnswerInv'
    <3>1. load # None => load.object \in 1 .. made
      BY DEF Inv, TypeOK, Loads, Objects
    <3>. QED
      BY <1>4, <1>13a, <1>15, <3>1 DEF Inv, MixInv, AnswerInv, OfConversation
  <2>7. TargetInv'
    <3>1. \A q \in Queries : target[q] \notin {None, 0} => target[q] \in 1 .. made
      BY <1>1 DEF Inv, TypeOK
    <3>. QED
      BY <1>4, <1>13a, <1>15, <3>1 DEF Inv, MixInv, TargetInv
  <2>8. KnownInv'
    <3>1. \A p \in 1 .. made : p \in 1 .. made' /\ Id(p)' = Id(p)
      BY <1>13, <1>15, <2>1 DEF Id, IdOf
    <3>. QED
      BY <1>15, <3>1 DEF Inv, MixInv, KnownInv, Known
  <2>9. AstrayInv'
    BY <1>13b, <1>15 DEF Inv, MixInv, AstrayInv
  <2>. QED
    BY <1>14, <2>2, <2>3, <2>4, <2>5, <2>6, <2>7, <2>8, <2>9, TypePartsPrimed DEF Inv, MixInv
<1>16. ASSUME NEW first \in new, Show(first, new, ob)
       PROVE  Inv'
  <2>1. PageType' /\ LoadingEnds' /\ MixInv'
    BY <1>4, <1>5, <1>13, <1>13b, <1>16, ShowKeeps DEF Inv, TypeOK, Savable
  <2>. QED
    BY <1>14, <2>1, TypePartsPrimed DEF Inv
<1>. QED
  BY <1>4, <1>15, <1>16

-----------------------------------------------------------------------------
LEMMA NextInv == Inv /\ [Next]_vars => Inv'
<1>. SUFFICES ASSUME Inv, [Next]_vars
              PROVE  Inv'
  OBVIOUS
<1>1. CASE Click
  BY <1>1, SwitchInv, SwitchToDroppedInv, CreateInv, ClearInv, LogoutInv, AskInv, RunInv DEF Click
<1>2. CASE Arrival
  BY <1>2, HistoryInv, ListArrivesInv, CreateInv, RunArrivesInv, PushInv DEF Arrival
<1>3. CASE ServerStep
  BY <1>3, HistoryInv, AskInv, ServerInv DEF ServerStep
<1>4. CASE UNCHANGED vars
  <2>1. UNCHANGED <<loggedIn, pageVars, made, list, target, home, status, due>>
    BY <1>4 DEF vars, serverVars
  <2>2. made' \in made .. MaxObjects
    BY <2>1 DEF Inv, TypeOK
  <2>3. RestType'
    BY <2>1, <2>2, RestKeeps DEF Inv, TypeOK
  <2>. QED
    BY <2>1, <2>3, PageKeeps, TypePartsPrimed DEF Inv
<1>. QED
  BY <1>1, <1>2, <1>3, <1>4 DEF Next

LEMMA AlwaysInv == Spec => []Inv
<1>1. Init => Inv
  BY InitInv DEF Inv
<1>. QED
  BY <1>1, NextInv, PTL DEF Spec

-----------------------------------------------------------------------------
(* What a loaded chat shows.  A result that is due has not been overtaken  *)
(* by a history, unless that is a full page without its query; while the   *)
(* conversation's history is on its way no chat of it counts as loaded;    *)
(* and no two chats of the page have the same conversation.                *)
OneChatEach == \A o, p \in chats : obj[o].conv = obj[p].conv => o = p
AskedNotLoaded ==
  load # None => \A o \in chats : obj[o].conv = obj[load.object].conv => ~obj[o].loaded
DueNotOvertaken == \A q \in due : Overtaken(q) => load.token /\ BeyondPage(q)
DueWhileIn == ~loggedIn => due = {}

FullInv ==
  LoadedIsComplete /\ OneChatEach /\ AskedNotLoaded /\ DueNotOvertaken /\ DueWhileIn

(* M has the results that are due of the conversation c.                   *)
Full(c, M) == \A q \in due : home[q] = c => <<q, "result">> \in M

LEMMA LoadedIsFull ==
  LoadedIsComplete <=> \A o \in chats : obj[o].loaded => Full(obj[o].conv, View(o))
  BY DEF LoadedIsComplete, Full

LEMMA InitFullInv == Init => FullInv
  BY DEF Init, FullInv, LoadedIsComplete, OneChatEach, AskedNotLoaded, DueNotOvertaken,
         DueWhileIn

(* A query that is due was sent.                                           *)
LEMMA DueIsOld ==
  ASSUME TypeOK
  PROVE  \A q \in due : q \in Queries /\ q \in Stored /\ q \in Settled /\ home[q] \in Conversations
  BY DEF TypeOK, Settled, Stored

(* A step that only adds to what is shown.                                 *)
LEMMA MoreShown ==
  ASSUME Inv, FullInv, UNCHANGED <<chats, current>>, due' \subseteq due,
         \A q \in due : home'[q] = home[q],
         load' = None \/ load' = load,
         loggedIn' = loggedIn \/ loggedIn' = TRUE,
         \A p \in Objects : /\ obj'[p].conv = obj[p].conv
                            /\ obj'[p].own = obj[p].own
                            /\ obj'[p].loaded = obj[p].loaded,
         \A p \in chats : obj[p].cache \subseteq obj'[p].cache,
         dom \subseteq dom'
  PROVE  FullInv'
<1>1. chats \subseteq Objects /\ (load # None => load.object \in Objects)
  BY DEF Inv, TypeOK, Objects, Loads
<1>2. \A p \in chats : View(p) \subseteq View(p)'
  BY <1>1 DEF View, Id, IdOf
<1>3. LoadedIsComplete'
  BY <1>1, <1>2 DEF FullInv, LoadedIsComplete
<1>4. OneChatEach' /\ AskedNotLoaded' /\ DueWhileIn'
  BY <1>1 DEF FullInv, OneChatEach, AskedNotLoaded, DueWhileIn
<1>5. DueNotOvertaken'
  <2>1. CASE load' = None
    BY <2>1 DEF DueNotOvertaken, Overtaken
  <2>2. CASE load' = load /\ load # None
    <3>1. obj'[load.object].conv = obj[load.object].conv
      BY <1>1, <2>2
    <3>2. \A q \in due : /\ Overtaken(q)' <=> Overtaken(q)
                         /\ BeyondPage(q)' <=> BeyondPage(q)
      BY <2>2, <3>1 DEF Overtaken, BeyondPage
    <3>. QED
      BY <2>2, <3>2 DEF FullInv, DueNotOvertaken
  <2>. QED
    BY <2>1, <2>2
<1>. QED
  BY <1>3, <1>4, <1>5 DEF FullInv

(* switchChat, in any of the ways it is called: what is shown now of the   *)
(* chats that count as loaded is full, and they have one object each.      *)
LEMMA ShowFull ==
  ASSUME Inv, FullInv, loggedIn' = loggedIn, UNCHANGED <<home, due>>,
         NEW L, NEW ob, Fits(ob), L \subseteq Objects, NEW o \in L, Show(o, L, ob),
         \A p, v \in L : ob[p].conv = ob[v].conv => p = v,
         \A p \in L : ob[p].loaded =>
           /\ ~ob[p].loading
           /\ Full(ob[p].conv, IF IdOf(ob, p) = current THEN dom ELSE ob[p].cache)
  PROVE  FullInv'
<1>. DEFINE saved == Saved(L, ob)
            left == Aborted(saved)
<1>1. /\ ob \in [Objects -> Chat] /\ dom \subseteq Messages
      /\ load # None => load.object \in Objects
      /\ o \in Objects
  BY DEF Fits, Inv, TypeOK, Loads
<1>2. /\ saved \in [Objects -> Chat]
      /\ \A p \in Objects :
           /\ saved[p].conv = ob[p].conv
           /\ saved[p].own = ob[p].own
           /\ saved[p].loaded = ob[p].loaded
           /\ \/ saved[p].cache = ob[p].cache
              \/ p \in L /\ IdOf(ob, p) = current /\ saved[p].cache = dom
  BY <1>1, SavedFacts
<1>3. \A p \in L : IdOf(ob, p) = current /\ ~ob[p].loading => saved[p].cache = dom
  <2>1. \A p \in Objects : ob[p] \in Chat
    BY <1>1
  <2>. QED
    BY <2>1 DEF Saved, Chat
<1>4. \A p \in L : IdOf(ob, p) # current => saved[p].cache = ob[p].cache
  BY <1>2
<1>5. /\ left \in [Objects -> Chat]
      /\ \A p \in Objects :
           /\ left[p].conv = ob[p].conv
           /\ left[p].own = ob[p].own
           /\ left[p].loaded = ob[p].loaded
           /\ left[p].cache = saved[p].cache
  <2>1. /\ left \in [Objects -> Chat]
        /\ \A p \in Objects :
             /\ left[p].conv = saved[p].conv
             /\ left[p].own = saved[p].own
             /\ left[p].loaded = saved[p].loaded
             /\ left[p].cache = saved[p].cache
    BY <1>1, <1>2, AbortedFacts
  <2>. QED
    BY <1>2, <2>1
<1>6. /\ chats' = L /\ current' = IdOf(ob, o)
      /\ IF ob[o].loaded
           THEN /\ dom' = left[o].cache
                /\ load' = None
                /\ obj' = left
           ELSE /\ load' = [object |-> o, answer |-> None, token |-> loggedIn']
                /\ obj' = [left EXCEPT ![o].loading = TRUE]
  BY DEF Show
<1>. HIDE DEF left, saved
<1>7. \A p \in L : ob[p].loaded => Full(ob[p].conv, left[p].cache)
  BY <1>3, <1>4, <1>5
<1>8. \A p \in L : obj'[p].conv = ob[p].conv /\ obj'[p].own = ob[p].own
                    /\ obj'[p].loaded = ob[p].loaded /\ obj'[p].cache = left[p].cache
  <2>1. CASE ob[o].loaded
    BY <1>5, <1>6, <2>1
  <2>2. CASE ~ob[o].loaded
    <3>1. left[o] \in Chat /\ obj' = [left EXCEPT ![o] = [left[o] EXCEPT !.loading = TRUE]]
      BY <1>1, <1>5, <1>6, <2>2
    <3>2. /\ [left[o] EXCEPT !.loading = TRUE].conv = left[o].conv
          /\ [left[o] EXCEPT !.loading = TRUE].own = left[o].own
          /\ [left[o] EXCEPT !.loading = TRUE].loaded = left[o].loaded
          /\ [left[o] EXCEPT !.loading = TRUE].cache = left[o].cache
      BY <3>1 DEF Chat
    <3>. QED
      BY <1>1, <1>5, <3>1, <3>2
  <2>. QED
    BY <2>1, <2>2
<1>9. \A p \in L : IdOf(ob, p) = IdOf(ob, o) => p = o
  BY DEF IdOf
<1>10. LoadedIsComplete'
  <2>. SUFFICES ASSUME NEW p \in L, ob[p].loaded, NEW q \in due, home[q] = ob[p].conv
                PROVE  <<q, "result">> \in View(p)'
    BY <1>6, <1>8 DEF LoadedIsComplete
  <2>1. <<q, "result">> \in left[p].cache
    BY <1>7 DEF Full
  <2>2. Id(p)' = IdOf(ob, p)
    BY <1>8 DEF Id, IdOf
  <2>3. CASE p = o
    BY <1>6, <2>1, <2>2, <2>3 DEF View
  <2>4. CASE p # o
    <3>1. Id(p)' # current'
      BY <1>6, <1>9, <2>2, <2>4
    <3>2. View(p)' = left[p].cache
      BY <1>8, <3>1 DEF View
    <3>. QED
      BY <2>1, <3>2
  <2>. QED
    BY <2>3, <2>4
<1>11. OneChatEach' /\ DueWhileIn'
  BY <1>6, <1>8 DEF OneChatEach, FullInv, DueWhileIn
<1>12. AskedNotLoaded' /\ DueNotOvertaken'
  <2>1. CASE ob[o].loaded
    BY <1>6, <2>1 DEF AskedNotLoaded, DueNotOvertaken, Overtaken
  <2>2. CASE ~ob[o].loaded
    <3>1. load'.object = o /\ load'.answer = None /\ load'.token = loggedIn
      BY <1>6, <2>2
    <3>2. AskedNotLoaded'
      BY <1>6, <1>8, <2>2, <3>1 DEF AskedNotLoaded
    <3>3. due # {} => loggedIn
      BY DEF FullInv, DueWhileIn
    <3>. QED
      BY <3>1, <3>2, <3>3 DEF DueNotOvertaken, Overtaken
  <2>. QED
    BY <2>1, <2>2
<1>. QED
  BY <1>10, <1>11, <1>12 DEF FullInv

(* No chat of the page that counts as loaded is loading.                   *)
LEMMA LoadedNotLoading ==
  ASSUME Inv, FullInv
  PROVE  \A p \in chats : obj[p].loaded => ~obj[p].loading
  BY DEF Inv, TypeOK, Objects, LoadingEnds, FullInv, AskedNotLoaded

LEMMA SwitchFull ==
  ASSUME Inv, FullInv, NEW o \in Objects, SwitchChat(o)
  PROVE  FullInv'
<1>1. /\ o \in chats /\ Show(o, chats, obj) /\ chats \subseteq Objects
      /\ loggedIn' = loggedIn /\ UNCHANGED <<home, due>>
  BY DEF SwitchChat, serverVars, Inv, TypeOK, Objects
<1>2. Fits(obj)
  BY ObjFits DEF Inv
<1>3. \A p \in chats : obj[p].loaded =>
        /\ ~obj[p].loading
        /\ Full(obj[p].conv, IF IdOf(obj, p) = current THEN dom ELSE obj[p].cache)
  BY LoadedNotLoading, LoadedIsFull DEF FullInv, View, Id
<1>4. \A p, v \in chats : obj[p].conv = obj[v].conv => p = v
  BY DEF FullInv, OneChatEach
<1>. QED
  BY <1>1, <1>2, <1>3, <1>4, ShowFull

(* The chat that is left keeps what it showed.                             *)
LEMMA SwitchToDroppedFull ==
  ASSUME Inv, FullInv, NEW id \in Conversations \X BOOLEAN, SwitchToDropped(id)
  PROVE  FullInv'
<1>. DEFINE saved == Saved(chats, obj)
<1>1. /\ id \notin Ids(obj, chats) /\ current' = id /\ obj' = Aborted(saved) /\ load' = None
      /\ UNCHANGED <<loggedIn, chats, home, due>>
      /\ obj \in [Objects -> Chat] /\ dom \subseteq Messages /\ chats \subseteq Objects
      /\ load # None => load.object \in Objects
  BY DEF SwitchToDropped, serverVars, Inv, TypeOK, Objects, Loads
<1>2. /\ saved \in [Objects -> Chat]
      /\ \A p \in Objects :
           /\ saved[p].conv = obj[p].conv
           /\ saved[p].own = obj[p].own
           /\ saved[p].loaded = obj[p].loaded
           /\ \/ saved[p].cache = obj[p].cache
              \/ p \in chats /\ IdOf(obj, p) = current /\ saved[p].cache = dom
  BY <1>1, SavedFacts
<1>3. \A p \in chats : IdOf(obj, p) = current /\ ~obj[p].loading => saved[p].cache = dom
  <2>1. \A p \in Objects : obj[p] \in Chat
    BY <1>1
  <2>. QED
    BY <1>1, <2>1 DEF Saved, Chat
<1>. HIDE DEF saved
<1>4. \A p \in Objects : /\ obj'[p].conv = obj[p].conv
                         /\ obj'[p].own = obj[p].own
                         /\ obj'[p].loaded = obj[p].loaded
                         /\ obj'[p].cache = saved[p].cache
  <2>1. \A p \in Objects : /\ Aborted(saved)[p].conv = saved[p].conv
                           /\ Aborted(saved)[p].own = saved[p].own
                           /\ Aborted(saved)[p].loaded = saved[p].loaded
                           /\ Aborted(saved)[p].cache = saved[p].cache
    BY <1>1, <1>2, AbortedFacts
  <2>. QED
    BY <1>1, <1>2, <2>1
<1>5. ASSUME NEW p \in chats, obj[p].loaded
      PROVE  View(p)' = View(p)
  <2>1. Id(p)' = Id(p) /\ Id(p) # current'
    BY <1>1, <1>4 DEF Id, IdOf, Ids
  <2>2. saved[p].cache = View(p)
    BY <1>1, <1>2, <1>3, <1>5, LoadedNotLoading DEF View, Id
  <2>. QED
    BY <1>1, <1>4, <2>1, <2>2 DEF View
<1>6. LoadedIsComplete'
  BY <1>1, <1>4, <1>5 DEF FullInv, LoadedIsComplete
<1>7. OneChatEach' /\ AskedNotLoaded' /\ DueNotOvertaken' /\ DueWhileIn'
  BY <1>1, <1>4 DEF FullInv, OneChatEach, AskedNotLoaded, DueNotOvertaken, Overtaken,
                    DueWhileIn
<1>. QED
  BY <1>6, <1>7 DEF FullInv

(* A new chat is loaded, and nothing is due of its conversation.           *)
LEMMA CreateFull ==
  ASSUME Inv, FullInv, loggedIn' = loggedIn, UNCHANGED <<home, due>>,
         NEW L \in {{}, chats}, Create(L)
  PROVE  FullInv'
<1>1. PICK c \in NewIds :
        Show(made + 1, L \cup {made + 1}, [obj EXCEPT ![made + 1] = NewChat(c, TRUE)])
  BY DEF Create
<1>1a. c \in Conversations
  BY DEF NewIds
<1>1b. /\ \A p \in Objects : obj[p].conv # c
       /\ \A q \in Queries : home[q] # c
  BY DEF NewIds
<1>. DEFINE ob == [obj EXCEPT ![made + 1] = NewChat(c, TRUE)]
<1>2. /\ made < MaxObjects /\ made \in Nat /\ obj \in [Objects -> Chat] /\ TypeOK
      /\ L \subseteq 1 .. made
  BY DEF Create, Inv, TypeOK
<1>3. Show(made + 1, L \cup {made + 1}, ob) /\ ob = [obj EXCEPT ![made + 1] = NewChat(c, TRUE)]
  BY <1>1
<1>. HIDE DEF ob
<1>4. /\ made + 1 \in made .. MaxObjects
      /\ ob \in [Objects -> Chat]
      /\ ob[made + 1] = NewChat(c, TRUE)
      /\ \A p \in Objects : p # made + 1 => ob[p] = obj[p]
      /\ \A p \in Objects : p \in 1 .. made \/ p > made + 1 => p # made + 1
      /\ \A p \in 1 .. made + 1 : p > made => p = made + 1
  BY <1>1a, <1>2, <1>3, OneMoreObject
<1>5. /\ NewChat(c, TRUE).conv = c /\ NewChat(c, TRUE).own
      /\ NewChat(c, TRUE).cache = {} /\ ~NewChat(c, TRUE).loading
  BY DEF NewChat
<1>6. /\ made + 1 \in Objects /\ L \subseteq Objects /\ L \subseteq chats
      /\ \A p \in L : p # made + 1 /\ ob[p] = obj[p]
  BY <1>2, <1>4 DEF Objects
<1>7. Fits(ob)
  <2>1. \A p \in Objects : p \in 1 .. made \/ p > made + 1 => ob[p] = obj[p]
    BY <1>4
  <2>2. \A p \in 1 .. made + 1 : p > made => /\ ob[p].conv \in Conversations
                                             /\ ob[p].cache = {} /\ ~ob[p].loading
    <3>1. ob[made + 1].conv \in Conversations
      BY <1>1a, <1>4, <1>5
    <3>2. ob[made + 1].cache = {} /\ ~ob[made + 1].loading
      BY <1>4, <1>5
    <3>. QED
      BY <1>4, <3>1, <3>2
  <2>. QED
    BY <1>2, <1>4, <2>1, <2>2, MoreObjectsFit DEF Inv
<1>8. \A p \in L : obj[p].conv # c
  BY <1>1b, <1>6
<1>9. \A p, v \in L \cup {made + 1} : ob[p].conv = ob[v].conv => p = v
  <2>1. \A p \in L : ob[p].conv # ob[made + 1].conv
    BY <1>4, <1>5, <1>6, <1>8
  <2>2. \A p, v \in L : ob[p].conv = ob[v].conv => p = v
    BY <1>6 DEF FullInv, OneChatEach
  <2>. QED
    BY <2>1, <2>2
<1>10. \A q \in due : home[q] # c
  BY <1>1b, DueIsOld DEF Inv
<1>11. ASSUME NEW p \in L \cup {made + 1}, ob[p].loaded
       PROVE  /\ ~ob[p].loading
              /\ Full(ob[p].conv, IF IdOf(ob, p) = current THEN dom ELSE ob[p].cache)
  <2>1. CASE p = made + 1
    BY <1>4, <1>5, <1>10, <2>1 DEF Full
  <2>2. CASE p \in L
    <3>1. obj[p].loaded /\ p \in chats /\ ob[p] = obj[p]
      BY <1>6, <1>11, <2>2
    <3>2. Full(obj[p].conv, View(p)) /\ ~obj[p].loading
      BY <3>1, LoadedIsFull, LoadedNotLoading DEF FullInv
    <3>3. View(p) = IF IdOf(ob, p) = current THEN dom ELSE ob[p].cache
      BY <3>1 DEF View, Id, IdOf
    <3>. QED
      BY <3>1, <3>2, <3>3
  <2>. QED
    BY <2>1, <2>2
<1>. QED
  <2>. DEFINE L1 == L \cup {made + 1}
  <2>1. L1 \subseteq Objects /\ made + 1 \in L1
    BY <1>6
  <2>2. Show(made + 1, L1, ob)
    BY <1>3
  <2>3. \A p, v \in L1 : ob[p].conv = ob[v].conv => p = v
    BY <1>9
  <2>4. \A p \in L1 : ob[p].loaded =>
          /\ ~ob[p].loading
          /\ Full(ob[p].conv, IF IdOf(ob, p) = current THEN dom ELSE ob[p].cache)
    BY <1>11
  <2>. HIDE DEF L1
  <2>. QED
    BY <1>7, <2>1, <2>2, <2>3, <2>4, ShowFull

(* loadChats puts unloaded objects in the place of all.                    *)
LEMMA ListArrivesFull ==
  ASSUME Inv, FullInv, NEW k \in Lists, ListArrives(k)
  PROVE  FullInv'
<1>. DEFINE found == SetToSeq(list[k].found)
            new == {made + i : i \in DOMAIN found}
            ob == [o \in Objects |->
                     IF o \in new THEN NewChat(found[o - made], FALSE) ELSE obj[o]]
<1>1. /\ list[k].found \in SUBSET Conversations
      /\ made \in Nat /\ obj \in [Objects -> Chat]
  BY DEF Inv, TypeOK
<1>2. /\ Cardinality(list[k].found) \in Nat
      /\ found \in [1 .. Cardinality(list[k].found) -> Conversations]
      /\ IsInjective(found)
  BY <1>1, SetToSeqType
<1>3. /\ loggedIn' = loggedIn /\ UNCHANGED <<home, due>>
      /\ \E first \in new :
           IF current = IdOf(ob, first)
             THEN chats' = new /\ obj' = ob /\ UNCHANGED <<current, dom, load, sidebar, astray>>
             ELSE Show(first, new, ob)
  BY DEF ListArrives, serverVars
<1>4. new \subseteq Objects
  BY <1>1, <1>2 DEF ListArrives, Objects
<1>. HIDE DEF found
<1>5. ASSUME NEW p \in new
      PROVE  /\ p - made \in DOMAIN found /\ p = made + (p - made)
             /\ ob[p].conv = found[p - made]
             /\ ob[p].cache = {} /\ ~ob[p].loaded /\ ~ob[p].loading
  <2>1. p - made \in DOMAIN found /\ p = made + (p - made)
    BY <1>1, <1>2
  <2>2. ob[p] = NewChat(found[p - made], FALSE)
    BY <1>4
  <2>3. \A b \in {FALSE} : LET n == NewChat(found[p - made], b) IN
          n.conv = found[p - made] /\ n.cache = {} /\ n.loaded = b /\ ~n.loading
    BY DEF NewChat
  <2>. HIDE DEF new, ob
  <2>. QED
    BY <2>1, <2>2, <2>3
<1>6. \A p, v \in new : ob[p].conv = ob[v].conv => p = v
  <2>. SUFFICES ASSUME NEW p \in new, NEW v \in new, ob[p].conv = ob[v].conv
                PROVE  p = v
    OBVIOUS
  <2>. HIDE DEF new, ob
  <2>1. p - made = v - made
    BY <1>2, <1>5 DEF IsInjective
  <2>. QED
    BY <1>5, <2>1
<1>7. \A p \in Objects \ new : ob[p] = obj[p]
  OBVIOUS
<1>8. \A p \in Objects : p \in 1 .. made => p \notin new
  BY <1>1, <1>2
<1>9. CASE chats' = new /\ obj' = ob /\ UNCHANGED <<current, dom, load, sidebar, astray>>
  <2>. HIDE DEF new, ob
  <2>1. \A p \in chats' : ~obj'[p].loaded
    BY <1>5, <1>9
  <2>2. LoadedIsComplete' /\ AskedNotLoaded'
    BY <2>1 DEF LoadedIsComplete, AskedNotLoaded
  <2>3. OneChatEach' /\ DueWhileIn'
    BY <1>3, <1>6, <1>9 DEF OneChatEach, FullInv, DueWhileIn
  <2>4. load # None => load.object \in 1 .. made /\ load.object \in Objects
    BY DEF Inv, TypeOK, Loads, Objects
  <2>5. load # None => obj'[load.object].conv = obj[load.object].conv
    BY <1>7, <1>8, <1>9, <2>4
  <2>6. \A q \in due : Overtaken(q)' <=> Overtaken(q)
    BY <1>3, <1>9, <2>5 DEF Overtaken
  <2>7. DueNotOvertaken'
    BY <1>3, <1>9, <2>6 DEF FullInv, DueNotOvertaken, BeyondPage
  <2>. QED
    BY <2>2, <2>3, <2>7 DEF FullInv
<1>11. made + Len(found) \in made .. MaxObjects
  BY <1>1, <1>2 DEF ListArrives, found
<1>12. ob \in [Objects -> Chat]
  <2>1. \A p \in Objects : p \in new => NewChat(found[p - made], FALSE) \in Chat
    <3>1. \A p \in new : found[p - made] \in Conversations
      BY <1>2, <1>5
    <3>. QED
      BY <3>1, NewChatType
  <2>. QED
    BY <1>1, <2>1
<1>13. /\ \A p \in Objects : p \in 1 .. made \/ p > made + Len(found) => ob[p] = obj[p]
       /\ \A p \in 1 .. made + Len(found) : p > made =>
            ob[p].conv \in Conversations /\ ob[p].cache = {} /\ ~ob[p].loading
  <2>1. Len(found) \in Nat /\ DOMAIN found = 1 .. Len(found)
    BY <1>2
  <2>2. \A p \in Objects : p \in 1 .. made \/ p > made + Len(found) => p \notin new
    BY <1>1, <2>1 DEF Objects
  <2>3. ASSUME NEW p \in 1 .. made + Len(found), p > made
        PROVE  p \in new
    <3>1. p - made \in 1 .. Len(found) /\ p = made + (p - made)
      BY <1>1, <2>1, <2>3
    <3>. QED
      BY <2>1, <3>1
  <2>. HIDE DEF new, ob
  <2>4. \A p \in new : ob[p].conv \in Conversations
    BY <1>2, <1>5
  <2>. QED
    BY <1>5, <1>7, <2>2, <2>3, <2>4
<1>10. ASSUME NEW first \in new, Show(first, new, ob)
       PROVE  FullInv'
  <2>. HIDE DEF new, ob
  <2>1. Fits(ob)
    BY <1>1, <1>4, <1>11, <1>12, <1>13, MoreObjectsFit DEF Inv
  <2>. QED
    BY <1>3, <1>4, <1>5, <1>6, <1>10, <2>1, ShowFull
<1>. QED
  BY <1>3, <1>9, <1>10

(* The history of a chat that arrives has what is due of it, and a chat    *)
(* whose history fails does not count as loaded.                           *)
LEMMA HistoryFull ==
  ASSUME Inv, FullInv, AnswerHistory \/ HistoryArrives \/ HistoryFails
  PROVE  FullInv'
<1>. DEFINE l == load.object
<1>1. /\ load # None /\ load \in Loads /\ l \in Objects
      /\ obj \in [Objects -> Chat] /\ obj[l] \in Chat
      /\ chats \subseteq Objects
      /\ UNCHANGED <<loggedIn, chats, current, home>>
      /\ due' \subseteq due
  BY DEF Inv, TypeOK, Objects, Loads, AnswerHistory, HistoryArrives, HistoryFails, serverVars
<1>2. /\ \A o \in chats : obj[o].conv = obj[l].conv => ~obj[o].loaded
      /\ \A q \in due : home[q] = obj[l].conv =>
           /\ load.token
           /\ load.answer # None => <<q, "result">> \in load.answer \/ BeyondPage(q)
  BY <1>1 DEF FullInv, AskedNotLoaded, DueNotOvertaken, Overtaken
<1>3. CASE AnswerHistory
  <2>1. PICK answer \in IF load.token THEN Histories(obj[l].conv) ELSE {{}} :
          load' = [load EXCEPT !.answer = answer]
    BY <1>3 DEF AnswerHistory
  <2>2. /\ load'.object = l /\ load'.token = load.token /\ load'.answer = answer
        /\ UNCHANGED <<obj, dom, due>>
    BY <1>1, <1>3, <2>1 DEF Loads, AnswerHistory
  <2>3. LoadedIsComplete' /\ OneChatEach' /\ AskedNotLoaded' /\ DueWhileIn'
    BY <1>1, <1>2, <2>2 DEF FullInv, LoadedIsComplete, View, Id, IdOf, OneChatEach,
                             AskedNotLoaded, DueWhileIn
  <2>4. ASSUME NEW q \in due, home[q] = obj[l].conv
        PROVE  <<q, "result">> \in answer \/ BeyondPage(q)'
    <3>. DEFINE S == {x \in Stored : home[x] = obj[l].conv}
    <3>1. load.token
      BY <1>2, <2>4
    <3>2. PICK page \in FirstPages(S, HistoryLimit) :
            answer = {<<x, "prompt">> : x \in page} \cup {<<x, "result">> : x \in page \cap Settled}
      BY <2>1, <3>1 DEF Histories
    <3>3. q \in Stored /\ q \in Settled
      BY DueIsOld DEF Inv
    <3>4. CASE q \in page
      BY <3>2, <3>3, <3>4
    <3>5. CASE q \notin page
      <4>1. page \subseteq Queries /\ Cardinality(page) = HistoryLimit
        BY <2>4, <3>3, <3>5 DEF FirstPages, Stored
      <4>2. \A x : <<x, "prompt">> \in answer <=> x \in page
        BY <3>2
      <4>3. {x \in Queries : <<x, "prompt">> \in answer} = page
        BY <4>1, <4>2
      <4>. QED
        BY <2>2, <3>5, <4>1, <4>2, <4>3 DEF BeyondPage
    <3>. QED
      BY <3>4, <3>5
  <2>5. DueNotOvertaken'
    <3>. SUFFICES ASSUME NEW q \in due, home[q] = obj[l].conv, <<q, "result">> \notin answer
                  PROVE  load'.token /\ BeyondPage(q)'
      BY <1>1, <1>2, <2>2 DEF DueNotOvertaken, Overtaken
    <3>. QED
      BY <1>2, <2>2, <2>4
  <2>. QED
    BY <2>3, <2>5 DEF FullInv
<1>4. CASE (HistoryArrives \/ HistoryFails) /\ current # Id(l)
  <2>1. load' = None /\ dom' = dom /\ obj' = [obj EXCEPT ![l] = [obj[l] EXCEPT !.loading = FALSE]]
    BY <1>1, <1>4 DEF HistoryArrives, HistoryFails
  <2>2. \A p \in Objects : /\ obj'[p].conv = obj[p].conv /\ obj'[p].own = obj[p].own
                           /\ obj'[p].loaded = obj[p].loaded /\ obj'[p].cache = obj[p].cache
    BY <1>1, <2>1 DEF Chat
  <2>. QED
    BY <1>1, <2>1, <2>2, MoreShown
<1>5. CASE HistoryArrives /\ current = Id(l)
  <2>1. /\ load' = None /\ dom' = load.answer /\ load.answer # None
        /\ obj' = [obj EXCEPT ![l] = [obj[l] EXCEPT !.cache = load.answer,
                                          !.loaded = TRUE, !.loading = FALSE]]
        /\ due' = {q \in due : ~(home[q] = current[1] /\ BeyondPage(q))}
    BY <1>1, <1>5 DEF HistoryArrives
  <2>2. /\ \A p \in Objects : obj'[p].conv = obj[p].conv /\ obj'[p].own = obj[p].own
        /\ \A p \in Objects \ {l} : obj'[p].loaded = obj[p].loaded /\ obj'[p].cache = obj[p].cache
    BY <1>1, <2>1 DEF Chat
  <2>3. ASSUME NEW o \in chats, obj'[o].loaded
        PROVE  \A q \in due' : home[q] = obj[o].conv => <<q, "result">> \in View(o)'
    <3>1. Id(o)' = Id(o) /\ current' = current /\ o \in Objects
      BY <1>1, <2>2 DEF Id, IdOf
    <3>2. CASE Id(o) = current
      <4>1. obj[o].conv = obj[l].conv /\ obj[o].conv = current[1] /\ View(o)' = load.answer
        BY <1>5, <2>1, <3>1, <3>2 DEF View, Id, IdOf
      <4>. QED
        BY <1>2, <2>1, <4>1
    <3>3. CASE Id(o) # current
      <4>1. o # l /\ View(o)' = obj[o].cache /\ View(o) = obj[o].cache /\ obj[o].loaded
        BY <1>5, <2>2, <2>3, <3>1, <3>3 DEF View
      <4>. QED
        BY <1>1, <4>1 DEF FullInv, LoadedIsComplete
    <3>. QED
      BY <3>2, <3>3
  <2>4. LoadedIsComplete'
    BY <1>1, <2>2, <2>3 DEF LoadedIsComplete
  <2>5. OneChatEach' /\ AskedNotLoaded' /\ DueNotOvertaken' /\ DueWhileIn'
    BY <1>1, <2>1, <2>2 DEF FullInv, OneChatEach, AskedNotLoaded, DueNotOvertaken,
                            Overtaken, DueWhileIn
  <2>. QED
    BY <2>4, <2>5 DEF FullInv
<1>6. CASE HistoryFails /\ current = Id(l)
  <2>1. /\ load' = None /\ due' = due
        /\ obj' = [obj EXCEPT ![l] = [obj[l] EXCEPT !.cache = {}, !.loading = FALSE]]
    BY <1>1, <1>6 DEF HistoryFails
  <2>2. /\ \A p \in Objects : /\ obj'[p].conv = obj[p].conv /\ obj'[p].own = obj[p].own
                              /\ obj'[p].loaded = obj[p].loaded
        /\ \A p \in Objects \ {l} : obj'[p].cache = obj[p].cache
    BY <1>1, <2>1 DEF Chat
  <2>3. ASSUME NEW o \in chats, obj'[o].loaded
        PROVE  Full(obj[o].conv, View(o)')
    <3>1. Id(o)' = Id(o) /\ current' = current /\ o \in Objects /\ obj[o].loaded
      BY <1>1, <2>2, <2>3 DEF Id, IdOf
    <3>2. Id(o) # current
      BY <1>2, <1>6, <3>1 DEF Id, IdOf
    <3>3. o # l /\ View(o)' = obj[o].cache /\ View(o) = obj[o].cache
      BY <1>6, <2>2, <3>1, <3>2 DEF View
    <3>. QED
      BY <3>1, <3>3, LoadedIsFull DEF FullInv
  <2>4. LoadedIsComplete'
    BY <1>1, <2>2, <2>3 DEF LoadedIsComplete, Full
  <2>5. OneChatEach' /\ AskedNotLoaded' /\ DueNotOvertaken' /\ DueWhileIn'
    BY <1>1, <2>1, <2>2 DEF FullInv, OneChatEach, AskedNotLoaded, DueNotOvertaken,
                            Overtaken, DueWhileIn
  <2>. QED
    BY <2>4, <2>5 DEF FullInv
<1>. QED
  BY <1>3, <1>4, <1>5, <1>6

(* What a message adds is seen in its chat and takes nothing away.         *)
LEMMA LogShows ==
  ASSUME Inv, NEW o \in Objects, NEW message \in Messages, LogToClean(o, message),
         current' = current
  PROVE  /\ \A p \in Objects : /\ obj'[p].conv = obj[p].conv
                               /\ obj'[p].own = obj[p].own
                               /\ obj'[p].loaded = obj[p].loaded
                               /\ obj[p].cache \subseteq obj'[p].cache
         /\ dom \subseteq dom'
         /\ message \in View(o)'
<1>1. /\ obj \in [Objects -> Chat]
      /\ obj' = [obj EXCEPT ![o] = [obj[o] EXCEPT !.cache = @ \cup {message}]]
      /\ dom' = IF Id(o) = current THEN dom \cup {message} ELSE dom
  BY DEF LogToClean, Inv, TypeOK
<1>2. /\ \A p \in Objects : /\ obj'[p].conv = obj[p].conv
                             /\ obj'[p].own = obj[p].own
                             /\ obj'[p].loaded = obj[p].loaded
                             /\ obj[p].cache \subseteq obj'[p].cache
      /\ message \in obj'[o].cache
  BY <1>1 DEF Chat
<1>3. Id(o)' = Id(o)
  BY <1>2 DEF Id, IdOf
<1>. QED
  BY <1>1, <1>2, <1>3 DEF View

LEMMA RunArrivesFull ==
  ASSUME Inv, FullInv, NEW q \in Queries, RunArrives(q)
  PROVE  FullInv'
<1>1. UNCHANGED <<loggedIn, chats, current, load, home, due>> /\ chats \subseteq Objects
  BY DEF RunArrives, serverVars, Inv, TypeOK, Objects
<1>2. ASSUME NEW o \in Objects, NEW message \in Messages, LogToClean(o, message)
      PROVE  FullInv'
  BY <1>1, <1>2, LogShows, MoreShown
<1>3. CASE target[q] # 0
  <2>1. target[q] \in Objects /\ <<q, "accepted">> \in Messages
    BY <1>3 DEF RunArrives, Inv, TypeOK, Objects, Messages
  <2>. QED
    BY <1>2, <1>3, <2>1 DEF RunArrives
<1>4. ASSUME NEW o \in chats, LogToClean(o, <<q, "stray">>)
      PROVE  FullInv'
  <2>1. o \in Objects /\ <<q, "stray">> \in Messages
    BY <1>1 DEF Messages
  <2>. QED
    BY <1>2, <1>4, <2>1
<1>5. CASE UNCHANGED <<obj, dom>>
  BY <1>1, <1>5, MoreShown
<1>. QED
  BY <1>3, <1>4, <1>5 DEF RunArrives

LEMMA PushFull ==
  ASSUME Inv, FullInv, NEW q \in Queries, Push(q)
  PROVE  FullInv'
<1>1. loggedIn /\ UNCHANGED <<loggedIn, chats, current, load, home>> /\ chats \subseteq Objects
  BY DEF Push, Inv, TypeOK, Objects
<1>2. CASE ~ \E o \in chats : obj[o].conv = home[q]
  <2>1. UNCHANGED <<obj, dom, due>>
    BY <1>2 DEF Push
  <2>. QED
    BY <1>1, <2>1, MoreShown
<1>3. ASSUME NEW o \in chats, obj[o].conv = home[q], LogToClean(o, <<q, "result">>),
             due' = IF Overtaken(q) THEN due ELSE due \cup {q}
      PROVE  FullInv'
  <2>1. o \in Objects /\ <<q, "result">> \in Messages
    BY <1>1 DEF Messages
  <2>2. /\ \A p \in Objects : /\ obj'[p].conv = obj[p].conv
                              /\ obj'[p].own = obj[p].own
                              /\ obj'[p].loaded = obj[p].loaded
                              /\ obj[p].cache \subseteq obj'[p].cache
        /\ dom \subseteq dom'
        /\ <<q, "result">> \in View(o)'
    BY <1>1, <1>3, <2>1, LogShows
  <2>3. \A p \in chats : View(p) \subseteq View(p)'
    BY <1>1, <2>2 DEF View, Id, IdOf
  <2>4. \A p \in chats : obj[p].conv = home[q] => p = o
    BY <1>3 DEF FullInv, OneChatEach
  <2>5. LoadedIsComplete'
    <3>. SUFFICES ASSUME NEW p \in chats, obj[p].loaded, NEW x \in due \cup {q},
                         home[x] = obj[p].conv
                  PROVE  <<x, "result">> \in View(p)'
      BY <1>1, <1>3, <2>2 DEF LoadedIsComplete
    <3>. QED
      BY <2>2, <2>3, <2>4 DEF FullInv, LoadedIsComplete
  <2>6. OneChatEach' /\ DueWhileIn'
    BY <1>1, <2>2 DEF FullInv, OneChatEach, DueWhileIn
  <2>7. load # None => load.object \in Objects
    BY DEF Inv, TypeOK, Loads
  <2>8. AskedNotLoaded'
    BY <1>1, <2>2, <2>7 DEF FullInv, AskedNotLoaded
  <2>9. \A x \in due' : Overtaken(x) => load.token /\ BeyondPage(x)
    BY <1>3 DEF FullInv, DueNotOvertaken
  <2>10. \A x : /\ Overtaken(x)' <=> Overtaken(x)
                /\ BeyondPage(x)' <=> BeyondPage(x)
    BY <1>1, <2>2, <2>7 DEF Overtaken, BeyondPage
  <2>11. DueNotOvertaken'
    BY <1>1, <2>9, <2>10 DEF DueNotOvertaken
  <2>. QED
    BY <2>5, <2>6, <2>8, <2>11 DEF FullInv
<1>. QED
  BY <1>2, <1>3 DEF Push

(* What is cleared is not due any more.                                    *)
LEMMA ClearFull ==
  ASSUME Inv, FullInv, Clear
  PROVE  FullInv'
<1>1. /\ dom # {} /\ dom' = {}
      /\ due' = {q \in due : \A o \in chats : Id(o) = current => obj[o].conv # home[q]}
      /\ UNCHANGED <<loggedIn, chats, current, load, obj, home>>
  BY DEF Clear, serverVars
<1>2. LoadedIsComplete'
  <2>. SUFFICES ASSUME NEW o \in chats, obj[o].loaded, NEW q \in due,
                       home[q] = obj[o].conv, Id(o) # current
                PROVE  <<q, "result">> \in View(o)'
    BY <1>1 DEF LoadedIsComplete
  <2>1. View(o)' = View(o)
    BY <1>1 DEF View, Id, IdOf
  <2>. QED
    BY <2>1 DEF FullInv, LoadedIsComplete
<1>. QED
  BY <1>1, <1>2 DEF FullInv, OneChatEach, AskedNotLoaded, DueNotOvertaken, Overtaken,
                    BeyondPage, DueWhileIn

LEMMA LogoutFull == Logout => FullInv'
  BY DEF Logout, FullInv, LoadedIsComplete, OneChatEach, AskedNotLoaded, DueNotOvertaken,
         DueWhileIn

(* The steps that show nothing.                                            *)
LEMMA UnseenFull ==
  ASSUME Inv, FullInv, UNCHANGED <<chats, current, dom, load, obj>>, due' = due,
         loggedIn' = loggedIn \/ loggedIn' = TRUE, \A q \in due : home'[q] = home[q]
  PROVE  FullInv'
<1>1. chats \subseteq Objects
  BY DEF Inv, TypeOK, Objects
<1>. QED
  BY <1>1, MoreShown

LEMMA NextFullInv == Inv /\ FullInv /\ [Next]_vars => FullInv'
<1>. SUFFICES ASSUME Inv, FullInv, [Next]_vars
              PROVE  FullInv'
  OBVIOUS
<1>1. ASSUME NEW k \in Lists, LoadChats(k) \/ Login(k) \/ AnswerList(k)
      PROVE  FullInv'
  BY <1>1, UnseenFull DEF LoadChats, Login, AnswerList, pageVars, serverVars
<1>2. ASSUME NEW q \in Queries, Accept(q) \/ Settle(q)
      PROVE  FullInv'
  BY <1>2, UnseenFull DEF Accept, Settle, pageVars
<1>3. ASSUME NEW q \in Queries, Run(q)
      PROVE  FullInv'
  <2>1. q \notin due
    BY <1>3, DueIsOld DEF Run, Stored, Inv
  <2>2. \A x \in due : home'[x] = home[x]
    BY <1>3, <2>1, DueIsOld DEF Run, RunInChat, RunOutside, Inv, TypeOK
  <2>. QED
    BY <1>3, <2>2, UnseenFull DEF Run
<1>4. ASSUME CreateChat \/ \E k \in Lists : ListEmpty(k)
      PROVE  FullInv'
  BY <1>4, CreateFull DEF CreateChat, ListEmpty, serverVars
<1>5. CASE Click
  BY <1>1, <1>3, <1>4, <1>5, SwitchFull, SwitchToDroppedFull, ClearFull, LogoutFull DEF Click
<1>6. CASE Arrival
  BY <1>4, <1>6, HistoryFull, ListArrivesFull, RunArrivesFull, PushFull DEF Arrival
<1>7. CASE ServerStep
  BY <1>1, <1>2, <1>7, HistoryFull DEF ServerStep
<1>8. CASE UNCHANGED vars
  BY <1>8, UnseenFull DEF vars, pageVars, serverVars
<1>. QED
  BY <1>5, <1>6, <1>7, <1>8 DEF Next

-----------------------------------------------------------------------------
(* Every variable of the page has its type.                                *)
THEOREM ViewTypeCorrect == Spec => []TypeOK
<1>1. Inv => TypeOK
  BY DEF Inv
<1>. QED
  BY <1>1, AlwaysInv, PTL

(* Whatever answer comes when, the page shows only messages of the chat    *)
(* that is chosen, until a chat is chosen that was dropped; and a chat     *)
(* that counts as loaded keeps only messages of its own even then.  Only   *)
(* the answer to a request that was sent from no chat may be in any.       *)
THEOREM ChatsNeverMix == Spec => []ChatsDoNotMix
<1>1. Inv => ChatsDoNotMix
  BY DEF Inv, MixInv
<1>. QED
  BY <1>1, AlwaysInv, PTL

(* A chat counts as loading exactly while its history is on the way.       *)
THEOREM LoadingAlwaysEnds == Spec => []LoadingEnds
<1>1. Inv => LoadingEnds
  BY DEF Inv
<1>. QED
  BY <1>1, AlwaysInv, PTL

(* A chat that counts as loaded, and is not asked for again, shows every   *)
(* result with a text the page got for it, unless the user cleared it, it  *)
(* came while an older history was on its way, or the history that came    *)
(* after it was a full page of others.                                     *)
THEOREM LoadedAlwaysComplete == Spec => []LoadedIsComplete
<1>1. FullInv => LoadedIsComplete
  BY DEF FullInv
<1>. QED
  BY <1>1, InitFullInv, NextFullInv, AlwaysInv, PTL DEF Spec

=============================================================================
