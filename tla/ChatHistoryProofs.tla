-------------------------- MODULE ChatHistoryProofs --------------------------
(***************************************************************************)
(* Proofs about ChatHistory, for any numbers of queries, users and chats,  *)
(* any limits, and any number of lists read.                               *)
(***************************************************************************)
EXTENDS ChatHistory, TLAPS, FiniteSetTheorems, SequenceTheorems

-----------------------------------------------------------------------------
(* Sorting: SortedBy puts each element of a finite set where its rank is.  *)

Below(S, key, q) == {p \in S : key[p] < key[q]}
Rank(S, key, q) == Cardinality(Below(S, key, q))

(* A function that orders S: the keys are integers and no two are the same. *)
OrdersBy(S, key) ==
  /\ \A q \in S : key[q] \in Int
  /\ \A p, q \in S : key[p] = key[q] => p = q

LEMMA RankType ==
  ASSUME NEW S, IsFiniteSet(S), NEW key, NEW q \in S
  PROVE  /\ IsFiniteSet(Below(S, key, q))
         /\ Rank(S, key, q) \in Nat
  BY FS_Subset, FS_CardinalityType DEF Below, Rank

LEMMA RankBound ==
  ASSUME NEW S, IsFiniteSet(S), NEW key, OrdersBy(S, key), NEW q \in S
  PROVE  Rank(S, key, q) \in 0 .. Cardinality(S) - 1
<1>1. Below(S, key, q) \in SUBSET S /\ q \notin Below(S, key, q)
  BY DEF Below, OrdersBy
<1>2. Cardinality(S) \in Nat /\ Rank(S, key, q) \in Nat
  BY RankType, FS_CardinalityType
<1>3. Rank(S, key, q) <= Cardinality(S) /\ Rank(S, key, q) # Cardinality(S)
  BY <1>1, FS_Subset DEF Rank
<1>. QED
  BY <1>2, <1>3

LEMMA RankGrows ==
  ASSUME NEW S, IsFiniteSet(S), NEW key, OrdersBy(S, key),
         NEW p \in S, NEW q \in S, key[p] < key[q]
  PROVE  Rank(S, key, p) < Rank(S, key, q)
<1>1. Below(S, key, p) \in SUBSET Below(S, key, q)
  BY DEF Below, OrdersBy
<1>2. p \in Below(S, key, q) /\ p \notin Below(S, key, p)
  BY DEF Below, OrdersBy
<1>3. IsFiniteSet(Below(S, key, q)) /\ Rank(S, key, p) \in Nat /\ Rank(S, key, q) \in Nat
  BY RankType
<1>4. Rank(S, key, p) <= Rank(S, key, q) /\ Rank(S, key, p) # Rank(S, key, q)
  BY <1>1, <1>2, <1>3, FS_Subset DEF Rank
<1>. QED
  BY <1>3, <1>4

LEMMA RankIsInjective ==
  ASSUME NEW S, IsFiniteSet(S), NEW key, OrdersBy(S, key),
         NEW p \in S, NEW q \in S, Rank(S, key, p) = Rank(S, key, q)
  PROVE  p = q
<1>1. key[p] \in Int /\ key[q] \in Int
  BY DEF OrdersBy
<1>2. CASE key[p] < key[q]
  BY <1>2, RankGrows, RankType
<1>3. CASE key[q] < key[p]
  BY <1>3, RankGrows, RankType
<1>4. CASE key[p] = key[q]
  BY <1>4 DEF OrdersBy
<1>. QED
  BY <1>1, <1>2, <1>3, <1>4

(* There is an element of each rank: ranks are an injection of S into an   *)
(* interval of the same size.                                              *)
LEMMA RankIsTaken ==
  ASSUME NEW S, IsFiniteSet(S), NEW key, OrdersBy(S, key), NEW i \in 1 .. Cardinality(S)
  PROVE  \E q \in S : Rank(S, key, q) = i - 1
<1>. DEFINE f == [q \in S |-> Rank(S, key, q)]
<1>1. PICK n \in Nat : n = Cardinality(S)
  BY FS_CardinalityType
<1>2. IsFiniteSet(0 .. n - 1) /\ Cardinality(0 .. n - 1) = n
  <2>1. 0 \in Int /\ n - 1 \in Int
    OBVIOUS
  <2>2. /\ IsFiniteSet(0 .. n - 1)
        /\ Cardinality(0 .. n - 1) = IF 0 > n - 1 THEN 0 ELSE n - 1 - 0 + 1
    BY <2>1, FS_Interval
  <2>. QED
    BY <2>2
<1>3. f \in [S -> 0 .. n - 1]
  BY <1>1, RankBound
<1>4. f \in Injection(S, 0 .. n - 1)
  BY <1>3, RankIsInjective DEF Injection, IsInjective
<1>5. f \in Surjection(S, 0 .. n - 1)
  BY <1>1, <1>2, <1>4, FS_Injection
<1>6. i - 1 \in 0 .. n - 1
  BY <1>1
<1>7. \E q \in S : f[q] = i - 1
  BY <1>5, <1>6 DEF Surjection
<1>. QED
  BY <1>7

LEMMA SortedElements ==
  ASSUME NEW S, IsFiniteSet(S), NEW key, OrdersBy(S, key)
  PROVE  /\ SortedBy(S, key) \in Seq(S)
         /\ Len(SortedBy(S, key)) = Cardinality(S)
         /\ Cardinality(S) \in Nat
         /\ \A i \in 1 .. Cardinality(S) :
              SortedBy(S, key)[i] \in S /\ Rank(S, key, SortedBy(S, key)[i]) = i - 1
<1>1. Cardinality(S) \in Nat
  BY FS_CardinalityType
<1>2. ASSUME NEW i \in 1 .. Cardinality(S)
      PROVE  SortedBy(S, key)[i] \in S /\ Rank(S, key, SortedBy(S, key)[i]) = i - 1
  <2>1. SortedBy(S, key)[i] = CHOOSE q \in S : Rank(S, key, q) = i - 1
    BY DEF SortedBy, Rank, Below
  <2>. QED
    BY <2>1, RankIsTaken
<1>3. SortedBy(S, key) \in [1 .. Cardinality(S) -> S]
  BY <1>2 DEF SortedBy
<1>. QED
  BY <1>1, <1>2, <1>3
(* Each element has one place in the list, which is in the order of keys.  *)
LEMMA SortedOrder ==
  ASSUME NEW S, IsFiniteSet(S), NEW key, OrdersBy(S, key)
  PROVE  /\ \A q \in S : \E i \in 1 .. Cardinality(S) : SortedBy(S, key)[i] = q
         /\ \A i, j \in 1 .. Cardinality(S) :
              i < j => key[SortedBy(S, key)[i]] < key[SortedBy(S, key)[j]]
<1>. DEFINE s == SortedBy(S, key)
<1>1. /\ Cardinality(S) \in Nat
      /\ \A i \in 1 .. Cardinality(S) : s[i] \in S /\ Rank(S, key, s[i]) = i - 1
  BY SortedElements
<1>2. ASSUME NEW q \in S
      PROVE  \E i \in 1 .. Cardinality(S) : s[i] = q
  <2>1. Rank(S, key, q) + 1 \in 1 .. Cardinality(S)
    BY <1>1, RankBound
  <2>2. Rank(S, key, s[Rank(S, key, q) + 1]) = Rank(S, key, q)
    BY <1>1, <2>1, RankBound
  <2>3. s[Rank(S, key, q) + 1] = q
    BY <1>1, <2>1, <2>2, RankIsInjective
  <2>. QED
    BY <2>1, <2>3
<1>3. ASSUME NEW i \in 1 .. Cardinality(S), NEW j \in 1 .. Cardinality(S), i < j
      PROVE  key[s[i]] < key[s[j]]
  <2>1. key[s[i]] \in Int /\ key[s[j]] \in Int
    BY <1>1 DEF OrdersBy
  <2>2. Rank(S, key, s[i]) < Rank(S, key, s[j])
    BY <1>1, <1>3
  <2>3. CASE key[s[i]] = key[s[j]]
    BY <1>1, <2>2, <2>3 DEF OrdersBy
  <2>4. CASE key[s[j]] < key[s[i]]
    BY <1>1, <2>2, <2>4, RankGrows
  <2>. QED
    BY <2>1, <2>3, <2>4
<1>. QED
  BY <1>2, <1>3

(* Elements that are added push the others to the back, and never forward. *)
LEMMA SortedGrows ==
  ASSUME NEW T, IsFiniteSet(T), NEW S \in SUBSET T, NEW key, OrdersBy(T, key),
         NEW i \in 1 .. Cardinality(S), NEW j \in 1 .. Cardinality(T),
         SortedBy(S, key)[i] = SortedBy(T, key)[j]
  PROVE  i <= j
<1>1. IsFiniteSet(S) /\ OrdersBy(S, key)
  BY FS_Subset DEF OrdersBy
<1>2. PICK q \in S : q = SortedBy(S, key)[i] /\ Rank(S, key, q) = i - 1
  BY <1>1, SortedElements
<1>3. Rank(T, key, q) = j - 1
  BY <1>2, SortedElements
<1>4. Below(S, key, q) \in SUBSET Below(T, key, q)
  BY DEF Below
<1>5. IsFiniteSet(Below(T, key, q)) /\ Rank(T, key, q) \in Nat /\ Rank(S, key, q) \in Nat
  BY <1>1, RankType
<1>6. Rank(S, key, q) <= Rank(T, key, q)
  BY <1>4, <1>5, FS_Subset DEF Rank
<1>. QED
  BY <1>2, <1>3, <1>6

-----------------------------------------------------------------------------
(* The two lists.                                                          *)

Joined(R) == {q \in R : [chat |-> ChatOf[q], time |-> CreatedAt[q]] \in FirstTimes(R)}
InChat(R) == {q \in R : UserOf[q] = Reader /\ ChatOf[q] = OpenChat}

(* The queries that list l has when the rows are R, and what orders them.  *)
Members(l, R) == IF l = "chats" THEN Joined(R) ELSE InChat(R)
Key(l) == IF l = "chats" THEN [q \in Queries |-> -CreatedAt[q]] ELSE CreatedAt

LEMMA ListingIsSorted ==
  ASSUME NEW l, NEW R
  PROVE  /\ Listing(l, R) = SortedBy(Members(l, R), Key(l))
         /\ Members(l, R) \subseteq R
  BY DEF Listing, ChatRows, MessageRows, Newest, Oldest, Members, Key, Joined, InChat

LEMMA KeyOrders ==
  ASSUME NEW l, NEW S \in SUBSET Queries
  PROVE  OrdersBy(S, Key(l))
<1>. USE HistoryAssumption
<1>1. CASE l = "chats"
  <2>1. \A q \in S : Key(l)[q] = -CreatedAt[q] /\ CreatedAt[q] \in Nat
    BY <1>1 DEF Key
  <2>. QED
    BY <2>1 DEF OrdersBy
<1>2. CASE l # "chats"
  BY <1>2 DEF OrdersBy, Key
<1>. QED
  BY <1>1, <1>2

(* What the proofs below know of a list.                                   *)
LEMMA ListingFacts ==
  ASSUME NEW l, NEW R \in SUBSET Queries, IsFiniteSet(R)
  PROVE  /\ Listing(l, R) \in Seq(Queries)
         /\ Len(Listing(l, R)) \in Nat
         /\ DOMAIN Listing(l, R) = 1 .. Len(Listing(l, R))
         /\ ToSet(Listing(l, R)) = Members(l, R)
         /\ \A i, j \in 1 .. Len(Listing(l, R)) :
              i < j => Key(l)[Listing(l, R)[i]] < Key(l)[Listing(l, R)[j]]
<1>. DEFINE S == Members(l, R)
            s == Listing(l, R)
<1>1. s = SortedBy(S, Key(l)) /\ S \in SUBSET R /\ S \in SUBSET Queries
  BY ListingIsSorted
<1>2. IsFiniteSet(S) /\ OrdersBy(S, Key(l))
  BY <1>1, FS_Subset, KeyOrders
<1>. HIDE DEF S, s
<1>3. /\ s \in Seq(S) /\ Len(s) = Cardinality(S) /\ Cardinality(S) \in Nat
      /\ \A i \in 1 .. Cardinality(S) : s[i] \in S
  BY <1>1, <1>2, SortedElements
<1>4. DOMAIN s = 1 .. Len(s) /\ s \in Seq(Queries)
  BY <1>1, <1>3
<1>5. /\ \A q \in S : \E i \in 1 .. Len(s) : s[i] = q
      /\ \A i, j \in 1 .. Len(s) : i < j => Key(l)[s[i]] < Key(l)[s[j]]
  <2>1. /\ \A q \in S : \E i \in 1 .. Cardinality(S) : s[i] = q
        /\ \A i, j \in 1 .. Cardinality(S) : i < j => Key(l)[s[i]] < Key(l)[s[j]]
    BY <1>1, <1>2, SortedOrder
  <2>. QED
    BY <1>3, <2>1
<1>6. ToSet(s) = S
  BY <1>3, <1>4, <1>5 DEF ToSet
<1>. QED
  BY <1>3, <1>4, <1>5, <1>6 DEF s, S

LEMMA ListingGrows ==
  ASSUME NEW l, NEW T \in SUBSET Queries, IsFiniteSet(T), NEW R \in SUBSET T,
         Members(l, R) \subseteq Members(l, T),
         NEW i \in 1 .. Len(Listing(l, R)), NEW j \in 1 .. Len(Listing(l, T)),
         Listing(l, R)[i] = Listing(l, T)[j]
  PROVE  i <= j
<1>1. /\ Listing(l, R) = SortedBy(Members(l, R), Key(l))
      /\ Listing(l, T) = SortedBy(Members(l, T), Key(l))
      /\ Members(l, R) \in SUBSET R /\ Members(l, T) \in SUBSET T
  BY ListingIsSorted
<1>2. IsFiniteSet(Members(l, T)) /\ IsFiniteSet(Members(l, R)) /\ IsFiniteSet(R)
  BY <1>1, FS_Subset
<1>3. OrdersBy(Members(l, T), Key(l)) /\ OrdersBy(Members(l, R), Key(l))
  BY <1>1, KeyOrders
<1>4. /\ Len(Listing(l, R)) = Cardinality(Members(l, R))
      /\ Len(Listing(l, T)) = Cardinality(Members(l, T))
  BY <1>1, <1>2, <1>3, SortedElements
<1>. QED
  BY <1>1, <1>2, <1>3, <1>4, SortedGrows

-----------------------------------------------------------------------------
(* The types, and when there is a page.                                    *)

CurrentList == Listing(list, rows)

HasPage == phase \in {"paged", "answered"}

TypeInv ==
  /\ TypeOK
  /\ IsFiniteSet(rows)
  /\ ~HasPage => page = <<>>

-----------------------------------------------------------------------------
(* What a reading has shown.                                               *)

OnPage == {page[i].query : i \in DOMAIN page}

(* What has been shown reaches to the end of the page there is.            *)
Reach == IF HasPage THEN skip + EffectiveLimit ELSE skip

StaysListed == phase # "idle" /\ Trusted /\ (list = "messages" \/ "moved" \notin changed)

(* What was in the list and is yet to be shown is still ahead; if a page   *)
(* is empty there is nothing.                                              *)
AheadInv ==
  StaysListed =>
    /\ \A q \in atStart \ (ToSet(seen) \cup OnPage)  :
         \E i \in DOMAIN CurrentList : CurrentList[i] = q /\ i > Reach
    /\ HasPage /\ page = <<>> => atStart \subseteq ToSet(seen)
    /\ Len(page) <= EffectiveLimit

(* The size of the page after s of n rows, with limit e.                   *)
PageSize(s, e, n) == IF s >= n THEN 0 ELSE IF s + e < n THEN e ELSE n - s

Least(a, b) == IF a < b THEN a ELSE b

(* In a list that does not change: the pages are the list, up to here.     *)
ExactInv ==
  phase # "idle" /\ Trusted /\ changed = {} =>
    /\ Len(seen) = Least(skip, Len(CurrentList))
    /\ \A i \in 1 .. Len(seen) : seen[i] = CurrentList[i]
    /\ HasPage => /\ Len(page) = PageSize(skip, EffectiveLimit, Len(CurrentList))
                  /\ \A i \in 1 .. Len(page) : page[i].query = CurrentList[skip + i]
    /\ phase = "counted" \/ HasPage => total = Len(CurrentList)

(* A message is shown as completed only if it is, and then with what       *)
(* responses it has.                                                       *)
ResponseInv ==
  HasPage => \A i \in DOMAIN page :
    /\ page[i].completed => page[i].query \in completed
    /\ phase = "answered" /\ list = "messages" /\ page[i].completed /\ page[i].query \in responses
         => page[i].response

-----------------------------------------------------------------------------
LEMMA LimitFacts ==
  ASSUME TypeOK
  PROVE  /\ EffectiveLimit \in Nat \ {0}
         /\ limit \in Nat
         /\ limit # 0 /\ limit <= MaxLimit => EffectiveLimit = limit
  BY HistoryAssumption DEF TypeOK, EffectiveLimit

LEMMA SliceFacts ==
  ASSUME TypeOK, NEW S, NEW s \in Seq(S)
  PROVE  /\ Slice(s) \in Seq(S)
         /\ Len(Slice(s)) = (IF skip < Len(s) THEN Least(skip + EffectiveLimit, Len(s)) - skip
                             ELSE 0)
         /\ \A i \in 1 .. Len(Slice(s)) : Slice(s)[i] = s[skip + i] /\ skip + i \in 1 .. Len(s)
<1>1. EffectiveLimit \in Nat \ {0} /\ skip \in Nat /\ Len(s) \in Nat
  BY LimitFacts DEF TypeOK
<1>. DEFINE last == Least(skip + EffectiveLimit, Len(s))
<1>2. last \in Nat /\ last <= Len(s) /\ Slice(s) = SubSeq(s, skip + 1, last)
  BY <1>1 DEF Least, Slice
<1>3. \A i \in skip + 1 .. last : s[i] \in S
  BY <1>1, <1>2
<1>4. /\ Slice(s) \in Seq(S)
      /\ Len(Slice(s)) = IF skip + 1 <= last THEN last - (skip + 1) + 1 ELSE 0
      /\ \A i \in 1 .. last - (skip + 1) + 1 : Slice(s)[i] = s[(skip + 1) + i - 1]
  BY <1>1, <1>2, <1>3, SubSeqProperties
<1>5. skip + 1 <= last <=> skip < Len(s)
  BY <1>1 DEF Least
<1>. HIDE DEF last
<1>6. Len(Slice(s)) = (IF skip < Len(s) THEN last - skip ELSE 0)
  BY <1>1, <1>2, <1>4, <1>5
<1>7. ASSUME NEW i \in 1 .. Len(Slice(s))
      PROVE  Slice(s)[i] = s[skip + i] /\ skip + i \in 1 .. Len(s)
  BY <1>1, <1>2, <1>4, <1>6, <1>7
<1>. QED
  BY <1>4, <1>6, <1>7 DEF last

(* The list as it is now.                                                  *)
LEMMA CurrentFacts ==
  ASSUME TypeInv
  PROVE  /\ CurrentList \in Seq(Queries)
         /\ Len(CurrentList) \in Nat
         /\ DOMAIN CurrentList = 1 .. Len(CurrentList)
         /\ ToSet(CurrentList) \subseteq rows
         /\ \A i, j \in 1 .. Len(CurrentList) : CurrentList[i] = CurrentList[j] => i = j
<1>1. rows \in SUBSET Queries /\ IsFiniteSet(rows)
  BY DEF TypeInv, TypeOK
<1>2. /\ CurrentList \in Seq(Queries)
      /\ Len(CurrentList) \in Nat
      /\ DOMAIN CurrentList = 1 .. Len(CurrentList)
      /\ ToSet(CurrentList) = Members(list, rows)
      /\ \A i, j \in 1 .. Len(CurrentList) :
           i < j => Key(list)[CurrentList[i]] < Key(list)[CurrentList[j]]
  BY <1>1, ListingFacts DEF CurrentList
<1>3. OrdersBy(Queries, Key(list))
  BY KeyOrders
<1>4. ASSUME NEW i \in 1 .. Len(CurrentList), NEW j \in 1 .. Len(CurrentList),
             CurrentList[i] = CurrentList[j]
      PROVE  i = j
  <2>1. Key(list)[CurrentList[i]] \in Int
    BY <1>2, <1>3 DEF OrdersBy
  <2>. QED
    BY <1>2, <1>4, <2>1
<1>. QED
  BY <1>2, <1>4, ListingIsSorted

LEMMA PageFacts ==
  ASSUME TypeOK
  PROVE  /\ Len(page) \in Nat /\ DOMAIN page = 1 .. Len(page)
         /\ \A i \in 1 .. Len(page) : page[i] \in Items
         /\ page = <<>> <=> Len(page) = 0
         /\ Len(seen) \in Nat /\ DOMAIN seen = 1 .. Len(seen)
  BY EmptySeq DEF TypeOK

LEMMA ReadPageFacts ==
  ASSUME TypeInv, ReadPage
  PROVE  /\ page' \in Seq(Items)
         /\ Len(page') = Len(Slice(CurrentList))
         /\ \A i \in 1 .. Len(page') :
              /\ page'[i].query = Slice(CurrentList)[i]
              /\ page'[i].completed => Slice(CurrentList)[i] \in completed
<1>. DEFINE found == Slice(CurrentList)
<1>1. found \in Seq(Queries) /\ Len(found) \in Nat /\ DOMAIN found = 1 .. Len(found)
  BY CurrentFacts, SliceFacts DEF TypeInv
<1>2. page' = [i \in DOMAIN found |->
                 [query |-> found[i], completed |-> found[i] \in completed, response |-> FALSE]]
  BY DEF ReadPage, CurrentList
<1>. HIDE DEF found
<1>3. \A i \in 1 .. Len(found) : page'[i] \in Items
  BY <1>1, <1>2 DEF Items
<1>4. PICK no \in BOOLEAN : no = FALSE
  OBVIOUS
<1>5. ASSUME NEW i \in 1 .. Len(found)
      PROVE  /\ page'[i].query = found[i]
             /\ page'[i].completed => found[i] \in completed
  <2>1. page'[i] = [query |-> found[i], completed |-> found[i] \in completed, response |-> no]
    BY <1>1, <1>2, <1>4
  <2>2. CASE found[i] \in completed
    BY <2>1, <2>2
  <2>3. CASE found[i] \notin completed
    <3>1. page'[i] = [query |-> found[i], completed |-> no, response |-> no]
      BY <1>4, <2>1, <2>3
    <3>. QED
      BY <1>4, <3>1
  <2>. QED
    BY <2>2, <2>3
<1>6. page' \in Seq(Items) /\ Len(page') = Len(found)
  BY <1>1, <1>2, <1>3
<1>. QED
  BY <1>5, <1>6 DEF found

LEMMA PageSizeFacts ==
  ASSUME NEW s \in Nat, NEW e \in Nat \ {0}, NEW n \in Nat
  PROVE  /\ PageSize(s, e, n) \in Nat
         /\ PageSize(s, e, n) <= e
         /\ PageSize(s, e, n) = 0 => n <= s
         /\ \A i \in 1 .. n : s < i /\ i <= s + e =>
              i - s \in 1 .. PageSize(s, e, n) /\ s + (i - s) = i
  BY DEF PageSize

(* The queries of a page that is read.                                     *)
LEMMA ReadPageShows ==
  ASSUME TypeInv, ReadPage
  PROVE  /\ Len(page') = PageSize(skip, EffectiveLimit, Len(CurrentList))
         /\ \A i \in 1 .. Len(page') : page'[i].query = CurrentList[skip + i]
<1>1. Len(CurrentList) \in Nat /\ CurrentList \in Seq(Queries)
  BY CurrentFacts
<1>2. EffectiveLimit \in Nat \ {0} /\ skip \in Nat /\ TypeOK
  BY LimitFacts DEF TypeInv, TypeOK
<1>3. /\ Len(Slice(CurrentList)) = (IF skip < Len(CurrentList)
                       THEN Least(skip + EffectiveLimit, Len(CurrentList)) - skip ELSE 0)
      /\ \A i \in 1 .. Len(Slice(CurrentList)) : Slice(CurrentList)[i] = CurrentList[skip + i]
  BY <1>1, <1>2, SliceFacts
<1>4. Len(page') = Len(Slice(CurrentList))
  BY ReadPageFacts
<1>5. Len(page') = PageSize(skip, EffectiveLimit, Len(CurrentList))
  BY <1>1, <1>2, <1>3, <1>4 DEF Least, PageSize
<1>6. ASSUME NEW i \in 1 .. Len(page')
      PROVE  page'[i].query = CurrentList[skip + i]
  <2>1. page'[i].query = Slice(CurrentList)[i]
    BY ReadPageFacts
  <2>. QED
    BY <1>3, <1>4, <2>1
<1>. QED
  BY <1>5, <1>6

LEMMA LoadResponsesFacts ==
  ASSUME TypeInv, LoadResponses
  PROVE  /\ page' \in Seq(Items)
         /\ Len(page') = Len(page)
         /\ \A i \in 1 .. Len(page') :
              /\ page'[i].query = page[i].query
              /\ page'[i].completed = page[i].completed
              /\ page'[i].response <=> page[i].query \in responses
<1>1. Len(page) \in Nat /\ DOMAIN page = 1 .. Len(page) /\ \A i \in 1 .. Len(page) : page[i] \in Items
  BY PageFacts DEF TypeInv
<1>2. page' = [i \in 1 .. Len(page) |-> [page[i] EXCEPT !.response = page[i].query \in responses]]
  BY <1>1 DEF LoadResponses
<1>3. ASSUME NEW i \in 1 .. Len(page)
      PROVE  /\ page'[i] \in Items
             /\ page'[i].query = page[i].query
             /\ page'[i].completed = page[i].completed
             /\ page'[i].response = (page[i].query \in responses)
  <2>1. page'[i] = [page[i] EXCEPT !.response = page[i].query \in responses]
    BY <1>2
  <2>2. page[i] \in Items
    BY <1>1
  <2>3. CASE page[i].query \in responses
    <3>1. page'[i] = [page[i] EXCEPT !.response = TRUE]
      BY <2>1, <2>3
    <3>. QED
      BY <2>2, <2>3, <3>1 DEF Items
  <2>4. CASE page[i].query \notin responses
    <3>1. PICK b \in BOOLEAN : b = FALSE
      OBVIOUS
    <3>2. page'[i] = [page[i] EXCEPT !.response = b]
      BY <2>1, <2>4, <3>1
    <3>. QED
      BY <2>2, <2>4, <3>1, <3>2 DEF Items
  <2>. QED
    BY <2>3, <2>4
<1>4. page' \in [1 .. Len(page) -> Items]
  BY <1>2, <1>3
<1>5. page' \in Seq(Items) /\ Len(page') = Len(page)
  BY <1>1, <1>4
<1>. QED
  BY <1>3, <1>5

LEMMA NextPageFacts ==
  ASSUME TypeOK, NextPage
  PROVE  /\ seen' \in Seq(Queries)
         /\ Len(seen') = Len(seen) + Len(page)
         /\ \A i \in 1 .. Len(seen) : seen'[i] = seen[i]
         /\ \A i \in 1 .. Len(page) : seen'[Len(seen) + i] = page[i].query
         /\ skip' \in Nat
         /\ skip' = skip + (IF advance = "items" \/ limit = 0 THEN Len(page) ELSE limit)
<1>. DEFINE more == [i \in DOMAIN page |-> page[i].query]
<1>1. seen' = seen \o more
  BY DEF NextPage
<1>2. /\ Len(page) \in Nat /\ DOMAIN page = 1 .. Len(page)
      /\ \A i \in 1 .. Len(page) : page[i].query \in Queries
  BY PageFacts DEF Items
<1>3. more \in Seq(Queries) /\ Len(more) = Len(page) /\ \A i \in 1 .. Len(page) : more[i] = page[i].query
  BY <1>2
<1>4. seen \in Seq(Queries) /\ Len(seen) \in Nat /\ skip \in Nat /\ limit \in Nat
  BY LimitFacts DEF TypeOK
<1>. HIDE DEF more
<1>5. /\ seen \o more \in Seq(Queries)
      /\ Len(seen \o more) = Len(seen) + Len(more)
      /\ \A i \in 1 .. Len(seen) + Len(more) :
           (seen \o more)[i] = IF i <= Len(seen) THEN seen[i] ELSE more[i - Len(seen)]
  BY <1>3, <1>4, ConcatProperties
<1>6. skip' = skip + (IF advance = "items" \/ limit = 0 THEN Len(page) ELSE limit)
  BY DEF NextPage, ReportedLimit
<1>7. \A i \in 1 .. Len(page) : Len(seen) + i \in 1 .. Len(seen) + Len(more) /\ (Len(seen) + i) - Len(seen) = i
  BY <1>2, <1>3, <1>4
<1>. QED
  BY <1>1, <1>2, <1>3, <1>4, <1>5, <1>6, <1>7

-----------------------------------------------------------------------------
LEMMA InitType == Init => TypeInv
<1>1. <<>> \in Seq(Items) /\ <<>> \in Seq(Queries) /\ IsFiniteSet({})
  BY EmptySeq, FS_EmptySet
<1>. QED
  BY <1>1, HistoryAssumption DEF Init, TypeInv, TypeOK, HasPage

LEMMA WriterType ==
  ASSUME TypeInv, NEW q \in Queries, CommitQuery(q) \/ Settle(q)
  PROVE  TypeInv'
<1>1. CASE CommitQuery(q)
  <2>1. IsFiniteSet(rows')
    BY <1>1, FS_AddElement DEF CommitQuery, TypeInv
  <2>2. changed' \subseteq {"added", "moved"}
    BY <1>1 DEF CommitQuery, TypeInv, TypeOK
  <2>3. rows' \subseteq Queries /\ completed' \subseteq rows'
    BY <1>1 DEF CommitQuery, TypeInv, TypeOK
  <2>. QED
    BY <1>1, <2>1, <2>2, <2>3 DEF CommitQuery, TypeInv, TypeOK, HasPage
<1>2. CASE Settle(q)
  BY <1>2 DEF Settle, TypeInv, TypeOK, HasPage
<1>. QED
  BY <1>1, <1>2

LEMMA StartType ==
  ASSUME TypeInv, NEW l \in {"chats", "messages"}, NEW lim \in Limits, NEW by \in {"items", "limit"},
         StartReading(l, lim, by)
  PROVE  TypeInv'
<1>1. atStart' \subseteq Queries
  <2>1. rows \in SUBSET Queries /\ IsFiniteSet(rows)
    BY DEF TypeInv, TypeOK
  <2>2. ToSet(Listing(l, rows)) \subseteq rows
    BY <2>1, ListingFacts, ListingIsSorted
  <2>. QED
    BY <2>1, <2>2 DEF StartReading
<1>2. reads' \in 0 .. MaxReads /\ seen' \in Seq(Queries)
  BY HistoryAssumption, EmptySeq DEF StartReading, TypeInv, TypeOK
<1>. QED
  BY <1>1, <1>2 DEF StartReading, TypeInv, TypeOK, HasPage, rowVars

LEMMA ReadingType ==
  ASSUME TypeInv, Reading
  PROVE  TypeInv'
<1>. USE DEF TypeInv, TypeOK, HasPage, rowVars
<1>1. CASE CountRows
  BY <1>1, CurrentFacts DEF CountRows, CurrentList
<1>2. CASE ReadPage
  BY <1>2, ReadPageFacts DEF ReadPage
<1>3. CASE LoadResponses
  BY <1>3, LoadResponsesFacts DEF LoadResponses
<1>4. CASE NextPage
  <2>1. seen' \in Seq(Queries) /\ skip' \in Nat /\ page' \in Seq(Items)
    BY <1>4, NextPageFacts, EmptySeq DEF NextPage
  <2>. QED
    BY <1>4, <2>1 DEF NextPage
<1>5. CASE StopReading
  BY <1>5 DEF StopReading
<1>. QED
  BY <1>1, <1>2, <1>3, <1>4, <1>5 DEF Reading

LEMMA NextType ==
  ASSUME TypeInv, [Next]_vars
  PROVE  TypeInv'
<1>1. CASE UNCHANGED vars
  BY <1>1 DEF vars, rowVars, TypeInv, TypeOK, HasPage
<1>. QED
  BY <1>1, WriterType, StartType, ReadingType DEF Next

LEMMA AlwaysTypeInv == Spec => []TypeInv
  BY InitType, NextType, PTL DEF Spec

(* Every variable keeps its type; there are never infinitely many rows.    *)
THEOREM ChatHistoryTypeCorrect == Spec => []TypeOK
<1>1. TypeInv => TypeOK
  BY DEF TypeInv
<1>. QED
  BY <1>1, AlwaysTypeInv, PTL

-----------------------------------------------------------------------------
(* Responses.                                                              *)

LEMMA NextResponse ==
  ASSUME TypeInv, ResponseInv, [Next]_vars
  PROVE  ResponseInv'
<1>0. DOMAIN page = 1 .. Len(page) /\ responses \subseteq completed
  BY PageFacts DEF TypeInv, TypeOK
<1>1. CASE UNCHANGED vars
  BY <1>1 DEF vars, rowVars, ResponseInv, HasPage
<1>2. ASSUME NEW q \in Queries, CommitQuery(q)
      PROVE  ResponseInv'
  BY <1>2 DEF CommitQuery, ResponseInv, HasPage
<1>3. ASSUME NEW q \in Queries, Settle(q)
      PROVE  ResponseInv'
  BY <1>3 DEF Settle, ResponseInv, HasPage
<1>4. ASSUME NEW l, NEW lim, NEW by, StartReading(l, lim, by)
      PROVE  ResponseInv'
  BY <1>4 DEF StartReading, ResponseInv, HasPage
<1>5. CASE CountRows \/ NextPage \/ StopReading
  BY <1>5 DEF CountRows, NextPage, StopReading, ResponseInv, HasPage
<1>6. CASE ReadPage
  <2>1. TypeInv'
    BY <1>6, ReadingType DEF Reading
  <2>2. DOMAIN page' = 1 .. Len(page')
    BY <2>1 DEF TypeInv, TypeOK
  <2>3. \A i \in 1 .. Len(page') : page'[i].completed => page'[i].query \in completed
    BY <1>6, ReadPageFacts
  <2>4. UNCHANGED rowVars /\ UNCHANGED list /\ (phase' = "answered" => list # "messages")
    BY <1>6 DEF ReadPage
  <2>. QED
    BY <2>2, <2>3, <2>4 DEF ResponseInv, rowVars
<1>7. CASE LoadResponses
  <2>1. TypeInv'
    BY <1>7, ReadingType DEF Reading
  <2>2. DOMAIN page' = 1 .. Len(page')
    BY <2>1 DEF TypeInv, TypeOK
  <2>3. HasPage /\ UNCHANGED rowVars
    BY <1>7 DEF LoadResponses, HasPage
  <2>4. /\ Len(page') = Len(page)
        /\ \A i \in 1 .. Len(page') : /\ page'[i].query = page[i].query
                                      /\ page'[i].completed = page[i].completed
                                      /\ page'[i].response <=> page[i].query \in responses
    BY <1>7, LoadResponsesFacts
  <2>. QED
    BY <1>0, <2>2, <2>3, <2>4 DEF ResponseInv, rowVars
<1>. QED
  BY <1>1, <1>2, <1>3, <1>4, <1>5, <1>6, <1>7 DEF Next, Reading

(* A message is never shown as completed without the response it has,      *)
(* though its state and its responses are read by two statements and the   *)
(* result consumer may commit between them.                                *)
THEOREM CompletedComesWithResponse == Spec => []CompletedHasResponse
<1>1. Init => ResponseInv
  BY DEF Init, ResponseInv, HasPage
<1>2. ResponseInv => CompletedHasResponse
  BY DEF ResponseInv, CompletedHasResponse, HasPage
<1>. QED
  BY <1>1, <1>2, NextResponse, AlwaysTypeInv, PTL DEF Spec

-----------------------------------------------------------------------------
(* Nothing is skipped.                                                     *)

LEMMA InChatGrows ==
  ASSUME NEW R, NEW T, R \subseteq T
  PROVE  InChat(R) \subseteq InChat(T)
  BY DEF InChat

LEMMA CommitAhead ==
  ASSUME TypeInv, AheadInv, NEW x \in Queries, CommitQuery(x)
  PROVE  AheadInv'
<1>. SUFFICES ASSUME StaysListed'
              PROVE  AheadInv'
  BY DEF AheadInv
<1>1. TypeInv'
  BY WriterType
<1>2. /\ UNCHANGED <<phase, list, limit, advance, skip, page, seen, atStart>>
      /\ rows \subseteq rows' /\ changed \subseteq changed'
  BY DEF CommitQuery
<1>3. StaysListed /\ Reach' = Reach /\ OnPage' = OnPage /\ HasPage' = HasPage
      /\ EffectiveLimit' = EffectiveLimit
  BY <1>2 DEF StaysListed, Trusted, Reach, OnPage, HasPage, EffectiveLimit
<1>4. rows' \in SUBSET Queries /\ IsFiniteSet(rows') /\ rows \in SUBSET Queries /\ IsFiniteSet(rows)
  BY <1>1 DEF TypeInv, TypeOK
<1>5. CurrentList' = Listing(list, rows')
  BY <1>2 DEF CurrentList
<1>6. ToSet(CurrentList) = Members(list, rows) /\ ToSet(CurrentList') = Members(list, rows')
  BY <1>4, <1>5, ListingFacts DEF CurrentList
<1>7. Members(list, rows) \subseteq Members(list, rows')
  <2>1. CASE list = "messages"
    BY <1>2, <2>1, InChatGrows DEF Members
  <2>2. CASE "moved" \notin changed'
    <3>1. phase # "idle"
      BY <1>3 DEF StaysListed
    <3>2. ToSet(Listing(list, rows)) \subseteq ToSet(Listing(list, rows'))
      BY <2>2, <3>1 DEF CommitQuery
    <3>. QED
      BY <1>5, <1>6, <3>2 DEF CurrentList
  <2>. QED
    BY <1>2, <2>1, <2>2 DEF StaysListed
<1>8. DOMAIN CurrentList = 1 .. Len(CurrentList) /\ Len(CurrentList) \in Nat
      /\ DOMAIN CurrentList' = 1 .. Len(CurrentList') /\ Len(CurrentList') \in Nat
  BY <1>1, CurrentFacts
<1>9. ASSUME NEW q \in atStart \ (ToSet(seen) \cup OnPage)
      PROVE  \E j \in DOMAIN CurrentList' : CurrentList'[j] = q /\ j > Reach
  <2>1. PICK i \in DOMAIN CurrentList : CurrentList[i] = q /\ i > Reach
    BY <1>3 DEF AheadInv
  <2>2. q \in ToSet(CurrentList')
    BY <1>6, <1>7, <2>1 DEF ToSet
  <2>3. PICK j \in DOMAIN CurrentList' : CurrentList'[j] = q
    BY <2>2 DEF ToSet
  <2>4. i <= j
    BY <1>2, <1>4, <1>5, <1>7, <1>8, <2>1, <2>3, ListingGrows DEF CurrentList
  <2>5. Reach \in Nat
    BY LimitFacts DEF TypeInv, TypeOK, Reach
  <2>. QED
    BY <1>8, <2>1, <2>3, <2>4, <2>5
<1>. QED
  BY <1>2, <1>3, <1>9 DEF AheadInv

LEMMA StartAhead ==
  ASSUME TypeInv, NEW l, NEW lim \in Limits, NEW by, StartReading(l, lim, by)
  PROVE  AheadInv'
<1>1. /\ rows' = rows /\ list' = l /\ skip' = 0 /\ seen' = <<>> /\ page' = page
      /\ phase' = "requested" /\ atStart' = ToSet(Listing(l, rows))
  BY DEF StartReading, rowVars
<1>2. page = <<>> /\ ~HasPage'
  BY <1>1 DEF StartReading, TypeInv, HasPage
<1>3. CurrentList' = Listing(l, rows) /\ Reach' = 0
  BY <1>1, <1>2 DEF CurrentList, Reach
<1>4. rows \in SUBSET Queries /\ IsFiniteSet(rows)
  BY DEF TypeInv, TypeOK
<1>5. DOMAIN CurrentList' = 1 .. Len(CurrentList') /\ Len(CurrentList') \in Nat
  BY <1>3, <1>4, ListingFacts
<1>6. \A q \in atStart' : \E i \in DOMAIN CurrentList' : CurrentList'[i] = q /\ i > Reach'
  BY <1>1, <1>3, <1>5 DEF ToSet
<1>7. Len(page') <= EffectiveLimit'
  <2>1. EffectiveLimit' = LET wanted == IF lim = 0 THEN DefaultLimit ELSE lim
                          IN  IF wanted < MaxLimit THEN wanted ELSE MaxLimit
    BY DEF StartReading, EffectiveLimit
  <2>2. page' = <<>> /\ Len(<<>>) = 0
    BY <1>1, <1>2
  <2>. QED
    BY <2>1, <2>2, HistoryAssumption DEF StartReading
<1>. QED
  BY <1>2, <1>6, <1>7 DEF AheadInv

LEMMA ReadPageAhead ==
  ASSUME TypeInv, AheadInv, ReadPage
  PROVE  AheadInv'
<1>. SUFFICES ASSUME StaysListed'
              PROVE  AheadInv'
  BY DEF AheadInv
<1>1. /\ UNCHANGED <<rows, list, limit, advance, skip, seen, atStart, changed>>
      /\ phase = "counted" /\ phase' \in {"paged", "answered"}
  BY DEF ReadPage, rowVars
<1>2. /\ StaysListed /\ Reach = skip /\ ~HasPage /\ HasPage' /\ page = <<>>
      /\ EffectiveLimit' = EffectiveLimit /\ CurrentList' = CurrentList
  BY <1>1 DEF StaysListed, Trusted, Reach, HasPage, TypeInv, EffectiveLimit, CurrentList
<1>3. Reach' = skip + EffectiveLimit /\ EffectiveLimit \in Nat \ {0} /\ skip \in Nat
  BY <1>1, <1>2, LimitFacts DEF Reach, TypeInv, TypeOK
<1>4. Len(CurrentList) \in Nat /\ DOMAIN CurrentList = 1 .. Len(CurrentList)
      /\ CurrentList \in Seq(Queries)
  BY CurrentFacts
<1>5. TypeInv'
  BY ReadingType DEF Reading
<1>6. /\ Len(page') = PageSize(skip, EffectiveLimit, Len(CurrentList))
      /\ \A i \in 1 .. Len(page') : page'[i].query = CurrentList[skip + i]
      /\ Len(page') \in Nat /\ Len(page') <= EffectiveLimit
      /\ Len(page') = 0 => Len(CurrentList) <= skip
  <2>1. /\ Len(page') = PageSize(skip, EffectiveLimit, Len(CurrentList))
        /\ \A i \in 1 .. Len(page') : page'[i].query = CurrentList[skip + i]
    BY ReadPageShows
  <2>2. skip \in Nat /\ EffectiveLimit \in Nat \ {0} /\ Len(CurrentList) \in Nat
    BY <1>3, <1>4
  <2>3. /\ PageSize(skip, EffectiveLimit, Len(CurrentList)) \in Nat
        /\ PageSize(skip, EffectiveLimit, Len(CurrentList)) <= EffectiveLimit
        /\ PageSize(skip, EffectiveLimit, Len(CurrentList)) = 0 => Len(CurrentList) <= skip
    BY <2>2, PageSizeFacts
  <2>. QED
    BY <2>1, <2>3
<1>7. /\ DOMAIN page' = 1 .. Len(page') /\ (page' = <<>> <=> Len(page') = 0)
  BY <1>5, EmptySeq DEF TypeInv, TypeOK
<1>8. OnPage = {}
  BY <1>2 DEF OnPage
<1>9. ASSUME NEW q \in atStart \ ToSet(seen)
      PROVE  \E i \in 1 .. Len(CurrentList) : CurrentList[i] = q /\ i > skip
  BY <1>2, <1>4, <1>8 DEF AheadInv
<1>10. ASSUME NEW q \in atStart \ ToSet(seen), q \notin OnPage'
       PROVE  \E i \in 1 .. Len(CurrentList) : CurrentList[i] = q /\ i > skip + EffectiveLimit
  <2>1. PICK i \in 1 .. Len(CurrentList) : CurrentList[i] = q /\ i > skip
    BY <1>9
  <2>2. ASSUME i <= skip + EffectiveLimit
        PROVE  FALSE
    <3>1. i - skip \in 1 .. Len(page') /\ skip + (i - skip) = i
      BY <1>3, <1>4, <1>6, <2>1, <2>2, PageSizeFacts
    <3>2. page'[i - skip].query = q
      BY <1>6, <2>1, <3>1
    <3>. QED
      BY <1>7, <1>10, <3>1, <3>2 DEF OnPage
  <2>. QED
    BY <1>3, <2>1, <2>2
<1>11. page' = <<>> => atStart \subseteq ToSet(seen)
  BY <1>3, <1>4, <1>6, <1>7, <1>9
<1>. QED
  BY <1>1, <1>2, <1>3, <1>4, <1>6, <1>10, <1>11 DEF AheadInv

LEMMA LoadResponsesAhead ==
  ASSUME TypeInv, AheadInv, LoadResponses
  PROVE  AheadInv'
<1>1. /\ UNCHANGED <<rows, list, limit, advance, skip, seen, atStart, changed>>
      /\ phase = "paged" /\ phase' = "answered"
  BY DEF LoadResponses, rowVars
<1>2. /\ StaysListed' = StaysListed /\ Reach' = Reach /\ HasPage' /\ HasPage
      /\ EffectiveLimit' = EffectiveLimit /\ CurrentList' = CurrentList
  BY <1>1 DEF StaysListed, Trusted, Reach, HasPage, EffectiveLimit, CurrentList
<1>3. TypeInv'
  BY ReadingType DEF Reading
<1>4. /\ Len(page') = Len(page) /\ DOMAIN page = 1 .. Len(page) /\ DOMAIN page' = 1 .. Len(page)
      /\ (page' = <<>> <=> page = <<>>)
  BY <1>3, LoadResponsesFacts, PageFacts, EmptySeq DEF TypeInv, TypeOK
<1>5. OnPage' = OnPage
  BY <1>4, LoadResponsesFacts DEF OnPage
<1>. QED
  BY <1>1, <1>2, <1>4, <1>5 DEF AheadInv

LEMMA NextPageAhead ==
  ASSUME TypeInv, AheadInv, NextPage
  PROVE  AheadInv'
<1>. SUFFICES ASSUME StaysListed'
              PROVE  AheadInv'
  BY DEF AheadInv
<1>1. /\ UNCHANGED <<rows, list, limit, advance, atStart, changed>>
      /\ phase = "answered" /\ phase' = "requested" /\ page' = <<>>
  BY DEF NextPage, rowVars
<1>2. /\ StaysListed /\ Reach = skip + EffectiveLimit /\ HasPage /\ ~HasPage' /\ Reach' = skip'
      /\ EffectiveLimit' = EffectiveLimit /\ CurrentList' = CurrentList
  BY <1>1 DEF StaysListed, Trusted, Reach, HasPage, EffectiveLimit, CurrentList
<1>3. /\ EffectiveLimit \in Nat \ {0} /\ limit \in Nat /\ skip \in Nat
      /\ limit # 0 /\ limit <= MaxLimit => EffectiveLimit = limit
  BY LimitFacts DEF TypeInv, TypeOK
<1>4. Len(page) \in Nat /\ DOMAIN page = 1 .. Len(page)
      /\ Len(seen) \in Nat /\ DOMAIN seen = 1 .. Len(seen)
  BY PageFacts DEF TypeInv
<1>5. /\ seen' \in Seq(Queries)
      /\ Len(seen') = Len(seen) + Len(page)
      /\ \A i \in 1 .. Len(seen) : seen'[i] = seen[i]
      /\ \A i \in 1 .. Len(page) : seen'[Len(seen) + i] = page[i].query
      /\ skip' = skip + (IF advance = "items" \/ limit = 0 THEN Len(page) ELSE limit)
  BY NextPageFacts DEF TypeInv
<1>6. skip' \in Nat /\ skip' <= skip + EffectiveLimit
  <2>1. Len(page) <= EffectiveLimit /\ Trusted
    BY <1>2 DEF AheadInv, StaysListed
  <2>. QED
    BY <1>3, <1>4, <1>5, <2>1 DEF Trusted
<1>7. ToSet(seen) \cup OnPage \subseteq ToSet(seen')
  <2>1. DOMAIN seen' = 1 .. Len(seen) + Len(page)
    BY <1>5
  <2>2. \A i \in 1 .. Len(seen) : i \in DOMAIN seen'
    BY <1>4, <2>1
  <2>3. \A i \in 1 .. Len(page) : Len(seen) + i \in DOMAIN seen'
    BY <1>4, <2>1
  <2>. QED
    BY <1>4, <1>5, <2>2, <2>3 DEF ToSet, OnPage
<1>8. DOMAIN CurrentList \subseteq Nat
  BY CurrentFacts
<1>9. Len(page') <= EffectiveLimit
  BY <1>1, <1>3
<1>. QED
  BY <1>1, <1>2, <1>3, <1>6, <1>7, <1>8, <1>9 DEF AheadInv

LEMMA NextAhead ==
  ASSUME TypeInv, AheadInv, [Next]_vars
  PROVE  AheadInv'
<1>. DEFINE same == <<rows, list, limit, advance, skip, seen, page, atStart, changed>>
<1>1. ASSUME UNCHANGED same, phase' = "idle" \/ (phase # "idle" /\ HasPage' = HasPage)
             \/ phase' = phase
      PROVE  AheadInv'
  BY <1>1 DEF AheadInv, StaysListed, Trusted, Reach, HasPage, EffectiveLimit, CurrentList, OnPage
<1>2. CASE UNCHANGED vars \/ CountRows \/ StopReading \/ \E q \in Queries : Settle(q)
  BY <1>1, <1>2 DEF vars, rowVars, CountRows, StopReading, Settle, HasPage
<1>. QED
  BY <1>2, CommitAhead, StartAhead, ReadPageAhead, LoadResponsesAhead, NextPageAhead
  DEF Next, Reading

(* What was in the list when a reading began has been seen when it ends,   *)
(* although OFFSET counts rows of a list that grows meanwhile: an added    *)
(* row only pushes the others back.                                        *)
THEOREM NothingIsSkipped == Spec => []NothingSkipped
<1>1. Init => AheadInv
  BY DEF Init, AheadInv, StaysListed
<1>2. AheadInv => NothingSkipped
  BY DEF AheadInv, NothingSkipped, StaysListed, AtEnd, HasPage
<1>. QED
  BY <1>1, <1>2, NextAhead, AlwaysTypeInv, PTL DEF Spec

-----------------------------------------------------------------------------
(* A list that does not change.                                            *)

LEMMA PageSizeSum ==
  ASSUME NEW s \in Nat, NEW e \in Nat \ {0}, NEW n \in Nat, s < n,
         NEW t, t = s + PageSize(s, e, n) \/ t = s + e
  PROVE  /\ Least(s, n) = s
         /\ s + PageSize(s, e, n) = Least(t, n)
  BY DEF PageSize, Least

(* The commit of a row that leaves the list as it is.                      *)
LEMMA CommitExact ==
  ASSUME TypeInv, ExactInv, NEW x \in Queries, CommitQuery(x)
  PROVE  ExactInv'
<1>. SUFFICES ASSUME phase' # "idle", changed' = {}
              PROVE  ExactInv'
  BY DEF ExactInv
<1>1. UNCHANGED <<phase, list, limit, advance, skip, total, page, seen>>
  BY DEF CommitQuery
<1>2. changed = {} /\ Listing(list, rows') = Listing(list, rows)
  BY <1>1 DEF CommitQuery
<1>3. CurrentList' = CurrentList /\ HasPage' = HasPage /\ Trusted' = Trusted
      /\ EffectiveLimit' = EffectiveLimit
  BY <1>1, <1>2 DEF CurrentList, HasPage, Trusted, EffectiveLimit
<1>. QED
  BY <1>1, <1>2, <1>3 DEF ExactInv

LEMMA StartExact ==
  ASSUME TypeInv, NEW l, NEW lim, NEW by, StartReading(l, lim, by)
  PROVE  ExactInv'
<1>1. /\ rows' = rows /\ list' = l /\ skip' = 0 /\ seen' = <<>> /\ phase' = "requested"
  BY DEF StartReading, rowVars
<1>2. rows \in SUBSET Queries /\ IsFiniteSet(rows)
  BY DEF TypeInv, TypeOK
<1>3. Len(CurrentList') \in Nat
  BY <1>1, <1>2, ListingFacts DEF CurrentList
<1>4. Len(seen') = 0 /\ Least(skip', Len(CurrentList')) = 0
  BY <1>1, <1>3 DEF Least
<1>. QED
  BY <1>1, <1>4 DEF ExactInv, HasPage

LEMMA ReadPageExact ==
  ASSUME TypeInv, ExactInv, ReadPage
  PROVE  ExactInv'
<1>1. /\ UNCHANGED <<rows, list, limit, advance, skip, total, seen, changed>>
      /\ phase = "counted" /\ phase' \in {"paged", "answered"}
  BY DEF ReadPage, rowVars
<1>2. CurrentList' = CurrentList /\ HasPage' /\ Trusted' = Trusted
      /\ EffectiveLimit' = EffectiveLimit
  BY <1>1 DEF CurrentList, HasPage, Trusted, EffectiveLimit
<1>3. /\ Len(page') = PageSize(skip, EffectiveLimit, Len(CurrentList))
      /\ \A i \in 1 .. Len(page') : page'[i].query = CurrentList[skip + i]
  BY ReadPageShows
<1>. QED
  BY <1>1, <1>2, <1>3 DEF ExactInv

LEMMA LoadResponsesExact ==
  ASSUME TypeInv, ExactInv, LoadResponses
  PROVE  ExactInv'
<1>1. /\ UNCHANGED <<rows, list, limit, advance, skip, total, seen, changed>>
      /\ phase = "paged" /\ phase' = "answered"
  BY DEF LoadResponses, rowVars
<1>2. CurrentList' = CurrentList /\ HasPage /\ HasPage' /\ Trusted' = Trusted
      /\ EffectiveLimit' = EffectiveLimit
  BY <1>1 DEF CurrentList, HasPage, Trusted, EffectiveLimit
<1>3. Len(page') = Len(page) /\ \A i \in 1 .. Len(page') : page'[i].query = page[i].query
  BY LoadResponsesFacts
<1>. QED
  BY <1>1, <1>2, <1>3 DEF ExactInv

LEMMA NextPageExact ==
  ASSUME TypeInv, ExactInv, NextPage
  PROVE  ExactInv'
<1>. SUFFICES ASSUME Trusted', changed' = {}
              PROVE  ExactInv'
  BY DEF ExactInv
<1>1. /\ UNCHANGED <<rows, list, limit, advance, changed, total>>
      /\ phase = "answered" /\ phase' = "requested" /\ page # <<>>
  BY DEF NextPage, rowVars
<1>2. CurrentList' = CurrentList /\ HasPage /\ ~HasPage' /\ Trusted /\ changed = {}
  BY <1>1 DEF CurrentList, HasPage, Trusted
<1>3. /\ EffectiveLimit \in Nat \ {0} /\ limit \in Nat /\ skip \in Nat
      /\ limit # 0 /\ limit <= MaxLimit => EffectiveLimit = limit
  BY LimitFacts DEF TypeInv, TypeOK
<1>. DEFINE n == Len(CurrentList)
            k == PageSize(skip, EffectiveLimit, n)
<1>4. n \in Nat
  BY CurrentFacts
<1>5. /\ Len(seen) = Least(skip, n)
      /\ \A i \in 1 .. Len(seen) : seen[i] = CurrentList[i]
      /\ Len(page) = k
      /\ \A i \in 1 .. Len(page) : page[i].query = CurrentList[skip + i]
  BY <1>1, <1>2 DEF ExactInv
<1>6. Len(page) # 0 /\ k \in Nat
  BY <1>1, <1>5, PageFacts DEF TypeInv
<1>. HIDE DEF n
<1>7. skip < n
  BY <1>3, <1>4, <1>5, <1>6 DEF PageSize
<1>8. /\ Len(seen') = Len(seen) + Len(page)
      /\ \A i \in 1 .. Len(seen) : seen'[i] = seen[i]
      /\ \A i \in 1 .. Len(page) : seen'[Len(seen) + i] = page[i].query
      /\ skip' = skip + (IF advance = "items" \/ limit = 0 THEN Len(page) ELSE limit)
  BY NextPageFacts DEF TypeInv
<1>9. skip' = skip + k \/ skip' = skip + EffectiveLimit
  BY <1>2, <1>3, <1>5, <1>8 DEF Trusted
<1>10. Least(skip, n) = skip /\ skip + k = Least(skip', n)
  BY <1>3, <1>4, <1>7, <1>9, PageSizeSum
<1>. HIDE DEF k
<1>11. Len(seen) = skip /\ Len(seen') = skip + k
  BY <1>5, <1>8, <1>10
<1>12. ASSUME NEW i \in 1 .. Len(seen')
       PROVE  seen'[i] = CurrentList[i]
  <2>1. CASE i <= skip
    BY <1>3, <1>5, <1>8, <1>11, <2>1
  <2>2. CASE i > skip
    <3>1. i - skip \in 1 .. k /\ skip + (i - skip) = i
      BY <1>3, <1>6, <1>11, <2>2
    <3>. QED
      BY <1>5, <1>8, <1>11, <3>1
  <2>. QED
    BY <1>3, <1>6, <1>11, <2>1, <2>2
<1>13. Len(seen') = Least(skip', Len(CurrentList'))
  BY <1>2, <1>10, <1>11 DEF n
<1>. QED
  BY <1>1, <1>2, <1>12, <1>13 DEF ExactInv, HasPage

LEMMA NextExact ==
  ASSUME TypeInv, ExactInv, [Next]_vars
  PROVE  ExactInv'
<1>1. CASE UNCHANGED vars \/ StopReading \/ \E q \in Queries : Settle(q)
  BY <1>1 DEF vars, rowVars, StopReading, Settle, ExactInv, Trusted, HasPage, EffectiveLimit, CurrentList
<1>2. CASE CountRows
  BY <1>2 DEF rowVars, CountRows, ExactInv, Trusted, HasPage, EffectiveLimit, CurrentList
<1>. QED
  BY <1>1, <1>2, CommitExact, StartExact, ReadPageExact, LoadResponsesExact, NextPageExact
  DEF Next, Reading

(* The join with the first times leaves each of the reader's chats its     *)
(* first message, though the outer select does not look at the user.       *)
LEMMA MembersAreWanted ==
  ASSUME TypeInv
  PROVE  Members(list, rows) = {q \in rows : Wanted(q)}
<1>1. rows \subseteq Queries
  BY DEF TypeInv, TypeOK
<1>2. ASSUME NEW q \in rows, list = "chats"
      PROVE  [chat |-> ChatOf[q], time |-> CreatedAt[q]] \in FirstTimes(rows) <=> Own(q) /\ First(q)
  <2>1. \A p \in rows : [chat |-> ChatOf[p], time |-> CreatedAt[p]]
                          = [chat |-> ChatOf[q], time |-> CreatedAt[q]] => p = q
    BY <1>1, HistoryAssumption
  <2>. QED
    BY <2>1 DEF FirstTimes, Own, First
<1>. QED
  BY <1>2 DEF TypeInv, TypeOK, Members, Joined, InChat, Wanted, Own

(* When nothing changes while a client reads page after page, the pages    *)
(* put together are the list: each chat by its first message, the newest   *)
(* first, or each message of the chat, the oldest first.                   *)
THEOREM QuietReadsAreExact == Spec => []QuietReadIsExact
<1>1. Init => ExactInv
  BY DEF Init, ExactInv
<1>2. ASSUME TypeInv, ExactInv, AtEnd, Trusted, changed = {}
      PROVE  /\ ToSet(seen) = {q \in rows : Wanted(q)}
             /\ \A i, j \in DOMAIN seen :
                  i < j => IF list = "chats" THEN CreatedAt[seen[i]] > CreatedAt[seen[j]]
                           ELSE CreatedAt[seen[i]] < CreatedAt[seen[j]]
             /\ total = Len(seen)
  <2>1. HasPage /\ phase # "idle" /\ Len(page) = 0
    BY <1>2, PageFacts DEF AtEnd, HasPage, TypeInv
  <2>2. /\ Len(seen) = Least(skip, Len(CurrentList))
        /\ \A i \in 1 .. Len(seen) : seen[i] = CurrentList[i]
        /\ Len(page) = PageSize(skip, EffectiveLimit, Len(CurrentList))
        /\ total = Len(CurrentList)
    BY <1>2, <2>1 DEF ExactInv
  <2>3. skip \in Nat /\ EffectiveLimit \in Nat \ {0} /\ Len(CurrentList) \in Nat
    BY <1>2, LimitFacts, CurrentFacts DEF TypeInv, TypeOK
  <2>4. Len(seen) = Len(CurrentList)
    <3>1. PageSize(skip, EffectiveLimit, Len(CurrentList)) = 0
      BY <2>1, <2>2
    <3>2. Len(CurrentList) <= skip
      BY <2>3, <3>1, PageSizeFacts
    <3>. QED
      BY <2>2, <2>3, <3>2 DEF Least
  <2>5. DOMAIN seen = 1 .. Len(seen) /\ DOMAIN CurrentList = 1 .. Len(CurrentList)
    BY <1>2, PageFacts, CurrentFacts DEF TypeInv
  <2>6. ToSet(seen) = ToSet(CurrentList)
    BY <2>2, <2>4, <2>5 DEF ToSet
  <2>7. rows \in SUBSET Queries /\ IsFiniteSet(rows)
    BY <1>2 DEF TypeInv, TypeOK
  <2>8. /\ ToSet(CurrentList) = Members(list, rows)
        /\ \A i, j \in 1 .. Len(CurrentList) :
             i < j => Key(list)[CurrentList[i]] < Key(list)[CurrentList[j]]
    BY <2>7, ListingFacts DEF CurrentList
  <2>9. ASSUME NEW i \in DOMAIN seen, NEW j \in DOMAIN seen, i < j
        PROVE  IF list = "chats" THEN CreatedAt[seen[i]] > CreatedAt[seen[j]]
               ELSE CreatedAt[seen[i]] < CreatedAt[seen[j]]
    <3>1. /\ seen[i] = CurrentList[i] /\ seen[j] = CurrentList[j]
          /\ Key(list)[CurrentList[i]] < Key(list)[CurrentList[j]]
      BY <2>2, <2>4, <2>5, <2>8, <2>9
    <3>2. seen[i] \in Queries /\ seen[j] \in Queries
      BY <1>2, <2>5 DEF TypeInv, TypeOK
    <3>3. CreatedAt[seen[i]] \in Nat /\ CreatedAt[seen[j]] \in Nat
      BY <3>2, HistoryAssumption
    <3>. QED
      BY <3>1, <3>2, <3>3 DEF Key
  <2>. QED
    BY <1>2, <2>2, <2>4, <2>6, <2>8, <2>9, MembersAreWanted
<1>3. TypeInv /\ ExactInv => QuietReadIsExact
  BY <1>2 DEF QuietReadIsExact
<1>. QED
  BY <1>1, <1>3, NextExact, AlwaysTypeInv, PTL DEF Spec
=============================================================================
