----------------------------- MODULE FeedProofs ------------------------------
(***************************************************************************)
(* Proofs about LiveFeed for any number of events, any size of a page and  *)
(* any bounds: what a page of GetEvents holds, that the feed is in order,  *)
(* and that nothing is missing from it but for the reasons LiveFeed names. *)
(***************************************************************************)
EXTENDS LiveFeed, FiniteSetTheorems, SequenceTheorems, TLAPS

-----------------------------------------------------------------------------
(* Pages.  Events of distinct ids can be listed in falling order: the rank *)
(* of an event, the number of those that are not older, is its place.      *)
Falls(list) == \A i, j \in DOMAIN list : i < j => list[i].id > list[j].id

Distinct(S) == \A d, e \in S : d.id = e.id => d = e

LEMMA Ranks ==
  ASSUME NEW S, IsFiniteSet(S), \A e \in S : e.id \in Nat, Distinct(S)
  PROVE  \E list \in [1..Cardinality(S) -> S] : Falls(list)
<1> DEFINE Newer(e) == {d \in S : d.id >= e.id}
           n == Cardinality(S)
           rank == [e \in S |-> Cardinality(Newer(e))]
<1>1. n \in Nat /\ IsFiniteSet(1..n) /\ Cardinality(1..n) = n
  BY FS_CardinalityType, FS_Interval
<1>2. ASSUME NEW e \in S
      PROVE  /\ IsFiniteSet(Newer(e)) /\ e \in Newer(e) /\ Newer(e) \in SUBSET S
             /\ Cardinality(Newer(e)) \in 1..n
  <2>1. IsFiniteSet(Newer(e)) /\ Cardinality(Newer(e)) <= n
    BY FS_Subset
  <2>2. e \in Newer(e)
    OBVIOUS
  <2>3. Cardinality(Newer(e)) \in Nat /\ Cardinality(Newer(e)) # 0
    BY <2>1, <2>2, FS_CardinalityType, FS_EmptySet
  <2> QED  BY <1>1, <2>1, <2>2, <2>3
<1>3. ASSUME NEW d \in S, NEW e \in S, d.id > e.id
      PROVE  rank[d] < rank[e]
  <2>1. Newer(d) \in SUBSET Newer(e) /\ e \notin Newer(d)
    BY <1>3
  <2>2. Cardinality(Newer(d)) <= Cardinality(Newer(e))
        /\ Cardinality(Newer(d)) # Cardinality(Newer(e))
    <3> HIDE DEF Newer
    <3> QED  BY <1>2, <2>1, FS_Subset
  <2>3. rank[d] = Cardinality(Newer(d)) /\ rank[e] = Cardinality(Newer(e))
    OBVIOUS
  <2> HIDE DEF rank, Newer
  <2> QED  BY <1>1, <1>2, <2>2, <2>3
<1>4. rank \in [S -> 1..n] /\ \A e \in S : rank[e] \in Int
  <2>1. rank \in [S -> 1..n]
    <3> HIDE DEF n, Newer
    <3> QED  BY <1>2
  <2>2. 1..n \subseteq Int
    BY <1>1
  <2> HIDE DEF rank, n
  <2> QED  BY <2>1, <2>2
<1> HIDE DEF rank, n, Newer
<1>5. \A d, e \in S : rank[d] = rank[e] => d = e
  <2> SUFFICES ASSUME NEW d \in S, NEW e \in S, rank[d] = rank[e], d # e
               PROVE  FALSE
    OBVIOUS
  <2>1. d.id > e.id \/ e.id > d.id
    BY DEF Distinct
  <2> QED  BY <1>3, <1>4, <2>1
<1>6. rank \in Surjection(S, 1..n)
  <2>1. rank \in Injection(S, 1..n)
    BY <1>4, <1>5 DEF Injection, IsInjective
  <2> QED  BY <1>1, <2>1, FS_Injection DEF n
<1>7. \A k \in 1..n : \E e \in S : rank[e] = k
  BY <1>6 DEF Surjection
<1> DEFINE list == [k \in 1..n |-> CHOOSE e \in S : rank[e] = k]
<1>8. \A k \in 1..n : list[k] \in S /\ rank[list[k]] = k
  BY <1>7
<1>9. list \in [1..n -> S] /\ DOMAIN list = 1..n
  BY <1>8
<1> HIDE DEF list
<1>10. ASSUME NEW i \in 1..n, NEW j \in 1..n, i < j
       PROVE  list[i].id > list[j].id
  <2>1. list[i] # list[j] /\ rank[list[i]] < rank[list[j]]
    BY <1>8, <1>10
  <2>2. list[i].id # list[j].id
    BY <1>8, <2>1 DEF Distinct
  <2>3. ~(list[j].id > list[i].id)
    BY <1>1, <1>3, <1>8, <1>10
  <2> QED  BY <1>8, <2>2, <2>3
<1> QED  BY <1>9, <1>10 DEF Falls, n

(* So NewestFirst lists each once, the newest first.                       *)
LEMMA Listed ==
  ASSUME NEW S, IsFiniteSet(S), \A e \in S : e.id \in Nat, Distinct(S)
  PROVE  /\ NewestFirst(S) \in Seq(S) /\ Falls(NewestFirst(S))
         /\ \A e \in S : \E i \in DOMAIN NewestFirst(S) : NewestFirst(S)[i] = e
<1> DEFINE n == Cardinality(S)
           list == NewestFirst(S)
<1>1. n \in Nat /\ IsFiniteSet(1..n) /\ Cardinality(1..n) = n
  BY FS_CardinalityType, FS_Interval
<1>2. list \in [1..n -> S] /\ Falls(list)
  BY Ranks DEF NewestFirst, Falls
<1> HIDE DEF list, n
<1>3. list \in Seq(S) /\ DOMAIN list = 1..n
  BY <1>1, <1>2
<1>4. \A i, j \in 1..n : list[i] = list[j] => i = j
  <2> SUFFICES ASSUME NEW i \in 1..n, NEW j \in 1..n, list[i] = list[j], i < j
               PROVE  FALSE
    BY <1>1
  <2>1. list[i] \in S
    BY <1>2
  <2> QED  BY <1>2, <1>3, <2>1 DEF Falls
<1>5. list \in Injection(1..n, S)
  BY <1>2, <1>4 DEF Injection, IsInjective
<1>6. list \in Surjection(1..n, S)
  BY <1>1, <1>5, FS_Injection DEF n
<1> QED  BY <1>2, <1>3, <1>6 DEF Surjection, list

(* The first events of a list that falls.                                  *)
LEMMA Beginning ==
  ASSUME NEW S, NEW list \in Seq(S), Falls(list), NEW count \in 0..Len(list)
  PROVE  LET part == SubSeq(list, 1, count)
         IN  /\ part \in Seq(S) /\ Len(part) = count /\ Falls(part)
             /\ \A k \in 1..count : part[k] = list[k]
<1> DEFINE part == SubSeq(list, 1, count)
<1>1. count \in Nat /\ count <= Len(list) /\ \A k \in 1..count : list[k] \in S
  OBVIOUS
<1>2. /\ part \in Seq(S) /\ Len(part) = count
      /\ \A k \in 1..count : part[k] = list[k]
  BY <1>1, SubSeqProperties
<1> HIDE DEF part
<1>3. Falls(part)
  <2>1. DOMAIN part = 1..count /\ 1..count \subseteq DOMAIN list
    BY <1>1, <1>2
  <2> QED  BY <1>2, <2>1 DEF Falls
<1> QED  BY <1>2, <1>3 DEF part

RowsDistinct ==
  /\ IsFiniteSet(rows) /\ Distinct(rows)
  /\ \A e \in rows : e.id \in Nat \ {0}

LEMMA IdsOfList ==
  ASSUME NEW list, NEW k \in DOMAIN list, list[k].id # 0
  PROVE  list[k].id \in IdsIn(list)
  BY DEF IdsIn

(* A page of GetEvents falls, and any event that it was asked for and that *)
(* is not in it is below it, and then it is full.                          *)
Full(page) == page # <<>> /\ Len(page) >= PageSize

LEMMA Paged ==
  ASSUME RowsDistinct, NEW before \in Nat, NEW filter
  PROVE  LET page == GetEvents(before, filter)
         IN  /\ page \in Seq(Wanted(before, filter)) /\ Falls(page)
             /\ \A e \in Wanted(before, filter) :
                  \/ \E k \in DOMAIN page : page[k] = e
                  \/ Full(page) /\ e.id < Last(page).id
<1> DEFINE S == Wanted(before, filter)
           list == NewestFirst(S)
           count == IF PageSize < Len(list) THEN PageSize ELSE Len(list)
           page == SubSeq(list, 1, count)
<1>1. S \in SUBSET rows
  BY DEF Wanted
<1>2. IsFiniteSet(S) /\ (\A e \in S : e.id \in Nat) /\ Distinct(S)
  BY <1>1, FS_Subset DEF RowsDistinct, Distinct
<1>3. GetEvents(before, filter) = page
  BY DEF GetEvents
<1> HIDE DEF S
<1>4. list \in Seq(S) /\ Falls(list) /\ \A e \in S : \E k \in DOMAIN list : list[k] = e
  BY <1>2, Listed
<1> HIDE DEF list
<1>5. Len(list) \in Nat /\ count \in 0..Len(list) /\ DOMAIN list = 1..Len(list)
  BY <1>4, FeedAssumption
<1>6. /\ page \in Seq(S) /\ Len(page) = count /\ Falls(page)
      /\ \A k \in 1..count : page[k] = list[k]
  BY <1>4, <1>5, Beginning
<1>7. ASSUME NEW e \in S
      PROVE  \/ \E k \in DOMAIN page : page[k] = e
             \/ Full(page) /\ e.id < Last(page).id
  <2>1. PICK k \in DOMAIN list : list[k] = e
    BY <1>4
  <2> HIDE DEF page
  <2>2. CASE k <= count
    <3>1. k \in DOMAIN page
      BY <1>5, <1>6, <2>1, <2>2
    <3> QED  BY <1>5, <1>6, <2>1, <2>2, <3>1
  <2>3. CASE ~(k <= count)
    <3>1. count = PageSize /\ count \in 1..Len(list) /\ count < k
      BY <1>5, <2>1, <2>3, FeedAssumption
    <3>2. page # <<>> /\ Last(page) = list[count]
      BY <1>6, <3>1 DEF Last
    <3>3. list[count].id > list[k].id /\ list[count] \in S
      BY <1>4, <1>5, <2>1, <3>1 DEF Falls
    <3>4. list[count].id \in Nat /\ list[k].id \in Nat
      BY <1>2, <2>1, <3>3
    <3> QED  BY <1>6, <2>1, <3>1, <3>2, <3>3, <3>4, FeedAssumption DEF Full
  <2> QED  BY <2>2, <2>3
<1> QED  BY <1>3, <1>6, <1>7 DEF S

(* A page of which only the beginning was read: what is missing is below   *)
(* the last event read or, if there is none, below where it was asked.     *)
CutAt(page, count, before) == IF count > 0 THEN page[count].id ELSE before

AsFarAs(part, last, S) ==
  /\ part \in Seq(S) /\ Falls(part)
  /\ last \in Nat /\ (part # <<>> => last = Last(part).id /\ last > 0)
  /\ \A e \in S : (\E k \in DOMAIN part : part[k] = e) \/ (last > 0 => e.id < last)

LEMMA PagedInPart ==
  ASSUME RowsDistinct, NEW before \in Nat, NEW filter,
         NEW page, page = GetEvents(before, filter),
         NEW count \in 0..(Len(page) - 1), NEW part, part = SubSeq(page, 1, count),
         NEW last, last = CutAt(page, count, before)
  PROVE  AsFarAs(part, last, Wanted(before, filter))
<1> DEFINE S == Wanted(before, filter)
<1>0. last = IF count > 0 THEN page[count].id ELSE before
  BY DEF CutAt
<1>1. /\ page \in Seq(S) /\ Falls(page)
      /\ \A e \in S : \/ \E k \in DOMAIN page : page[k] = e
                      \/ Full(page) /\ e.id < Last(page).id
  BY Paged
<1>2. \A e \in S : e.id \in Nat \ {0} /\ (before > 0 => e.id < before)
  BY DEF Wanted, RowsDistinct
<1> HIDE DEF S
<1>3. /\ Len(page) \in Nat /\ DOMAIN page = 1..Len(page)
      /\ count \in Nat /\ count < Len(page)
  BY <1>1
<1>4. /\ part \in Seq(S) /\ Len(part) = count /\ Falls(part)
      /\ \A k \in 1..count : part[k] = page[k]
  BY <1>1, <1>3, Beginning
<1>5. count > 0 => count \in DOMAIN page /\ page[count] \in S
  BY <1>1, <1>3
<1>6. last \in Nat /\ (part # <<>> => last = Last(part).id /\ last > 0)
  <2>1. part # <<>> => count > 0 /\ Last(part) = page[count]
    BY <1>3, <1>4 DEF Last
  <2> QED  BY <1>0, <1>2, <1>5, <2>1
<1>7. ASSUME NEW e \in S, count > 0
      PROVE  \/ \E k \in DOMAIN part : part[k] = e
             \/ e.id < page[count].id
  <2>1. ASSUME NEW k \in DOMAIN page, page[k] = e
        PROVE  \/ \E i \in DOMAIN part : part[i] = e
               \/ e.id < page[count].id
    <3>1. CASE k <= count
      <4>1. k \in DOMAIN part
        BY <1>3, <1>4, <2>1, <3>1
      <4> QED  BY <1>3, <1>4, <2>1, <3>1, <4>1
    <3>2. CASE ~(k <= count)
      <4>1. page[count].id > page[k].id
        BY <1>1, <1>3, <1>5, <1>7, <2>1, <3>2 DEF Falls
      <4> QED  BY <1>2, <1>5, <1>7, <2>1, <4>1
    <3> QED  BY <3>1, <3>2
  <2>2. CASE e.id < Last(page).id
    <3>1. /\ Len(page) \in DOMAIN page /\ Last(page) = page[Len(page)]
          /\ page[Len(page)] \in S
      BY <1>1, <1>3 DEF Last
    <3>2. page[count].id > page[Len(page)].id
      BY <1>1, <1>3, <1>5, <1>7, <3>1 DEF Falls
    <3> QED  BY <1>2, <1>5, <1>7, <2>2, <3>1, <3>2
  <2> QED  BY <1>1, <2>1, <2>2
<1>8. ASSUME NEW e \in S
      PROVE  (\E k \in DOMAIN part : part[k] = e) \/ (last > 0 => e.id < last)
  BY <1>0, <1>2, <1>3, <1>7
<1> QED  BY <1>4, <1>6, <1>8 DEF AsFarAs, S

-----------------------------------------------------------------------------
(* Types, on the server's side and in the browser.                         *)
Event == [n : Numbers, id : Nat]
Filters == {"all", "allow", "block"}
Request ==
  [kind : {"first", "more"}, before : Nat, filter : Filters, era : Nat,
   page : Seq(Event), at : {"asked", "read"}]

Given(list) == \A k \in DOMAIN list : list[k].id <= lastId

ServerTyped ==
  /\ rows \subseteq Event /\ RowsDistinct /\ lastId \in Nat
  /\ saved \in Event \cup {NoEvent} /\ log \in Seq(Event)
  /\ open \subseteq Streams /\ next \in [Streams -> Nat \ {0}]
  /\ sent \in [Streams -> Seq(Event)]

IdsGiven ==
  /\ \A e \in rows : e.id <= lastId
  /\ saved # NoEvent => saved.id <= lastId
  /\ Given(log) /\ Given(sent[Browser])

StreamPlaced ==
  Browser \in open => next[Browser] <= Len(log) + 1 /\ read <= Len(sent[Browser])

PageTyped ==
  /\ events \in Seq(Event) /\ Given(events)
  /\ eventFilter \in Filters /\ oldest \in 0..lastId
  /\ hasMore \in BOOLEAN /\ loadingMore \in BOOLEAN /\ stale \in BOOLEAN
  /\ read \in Nat /\ filters \in Nat
  /\ lost \subseteq 1..lastId /\ overtaken \subseteq 1..lastId

ServerInv == ServerTyped /\ IdsGiven /\ StreamPlaced

(* A request asks below an id that was given, and its page lies there; it  *)
(* is of a filter that was in force once.                                  *)
Sound(r) ==
  /\ r.before <= lastId /\ r.era <= filters
  /\ r.kind = "first" <=> r.before = 0
  /\ r.era = filters => r.filter = eventFilter
  /\ r.kind = "more" => loadingMore
  /\ Falls(r.page)
  /\ \A k \in DOMAIN r.page :
       /\ r.page[k] \in rows /\ Matches(r.page[k], r.filter)
       /\ r.before > 0 => r.page[k].id < r.before

(* There is one first page of a filter, and one page below at a time.      *)
Alike(r, s) ==
  \/ r.kind = "more" /\ s.kind = "more"
  \/ r.kind = "first" /\ s.kind = "first" /\ r.era = s.era

RequestsSound ==
  /\ requests \in Seq(Request)
  /\ \A i \in DOMAIN requests : Sound(requests[i])
  /\ \A i, j \in DOMAIN requests : Alike(requests[i], requests[j]) => i = j

TypedInv == ServerInv /\ PageTyped /\ RequestsSound

LEMMA NotAnEvent == \A e \in Event : e # NoEvent
  BY DEF Event, NoEvent

LEMMA FirstTypes == FeedInit => TypedInv
<1> SUFFICES ASSUME FeedInit PROVE TypedInv
  OBVIOUS
<1> DEFINE r == [kind |-> "first", before |-> 0, filter |-> "all", era |-> 0,
                 page |-> <<>>, at |-> "asked"]
<1>1. /\ rows = {} /\ lastId = 0 /\ saved = NoEvent /\ log = <<>> /\ open = {}
      /\ next = [s \in Streams |-> 1] /\ sent = [s \in Streams |-> <<>>]
  BY DEF FeedInit, Init
<1>2. RowsDistinct
  BY <1>1, FS_EmptySet DEF RowsDistinct, Distinct
<1>3. ServerTyped /\ IdsGiven /\ StreamPlaced
  BY <1>1, <1>2, FeedAssumption DEF ServerTyped, IdsGiven, Given, StreamPlaced
<1>4. PageTyped
  <2>1. events = <<>> /\ events \in Seq(Event) /\ Given(events)
    BY DEF FeedInit, Given
  <2>2. eventFilter \in Filters /\ oldest \in 0..lastId /\ read \in Nat /\ filters \in Nat
    BY <1>1 DEF FeedInit, Filters
  <2>3. lost \subseteq 1..lastId /\ overtaken \subseteq 1..lastId
    BY DEF FeedInit
  <2>4. hasMore \in BOOLEAN /\ loadingMore \in BOOLEAN /\ stale \in BOOLEAN
    BY Zenon DEF FeedInit
  <2> QED  BY <2>1, <2>2, <2>3, <2>4 DEF PageTyped
<1>5. r \in Request /\ requests = <<r>>
  BY DEF FeedInit, Request, Filters
<1>6. Sound(r)
  BY <1>1 DEF FeedInit, Sound, Falls
<1>7. RequestsSound
  BY <1>5, <1>6 DEF RequestsSound
<1> QED  BY <1>3, <1>4, <1>7 DEF TypedInv, ServerInv

(* Ids of a part of a list.                                                *)
LEMMA IdsOfPart ==
  ASSUME NEW list \in Seq(Event), NEW m \in Nat \ {0}
  PROVE  LET part == SubSeq(list, m, Len(list))
         IN  /\ IdsIn(part) \subseteq IdsIn(list)
             /\ \A k \in m..Len(list) : list[k].id # 0 => list[k].id \in IdsIn(part)
<1> DEFINE part == SubSeq(list, m, Len(list))
<1>1. Len(list) \in Nat /\ DOMAIN list = 1..Len(list) /\ \A i \in m..Len(list) : list[i] \in Event
  OBVIOUS
<1>2. /\ part \in Seq(Event) /\ Len(part) = IF m <= Len(list) THEN Len(list) - m + 1 ELSE 0
      /\ \A i \in 1..(Len(list) - m + 1) : part[i] = list[m + i - 1]
  BY <1>1, SubSeqProperties
<1> HIDE DEF part
<1>3. DOMAIN part = 1..Len(part)
  BY <1>2
<1>4. ASSUME NEW i \in DOMAIN part
      PROVE  m + i - 1 \in DOMAIN list /\ part[i] = list[m + i - 1]
  BY <1>1, <1>2, <1>3
<1>5. IdsIn(part) \subseteq IdsIn(list)
  BY <1>4 DEF IdsIn
<1>6. ASSUME NEW k \in m..Len(list), list[k].id # 0
      PROVE  list[k].id \in IdsIn(part)
  <2>1. k - m + 1 \in DOMAIN part /\ part[k - m + 1] = list[k]
    <3>1. k - m + 1 \in 1..(Len(list) - m + 1) /\ m <= Len(list) /\ m + (k - m + 1) - 1 = k
      BY <1>1
    <3> QED  BY <1>2, <1>3, <3>1
  <2> QED  BY <1>6, <2>1, IdsOfList
<1> QED  BY <1>5, <1>6 DEF part

LEMMA GivenIds ==
  ASSUME lastId \in Nat, NEW list \in Seq(Event), Given(list)
  PROVE  IdsIn(list) \subseteq 1..lastId
<1>1. ASSUME NEW k \in DOMAIN list, list[k].id # 0
      PROVE  list[k].id \in 1..lastId
  <2>1. list[k] \in Event
    OBVIOUS
  <2>2. list[k].id \in Nat /\ list[k].id <= lastId
    BY <2>1 DEF Given, Event
  <2> QED  BY <1>1, <2>2
<1> QED  BY <1>1 DEF IdsIn

-----------------------------------------------------------------------------
(* What the server and the stream do leaves the pages alone, and an event  *)
(* on its way stays there until the feed shows it or has lost it.          *)
Aside ==
  UNCHANGED <<eventFilter, hasMore, loadingMore, oldest, requests, filters, stale,
              overtaken>>

Journey ==
  /\ rows \subseteq rows' /\ lastId <= lastId' /\ lost \subseteq lost'
  /\ IdsIn(events) \subseteq IdsIn(events)'
  /\ \A e \in rows' : e \in rows \/ (e.id > lastId /\ (e = saved' \/ e.id \in lost'))
  /\ \A e \in rows : OnItsWay(e) =>
       OnItsWay(e)' \/ e.id \in lost' \/ e.id \in IdsIn(events)'

LEMMA PageStaysTyped ==
  ASSUME PageTyped, ServerTyped, ServerTyped', lastId <= lastId', lost' \subseteq 1..lastId',
         UNCHANGED <<pageVars, filters, stale, overtaken>>, read' \in Nat
  PROVE  PageTyped'
<1>1. lastId \in Nat /\ lastId' \in Nat
  BY DEF ServerTyped
<1>2. UNCHANGED <<events, eventFilter, hasMore, loadingMore, oldest>>
  BY DEF pageVars
<1>3. Given(events)'
  <2> SUFFICES ASSUME NEW k \in DOMAIN events PROVE events[k].id <= lastId'
    BY <1>2 DEF Given
  <2>1. events[k].id <= lastId /\ events[k] \in Event
    BY DEF PageTyped, Given
  <2> QED  BY <1>1, <2>1 DEF Event
<1>4. oldest' \in 0..lastId' /\ overtaken' \subseteq 1..lastId'
  BY <1>1, <1>2 DEF PageTyped
<1> QED  BY <1>2, <1>3, <1>4 DEF PageTyped

LEMMA GivenStays ==
  ASSUME lastId \in Nat, lastId' \in Nat, lastId <= lastId',
         NEW list \in Seq(Event), Given(list)
  PROVE  \A k \in DOMAIN list : list[k].id <= lastId'
<1> SUFFICES ASSUME NEW k \in DOMAIN list PROVE list[k].id <= lastId'
  OBVIOUS
<1>1. list[k].id <= lastId /\ list[k] \in Event
  BY DEF Given
<1> QED  BY <1>1 DEF Event

LEMMA BrowserStreams ==
  ASSUME ServerTyped
  PROVE  sent[Browser] \in Seq(Event) /\ next[Browser] \in Nat \ {0}
  BY FeedAssumption DEF ServerTyped

LEMMA PublishTravels ==
  ASSUME ServerInv, PageTyped, NEW n \in Numbers, Publish(n)
  PROVE  ServerInv' /\ PageTyped' /\ Journey /\ Aside
<1>1. /\ saved = NoEvent /\ saved' # NoEvent /\ saved' \in Event
      /\ lastId \in Nat /\ lastId' \in Nat /\ lastId <= lastId' /\ saved'.id <= lastId'
      /\ UNCHANGED <<log, open, next, sent>>
      /\ \/ UNCHANGED <<rows, lost>>
         \/ \E row \in Event :
              /\ rows' = rows \cup {row} /\ row.id = lastId + 1 /\ lastId' = lastId + 1
              /\ \/ row = saved' /\ UNCHANGED lost
                 \/ saved'.id = 0 /\ lost' = lost \cup {lastId + 1}
  <2>1. lastId \in Nat
    BY DEF ServerInv, ServerTyped
  <2>2. CASE Save(n) /\ UNCHANGED lost
    <3>1. saved' \in Event /\ saved'.id = lastId + 1
      BY <2>1, <2>2 DEF Save, Event
    <3> QED  BY <2>1, <2>2, <3>1, NotAnEvent DEF Save, sentVars
  <2>3. CASE NotSaved(n) /\ UNCHANGED lost
    <3>1. saved' \in Event /\ saved'.id = 0
      BY <2>3 DEF NotSaved, Event
    <3> QED  BY <2>1, <2>3, <3>1, NotAnEvent DEF NotSaved, sentVars
  <2>4. CASE SaveUnseen(n) /\ lost' = lost \cup {lastId + 1}
    <3> DEFINE row == [n |-> n, id |-> lastId + 1]
    <3>1. saved' \in Event /\ saved'.id = 0
      BY <2>4 DEF SaveUnseen, Event
    <3>2. row \in Event /\ row.id = lastId + 1 /\ rows' = rows \cup {row}
      BY <2>1, <2>4 DEF SaveUnseen, Event
    <3> HIDE DEF row
    <3> QED  BY <2>1, <2>4, <3>1, <3>2, NotAnEvent DEF SaveUnseen, sentVars
  <2> QED  BY <2>2, <2>3, <2>4 DEF Publish
<1>2. UNCHANGED <<pageVars, requests, read, stale, overtaken, filters>>
  BY DEF Publish
<1>3. RowsDistinct' /\ rows' \subseteq Event
  <2>1. RowsDistinct /\ rows \subseteq Event
    BY DEF ServerInv, ServerTyped
  <2>2. ASSUME NEW row \in Event, rows' = rows \cup {row}, row.id = lastId + 1
        PROVE  RowsDistinct' /\ rows' \subseteq Event
    <3>1. IsFiniteSet(rows')
      BY <2>1, <2>2, FS_AddElement DEF RowsDistinct
    <3>2. \A e \in rows : e.id \in Nat /\ e.id # row.id
      BY <1>1, <2>1, <2>2 DEF ServerInv, IdsGiven, RowsDistinct
    <3>3. Distinct(rows')
      BY <2>1, <2>2, <3>2 DEF RowsDistinct, Distinct
    <3>4. \A e \in rows' : e.id \in Nat \ {0}
      BY <1>1, <2>1, <2>2 DEF RowsDistinct
    <3> QED  BY <2>1, <2>2, <3>1, <3>3, <3>4 DEF RowsDistinct
  <2>3. CASE rows' = rows
    BY <2>1, <2>3 DEF RowsDistinct
  <2> QED  BY <1>1, <2>2, <2>3
<1>4. ServerTyped'
  BY <1>1, <1>3 DEF ServerInv, ServerTyped
<1>5. IdsGiven'
  <2>1. log \in Seq(Event) /\ sent[Browser] \in Seq(Event) /\ Given(log) /\ Given(sent[Browser])
    BY BrowserStreams DEF ServerInv, ServerTyped, IdsGiven
  <2>2. Given(log)' /\ Given(sent[Browser])'
    <3>1. \A k \in DOMAIN log : log[k].id <= lastId'
      BY <1>1, <2>1, GivenStays
    <3>2. \A k \in DOMAIN sent[Browser] : sent[Browser][k].id <= lastId'
      BY <1>1, <2>1, GivenStays
    <3> QED  BY <1>1, <3>1, <3>2 DEF Given
  <2>3. \A e \in rows' : e.id <= lastId'
    <3>1. \A e \in rows : e.id \in Nat /\ e.id <= lastId
      BY DEF ServerInv, ServerTyped, IdsGiven, RowsDistinct
    <3> QED  BY <1>1, <3>1
  <2> QED  BY <1>1, <2>2, <2>3 DEF IdsGiven
<1>6. StreamPlaced'
  BY <1>1, <1>2 DEF ServerInv, StreamPlaced
<1>7. PageTyped'
  <2>1. lost \subseteq 1..lastId' /\ read' \in Nat
    BY <1>1, <1>2 DEF PageTyped
  <2>2. lost' = lost \/ (lost' = lost \cup {lastId'} /\ lastId' \in 1..lastId')
    BY <1>1
  <2>3. lost' \subseteq 1..lastId'
    BY <2>1, <2>2
  <2> QED  BY <1>1, <1>2, <1>4, <2>1, <2>3, PageStaysTyped DEF ServerInv
<1>8. Journey
  <2>1. \A e \in rows' : e \in rows \/ (e.id > lastId /\ (e = saved' \/ e.id \in lost'))
    BY <1>1
  <2>2. \A e \in rows : OnItsWay(e) => OnItsWay(e)'
    <3>1. \A e \in rows : e # saved
      BY <1>1, NotAnEvent DEF ServerInv, ServerTyped
    <3> QED  BY <1>1, <1>2, <3>1 DEF OnItsWay
  <2>3. rows \subseteq rows' /\ lost \subseteq lost' /\ UNCHANGED events
    BY <1>1, <1>2 DEF pageVars
  <2> QED  BY <1>1, <2>1, <2>2, <2>3 DEF Journey, IdsIn
<1> QED  BY <1>2, <1>4, <1>5, <1>6, <1>7, <1>8 DEF ServerInv, Aside, pageVars

(* Steps that save nothing.                                                *)
LEMMA NothingSaved ==
  ASSUME ServerInv, UNCHANGED <<rows, lastId>>
  PROVE  /\ RowsDistinct' /\ lastId \in Nat
         /\ \A e \in rows' : e.id <= lastId' /\ e.id # 0
         /\ rows \subseteq rows' /\ lastId <= lastId'
         /\ \A e \in rows' : e \in rows
  BY DEF ServerInv, ServerTyped, RowsDistinct, IdsGiven, Distinct

LEMMA LogTravels ==
  ASSUME ServerInv, PageTyped, LogIt
  PROVE  ServerInv' /\ PageTyped' /\ Journey /\ Aside
<1>1. /\ saved # NoEvent /\ saved' = NoEvent /\ log' = Append(log, saved)
      /\ UNCHANGED <<rows, lastId, open, next, sent>>
      /\ UNCHANGED <<pageVars, requests, read, stale, overtaken, filters>>
  BY DEF LogIt, Log, sentVars, countVars
<1>2. /\ saved \in Event /\ saved.id <= lastId /\ log \in Seq(Event) /\ Len(log) \in Nat
      /\ next[Browser] \in Nat \ {0}
  BY <1>1, BrowserStreams DEF ServerInv, ServerTyped, IdsGiven
<1>3. /\ log' \in Seq(Event) /\ Len(log') = Len(log) + 1
      /\ DOMAIN log = 1..Len(log) /\ DOMAIN log' = 1..(Len(log) + 1)
      /\ log'[Len(log) + 1] = saved
      /\ \A k \in 1..Len(log) : log'[k] = log[k]
  BY <1>1, <1>2
<1>4. ServerTyped'
  BY <1>1, <1>3, NothingSaved DEF ServerInv, ServerTyped
<1>5. IdsGiven'
  <2>1. Given(log)'
    <3>1. \A k \in DOMAIN log : log[k].id <= lastId
      BY DEF ServerInv, IdsGiven, Given
    <3> QED  BY <1>1, <1>2, <1>3, <3>1 DEF Given
  <2>2. Given(sent[Browser])'
    BY <1>1 DEF ServerInv, IdsGiven, Given
  <2> QED  BY <1>1, <2>1, <2>2, NothingSaved DEF IdsGiven
<1>6. StreamPlaced'
  BY <1>1, <1>2, <1>3 DEF ServerInv, StreamPlaced
<1>7. lost \subseteq lost' /\ lost' \subseteq 1..lastId'
  <2>1. {saved.id} \ {0} \subseteq 1..lastId
    BY <1>2, NothingSaved, <1>1 DEF Event
  <2> QED  BY <1>1, <2>1 DEF LogIt, PageTyped
<1>8. PageTyped'
  <2>1. read' \in Nat
    BY <1>1 DEF PageTyped
  <2> QED  BY <1>1, <1>4, <1>7, <2>1, NothingSaved, PageStaysTyped DEF ServerInv
<1>9. ASSUME NEW e \in rows, OnItsWay(e)
      PROVE  OnItsWay(e)' \/ e.id \in lost'
  <2>1. CASE e = saved /\ Browser \in open
    <3>1. Len(log) + 1 \in next[Browser]..(Len(log) + 1)
      BY <1>2, <2>1 DEF ServerInv, StreamPlaced
    <3> QED  BY <1>1, <1>3, <2>1, <3>1 DEF OnItsWay
  <2>2. CASE e = saved /\ Browser \notin open
    <3>1. e.id # 0
      BY NothingSaved, <1>1
    <3> QED  BY <2>2, <3>1 DEF LogIt
  <2>3. CASE Browser \in open /\ \E i \in next[Browser]..Len(log) : log[i] = e
    <3>1. PICK i \in next[Browser]..Len(log) : log[i] = e
      BY <2>3
    <3>2. i \in next[Browser]..(Len(log) + 1) /\ log'[i] = e
      BY <1>2, <1>3, <3>1
    <3> QED  BY <1>1, <1>3, <2>3, <3>2 DEF OnItsWay
  <2>4. CASE \E i \in read+1..Len(sent[Browser]) : Browser \in open /\ sent[Browser][i] = e
    BY <1>1, <2>4 DEF OnItsWay
  <2> QED  BY <1>9, <2>1, <2>2, <2>3, <2>4 DEF OnItsWay
<1>10. UNCHANGED events
  BY <1>1 DEF pageVars
<1>11. Journey
  BY <1>1, <1>7, <1>9, <1>10, NothingSaved DEF Journey, IdsIn
<1> QED  BY <1>1, <1>4, <1>5, <1>6, <1>8, <1>11 DEF ServerInv, Aside, pageVars

LEMMA StreamTravels ==
  ASSUME ServerInv, PageTyped, Stream
  PROVE  ServerInv' /\ PageTyped' /\ Journey /\ Aside
<1> DEFINE at == next[Browser]
           e0 == log[at]
<1>1. /\ Browser \in open /\ at <= Len(log)
      /\ next' = [next EXCEPT ![Browser] = @ + 1]
      /\ UNCHANGED <<rows, lastId, saved, log, open>>
      /\ UNCHANGED <<pageVars, requests, read, stale, overtaken, filters>>
      /\ \/ sent' = [sent EXCEPT ![Browser] = Append(@, e0)] /\ UNCHANGED lost
         \/ sent' = sent /\ lost' = lost \cup ({e0.id} \ {0})
  BY DEF Stream, Send, Skip, rowVars, countVars
<1>2. /\ log \in Seq(Event) /\ Len(log) \in Nat /\ DOMAIN log = 1..Len(log)
      /\ sent[Browser] \in Seq(Event) /\ Len(sent[Browser]) \in Nat
      /\ at \in Nat \ {0} /\ at \in DOMAIN log /\ Browser \in Streams
      /\ read \in Nat /\ read <= Len(sent[Browser])
  BY <1>1, BrowserStreams, FeedAssumption
     DEF ServerInv, ServerTyped, StreamPlaced, PageTyped
<1>3. e0 \in Event /\ e0.id <= lastId
  BY <1>2 DEF ServerInv, IdsGiven, Given
<1>4. ServerTyped'
  <2>1. next' \in [Streams -> Nat \ {0}]
    BY <1>1, <1>2 DEF ServerInv, ServerTyped
  <2>2. sent' \in [Streams -> Seq(Event)]
    <3>1. Append(sent[Browser], e0) \in Seq(Event)
      <4> HIDE DEF e0
      <4> QED  BY <1>2, <1>3
    <3>2. sent \in [Streams -> Seq(Event)]
      BY DEF ServerInv, ServerTyped
    <3>3. sent' = [sent EXCEPT ![Browser] = Append(sent[Browser], e0)] \/ sent' = sent
      BY <1>1
    <3> HIDE DEF e0
    <3> QED  BY <3>1, <3>2, <3>3
  <2> QED  BY <1>1, <2>1, <2>2, NothingSaved DEF ServerInv, ServerTyped
<1>5. next'[Browser] = at + 1
  BY <1>1, <1>2 DEF ServerInv, ServerTyped
<1>6. \/ /\ sent'[Browser] = Append(sent[Browser], e0)
         /\ Len(sent'[Browser]) = Len(sent[Browser]) + 1
         /\ sent'[Browser][Len(sent[Browser]) + 1] = e0
         /\ \A k \in 1..Len(sent[Browser]) : sent'[Browser][k] = sent[Browser][k]
         /\ UNCHANGED lost
      \/ sent'[Browser] = sent[Browser] /\ lost' = lost \cup ({e0.id} \ {0})
  <2>1. CASE sent' = [sent EXCEPT ![Browser] = Append(@, e0)] /\ UNCHANGED lost
    <3>1. sent'[Browser] = Append(sent[Browser], e0)
      BY <1>2, <2>1 DEF ServerInv, ServerTyped
    <3> HIDE DEF e0
    <3> QED  BY <1>2, <1>3, <2>1, <3>1
  <2> QED  BY <1>1, <2>1
<1>7. IdsGiven'
  <2>1. Given(log)'
    BY <1>1 DEF ServerInv, IdsGiven, Given
  <2>2. Given(sent[Browser])'
    <3>1. \A k \in 1..Len(sent[Browser]) : sent[Browser][k].id <= lastId
      BY <1>2 DEF ServerInv, IdsGiven, Given
    <3>2. DOMAIN sent'[Browser] = 1..Len(sent'[Browser])
      BY <1>4, BrowserStreams, <1>2 DEF ServerTyped
    <3> HIDE DEF e0
    <3> QED  BY <1>1, <1>2, <1>3, <1>6, <3>1, <3>2 DEF Given
  <2> QED  BY <1>1, <2>1, <2>2, NothingSaved DEF ServerInv, IdsGiven
<1>8. StreamPlaced'
  <2> HIDE DEF e0
  <2> QED  BY <1>1, <1>2, <1>5, <1>6 DEF StreamPlaced
<1>9. lost \subseteq lost' /\ lost' \subseteq 1..lastId'
  <2>1. {e0.id} \ {0} \subseteq 1..lastId
    BY <1>1, <1>3, NothingSaved DEF Event
  <2> HIDE DEF e0
  <2> QED  BY <1>1, <2>1 DEF PageTyped
<1>10. PageTyped'
  BY <1>1, <1>2, <1>4, <1>9, NothingSaved, PageStaysTyped DEF ServerInv
<1>11. ASSUME NEW e \in rows, OnItsWay(e)
       PROVE  OnItsWay(e)' \/ e.id \in lost'
  <2>1. CASE e = saved
    BY <1>1, <2>1 DEF OnItsWay
  <2>2. ASSUME NEW i \in next[Browser]..Len(log), log[i] = e, i # at
        PROVE  OnItsWay(e)'
    <3>1. i \in next'[Browser]..Len(log)
      BY <1>2, <1>5, <2>2
    <3> QED  BY <1>1, <2>2, <3>1 DEF OnItsWay
  <2>3. CASE e = e0
    <3>1. CASE sent'[Browser] = sent[Browser] /\ lost' = lost \cup ({e0.id} \ {0})
      <4>1. e.id # 0
        BY <1>1, NothingSaved
      <4> HIDE DEF e0
      <4> QED  BY <2>3, <3>1, <4>1
    <3>2. CASE /\ Len(sent'[Browser]) = Len(sent[Browser]) + 1
               /\ sent'[Browser][Len(sent[Browser]) + 1] = e0
      <4>1. Len(sent[Browser]) + 1 \in read'+1..Len(sent'[Browser])
        BY <1>1, <1>2, <3>2
      <4> HIDE DEF e0
      <4> QED  BY <1>1, <2>3, <3>2, <4>1 DEF OnItsWay
    <3> HIDE DEF e0
    <3> QED  BY <1>6, <3>1, <3>2
  <2>4. ASSUME NEW i \in read+1..Len(sent[Browser]), sent[Browser][i] = e
        PROVE  OnItsWay(e)'
    <3>1. i \in read'+1..Len(sent'[Browser]) /\ sent'[Browser][i] = e
      <4> HIDE DEF e0
      <4> QED  BY <1>1, <1>2, <1>6, <2>4
    <3> QED  BY <1>1, <3>1 DEF OnItsWay
  <2> QED  BY <1>11, <2>1, <2>2, <2>3, <2>4 DEF OnItsWay
<1>12. UNCHANGED events
  BY <1>1 DEF pageVars
<1>13. Journey
  BY <1>1, <1>9, <1>11, <1>12, NothingSaved DEF Journey, IdsIn
<1> QED  BY <1>1, <1>4, <1>7, <1>8, <1>10, <1>13 DEF ServerInv, Aside, pageVars

LEMMA ConnectTravels ==
  ASSUME ServerInv, PageTyped, Connect
  PROVE  ServerInv' /\ PageTyped' /\ Journey /\ Aside
<1>1. /\ Browser \notin open /\ open' = open \cup {Browser} /\ read' = 0
      /\ next' = [next EXCEPT ![Browser] = Len(log) + 1]
      /\ sent' = [sent EXCEPT ![Browser] = <<>>]
      /\ UNCHANGED <<rows, lastId, saved, log, pageVars, requests, lost, stale, overtaken, filters>>
  BY DEF Connect, Open, rowVars, countVars
<1>2. Len(log) + 1 \in Nat \ {0} /\ Browser \in Streams
  BY FeedAssumption DEF ServerInv, ServerTyped
<1>3. ServerTyped'
  BY <1>1, <1>2, NothingSaved DEF ServerInv, ServerTyped
<1>4. /\ next'[Browser] = Len(log) + 1 /\ sent'[Browser] = <<>> /\ Len(sent'[Browser]) = 0
  BY <1>1, <1>2 DEF ServerInv, ServerTyped
<1>5. IdsGiven'
  BY <1>1, <1>4, NothingSaved DEF ServerInv, IdsGiven, Given
<1>6. StreamPlaced'
  BY <1>1, <1>2, <1>4 DEF StreamPlaced
<1>7. PageTyped'
  <2>1. lost' \subseteq 1..lastId' /\ read' \in Nat
    BY <1>1 DEF PageTyped
  <2> QED  BY <1>1, <1>3, <2>1, NothingSaved, PageStaysTyped DEF ServerInv
<1>8. \A e \in rows : OnItsWay(e) => OnItsWay(e)'
  BY <1>1 DEF OnItsWay
<1>9. UNCHANGED events
  BY <1>1 DEF pageVars
<1>10. Journey
  BY <1>1, <1>8, <1>9, NothingSaved DEF Journey, IdsIn
<1> QED  BY <1>1, <1>3, <1>5, <1>6, <1>7, <1>10 DEF ServerInv, Aside, pageVars

LEMMA LoseTravels ==
  ASSUME ServerInv, PageTyped, Lose
  PROVE  ServerInv' /\ PageTyped' /\ Journey /\ Aside
<1> DEFINE unread == SubSeq(sent[Browser], read + 1, Len(sent[Browser]))
           unsent == SubSeq(log, next[Browser], Len(log))
<1>1. /\ Browser \in open /\ open' = open \ {Browser}
      /\ next' = [next EXCEPT ![Browser] = 1]
      /\ sent' = [sent EXCEPT ![Browser] = <<>>]
      /\ lost' = lost \cup IdsIn(unread) \cup IdsIn(unsent)
      /\ UNCHANGED <<rows, lastId, saved, log, pageVars, requests, read, stale, overtaken, filters>>
  BY DEF Lose, Close, rowVars
<1>2. /\ log \in Seq(Event) /\ sent[Browser] \in Seq(Event) /\ Browser \in Streams
      /\ next[Browser] \in Nat \ {0} /\ read + 1 \in Nat \ {0} /\ lastId \in Nat
      /\ Given(log) /\ Given(sent[Browser])
  BY BrowserStreams, FeedAssumption
     DEF ServerInv, ServerTyped, PageTyped, IdsGiven
<1> HIDE DEF unread, unsent
<1>3. /\ IdsIn(unread) \subseteq 1..lastId /\ IdsIn(unsent) \subseteq 1..lastId
      /\ \A k \in next[Browser]..Len(log) : log[k].id # 0 => log[k].id \in IdsIn(unsent)
      /\ \A k \in read+1..Len(sent[Browser]) :
           sent[Browser][k].id # 0 => sent[Browser][k].id \in IdsIn(unread)
  <2>1. IdsIn(log) \subseteq 1..lastId /\ IdsIn(sent[Browser]) \subseteq 1..lastId
    BY <1>2, GivenIds
  <2>2. /\ IdsIn(unread) \subseteq IdsIn(sent[Browser])
        /\ \A k \in read+1..Len(sent[Browser]) :
             sent[Browser][k].id # 0 => sent[Browser][k].id \in IdsIn(unread)
    BY <1>2, IdsOfPart DEF unread
  <2>3. /\ IdsIn(unsent) \subseteq IdsIn(log)
        /\ \A k \in next[Browser]..Len(log) : log[k].id # 0 => log[k].id \in IdsIn(unsent)
    BY <1>2, IdsOfPart DEF unsent
  <2> QED  BY <2>1, <2>2, <2>3
<1>4. ServerTyped'
  BY <1>1, <1>2, NothingSaved DEF ServerInv, ServerTyped
<1>5. sent'[Browser] = <<>>
  BY <1>1, <1>2 DEF ServerInv, ServerTyped
<1>6. IdsGiven' /\ StreamPlaced'
  BY <1>1, <1>5, NothingSaved DEF ServerInv, IdsGiven, Given, StreamPlaced
<1>7. lost \subseteq lost' /\ lost' \subseteq 1..lastId'
  BY <1>1, <1>3 DEF PageTyped
<1>8. PageTyped'
  <2>1. read' \in Nat
    BY <1>1 DEF PageTyped
  <2> QED  BY <1>1, <1>4, <1>7, <2>1, NothingSaved, PageStaysTyped DEF ServerInv
<1>9. ASSUME NEW e \in rows, OnItsWay(e)
      PROVE  OnItsWay(e)' \/ e.id \in lost'
  <2>1. e.id # 0
    BY <1>1, NothingSaved
  <2>2. CASE e = saved
    BY <1>1, <2>2 DEF OnItsWay
  <2>3. CASE \E i \in next[Browser]..Len(log) : log[i] = e
    BY <1>1, <1>3, <2>1, <2>3
  <2>4. CASE \E i \in read+1..Len(sent[Browser]) : sent[Browser][i] = e
    BY <1>1, <1>3, <2>1, <2>4
  <2> QED  BY <1>9, <2>2, <2>3, <2>4 DEF OnItsWay
<1>10. UNCHANGED events
  BY <1>1 DEF pageVars
<1>11. Journey
  BY <1>1, <1>7, <1>9, <1>10, NothingSaved DEF Journey, IdsIn
<1> QED  BY <1>1, <1>4, <1>6, <1>8, <1>11 DEF ServerInv, Aside, pageVars

LEMMA ReceiveTravels ==
  ASSUME ServerInv, PageTyped, Receive
  PROVE  ServerInv' /\ PageTyped' /\ Journey /\ Aside
<1> DEFINE event == sent[Browser][read + 1]
           known == \E i \in DOMAIN events : events[i].id = event.id
<1>1. /\ Browser \in open /\ Unread > 0 /\ read' = read + 1
      /\ events' = IF known THEN events ELSE <<event>> \o events
      /\ UNCHANGED <<rows, lastId, saved, log, open, next, sent>>
      /\ UNCHANGED <<eventFilter, hasMore, loadingMore, oldest, requests, lost, filters,
                     stale, overtaken>>
  BY DEF Receive, logVars, rowVars, sentVars, countVars
<1>2. /\ sent[Browser] \in Seq(Event) /\ read + 1 \in 1..Len(sent[Browser])
      /\ events \in Seq(Event) /\ read' \in Nat /\ Len(events) \in Nat
  BY <1>1, BrowserStreams DEF ServerInv, PageTyped, Unread
<1>3. event \in Event /\ event.id <= lastId
  BY <1>2 DEF ServerInv, IdsGiven, Given
<1> HIDE DEF event
<1>4. /\ events' \in Seq(Event)
      /\ \A k \in DOMAIN events' : events'[k] = event \/ \E j \in DOMAIN events : events'[k] = events[j]
      /\ \A j \in DOMAIN events : \E k \in DOMAIN events' : events'[k] = events[j]
      /\ known \/ \E k \in DOMAIN events' : events'[k] = event
  <2>1. CASE known
    BY <1>1, <1>2, <2>1
  <2>2. CASE ~known
    <3>1. events' = <<event>> \o events
      BY <1>1, <2>2
    <3>2. /\ events' \in Seq(Event) /\ Len(events') = Len(events) + 1
          /\ events'[1] = event
          /\ \A k \in 2..(Len(events) + 1) : events'[k] = events[k - 1]
      BY <1>2, <1>3, <3>1
    <3>3. \A k \in DOMAIN events' : k = 1 \/ (k \in 2..(Len(events) + 1) /\ k - 1 \in DOMAIN events)
      BY <1>2, <3>2
    <3>4. \A j \in DOMAIN events :
            j + 1 \in DOMAIN events' /\ j + 1 \in 2..(Len(events) + 1) /\ (j + 1) - 1 = j
      BY <1>2, <3>2
    <3>5. 1 \in DOMAIN events'
      BY <1>2, <3>2
    <3>6. \A j \in DOMAIN events : events'[j + 1] = events[j]
      BY <3>2, <3>4
    <3> HIDE DEF known
    <3> QED  BY <3>2, <3>3, <3>4, <3>5, <3>6
  <2> QED  BY <2>1, <2>2
<1>5. ServerTyped' /\ IdsGiven'
  BY <1>1, NothingSaved DEF ServerInv, ServerTyped, IdsGiven, Given
<1>6. StreamPlaced'
  BY <1>1, <1>2 DEF ServerInv, StreamPlaced
<1>7. PageTyped'
  <2>1. Given(events)'
    BY <1>1, <1>3, <1>4 DEF PageTyped, Given
  <2> QED  BY <1>1, <1>2, <1>4, <2>1 DEF PageTyped
<1>8. IdsIn(events) \subseteq IdsIn(events)'
  BY <1>4 DEF IdsIn
<1>9. ASSUME NEW e \in rows, OnItsWay(e)
      PROVE  OnItsWay(e)' \/ e.id \in IdsIn(events)'
  <2>1. e.id # 0
    BY <1>1, NothingSaved
  <2>2. CASE e = saved \/ \E i \in next[Browser]..Len(log) : log[i] = e
    BY <1>1, <2>2 DEF OnItsWay
  <2>3. ASSUME NEW i \in read+1..Len(sent[Browser]), sent[Browser][i] = e
        PROVE  OnItsWay(e)' \/ e.id \in IdsIn(events)'
    <3>1. CASE i = read + 1
      <4>1. e = event
        BY <2>3, <3>1 DEF event
      <4>2. \E k \in DOMAIN events' : events'[k].id = e.id
        BY <1>1, <1>4, <4>1
      <4> QED  BY <2>1, <4>2 DEF IdsIn
    <3>2. CASE i # read + 1
      <4>1. i \in read'+1..Len(sent[Browser])
        BY <1>1, <1>2, <2>3, <3>2
      <4> QED  BY <1>1, <2>3, <4>1 DEF OnItsWay
    <3> QED  BY <3>1, <3>2
  <2> QED  BY <1>9, <2>2, <2>3 DEF OnItsWay
<1>10. Journey
  BY <1>1, <1>8, <1>9, NothingSaved DEF Journey
<1> QED  BY <1>1, <1>5, <1>6, <1>7, <1>10 DEF ServerInv, Aside

-----------------------------------------------------------------------------
(* Requests: one more, one fewer, one answered.                            *)
LEMMA RequestTyped ==
  ASSUME RequestsSound, NEW i \in DOMAIN requests
  PROVE  /\ requests[i] \in Request /\ Sound(requests[i])
         /\ requests[i].before \in Nat /\ requests[i].era \in Nat
         /\ requests[i].page \in Seq(Event) /\ requests[i].filter \in Filters
         /\ requests[i].kind \in {"first", "more"}
<1>1. requests[i] \in Request /\ Sound(requests[i])
  BY DEF RequestsSound
<1> QED  BY <1>1 DEF Request

LEMMA AsideSound ==
  ASSUME TypedInv, ServerTyped', Journey, Aside
  PROVE  RequestsSound'
<1>1. UNCHANGED <<requests, filters, eventFilter, loadingMore>>
  BY DEF Aside
<1>2. ASSUME NEW i \in DOMAIN requests
      PROVE  Sound(requests[i])'
  <2>1. Sound(requests[i]) /\ requests[i].before \in Nat
    BY RequestTyped DEF TypedInv
  <2>2. lastId \in Nat /\ lastId' \in Nat /\ lastId <= lastId' /\ rows \subseteq rows'
    BY DEF TypedInv, ServerInv, ServerTyped, Journey
  <2> QED  BY <1>1, <2>1, <2>2 DEF Sound, Matches
<1> QED  BY <1>1, <1>2 DEF TypedInv, RequestsSound

LEMMA Asking ==
  ASSUME RequestsSound, NEW r \in Request, Sound(r)', requests' = Append(requests, r),
         \A s : (\E i \in DOMAIN requests : s = requests[i]) =>
                Sound(s)' /\ ~Alike(s, r) /\ ~Alike(r, s)
  PROVE  /\ RequestsSound'
         /\ \A j \in DOMAIN requests' :
              requests'[j] = r \/ \E k \in DOMAIN requests : requests'[j] = requests[k]
<1>1. requests \in Seq(Request) /\ Len(requests) \in Nat /\ DOMAIN requests = 1..Len(requests)
  BY DEF RequestsSound
<1>2. /\ requests' \in Seq(Request) /\ DOMAIN requests' = 1..(Len(requests) + 1)
      /\ requests'[Len(requests) + 1] = r
      /\ \A j \in DOMAIN requests : requests'[j] = requests[j]
  BY <1>1
<1>3. \A j \in DOMAIN requests' : j = Len(requests) + 1 \/ j \in DOMAIN requests
  BY <1>1, <1>2
<1>4. \A j \in DOMAIN requests' : Sound(requests[j])'
  <2> SUFFICES ASSUME NEW j \in DOMAIN requests' PROVE Sound(requests[j])'
    OBVIOUS
  <2>1. PICK s : s = requests'[j] /\ Sound(s)'
    BY <1>2, <1>3
  <2> QED  BY <2>1
<1>5. \A i, j \in DOMAIN requests' : Alike(requests'[i], requests'[j]) => i = j
  BY <1>2, <1>3 DEF RequestsSound
<1>6. RequestsSound'
  BY <1>2, <1>4, <1>5 DEF RequestsSound, Alike
<1> QED  BY <1>2, <1>3, <1>6

LEMMA Removed ==
  ASSUME NEW S, NEW s \in Seq(S), NEW i \in DOMAIN s
  PROVE  /\ RemoveAt(s, i) \in Seq(S)
         /\ \A j \in DOMAIN RemoveAt(s, i) :
              LET k == IF j < i THEN j ELSE j + 1
              IN  j \in Nat /\ k \in DOMAIN s /\ k # i /\ RemoveAt(s, i)[j] = s[k]
<1> DEFINE l == SubSeq(s, 1, i - 1)
           r == SubSeq(s, i + 1, Len(s))
<1>1. Len(s) \in Nat /\ DOMAIN s = 1..Len(s) /\ i \in 1..Len(s)
  OBVIOUS
<1>2. /\ l \in Seq(S) /\ Len(l) = i - 1
      /\ \A j \in 1..(i - 1) : l[j] = s[j]
  BY <1>1, SubSeqProperties
<1>3. /\ r \in Seq(S) /\ Len(r) = Len(s) - i
      /\ \A j \in 1..(Len(s) - i) : r[j] = s[i + j]
  BY <1>1, SubSeqProperties
<1> HIDE DEF l, r
<1>4. /\ l \o r \in Seq(S) /\ Len(l \o r) = Len(l) + Len(r)
      /\ \A j \in 1..(Len(l) + Len(r)) :
           (l \o r)[j] = IF j <= Len(l) THEN l[j] ELSE r[j - Len(l)]
  BY <1>2, <1>3, ConcatProperties
<1>5. DOMAIN (l \o r) = 1..(Len(s) - 1)
  <2>1. DOMAIN (l \o r) = 1..Len(l \o r)
    BY <1>4, LenProperties
  <2> QED  BY <1>1, <1>2, <1>3, <1>4, <2>1
<1>6. ASSUME NEW j \in 1..(Len(s) - 1)
      PROVE  LET k == IF j < i THEN j ELSE j + 1
             IN  j \in Nat /\ k \in DOMAIN s /\ k # i /\ (l \o r)[j] = s[k]
  <2>1. j \in 1..(Len(l) + Len(r))
    BY <1>1, <1>2, <1>3
  <2>2. CASE j < i
    BY <1>1, <1>2, <1>4, <2>1, <2>2
  <2>3. CASE ~(j < i)
    <3>1. (l \o r)[j] = r[j - (i - 1)]
      BY <1>1, <1>2, <1>4, <2>1, <2>3
    <3>2. j - (i - 1) \in 1..(Len(s) - i) /\ i + (j - (i - 1)) = j + 1
      BY <1>1, <2>3
    <3>3. r[j - (i - 1)] = s[j + 1]
      BY <1>3, <3>2
    <3> QED  BY <1>1, <2>3, <3>1, <3>3
  <2> QED  BY <2>2, <2>3
<1> QED  BY <1>4, <1>5, <1>6 DEF RemoveAt, l, r

LEMMA Removing ==
  ASSUME RequestsSound, NEW i \in DOMAIN requests, requests' = RemoveAt(requests, i),
         \A r : (\E k \in DOMAIN requests : k # i /\ r = requests[k]) => Sound(r)'
  PROVE  /\ RequestsSound'
         /\ \A j \in DOMAIN requests' :
              \E k \in DOMAIN requests : k # i /\ requests'[j] = requests[k]
<1> DEFINE K(j) == IF j < i THEN j ELSE j + 1
<1>1. /\ requests' \in Seq(Request)
      /\ \A j \in DOMAIN requests' :
           j \in Nat /\ K(j) \in DOMAIN requests /\ K(j) # i /\ requests'[j] = requests[K(j)]
  BY Removed DEF RequestsSound
<1>2. i \in Nat
  BY DEF RequestsSound
<1>3. \A j, k \in DOMAIN requests' : K(j) = K(k) => j = k
  BY <1>1, <1>2
<1> HIDE DEF K
<1>4. \A j \in DOMAIN requests' : Sound(requests[j])'
  <2> SUFFICES ASSUME NEW j \in DOMAIN requests' PROVE Sound(requests[j])'
    OBVIOUS
  <2>1. PICK r : r = requests'[j] /\ Sound(r)'
    BY <1>1
  <2> QED  BY <2>1
<1>5. \A j, k \in DOMAIN requests' : Alike(requests'[j], requests'[k]) => j = k
  BY <1>1, <1>3 DEF RequestsSound
<1>6. RequestsSound'
  BY <1>1, <1>4, <1>5 DEF RequestsSound, Alike
<1> QED  BY <1>1, <1>6

LEMMA Answering ==
  ASSUME RequestsSound, NEW i \in DOMAIN requests,
         UNCHANGED <<rows, lastId, filters, eventFilter, loadingMore>>,
         NEW page \in Seq(Wanted(requests[i].before, requests[i].filter)), Falls(page),
         Wanted(requests[i].before, requests[i].filter) \subseteq Event,
         requests' = [requests EXCEPT ![i].at = "read", ![i].page = page]
  PROVE  /\ RequestsSound'
         /\ \A j \in DOMAIN requests' : j \in DOMAIN requests /\ (j # i => requests'[j] = requests[j])
         /\ requests'[i] = [requests[i] EXCEPT !.at = "read", !.page = page]
<1>1. PICK r : r = requests[i]
  OBVIOUS
<1>2. PICK S : S = Wanted(r.before, r.filter)
  OBVIOUS
<1>3. PICK q : q = [r EXCEPT !.at = "read", !.page = page]
  OBVIOUS
<1>4. r \in Request /\ Sound(r) /\ requests \in Seq(Request)
  BY <1>1, RequestTyped DEF RequestsSound
<1>5. \A e \in S : e \in rows /\ Matches(e, r.filter) /\ (r.before > 0 => e.id < r.before)
  BY <1>2 DEF Wanted
<1>6. page \in Seq(S) /\ S \subseteq Event
  BY <1>1, <1>2
<1>7. page \in Seq(Event) /\ \A k \in DOMAIN page : page[k] \in S
  BY <1>6, SeqMonotonic
<1>8. /\ q \in Request /\ q.kind = r.kind /\ q.before = r.before /\ q.filter = r.filter
      /\ q.era = r.era /\ q.page = page /\ q.at = "read"
  BY <1>3, <1>4, <1>7 DEF Request
<1>9. Sound(q)'
  BY <1>4, <1>5, <1>7, <1>8 DEF Sound, Matches
<1>10. /\ requests' = [requests EXCEPT ![i] = q]
       /\ DOMAIN requests' = DOMAIN requests /\ requests'[i] = q
       /\ \A j \in DOMAIN requests : j # i => requests'[j] = requests[j]
  BY <1>1, <1>3
<1>11. requests' \in Seq(Request)
  <2>1. i \in 1..Len(requests) /\ requests \in Seq(Request) /\ q \in Request
    BY <1>4, <1>8
  <2>2. [requests EXCEPT ![i] = q] \in Seq(Request)
    BY <2>1, ExceptSeq
  <2> QED  BY <1>10, <2>2
<1>12. ASSUME NEW j \in DOMAIN requests
       PROVE  Sound(requests[j])'
  <2>1. CASE j = i
    BY <1>9, <1>10, <2>1
  <2>2. CASE j # i
    <3>1. PICK s : s = requests[j] /\ s = requests'[j] /\ Sound(s)
      BY <1>10, <2>2 DEF RequestsSound
    <3>2. Sound(s)'
      BY <3>1 DEF Sound, Matches
    <3> QED  BY <3>1, <3>2
  <2> QED  BY <2>1, <2>2
<1>13. \A j, k \in DOMAIN requests : Alike(requests'[j], requests'[k]) => j = k
  <2>1. \A j \in DOMAIN requests :
          requests'[j].kind = requests[j].kind /\ requests'[j].era = requests[j].era
    BY <1>1, <1>8, <1>10
  <2> QED  BY <2>1 DEF RequestsSound, Alike
<1>14. RequestsSound'
  BY <1>10, <1>11, <1>12, <1>13 DEF RequestsSound, Alike
<1> QED  BY <1>1, <1>3, <1>10, <1>14

LEMMA ServerStays ==
  ASSUME ServerInv, UNCHANGED <<logVars, read>>
  PROVE  ServerInv' /\ UNCHANGED <<rows, lastId, saved, log, open, next, sent>>
<1>1. UNCHANGED <<rows, lastId, saved, log, open, next, sent, read>>
  BY DEF logVars, rowVars, sentVars
<1>2. ServerTyped'
  BY <1>1 DEF ServerInv, ServerTyped, RowsDistinct, Distinct
<1>3. IdsGiven' /\ StreamPlaced'
  BY <1>1 DEF ServerInv, IdsGiven, Given, StreamPlaced
<1> QED  BY <1>1, <1>2, <1>3 DEF ServerInv

(* What asking for a page leaves: the old requests and the new one.        *)
OneMore(r) ==
  \A j \in DOMAIN requests' :
    requests'[j] = r \/ \E k \in DOMAIN requests : requests'[j] = requests[k]

OneFewer(i) ==
  \A j \in DOMAIN requests' :
    \E k \in DOMAIN requests : k # i /\ requests'[j] = requests[k]

LEMMA SetFilterTyped ==
  ASSUME TypedInv, NEW filter \in Filters, SetFilter(filter),
         NEW r, r = [kind |-> "first", before |-> 0, filter |-> filter, era |-> filters + 1,
                     page |-> <<>>, at |-> "asked"]
  PROVE  TypedInv' /\ OneMore(r)
<1>1. /\ eventFilter' = filter /\ filters' = filters + 1 /\ events' = <<>>
      /\ hasMore' = TRUE /\ oldest' = 0 /\ lost' = {} /\ stale' = FALSE
      /\ overtaken' = {}
      /\ requests' = Append(requests, r)
      /\ UNCHANGED <<logVars, loadingMore, read>>
  BY DEF SetFilter, AskFor
<1>2. ServerInv' /\ UNCHANGED <<rows, lastId>>
  BY <1>1, ServerStays DEF TypedInv
<1>3. filters \in Nat /\ lastId \in Nat
  BY DEF TypedInv, PageTyped, ServerInv, ServerTyped
<1>4. PageTyped'
  <2>1. hasMore' \in BOOLEAN /\ loadingMore' \in BOOLEAN /\ stale' \in BOOLEAN
    BY <1>1, Zenon DEF TypedInv, PageTyped
  <2>2. events' \in Seq(Event) /\ Given(events)'
    BY <1>1 DEF Given
  <2> QED  BY <1>1, <1>2, <1>3, <2>1, <2>2 DEF TypedInv, PageTyped
<1>5. r \in Request
  BY <1>3 DEF Request
<1>6. Sound(r)'
  BY <1>1, <1>2, <1>3 DEF Sound, Falls, Matches
<1>7. ASSUME NEW s, NEW i \in DOMAIN requests, s = requests[i]
      PROVE  Sound(s)' /\ ~Alike(s, r) /\ ~Alike(r, s)
  <2>1. Sound(s) /\ s.era \in Nat
    BY <1>7, RequestTyped DEF TypedInv
  <2>2. s.era <= filters /\ s.era # filters'
    BY <1>1, <1>3, <2>1 DEF Sound, Matches
  <2>3. Sound(s)'
    BY <1>1, <1>2, <1>3, <2>1, <2>2 DEF Sound, Matches
  <2> QED  BY <1>1, <2>2, <2>3 DEF Alike
<1>8. RequestsSound' /\ OneMore(r)
  <2>1. \A s : (\E i \in DOMAIN requests : s = requests[i]) =>
               Sound(s)' /\ ~Alike(s, r) /\ ~Alike(r, s)
    BY <1>7
  <2> QED  BY <1>1, <1>5, <1>6, <2>1, Asking DEF TypedInv, OneMore
<1> QED  BY <1>2, <1>4, <1>8 DEF TypedInv

LEMMA LoadMoreTyped ==
  ASSUME TypedInv, LoadMore,
         NEW r, r = [kind |-> "more", before |-> oldest, filter |-> eventFilter,
                     era |-> filters, page |-> <<>>, at |-> "asked"]
  PROVE  TypedInv' /\ OneMore(r)
<1>1. /\ ~loadingMore /\ hasMore /\ oldest # 0 /\ loadingMore' = TRUE
      /\ requests' = Append(requests, r)
      /\ UNCHANGED <<logVars, events, eventFilter, hasMore, oldest, read, lost, stale, overtaken,
                     filters>>
  BY DEF LoadMore, AskFor
<1>2. ServerInv' /\ UNCHANGED <<rows, lastId>>
  BY <1>1, ServerStays DEF TypedInv
<1>3. /\ filters \in Nat /\ lastId \in Nat /\ oldest \in 1..lastId
      /\ eventFilter \in Filters
  BY <1>1 DEF TypedInv, PageTyped, ServerInv, ServerTyped
<1>4. PageTyped'
  <2>1. hasMore' \in BOOLEAN /\ loadingMore' \in BOOLEAN /\ stale' \in BOOLEAN
    BY <1>1, Zenon DEF TypedInv, PageTyped
  <2>2. events' \in Seq(Event) /\ Given(events)'
    BY <1>1, <1>2 DEF TypedInv, PageTyped, Given
  <2> QED  BY <1>1, <1>2, <1>3, <2>1, <2>2 DEF TypedInv, PageTyped
<1>5. r \in Request
  BY <1>3 DEF Request
<1>6. Sound(r)'
  BY <1>1, <1>2, <1>3 DEF Sound, Falls, Matches
<1>7. ASSUME NEW s, NEW i \in DOMAIN requests, s = requests[i]
      PROVE  Sound(s)' /\ ~Alike(s, r) /\ ~Alike(r, s)
  <2>1. Sound(s)
    BY <1>7, RequestTyped DEF TypedInv
  <2>2. s.kind # "more"
    BY <1>1, <2>1 DEF Sound, Matches
  <2>3. Sound(s)'
    BY <1>1, <1>2, <2>1 DEF Sound, Matches
  <2> QED  BY <2>2, <2>3 DEF Alike
<1>8. RequestsSound' /\ OneMore(r)
  <2>1. \A s : (\E i \in DOMAIN requests : s = requests[i]) =>
               Sound(s)' /\ ~Alike(s, r) /\ ~Alike(r, s)
    BY <1>7
  <2> QED  BY <1>1, <1>5, <1>6, <2>1, Asking DEF TypedInv, OneMore
<1> QED  BY <1>2, <1>4, <1>8 DEF TypedInv

(* What was read of a page, whole or in part, is what the rows gave.       *)
Got(i, page) ==
  /\ i \in DOMAIN requests /\ Answer(i, page)
  /\ page \in Seq(Wanted(requests[i].before, requests[i].filter)) /\ Falls(page)
  /\ lost' \subseteq 1..lastId /\ overtaken' \subseteq 1..lastId

LEMMA AnswerTyped ==
  ASSUME TypedInv, NEW i, NEW page, Got(i, page)
  PROVE  /\ TypedInv'
         /\ \A j \in DOMAIN requests' : j \in DOMAIN requests /\ (j # i => requests'[j] = requests[j])
         /\ requests'[i] = [requests[i] EXCEPT !.at = "read", !.page = page]
<1>1. /\ requests' = [requests EXCEPT ![i].at = "read", ![i].page = page]
      /\ UNCHANGED <<logVars, pageVars, read, stale, filters>>
  BY DEF Got, Answer
<1>2. ServerInv' /\ UNCHANGED <<rows, lastId>>
  BY <1>1, ServerStays DEF TypedInv
<1>3. PageTyped'
  <2>1. lost' \subseteq 1..lastId' /\ overtaken' \subseteq 1..lastId'
    BY <1>2 DEF Got
  <2> QED  BY <1>1, <1>2, <2>1 DEF TypedInv, PageTyped, Given, pageVars
<1>4. /\ Wanted(requests[i].before, requests[i].filter) \subseteq Event
      /\ UNCHANGED <<rows, lastId, filters, eventFilter, loadingMore>>
  BY <1>1, <1>2 DEF TypedInv, ServerInv, ServerTyped, Wanted, pageVars
<1> QED  BY <1>1, <1>2, <1>3, <1>4, Answering DEF Got, TypedInv

(* A page holds what it was asked for, but for what is below a full page   *)
(* and what was cut, which counts as lost; all that is below where it ends.*)
Answered(i, page) ==
  /\ Got(i, page) /\ Missed(i) \subseteq lost'
  /\ \A e \in Wanted(requests[i].before, requests[i].filter) :
       \/ \E k \in DOMAIN page : page[k] = e
       \/ page = <<>> \/ e.id < Last(page).id
  /\ \A e \in Wanted(requests[i].before, requests[i].filter) :
       \/ \E k \in DOMAIN page : page[k] = e
       \/ e.id \in lost'
       \/ Full(page) /\ e.id < Last(page).id

LEMMA Reads ==
  ASSUME TypedInv, NEW i \in DOMAIN requests, ReadPage(i) \/ ReadPart(i)
  PROVE  \E page : Answered(i, page)
<1>1. RowsDistinct /\ requests[i].before \in Nat /\ Missed(i) \subseteq 1..lastId
  BY RequestTyped DEF TypedInv, ServerInv, ServerTyped, Missed, PageTyped
<1>0. \A e \in rows : e.id \in 1..lastId
  <2>1. \A e \in rows : e.id \in Nat \ {0} /\ e.id <= lastId /\ lastId \in Nat
    BY DEF TypedInv, ServerInv, ServerTyped, IdsGiven, RowsDistinct
  <2> QED  BY <2>1
<1>4. ASSUME NEW page, Answer(i, page)
      PROVE  overtaken' \subseteq 1..lastId
  <2>1. Overtaken(page) \subseteq 1..lastId
    BY <1>0 DEF Overtaken, Wanted
  <2> QED  BY <1>4, <2>1 DEF Answer, TypedInv, PageTyped
<1>2. CASE ReadPage(i)
  <2>1. Answer(i, Found(i)) /\ lost' = Missed(i)
    BY <1>2 DEF ReadPage
  <2>2. Found(i) = GetEvents(requests[i].before, requests[i].filter)
    BY DEF Found
  <2>3. Answered(i, Found(i))
    BY <1>1, <1>4, <2>1, <2>2, Paged DEF Answered, Got
  <2> QED  BY <2>3
<1>3. CASE ReadPart(i)
  <2>1. PICK page : page = GetEvents(requests[i].before, requests[i].filter)
    OBVIOUS
  <2> DEFINE Before(last) == {e \in rows : last > 0 => e.id < last}
  <2>0. PICK count \in 0..(Len(page) - 1) :
          /\ Answer(i, SubSeq(page, 1, count))
          /\ lost' = Missed(i) \cup {e.id : e \in Before(CutAt(page, count, requests[i].before))}
    BY <1>3, <2>1 DEF ReadPart, Found, CutAt
  <2>2. PICK last : /\ last = CutAt(page, count, requests[i].before)
                    /\ Answer(i, SubSeq(page, 1, count))
                    /\ lost' = Missed(i) \cup {e.id : e \in Before(last)}
    BY <2>0
  <2>3. PICK part : part = SubSeq(page, 1, count)
    OBVIOUS
  <2>4. /\ part \in Seq(Wanted(requests[i].before, requests[i].filter)) /\ Falls(part)
        /\ last \in Nat /\ (part # <<>> => last = Last(part).id /\ last > 0)
        /\ \A e \in Wanted(requests[i].before, requests[i].filter) :
             (\E k \in DOMAIN part : part[k] = e) \/ (last > 0 => e.id < last)
    <3>1. last = CutAt(page, count, requests[i].before)
      BY <2>2
    <3>2. AsFarAs(part, last, Wanted(requests[i].before, requests[i].filter))
      BY <1>1, <2>1, <2>3, <3>1, PagedInPart, Zenon
    <3> QED  BY <3>2 DEF AsFarAs
  <2>6. Wanted(requests[i].before, requests[i].filter) \subseteq rows
    BY DEF Wanted
  <2>7. lost' \subseteq 1..lastId
    BY <1>0, <1>1, <2>2
  <2>8. Answered(i, part)
    BY <1>4, <2>2, <2>3, <2>4, <2>6, <2>7 DEF Answered, Got
  <2> QED  BY <2>8
<1> QED  BY <1>2, <1>3

(* A request that is over, whose page the feed may take.                   *)
LEMMA PageFits ==
  ASSUME TypedInv, NEW i \in DOMAIN requests
  PROVE  /\ requests[i].page \in Seq(Event) /\ Falls(requests[i].page)
         /\ \A k \in DOMAIN requests[i].page :
              requests[i].page[k] \in rows /\ requests[i].page[k].id \in 1..lastId
         /\ requests[i].page # <<>> =>
              /\ Len(requests[i].page) \in DOMAIN requests[i].page
              /\ Last(requests[i].page) = requests[i].page[Len(requests[i].page)]
              /\ Last(requests[i].page).id \in 1..lastId
<1>1. PICK page : page = requests[i].page
  OBVIOUS
<1>2. page \in Seq(Event) /\ Falls(page) /\ \A k \in DOMAIN page : page[k] \in rows
  BY <1>1, RequestTyped DEF TypedInv, Sound
<1>3. \A e \in rows : e.id \in 1..lastId
  <2>1. \A e \in rows : e.id \in Nat \ {0} /\ e.id <= lastId /\ lastId \in Nat
    BY DEF TypedInv, ServerInv, ServerTyped, IdsGiven, RowsDistinct
  <2> QED  BY <2>1
<1>4. page # <<>> => Len(page) \in DOMAIN page /\ Last(page) = page[Len(page)]
  BY <1>2 DEF Last
<1> QED  BY <1>1, <1>2, <1>3, <1>4

LEMMA ArriveFirstTyped ==
  ASSUME TypedInv, NEW i \in DOMAIN requests, ArriveFirst(i)
  PROVE  TypedInv' /\ OneFewer(i)
<1>1. PICK page : page = requests[i].page
  OBVIOUS
<1>2. /\ events' = page /\ oldest' = IF page = <<>> THEN 0 ELSE Last(page).id
      /\ lost' = lost \cup {id \in IdsIn(events) : page = <<>> \/ id > page[1].id}
      /\ requests' = RemoveAt(requests, i)
      /\ hasMore' = (hasMore /\ Len(page) >= PageSize) /\ stale' = (stale \/ Stale(i))
      /\ UNCHANGED <<logVars, eventFilter, loadingMore, read, overtaken, filters>>
  BY <1>1 DEF ArriveFirst, countVars
<1>3. ServerInv' /\ UNCHANGED <<rows, lastId>>
  BY <1>2, ServerStays DEF TypedInv
<1>4. PageTyped'
  <2>1. hasMore' \in BOOLEAN /\ loadingMore' \in BOOLEAN /\ stale' \in BOOLEAN
    BY <1>2, Zenon DEF TypedInv, PageTyped
  <2>2. events' \in Seq(Event) /\ Given(events)' /\ oldest' \in 0..lastId' /\ lastId \in Nat
    <3>1. /\ page \in Seq(Event) /\ \A k \in DOMAIN page : page[k].id \in 1..lastId
          /\ page # <<>> => Last(page).id \in 1..lastId
      BY <1>1, PageFits
    <3>2. lastId \in Nat
      BY DEF TypedInv, ServerInv, ServerTyped
    <3> QED  BY <1>2, <1>3, <3>1, <3>2 DEF Given
  <2>3. lost' \subseteq 1..lastId'
    <3>1. IdsIn(events) \subseteq 1..lastId /\ lost \subseteq 1..lastId
      BY <2>2, GivenIds DEF TypedInv, PageTyped
    <3> QED  BY <1>2, <1>3, <3>1
  <2> QED  BY <1>2, <1>3, <2>1, <2>2, <2>3 DEF TypedInv, PageTyped
<1>5. ASSUME NEW r, NEW k \in DOMAIN requests, r = requests[k]
      PROVE  Sound(r)'
  <2>1. Sound(r)
    BY <1>5, RequestTyped DEF TypedInv
  <2> QED  BY <1>2, <1>3, <2>1 DEF Sound, Matches
<1>6. RequestsSound' /\ OneFewer(i)
  <2>1. \A r : (\E k \in DOMAIN requests : k # i /\ r = requests[k]) => Sound(r)'
    BY <1>5
  <2> QED  BY <1>2, <2>1, Removing DEF TypedInv, OneFewer
<1> QED  BY <1>3, <1>4, <1>6 DEF TypedInv

LEMMA ArriveMoreTyped ==
  ASSUME TypedInv, NEW i \in DOMAIN requests, ArriveMore(i)
  PROVE  TypedInv' /\ OneFewer(i)
<1>1. PICK page : page = requests[i].page
  OBVIOUS
<1>2. /\ requests[i].kind = "more"
      /\ events' = events \o page /\ oldest' = IF page = <<>> THEN oldest ELSE Last(page).id
      /\ requests' = RemoveAt(requests, i) /\ loadingMore' = FALSE
      /\ hasMore' = (hasMore /\ Len(page) >= PageSize) /\ stale' = (stale \/ Stale(i))
      /\ UNCHANGED <<logVars, eventFilter, read, lost, overtaken, filters>>
  BY <1>1 DEF ArriveMore, countVars
<1>3. ServerInv' /\ UNCHANGED <<rows, lastId>>
  BY <1>2, ServerStays DEF TypedInv
<1>4. PageTyped'
  <2>1. hasMore' \in BOOLEAN /\ loadingMore' \in BOOLEAN /\ stale' \in BOOLEAN
    BY <1>2, Zenon DEF TypedInv, PageTyped
  <2>2. /\ page \in Seq(Event) /\ \A k \in DOMAIN page : page[k].id \in 1..lastId
        /\ page # <<>> => Last(page).id \in 1..lastId
    BY <1>1, PageFits
  <2>3. lastId \in Nat /\ events \in Seq(Event) /\ Given(events) /\ oldest \in 0..lastId
    BY DEF TypedInv, ServerInv, ServerTyped, PageTyped
  <2>4. events' \in Seq(Event) /\ Given(events)'
    <3>1. /\ events \o page \in Seq(Event) /\ Len(events \o page) = Len(events) + Len(page)
          /\ \A j \in 1..(Len(events) + Len(page)) :
               (events \o page)[j] = IF j <= Len(events) THEN events[j] ELSE page[j - Len(events)]
      BY <2>2, <2>3, ConcatProperties
    <3>2. DOMAIN events' = 1..(Len(events) + Len(page)) /\ Len(events) \in Nat /\ Len(page) \in Nat
      BY <1>2, <2>2, <2>3, <3>1
    <3>3. ASSUME NEW j \in 1..(Len(events) + Len(page))
          PROVE  events'[j].id <= lastId
      <4>1. CASE j <= Len(events)
        BY <1>2, <2>3, <3>1, <3>2, <4>1 DEF Given
      <4>2. CASE ~(j <= Len(events))
        <5>1. j - Len(events) \in DOMAIN page /\ events'[j] = page[j - Len(events)]
          BY <1>2, <2>2, <3>1, <3>2, <4>2
        <5> QED  BY <2>2, <2>3, <5>1
      <4> QED  BY <4>1, <4>2
    <3> QED  BY <1>2, <1>3, <3>1, <3>2, <3>3 DEF Given
  <2>5. oldest' \in 0..lastId'
    BY <1>2, <1>3, <2>2, <2>3
  <2> QED  BY <1>2, <1>3, <2>1, <2>4, <2>5 DEF TypedInv, PageTyped
<1>5. ASSUME NEW r, NEW k \in DOMAIN requests, r = requests[k], k # i
      PROVE  Sound(r)'
  <2>1. Sound(r)
    BY <1>5, RequestTyped DEF TypedInv
  <2>2. r.kind # "more"
    BY <1>2, <1>5 DEF TypedInv, RequestsSound, Alike
  <2> QED  BY <1>2, <1>3, <2>1, <2>2 DEF Sound, Matches
<1>6. RequestsSound' /\ OneFewer(i)
  <2>1. \A r : (\E k \in DOMAIN requests : k # i /\ r = requests[k]) => Sound(r)'
    BY <1>5
  <2> QED  BY <1>2, <2>1, Removing DEF TypedInv, OneFewer
<1> QED  BY <1>3, <1>4, <1>6 DEF TypedInv

LEMMA NoPageTyped ==
  ASSUME TypedInv, NEW i \in DOMAIN requests, NoPage(i)
  PROVE  TypedInv' /\ OneFewer(i)
<1>1. /\ loadingMore' = (loadingMore /\ requests[i].kind = "first")
      /\ requests' = RemoveAt(requests, i)
      /\ UNCHANGED <<logVars, events, eventFilter, hasMore, oldest, read, lost, stale, overtaken,
                     filters>>
  BY DEF NoPage
<1>2. ServerInv' /\ UNCHANGED <<rows, lastId>>
  BY <1>1, ServerStays DEF TypedInv
<1>3. PageTyped'
  <2>1. hasMore' \in BOOLEAN /\ loadingMore' \in BOOLEAN /\ stale' \in BOOLEAN
    BY <1>1, Zenon DEF TypedInv, PageTyped
  <2> QED  BY <1>1, <1>2, <2>1 DEF TypedInv, PageTyped, Given
<1>4. ASSUME NEW r, NEW k \in DOMAIN requests, r = requests[k], k # i
      PROVE  Sound(r)'
  <2>1. Sound(r)
    BY <1>4, RequestTyped DEF TypedInv
  <2>2. requests[i].kind \in {"first", "more"}
    BY RequestTyped DEF TypedInv
  <2>3. r.kind = "more" => requests[i].kind = "first" /\ loadingMore
    BY <1>4, <2>1, <2>2 DEF TypedInv, RequestsSound, Alike, Sound
  <2>4. r.kind = "more" => loadingMore'
    BY <1>1, <2>3, Zenon
  <2> QED  BY <1>1, <1>2, <2>1, <2>4 DEF Sound, Matches
<1>5. RequestsSound' /\ OneFewer(i)
  <2>1. \A r : (\E k \in DOMAIN requests : k # i /\ r = requests[k]) => Sound(r)'
    BY <1>4
  <2> QED  BY <1>1, <2>1, Removing DEF TypedInv, OneFewer
<1> QED  BY <1>2, <1>3, <1>5 DEF TypedInv

LEMMA AsideTyped ==
  ASSUME TypedInv,
         \/ Receive \/ Connect \/ Lose \/ LogIt \/ Stream
         \/ \E n \in Numbers : Publish(n)
  PROVE  TypedInv' /\ Journey /\ Aside
<1>1. ServerInv' /\ PageTyped' /\ Journey /\ Aside
  BY ReceiveTravels, ConnectTravels, LoseTravels, LogTravels, StreamTravels, PublishTravels
     DEF TypedInv
<1> QED  BY <1>1, AsideSound DEF TypedInv, ServerInv

LEMMA TypesKept == TypedInv /\ [FeedNext]_feedVars => TypedInv'
<1> SUFFICES ASSUME TypedInv, [FeedNext]_feedVars PROVE TypedInv'
  OBVIOUS
<1>1. ASSUME NEW filter \in {"all", "allow", "block"}, SetFilter(filter)
      PROVE  TypedInv'
  BY <1>1, SetFilterTyped DEF Filters
<1>2. CASE LoadMore
  BY <1>2, LoadMoreTyped
<1>3. ASSUME NEW i \in DOMAIN requests, ReadPage(i) \/ ReadPart(i)
      PROVE  TypedInv'
  BY <1>3, Reads, AnswerTyped DEF Answered
<1>4. ASSUME NEW i \in DOMAIN requests, ArriveFirst(i) \/ ArriveMore(i) \/ NoPage(i)
      PROVE  TypedInv'
  BY <1>4, ArriveFirstTyped, ArriveMoreTyped, NoPageTyped
<1>5. CASE \/ Receive \/ Connect \/ Lose \/ LogIt \/ Stream
           \/ \E n \in Numbers : Publish(n)
  BY <1>5, AsideTyped
<1>6. CASE UNCHANGED feedVars
  <2>1. UNCHANGED <<logVars, events, eventFilter, hasMore, loadingMore, oldest, requests,
                    read, lost, stale, overtaken, filters>>
    BY <1>6 DEF feedVars, pageVars, countVars
  <2>2. ServerInv' /\ UNCHANGED <<rows, lastId>>
    BY <2>1, ServerStays DEF TypedInv
  <2>3. PageTyped' /\ RequestsSound'
    BY <2>1, <2>2 DEF TypedInv, PageTyped, Given, RequestsSound, Sound, Alike
  <2> QED  BY <2>2, <2>3 DEF TypedInv
<1> QED  BY <1>1, <1>2, <1>3, <1>4, <1>5, <1>6 DEF FeedNext

(* The feed's state has its types, its ids were given by the table, and    *)
(* the browser never has read more of the stream than was sent.            *)
THEOREM FeedTypes == FeedSpec => []FeedTypeOK
<1>1. TypedInv => FeedTypeOK
  <2> SUFFICES ASSUME TypedInv PROVE FeedTypeOK
    OBVIOUS
  <2>1. Unread \in Nat
    <3>1. read \in Nat /\ Len(sent[Browser]) \in Nat
      BY BrowserStreams DEF TypedInv, PageTyped, ServerInv
    <3> QED  BY <3>1 DEF TypedInv, ServerInv, StreamPlaced, Unread
  <2> QED  BY <2>1 DEF TypedInv, PageTyped, FeedTypeOK, Filters
<1> QED  BY <1>1, FirstTypes, TypesKept, PTL DEF FeedSpec

-----------------------------------------------------------------------------
(* What is in the feed while nothing is stale.  A request that is current  *)
(* says what its page will make of the feed: a first page, together with   *)
(* what the stream brings and what is lost, has every event down to where  *)
(* it ends; a page below has every event below the feed down to there.     *)
Covered(r, e) ==
  e.id \in lost \cup IdsIn(r.page) \/ (Full(r.page) /\ e.id < Last(r.page).id)

FirstCovers(r) ==
  \A e \in rows : Matches(e, eventFilter) =>
    \/ Covered(r, e)
    \/ /\ r.page = <<>> \/ e.id > r.page[1].id
       /\ OnItsWay(e) \/ e.id \in IdsIn(events)

MoreCovers(r) ==
  \A e \in rows : Matches(e, eventFilter) /\ e.id < r.before => Covered(r, e)

Holds(r) ==
  r.era = filters =>
    /\ hasMore
    /\ r.kind = "first" => oldest = 0 /\ (r.at = "read" => FirstCovers(r))
    /\ r.kind = "more" => r.before = oldest /\ (r.at = "read" => MoreCovers(r))

RequestsHold == \A i \in DOMAIN requests : Holds(requests[i])

Complete ==
  Loaded =>
    \A e \in rows :
      Matches(e, eventFilter) =>
        \/ e.id \in IdsIn(events) \cup lost
        \/ OnItsWay(e)
        \/ hasMore /\ e.id < oldest

Shown == RequestsHold /\ Complete

ShownInv == ~stale => Shown

LEMMA FirstShown == FeedInit => ShownInv
<1> SUFFICES ASSUME FeedInit PROVE Shown
  BY DEF ShownInv
<1>1. /\ events = <<>> /\ oldest = 0 /\ rows = {}
      /\ requests = <<[kind |-> "first", before |-> 0, filter |-> "all",
                       era |-> 0, page |-> <<>>, at |-> "asked"]>>
  BY DEF FeedInit, Init
<1>2. hasMore
  BY Zenon DEF FeedInit
<1> QED  BY <1>1, <1>2 DEF Shown, RequestsHold, Holds, Complete

(* One step on its journey, an event is still accounted for.               *)
LEMMA AsideShown ==
  ASSUME TypedInv, TypedInv', Journey, Aside, Shown
  PROVE  Shown'
<1>1. UNCHANGED <<eventFilter, hasMore, loadingMore, oldest, requests, filters>>
  BY DEF Aside
<1>2. \A e : Matches(e, eventFilter) <=> Matches(e, eventFilter')
  BY <1>1
<1>3. \A e \in rows' :
        e \notin rows => (OnItsWay(e)' \/ e.id \in lost') /\ e.id > lastId
  BY DEF Journey, OnItsWay
<1>4. \A e \in rows :
        OnItsWay(e) \/ e.id \in IdsIn(events) \/ e.id \in lost =>
          OnItsWay(e)' \/ e.id \in IdsIn(events)' \/ e.id \in lost'
  BY DEF Journey
<1>5. /\ lost \subseteq lost' /\ IdsIn(events) \subseteq IdsIn(events)'
      /\ lastId \in Nat /\ oldest \in 0..lastId
      /\ \A e \in rows' : e.id \in Nat
  BY DEF Journey, TypedInv, ServerInv, ServerTyped, PageTyped, RowsDistinct
<1>6. Complete'
  <2> SUFFICES ASSUME Loaded', NEW e \in rows', Matches(e, eventFilter')
               PROVE  \/ e.id \in IdsIn(events)' \cup lost'
                      \/ OnItsWay(e)'
                      \/ hasMore' /\ e.id < oldest'
    BY DEF Complete, Matches
  <2>1. Loaded
    BY <1>1 DEF Loaded
  <2>2. CASE e \in rows
    <3>1. \/ e.id \in IdsIn(events) \cup lost
          \/ OnItsWay(e)
          \/ hasMore /\ e.id < oldest
      BY <1>2, <2>1, <2>2 DEF Shown, Complete
    <3> QED  BY <1>1, <1>4, <2>2, <3>1
  <2> QED  BY <1>3, <2>2
<1>7. ASSUME NEW r, NEW i \in DOMAIN requests, r = requests[i]
      PROVE  Holds(r)'
  <2>1. /\ Holds(r) /\ r.before <= lastId /\ r.before \in Nat
        /\ r.page # <<>> => r.page[1].id <= lastId /\ r.page[1].id \in Nat
    <3>1. Holds(r) /\ r.before <= lastId /\ r.before \in Nat
      BY <1>7, RequestTyped DEF Shown, RequestsHold, TypedInv, Sound
    <3>2. r.page \in Seq(Event) /\ \A k \in DOMAIN r.page : r.page[k].id \in 1..lastId
      BY <1>7, PageFits
    <3>3. r.page # <<>> => 1 \in DOMAIN r.page
      BY <3>2
    <3> QED  BY <1>5, <3>1, <3>2, <3>3
  <2>2. \A e \in rows : Covered(r, e) => Covered(r, e)'
    BY <1>5 DEF Covered
  <2>3. FirstCovers(r) => FirstCovers(r)'
    <3> SUFFICES ASSUME FirstCovers(r), NEW e \in rows', Matches(e, eventFilter')
                 PROVE  \/ Covered(r, e)'
                        \/ /\ r.page = <<>> \/ e.id > r.page[1].id
                           /\ OnItsWay(e)' \/ e.id \in IdsIn(events)'
      BY DEF FirstCovers, Matches
    <3>1. CASE e \in rows
      <4>1. \/ Covered(r, e)
            \/ /\ r.page = <<>> \/ e.id > r.page[1].id
               /\ OnItsWay(e) \/ e.id \in IdsIn(events)
        BY <1>2, <3>1 DEF FirstCovers
      <4>2. e.id \in lost' => Covered(r, e)'
        BY DEF Covered
      <4> QED  BY <1>4, <2>2, <3>1, <4>1, <4>2
    <3>2. CASE e \notin rows
      <4>1. (OnItsWay(e)' \/ Covered(r, e)') /\ e.id > lastId
        BY <1>3, <3>2 DEF Covered
      <4> QED  BY <1>5, <2>1, <4>1
    <3> QED  BY <3>1, <3>2
  <2>4. MoreCovers(r) => MoreCovers(r)'
    <3> SUFFICES ASSUME MoreCovers(r), NEW e \in rows', Matches(e, eventFilter'), e.id < r.before
                 PROVE  Covered(r, e)'
      BY DEF MoreCovers, Matches
    <3>1. e \in rows
      BY <1>3, <1>5, <2>1
    <3> QED  BY <1>2, <2>2, <3>1 DEF MoreCovers
  <2> QED  BY <1>1, <2>1, <2>3, <2>4 DEF Holds
<1>8. RequestsHold'
  <2> SUFFICES ASSUME NEW i \in DOMAIN requests' PROVE Holds(requests[i])'
    BY DEF RequestsHold
  <2>1. PICK r : r = requests'[i] /\ r = requests[i] /\ Holds(r)'
    BY <1>1, <1>7
  <2> QED  BY <2>1
<1> QED  BY <1>6, <1>8 DEF Shown

LEMMA AsideKeeps ==
  ASSUME TypedInv, ShownInv,
         \/ Receive \/ Connect \/ Lose \/ LogIt \/ Stream
         \/ \E n \in Numbers : Publish(n)
  PROVE  ShownInv'
<1>1. TypedInv' /\ Journey /\ Aside
  BY AsideTyped
<1>2. UNCHANGED stale
  BY <1>1 DEF Aside
<1> QED  BY <1>1, <1>2, AsideShown DEF ShownInv

LEMMA SetFilterKeeps ==
  ASSUME TypedInv, NEW filter \in Filters, SetFilter(filter)
  PROVE  ShownInv'
<1>1. PICK r : r = [kind |-> "first", before |-> 0, filter |-> filter, era |-> filters + 1,
                    page |-> <<>>, at |-> "asked"]
  OBVIOUS
<1>2. OneMore(r)
  BY <1>1, SetFilterTyped
<1>3. filters' = filters + 1 /\ events' = <<>> /\ hasMore' = TRUE /\ oldest' = 0
  BY DEF SetFilter
<1>4. Complete'
  BY <1>3 DEF Complete, Loaded
<1>5. RequestsHold'
  <2> SUFFICES ASSUME NEW j \in DOMAIN requests' PROVE Holds(requests[j])'
    BY DEF RequestsHold
  <2>1. CASE requests'[j] = r
    BY <1>1, <1>3, <2>1 DEF Holds
  <2>2. ASSUME NEW k \in DOMAIN requests, requests'[j] = requests[k]
        PROVE  requests'[j].era # filters'
    <3>1. requests[k].era \in Nat /\ requests[k].era <= filters /\ filters \in Nat
      BY RequestTyped DEF TypedInv, Sound, PageTyped
    <3> QED  BY <1>3, <2>2, <3>1
  <2> QED  BY <1>2, <2>1, <2>2 DEF OneMore, Holds
<1> QED  BY <1>4, <1>5 DEF Shown, ShownInv

(* Requests that are left hold as before.                                  *)
LEMMA StillHolds ==
  ASSUME NEW r, Holds(r), lost \subseteq lost',
         UNCHANGED <<rows, saved, log, open, next, sent, read>>,
         UNCHANGED <<events, eventFilter, hasMore, oldest, filters>>
  PROVE  Holds(r)'
<1>1. \A e : OnItsWay(e) => OnItsWay(e)'
  BY DEF OnItsWay
<1>2. \A e : Covered(r, e) => Covered(r, e)'
  BY DEF Covered
<1>3. FirstCovers(r) => FirstCovers(r)'
  BY <1>1, <1>2 DEF FirstCovers, Matches, IdsIn
<1>4. MoreCovers(r) => MoreCovers(r)'
  BY <1>2 DEF MoreCovers, Matches
<1> QED  BY <1>3, <1>4 DEF Holds

LEMMA StillComplete ==
  ASSUME Complete, lost \subseteq lost',
         UNCHANGED <<rows, saved, log, open, next, sent, read>>,
         UNCHANGED <<events, eventFilter, hasMore, oldest>>
  PROVE  Complete'
<1>1. \A e : OnItsWay(e) => OnItsWay(e)'
  BY DEF OnItsWay
<1>2. Loaded' => Loaded
  BY DEF Loaded
<1> QED  BY <1>1, <1>2 DEF Complete, Matches, IdsIn

LEMMA LoadMoreKeeps ==
  ASSUME TypedInv, ShownInv, LoadMore
  PROVE  ShownInv'
<1>1. PICK r : r = [kind |-> "more", before |-> oldest, filter |-> eventFilter,
                    era |-> filters, page |-> <<>>, at |-> "asked"]
  OBVIOUS
<1>2. OneMore(r)
  BY <1>1, LoadMoreTyped
<1>3. hasMore /\ UNCHANGED <<logVars, events, eventFilter, hasMore, oldest, read, lost, stale, overtaken, filters>>
  BY DEF LoadMore
<1>4. UNCHANGED <<rows, lastId, saved, log, open, next, sent, read>>
  BY <1>3, ServerStays DEF TypedInv
<1> SUFFICES ASSUME ~stale' PROVE Shown'
  BY DEF ShownInv
<1>5. Shown
  BY <1>3 DEF ShownInv
<1>6. Complete'
  BY <1>3, <1>4, <1>5, StillComplete DEF Shown
<1>7. RequestsHold'
  <2> SUFFICES ASSUME NEW j \in DOMAIN requests' PROVE Holds(requests[j])'
    BY DEF RequestsHold
  <2>1. CASE requests'[j] = r
    BY <1>1, <1>3, <2>1 DEF Holds
  <2>2. ASSUME NEW k \in DOMAIN requests, requests'[j] = requests[k]
        PROVE  Holds(requests[j])'
    <3>1. PICK s : s = requests[k] /\ s = requests'[j] /\ Holds(s)
      BY <1>5, <2>2 DEF Shown, RequestsHold
    <3>2. Holds(s)'
      BY <1>3, <1>4, <3>1, StillHolds
    <3> QED  BY <3>1, <3>2
  <2> QED  BY <1>2, <2>1, <2>2 DEF OneMore
<1> QED  BY <1>6, <1>7 DEF Shown

LEMMA NoPageKeeps ==
  ASSUME TypedInv, ShownInv, NEW i \in DOMAIN requests, NoPage(i)
  PROVE  ShownInv'
<1>1. UNCHANGED <<logVars, events, eventFilter, hasMore, oldest, read, lost, stale, overtaken, filters>>
  BY DEF NoPage
<1>2. UNCHANGED <<rows, lastId, saved, log, open, next, sent, read>>
  BY <1>1, ServerStays DEF TypedInv
<1> SUFFICES ASSUME ~stale' PROVE Shown'
  BY DEF ShownInv
<1>3. Shown
  BY <1>1 DEF ShownInv
<1>4. Complete'
  BY <1>1, <1>2, <1>3, StillComplete DEF Shown
<1>5. RequestsHold'
  <2> SUFFICES ASSUME NEW j \in DOMAIN requests' PROVE Holds(requests[j])'
    BY DEF RequestsHold
  <2>1. PICK k \in DOMAIN requests : requests'[j] = requests[k]
    BY NoPageTyped DEF OneFewer
  <2>2. PICK s : s = requests[k] /\ s = requests'[j] /\ Holds(s)
    BY <1>3, <2>1 DEF Shown, RequestsHold
  <2>3. Holds(s)'
    BY <1>1, <1>2, <2>2, StillHolds
  <2> QED  BY <2>2, <2>3
<1> QED  BY <1>4, <1>5 DEF Shown

LEMMA AnswerKeeps ==
  ASSUME TypedInv, ShownInv, NEW i \in DOMAIN requests, NEW page, Answered(i, page)
  PROVE  ShownInv'
<1>1. UNCHANGED <<logVars, events, eventFilter, hasMore, oldest, read, stale, filters>>
  BY DEF Answered, Got, Answer, pageVars
<1>2. UNCHANGED <<rows, lastId, saved, log, open, next, sent, read>>
  BY <1>1, ServerStays DEF TypedInv
<1> SUFFICES ASSUME ~stale' PROVE Shown'
  BY DEF ShownInv
<1>3. Shown
  BY <1>1 DEF ShownInv
<1>4. /\ \A j \in DOMAIN requests' : j \in DOMAIN requests /\ (j # i => requests'[j] = requests[j])
      /\ requests'[i] = [requests[i] EXCEPT !.at = "read", !.page = page]
  BY AnswerTyped DEF Answered
<1>5. PICK r : r = requests[i] /\ r \in Request /\ Sound(r) /\ Holds(r)
  BY <1>3, RequestTyped DEF Shown, RequestsHold, TypedInv
<1>6. PICK q : q = requests'[i]
  OBVIOUS
<1>7. /\ q.kind = r.kind /\ q.before = r.before /\ q.era = r.era /\ q.page = page
      /\ q.at = "read"
  BY <1>4, <1>5, <1>6 DEF Request
<1>8. \A e \in rows : Matches(e, eventFilter) /\ (r.before > 0 => e.id < r.before)
                      /\ r.era = filters => Covered(q, e)'
  <2> SUFFICES ASSUME NEW e \in rows, Matches(e, eventFilter), r.era = filters,
                      r.before > 0 => e.id < r.before
               PROVE  Covered(q, e)'
    OBVIOUS
  <2>1. e \in Wanted(r.before, r.filter)
    BY <1>5 DEF Wanted, Sound
  <2>2. e.id # 0
    BY DEF TypedInv, ServerInv, ServerTyped, RowsDistinct
  <2>3. \/ \E k \in DOMAIN page : page[k] = e
        \/ e.id \in lost'
        \/ Full(page) /\ e.id < Last(page).id
    BY <1>5, <2>1 DEF Answered
  <2> QED  BY <1>7, <2>2, <2>3, IdsOfList DEF Covered, IdsIn
<1>10. CASE r.kind = "first" /\ r.era = filters
  <2>1. oldest = 0 /\ hasMore /\ r.before = 0
    BY <1>5, <1>10 DEF Holds, Sound
  <2>2. Complete'
    BY <1>1, <2>1 DEF Complete, Loaded
  <2>3. Holds(q)'
    <3>1. \A e \in rows : Matches(e, eventFilter) => Covered(q, e)'
      BY <1>8, <1>10, <2>1
    <3>2. FirstCovers(q)'
      BY <1>1, <1>2, <3>1 DEF FirstCovers, Matches
    <3> QED  BY <1>1, <1>7, <1>10, <2>1, <3>2 DEF Holds
  <2>4. ASSUME NEW j \in DOMAIN requests, j # i
        PROVE  requests[j].era # filters
    <3>1. Holds(requests[j]) /\ Sound(requests[j]) /\ requests[j].kind \in {"first", "more"}
      BY <1>3, RequestTyped DEF Shown, RequestsHold, TypedInv
    <3>2. ~Alike(requests[j], requests[i])
      BY <2>4 DEF TypedInv, RequestsSound
    <3> QED  BY <1>5, <1>10, <2>1, <3>1, <3>2 DEF Alike, Holds, Sound
  <2>5. RequestsHold'
    <3> SUFFICES ASSUME NEW j \in DOMAIN requests' PROVE Holds(requests[j])'
      BY DEF RequestsHold
    <3>1. CASE j = i
      BY <1>6, <2>3, <3>1 DEF Holds
    <3>2. CASE j # i
      <4>1. requests'[j].era # filters'
        BY <1>1, <1>4, <2>4, <3>2
      <4> QED  BY <4>1 DEF Holds
    <3> QED  BY <3>1, <3>2
  <2> QED  BY <2>2, <2>5 DEF Shown
<1>11. CASE ~(r.kind = "first" /\ r.era = filters)
  <2>1. lost \subseteq lost'
    <3>1. ~Renews(i)
      BY <1>5, <1>11 DEF Renews, Stale
    <3>2. Missed(i) = lost
      BY <3>1 DEF Missed
    <3> QED  BY <3>2 DEF Answered
  <2>2. Complete'
    BY <1>1, <1>2, <1>3, <2>1, StillComplete DEF Shown
  <2>3. Holds(q)'
    <3> SUFFICES ASSUME r.era = filters PROVE Holds(q)'
      BY <1>1, <1>7 DEF Holds
    <3>1. r.kind = "more" /\ r.before = oldest /\ hasMore /\ r.before # 0
      BY <1>5, <1>11 DEF Request, Holds, Sound
    <3>2. MoreCovers(q)'
      BY <1>1, <1>2, <1>7, <1>8 DEF MoreCovers, Matches
    <3> QED  BY <1>1, <1>7, <3>1, <3>2 DEF Holds
  <2>4. RequestsHold'
    <3> SUFFICES ASSUME NEW j \in DOMAIN requests' PROVE Holds(requests[j])'
      BY DEF RequestsHold
    <3>1. CASE j = i
      BY <1>6, <2>3, <3>1 DEF Holds
    <3>2. CASE j # i
      <4>1. PICK s : s = requests[j] /\ s = requests'[j] /\ Holds(s)
        BY <1>3, <1>4, <3>2 DEF Shown, RequestsHold
      <4>2. Holds(s)'
        BY <1>1, <1>2, <2>1, <4>1, StillHolds
      <4> QED  BY <4>1, <4>2
    <3> QED  BY <3>1, <3>2
  <2> QED  BY <2>2, <2>4 DEF Shown
<1> QED  BY <1>10, <1>11

(* The requests that a current one leaves behind are of earlier filters.   *)
LEMMA OthersAreOld ==
  ASSUME TypedInv, RequestsHold, NEW i \in DOMAIN requests, ~Stale(i),
         UNCHANGED filters, OneFewer(i)
  PROVE  RequestsHold'
<1>1. ASSUME NEW k \in DOMAIN requests, k # i
      PROVE  requests[k].era # filters
  <2>1. /\ Holds(requests[k]) /\ Sound(requests[k]) /\ requests[k].kind \in {"first", "more"}
        /\ Holds(requests[i]) /\ Sound(requests[i]) /\ requests[i].kind \in {"first", "more"}
    BY RequestTyped DEF RequestsHold, TypedInv
  <2>2. ~Alike(requests[k], requests[i])
    BY <1>1 DEF TypedInv, RequestsSound
  <2> QED  BY <2>1, <2>2 DEF Alike, Holds, Sound, Stale
<1> SUFFICES ASSUME NEW j \in DOMAIN requests' PROVE Holds(requests[j])'
  BY DEF RequestsHold
<1>2. requests'[j].era # filters'
  BY <1>1 DEF OneFewer
<1> QED  BY <1>2 DEF Holds

LEMMA ArriveFirstKeeps ==
  ASSUME TypedInv, ShownInv, NEW i \in DOMAIN requests, ArriveFirst(i)
  PROVE  ShownInv'
<1>1. PICK r : r = requests[i]
  OBVIOUS
<1>2. PICK page : page = r.page
  OBVIOUS
<1>3. /\ r.kind = "first" /\ r.at = "read"
      /\ events' = page /\ oldest' = IF page = <<>> THEN 0 ELSE Last(page).id
      /\ lost' = lost \cup {id \in IdsIn(events) : page = <<>> \/ id > page[1].id}
      /\ hasMore' = (hasMore /\ Len(page) >= PageSize) /\ stale' = (stale \/ Stale(i))
      /\ UNCHANGED <<logVars, eventFilter, read, overtaken, filters>>
  BY <1>1, <1>2 DEF ArriveFirst, countVars
<1>4. UNCHANGED <<rows, lastId, saved, log, open, next, sent, read>>
  BY <1>3, ServerStays DEF TypedInv
<1> SUFFICES ASSUME ~stale' PROVE Shown'
  BY DEF ShownInv
<1>5. ~stale /\ ~Stale(i)
  BY <1>3, Zenon
<1>6. Shown /\ r.era = filters
  BY <1>1, <1>5 DEF ShownInv, Stale
<1>7. oldest = 0 /\ hasMore /\ FirstCovers(r)
  BY <1>1, <1>3, <1>6 DEF Shown, RequestsHold, Holds
<1>8. /\ page \in Seq(Event) /\ Falls(page) /\ \A k \in DOMAIN page : page[k].id \in 1..lastId
      /\ page # <<>> => Len(page) \in DOMAIN page /\ Last(page) = page[Len(page)]
  BY <1>1, <1>2, PageFits
<1>11. RequestsHold'
  BY <1>3, <1>5, <1>6, ArriveFirstTyped, OthersAreOld DEF Shown
<1>12. Complete'
  <2> SUFFICES ASSUME NEW e \in rows, Matches(e, eventFilter)
               PROVE  \/ e.id \in IdsIn(page) \cup lost'
                      \/ OnItsWay(e)'
                      \/ hasMore' /\ e.id < oldest'
    BY <1>3, <1>4 DEF Complete, Matches, IdsIn
  <2>1. CASE Covered(r, e)
    <3>1. Full(page) => hasMore' /\ oldest' = Last(page).id
      BY <1>3, <1>7 DEF Full
    <3> QED  BY <1>2, <1>3, <2>1, <3>1 DEF Covered
  <2>2. CASE /\ page = <<>> \/ e.id > page[1].id
             /\ OnItsWay(e) \/ e.id \in IdsIn(events)
    <3>1. OnItsWay(e) => OnItsWay(e)'
      BY <1>4 DEF OnItsWay
    <3> QED  BY <1>3, <2>2, <3>1
  <2> QED  BY <1>2, <1>7, <2>1, <2>2 DEF FirstCovers
<1> QED  BY <1>11, <1>12 DEF Shown

(* A list and a page below it.                                             *)
LEMMA Joined ==
  ASSUME NEW list \in Seq(Event), NEW page \in Seq(Event)
  PROVE  LET n == Len(list)
             both == list \o page
         IN  /\ \A k \in DOMAIN both :
                  \/ k \in DOMAIN list /\ both[k] = list[k]
                  \/ k > n /\ k - n \in DOMAIN page /\ both[k] = page[k - n]
             /\ \A k \in DOMAIN list : k <= n /\ k \in DOMAIN both /\ both[k] = list[k]
             /\ \A k \in DOMAIN page : k + n \in DOMAIN both /\ both[k + n] = page[k]
             /\ IdsIn(both) = IdsIn(list) \cup IdsIn(page)
<1> DEFINE n == Len(list)
           both == list \o page
<1>1. /\ both \in Seq(Event) /\ n \in Nat /\ Len(page) \in Nat
      /\ DOMAIN both = 1..(n + Len(page)) /\ DOMAIN list = 1..n /\ DOMAIN page = 1..Len(page)
      /\ \A k \in 1..(n + Len(page)) : both[k] = IF k <= n THEN list[k] ELSE page[k - n]
  <2>1. /\ both \in Seq(Event) /\ Len(both) = n + Len(page)
        /\ \A k \in 1..(n + Len(page)) : both[k] = IF k <= n THEN list[k] ELSE page[k - n]
    BY ConcatProperties
  <2> QED  BY <2>1
<1> HIDE DEF n, both
<1>2. \A k \in DOMAIN both :
        \/ k \in DOMAIN list /\ both[k] = list[k]
        \/ k > n /\ k - n \in DOMAIN page /\ both[k] = page[k - n]
  BY <1>1
<1>3. /\ \A k \in DOMAIN list : k <= n /\ k \in DOMAIN both /\ both[k] = list[k]
      /\ \A k \in DOMAIN page : k + n \in DOMAIN both /\ both[k + n] = page[k]
  <2>1. \A k \in DOMAIN page : k + n \in DOMAIN both /\ ~(k + n <= n) /\ (k + n) - n = k
    BY <1>1
  <2>2. \A k \in DOMAIN list : k \in DOMAIN both /\ k <= n
    BY <1>1
  <2> QED  BY <1>1, <2>1, <2>2
<1>4. IdsIn(both) = IdsIn(list) \cup IdsIn(page)
  <2>1. IdsIn(both) \subseteq IdsIn(list) \cup IdsIn(page)
    BY <1>2 DEF IdsIn
  <2>2. IdsIn(list) \subseteq IdsIn(both) /\ IdsIn(page) \subseteq IdsIn(both)
    BY <1>3 DEF IdsIn
  <2> QED  BY <2>1, <2>2
<1> QED  BY <1>2, <1>3, <1>4 DEF n, both

LEMMA ArriveMoreKeeps ==
  ASSUME TypedInv, ShownInv, NEW i \in DOMAIN requests, ArriveMore(i)
  PROVE  ShownInv'
<1>1. PICK r : r = requests[i]
  OBVIOUS
<1>2. PICK page : page = r.page
  OBVIOUS
<1>3. /\ r.kind = "more" /\ r.at = "read"
      /\ events' = events \o page /\ oldest' = IF page = <<>> THEN oldest ELSE Last(page).id
      /\ hasMore' = (hasMore /\ Len(page) >= PageSize) /\ stale' = (stale \/ Stale(i))
      /\ UNCHANGED <<logVars, eventFilter, read, lost, overtaken, filters>>
  BY <1>1, <1>2 DEF ArriveMore, countVars
<1>4. UNCHANGED <<rows, lastId, saved, log, open, next, sent, read>>
  BY <1>3, ServerStays DEF TypedInv
<1> SUFFICES ASSUME ~stale' PROVE Shown'
  BY DEF ShownInv
<1>5. ~stale /\ ~Stale(i)
  BY <1>3, Zenon
<1>6. Shown /\ r.era = filters
  BY <1>1, <1>5 DEF ShownInv, Stale
<1>7. Holds(r) /\ Sound(r) /\ r.before \in Nat
  BY <1>1, <1>6, RequestTyped DEF Shown, RequestsHold, TypedInv
<1>8. oldest # 0 /\ oldest = r.before /\ hasMore /\ MoreCovers(r)
  BY <1>3, <1>6, <1>7 DEF Holds, Sound
<1>16. IdsIn(events)' = IdsIn(events) \cup IdsIn(page)
  <2>1. events \in Seq(Event) /\ page \in Seq(Event)
    BY <1>1, <1>2, PageFits DEF TypedInv, PageTyped
  <2> QED  BY <1>3, <2>1, Joined
<1>19. RequestsHold'
  BY <1>3, <1>5, <1>6, ArriveMoreTyped, OthersAreOld DEF Shown
<1>20. Complete'
  <2> SUFFICES ASSUME NEW e \in rows, Matches(e, eventFilter)
               PROVE  \/ e.id \in IdsIn(events)' \cup lost
                      \/ OnItsWay(e)'
                      \/ hasMore' /\ e.id < oldest'
    BY <1>3, <1>4 DEF Complete, Matches
  <2>1. \/ e.id \in IdsIn(events) \cup lost
        \/ OnItsWay(e)
        \/ e.id < oldest
    BY <1>6, <1>8 DEF Shown, Complete, Loaded
  <2>2. OnItsWay(e) => OnItsWay(e)'
    BY <1>4 DEF OnItsWay
  <2>3. CASE e.id < oldest
    <3>1. Covered(r, e)
      BY <1>8, <2>3 DEF MoreCovers
    <3>2. Full(page) => hasMore' /\ oldest' = Last(page).id
      BY <1>3, <1>8 DEF Full
    <3> QED  BY <1>2, <1>16, <3>1, <3>2 DEF Covered
  <2> QED  BY <1>16, <2>1, <2>2, <2>3
<1> QED  BY <1>19, <1>20 DEF Shown

LEMMA ShownKept == TypedInv /\ ShownInv /\ [FeedNext]_feedVars => ShownInv'
<1> SUFFICES ASSUME TypedInv, ShownInv, [FeedNext]_feedVars PROVE ShownInv'
  OBVIOUS
<1>1. ASSUME NEW filter \in {"all", "allow", "block"}, SetFilter(filter)
      PROVE  ShownInv'
  BY <1>1, SetFilterKeeps DEF Filters
<1>2. CASE LoadMore
  BY <1>2, LoadMoreKeeps
<1>3. ASSUME NEW i \in DOMAIN requests, ReadPage(i) \/ ReadPart(i)
      PROVE  ShownInv'
  BY <1>3, Reads, AnswerKeeps
<1>4. ASSUME NEW i \in DOMAIN requests, ArriveFirst(i) \/ ArriveMore(i) \/ NoPage(i)
      PROVE  ShownInv'
  BY <1>4, ArriveFirstKeeps, ArriveMoreKeeps, NoPageKeeps
<1>5. CASE \/ Receive \/ Connect \/ Lose \/ LogIt \/ Stream
           \/ \E n \in Numbers : Publish(n)
  BY <1>5, AsideKeeps
<1>6. CASE UNCHANGED feedVars
  <2>1. UNCHANGED <<logVars, events, eventFilter, hasMore, loadingMore, oldest, requests,
                    read, lost, stale, overtaken, filters>>
    BY <1>6 DEF feedVars, pageVars, countVars
  <2>2. UNCHANGED <<rows, lastId, saved, log, open, next, sent, read>>
    BY <2>1, ServerStays DEF TypedInv
  <2> SUFFICES ASSUME ~stale' PROVE Shown'
    BY DEF ShownInv
  <2>3. Shown
    BY <2>1 DEF ShownInv
  <2>4. RequestsHold'
    <3> SUFFICES ASSUME NEW j \in DOMAIN requests' PROVE Holds(requests[j])'
      BY DEF RequestsHold
    <3>1. PICK s : s = requests[j] /\ s = requests'[j] /\ Holds(s)
      BY <2>1, <2>3 DEF Shown, RequestsHold
    <3>2. Holds(s)'
      BY <2>1, <2>2, <3>1, StillHolds
    <3> QED  BY <3>1, <3>2
  <2> QED  BY <2>1, <2>2, <2>3, <2>4, StillComplete DEF Shown
<1> QED  BY <1>1, <1>2, <1>3, <1>4, <1>5, <1>6 DEF FeedNext

-----------------------------------------------------------------------------
(* The way an event takes to the browser: it is a row before it is logged, *)
(* and ids rise along the stream, from what was sent over what is logged   *)
(* and still to be sent to the event that is logged next.                  *)
InRows(list) == \A k \in DOMAIN list : list[k].id # 0 => list[k] \in rows

Rises(list) ==
  \A j, k \in DOMAIN list :
    j < k /\ list[j].id # 0 /\ list[k].id # 0 => list[j].id < list[k].id

Under(list, id) == \A k \in DOMAIN list : list[k].id < id

Unsent == {k \in DOMAIN log : k >= next[Browser]}

SavedLast ==
  saved # NoEvent /\ saved.id # 0 =>
    saved \in rows /\ Under(log, saved.id) /\ Under(sent[Browser], saved.id)

SentFirst == \A k \in Unsent : log[k].id # 0 => Under(sent[Browser], log[k].id)

WayInv ==
  /\ InRows(log) /\ InRows(sent[Browser]) /\ Rises(log) /\ Rises(sent[Browser])
  /\ SavedLast /\ SentFirst

LEMMA FirstWay == FeedInit => WayInv
<1> SUFFICES ASSUME FeedInit PROVE WayInv
  OBVIOUS
<1>1. log = <<>> /\ saved = NoEvent /\ sent[Browser] = <<>>
  BY FeedAssumption DEF FeedInit, Init
<1> QED  BY <1>1 DEF WayInv, InRows, Rises, Under, SavedLast, SentFirst, Unsent

(* A list grows at its end by a row of a higher id, or by an event of none. *)
LEMMA Grows ==
  ASSUME NEW list \in Seq(Event), NEW e \in Event, InRows(list), Rises(list),
         e.id # 0 => e \in rows /\ Under(list, e.id)
  PROVE  LET more == Append(list, e)
         IN  /\ InRows(more) /\ Rises(more) /\ DOMAIN more = 1..(Len(list) + 1)
             /\ Len(list) \in Nat /\ DOMAIN list = 1..Len(list)
             /\ more[Len(list) + 1] = e /\ \A k \in DOMAIN list : more[k] = list[k]
<1> DEFINE more == Append(list, e)
           n == Len(list)
<1>1. /\ n \in Nat /\ DOMAIN list = 1..n /\ DOMAIN more = 1..(n + 1)
      /\ more[n + 1] = e /\ \A k \in DOMAIN list : more[k] = list[k]
  OBVIOUS
<1>2. \A k \in DOMAIN more : k = n + 1 \/ k \in DOMAIN list
  BY <1>1
<1> HIDE DEF more, n
<1>3. InRows(more)
  BY <1>1, <1>2 DEF InRows
<1>4. Rises(more)
  <2> SUFFICES ASSUME NEW j \in DOMAIN more, NEW k \in DOMAIN more, j < k,
                      more[j].id # 0, more[k].id # 0
               PROVE  more[j].id < more[k].id
    BY DEF Rises
  <2>1. j \in DOMAIN list
    BY <1>1, <1>2
  <2>2. CASE k = n + 1
    BY <1>1, <2>1, <2>2 DEF Under
  <2>3. CASE k \in DOMAIN list
    BY <1>1, <2>1, <2>3 DEF Rises
  <2> QED  BY <1>2, <2>2, <2>3
<1> QED  BY <1>1, <1>3, <1>4 DEF more, n

LEMMA WayTypes ==
  ASSUME TypedInv
  PROVE  /\ log \in Seq(Event) /\ sent[Browser] \in Seq(Event) /\ lastId \in Nat
         /\ next[Browser] \in Nat \ {0} /\ Browser \in Streams
         /\ \A k \in DOMAIN log : log[k] \in Event /\ log[k].id \in Nat /\ log[k].id <= lastId
         /\ \A k \in DOMAIN sent[Browser] :
              /\ sent[Browser][k] \in Event /\ sent[Browser][k].id \in Nat
              /\ sent[Browser][k].id <= lastId
<1>1. /\ log \in Seq(Event) /\ sent[Browser] \in Seq(Event) /\ lastId \in Nat
      /\ next[Browser] \in Nat \ {0} /\ Browser \in Streams
  BY BrowserStreams, FeedAssumption DEF TypedInv, ServerInv, ServerTyped
<1>2. /\ \A k \in DOMAIN log : log[k] \in Event
      /\ \A k \in DOMAIN sent[Browser] : sent[Browser][k] \in Event
  BY <1>1
<1>3. Given(log) /\ Given(sent[Browser])
  BY DEF TypedInv, ServerInv, IdsGiven
<1> QED  BY <1>1, <1>2, <1>3 DEF Given, Event

(* An event on its way is one that was already, or one saved just now.     *)
Onward ==
  \A e \in rows' : OnItsWay(e)' => (e \in rows /\ OnItsWay(e)) \/ e.id > lastId

LEMMA PublishOnward ==
  ASSUME TypedInv, WayInv, NEW n \in Numbers, Publish(n)
  PROVE  WayInv' /\ Onward
<1>1. /\ saved' # NoEvent
      /\ UNCHANGED <<log, open, next, sent, read>>
      /\ rows \subseteq rows' /\ \A e \in rows' : e \in rows \/ e.id > lastId
      /\ saved'.id = 0 \/ (saved' \in rows' /\ saved'.id = lastId + 1)
  <2>1. lastId \in Nat
    BY WayTypes
  <2>2. Save(n) \/ NotSaved(n) \/ SaveUnseen(n)
    BY DEF Publish
  <2>3. UNCHANGED read
    BY DEF Publish
  <2>4. \A k \in Nat : [n |-> n, id |-> k] # NoEvent
    BY DEF NoEvent
  <2>5. saved' # NoEvent
    BY <2>1, <2>2, <2>4 DEF Save, NotSaved, SaveUnseen
  <2> QED  BY <2>1, <2>2, <2>3, <2>5 DEF Save, NotSaved, SaveUnseen, sentVars
<1>2. /\ \A k \in DOMAIN log : log[k].id \in Nat /\ log[k].id <= lastId
      /\ \A k \in DOMAIN sent[Browser] : sent[Browser][k].id \in Nat /\ sent[Browser][k].id <= lastId
      /\ lastId \in Nat
  BY WayTypes
<1>3. SavedLast'
  BY <1>1, <1>2 DEF SavedLast, Under
<1>4. WayInv'
  BY <1>1, <1>3 DEF WayInv, InRows, Rises, SentFirst, Under, Unsent
<1>5. Onward
  <2> SUFFICES ASSUME NEW e \in rows', OnItsWay(e)', e \in rows
               PROVE  OnItsWay(e)
    BY <1>1 DEF Onward
  <2>1. e # saved'
    <3>1. e.id # 0 /\ e.id \in Nat /\ e.id <= lastId
      BY DEF TypedInv, ServerInv, ServerTyped, RowsDistinct, IdsGiven
    <3> QED  BY <1>1, <1>2, <3>1
  <2> QED  BY <1>1, <2>1 DEF OnItsWay
<1> QED  BY <1>4, <1>5

LEMMA LogOnward ==
  ASSUME TypedInv, WayInv, LogIt
  PROVE  WayInv' /\ Onward
<1>1. /\ saved # NoEvent /\ saved' = NoEvent /\ log' = Append(log, saved)
      /\ UNCHANGED <<rows, lastId, open, next, sent, read>>
  BY DEF LogIt, Log, sentVars
<1>2. saved \in Event
  BY <1>1 DEF TypedInv, ServerInv, ServerTyped
<1>3. saved.id # 0 => saved \in rows /\ Under(log, saved.id) /\ Under(sent[Browser], saved.id)
  BY <1>1 DEF WayInv, SavedLast
<1>4. /\ InRows(log') /\ Rises(log') /\ DOMAIN log' = 1..(Len(log) + 1)
      /\ Len(log) \in Nat /\ DOMAIN log = 1..Len(log)
      /\ log'[Len(log) + 1] = saved /\ \A k \in DOMAIN log : log'[k] = log[k]
  BY <1>1, <1>2, <1>3, WayTypes, Grows DEF WayInv
<1>5. \A k \in DOMAIN log' : k \in DOMAIN log \/ log'[k] = saved
  BY <1>4
<1>6. SentFirst'
  BY <1>1, <1>3, <1>4, <1>5 DEF WayInv, SentFirst, Unsent, Under
<1>7. WayInv'
  BY <1>1, <1>4, <1>6 DEF WayInv, InRows, Rises, SavedLast
<1>8. Onward
  <2> SUFFICES ASSUME NEW e \in rows, OnItsWay(e)' PROVE OnItsWay(e)
    BY <1>1 DEF Onward
  <2>1. e # NoEvent
    BY NotAnEvent DEF TypedInv, ServerInv, ServerTyped
  <2>2. \A k \in next[Browser]..Len(log') :
          log'[k] = saved \/ (k \in next[Browser]..Len(log) /\ log'[k] = log[k])
    <3>1. Len(log') = Len(log) + 1 /\ next[Browser] \in Nat \ {0}
      BY <1>1, <1>2, WayTypes
    <3> QED  BY <1>4, <3>1
  <2> QED  BY <1>1, <2>1, <2>2 DEF OnItsWay
<1> QED  BY <1>7, <1>8

LEMMA StreamOnward ==
  ASSUME TypedInv, WayInv, Stream
  PROVE  WayInv' /\ Onward
<1> DEFINE at == next[Browser]
<1>0. PICK e0 : e0 = log[at]
  OBVIOUS
<1>1. /\ Browser \in open /\ at <= Len(log)
      /\ next' = [next EXCEPT ![Browser] = @ + 1]
      /\ UNCHANGED <<rows, lastId, saved, log, open, read>>
      /\ \/ sent' = [sent EXCEPT ![Browser] = Append(@, e0)]
         \/ sent' = sent
  BY <1>0 DEF Stream, Send, Skip, rowVars
<1>2. /\ at \in Nat \ {0} /\ at \in DOMAIN log /\ Len(log) \in Nat
      /\ DOMAIN log = 1..Len(log) /\ e0 \in Event /\ next'[Browser] = at + 1
      /\ sent[Browser] \in Seq(Event)
  <2>1. at \in Nat \ {0} /\ log \in Seq(Event) /\ sent[Browser] \in Seq(Event) /\ Browser \in Streams
    BY WayTypes
  <2>2. next'[Browser] = at + 1
    BY <1>1, <2>1 DEF TypedInv, ServerInv, ServerTyped
  <2> QED  BY <1>0, <1>1, <2>1, <2>2
<1>3. e0.id # 0 => e0 \in rows /\ Under(sent[Browser], e0.id)
  BY <1>0, <1>2 DEF WayInv, InRows, SentFirst, Unsent
<1>4. CASE sent' = sent
  <2>1. SavedLast' /\ SentFirst'
    BY <1>1, <1>2, <1>4 DEF WayInv, SavedLast, SentFirst, Unsent, Under
  <2>2. WayInv'
    BY <1>1, <1>4, <2>1 DEF WayInv, InRows, Rises
  <2>3. Onward
    <3>1. \A k \in next'[Browser]..Len(log) : k \in next[Browser]..Len(log)
      BY <1>2
    <3> QED  BY <1>1, <1>4, <3>1 DEF Onward, OnItsWay
  <2> QED  BY <2>2, <2>3
<1>5. CASE sent' = [sent EXCEPT ![Browser] = Append(@, e0)]
  <2>1. sent'[Browser] = Append(sent[Browser], e0)
    BY <1>5, WayTypes DEF TypedInv, ServerInv, ServerTyped
  <2> DEFINE s == sent[Browser]
             s2 == sent'[Browser]
  <2>2. /\ InRows(s2) /\ Rises(s2) /\ DOMAIN s2 = 1..(Len(s) + 1)
        /\ Len(s) \in Nat /\ DOMAIN s = 1..Len(s)
        /\ s2[Len(s) + 1] = e0 /\ \A k \in DOMAIN s : s2[k] = s[k]
    BY <1>2, <1>3, <2>1, Grows DEF WayInv
  <2>3. Len(s2) = Len(s) + 1
    BY <1>2, <2>1
  <2> HIDE DEF s, s2
  <2>4. \A k \in DOMAIN s2 : (k \in DOMAIN s /\ s2[k] = s[k]) \/ s2[k] = e0
    BY <2>2
  <2>5. SavedLast'
    BY <1>0, <1>1, <1>2, <2>4 DEF WayInv, SavedLast, Under, s, s2
  <2>6. SentFirst'
    <3> SUFFICES ASSUME NEW k \in DOMAIN log, k >= at + 1, log[k].id # 0, NEW j \in DOMAIN s2
                 PROVE  s2[j].id < log[k].id
      BY <1>1, <1>2 DEF SentFirst, Unsent, Under, s2
    <3>1. CASE j \in DOMAIN s /\ s2[j] = s[j]
      <4>1. k \in Unsent
        BY <1>2 DEF Unsent
      <4> QED  BY <3>1, <4>1 DEF WayInv, SentFirst, Under, s
    <3>2. CASE s2[j] = e0
      <4>1. at < k /\ log[k].id \in Nat /\ e0.id \in Nat
        BY <1>2, WayTypes DEF Event
      <4>2. e0.id # 0 => e0.id < log[k].id
        BY <1>0, <1>2, <4>1 DEF WayInv, Rises
      <4> QED  BY <3>2, <4>1, <4>2
    <3> QED  BY <2>4, <3>1, <3>2
  <2>7. WayInv'
    BY <1>1, <2>2, <2>5, <2>6 DEF WayInv, InRows, Rises, s2
  <2>8. Onward
    <3> SUFFICES ASSUME NEW e \in rows, OnItsWay(e)' PROVE OnItsWay(e)
      BY <1>1 DEF Onward
    <3>1. CASE e = saved'
      BY <1>1, <3>1 DEF OnItsWay
    <3>2. CASE \E k \in next'[Browser]..Len(log') : log'[k] = e
      <4>1. \A k \in next'[Browser]..Len(log) : k \in next[Browser]..Len(log)
        BY <1>2
      <4> QED  BY <1>1, <3>2, <4>1 DEF OnItsWay
    <3>3. ASSUME NEW k \in read+1..Len(s2), s2[k] = e
          PROVE  OnItsWay(e)
      <4>1. read \in Nat
        BY DEF TypedInv, PageTyped
      <4>2. s2[k] = e0 \/ (k \in read+1..Len(s) /\ s2[k] = s[k])
        BY <2>2, <2>3, <4>1
      <4>3. at \in next[Browser]..Len(log)
        BY <1>1, <1>2
      <4> QED  BY <1>0, <1>1, <3>3, <4>2, <4>3 DEF OnItsWay, s
    <3> QED  BY <1>1, <3>1, <3>2, <3>3 DEF OnItsWay, s2
  <2> QED  BY <2>7, <2>8
<1> QED  BY <1>1, <1>4, <1>5

LEMMA ConnectOnward ==
  ASSUME TypedInv, WayInv, Connect \/ Lose
  PROVE  WayInv' /\ Onward
<1>1. /\ UNCHANGED <<rows, lastId, saved, log>>
      /\ sent' = [sent EXCEPT ![Browser] = <<>>]
      /\ \/ Browser \notin open'
         \/ next' = [next EXCEPT ![Browser] = Len(log) + 1]
  BY DEF Connect, Lose, Open, Close, rowVars
<1>2. sent'[Browser] = <<>> /\ DOMAIN sent'[Browser] = {} /\ Len(sent'[Browser]) = 0
  BY <1>1, WayTypes DEF TypedInv, ServerInv, ServerTyped
<1>3. WayInv'
  BY <1>1, <1>2 DEF WayInv, InRows, Rises, SavedLast, SentFirst, Under
<1>4. Onward
  <2> SUFFICES ASSUME NEW e \in rows, OnItsWay(e)' PROVE OnItsWay(e)
    BY <1>1 DEF Onward
  <2>1. read' \in Nat
    <3>1. TypedInv'
      BY AsideTyped
    <3> QED  BY <3>1 DEF TypedInv, PageTyped
  <2>2. ~(\E k \in read'+1..Len(sent'[Browser]) : Browser \in open' /\ sent'[Browser][k] = e)
    <3>1. PICK m \in Nat : m = read'
      BY <2>1
    <3>2. \A k \in m+1..0 : FALSE
      OBVIOUS
    <3> QED  BY <1>2, <3>1, <3>2
  <2>3. ~(Browser \in open' /\ \E k \in next'[Browser]..Len(log') : log'[k] = e)
    <3>1. DOMAIN next = Streams /\ Browser \in Streams /\ Len(log) \in Nat
      BY WayTypes DEF TypedInv, ServerInv, ServerTyped
    <3> SUFFICES ASSUME Browser \in open' PROVE ~\E k \in next'[Browser]..Len(log) : log[k] = e
      BY <1>1
    <3>2. next'[Browser] = Len(log) + 1
      BY <1>1, <3>1
    <3> QED  BY <3>1, <3>2
  <2> QED  BY <1>1, <2>2, <2>3 DEF OnItsWay
<1> QED  BY <1>3, <1>4

LEMMA StillOnward ==
  ASSUME WayInv, UNCHANGED <<rows, saved, log, open, next, sent>>, UNCHANGED read
  PROVE  WayInv' /\ Onward
<1>1. WayInv'
  BY DEF WayInv, InRows, Rises, SavedLast, SentFirst, Under, Unsent
<1>2. Onward
  BY DEF Onward, OnItsWay
<1> QED  BY <1>1, <1>2

-----------------------------------------------------------------------------
(* The order of the feed while nothing is stale.  Of an event on its way   *)
(* that was not overtaken, a page that was read, like the feed, has either *)
(* that event or only events that are older.                               *)
Ahead(list) ==
  \A e \in rows :
    OnItsWay(e) /\ Matches(e, eventFilter) /\ e.id \notin overtaken =>
      \/ \E k \in DOMAIN list : list[k].id = e.id
      \/ \A k \in DOMAIN list : Matches(list[k], eventFilter) => list[k].id < e.id

Ordered ==
  \A i, j \in DOMAIN events :
    i < j /\ Displayed(i) /\ Displayed(j) /\ events[i].id \notin overtaken =>
      events[i].id > events[j].id

(* Where more is loaded from is the last event shown.                      *)
Bottom ==
  oldest # 0 =>
    /\ \E k \in DOMAIN events : Displayed(k) /\ events[k].id = oldest
    /\ \A k \in DOMAIN events :
         Displayed(k) /\ events[k].id \notin overtaken => events[k].id >= oldest

PagesAhead ==
  \A i \in DOMAIN requests :
    Renews(i) /\ requests[i].at = "read" => Ahead(requests[i].page)

InOrder == Ordered /\ Bottom /\ Ahead(events) /\ PagesAhead

OrderInv == ~stale => InOrder

LEMMA FirstOrder == FeedInit => OrderInv
<1> SUFFICES ASSUME FeedInit PROVE InOrder
  BY DEF OrderInv
<1>1. /\ events = <<>> /\ oldest = 0 /\ rows = {}
      /\ requests = <<[kind |-> "first", before |-> 0, filter |-> "all",
                       era |-> 0, page |-> <<>>, at |-> "asked"]>>
  BY DEF FeedInit, Init
<1> QED  BY <1>1 DEF InOrder, Ordered, Bottom, Ahead, PagesAhead

(* A list below which nothing has come stays ahead of the stream.          *)
LEMMA StillAhead ==
  ASSUME NEW list, Ahead(list), Onward, UNCHANGED eventFilter, overtaken \subseteq overtaken',
         lastId \in Nat, \A e \in rows' : e.id \in Nat,
         \A k \in DOMAIN list : list[k].id \in Nat /\ list[k].id <= lastId
  PROVE  Ahead(list)'
<1> SUFFICES ASSUME NEW e \in rows', OnItsWay(e)', Matches(e, eventFilter)',
                    e.id \notin overtaken'
             PROVE  \/ \E k \in DOMAIN list : list[k].id = e.id
                    \/ \A k \in DOMAIN list : Matches(list[k], eventFilter) => list[k].id < e.id
  BY DEF Ahead, Matches
<1>1. CASE e \in rows /\ OnItsWay(e)
  BY <1>1 DEF Ahead, Matches
<1>2. CASE e.id > lastId
  BY <1>2
<1> QED  BY <1>1, <1>2 DEF Onward

(* Steps that leave the feed and the pages as they are.                    *)
LEMMA StillInOrder ==
  ASSUME TypedInv, TypedInv', InOrder, Onward, overtaken \subseteq overtaken',
         UNCHANGED <<events, eventFilter, oldest>>,
         \A i \in DOMAIN requests' : Renews(i)' /\ requests'[i].at = "read" =>
           \/ Ahead(requests[i].page)'
           \/ \E k \in DOMAIN requests :
                /\ Renews(k) /\ requests[k].at = "read"
                /\ requests'[i].page = requests[k].page
  PROVE  InOrder'
<1>1. \A k : Displayed(k)' <=> Displayed(k)
  BY DEF Displayed, Matches
<1>2. Ordered' /\ Bottom'
  BY <1>1 DEF InOrder, Ordered, Bottom
<1>3. lastId \in Nat /\ \A e \in rows' : e.id \in Nat
  BY DEF TypedInv, ServerInv, ServerTyped, RowsDistinct
<1>4. Ahead(events)'
  <2>1. \A k \in DOMAIN events : events[k].id \in Nat /\ events[k].id <= lastId
    <3>1. \A k \in DOMAIN events : events[k] \in Event
      BY DEF TypedInv, PageTyped
    <3> QED  BY <3>1 DEF TypedInv, PageTyped, Given, Event
  <2>2. PICK list : list = events
    OBVIOUS
  <2>3. Ahead(list)'
    BY <1>3, <2>1, <2>2, StillAhead DEF InOrder
  <2> QED  BY <2>2, <2>3
<1>5. PagesAhead'
  <2> SUFFICES ASSUME NEW i \in DOMAIN requests', Renews(i)', requests'[i].at = "read"
               PROVE  Ahead(requests[i].page)'
    BY DEF PagesAhead
  <2>1. ASSUME NEW k \in DOMAIN requests, Renews(k), requests[k].at = "read",
               requests'[i].page = requests[k].page
        PROVE  Ahead(requests[i].page)'
    <3>1. PICK list : list = requests[k].page
      OBVIOUS
    <3>2. \A j \in DOMAIN list : list[j].id \in Nat /\ list[j].id <= lastId
      BY <1>3, <3>1, PageFits
    <3>3. Ahead(list)
      BY <2>1, <3>1 DEF InOrder, PagesAhead
    <3>4. Ahead(list)'
      BY <1>3, <3>2, <3>3, StillAhead
    <3> QED  BY <2>1, <3>1, <3>4
  <2> QED  BY <2>1
<1> QED  BY <1>2, <1>4, <1>5 DEF InOrder

(* The events that come after the next one of the stream are newer.        *)
LEMMA NextIsOldest ==
  ASSUME TypedInv, WayInv, Receive
  PROVE  LET event == sent[Browser][read + 1]
         IN  /\ event \in Event
             /\ event.id # 0 => event \in rows /\ OnItsWay(event)
             /\ \A e \in rows : OnItsWay(e)' => OnItsWay(e) /\ event.id < e.id
<1> DEFINE s == sent[Browser]
<1>1. PICK event : event = s[read + 1]
  OBVIOUS
<1>2. /\ Browser \in open /\ Unread > 0 /\ read' = read + 1
      /\ UNCHANGED <<rows, lastId, saved, log, open, next, sent>>
  BY DEF Receive, logVars, rowVars, sentVars
<1>3. /\ s \in Seq(Event) /\ Len(s) \in Nat /\ DOMAIN s = 1..Len(s) /\ read \in Nat
      /\ read + 1 \in DOMAIN s /\ event \in Event /\ event.id \in Nat
  <2>1. s \in Seq(Event) /\ read \in Nat
    BY WayTypes DEF TypedInv, PageTyped
  <2>2. Len(s) - read > 0
    BY <1>2 DEF Unread
  <2>3. read + 1 \in DOMAIN s
    BY <2>1, <2>2
  <2> QED  BY <1>1, <2>1, <2>3, WayTypes
<1>4. InRows(s) /\ Rises(s) /\ SentFirst /\ SavedLast
  BY DEF WayInv
<1>5. event.id # 0 => event \in rows /\ OnItsWay(event)
  <2>1. read + 1 \in read+1..Len(s)
    BY <1>3
  <2>2. OnItsWay(event)
    BY <1>1, <1>2, <2>1 DEF OnItsWay
  <2> QED  BY <1>1, <1>3, <1>4, <2>2 DEF InRows
<1>6. ASSUME NEW e \in rows, OnItsWay(e)'
      PROVE  OnItsWay(e) /\ event.id < e.id
  <2>1. e.id \in Nat \ {0} /\ e # NoEvent
    BY NotAnEvent DEF TypedInv, ServerInv, ServerTyped, RowsDistinct
  <2>2. CASE e = saved
    BY <1>1, <1>3, <1>4, <2>1, <2>2 DEF SavedLast, Under, OnItsWay
  <2>3. ASSUME NEW k \in next[Browser]..Len(log), log[k] = e
        PROVE  OnItsWay(e) /\ event.id < e.id
    <3>1. k \in Unsent
      BY WayTypes DEF Unsent
    <3>2. Under(s, e.id)
      BY <1>4, <2>1, <2>3, <3>1 DEF SentFirst
    <3> QED  BY <1>1, <1>2, <1>3, <2>3, <3>2 DEF Under, OnItsWay
  <2>4. ASSUME NEW k \in (read + 1) + 1..Len(s), s[k] = e
        PROVE  OnItsWay(e) /\ event.id < e.id
    <3>1. k \in DOMAIN s /\ read + 1 < k /\ k \in read+1..Len(s)
      BY <1>3
    <3>2. event.id < e.id
      BY <1>1, <1>3, <1>4, <2>1, <2>4, <3>1 DEF Rises
    <3> QED  BY <1>2, <2>4, <3>1, <3>2 DEF OnItsWay
  <2> QED  BY <1>2, <1>6, <2>2, <2>3, <2>4 DEF OnItsWay
<1> QED  BY <1>1, <1>3, <1>5, <1>6

LEMMA ReceiveInOrder ==
  ASSUME TypedInv, TypedInv', WayInv, InOrder, Receive
  PROVE  InOrder'
<1>1. PICK event : event = sent[Browser][read + 1]
  OBVIOUS
<1> DEFINE known == \E i \in DOMAIN events : events[i].id = event.id
<1>2. /\ events' = IF known THEN events ELSE <<event>> \o events
      /\ UNCHANGED <<rows, eventFilter, oldest, requests, overtaken, filters>>
  BY <1>1 DEF Receive, logVars, rowVars, countVars
<1>3. /\ event \in Event
      /\ event.id # 0 => event \in rows /\ OnItsWay(event)
      /\ \A e \in rows : OnItsWay(e)' => OnItsWay(e) /\ event.id < e.id
  BY <1>1, NextIsOldest
<1>4. Onward
  BY <1>2, <1>3 DEF Onward
<1>5. \A i \in DOMAIN requests' : Renews(i)' => Renews(i)
  BY <1>2 DEF Renews, Stale
<1>6. CASE known
  <2>1. UNCHANGED events
    BY <1>2, <1>6
  <2> QED  BY <1>2, <1>4, <1>5, <2>1, StillInOrder
<1>7. CASE ~known
  <2>1. events \in Seq(Event) /\ Len(events) \in Nat
    BY DEF TypedInv, PageTyped
  <2>2. events' = <<event>> \o events
    BY <1>2, <1>7
  <2>3. /\ events' \in Seq(Event) /\ Len(events') = Len(events) + 1
        /\ DOMAIN events' = 1..(Len(events) + 1) /\ DOMAIN events = 1..Len(events)
        /\ events'[1] = event
        /\ \A k \in 2..(Len(events) + 1) : events'[k] = events[k - 1]
    BY <1>3, <2>1, <2>2
  <2>4. \A k \in DOMAIN events : events[k].id \in Nat /\ events[k].id # event.id
    <3>1. \A k \in DOMAIN events : events[k] \in Event
      BY <2>1
    <3> QED  BY <1>7, <3>1 DEF Event
  <2> HIDE DEF known
  <2>5. \A k \in DOMAIN events' :
          \/ k = 1
          \/ /\ k \in 2..(Len(events) + 1) /\ k - 1 \in DOMAIN events
             /\ events'[k] = events[k - 1]
    BY <2>1, <2>3
  <2>6. \A k \in DOMAIN events : k + 1 \in DOMAIN events' /\ events'[k + 1] = events[k]
    <3>1. \A k \in DOMAIN events :
            k + 1 \in DOMAIN events' /\ k + 1 \in 2..(Len(events) + 1) /\ (k + 1) - 1 = k
      BY <2>1, <2>3
    <3> QED  BY <2>3, <3>1
  <2>7. event.id \in Nat
    BY <1>3 DEF Event
  <2>8. event.id # 0 /\ Matches(event, eventFilter) /\ event.id \notin overtaken =>
          \A k \in DOMAIN events : Matches(events[k], eventFilter) => events[k].id < event.id
    BY <1>3, <2>4 DEF InOrder, Ahead
  <2>9. /\ \A k \in DOMAIN events' : k # 1 => (Displayed(k)' <=> Displayed(k - 1))
        /\ \A k \in DOMAIN events : Displayed(k + 1)' <=> Displayed(k)
        /\ Displayed(1)' => event.id # 0 /\ Matches(event, eventFilter)
    <3>1. \A k \in DOMAIN events : (k + 1) \in DOMAIN events' /\ k + 1 # 1
      BY <2>1, <2>3
    <3>2. \A e : Matches(e, eventFilter)' <=> Matches(e, eventFilter)
      BY <1>2 DEF Matches
    <3> QED  BY <2>3, <2>5, <2>6, <3>1, <3>2 DEF Displayed
  <2>10. Ordered'
    <3> SUFFICES ASSUME NEW i \in DOMAIN events', NEW j \in DOMAIN events', i < j,
                        Displayed(i)', Displayed(j)', events'[i].id \notin overtaken
                 PROVE  events'[i].id > events'[j].id
      BY <1>2 DEF Ordered
    <3>1. /\ j # 1 /\ j - 1 \in DOMAIN events /\ events'[j] = events[j - 1]
          /\ Displayed(j - 1)
      BY <2>3, <2>5, <2>9
    <3>2. CASE i = 1
      <4>1. Matches(events[j - 1], eventFilter)
        BY <3>1 DEF Displayed
      <4> QED  BY <2>3, <2>4, <2>7, <2>8, <2>9, <3>1, <3>2, <4>1
    <3>3. CASE i # 1
      <4>1. /\ i - 1 \in DOMAIN events /\ events'[i] = events[i - 1] /\ i - 1 < j - 1
            /\ Displayed(i - 1)
        BY <2>3, <2>5, <2>9, <3>3
      <4> QED  BY <3>1, <4>1 DEF InOrder, Ordered
    <3> QED  BY <3>2, <3>3
  <2>11. Bottom'
    <3> SUFFICES ASSUME oldest # 0
                 PROVE  /\ \E k \in DOMAIN events' : Displayed(k)' /\ events'[k].id = oldest
                        /\ \A k \in DOMAIN events' :
                             Displayed(k)' /\ events'[k].id \notin overtaken => events'[k].id >= oldest
      BY <1>2 DEF Bottom
    <3>1. PICK low \in DOMAIN events : Displayed(low) /\ events[low].id = oldest
      BY DEF InOrder, Bottom
    <3>2. Displayed(low + 1)' /\ events'[low + 1].id = oldest /\ low + 1 \in DOMAIN events'
      BY <2>6, <2>9, <3>1
    <3>3. ASSUME NEW k \in DOMAIN events', Displayed(k)', events'[k].id \notin overtaken
          PROVE  events'[k].id >= oldest
      <4>1. CASE k = 1
        <5>1. Matches(events[low], eventFilter) /\ oldest \in Nat
          BY <2>4, <3>1 DEF Displayed
        <5> QED  BY <2>3, <2>7, <2>8, <2>9, <3>1, <3>3, <4>1, <5>1
      <4>2. CASE k # 1
        <5>1. k - 1 \in DOMAIN events /\ events'[k] = events[k - 1] /\ Displayed(k - 1)
          BY <2>5, <2>9, <3>3, <4>2
        <5> QED  BY <3>3, <5>1 DEF InOrder, Bottom
      <4> QED  BY <4>1, <4>2
    <3> QED  BY <3>2, <3>3
  <2>12. Ahead(events)'
    <3> SUFFICES ASSUME NEW e \in rows, OnItsWay(e)', Matches(e, eventFilter), e.id \notin overtaken
                 PROVE  \/ \E k \in DOMAIN events' : events'[k].id = e.id
                        \/ \A k \in DOMAIN events' :
                             Matches(events'[k], eventFilter) => events'[k].id < e.id
      BY <1>2 DEF Ahead, Matches
    <3>1. OnItsWay(e) /\ event.id < e.id
      BY <1>3
    <3>2. CASE \E k \in DOMAIN events : events[k].id = e.id
      BY <2>6, <3>2
    <3>3. CASE \A k \in DOMAIN events : Matches(events[k], eventFilter) => events[k].id < e.id
      BY <2>3, <2>5, <3>1, <3>3
    <3> QED  BY <3>1, <3>2, <3>3 DEF InOrder, Ahead
  <2>13. PagesAhead'
    <3> SUFFICES ASSUME NEW i \in DOMAIN requests', Renews(i)', requests'[i].at = "read"
                 PROVE  Ahead(requests[i].page)'
      BY DEF PagesAhead
    <3>1. Ahead(requests[i].page)
      BY <1>2, <1>5 DEF InOrder, PagesAhead
    <3> QED  BY <1>2, <1>3, <3>1 DEF Ahead, Matches
  <2> QED  BY <2>10, <2>11, <2>12, <2>13 DEF InOrder
<1> QED  BY <1>6, <1>7

LEMMA AsideInOrder ==
  ASSUME TypedInv, WayInv, OrderInv,
         \/ Receive \/ Connect \/ Lose \/ LogIt \/ Stream
         \/ \E n \in Numbers : Publish(n)
  PROVE  WayInv' /\ OrderInv'
<1>1. TypedInv' /\ Aside
  BY AsideTyped
<1>2. UNCHANGED <<eventFilter, oldest, requests, filters, stale, overtaken>>
  BY <1>1 DEF Aside
<1>3. CASE Receive
  <2>1. UNCHANGED <<rows, saved, log, open, next, sent>>
    BY <1>3 DEF Receive, logVars, rowVars, sentVars
  <2>2. WayInv'
    BY <2>1 DEF WayInv, InRows, Rises, SavedLast, SentFirst, Under, Unsent
  <2>3. InOrder => InOrder'
    BY <1>1, <1>3, ReceiveInOrder
  <2> QED  BY <1>2, <2>2, <2>3 DEF OrderInv
<1>4. CASE Connect \/ Lose \/ LogIt \/ Stream \/ \E n \in Numbers : Publish(n)
  <2>1. WayInv' /\ Onward
    BY <1>4, PublishOnward, LogOnward, StreamOnward, ConnectOnward
  <2>2. UNCHANGED events
    BY <1>4 DEF Connect, Lose, LogIt, Stream, Publish, pageVars
  <2>3. \A i \in DOMAIN requests' : Renews(i)' => Renews(i)
    BY <1>2 DEF Renews, Stale
  <2>4. InOrder => InOrder'
    BY <1>1, <1>2, <2>1, <2>2, <2>3, StillInOrder
  <2> QED  BY <1>2, <2>1, <2>4 DEF OrderInv
<1> QED  BY <1>3, <1>4

LEMMA SetFilterInOrder ==
  ASSUME TypedInv, NEW filter \in Filters, SetFilter(filter)
  PROVE  OrderInv'
<1>1. PICK r : r = [kind |-> "first", before |-> 0, filter |-> filter, era |-> filters + 1,
                    page |-> <<>>, at |-> "asked"]
  OBVIOUS
<1>2. OneMore(r)
  BY <1>1, SetFilterTyped
<1>3. filters' = filters + 1 /\ events' = <<>> /\ oldest' = 0
  BY DEF SetFilter
<1>4. Ordered' /\ Bottom' /\ Ahead(events)'
  BY <1>3 DEF Ordered, Bottom, Ahead
<1>5. PagesAhead'
  <2> SUFFICES ASSUME NEW i \in DOMAIN requests', requests'[i].era = filters',
                      requests'[i].at = "read"
               PROVE  FALSE
    BY DEF PagesAhead, Renews, Stale
  <2>1. requests'[i] # r
    BY <1>1
  <2>2. PICK k \in DOMAIN requests : requests'[i] = requests[k]
    BY <1>2, <2>1 DEF OneMore
  <2>3. requests[k].era \in Nat /\ requests[k].era <= filters /\ filters \in Nat
    BY RequestTyped DEF TypedInv, Sound, PageTyped
  <2> QED  BY <1>3, <2>2, <2>3
<1> QED  BY <1>4, <1>5 DEF InOrder, OrderInv

(* A page that is asked for, or does not come, changes nothing.            *)
LEMMA NothingShown ==
  ASSUME TypedInv, TypedInv', WayInv, OrderInv,
         LoadMore \/ (\E i \in DOMAIN requests : NoPage(i)) \/ UNCHANGED feedVars
  PROVE  OrderInv'
<1>1. UNCHANGED <<logVars, events, eventFilter, oldest, read, stale, overtaken, filters>>
  BY DEF LoadMore, NoPage, feedVars, pageVars, countVars
<1>2. UNCHANGED <<rows, lastId, saved, log, open, next, sent, read>>
  BY <1>1, ServerStays DEF TypedInv
<1>3. ASSUME NEW j \in DOMAIN requests', requests'[j].at = "read"
      PROVE  \E k \in DOMAIN requests : requests'[j] = requests[k]
  <2>1. CASE LoadMore
    <3>1. PICK r : r = [kind |-> "more", before |-> oldest, filter |-> eventFilter,
                        era |-> filters, page |-> <<>>, at |-> "asked"]
      OBVIOUS
    <3>2. requests'[j] # r
      BY <1>3, <3>1
    <3> QED  BY <2>1, <3>1, <3>2, LoadMoreTyped DEF OneMore
  <2>2. CASE \E i \in DOMAIN requests : NoPage(i)
    BY <2>2, NoPageTyped DEF OneFewer
  <2>3. CASE UNCHANGED feedVars
    BY <2>3 DEF feedVars
  <2> QED  BY <2>1, <2>2, <2>3
<1>4. ASSUME NEW j \in DOMAIN requests', Renews(j)', requests'[j].at = "read"
      PROVE  \E k \in DOMAIN requests :
               /\ Renews(k) /\ requests[k].at = "read"
               /\ requests'[j].page = requests[k].page
  BY <1>1, <1>3, <1>4 DEF Renews, Stale
<1>5. InOrder => InOrder'
  <2>1. Onward
    BY <1>2, StillOnward
  <2> QED  BY <1>1, <1>4, <2>1, StillInOrder
<1> QED  BY <1>1, <1>5 DEF OrderInv

(* A first page that is read is ahead of what is on its way, but for what  *)
(* it overtakes.                                                           *)
LEMMA AnswerInOrder ==
  ASSUME TypedInv, TypedInv', WayInv, OrderInv, NEW i \in DOMAIN requests, NEW page,
         Answered(i, page)
  PROVE  OrderInv'
<1>1. /\ UNCHANGED <<logVars, events, eventFilter, oldest, read, stale, filters>>
      /\ overtaken' = overtaken \cup (IF Renews(i) THEN Overtaken(page) ELSE {})
  BY DEF Answered, Got, Answer, pageVars
<1>2. UNCHANGED <<rows, lastId, saved, log, open, next, sent, read>>
  BY <1>1, ServerStays DEF TypedInv
<1>3. /\ \A j \in DOMAIN requests' : j \in DOMAIN requests /\ (j # i => requests'[j] = requests[j])
      /\ requests'[i] = [requests[i] EXCEPT !.at = "read", !.page = page]
  BY AnswerTyped DEF Answered
<1>4. PICK r : r = requests[i] /\ r \in Request /\ Sound(r)
  BY RequestTyped DEF TypedInv
<1>5. requests'[i].page = page /\ requests'[i].kind = r.kind /\ requests'[i].era = r.era
  BY <1>3, <1>4 DEF Request
<1>6. ASSUME r.kind = "first", r.era = filters
      PROVE  Ahead(page)'
  <2>1. Renews(i) /\ r.before = 0 /\ r.filter = eventFilter
    BY <1>4, <1>6 DEF Renews, Stale, Sound
  <2> SUFFICES ASSUME NEW e \in rows, OnItsWay(e), Matches(e, eventFilter), e.id \notin overtaken'
               PROVE  \/ \E k \in DOMAIN page : page[k].id = e.id
                      \/ page = <<>>
    BY <1>1, <1>2 DEF Ahead, Matches, OnItsWay
  <2>2. e \in Wanted(0, eventFilter)
    BY DEF Wanted
  <2>3. \/ \E k \in DOMAIN page : page[k] = e
        \/ page = <<>> \/ e.id < Last(page).id
    BY <1>4, <2>1, <2>2 DEF Answered
  <2>4. ~(page # <<>> /\ e.id < Last(page).id)
    BY <1>1, <2>1, <2>2 DEF Overtaken
  <2> QED  BY <2>3, <2>4
<1>7. ASSUME NEW j \in DOMAIN requests', Renews(j)', requests'[j].at = "read"
      PROVE  \/ Ahead(requests[j].page)'
             \/ \E k \in DOMAIN requests :
                  /\ Renews(k) /\ requests[k].at = "read"
                  /\ requests'[j].page = requests[k].page
  <2>1. CASE j = i
    <3>1. Ahead(page)'
      BY <1>1, <1>5, <1>6, <1>7, <2>1 DEF Renews, Stale
    <3>2. page = requests'[j].page
      BY <1>5, <2>1
    <3> QED  BY <3>1, <3>2
  <2>2. CASE j # i
    BY <1>1, <1>3, <1>7, <2>2 DEF Renews, Stale
  <2> QED  BY <2>1, <2>2
<1>8. InOrder => InOrder'
  <2>1. Onward
    BY <1>2, StillOnward
  <2> QED  BY <1>1, <1>7, <2>1, StillInOrder
<1> QED  BY <1>1, <1>8 DEF OrderInv

(* A current first page is the only one that is current.                   *)
LEMMA OnlyOneFirst ==
  ASSUME TypedInv, NEW i \in DOMAIN requests, Renews(i), UNCHANGED filters, OneFewer(i),
         NEW j \in DOMAIN requests', Renews(j)'
  PROVE  FALSE
<1>1. PICK k \in DOMAIN requests : k # i /\ requests'[j] = requests[k]
  BY DEF OneFewer
<1>2. Renews(k)
  BY <1>1 DEF Renews, Stale
<1>3. Alike(requests[k], requests[i])
  BY <1>2 DEF Renews, Stale, Alike
<1> QED  BY <1>1, <1>3 DEF TypedInv, RequestsSound

LEMMA ArriveFirstInOrder ==
  ASSUME TypedInv, OrderInv, NEW i \in DOMAIN requests, ArriveFirst(i)
  PROVE  OrderInv'
<1>1. PICK r : r = requests[i] /\ r \in Request /\ Sound(r)
  BY RequestTyped DEF TypedInv
<1>2. PICK page : page = r.page
  OBVIOUS
<1>3. /\ r.kind = "first" /\ r.at = "read"
      /\ events' = page /\ oldest' = IF page = <<>> THEN 0 ELSE Last(page).id
      /\ stale' = (stale \/ Stale(i))
      /\ UNCHANGED <<logVars, eventFilter, read, overtaken, filters>>
  BY <1>1, <1>2 DEF ArriveFirst, countVars
<1>4. UNCHANGED <<rows, lastId, saved, log, open, next, sent, read>>
  BY <1>3, ServerStays DEF TypedInv
<1> SUFFICES ASSUME ~stale' PROVE InOrder'
  BY DEF OrderInv
<1>5. ~stale /\ ~Stale(i)
  BY <1>3, Zenon
<1>6. Renews(i) /\ r.filter = eventFilter
  BY <1>1, <1>3, <1>5 DEF Renews, Stale, Sound
<1>7. /\ page \in Seq(Event) /\ Falls(page) /\ \A k \in DOMAIN page : page[k].id \in 1..lastId
      /\ page # <<>> => Len(page) \in DOMAIN page /\ Last(page) = page[Len(page)]
  BY <1>1, <1>2, PageFits
<1>8. \A k \in DOMAIN page : Displayed(k)'
  BY <1>1, <1>2, <1>3, <1>6, <1>7 DEF Displayed, Matches, Sound
<1>9. Ordered'
  BY <1>3, <1>7 DEF Ordered, Falls
<1>10. Bottom'
  <2> SUFFICES ASSUME page # <<>>
               PROVE  /\ \E k \in DOMAIN page : Displayed(k)' /\ page[k].id = Last(page).id
                      /\ \A k \in DOMAIN page : page[k].id >= Last(page).id
    BY <1>3 DEF Bottom
  <2>1. \A k \in DOMAIN page : k = Len(page) \/ k < Len(page)
    BY <1>7
  <2>2. \A k \in DOMAIN page : page[k].id \in Nat
    BY <1>7
  <2> QED  BY <1>7, <1>8, <2>1, <2>2 DEF Falls
<1>11. Ahead(events)'
  <2>1. Ahead(page)
    BY <1>1, <1>2, <1>3, <1>5, <1>6 DEF OrderInv, InOrder, PagesAhead
  <2> QED  BY <1>3, <1>4, <2>1 DEF Ahead, Matches, OnItsWay
<1>12. PagesAhead'
  BY <1>3, <1>6, OnlyOneFirst, ArriveFirstTyped DEF PagesAhead
<1> QED  BY <1>9, <1>10, <1>11, <1>12 DEF InOrder

LEMMA ArriveMoreInOrder ==
  ASSUME TypedInv, ShownInv, OrderInv, NEW i \in DOMAIN requests, ArriveMore(i)
  PROVE  OrderInv'
<1>1. PICK r : r = requests[i] /\ r \in Request /\ Sound(r)
  BY RequestTyped DEF TypedInv
<1>2. PICK page : page = r.page
  OBVIOUS
<1>3. /\ r.kind = "more" /\ r.at = "read"
      /\ events' = events \o page /\ oldest' = IF page = <<>> THEN oldest ELSE Last(page).id
      /\ stale' = (stale \/ Stale(i))
      /\ UNCHANGED <<logVars, eventFilter, read, overtaken, filters>>
  BY <1>1, <1>2 DEF ArriveMore, countVars
<1>4. UNCHANGED <<rows, lastId, saved, log, open, next, sent, read>>
  BY <1>3, ServerStays DEF TypedInv
<1> SUFFICES ASSUME ~stale' PROVE InOrder'
  BY DEF OrderInv
<1>5. ~stale /\ ~Stale(i)
  BY <1>3, Zenon
<1>6. InOrder /\ Shown /\ r.era = filters /\ r.filter = eventFilter
  BY <1>1, <1>5 DEF OrderInv, ShownInv, Stale, Sound
<1>7. oldest # 0 /\ oldest = r.before /\ oldest \in Nat
  <2>1. Holds(r)
    BY <1>1, <1>6 DEF Shown, RequestsHold
  <2> QED  BY <1>1, <1>3, <1>6, <2>1 DEF Holds, Sound, Request
<1>8. /\ page \in Seq(Event) /\ Falls(page)
      /\ \A k \in DOMAIN page : /\ page[k].id \in Nat /\ page[k].id # 0 /\ page[k].id < oldest
                                /\ Matches(page[k], eventFilter)
      /\ page # <<>> => Len(page) \in DOMAIN page /\ Last(page) = page[Len(page)]
  <2>1. /\ page \in Seq(Event) /\ Falls(page) /\ \A k \in DOMAIN page : page[k].id \in 1..lastId
        /\ page # <<>> => Len(page) \in DOMAIN page /\ Last(page) = page[Len(page)]
    BY <1>1, <1>2, PageFits
  <2>2. \A k \in DOMAIN page : page[k].id < oldest /\ Matches(page[k], eventFilter)
    BY <1>1, <1>2, <1>6, <1>7 DEF Sound
  <2>3. \A k \in DOMAIN page : page[k].id \in Nat /\ page[k].id # 0
    BY <2>1
  <2> QED  BY <2>1, <2>2, <2>3
<1>9. events \in Seq(Event) /\ \A k \in DOMAIN events : events[k].id \in Nat
  <2>1. events \in Seq(Event)
    BY DEF TypedInv, PageTyped
  <2>2. \A k \in DOMAIN events : events[k] \in Event
    BY <2>1
  <2> QED  BY <2>1, <2>2 DEF Event
<1>10. PICK n : n = Len(events) /\ n \in Nat
  BY <1>9
<1>11. /\ \A k \in DOMAIN events' :
            \/ k \in DOMAIN events /\ events'[k] = events[k]
            \/ k > n /\ k - n \in DOMAIN page /\ events'[k] = page[k - n]
       /\ \A k \in DOMAIN events : k <= n /\ k \in DOMAIN events' /\ events'[k] = events[k]
       /\ \A k \in DOMAIN page : k + n \in DOMAIN events' /\ events'[k + n] = page[k]
  BY <1>3, <1>8, <1>9, <1>10, Joined
<1>12. /\ \A k \in DOMAIN events : k \in Nat
       /\ \A k \in DOMAIN events' : k \in Nat
       /\ \A k \in DOMAIN page : k \in Nat
  <2>1. events' \in Seq(Event)
    BY <1>3, <1>8, <1>9, ConcatProperties
  <2> QED  BY <1>8, <1>9, <2>1
<1>13. \A e : Matches(e, eventFilter)' <=> Matches(e, eventFilter)
  BY <1>3 DEF Matches
<1>14. /\ \A k \in DOMAIN events : Displayed(k)' <=> Displayed(k)
       /\ \A k \in DOMAIN page : Displayed(k + n)'
  BY <1>8, <1>11, <1>13 DEF Displayed
<1>15. PICK low \in DOMAIN events : Displayed(low) /\ events[low].id = oldest
  BY <1>6, <1>7 DEF InOrder, Bottom
<1>16. \A k \in DOMAIN events :
         Displayed(k) /\ events[k].id \notin overtaken => events[k].id >= oldest
  BY <1>6, <1>7 DEF InOrder, Bottom
<1>17. Ordered'
  <2> SUFFICES ASSUME NEW j \in DOMAIN events', NEW k \in DOMAIN events', j < k,
                      Displayed(j)', Displayed(k)', events'[j].id \notin overtaken
               PROVE  events'[j].id > events'[k].id
    BY <1>3 DEF Ordered
  <2>1. CASE j \in DOMAIN events /\ k \in DOMAIN events
    BY <1>6, <1>11, <1>14, <2>1 DEF InOrder, Ordered
  <2>2. CASE j \in DOMAIN events /\ k > n /\ k - n \in DOMAIN page /\ events'[k] = page[k - n]
    <3>1. events'[j].id >= oldest /\ events'[j].id \in Nat
      BY <1>9, <1>11, <1>14, <1>16, <2>2
    <3> QED  BY <1>7, <1>8, <2>2, <3>1
  <2>3. CASE /\ j > n /\ j - n \in DOMAIN page /\ events'[j] = page[j - n]
             /\ k > n /\ k - n \in DOMAIN page /\ events'[k] = page[k - n]
    <3>1. j - n < k - n
      BY <1>10, <1>12, <2>3
    <3> QED  BY <1>8, <2>3, <3>1 DEF Falls
  <2>4. ~(j > n /\ k \in DOMAIN events)
    BY <1>10, <1>11, <1>12
  <2> QED  BY <1>11, <2>1, <2>2, <2>3, <2>4
<1>18. Bottom'
  <2>1. CASE page = <<>>
    <3>1. events' = events /\ oldest' = oldest
      BY <1>3, <1>9, <2>1
    <3> QED  BY <1>3, <1>6, <1>14, <3>1 DEF InOrder, Bottom
  <2>2. CASE page # <<>>
    <3>1. PICK m \in DOMAIN page : oldest' = page[m].id /\ m = Len(page)
      BY <1>3, <1>8, <2>2
    <3>2. Displayed(m + n)' /\ events'[m + n].id = oldest' /\ m + n \in DOMAIN events'
      BY <1>11, <1>14, <3>1
    <3>3. \A k \in DOMAIN page : page[k].id >= oldest'
      <4>1. \A k \in DOMAIN page : k = m \/ k < m
        BY <1>8, <3>1
      <4> QED  BY <1>8, <3>1, <4>1 DEF Falls
    <3>4. oldest' \in Nat /\ oldest' < oldest
      BY <1>8, <3>1
    <3>5. ASSUME NEW k \in DOMAIN events', Displayed(k)', events'[k].id \notin overtaken
          PROVE  events'[k].id >= oldest'
      <4>1. CASE k \in DOMAIN events
        <5>1. events'[k].id >= oldest /\ events'[k].id \in Nat
          BY <1>9, <1>11, <1>14, <1>16, <3>5, <4>1
        <5> QED  BY <1>7, <3>4, <5>1
      <4>2. CASE k - n \in DOMAIN page /\ events'[k] = page[k - n]
        BY <3>3, <4>2
      <4> QED  BY <1>11, <4>1, <4>2
    <3> QED  BY <1>3, <3>2, <3>5 DEF Bottom
  <2> QED  BY <2>1, <2>2
<1>19. Ahead(events)'
  <2> SUFFICES ASSUME NEW e \in rows, OnItsWay(e), Matches(e, eventFilter), e.id \notin overtaken
               PROVE  \/ \E k \in DOMAIN events' : events'[k].id = e.id
                      \/ \A k \in DOMAIN events' :
                           Matches(events'[k], eventFilter) => events'[k].id < e.id
    BY <1>3, <1>4, <1>13 DEF Ahead, OnItsWay
  <2>1. CASE \E k \in DOMAIN events : events[k].id = e.id
    BY <1>11, <2>1
  <2>2. CASE \A k \in DOMAIN events : Matches(events[k], eventFilter) => events[k].id < e.id
    <3>1. oldest < e.id /\ e.id \in Nat
      BY <1>15, <2>2 DEF Displayed, TypedInv, ServerInv, ServerTyped, RowsDistinct
    <3>2. \A k \in DOMAIN page : page[k].id < e.id
      BY <1>7, <1>8, <3>1
    <3> QED  BY <1>11, <2>2, <3>2
  <2> QED  BY <1>6, <2>1, <2>2 DEF InOrder, Ahead
<1>20. PagesAhead'
  <2> SUFFICES ASSUME NEW j \in DOMAIN requests', Renews(j)', requests'[j].at = "read"
               PROVE  Ahead(requests[j].page)'
    BY DEF PagesAhead
  <2>1. PICK k \in DOMAIN requests : requests'[j] = requests[k]
    BY ArriveMoreTyped DEF OneFewer
  <2>2. Renews(k) /\ requests[k].at = "read"
    BY <1>3, <2>1 DEF Renews, Stale
  <2>3. PICK list : list = requests[k].page /\ Ahead(list)
    BY <1>6, <2>2 DEF InOrder, PagesAhead
  <2>4. Ahead(list)'
    BY <1>3, <1>4, <2>3 DEF Ahead, Matches, OnItsWay
  <2> QED  BY <2>1, <2>3, <2>4
<1> QED  BY <1>17, <1>18, <1>19, <1>20 DEF InOrder

LEMMA OrderKept ==
  TypedInv /\ ShownInv /\ WayInv /\ OrderInv /\ [FeedNext]_feedVars => WayInv' /\ OrderInv'
<1> SUFFICES ASSUME TypedInv, ShownInv, WayInv, OrderInv, [FeedNext]_feedVars
             PROVE  WayInv' /\ OrderInv'
  OBVIOUS
<1>1. TypedInv'
  BY TypesKept
<1>2. CASE \/ Receive \/ Connect \/ Lose \/ LogIt \/ Stream
           \/ \E n \in Numbers : Publish(n)
  BY <1>2, AsideInOrder
<1>3. ASSUME UNCHANGED <<logVars, read>>
      PROVE  WayInv'
  BY <1>3, ServerStays, StillOnward DEF TypedInv
<1>4. ASSUME NEW filter \in {"all", "allow", "block"}, SetFilter(filter)
      PROVE  WayInv' /\ OrderInv'
  <2>1. UNCHANGED <<logVars, read>>
    BY <1>4 DEF SetFilter
  <2> QED  BY <1>3, <1>4, <2>1, SetFilterInOrder DEF Filters
<1>5. CASE LoadMore \/ (\E i \in DOMAIN requests : NoPage(i)) \/ UNCHANGED feedVars
  <2>1. UNCHANGED <<logVars, read>>
    BY <1>5 DEF LoadMore, NoPage, feedVars
  <2>2. OrderInv'
    BY <1>1, <1>5, NothingShown, Zenon
  <2> QED  BY <1>3, <2>1, <2>2
<1>6. ASSUME NEW i \in DOMAIN requests, ReadPage(i) \/ ReadPart(i)
      PROVE  WayInv' /\ OrderInv'
  <2>1. UNCHANGED <<logVars, read>>
    BY <1>6 DEF ReadPage, ReadPart, Answer
  <2> QED  BY <1>1, <1>3, <1>6, <2>1, Reads, AnswerInOrder
<1>7. ASSUME NEW i \in DOMAIN requests, ArriveFirst(i) \/ ArriveMore(i)
      PROVE  WayInv' /\ OrderInv'
  <2>1. UNCHANGED <<logVars, read>>
    BY <1>7 DEF ArriveFirst, ArriveMore
  <2> QED  BY <1>3, <1>7, <2>1, ArriveFirstInOrder, ArriveMoreInOrder
<1> QED  BY <1>2, <1>4, <1>5, <1>6, <1>7 DEF FeedNext

(* Pages and stream merge into one list of falling ids, each once, as long *)
(* as no answer to the last filter was merged, but for the events that     *)
(* were still on their way when the first page left them out.              *)
THEOREM FeedOrdered == FeedSpec => []FeedInOrder
<1>1. OrderInv => FeedInOrder
  BY DEF OrderInv, InOrder, Ordered, FeedInOrder
<1> QED  BY <1>1, FirstTypes, FirstShown, FirstWay, FirstOrder, TypesKept, ShownKept,
            OrderKept, PTL DEF FeedSpec

(* Once the first page is there, and as long as no answer to the last      *)
(* filter was merged, every event of the filter in the table is in the     *)
(* feed, on its way by the stream, below the point from which more is      *)
(* loaded, or one that the stream left out or brought without its id, that *)
(* the first page took the place of, or that a page cut short left out.    *)
THEOREM NothingMissing == FeedSpec => []NothingElseLost
<1>1. ShownInv => NothingElseLost
  BY DEF ShownInv, Shown, Complete, NothingElseLost
<1> QED  BY <1>1, FirstTypes, FirstShown, TypesKept, ShownKept, PTL DEF FeedSpec

-----------------------------------------------------------------------------
(* The server's side of the feed is EventLog: whatever the browser does,   *)
(* the table, the log and the streams go no way that EventLog, and with it *)
(* EventService, does not allow.                                           *)
THEOREM FeedOnEventLog == FeedSpec => Spec
<1>1. FeedInit => Init
  BY DEF FeedInit
<1>2. [FeedNext]_feedVars => [Next]_logVars
  <2> SUFFICES ASSUME [FeedNext]_feedVars PROVE [Next]_logVars
    OBVIOUS
  <2>1. Browser \in Streams
    BY FeedAssumption
  <2>2. ASSUME NEW n \in Numbers, Publish(n)
        PROVE  Next
    BY <2>2 DEF Publish, Next
  <2>3. CASE LogIt
    BY <2>3 DEF LogIt, Next
  <2>4. CASE Stream \/ Connect \/ Lose
    BY <2>1, <2>4 DEF Stream, Connect, Lose, Next
  <2>5. CASE \/ \E filter \in {"all", "allow", "block"} : SetFilter(filter)
             \/ LoadMore \/ Receive \/ UNCHANGED feedVars
    BY <2>5 DEF SetFilter, LoadMore, Receive, feedVars
  <2>6. ASSUME NEW i \in DOMAIN requests, ReadPage(i) \/ ReadPart(i)
        PROVE  UNCHANGED logVars
    BY <2>6 DEF ReadPage, ReadPart, Answer
  <2>7. ASSUME NEW i \in DOMAIN requests, ArriveFirst(i) \/ ArriveMore(i) \/ NoPage(i)
        PROVE  UNCHANGED logVars
    BY <2>7 DEF ArriveFirst, ArriveMore, NoPage
  <2> QED  BY <2>2, <2>3, <2>4, <2>5, <2>6, <2>7 DEF FeedNext
<1> QED  BY <1>1, <1>2, PTL DEF FeedSpec, Spec
=============================================================================
