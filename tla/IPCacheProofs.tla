--------------------------- MODULE IPCacheProofs -----------------------------
(***************************************************************************)
(* Proofs about IPCache for any set of IPs, any records and any size: its  *)
(* invariants, and that it is a least-recently-used cache, by its own      *)
(* order and by that of the calls.                                         *)
(***************************************************************************)
EXTENDS CacheUse, FiniteSetTheorems, SequenceTheorems, TLAPS

(* The pairs of an order without those that mention e, and the pairs that  *)
(* put e before each element of D.                                         *)
Excluding(e, order) == {p \in order : p[1] # e /\ p[2] # e}
Ahead(e, D) == {<<e, x>> : x \in D}

(***************************************************************************)
(* Lists.                                                                  *)
(***************************************************************************)
(* RemoveAt closes the gap and keeps the other elements where they were.   *)
LEMMA RemoveAtElements ==
  ASSUME NEW S, NEW s \in Seq(S), NEW i \in 1..Len(s)
  PROVE  /\ Lists!RemoveAt(s, i) \in Seq(S)
         /\ Len(Lists!RemoveAt(s, i)) = Len(s) - 1
         /\ \A j \in 1..(Len(s) - 1) :
              Lists!RemoveAt(s, i)[j] = IF j < i THEN s[j] ELSE s[j + 1]
<1> DEFINE left == SubSeq(s, 1, i - 1)
           right == SubSeq(s, i + 1, Len(s))
<1>1. Len(s) \in Nat /\ \A j \in 1..Len(s) : s[j] \in S
  BY ElementOfSeq, LenProperties
<1>2. /\ left \in Seq(S)
      /\ Len(left) = i - 1
      /\ \A j \in 1..(i - 1) : left[j] = s[j]
  BY <1>1, SubSeqProperties
<1>3. /\ right \in Seq(S)
      /\ Len(right) = Len(s) - i
      /\ \A j \in 1..(Len(s) - i) : right[j] = s[i + j]
  BY <1>1, SubSeqProperties
<1>4. /\ left \o right \in Seq(S)
      /\ Len(left \o right) = Len(s) - 1
      /\ \A j \in 1..(Len(s) - 1) :
           (left \o right)[j] = IF j < i THEN s[j] ELSE s[j + 1]
  <2> HIDE DEF left, right
  <2>1. /\ left \o right \in Seq(S)
        /\ Len(left \o right) = Len(left) + Len(right)
        /\ \A j \in 1..(Len(left) + Len(right)) :
             (left \o right)[j]
               = IF j <= Len(left) THEN left[j] ELSE right[j - Len(left)]
    BY <1>2, <1>3, ConcatProperties
  <2>2. Len(left) + Len(right) = Len(s) - 1
    BY <1>1, <1>2, <1>3
  <2>3. ASSUME NEW j \in 1..(Len(s) - 1)
        PROVE  (left \o right)[j] = IF j < i THEN s[j] ELSE s[j + 1]
    <3>1. CASE j < i
      BY <1>1, <1>2, <2>1, <2>2, <2>3, <3>1
    <3>2. CASE ~(j < i)
      <4>1. j - (i - 1) \in 1..(Len(s) - i) /\ i + (j - (i - 1)) = j + 1
        BY <1>1, <2>3, <3>2
      <4>2. right[j - (i - 1)] = s[j + 1]
        BY <1>3, <4>1
      <4>3. (left \o right)[j] = right[j - (i - 1)]
        BY <1>1, <1>2, <2>1, <2>2, <2>3, <3>2
      <4> QED  BY <3>2, <4>2, <4>3
    <3> QED  BY <3>1, <3>2
  <2> QED  BY <2>1, <2>2, <2>3
<1> QED  BY <1>4 DEF Lists!RemoveAt

(* Dropping the last element is removing it.                               *)
LEMMA FrontIsRemoveAt ==
  ASSUME NEW S, NEW s \in Seq(S), s # <<>>
  PROVE  /\ Lists!Front(s) = Lists!RemoveAt(s, Len(s))
         /\ Len(s) \in 1..Len(s)
<1>1. Len(s) \in Nat \ {0} /\ \A j \in 1..Len(s) : s[j] \in S
  BY ElementOfSeq, EmptySeq
<1>2. /\ Lists!Front(s) \in Seq(S)
      /\ Len(Lists!Front(s)) = Len(s) - 1
      /\ \A j \in 1..(Len(s) - 1) : Lists!Front(s)[j] = s[j]
  <2> DEFINE n == Len(s) - 1
  <2>1. n \in Nat /\ \A j \in 1..n : s[j] \in S
    BY <1>1
  <2> HIDE DEF n
  <2>2. /\ SubSeq(s, 1, n) \in Seq(S)
        /\ Len(SubSeq(s, 1, n)) = n
        /\ \A j \in 1..n : SubSeq(s, 1, n)[j] = s[j]
    BY <2>1, SubSeqProperties
  <2> QED  BY <2>2 DEF Lists!Front, n
<1>3. /\ Lists!RemoveAt(s, Len(s)) \in Seq(S)
      /\ Len(Lists!RemoveAt(s, Len(s))) = Len(s) - 1
      /\ \A j \in 1..(Len(s) - 1) : Lists!RemoveAt(s, Len(s))[j] = s[j]
  BY <1>1, RemoveAtElements
<1> QED  BY <1>1, <1>2, <1>3, SeqEqual

(* Removing an element of a listing removes it and nothing else.           *)
LEMMA RemovedListing ==
  ASSUME NEW S, NEW D, NEW s \in Seq(S), NEW i \in 1..Len(s), IsListing(s, D)
  PROVE  /\ Lists!RemoveAt(s, i) \in Seq(S)
         /\ IsListing(Lists!RemoveAt(s, i), D \ {s[i]})
         /\ Order(Lists!RemoveAt(s, i)) = Excluding(s[i], Order(s))
<1> DEFINE t == Lists!RemoveAt(s, i)
           n == Len(s)
<1>1. n \in Nat /\ DOMAIN s = 1..n
  BY LenProperties
<1>2. /\ t \in Seq(S) /\ DOMAIN t = 1..(n - 1)
      /\ \A j \in 1..(n - 1) : t[j] = IF j < i THEN s[j] ELSE s[j + 1]
  BY RemoveAtElements, LenProperties
<1> HIDE DEF t, n
<1>3. \A j, k \in 1..n : s[j] = s[k] => j = k
  BY <1>1 DEF IsListing
(* Every element but s[i] has a place in t, and places keep their order.   *)
<1> DEFINE place(j) == IF j < i THEN j ELSE j - 1
<1>4. \A j \in 1..n : j # i => place(j) \in 1..(n - 1) /\ t[place(j)] = s[j]
  <2>1. i \in 1..n
    BY DEF n
  <2> QED  BY <1>1, <1>2, <2>1
<1>5. \A j \in 1..(n - 1) : \E k \in 1..n : k # i /\ place(k) = j /\ t[j] = s[k]
  <2> SUFFICES ASSUME NEW j \in 1..(n - 1)
               PROVE \E k \in 1..n : k # i /\ place(k) = j /\ t[j] = s[k]
    OBVIOUS
  <2>1. CASE j < i
    BY <1>1, <1>2, <2>1 DEF n
  <2>2. CASE ~(j < i)
    <3>1. /\ j + 1 \in 1..n /\ j + 1 # i /\ place(j + 1) = j /\ t[j] = s[j + 1]
      BY <1>1, <1>2, <2>2 DEF n
    <3> QED  BY <3>1
  <2> QED  BY <2>1, <2>2
<1>6. \A j, k \in 1..n : j # i /\ k # i => (j < k <=> place(j) < place(k))
  BY <1>1 DEF n
<1> HIDE DEF place
<1>7. \A j, k \in DOMAIN t : t[j] = t[k] => j = k
  BY <1>2, <1>3, <1>5
<1>8. Range(t) = D \ {s[i]}
  <2>1. Range(s) = D
    BY DEF IsListing
  <2>2. i \in 1..n
    BY DEF n
  <2>3. Range(s) = {s[j] : j \in 1..n} /\ Range(t) = {t[j] : j \in 1..(n - 1)}
    BY <1>1, <1>2 DEF Range
  <2>4. ASSUME NEW x \in D, x # s[i]
        PROVE  x \in Range(t)
    <3>1. PICK j \in 1..n : s[j] = x
      BY <2>1, <2>3
    <3> QED  BY <1>4, <2>3, <2>4, <3>1
  <2>5. ASSUME NEW x \in Range(t)
        PROVE  x \in D /\ x # s[i]
    <3>1. PICK j \in 1..(n - 1) : t[j] = x
      BY <2>3
    <3>2. PICK k \in 1..n : k # i /\ t[j] = s[k]
      BY <1>5
    <3> QED  BY <1>3, <2>1, <2>2, <2>3, <3>1, <3>2
  <2> QED  BY <2>4, <2>5
<1>9. Order(t) = Excluding(s[i], Order(s))
  <2>1. ASSUME NEW p \in Order(t)
        PROVE  p \in Order(s) /\ p[1] # s[i] /\ p[2] # s[i]
    <3>1. PICK j, k \in 1..(n - 1) : j < k /\ t[j] = p[1] /\ t[k] = p[2]
      BY <1>2, <2>1 DEF Order
    <3>2. PICK u, v \in 1..n : /\ u # i /\ place(u) = j /\ t[j] = s[u]
                               /\ v # i /\ place(v) = k /\ t[k] = s[v]
      BY <1>5
    <3>3. u < v
      BY <1>6, <3>1, <3>2
    <3>4. p[1] # s[i] /\ p[2] # s[i]
      BY <1>3, <3>1, <3>2 DEF n
    <3>5. p \in Range(s) \X Range(s)
      BY <1>1, <1>8, <2>1, <3>1, <3>2 DEF Order, IsListing
    <3> QED  BY <1>1, <3>1, <3>2, <3>3, <3>4, <3>5 DEF Order
  <2>2. ASSUME NEW p \in Order(s), p[1] # s[i], p[2] # s[i]
        PROVE  p \in Order(t)
    <3>1. PICK u, v \in 1..n : u < v /\ s[u] = p[1] /\ s[v] = p[2]
      BY <1>1 DEF Order
    <3>2. u # i /\ v # i
      BY <2>2, <3>1
    <3>3. /\ place(u) < place(v)
          /\ place(u) \in 1..(n - 1) /\ t[place(u)] = p[1]
          /\ place(v) \in 1..(n - 1) /\ t[place(v)] = p[2]
      BY <1>4, <1>6, <3>1, <3>2
    <3>4. p \in Range(t) \X Range(t)
      BY <1>8, <2>2 DEF Order, IsListing
    <3> QED  BY <1>2, <3>3, <3>4 DEF Order
  <2> QED  BY <2>1, <2>2 DEF Excluding
<1> QED  BY <1>2, <1>7, <1>8, <1>9 DEF IsListing, t

(* An element put in front of a listing comes before all of it.            *)
LEMMA PushedListing ==
  ASSUME NEW S, NEW D, NEW s \in Seq(S), IsListing(s, D), NEW e \in S \ D
  PROVE  /\ <<e>> \o s \in Seq(S)
         /\ IsListing(<<e>> \o s, D \cup {e})
         /\ Order(<<e>> \o s) = Order(s) \cup Ahead(e, D)
<1> DEFINE t == <<e>> \o s
           n == Len(s)
<1>1. n \in Nat /\ DOMAIN s = 1..n
  BY LenProperties
<1>2. /\ t \in Seq(S) /\ DOMAIN t = 1..(n + 1)
      /\ \A j \in 1..(n + 1) : t[j] = IF j = 1 THEN e ELSE s[j - 1]
  OBVIOUS
<1> HIDE DEF t, n
<1>3. \A j, k \in 1..n : s[j] = s[k] => j = k
  BY <1>1 DEF IsListing
<1>4. Range(s) = D /\ D = {s[j] : j \in 1..n}
  BY <1>1 DEF IsListing, Range
<1>5. 1 \in 1..(n + 1) /\ t[1] = e
  BY <1>1, <1>2
<1>6. \A j \in 1..n : j + 1 \in 1..(n + 1) /\ t[j + 1] = s[j]
  BY <1>1, <1>2
<1>7. \A j \in 1..(n + 1) :
        j = 1 \/ (j - 1 \in 1..n /\ t[j] = s[j - 1] /\ t[j] \in D)
  BY <1>1, <1>2, <1>4
<1>8. \A j, k \in DOMAIN t : t[j] = t[k] => j = k
  <2> SUFFICES ASSUME NEW j \in 1..(n + 1), NEW k \in 1..(n + 1), t[j] = t[k]
               PROVE  j = k
    BY <1>2
  <2>1. CASE j = 1 \/ k = 1
    BY <1>5, <1>7, <2>1
  <2>2. CASE j # 1 /\ k # 1
    BY <1>1, <1>3, <1>7, <2>2
  <2> QED  BY <2>1, <2>2
<1>9. Range(t) = D \cup {e}
  BY <1>2, <1>4, <1>5, <1>6, <1>7 DEF Range
<1>10. Order(t) = Order(s) \cup Ahead(e, D)
  <2>1. ASSUME NEW p \in Order(t)
        PROVE  p \in Order(s) \cup Ahead(e, D)
    <3>1. PICK j, k \in 1..(n + 1) : j < k /\ t[j] = p[1] /\ t[k] = p[2]
      BY <1>2, <2>1 DEF Order
    <3>2. p = <<p[1], p[2]>>
      BY <2>1 DEF Order
    <3>3. CASE j = 1
      BY <1>1, <1>5, <1>7, <3>1, <3>2, <3>3 DEF Ahead
    <3>4. CASE j # 1
      <4>1. /\ j - 1 \in 1..n /\ k - 1 \in 1..n /\ j - 1 < k - 1
            /\ s[j - 1] = p[1] /\ s[k - 1] = p[2]
        BY <1>1, <1>7, <3>1, <3>4
      <4> QED  BY <1>1, <1>4, <3>2, <4>1 DEF Order
    <3> QED  BY <3>3, <3>4
  <2>2. ASSUME NEW p \in Order(s)
        PROVE  p \in Order(t)
    <3>1. PICK j, k \in 1..n : j < k /\ s[j] = p[1] /\ s[k] = p[2]
      BY <1>1, <2>2 DEF Order
    <3>2. p \in Range(t) \X Range(t)
      BY <1>4, <1>9, <2>2 DEF Order
    <3>3. /\ j + 1 \in DOMAIN t /\ k + 1 \in DOMAIN t /\ j + 1 < k + 1
          /\ t[j + 1] = p[1] /\ t[k + 1] = p[2]
      BY <1>1, <1>2, <1>6, <3>1
    <3> QED  BY <3>2, <3>3 DEF Order
  <2>3. ASSUME NEW x \in D
        PROVE  <<e, x>> \in Order(t)
    <3>1. PICK k \in 1..n : s[k] = x
      BY <1>4
    <3>2. 1 < k + 1
      BY <1>1, <3>1
    <3> QED  BY <1>2, <1>5, <1>6, <1>9, <3>1, <3>2 DEF Order
  <2> QED  BY <2>1, <2>2, <2>3 DEF Ahead
<1> QED  BY <1>2, <1>8, <1>9, <1>10 DEF IsListing, t

(* The last element of a listing comes after all the others.               *)
LEMMA LastOfListing ==
  ASSUME NEW S, NEW D, NEW s \in Seq(S), IsListing(s, D), s # <<>>
  PROVE  /\ Lists!Last(s) \in D
         /\ \A x \in D \ {Lists!Last(s)} : <<x, Lists!Last(s)>> \in Order(s)
<1>1. Len(s) \in Nat \ {0} /\ DOMAIN s = 1..Len(s)
  BY EmptySeq, LenProperties
<1>2. Range(s) = D
  BY DEF IsListing
<1>3. Lists!Last(s) = s[Len(s)] /\ s[Len(s)] \in D
  BY <1>1, <1>2 DEF Lists!Last, Range
<1>4. ASSUME NEW x \in D \ {s[Len(s)]}
      PROVE  <<x, s[Len(s)]>> \in Order(s)
  <2>1. PICK j \in 1..Len(s) : s[j] = x
    BY <1>1, <1>2 DEF Range
  <2>2. j < Len(s)
    BY <1>1, <2>1
  <2> QED  BY <1>1, <1>2, <1>3, <2>1, <2>2 DEF Order
<1> QED  BY <1>3, <1>4

(* A survivor list is a listing of the survivors, in the order they had.   *)
LEMMA SurvivorListing ==
  ASSUME NEW S, NEW D, lru \in Seq(S), IsListing(lru, D), IsFiniteSet(D),
         NEW K \in SUBSET D, NEW kept \in Survivors(K)
  PROVE  /\ kept \in Seq(S)
         /\ IsListing(kept, K)
         /\ Order(kept) = {p \in Order(lru) : p[1] \in K /\ p[2] \in K}
<1> DEFINE n == Cardinality(K)
<1>1. IsFiniteSet(K) /\ n \in Nat
  BY FS_Subset, FS_CardinalityType
<1>2. /\ kept \in [1..n -> K]
      /\ \A i, j \in 1..n : i # j => kept[i] # kept[j]
      /\ Order(kept) \subseteq Order(lru)
  BY DEF Survivors, Injection, IsInjective
<1>3. D = Range(lru)
  BY DEF IsListing
<1>4. \A x \in D : x \in S
  BY <1>3, LenProperties DEF Range
<1>5. kept \in Seq(S)
  BY <1>1, <1>2, <1>4
<1>6. Range(kept) = K
  <2>1. kept \in Injection(1..n, K)
    BY <1>2 DEF Injection, IsInjective
  <2>2. IsFiniteSet(1..n) /\ Cardinality(1..n) = n
    BY <1>1, FS_Interval
  <2>3. kept \in Surjection(1..n, K)
    BY <1>1, <2>1, <2>2, FS_Injection
  <2> QED  BY <1>2, <2>3 DEF Surjection, Range
<1>7. IsListing(kept, K)
  BY <1>2, <1>6 DEF IsListing
<1>8. ASSUME NEW p \in Order(lru), p[1] \in K, p[2] \in K
      PROVE  p \in Order(kept)
  <2>1. PICK a, b \in DOMAIN lru : a < b /\ lru[a] = p[1] /\ lru[b] = p[2]
    BY <1>8 DEF Order
  <2>2. PICK i, j \in 1..n : kept[i] = p[1] /\ kept[j] = p[2]
    BY <1>2, <1>6, <1>8 DEF Range
  <2>3. DOMAIN lru = 1..Len(lru) /\ Len(lru) \in Nat
    BY LenProperties
  <2>4. i # j
    BY <2>1, <2>2, <2>3 DEF IsListing
  <2>5. ~(j < i)
    <3> SUFFICES ASSUME j < i PROVE FALSE
      OBVIOUS
    <3>1. <<p[2], p[1]>> \in Order(kept)
      BY <1>2, <1>6, <1>8, <2>2 DEF Order
    <3>2. PICK c, d \in DOMAIN lru : c < d /\ lru[c] = p[2] /\ lru[d] = p[1]
      BY <1>2, <3>1 DEF Order
    <3>3. c = b /\ d = a
      BY <2>1, <3>2 DEF IsListing
    <3> QED  BY <2>1, <2>3, <3>2, <3>3
  <2>6. i < j
    BY <1>1, <2>4, <2>5
  <2>7. p \in Range(kept) \X Range(kept)
    BY <1>6, <1>8 DEF Order
  <2> QED  BY <1>2, <2>2, <2>6, <2>7 DEF Order
<1>9. ASSUME NEW p \in Order(kept)
      PROVE  p \in Order(lru) /\ p[1] \in K /\ p[2] \in K
  BY <1>2, <1>6, <1>9 DEF Order
<1> QED  BY <1>5, <1>7, <1>8, <1>9

(***************************************************************************)
(* The inductive invariant: the cache's invariants and the finiteness of   *)
(* what is cached, without which its cardinality says nothing.             *)
(***************************************************************************)
IInv == CacheInv /\ IsFiniteSet(Cached)

LEMMA UnlinkedListing ==
  ASSUME CacheTypeOK, LruListsCache, NEW ip \in Cached
  PROVE  /\ Unlinked(ip) \in Seq(IPs)
         /\ IsListing(Unlinked(ip), Cached \ {ip})
         /\ Order(Unlinked(ip)) = Excluding(ip, Order(lru))
<1> DEFINE i == CHOOSE i \in DOMAIN lru : lru[i] = ip
<1>1. lru \in Seq(IPs) /\ IsListing(lru, Cached)
  BY DEF CacheTypeOK, LruListsCache
<1>2. i \in 1..Len(lru) /\ lru[i] = ip
  BY <1>1, LenProperties DEF IsListing, Range
<1> HIDE DEF i
<1>3. /\ Lists!RemoveAt(lru, i) \in Seq(IPs)
      /\ IsListing(Lists!RemoveAt(lru, i), Cached \ {lru[i]})
      /\ Order(Lists!RemoveAt(lru, i)) = Excluding(lru[i], Order(lru))
  BY <1>1, <1>2, RemovedListing
<1> QED  BY <1>2, <1>3 DEF Unlinked, i

(* Moving an entry to the front is using it.                               *)
LEMMA MovedListing ==
  ASSUME CacheTypeOK, LruListsCache, NEW ip \in Cached
  PROVE  /\ <<ip>> \o Unlinked(ip) \in Seq(IPs)
         /\ IsListing(<<ip>> \o Unlinked(ip), Cached)
         /\ Order(<<ip>> \o Unlinked(ip)) = LRU!Touched(ip, Cached)
<1>1. ip \in IPs /\ Order(lru) \subseteq Cached \X Cached
  BY DEF CacheTypeOK, Cached, LruListsCache, IsListing, Order
<1> DEFINE u == Unlinked(ip)
<1>2. /\ u \in Seq(IPs)
      /\ IsListing(u, Cached \ {ip})
      /\ Order(u) = Excluding(ip, Order(lru))
  BY UnlinkedListing
<1> HIDE DEF u
<1>3. /\ <<ip>> \o u \in Seq(IPs)
      /\ IsListing(<<ip>> \o u, (Cached \ {ip}) \cup {ip})
      /\ Order(<<ip>> \o u) = Order(u) \cup Ahead(ip, Cached \ {ip})
  <2> DEFINE rest == Cached \ {ip}
  <2>1. ip \in IPs \ rest /\ IsListing(u, rest)
    BY <1>1, <1>2
  <2> HIDE DEF rest
  <2>2. /\ <<ip>> \o u \in Seq(IPs)
        /\ IsListing(<<ip>> \o u, rest \cup {ip})
        /\ Order(<<ip>> \o u) = Order(u) \cup Ahead(ip, rest)
    BY <1>2, <2>1, PushedListing
  <2> QED  BY <2>2 DEF rest
<1>4. (Cached \ {ip}) \cup {ip} = Cached
  OBVIOUS
<1>5. Order(u) = {p \in Order(lru) : p[1] \in Cached \ {ip}
                                       /\ p[2] \in Cached \ {ip}}
  BY <1>1, <1>2 DEF Excluding
<1> QED  BY <1>3, <1>4, <1>5 DEF LRU!Touched, Ahead, u

(* The abstract names of what the two specifications share.                *)
LEMMA StoredIsCached == LRU!Stored = Cached
  BY DEF LRU!Stored, Cached

LEMMA SameCardinality ==
  ASSUME NEW S
  PROVE  LRU!Cardinality(S) = Cardinality(S)
  BY DEF LRU!Cardinality, Cardinality

LEMMA InitIInv == NewIPCache => IInv /\ LRU!Init
<1> SUFFICES ASSUME NewIPCache PROVE IInv /\ LRU!Init
  OBVIOUS
<1>1. cache = <<>> /\ lru = <<>> /\ threatCount = 0
  BY DEF NewIPCache
<1>2. Cached = {} /\ cache \in [{} -> Records] /\ DOMAIN lru = {}
  BY <1>1 DEF Cached
<1>3. Threats = {} /\ Range(lru) = {} /\ Order(lru) = {}
  BY <1>2 DEF Threats, Range, Order
<1>4. lru \in Seq(IPs)
  BY <1>1
<1>5. CacheTypeOK /\ LruListsCache
  BY <1>1, <1>2, <1>3, <1>4 DEF CacheTypeOK, LruListsCache, IsListing
<1>6. IsFiniteSet(Cached) /\ Cardinality(Cached) = 0 /\ Cardinality(Threats) = 0
  BY <1>2, <1>3, FS_EmptySet
<1>7. ThreatCountExact /\ CacheBounded
  BY <1>1, <1>6, CacheAssumption DEF ThreatCountExact, CacheBounded, Capacity
<1> QED  BY <1>1, <1>3, <1>5, <1>6, <1>7 DEF IInv, CacheInv, LRU!Init

(* What IInv says, spelt out.                                              *)
LEMMA Facts ==
  ASSUME IInv
  PROVE  /\ cache \in [Cached -> Records] /\ Cached \subseteq IPs
         /\ lru \in Seq(IPs) /\ IsListing(lru, Cached)
         /\ Order(lru) \subseteq Cached \X Cached
         /\ threatCount = Cardinality(Threats)
         /\ IsFiniteSet(Cached) /\ Cardinality(Cached) \in Nat
         /\ IsFiniteSet(Threats) /\ Cardinality(Threats) \in Nat
         /\ Cardinality(Cached) <= Capacity /\ Capacity \in Nat \ {0}
<1>1. IsFiniteSet(Threats)
  BY FS_Subset DEF IInv, Threats
<1> QED
  BY <1>1, FS_CardinalityType, CacheAssumption
  DEF IInv, CacheInv, CacheTypeOK, LruListsCache, ThreatCountExact,
      CacheBounded, Capacity, Cached, IsListing, Order

LEMMA GetStep ==
  ASSUME IInv, NEW ip \in IPs, Get(ip)
  PROVE  IInv' /\ IF ip \in Cached THEN LRU!Use(ip) ELSE UNCHANGED LRU!lruVars
<1>1. CASE ip \notin Cached
  BY <1>1 DEF Get, cacheVars, IInv, CacheInv, CacheTypeOK, LruListsCache,
     ThreatCountExact, CacheBounded, Cached, Threats, LRU!lruVars
<1>2. CASE ip \in Cached
  <2>1. /\ lru' = <<ip>> \o Unlinked(ip) /\ cache' = cache
        /\ threatCount' = threatCount
    BY <1>2 DEF Get, MoveToFront
  <2>2. CacheTypeOK /\ LruListsCache
    BY DEF IInv, CacheInv
  <2>3. /\ lru' \in Seq(IPs) /\ IsListing(lru', Cached)
        /\ Order(lru') = LRU!Touched(ip, Cached)
    BY <1>2, <2>1, <2>2, MovedListing
  <2>4. Cached' = Cached /\ Threats' = Threats
    BY <2>1 DEF Cached, Threats
  <2>5. IInv'
    BY <2>1, <2>3, <2>4
    DEF IInv, CacheInv, CacheTypeOK, LruListsCache, ThreatCountExact,
        CacheBounded
  <2>6. LRU!Use(ip)
    BY <1>2, <2>1, <2>3, StoredIsCached DEF LRU!Use
  <2> QED  BY <1>2, <2>5, <2>6
<1> QED  BY <1>1, <1>2

(* A set of threats that changes in one place changes by one place's       *)
(* weight.                                                                 *)
LEMMA OverwriteStep ==
  ASSUME IInv, NEW ip \in IPs, NEW record \in Records, Overwrite(ip, record)
  PROVE  IInv' /\ LRU!Replace(ip, record)
<1>1. /\ ip \in Cached
      /\ threatCount' = threatCount - Weight(cache[ip]) + Weight(record)
      /\ cache' = [cache EXCEPT ![ip] = record]
      /\ lru' = <<ip>> \o Unlinked(ip)
  BY DEF Overwrite, MoveToFront
<1>2. CacheTypeOK /\ LruListsCache
  BY DEF IInv, CacheInv
<1>3. /\ lru' \in Seq(IPs) /\ IsListing(lru', Cached)
      /\ Order(lru') = LRU!Touched(ip, Cached)
  BY <1>1, <1>2, MovedListing
<1>4. /\ Cached' = Cached /\ cache' \in [Cached -> Records]
      /\ cache'[ip] = record
      /\ \A k \in Cached \ {ip} : cache'[k] = cache[k]
  BY <1>1, Facts DEF Cached
<1>5. Threats' = IF IsThreat(record) THEN Threats \cup {ip} ELSE Threats \ {ip}
  BY <1>1, <1>4 DEF Threats
<1>6. ip \in Threats <=> IsThreat(cache[ip])
  BY <1>1 DEF Threats
<1>7. /\ IsFiniteSet(Threats) /\ threatCount = Cardinality(Threats)
      /\ Cardinality(Threats) \in Nat
  BY Facts
<1>8. threatCount' = Cardinality(Threats')
  <2>1. CASE IsThreat(record)
    <3>1. Cardinality(Threats \cup {ip})
            = IF ip \in Threats THEN Cardinality(Threats)
                                ELSE Cardinality(Threats) + 1
      BY <1>7, FS_AddElement
    <3> QED  BY <1>1, <1>5, <1>6, <1>7, <2>1, <3>1 DEF Weight
  <2>2. CASE ~IsThreat(record)
    <3>1. Cardinality(Threats \ {ip})
            = IF ip \in Threats THEN Cardinality(Threats) - 1
                                ELSE Cardinality(Threats)
      BY <1>7, FS_RemoveElement
    <3> QED  BY <1>1, <1>5, <1>6, <1>7, <2>2, <3>1 DEF Weight
  <2> QED  BY <2>1, <2>2
<1>9. IInv'
  <2>1. threatCount' \in Int
    BY <1>1, <1>7 DEF Weight
  <2>2. CacheTypeOK'
    BY <1>3, <1>4, <2>1, Facts DEF CacheTypeOK
  <2> QED
    BY <2>2, <1>3, <1>4, <1>8
    DEF IInv, CacheInv, LruListsCache, ThreatCountExact, CacheBounded
<1>10. LRU!Replace(ip, record)
  BY <1>1, <1>3, <1>4, StoredIsCached DEF LRU!Replace
<1> QED  BY <1>9, <1>10

(* Whom a full cache evicts: nobody below capacity, and at capacity the    *)
(* entry that every other was used after.                                  *)
LEMMA VictimGivenUp ==
  ASSUME IInv
  PROVE  /\ Victims \in SUBSET Cached
         /\ LRU!GivenUp(Victims)
         /\ Cardinality(Cached \ Victims) < Capacity
<1>1. /\ IsListing(lru, Cached) /\ lru \in Seq(IPs)
      /\ IsFiniteSet(Cached) /\ Cardinality(Cached) \in Nat
      /\ Cardinality(Cached) <= Capacity /\ Capacity \in Nat \ {0}
  BY Facts
<1>2. lru = <<>> <=> Cached = {}
  BY <1>1, EmptySeq, LenProperties DEF IsListing, Range
<1>3. Cardinality(Cached) = 0 <=> Cached = {}
  BY <1>1, FS_EmptySet
<1>4. CASE Cardinality(Cached) < Capacity
  <2>1. Victims = {}
    BY <1>1, <1>2, <1>3, <1>4, CacheAssumption DEF Victims, Capacity
  <2> QED  BY <1>1, <1>4, <2>1, StoredIsCached, SameCardinality
         DEF LRU!GivenUp
<1>5. CASE Cardinality(Cached) = Capacity
  <2>1. lru # <<>> /\ Victims = {Lists!Last(lru)}
    BY <1>1, <1>2, <1>3, <1>5, CacheAssumption DEF Victims, Capacity
  <2>2. /\ Lists!Last(lru) \in Cached
        /\ \A k \in Cached \ {Lists!Last(lru)} :
             <<k, Lists!Last(lru)>> \in Order(lru)
    BY <1>1, <2>1, LastOfListing
  <2>3. Cardinality(Cached \ {Lists!Last(lru)}) = Cardinality(Cached) - 1
    BY <1>1, <2>2, FS_RemoveElement
  <2> QED
    BY <1>1, <1>5, <2>1, <2>2, <2>3, StoredIsCached, SameCardinality
    DEF LRU!GivenUp, LRU!LeastRecentlyUsed
<1> QED  BY <1>1, <1>4, <1>5

(* The list once the victim has left it.                                   *)
LEMMA EvictedListing ==
  ASSUME IInv
  PROVE  LET rest == IF Victims = {} THEN lru ELSE Lists!Front(lru)
         IN  /\ rest \in Seq(IPs)
             /\ IsListing(rest, Cached \ Victims)
             /\ Order(rest) = {p \in Order(lru) : p[1] \in Cached \ Victims
                                                 /\ p[2] \in Cached \ Victims}
<1>1. /\ IsListing(lru, Cached) /\ lru \in Seq(IPs)
      /\ Order(lru) \subseteq Cached \X Cached
  BY Facts
<1>2. CASE Victims = {}
  BY <1>1, <1>2
<1>3. CASE Victims # {}
  <2>1. lru # <<>> /\ Victims = {Lists!Last(lru)}
    BY <1>3 DEF Victims
  <2>2. /\ Lists!Front(lru) = Lists!RemoveAt(lru, Len(lru))
        /\ Len(lru) \in 1..Len(lru) /\ Lists!Last(lru) = lru[Len(lru)]
    BY <1>1, <2>1, FrontIsRemoveAt DEF Lists!Last
  <2>3. /\ Lists!Front(lru) \in Seq(IPs)
        /\ IsListing(Lists!Front(lru), Cached \ {Lists!Last(lru)})
        /\ Order(Lists!Front(lru)) = Excluding(Lists!Last(lru), Order(lru))
    BY <1>1, <2>2, RemovedListing
  <2>4. Excluding(Lists!Last(lru), Order(lru))
          = {p \in Order(lru) : p[1] \in Cached \ Victims
                                 /\ p[2] \in Cached \ Victims}
    BY <1>1, <2>1 DEF Excluding
  <2> QED  BY <1>3, <2>1, <2>3, <2>4
<1> QED  BY <1>2, <1>3

LEMMA InsertStep ==
  ASSUME IInv, NEW ip \in IPs, NEW record \in Records, Insert(ip, record)
  PROVE  IInv' /\ LRU!Add(ip, record)
<1> DEFINE rest == IF Victims = {} THEN lru ELSE Lists!Front(lru)
           stay == Cached \ Victims
           gone == Victims \cap Threats
<1>1. /\ ip \notin Cached
      /\ cache' = [k \in stay \cup {ip} |-> IF k = ip THEN record ELSE cache[k]]
      /\ lru' = <<ip>> \o rest
      /\ threatCount' = (threatCount - Cardinality(gone)) + Weight(record)
  BY DEF Insert
<1>2. /\ Victims \in SUBSET Cached /\ LRU!GivenUp(Victims)
      /\ Cardinality(stay) < Capacity
  BY VictimGivenUp
<1>3. /\ rest \in Seq(IPs) /\ IsListing(rest, stay)
      /\ Order(rest) = {p \in Order(lru) : p[1] \in stay /\ p[2] \in stay}
  BY EvictedListing
<1>4. /\ IsFiniteSet(Cached) /\ IsFiniteSet(Threats) /\ Cached \subseteq IPs
      /\ threatCount = Cardinality(Threats) /\ Cardinality(Threats) \in Nat
      /\ cache \in [Cached -> Records] /\ Capacity \in Nat \ {0}
  BY Facts
<1> HIDE DEF rest
<1>5. IsFiniteSet(stay) /\ Cardinality(stay) \in Nat
  BY <1>4, FS_Subset, FS_CardinalityType
<1>6. /\ Cached' = stay \cup {ip} /\ cache' \in [stay \cup {ip} -> Records]
      /\ \A k \in stay : cache'[k] = cache[k]
      /\ cache'[ip] = record
  BY <1>1, <1>2, <1>4 DEF Cached
<1>7. ip \in IPs \ stay
  BY <1>1
<1>8. /\ lru' \in Seq(IPs) /\ IsListing(lru', stay \cup {ip})
      /\ Order(lru') = Order(rest) \cup Ahead(ip, stay)
  <2> HIDE DEF stay
  <2> QED  BY <1>1, <1>3, <1>7, PushedListing
(* The count: the victim's threat leaves it, the new record's joins.       *)
<1>9. threatCount' = Cardinality(Threats') /\ threatCount' \in Int
  <2>1. Threats' = (Threats \ gone) \cup (IF IsThreat(record) THEN {ip} ELSE {})
    BY <1>1, <1>6 DEF Threats
  <2>2. \/ gone = {}
        \/ \E v \in Threats : gone = {v}
    BY DEF Victims
  <2>3. /\ Cardinality(gone) \in Nat
        /\ IsFiniteSet(Threats \ gone)
        /\ Cardinality(Threats \ gone) = Cardinality(Threats) - Cardinality(gone)
    <3>1. CASE gone = {}
      <4>1. Threats \ gone = Threats /\ Cardinality(gone) = 0
        BY <3>1, FS_EmptySet
      <4> QED  BY <1>4, <4>1
    <3>2. CASE \E v \in Threats : gone = {v}
      <4>1. PICK v \in Threats : gone = {v}
        BY <3>2
      <4>2. Cardinality({v}) = 1
        BY FS_Singleton
      <4>3. /\ IsFiniteSet(Threats \ {v})
            /\ Cardinality(Threats \ {v}) = Cardinality(Threats) - 1
        BY <1>4, FS_RemoveElement
      <4>4. Threats \ gone = Threats \ {v} /\ Cardinality(gone) = 1
        BY <4>1, <4>2
      <4> HIDE DEF gone
      <4> QED  BY <4>3, <4>4
    <3> QED  BY <2>2, <3>1, <3>2
  <2>4. ip \notin Threats \ gone
    BY <1>1 DEF Threats
  <2>5. Cardinality((Threats \ gone) \cup {ip}) = Cardinality(Threats \ gone) + 1
    BY <2>3, <2>4, FS_AddElement
  <2>6. CASE IsThreat(record)
    BY <1>1, <1>4, <2>1, <2>3, <2>5, <2>6 DEF Weight
  <2>7. CASE ~IsThreat(record)
    <3>1. Threats' = Threats \ gone
      BY <2>1, <2>7
    <3> QED  BY <1>1, <1>4, <2>3, <2>7, <3>1 DEF Weight
  <2> QED  BY <2>6, <2>7
<1>10. CacheTypeOK'
  BY <1>4, <1>6, <1>7, <1>8, <1>9 DEF CacheTypeOK
<1>11. CacheBounded' /\ IsFiniteSet(Cached')
  <2>1. /\ IsFiniteSet(stay \cup {ip})
        /\ Cardinality(stay \cup {ip}) = Cardinality(stay) + 1
    BY <1>5, <1>7, FS_AddElement
  <2>2. Capacity' = Capacity
    BY DEF Capacity
  <2> QED  BY <1>2, <1>4, <1>5, <1>6, <2>1, <2>2 DEF CacheBounded
<1>12. IInv'
  BY <1>6, <1>8, <1>9, <1>10, <1>11
  DEF IInv, CacheInv, LruListsCache, ThreatCountExact
<1>13. Order(lru') = LRU!Touched(ip, stay \cup {ip})
  <2>1. (stay \cup {ip}) \ {ip} = stay
    BY <1>7
  <2> QED  BY <1>3, <1>8, <2>1 DEF LRU!Touched, Ahead
<1>14. LRU!Add(ip, record)
  BY <1>1, <1>2, <1>13, StoredIsCached DEF LRU!Add
<1> QED  BY <1>12, <1>14

(* What stays when some entries go, and nothing else changes.              *)
LEMMA ForgetStep ==
  ASSUME IInv, NEW stay \in SUBSET Cached,
         cache' = [k \in stay |-> cache[k]],
         lru' \in Seq(IPs), IsListing(lru', stay),
         Order(lru') = {p \in Order(lru) : p[1] \in stay /\ p[2] \in stay},
         threatCount' = Cardinality(Threats \cap stay)
  PROVE  IInv' /\ \E gone \in SUBSET Cached : LRU!Forget(gone)
<1>1. /\ IsFiniteSet(Cached) /\ IsFiniteSet(Threats) /\ Cached \subseteq IPs
      /\ cache \in [Cached -> Records] /\ Cardinality(Cached) <= Capacity
      /\ Cardinality(Cached) \in Nat /\ Capacity \in Nat
      /\ Order(lru) \subseteq Cached \X Cached
  BY Facts
<1>2. Cached' = stay /\ cache' \in [stay -> Records] /\ Threats' = Threats \cap stay
  BY <1>1 DEF Cached, Threats
<1>3. IsFiniteSet(stay) /\ Cardinality(stay) <= Cardinality(Cached)
      /\ Cardinality(stay) \in Nat
  BY <1>1, FS_Subset, FS_CardinalityType
<1>4. threatCount' \in Int
  BY <1>1, FS_Subset, FS_CardinalityType
<1>5. CacheTypeOK'
  BY <1>1, <1>2, <1>4 DEF CacheTypeOK
<1>6. IInv'
  BY <1>1, <1>2, <1>3, <1>5
  DEF IInv, CacheInv, LruListsCache, ThreatCountExact, CacheBounded, Capacity
<1>7. LRU!Forget(Cached \ stay)
  <2>1. Cached \ (Cached \ stay) = stay
    OBVIOUS
  <2>2. Order(lru') = {p \in Order(lru) : p[1] \notin Cached \ stay
                                           /\ p[2] \notin Cached \ stay}
    BY <1>1
  <2> QED  BY <2>1, <2>2, StoredIsCached DEF LRU!Forget
<1> QED  BY <1>6, <1>7

LEMMA RemoveStep ==
  ASSUME IInv, NEW ip \in IPs, Remove(ip)
  PROVE  /\ IInv'
         /\ (\E gone \in SUBSET Cached : LRU!Forget(gone)) \/ UNCHANGED LRU!lruVars
<1>1. CASE ip \notin Cached
  BY <1>1 DEF Remove, cacheVars, IInv, CacheInv, CacheTypeOK, LruListsCache,
     ThreatCountExact, CacheBounded, Cached, Threats, LRU!lruVars
<1>2. CASE ip \in Cached
  <2> DEFINE stay == Cached \ {ip}
  <2>1. /\ threatCount' = threatCount - Weight(cache[ip])
        /\ lru' = Unlinked(ip)
        /\ cache' = [k \in stay |-> cache[k]]
    BY <1>2 DEF Remove, Restrict
  <2>2. /\ Unlinked(ip) \in Seq(IPs) /\ IsListing(Unlinked(ip), Cached \ {ip})
        /\ Order(Unlinked(ip)) = Excluding(ip, Order(lru))
    BY <1>2, UnlinkedListing DEF IInv, CacheInv
  <2>3. /\ Order(lru) \subseteq Cached \X Cached /\ IsFiniteSet(Threats)
        /\ threatCount = Cardinality(Threats) /\ Cardinality(Threats) \in Nat
    BY Facts
  <2>4. Order(lru') = {p \in Order(lru) : p[1] \in stay /\ p[2] \in stay}
    BY <2>1, <2>2, <2>3 DEF Excluding
  <2>5. threatCount' = Cardinality(Threats \cap stay)
    <3>1. Threats \cap stay = Threats \ {ip}
      BY DEF Threats
    <3>2. Cardinality(Threats \ {ip}) = IF ip \in Threats
                                        THEN Cardinality(Threats) - 1
                                        ELSE Cardinality(Threats)
      BY <2>3, FS_RemoveElement
    <3>3. ip \in Threats <=> IsThreat(cache[ip])
      BY <1>2 DEF Threats
    <3>4. threatCount - Weight(cache[ip]) = Cardinality(Threats \ {ip})
      <4> HIDE DEF stay
      <4>1. CASE ip \in Threats
        BY <2>3, <3>2, <3>3, <4>1 DEF Weight
      <4>2. CASE ip \notin Threats
        BY <2>3, <3>2, <3>3, <4>2 DEF Weight
      <4> QED  BY <4>1, <4>2
    <3> QED  BY <2>1, <3>1, <3>4
  <2>6. lru' \in Seq(IPs) /\ IsListing(lru', stay)
    BY <2>1, <2>2
  <2> HIDE DEF stay
  <2> QED  BY <2>1, <2>4, <2>5, <2>6, ForgetStep DEF stay
<1> QED  BY <1>1, <1>2

(* Taking a part of a finite set out of it takes its cardinality off.      *)
LEMMA CardinalityOfRest ==
  ASSUME NEW S, IsFiniteSet(S), NEW T \in SUBSET S
  PROVE  Cardinality(S) - Cardinality(T) = Cardinality(S \ T)
<1>1. IsFiniteSet(T) /\ IsFiniteSet(S \ T)
  BY FS_Subset
<1>2. /\ Cardinality(S) \in Nat /\ Cardinality(T) \in Nat
      /\ Cardinality(S \ T) = Cardinality(S) - Cardinality(S \cap T)
  BY <1>1, FS_CardinalityType, FS_Difference
<1>3. S \cap T = T
  OBVIOUS
<1> QED  BY <1>2, <1>3

LEMMA RemoveExpiredStep ==
  ASSUME IInv, NEW now \in Int, RemoveExpired(now)
  PROVE  IInv' /\ \E gone \in SUBSET Cached : LRU!Forget(gone)
<1> DEFINE stay == Cached \ ExpiredAt(now)
           gone == ExpiredAt(now) \cap Threats
<1>1. /\ cache' = [k \in stay |-> cache[k]]
      /\ threatCount' = threatCount - Cardinality(gone)
      /\ lru' \in Survivors(stay)
  BY DEF RemoveExpired, Restrict
<1>2. /\ lru \in Seq(IPs) /\ IsListing(lru, Cached) /\ IsFiniteSet(Cached)
      /\ IsFiniteSet(Threats) /\ threatCount = Cardinality(Threats)
  BY Facts
<1>3. /\ lru' \in Seq(IPs) /\ IsListing(lru', stay)
      /\ Order(lru') = {p \in Order(lru) : p[1] \in stay /\ p[2] \in stay}
  <2> HIDE DEF stay
  <2>1. stay \in SUBSET Cached
    BY DEF stay
  <2> QED  BY <1>1, <1>2, <2>1, SurvivorListing
<1>4. threatCount' = Cardinality(Threats \cap stay)
  <2>1. Threats \cap stay = Threats \ gone
    BY DEF Threats
  <2> QED  BY <1>1, <1>2, <2>1, CardinalityOfRest
<1>5. stay \in SUBSET Cached
  OBVIOUS
<1> HIDE DEF stay
<1> QED  BY <1>1, <1>3, <1>4, <1>5, ForgetStep

(* One call of the cache, whatever the caller.                             *)
LEMMA NextStep ==
  ASSUME IInv, [Next]_cacheVars
  PROVE  IInv' /\ [LRU!Next]_(LRU!lruVars)
<1>1. CASE UNCHANGED cacheVars
  BY <1>1 DEF cacheVars, IInv, CacheInv, CacheTypeOK, LruListsCache,
     ThreatCountExact, CacheBounded, Cached, Threats, LRU!lruVars
<1>2. ASSUME NEW ip \in IPs, Get(ip)
      PROVE  IInv' /\ [LRU!Next]_(LRU!lruVars)
  BY <1>2, GetStep DEF LRU!Next
<1>3. ASSUME NEW ip \in IPs, NEW record \in Records, Set(ip, record)
      PROVE  IInv' /\ [LRU!Next]_(LRU!lruVars)
  BY <1>3, OverwriteStep, InsertStep DEF Set, LRU!Next
<1>4. ASSUME NEW ip \in IPs, Remove(ip)
      PROVE  IInv' /\ [LRU!Next]_(LRU!lruVars)
  BY <1>4, RemoveStep, StoredIsCached DEF LRU!Next
<1>5. ASSUME NEW now \in Times, RemoveExpired(now)
      PROVE  IInv' /\ [LRU!Next]_(LRU!lruVars)
  BY <1>5, RemoveExpiredStep, StoredIsCached, CacheAssumption DEF LRU!Next
<1> QED  BY <1>1, <1>2, <1>3, <1>4, <1>5 DEF Next

(* What a call leaves in the map: Set puts its record under its IP, and no *)
(* call changes the record of any other entry it leaves.                   *)
LEMMA SetContents ==
  ASSUME NEW ip, NEW record, Set(ip, record)
  PROVE  \A k \in Cached' : \/ k = ip /\ cache'[k] = record
                            \/ k \in Cached /\ cache'[k] = cache[k]
<1>1. CASE Overwrite(ip, record)
  BY <1>1 DEF Overwrite, Cached
<1>2. CASE Insert(ip, record)
  BY <1>2 DEF Insert, Cached
<1> QED  BY <1>1, <1>2 DEF Set

LEMMA OtherContents ==
  ASSUME NEW ip, NEW now,
         Get(ip) \/ Remove(ip) \/ RemoveExpired(now) \/ UNCHANGED cacheVars
  PROVE  \A k \in Cached' : k \in Cached /\ cache'[k] = cache[k]
<1>1. CASE Get(ip) \/ UNCHANGED cacheVars
  BY <1>1 DEF Get, cacheVars, Cached
<1>2. CASE Remove(ip)
  BY <1>2 DEF Remove, cacheVars, Cached, Restrict
<1>3. CASE RemoveExpired(now)
  BY <1>3 DEF RemoveExpired, Cached, Restrict
<1> QED  BY <1>1, <1>2, <1>3

-----------------------------------------------------------------------------
(* The map, the list and the count agree in every reachable state, and the *)
(* cache never outgrows its capacity, for any number of IPs and any size   *)
(* the configuration may hold, zero and negative ones included.            *)
THEOREM CacheInvariant == Spec => []CacheInv
<1>1. NewIPCache => IInv
  BY InitIInv
<1>2. IInv /\ [Next]_cacheVars => IInv'
  BY NextStep
<1>3. IInv => CacheInv
  BY DEF IInv
<1> QED  BY <1>1, <1>2, <1>3, PTL DEF Spec

(* Each part of it, by its name.  The map holds records under IPs, the     *)
(* list IPs, and the count is a number: CacheTypeOK.                       *)
THEOREM CacheTypes == Spec => []CacheTypeOK
  BY CacheInvariant, PTL DEF CacheInv

(* Every cached IP is in the list, once, and nothing else is:              *)
(* LruListsCache, after any sequence of overwrites, evictions, removals    *)
(* and sweeps.                                                             *)
THEOREM ListIsMap == Spec => []LruListsCache
  BY CacheInvariant, PTL DEF CacheInv

(* The running count, adjusted on five paths, is the number of cached      *)
(* threats: ThreatCountExact.                                              *)
THEOREM CountIsExact == Spec => []ThreatCountExact
  BY CacheInvariant, PTL DEF CacheInv

(* The cache never holds more than it was made for: CacheBounded.          *)
THEOREM SizeIsBounded == Spec => []CacheBounded
  BY CacheInvariant, PTL DEF CacheInv

(* Every call of the cache is a step of a least-recently-used cache: the   *)
(* entry that a full cache evicts is the one used least recently.          *)
THEOREM LRURefinement == Spec => ImplementsLRUCache
<1>1. NewIPCache => IInv /\ LRU!Init
  BY InitIInv
<1>2. IInv /\ [Next]_cacheVars => IInv' /\ [LRU!Next]_(LRU!lruVars)
  BY NextStep
<1> QED  BY <1>1, <1>2, PTL DEF Spec, ImplementsLRUCache, LRU!Spec

-----------------------------------------------------------------------------
(* The order of the list is the order in which callers asked: what each    *)
(* call makes of the one it makes of the other.                            *)
ListIsOrderOfUse == askedAfter = Order(lru)

LEMMA AskedInOrder ==
  ASSUME IInv, ListIsOrderOfUse, UseNext
  PROVE  ListIsOrderOfUse'
<1>1. /\ Order(lru) \subseteq Cached \X Cached /\ LRU!Stored = Cached
      /\ askedAfter = Order(lru) /\ Cached' = DOMAIN cache'
  BY Facts, StoredIsCached DEF ListIsOrderOfUse, Cached
<1>2. ASSUME NEW ip, Uses(ip), Order(lru)' = LRU!Touched(ip, DOMAIN cache'),
             ip \in DOMAIN cache'
      PROVE  ListIsOrderOfUse'
  BY <1>1, <1>2 DEF ListIsOrderOfUse, Uses, StillCached, LRU!Touched
<1>3. ASSUME UNCHANGED LRU!lruVars
      PROVE  Order(lru)' = Order(lru) /\ DOMAIN cache' = Cached
  BY <1>3 DEF LRU!lruVars, Cached
<1>4. ASSUME NEW ip \in IPs, Get(ip), Uses(ip)
      PROVE  ListIsOrderOfUse'
  <2>1. CASE ip \in Cached
    <3>1. LRU!Use(ip)
      BY <1>4, <2>1, GetStep
    <3>2. Order(lru)' = LRU!Touched(ip, DOMAIN cache') /\ ip \in DOMAIN cache'
      BY <1>1, <2>1, <3>1 DEF LRU!Use, Cached
    <3> QED  BY <1>2, <1>4, <3>2
  <2>2. CASE ip \notin Cached
    <3>1. Order(lru)' = Order(lru) /\ DOMAIN cache' = Cached
      BY <1>3, <1>4, <2>2, GetStep
    <3>2. askedAfter' = StillCached(Order(lru))
      BY <1>1, <1>4, <2>2, <3>1 DEF Uses, StillCached
    <3> QED  BY <1>1, <3>1, <3>2 DEF StillCached, ListIsOrderOfUse
  <2> QED  BY <2>1, <2>2
<1>5. ASSUME NEW ip \in IPs, NEW record \in Records, Set(ip, record), Uses(ip)
      PROVE  ListIsOrderOfUse'
  <2>1. CASE Overwrite(ip, record)
    <3>1. LRU!Replace(ip, record)
      BY <2>1, OverwriteStep
    <3>2. Order(lru)' = LRU!Touched(ip, DOMAIN cache') /\ ip \in DOMAIN cache'
      BY <1>1, <3>1 DEF LRU!Replace, Cached
    <3> QED  BY <1>2, <1>5, <3>2
  <2>2. CASE Insert(ip, record)
    <3>1. LRU!Add(ip, record)
      BY <2>2, InsertStep
    <3>2. Order(lru)' = LRU!Touched(ip, DOMAIN cache') /\ ip \in DOMAIN cache'
      BY <3>1 DEF LRU!Add
    <3> QED  BY <1>2, <1>5, <3>2
  <2> QED  BY <1>5, <2>1, <2>2 DEF Set
<1>6. ASSUME NEW gone, LRU!Forget(gone), UsesNone
      PROVE  ListIsOrderOfUse'
  <2>1. /\ DOMAIN cache' = Cached \ gone
        /\ Order(lru)' = {p \in Order(lru) : p[1] \notin gone /\ p[2] \notin gone}
    BY <1>1, <1>6 DEF LRU!Forget
  <2> QED  BY <1>1, <1>6, <2>1 DEF UsesNone, StillCached, ListIsOrderOfUse
<1>7. ASSUME UNCHANGED LRU!lruVars, UsesNone
      PROVE  ListIsOrderOfUse'
  BY <1>1, <1>3, <1>7 DEF UsesNone, StillCached, ListIsOrderOfUse
<1>8. ASSUME NEW ip \in IPs, Remove(ip), UsesNone
      PROVE  ListIsOrderOfUse'
  BY <1>6, <1>7, <1>8, RemoveStep
<1>9. ASSUME NEW now \in Times, RemoveExpired(now), UsesNone
      PROVE  ListIsOrderOfUse'
  BY <1>6, <1>9, RemoveExpiredStep, CacheAssumption
<1> QED  BY <1>4, <1>5, <1>8, <1>9 DEF UseNext

(* A new entry takes the place of the one that no caller has asked for for *)
(* the longest time, whatever came in between: EvictsLeastRecentlyUsed.    *)
THEOREM VictimIsLeastAskedFor == UseSpec => EvictsLeastRecentlyUsed
<1>1. UseInit => IInv /\ ListIsOrderOfUse
  <2> SUFFICES ASSUME UseInit PROVE ListIsOrderOfUse
    BY InitIInv DEF UseInit
  <2> QED  BY DEF UseInit, NewIPCache, ListIsOrderOfUse, Order, Range
<1>2. [UseNext]_useVars => [Next]_cacheVars
  BY DEF UseNext, useVars, Next
<1>3. IInv /\ ListIsOrderOfUse /\ [UseNext]_useVars => IInv' /\ ListIsOrderOfUse'
  <2>1. ListIsOrderOfUse /\ UNCHANGED useVars => ListIsOrderOfUse'
    BY DEF ListIsOrderOfUse, useVars, cacheVars
  <2> QED  BY <1>2, <2>1, NextStep, AskedInOrder
<1>4. ASSUME IInv, ListIsOrderOfUse, UseNext, DOMAIN cache' \ Cached # {},
             NEW ip \in Cached \ DOMAIN cache', NEW k \in Cached \ {ip}
      PROVE  <<k, ip>> \in askedAfter
  <2>1. LRU!Stored = Cached /\ Cached = DOMAIN cache
    BY StoredIsCached DEF Cached
  <2>2. ASSUME NEW x \in IPs, NEW record \in Records, Insert(x, record)
        PROVE  <<k, ip>> \in askedAfter
    <3>1. LRU!Add(x, record)
      BY <1>4, <2>2, InsertStep
    <3>2. PICK gone : LRU!GivenUp(gone) /\ DOMAIN cache' = (Cached \ gone) \cup {x}
      BY <2>1, <3>1 DEF LRU!Add
    <3>3. LRU!LeastRecentlyUsed(ip)
      BY <1>4, <3>2 DEF LRU!GivenUp
    <3> QED  BY <1>4, <2>1, <3>3 DEF LRU!LeastRecentlyUsed, ListIsOrderOfUse
  <2>3. ASSUME NEW x \in IPs, NEW record \in Records, Overwrite(x, record)
        PROVE  FALSE
    BY <1>4, <2>1, <2>3 DEF Overwrite
  <2>4. ASSUME NEW x, NEW now, Get(x) \/ Remove(x) \/ RemoveExpired(now)
        PROVE  FALSE
    <3>1. \A y \in Cached' : y \in Cached
      BY <2>4, OtherContents
    <3> QED  BY <1>4, <3>1 DEF Cached
  <2>5. \/ \E x \in IPs, record \in Records : Insert(x, record) \/ Overwrite(x, record)
        \/ \E x, now : Get(x) \/ Remove(x) \/ RemoveExpired(now)
    BY <1>4, Zenon DEF UseNext, Set
  <2> QED  BY <2>2, <2>3, <2>4, <2>5
<1>5. IInv /\ ListIsOrderOfUse /\ [UseNext]_useVars
        => [DOMAIN cache' \ Cached # {} =>
              \A ip \in Cached \ DOMAIN cache' :
                \A k \in Cached \ {ip} : <<k, ip>> \in askedAfter]_useVars
  BY <1>4
<1> QED  BY <1>1, <1>3, <1>5, PTL DEF UseSpec, EvictsLeastRecentlyUsed
=============================================================================
