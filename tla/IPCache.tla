------------------------------- MODULE IPCache -------------------------------
(***************************************************************************)
(* The in-memory reputation cache (L1) of internal/cache/ip_cache.go: a    *)
(* Go map from an IP to its record, a linked list that keeps the IPs from  *)
(* the most to the least recently used, and a running count of the cached  *)
(* threats.  Every method of the code holds the cache's mutex from its     *)
(* first to its last statement, so each is one action here.                *)
(*                                                                         *)
(* The operations are stated for any IP, record and time, so that the      *)
(* modules of the system that own a cache use them through INSTANCE; Next  *)
(* closes them over IPs, Records and Times.                                *)
(***************************************************************************)
EXTENDS Integers, FiniteSets, Sequences, Functions

Lists == INSTANCE SequencesExt

CONSTANTS
  IPs,      \* the addresses asked about
  Records,  \* the records stored: each has at least a status and an expiresAt
  Times,    \* the instants RemoveExpired may be called with
  MaxSize   \* cache_max_size: an int of the configuration that nothing checks

ASSUME CacheAssumption ==
  /\ MaxSize \in Int
  /\ Times \subseteq Int
  /\ \A r \in Records : r.expiresAt \in Int

VARIABLES
  cache,       \* the map: a function whose domain is the set of cached IPs
  lru,         \* the list, its front (most recently used) first
  threatCount  \* the running count of cached threats

cacheVars == <<cache, lru, threatCount>>

Cached == DOMAIN cache

IsThreat(record) == record.status = "threat"

Threats == {ip \in Cached : IsThreat(cache[ip])}

(* What a record adds to threatCount.                                      *)
Weight(record) == IF IsThreat(record) THEN 1 ELSE 0

(***************************************************************************)
(* The list.  An entry holds a pointer to its own element; the element is  *)
(* found here by its IP, which the invariant LruListsCache makes unique.   *)
(***************************************************************************)
Unlinked(ip) == Lists!RemoveAt(lru, CHOOSE i \in DOMAIN lru : lru[i] = ip)

MoveToFront(ip) == lru' = <<ip>> \o Unlinked(ip)

(* The pairs of list elements of which the first is nearer the front.      *)
Order(list) ==
  {p \in Range(list) \X Range(list) :
     \E i, j \in DOMAIN list : i < j /\ list[i] = p[1] /\ list[j] = p[2]}

(* The list without the elements outside S: S in the order of the list.    *)
Survivors(S) ==
  {kept \in Injection(1..Cardinality(S), S) : Order(kept) \subseteq Order(lru)}

-----------------------------------------------------------------------------
NewIPCache ==
  /\ cache = <<>>
  /\ lru = <<>>
  /\ threatCount = 0

(* Mutant of Get: it does not touch the list.                              *)
GetUntouched(ip) == UNCHANGED cacheVars

(* Get of a cached IP makes it the most recently used; the caller reads    *)
(* the record, cache[ip], in the same action.  A miss changes nothing.     *)
Get(ip) ==
  IF ip \in Cached
  THEN MoveToFront(ip) /\ UNCHANGED <<cache, threatCount>>
  ELSE UNCHANGED cacheVars

(* Mutants of Overwrite: the record it replaces stays counted; the entry   *)
(* stays where it is in the list.                                          *)
OverwriteMiscounted(ip, record) ==
  /\ ip \in Cached
  /\ threatCount' = threatCount + Weight(record)
  /\ cache' = [cache EXCEPT ![ip] = record]
  /\ MoveToFront(ip)

OverwriteUntouched(ip, record) ==
  /\ ip \in Cached
  /\ threatCount' = threatCount - Weight(cache[ip]) + Weight(record)
  /\ cache' = [cache EXCEPT ![ip] = record]
  /\ UNCHANGED lru

(* Set of a cached IP overwrites its record in place.                      *)
Overwrite(ip, record) ==
  /\ ip \in Cached
  /\ threatCount' = threatCount - Weight(cache[ip]) + Weight(record)
  /\ cache' = [cache EXCEPT ![ip] = record]
  /\ MoveToFront(ip)

(* Mutant of Victims: an entry too late.                                   *)
VictimsLate == IF Cardinality(Cached) > MaxSize /\ lru # <<>>
               THEN {Lists!Last(lru)} ELSE {}

(* evictLRU: what a full cache gives up for a new entry, the last of the   *)
(* list.  A list that is empty has nothing to give.                        *)
Victims == IF Cardinality(Cached) >= MaxSize /\ lru # <<>>
           THEN {Lists!Last(lru)} ELSE {}

(* Mutant of Insert: the victim stays in the list.                         *)
InsertUnlinked(ip, record) ==
  /\ ip \notin Cached
  /\ cache' = [k \in (Cached \ Victims) \cup {ip} |->
                 IF k = ip THEN record ELSE cache[k]]
  /\ lru' = <<ip>> \o lru
  /\ threatCount' = (threatCount - Cardinality(Victims \cap Threats))
                       + Weight(record)

(* Set of an IP that is not cached evicts first and inserts second.        *)
Insert(ip, record) ==
  /\ ip \notin Cached
  /\ cache' = [k \in (Cached \ Victims) \cup {ip} |->
                 IF k = ip THEN record ELSE cache[k]]
  /\ lru' = <<ip>> \o (IF Victims = {} THEN lru ELSE Lists!Front(lru))
  /\ threatCount' = (threatCount - Cardinality(Victims \cap Threats))
                       + Weight(record)

Set(ip, record) == Overwrite(ip, record) \/ Insert(ip, record)

(* Mutant of Remove: the entry stays in the map, without its record.       *)
RemoveRecord(ip) ==
  IF ip \in Cached
  THEN /\ threatCount' = threatCount - Weight(cache[ip])
       /\ lru' = Unlinked(ip)
       /\ cache' = [cache EXCEPT ![ip] = [status |-> "nil"]]
  ELSE UNCHANGED cacheVars

Remove(ip) ==
  IF ip \in Cached
  THEN /\ threatCount' = threatCount - Weight(cache[ip])
       /\ lru' = Unlinked(ip)
       /\ cache' = Restrict(cache, Cached \ {ip})
  ELSE UNCHANGED cacheVars

(* The entries RemoveExpired removes: an entry that expires exactly now is *)
(* kept (time.Time.Before is strict).                                      *)
ExpiredAt(now) == {ip \in Cached : cache[ip].expiresAt < now}

RemoveExpired(now) ==
  /\ cache' = Restrict(cache, Cached \ ExpiredAt(now))
  /\ threatCount' = threatCount - Cardinality(ExpiredAt(now) \cap Threats)
  /\ lru' \in Survivors(Cached \ ExpiredAt(now))

-----------------------------------------------------------------------------
Next ==
  \/ \E ip \in IPs : Get(ip)
  \/ \E ip \in IPs, record \in Records : Set(ip, record)
  \/ \E ip \in IPs : Remove(ip)
  \/ \E now \in Times : RemoveExpired(now)

Spec == NewIPCache /\ [][Next]_cacheVars

-----------------------------------------------------------------------------
(* The most entries the cache ever holds: NewIPCache takes any size, and a *)
(* cache of size 0 or less still inserts after it found nothing to evict.  *)
Capacity == IF MaxSize >= 1 THEN MaxSize ELSE 1

CacheTypeOK ==
  /\ \E S \in SUBSET IPs : cache \in [S -> Records]
  /\ lru \in Seq(IPs)
  /\ threatCount \in Int

(* A list that names every element of S once and nothing else.             *)
IsListing(list, S) ==
  /\ \A i, j \in DOMAIN list : list[i] = list[j] => i = j
  /\ Range(list) = S

(* The map and the list are two views of one set of entries: every cached  *)
(* IP is in the list, once, and nothing else is.  An element left behind   *)
(* by an eviction, a removal or an expiry would later evict a live entry   *)
(* or nothing at all, and the map would grow past its size.                *)
LruListsCache == IsListing(lru, Cached)

(* The running count, adjusted on five separate paths (an overwrite either *)
(* way, an insertion, a removal, an eviction, an expiry), is the number of *)
(* cached threats: what the cache threats gauge is set from.               *)
ThreatCountExact == threatCount = Cardinality(Threats)

(* The cache never holds more than Capacity entries.                       *)
CacheBounded == Cardinality(Cached) <= Capacity

CacheInv == CacheTypeOK /\ LruListsCache /\ ThreatCountExact /\ CacheBounded

(* The cache is a least-recently-used cache of its capacity: the order of  *)
(* the list is the order of use, so an insertion into a full cache evicts  *)
(* the entry that Get and Set touched least recently, and no removal or    *)
(* expiry in between disturbs that order.                                  *)
LRU == INSTANCE LRUCache WITH
         Keys <- IPs, Values <- Records,
         contents <- cache, usedAfter <- Order(lru)

ImplementsLRUCache == LRU!Spec
=============================================================================
