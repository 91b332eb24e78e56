------------------------------ MODULE CacheUse -------------------------------
(***************************************************************************)
(* IPCache with a memory of the calls themselves: which of two cached IPs  *)
(* a caller asked for last.  A cache whose Get forgot to touch its list    *)
(* would still look like some least-recently-used cache, one that nobody   *)
(* reads; against the calls it does not.  The history variable restricts   *)
(* no step of the cache.                                                   *)
(***************************************************************************)
EXTENDS IPCache

VARIABLE askedAfter  \* pairs of cached IPs: a Get or a Set asked for the first
                     \* after it, or another, asked for the second

useVars == <<cacheVars, askedAfter>>

StillCached(pairs) == {p \in pairs : {p[1], p[2]} \subseteq DOMAIN cache'}

Uses(ip) ==
  askedAfter' = StillCached({p \in askedAfter : ip \notin {p[1], p[2]}}
                              \cup {<<ip, k>> : k \in DOMAIN cache' \ {ip}})
UsesNone == askedAfter' = StillCached(askedAfter)

UseInit == NewIPCache /\ askedAfter = {}

UseNext ==
  \/ \E ip \in IPs : Get(ip) /\ Uses(ip)
  \/ \E ip \in IPs, record \in Records : Set(ip, record) /\ Uses(ip)
  \/ \E ip \in IPs : Remove(ip) /\ UsesNone
  \/ \E now \in Times : RemoveExpired(now) /\ UsesNone

UseSpec == UseInit /\ [][UseNext]_useVars

(* A new entry takes the place of the one that no caller has asked for,    *)
(* by a Get that found it or a Set, for the longest time, whatever was     *)
(* overwritten, removed or expired in between.                             *)
EvictsLeastRecentlyUsed ==
  [][DOMAIN cache' \ Cached # {} =>
       \A ip \in Cached \ DOMAIN cache' :
         \A k \in Cached \ {ip} : <<k, ip>> \in askedAfter]_useVars
=============================================================================
