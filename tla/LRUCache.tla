------------------------------ MODULE LRUCache -------------------------------
(***************************************************************************)
(* What a least-recently-used cache promises, with no list and no counter: *)
(* its contents, and which of two entries was used after the other.  A     *)
(* full cache that takes a new entry gives up the one entry that all the   *)
(* others were used after.                                                 *)
(***************************************************************************)
EXTENDS Naturals, FiniteSets

CONSTANTS Keys, Values, Capacity

VARIABLES
  contents,  \* a function from the stored keys to their values
  usedAfter  \* pairs of stored keys: the first was used after the second

lruVars == <<contents, usedAfter>>

Stored == DOMAIN contents

(* The order of use among the keys of S once k has been used.              *)
Touched(k, S) ==
  {p \in usedAfter : p[1] \in S \ {k} /\ p[2] \in S \ {k}}
    \cup {<<k, other>> : other \in S \ {k}}

LeastRecentlyUsed(k) == \A other \in Stored \ {k} : <<other, k>> \in usedAfter

Init == contents = <<>> /\ usedAfter = {}

(* Reading an entry uses it.                                               *)
Use(k) ==
  /\ k \in Stored
  /\ usedAfter' = Touched(k, Stored)
  /\ UNCHANGED contents

Replace(k, v) ==
  /\ k \in Stored
  /\ contents' = [contents EXCEPT ![k] = v]
  /\ usedAfter' = Touched(k, Stored)

(* Room for a new key: none is given up below capacity, and at capacity    *)
(* the least recently used one.                                            *)
GivenUp(gone) ==
  \/ Cardinality(Stored) < Capacity /\ gone = {}
  \/ /\ Cardinality(Stored) = Capacity
     /\ \E k \in Stored : LeastRecentlyUsed(k) /\ gone = {k}

Add(k, v) ==
  /\ k \notin Stored
  /\ \E gone \in SUBSET Stored :
       /\ GivenUp(gone)
       /\ contents' = [x \in (Stored \ gone) \cup {k} |->
                         IF x = k THEN v ELSE contents[x]]
       /\ usedAfter' = Touched(k, (Stored \ gone) \cup {k})

(* Entries may leave at any time, and the others stay as they were.        *)
Forget(gone) ==
  /\ contents' = [x \in Stored \ gone |-> contents[x]]
  /\ usedAfter' = {p \in usedAfter : p[1] \notin gone /\ p[2] \notin gone}

Next ==
  \/ \E k \in Keys : Use(k)
  \/ \E k \in Keys, v \in Values : Replace(k, v) \/ Add(k, v)
  \/ \E gone \in SUBSET Stored : Forget(gone)

Spec == Init /\ [][Next]_lruVars
=============================================================================
