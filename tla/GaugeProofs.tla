----------------------------- MODULE GaugeProofs -----------------------------
(***************************************************************************)
(* Proofs about the gauges of /metrics (GateViews), for any IPs, workers,  *)
(* scores, lifetimes and configuration: as long as nothing that `blurred`  *)
(* remembers has happened, a gauge and the table differ exactly by the     *)
(* workers that have stored a row and have still to count it.              *)
(***************************************************************************)
EXTENDS GateViews, GateProofs, FiniteSetTheorems

RowDebts == {w \in Workers : OwesRow(w)}
MoreDebts == {w \in Workers : OwesMore(w)}
LessDebts == {w \in Workers : OwesLess(w)}

GaugesTyped ==
  /\ entities \in Int /\ threats \in Int
  /\ IsFiniteSet(Rows) /\ IsFiniteSet(Threats)
  /\ IsFiniteSet(RowDebts) /\ IsFiniteSet(MoreDebts) /\ IsFiniteSet(LessDebts)

RowsBalance == entities + Cardinality(RowDebts) = Cardinality(Rows)
ThreatsBalance ==
  threats + Cardinality(MoreDebts) = Cardinality(Threats) + Cardinality(LessDebts)

(* A round of the cleanup worker sets first the one gauge, then the other. *)
Balanced ==
  /\ ~blurred /\ counting # "rows" => RowsBalance
  /\ ~blurred /\ counting = "nothing" => ThreatsBalance

(* The records of traps are threats.                                       *)
TrapsHoldThreats ==
  \A w \in Workers :
    pc[w] \in {"trapSave", "trapReread", "trapFill"} => req[w].record.status = "threat"

GaugeInv == GaugesTyped /\ Balanced /\ TrapsHoldThreats

-----------------------------------------------------------------------------
(* Two sets that differ in one element at most.                            *)
LEMMA OneApart ==
  ASSUME NEW S, NEW T, NEW e, IsFiniteSet(S), T \ {e} = S \ {e}
  PROVE  /\ IsFiniteSet(T)
         /\ Cardinality(T) = (Cardinality(S) - One(e \in S)) + One(e \in T)
<1> DEFINE U == S \ {e}
<1>1. IsFiniteSet(U) /\ Cardinality(U) = Cardinality(S) - One(e \in S)
  BY FS_RemoveElement, FS_CardinalityType DEF One
<1>2. T = IF e \in T THEN U \cup {e} ELSE U
  OBVIOUS
<1>3. /\ IsFiniteSet(U \cup {e})
      /\ Cardinality(U \cup {e}) = Cardinality(U) + 1 /\ Cardinality(U) \in Int
  <2>1. e \notin U
    OBVIOUS
  <2> HIDE DEF U
  <2> QED  BY <1>1, <2>1, FS_AddElement, FS_CardinalityType
<1> HIDE DEF U
<1>4. CASE e \in T
  <2>1. T = U \cup {e} /\ One(e \in T) = 1
    BY <1>2, <1>4 DEF One
  <2> QED  BY <1>1, <1>3, <2>1
<1>5. CASE e \notin T
  <2>1. T = U /\ One(e \in T) = 0
    BY <1>2, <1>5 DEF One
  <2> QED  BY <1>1, <1>3, <2>1
<1> QED  BY <1>4, <1>5

LEMMA Sizes ==
  ASSUME GaugesTyped
  PROVE  /\ Cardinality(Rows) \in Int /\ Cardinality(Threats) \in Int
         /\ Cardinality(RowDebts) \in Int /\ Cardinality(MoreDebts) \in Int
         /\ Cardinality(LessDebts) \in Int
  BY FS_CardinalityType DEF GaugesTyped

LEMMA StatusTells ==
  ASSUME NEW r \in RecordOrNone
  PROVE  /\ r.status \in {"none", "safe", "threat"}
         /\ r = NoRecord <=> r.status = "none"
  BY DEF RecordOrNone, Record, NoRecord

(* What a step of one worker, on one row, does to the counts and the debts. *)
Rest(w) ==
  /\ RowDebts' \ {w} = RowDebts \ {w} /\ MoreDebts' \ {w} = MoreDebts \ {w}
  /\ LessDebts' \ {w} = LessDebts \ {w}
  /\ \A ip \in IPs : ip # IP(w) => (ip \in Rows' <=> ip \in Rows)
                                   /\ (ip \in Threats' <=> ip \in Threats)

RowMatched(w) ==
  EntityChange(w) + One(w \in RowDebts') - One(w \in RowDebts)
    = One(IP(w) \in Rows') - One(IP(w) \in Rows)
ThreatMatched(w) ==
  ThreatChange(w) + (One(w \in MoreDebts') - One(w \in MoreDebts))
    = (One(IP(w) \in Threats') - One(IP(w) \in Threats))
      + (One(w \in LessDebts') - One(w \in LessDebts))

LEMMA ChangesAreWhole ==
  ASSUME NEW w
  PROVE  EntityChange(w) \in Int /\ ThreatChange(w) \in Int
<1>1. \A c : One(c) \in Int
  BY DEF One
<1> QED  BY <1>1 DEF EntityChange, ThreatChange

LEMMA BalanceMoves ==
  ASSUME GaugesTyped, Balanced, NEW w \in Workers, Rest(w),
         entities' = entities + EntityChange(w), threats' = threats + ThreatChange(w),
         counting' = counting, ~blurred' => ~blurred,
         ~blurred' => RowMatched(w) /\ ThreatMatched(w)
  PROVE  GaugesTyped' /\ Balanced'
<1>1. EntityChange(w) \in Int /\ ThreatChange(w) \in Int /\ \A c : One(c) \in {0, 1}
  BY ChangesAreWhole DEF One
<1>2. Rows' \ {IP(w)} = Rows \ {IP(w)} /\ Threats' \ {IP(w)} = Threats \ {IP(w)}
  BY DEF Rest, Rows, Threats
<1>3. /\ IsFiniteSet(Rows') /\ IsFiniteSet(Threats') /\ IsFiniteSet(RowDebts')
      /\ IsFiniteSet(MoreDebts') /\ IsFiniteSet(LessDebts')
      /\ Cardinality(Rows') = (Cardinality(Rows) - One(IP(w) \in Rows)) + One(IP(w) \in Rows')
      /\ Cardinality(Threats') =
           (Cardinality(Threats) - One(IP(w) \in Threats)) + One(IP(w) \in Threats')
      /\ Cardinality(RowDebts') =
           (Cardinality(RowDebts) - One(w \in RowDebts)) + One(w \in RowDebts')
      /\ Cardinality(MoreDebts') =
           (Cardinality(MoreDebts) - One(w \in MoreDebts)) + One(w \in MoreDebts')
      /\ Cardinality(LessDebts') =
           (Cardinality(LessDebts) - One(w \in LessDebts)) + One(w \in LessDebts')
  BY <1>2, OneApart DEF GaugesTyped, Rest
<1>4. entities \in Int /\ threats \in Int
  BY DEF GaugesTyped
<1>5. GaugesTyped'
  BY <1>1, <1>3, <1>4 DEF GaugesTyped
<1>6. ASSUME RowMatched(w), RowsBalance PROVE RowsBalance'
  BY <1>1, <1>3, <1>4, <1>6, Sizes DEF RowMatched, RowsBalance
<1>7. ASSUME ThreatMatched(w), ThreatsBalance PROVE ThreatsBalance'
  BY <1>1, <1>3, <1>4, <1>7, Sizes DEF ThreatMatched, ThreatsBalance
<1>8. Balanced'
  BY <1>6, <1>7 DEF Balanced
<1> QED  BY <1>5, <1>8

(* A step that stores nothing and changes no debt.                         *)
LEMMA BalanceStays ==
  ASSUME GaugesTyped, Balanced, UNCHANGED <<entities, threats, counting>>,
         ~blurred' => ~blurred,
         Rows' = Rows, Threats' = Threats, RowDebts' = RowDebts, MoreDebts' = MoreDebts,
         LessDebts' = LessDebts
  PROVE  GaugesTyped' /\ Balanced'
  BY DEF GaugesTyped, Balanced, RowsBalance, ThreatsBalance
-----------------------------------------------------------------------------
(* The steps of a request, told by what they do to its row and its debt.   *)
QuietMove(w) ==
  /\ pc[w] \notin StoredPlaces /\ pc'[w] \notin StoredPlaces
  /\ ~Deletes(w) /\ UNCHANGED db

StoreMove(w) ==
  /\ Goes(w, "save", "reread") \/ Goes(w, "trapSave", "trapReread")
  /\ db' = [db EXCEPT ![IP(w)] = req[w].record] /\ UNCHANGED req

RowMove(w) ==
  \/ Deletes(w) /\ db' = [db EXCEPT ![IP(w)] = NoRecord]
  \/ StoreMove(w)
  \/ Goes(w, "trapReread", "trapFill") /\ UNCHANGED <<db, req>>
  \/ Goes(w, "reread", "succeed") /\ UNCHANGED db
  \/ Goes(w, "trapFill", "done") /\ UNCHANGED db
  \/ (Goes(w, "reread", "fail") \/ Goes(w, "trapReread", "done")) /\ UNCHANGED db

LEMMA WorkerMoves ==
  ASSUME TypeInv, NEW w \in Workers, WorkerStep(w)
  PROVE  /\ IP(w)' = IP(w) /\ pc'[w] # pc[w]
         /\ \A v \in Workers : v # w => pc'[v] = pc[v] /\ req'[v] = req[v]
         /\ UNCHANGED <<cleaner, flight>>
         /\ QuietMove(w) \/ RowMove(w)
         /\ Goes(w, "trapRead", "trapSave") => req'[w].record = TrapRecord
         /\ pc'[w] = "trapSave" => pc[w] = "trapRead"
<1>1. WorkersTyped
  BY TypeInvParts
<1>2. UNCHANGED <<cleaner, flight>>
  BY Zenon DEF WorkerStep, CheckStep, TrapStep, LookInCache, CleanGet, CleanRemove,
     CleanDelete, LookInDatabase, PassBreaker, AskAbuseIPDB, SaveChecked,
     RereadChecked, RecordFailure, RecordSuccess, FillCache, TrapRead, TrapSave,
     TrapReread, TrapFill, reporterVars
<1>3. UNCHANGED req \/ (\E v : Answer(w, v)) \/ (\E r : Hold(w, r))
  BY Zenon DEF WorkerStep, CheckStep, TrapStep, LookInCache, CleanGet, CleanRemove,
     CleanDelete, LookInDatabase, PassBreaker, AskAbuseIPDB, SaveChecked,
     RereadChecked, RecordFailure, RecordSuccess, FillCache, TrapRead, TrapSave,
     TrapReread, TrapFill
<1>4. IP(w)' = IP(w) /\ \A v \in Workers : v # w => req'[v] = req[v]
  BY <1>1, <1>3 DEF Answer, Hold, WorkersTyped, IP
<1>5. /\ \A from, to : Goto(w, from, to) => Goes(w, from, to)
      /\ \A r : Hold(w, r) => req'[w].record = r
  BY <1>1 DEF Goto, Goes, Hold, WorkersTyped
<1>6. \A v \in Workers : v # w => pc'[v] = pc[v]
  <2>1. \E to : pc' = [pc EXCEPT ![w] = to]
    BY Zenon DEF WorkerStep, CheckStep, TrapStep, LookInCache, CleanGet, CleanRemove,
       CleanDelete, LookInDatabase, PassBreaker, AskAbuseIPDB, SaveChecked,
       RereadChecked, RecordFailure, RecordSuccess, FillCache,
       TrapRead, TrapSave, TrapReread, TrapFill, Goto
  <2> QED  BY <1>1, <2>1 DEF WorkersTyped
<1> DEFINE Told ==
      /\ pc'[w] # pc[w] /\ (QuietMove(w) \/ RowMove(w))
      /\ Goes(w, "trapRead", "trapSave") => req'[w].record = TrapRecord
      /\ pc'[w] = "trapSave" => pc[w] = "trapRead"
<1>7. ASSUME LookInCache(w) \/ CleanGet(w) \/ CleanRemove(w) \/ LookInDatabase(w)
             \/ PassBreaker(w) \/ AskAbuseIPDB(w) \/ RecordFailure(w)
             \/ RecordSuccess(w) \/ FillCache(w)
      PROVE  Told
  <2>1. UNCHANGED db
    BY <1>7, Zenon DEF LookInCache, CleanGet, CleanRemove, LookInDatabase, PassBreaker,
       AskAbuseIPDB, RecordFailure, RecordSuccess, FillCache
  <2>2. \/ Goes(w, "l1Get", "dbGet") \/ Goes(w, "l1Get", "cleanGet")
        \/ Goes(w, "l1Get", "done") \/ Goes(w, "cleanGet", "cleanRemove")
        \/ Goes(w, "cleanRemove", "cleanDelete") \/ Goes(w, "dbGet", "fill")
        \/ Goes(w, "dbGet", "admit") \/ Goes(w, "dbGet", "done")
        \/ Goes(w, "admit", "ask") \/ Goes(w, "admit", "done")
        \/ Goes(w, "ask", "save") \/ Goes(w, "ask", "fail") \/ Goes(w, "fail", "done")
        \/ Goes(w, "succeed", "fill") \/ Goes(w, "fill", "done")
    BY <1>5, <1>7, Zenon DEF LookInCache, CleanGet, CleanRemove, LookInDatabase,
       PassBreaker, AskAbuseIPDB, RecordFailure, RecordSuccess, FillCache
  <2> QED  BY <2>1, <2>2 DEF QuietMove, Deletes, Goes, StoredPlaces
<1>8. ASSUME TrapRead(w)
      PROVE  Told
  <2>1. /\ UNCHANGED db
        /\ \/ Goes(w, "trapRead", "trapSave") /\ Hold(w, TrapRecord)
           \/ Goes(w, "trapRead", "done")
    BY <1>5, <1>8, Zenon DEF TrapRead
  <2>2. Hold(w, TrapRecord) => req'[w].record = TrapRecord
    BY <1>5
  <2>3. QuietMove(w)
    BY <2>1 DEF QuietMove, Deletes, Goes, StoredPlaces
  <2> QED  BY <2>1, <2>2, <2>3 DEF Goes
<1>9. ASSUME CleanDelete(w)
      PROVE  Told
  <2>1. CASE NoFault /\ db' = [db EXCEPT ![IP(w)] = NoRecord]
    <3>1. Goes(w, "cleanDelete", "dbGet") /\ Deletes(w)
      BY <1>5, <1>9, <2>1, Zenon DEF CleanDelete, Deletes
    <3> QED  BY <2>1, <3>1 DEF RowMove, Goes
  <2>2. CASE Fault /\ UNCHANGED db
    <3>1. ~NoFault
      BY <2>2, TypeInvParts DEF Fault, NoFault, RestTyped
    <3>2. Goes(w, "cleanDelete", "dbGet") /\ ~Deletes(w)
      BY <1>5, <1>9, <3>1, Zenon DEF CleanDelete, Deletes
    <3> QED  BY <2>2, <3>2 DEF QuietMove, Goes, StoredPlaces
  <2> QED  BY <1>9, <2>1, <2>2 DEF CleanDelete
<1>10. ASSUME SaveChecked(w) \/ TrapSave(w)
      PROVE  Told
  <2>1. \/ StoreMove(w)
        \/ UNCHANGED db /\ (Goes(w, "save", "fail") \/ Goes(w, "trapSave", "done"))
    BY <1>5, <1>10, Zenon DEF SaveChecked, TrapSave, StoreMove
  <2> QED  BY <2>1 DEF StoreMove, RowMove, QuietMove, Deletes, Goes, StoredPlaces
<1>11. ASSUME RereadChecked(w) \/ TrapReread(w) \/ TrapFill(w)
      PROVE  Told
  <2>1. /\ UNCHANGED db
        /\ \/ Goes(w, "reread", "succeed") \/ Goes(w, "reread", "fail")
           \/ Goes(w, "trapReread", "trapFill") /\ UNCHANGED req
           \/ Goes(w, "trapReread", "done") \/ Goes(w, "trapFill", "done")
    BY <1>5, <1>11, Zenon DEF RereadChecked, TrapReread, TrapFill
  <2> QED  BY <2>1 DEF RowMove, Goes
<1>12. Told
  BY <1>7, <1>8, <1>9, <1>10, <1>11 DEF WorkerStep, CheckStep, TrapStep
<1> QED  BY <1>2, <1>4, <1>6, <1>12

(* What a worker owes once it is somewhere, and whoever did not move.      *)
LEMMA Debts ==
  ASSUME NEW w \in Workers
  PROVE  /\ (w \in RowDebts <=> OwesRow(w)) /\ (w \in RowDebts' <=> OwesRow(w)')
         /\ (w \in MoreDebts <=> OwesMore(w)) /\ (w \in MoreDebts' <=> OwesMore(w)')
         /\ (w \in LessDebts <=> OwesLess(w)) /\ (w \in LessDebts' <=> OwesLess(w)')
         /\ pc[w] \notin StoredPlaces => ~OwesRow(w) /\ ~OwesMore(w) /\ ~OwesLess(w)
         /\ pc'[w] \notin StoredPlaces => ~OwesRow(w)' /\ ~OwesMore(w)' /\ ~OwesLess(w)'
  BY DEF RowDebts, MoreDebts, LessDebts, OwesRow, OwesMore, OwesLess

LEMMA OthersOwe ==
  ASSUME NEW v \in Workers, pc'[v] = pc[v], req'[v] = req[v],
         seen'[v] = See(v) \/ seen'[v] = seen[v]
  PROVE  /\ (OwesRow(v)' <=> OwesRow(v)) /\ (OwesMore(v)' <=> OwesMore(v))
         /\ (OwesLess(v)' <=> OwesLess(v))
<1>1. pc[v] \in StoredPlaces => seen'[v] = seen[v]
  BY DEF See, Goes, StoredPlaces
<1> QED  BY <1>1 DEF OwesRow, OwesMore, OwesLess
(* What a step of the gate does to the gauges and to what is remembered.   *)
LEMMA Adjusts ==
  ASSUME GateStep
  PROVE  /\ \A w \in Workers : seen'[w] = See(w)
         /\ counting' \in {counting, "rows"}
         /\ cleaner'.at = cleaner.at => counting' = counting
         /\ ~blurred' => /\ ~blurred
                         /\ \A w \in Workers : ~ReplacesUnseen(w) /\ ~DeletesUnseen(w)
                                               /\ ~LeavesUncounted(w)
                         /\ \A ip \in IPs : ~WritesBackChanged(ip)
<1>1. /\ \A w \in Workers : seen'[w] = See(w)
      /\ counting' = IF cleaner.at = "idle" /\ cleaner'.at = "sweep" /\ NoFault
                 THEN "rows" ELSE counting
  BY DEF GateStep
<1>2. blurred' = (blurred \/ Slips)
  BY Zenon DEF GateStep
<1>3. ~blurred' => ~blurred /\ ~Slips
  BY <1>2, Zenon
<1>4. ~Slips => /\ \A w \in Workers : ~ReplacesUnseen(w) /\ ~DeletesUnseen(w)
                                      /\ ~LeavesUncounted(w)
                /\ \A ip \in IPs : ~WritesBackChanged(ip)
  BY Zenon DEF Slips
<1>5. cleaner'.at = cleaner.at => counting' = counting
  BY <1>1
<1> QED  BY <1>1, <1>3, <1>4, <1>5

LEMMA MoverAdjusts ==
  ASSUME GateStep, NEW w \in Workers, pc'[w] # pc[w],
         \A v \in Workers : v # w => pc'[v] = pc[v]
  PROVE  entities' = entities + EntityChange(w) /\ threats' = threats + ThreatChange(w)
<1>1. \/ \A v \in Workers : pc'[v] = pc[v]
      \/ \E v \in Workers : /\ pc'[v] # pc[v]
                            /\ entities' = entities + EntityChange(v)
                            /\ threats' = threats + ThreatChange(v)
  BY Zenon DEF GateStep
<1> QED  BY <1>1, Zenon

(* What each step of a request adds to the gauges.                         *)
LEMMA Changes ==
  ASSUME NEW w
  PROVE  /\ ~Deletes(w) /\ ~Saves(w) /\ ~Traps(w) =>
              EntityChange(w) = 0 /\ ThreatChange(w) = 0
         /\ Deletes(w) =>
              EntityChange(w) = -1 /\ ThreatChange(w) = -One(seen[w] = "threat")
         /\ ~Deletes(w) /\ Saves(w) =>
              /\ EntityChange(w) = One(seen[w] = "none")
              /\ ThreatChange(w) =
                   One(req[w].record.status = "threat") - One(seen[w] = "threat")
         /\ ~Deletes(w) /\ Traps(w) =>
              /\ EntityChange(w) = One(seen[w] = "none")
              /\ ThreatChange(w) = One(seen[w] # "threat")
<1>1. ~(Saves(w) /\ Traps(w))
  BY DEF Saves, Traps, Goes
<1> QED  BY <1>1 DEF EntityChange, ThreatChange, One

(* The gauges follow every step of a request that does not slip.           *)
LEMMA StepMatched ==
  ASSUME TypeInv, TrapsHoldThreats, NEW w \in Workers, IP(w)' = IP(w),
         pc'[w] # pc[w], QuietMove(w) \/ RowMove(w), seen'[w] = See(w),
         ~ReplacesUnseen(w), ~DeletesUnseen(w), ~LeavesUncounted(w)
  PROVE  RowMatched(w) /\ ThreatMatched(w)
<1>1. /\ IP(w) \in IPs /\ db \in [IPs -> RecordOrNone]
      /\ pc[w] \in HoldingPlaces => req[w].record \in Record
  BY TypeInvParts DEF WorkersTyped, TableTyped, IP
<1>2. /\ (IP(w) \in Rows <=> db[IP(w)] # NoRecord)
      /\ (IP(w) \in Rows' <=> db'[IP(w)] # NoRecord)
      /\ (IP(w) \in Threats <=> db[IP(w)].status = "threat")
      /\ (IP(w) \in Threats' <=> db'[IP(w)].status = "threat")
  BY <1>1 DEF Rows, Threats
<1>3. /\ NoRecord.status = "none"
      /\ \A r \in RecordOrNone : r = NoRecord <=> r.status = "none"
      /\ Record \subseteq RecordOrNone
  BY StatusTells DEF NoRecord, RecordOrNone
<1>4. CASE QuietMove(w)
  <2>1. EntityChange(w) = 0 /\ ThreatChange(w) = 0
    BY <1>4, Changes DEF QuietMove, Saves, Traps, Goes, StoredPlaces
  <2>2. db'[IP(w)] = db[IP(w)]
    BY <1>4 DEF QuietMove
  <2>3. /\ One(w \in RowDebts') = One(w \in RowDebts)
        /\ One(w \in MoreDebts') = 0 /\ One(w \in MoreDebts) = 0
        /\ One(w \in LessDebts') = 0 /\ One(w \in LessDebts) = 0
        /\ One(w \in RowDebts') = 0 /\ One(w \in RowDebts) = 0
    BY <1>4, Debts DEF QuietMove, One
  <2>4. /\ One(IP(w) \in Rows') = One(IP(w) \in Rows)
        /\ One(IP(w) \in Threats') = One(IP(w) \in Threats)
    BY <1>2, <2>2 DEF One
  <2> QED  BY <2>1, <2>3, <2>4 DEF RowMatched, ThreatMatched, One
<1>5. CASE Deletes(w) /\ db' = [db EXCEPT ![IP(w)] = NoRecord]
  <2>1. /\ EntityChange(w) = -1 /\ ThreatChange(w) = -One(seen[w] = "threat")
    BY <1>5, Changes
  <2>2. pc[w] = "cleanDelete" /\ pc'[w] = "dbGet"
    BY <1>5 DEF Deletes, Goes
  <2>3. /\ One(w \in MoreDebts') = 0 /\ One(w \in MoreDebts) = 0
        /\ One(w \in LessDebts') = 0 /\ One(w \in LessDebts) = 0
        /\ One(w \in RowDebts') = 0 /\ One(w \in RowDebts) = 0
    BY <2>2, Debts DEF StoredPlaces, One
  <2>4. /\ db[IP(w)] # NoRecord
        /\ db[IP(w)].status = "threat" <=> seen[w] = "threat"
    BY <1>5 DEF DeletesUnseen
  <2>5. db'[IP(w)] = NoRecord
    BY <1>1, <1>5
  <2>6. /\ One(IP(w) \in Rows') = 0 /\ One(IP(w) \in Rows) = 1
        /\ One(IP(w) \in Threats') = 0 /\ One(IP(w) \in Threats) = One(seen[w] = "threat")
    BY <1>2, <1>3, <2>4, <2>5 DEF One
  <2> QED  BY <2>1, <2>3, <2>6 DEF RowMatched, ThreatMatched, One
<1>6. CASE StoreMove(w)
  <2>1. /\ pc[w] \in {"save", "trapSave"} /\ pc'[w] \in {"reread", "trapReread"}
        /\ db'[IP(w)] = req[w].record /\ req' = req
    BY <1>1, <1>6 DEF StoreMove, Goes
  <2>2. seen'[w] = seen[w] /\ db[IP(w)].status = seen[w]
    BY <1>6 DEF StoreMove, ReplacesUnseen, See, Goes
  <2>3. EntityChange(w) = 0 /\ ThreatChange(w) = 0
    BY <2>1, Changes DEF Deletes, Saves, Traps, Goes
  <2>4. req[w].record \in RecordOrNone /\ req[w].record # NoRecord
    BY <1>1, <1>3, <2>1 DEF HoldingPlaces, Record, NoRecord
  <2>5. /\ One(w \in RowDebts) = 0 /\ One(w \in MoreDebts) = 0 /\ One(w \in LessDebts) = 0
    BY <2>1, Debts DEF StoredPlaces, One
  <2>6. /\ OwesRow(w)' <=> seen[w] = "none"
        /\ OwesMore(w)' <=> req[w].record.status = "threat" /\ seen[w] # "threat"
        /\ OwesLess(w)' <=> req[w].record.status # "threat" /\ seen[w] = "threat"
    BY <2>1, <2>2 DEF OwesRow, OwesMore, OwesLess, StoredPlaces
  <2>7. /\ One(w \in RowDebts') = One(seen[w] = "none")
        /\ One(w \in MoreDebts') = One(req[w].record.status = "threat" /\ seen[w] # "threat")
        /\ One(w \in LessDebts') = One(req[w].record.status # "threat" /\ seen[w] = "threat")
    BY <2>6, Debts DEF One
  <2>8. /\ One(IP(w) \in Rows') = 1 /\ One(IP(w) \in Rows) = One(seen[w] # "none")
        /\ One(IP(w) \in Threats') = One(req[w].record.status = "threat")
        /\ One(IP(w) \in Threats) = One(seen[w] = "threat")
    BY <1>1, <1>2, <1>3, <2>1, <2>2, <2>4 DEF One
  <2> QED  BY <2>3, <2>5, <2>7, <2>8 DEF RowMatched, ThreatMatched, One
<1>7. ASSUME UNCHANGED db, pc[w] \in StoredPlaces, ~Deletes(w)
      PROVE  /\ One(IP(w) \in Rows') = One(IP(w) \in Rows)
             /\ One(IP(w) \in Threats') = One(IP(w) \in Threats)
             /\ One(w \in RowDebts) = One(seen[w] = "none")
             /\ One(w \in MoreDebts) =
                  One(req[w].record.status = "threat" /\ seen[w] # "threat")
             /\ One(w \in LessDebts) =
                  One(req[w].record.status # "threat" /\ seen[w] = "threat")
  BY <1>2, <1>7, Debts DEF One, OwesRow, OwesMore, OwesLess
<1>8. ASSUME pc'[w] \notin StoredPlaces
      PROVE  /\ One(w \in RowDebts') = 0 /\ One(w \in MoreDebts') = 0
             /\ One(w \in LessDebts') = 0
  BY <1>8, Debts DEF One
<1>9. CASE Goes(w, "trapReread", "trapFill") /\ UNCHANGED <<db, req>>
  <2>1. seen'[w] = seen[w] /\ req' = req /\ pc[w] = "trapReread" /\ pc'[w] = "trapFill"
    BY <1>9 DEF See, Goes
  <2>2. EntityChange(w) = 0 /\ ThreatChange(w) = 0
    BY <2>1, Changes DEF Deletes, Saves, Traps, Goes
  <2>3. /\ (OwesRow(w)' <=> OwesRow(w)) /\ (OwesMore(w)' <=> OwesMore(w))
        /\ (OwesLess(w)' <=> OwesLess(w))
    BY <2>1 DEF OwesRow, OwesMore, OwesLess, StoredPlaces
  <2>4. /\ One(w \in RowDebts') = One(w \in RowDebts)
        /\ One(w \in MoreDebts') = One(w \in MoreDebts)
        /\ One(w \in LessDebts') = One(w \in LessDebts)
    BY <2>3, Debts DEF One
  <2>5. /\ One(IP(w) \in Rows') = One(IP(w) \in Rows)
        /\ One(IP(w) \in Threats') = One(IP(w) \in Threats)
    BY <1>2, <1>9 DEF One
  <2> QED  BY <2>2, <2>4, <2>5 DEF RowMatched, ThreatMatched, One
<1>10. CASE Goes(w, "reread", "succeed") /\ UNCHANGED db
  <2>1. /\ pc[w] \in StoredPlaces /\ pc'[w] \notin StoredPlaces /\ ~Deletes(w) /\ Saves(w)
    BY <1>10 DEF Deletes, Saves, Goes, StoredPlaces
  <2>2. /\ EntityChange(w) = One(seen[w] = "none")
        /\ ThreatChange(w) = One(req[w].record.status = "threat") - One(seen[w] = "threat")
    BY <2>1, Changes
  <2> QED  BY <1>7, <1>8, <1>10, <2>1, <2>2 DEF RowMatched, ThreatMatched, One
<1>11. CASE Goes(w, "trapFill", "done") /\ UNCHANGED db
  <2>1. /\ pc[w] \in StoredPlaces /\ pc'[w] \notin StoredPlaces /\ ~Deletes(w) /\ Traps(w)
        /\ req[w].record.status = "threat"
    BY <1>11 DEF Deletes, Traps, Goes, StoredPlaces, TrapsHoldThreats
  <2>2. /\ EntityChange(w) = One(seen[w] = "none")
        /\ ThreatChange(w) = One(seen[w] # "threat")
    BY <2>1, Changes
  <2> QED  BY <1>7, <1>8, <1>11, <2>1, <2>2 DEF RowMatched, ThreatMatched, One
<1>12. CASE (Goes(w, "reread", "fail") \/ Goes(w, "trapReread", "done")) /\ UNCHANGED db
  <2>1. /\ pc[w] \in StoredPlaces /\ pc'[w] \notin StoredPlaces /\ ~Deletes(w)
        /\ ~Saves(w) /\ ~Traps(w) /\ ~OwesRow(w) /\ ~OwesMore(w) /\ ~OwesLess(w)
    BY <1>12 DEF Deletes, Saves, Traps, Goes, StoredPlaces, LeavesUncounted, Owes
  <2>2. EntityChange(w) = 0 /\ ThreatChange(w) = 0
    BY <2>1, Changes
  <2>3. /\ One(w \in RowDebts) = 0 /\ One(w \in MoreDebts) = 0 /\ One(w \in LessDebts) = 0
    BY <2>1, Debts DEF One
  <2> QED  BY <1>7, <1>8, <1>12, <2>1, <2>2, <2>3 DEF RowMatched, ThreatMatched, One
<1> QED  BY <1>4, <1>5, <1>6, <1>9, <1>10, <1>11, <1>12 DEF RowMove
LEMMA WorkerGauges ==
  ASSUME TypeInv, GaugeInv, GateStep, NEW w \in Workers, WorkerStep(w)
  PROVE  GaugeInv'
<1>1. /\ IP(w)' = IP(w) /\ pc'[w] # pc[w]
      /\ \A v \in Workers : v # w => pc'[v] = pc[v] /\ req'[v] = req[v]
      /\ cleaner' = cleaner
      /\ QuietMove(w) \/ RowMove(w)
  BY WorkerMoves
<1>2. /\ entities' = entities + EntityChange(w) /\ threats' = threats + ThreatChange(w)
      /\ counting' = counting /\ \A v \in Workers : seen'[v] = See(v)
  BY <1>1, Adjusts, MoverAdjusts
<1>3. GaugesTyped /\ Balanced /\ TrapsHoldThreats
  BY DEF GaugeInv
<1>4. ~blurred' => ~blurred /\ RowMatched(w) /\ ThreatMatched(w)
  BY <1>1, <1>2, <1>3, Adjusts, StepMatched
<1>5. Rest(w)
  <2>1. /\ RowDebts' \ {w} = RowDebts \ {w} /\ MoreDebts' \ {w} = MoreDebts \ {w}
        /\ LessDebts' \ {w} = LessDebts \ {w}
    BY <1>1, <1>2, OthersOwe DEF RowDebts, MoreDebts, LessDebts
  <2>2. IP(w) \in IPs /\ db \in [IPs -> RecordOrNone]
    BY TypeInvParts DEF WorkersTyped, TableTyped, IP
  <2>3. \A ip \in IPs : ip # IP(w) => db'[ip] = db[ip]
    BY <1>1, <2>2 DEF QuietMove, RowMove, StoreMove
  <2> QED  BY <2>1, <2>3 DEF Rest, Rows, Threats
<1>6. GaugesTyped' /\ Balanced'
  <2>1. ~blurred' => ~blurred
    BY <1>4
  <2>2. ~blurred' => RowMatched(w) /\ ThreatMatched(w)
    BY <1>4
  <2> QED  BY <1>2, <1>3, <1>5, <2>1, <2>2, BalanceMoves
<1>7. TrapsHoldThreats'
  <2>1. ASSUME NEW v \in Workers, pc'[v] \in {"trapSave", "trapReread", "trapFill"}
        PROVE  req'[v].record.status = "threat"
    <3>1. CASE v # w
      BY <1>1, <1>3, <2>1, <3>1 DEF TrapsHoldThreats
    <3>2. CASE v = w /\ pc'[w] = "trapSave"
      BY <3>2, WorkerMoves DEF Goes, TrapRecord
    <3>3. CASE v = w /\ pc'[w] \in {"trapReread", "trapFill"}
      <4>1. pc[w] \in {"trapSave", "trapReread"} /\ UNCHANGED req
        BY <1>1, <3>3 DEF QuietMove, RowMove, StoreMove, Deletes, Goes, StoredPlaces
      <4> QED  BY <1>3, <3>3, <4>1 DEF TrapsHoldThreats
    <3> QED  BY <2>1, <3>1, <3>2, <3>3
  <2> QED  BY <2>1 DEF TrapsHoldThreats
<1> QED  BY <1>6, <1>7 DEF GaugeInv

(* The steps of the gate that are no worker's.                             *)
LEMMA RequestGauges ==
  ASSUME TypeInv, GaugeInv, GateStep,
         NEW w \in Workers, NEW ip \in IPs, NEW kind \in Kinds, Request(w, ip, kind)
  PROVE  GaugeInv'
<1>1. GaugesTyped /\ Balanced /\ TrapsHoldThreats
  BY DEF GaugeInv
<1>2. /\ pc[w] \in {"idle", "done"} /\ pc'[w] \in {"trapRead", "l1Get", "done"}
      /\ \A v \in Workers : v # w => pc'[v] = pc[v] /\ req'[v] = req[v]
      /\ UNCHANGED <<db, cleaner>>
  BY TypeInvParts DEF Request, WorkersTyped
<1>3. counting' = counting /\ \A v \in Workers : seen'[v] = See(v)
  BY <1>2, Adjusts
<1>4. UNCHANGED <<entities, threats>>
  <2>1. EntityChange(w) = 0 /\ ThreatChange(w) = 0
    BY <1>2, Changes DEF Deletes, Saves, Traps, Goes
  <2>2. \/ UNCHANGED <<entities, threats>>
        \/ \E v \in Workers : /\ pc'[v] # pc[v]
                              /\ entities' = entities + EntityChange(v)
                              /\ threats' = threats + ThreatChange(v)
    BY Zenon DEF GateStep
  <2>3. \/ UNCHANGED <<entities, threats>>
        \/ entities' = entities + 0 /\ threats' = threats + 0
    BY <1>2, <2>1, <2>2
  <2> QED  BY <1>1, <2>3 DEF GaugesTyped
<1>5. RowDebts' = RowDebts /\ MoreDebts' = MoreDebts /\ LessDebts' = LessDebts
  <2>1. ASSUME NEW v \in Workers
        PROVE  /\ (OwesRow(v)' <=> OwesRow(v)) /\ (OwesMore(v)' <=> OwesMore(v))
               /\ (OwesLess(v)' <=> OwesLess(v))
    <3>1. CASE v = w
      BY <1>2, <3>1, Debts DEF StoredPlaces
    <3>2. CASE v # w
      BY <1>2, <1>3, <3>2, OthersOwe
    <3> QED  BY <3>1, <3>2
  <2> QED  BY <2>1 DEF RowDebts, MoreDebts, LessDebts
<1>6. Rows' = Rows /\ Threats' = Threats
  BY <1>2 DEF Rows, Threats
<1>7. ~blurred' => ~blurred
  BY Adjusts
<1>8. GaugesTyped' /\ Balanced'
  BY <1>1, <1>3, <1>4, <1>5, <1>6, <1>7, BalanceStays
<1>9. TrapsHoldThreats'
  BY <1>1, <1>2 DEF TrapsHoldThreats
<1> QED  BY <1>8, <1>9 DEF GaugeInv

(* Nobody moves, and nothing but a report writes a row.                    *)
LEMMA StillGauges ==
  ASSUME TypeInv, GaugeInv, GateStep, UNCHANGED <<pc, req>>,
         cleaner'.at = cleaner.at \/ cleaner.at = "sweep",
         \/ UNCHANGED db
         \/ \E ip \in IPs : /\ flight[ip].at = "save" /\ flight'[ip].at = "reread"
                            /\ db' = [db EXCEPT ![ip] = Marked(ip)]
  PROVE  GaugeInv'
<1>1. GaugesTyped /\ Balanced /\ TrapsHoldThreats
  BY DEF GaugeInv
<1>2. UNCHANGED <<entities, threats, counting>>
  <2>1. UNCHANGED <<entities, threats>>
    <3>1. \/ UNCHANGED <<entities, threats>> \/ \E v \in Workers : pc'[v] # pc[v]
      BY Zenon DEF GateStep
    <3> QED  BY <3>1
  <2>2. counting' = counting
    BY DEF GateStep
  <2> QED  BY <2>1, <2>2
<1>3. RowDebts' = RowDebts /\ MoreDebts' = MoreDebts /\ LessDebts' = LessDebts
  <2>1. ASSUME NEW v \in Workers
        PROVE  /\ (OwesRow(v)' <=> OwesRow(v)) /\ (OwesMore(v)' <=> OwesMore(v))
               /\ (OwesLess(v)' <=> OwesLess(v))
    BY Adjusts, OthersOwe
  <2> QED  BY <2>1 DEF RowDebts, MoreDebts, LessDebts
<1>4. TrapsHoldThreats'
  BY <1>1 DEF TrapsHoldThreats
<1>5. CASE UNCHANGED db
  <2>1. Rows' = Rows /\ Threats' = Threats
    BY <1>5 DEF Rows, Threats
  <2> QED  BY <1>1, <1>2, <1>3, <1>4, <2>1, Adjusts, BalanceStays DEF GaugeInv
<1>6. ASSUME NEW ip \in IPs, flight[ip].at = "save", flight'[ip].at = "reread",
             db' = [db EXCEPT ![ip] = Marked(ip)]
      PROVE  GaugeInv'
  <2>1. /\ db \in [IPs -> RecordOrNone] /\ flight[ip].record \in Record
    BY <1>6, TypeInvParts DEF TableTyped, FlightsTyped, FlyingPlaces
  <2>2. /\ Marked(ip).status = flight[ip].record.status /\ Marked(ip) # NoRecord
        /\ Marked(ip).status \in {"safe", "threat"}
    BY <2>1 DEF Marked, Record, NoRecord
  <2>3. ASSUME db[ip].status = flight[ip].record.status
        PROVE  Rows' = Rows /\ Threats' = Threats
    <3>1. \A k \in IPs : db'[k] = IF k = ip THEN Marked(ip) ELSE db[k]
      BY <1>6, <2>1
    <3>2. db[ip] # NoRecord
      BY <2>2, <2>3 DEF NoRecord
    <3> QED  BY <2>2, <2>3, <3>1, <3>2 DEF Rows, Threats
  <2>4. CASE blurred'
    <3>1. IsFiniteSet(Rows') /\ IsFiniteSet(Threats')
      <4>1. Rows' \ {ip} = Rows \ {ip} /\ Threats' \ {ip} = Threats \ {ip}
        BY <1>6, <2>1 DEF Rows, Threats
      <4> QED  BY <1>1, <4>1, OneApart DEF GaugesTyped
    <3>2. GaugesTyped'
      BY <1>1, <1>2, <1>3, <3>1 DEF GaugesTyped
    <3> QED  BY <1>4, <2>4, <3>2 DEF GaugeInv, Balanced
  <2>5. CASE ~blurred'
    <3>1. ~blurred /\ ~WritesBackChanged(ip)
      BY <2>5, Adjusts
    <3>2. Rows' = Rows /\ Threats' = Threats
      BY <1>6, <2>3, <3>1 DEF WritesBackChanged
    <3> QED  BY <1>1, <1>2, <1>3, <1>4, <3>1, <3>2, BalanceStays DEF GaugeInv
  <2> QED  BY <2>4, <2>5
<1> QED  BY <1>5, <1>6
(* A round of the cleanup worker: it deletes, or fails to.                 *)
LEMMA RoundGauges ==
  ASSUME TypeInv, GaugeInv, GateStep, DeleteExpired
  PROVE  GaugeInv'
<1>1. GaugesTyped /\ Balanced /\ TrapsHoldThreats
  BY DEF GaugeInv
<1>2. UNCHANGED <<pc, req, entities, threats>> /\ \A v \in Workers : seen'[v] = See(v)
  <2>1. UNCHANGED <<pc, req>>
    BY DEF DeleteExpired, workerVars
  <2>2. \/ UNCHANGED <<entities, threats>> \/ \E v \in Workers : pc'[v] # pc[v]
    BY Zenon DEF GateStep
  <2> QED  BY <2>1, <2>2, Adjusts
<1>3. RowDebts' = RowDebts /\ MoreDebts' = MoreDebts /\ LessDebts' = LessDebts
  <2>1. ASSUME NEW v \in Workers
        PROVE  /\ (OwesRow(v)' <=> OwesRow(v)) /\ (OwesMore(v)' <=> OwesMore(v))
               /\ (OwesLess(v)' <=> OwesLess(v))
    BY <1>2, OthersOwe
  <2> QED  BY <2>1 DEF RowDebts, MoreDebts, LessDebts
<1>4. TrapsHoldThreats'
  BY <1>1, <1>2 DEF TrapsHoldThreats
<1>5. CASE NoFault /\ db' = [ip \in IPs |-> IF LiveRow(ip) THEN db[ip] ELSE NoRecord]
  <2>1. counting' = "rows"
    BY <1>5 DEF GateStep, DeleteExpired, NoFault
  <2>2. Rows' \subseteq Rows /\ Threats' \subseteq Threats
    BY <1>5 DEF Rows, Threats, NoRecord
  <2>3. GaugesTyped'
    BY <1>1, <1>2, <1>3, <2>2, FS_Subset DEF GaugesTyped
  <2> QED  BY <1>4, <2>1, <2>3 DEF GaugeInv, Balanced
<1>6. CASE Fault /\ UNCHANGED db
  <2>1. ~NoFault
    BY <1>6, TypeInvParts DEF Fault, NoFault, RestTyped
  <2>2. counting' = counting
    BY <2>1, Zenon DEF GateStep
  <2>3. Rows' = Rows /\ Threats' = Threats
    BY <1>6 DEF Rows, Threats
  <2> QED  BY <1>1, <1>2, <1>3, <1>4, <2>2, <2>3, Adjusts, BalanceStays DEF GaugeInv
<1> QED  BY <1>5, <1>6 DEF DeleteExpired

LEMMA GateGauges ==
  ASSUME TypeInv, GaugeInv, GateStep
  PROVE  GaugeInv'
<1>1. Next /\ UNCHANGED crashes
  BY DEF GateStep
<1>2. ~Crash
  BY <1>1, TypeInvParts DEF Crash, RestTyped
<1>3. CASE \E ip \in IPs : FlightStep(ip)
  <2> PICK ip \in IPs : FlightStep(ip)
    BY <1>3
  <2>1. UNCHANGED <<pc, req, cleaner>>
    BY Zenon DEF FlightStep, StartFlight, JoinFlight, FlightRead, FlightCall,
       FlightSave, FlightReread, FlightFill, workerVars
  <2>2. \/ UNCHANGED db
        \/ /\ flight[ip].at = "save"
           /\ flight' = [flight EXCEPT ![ip] = [at |-> "reread", record |-> Marked(ip)]]
           /\ db' = [db EXCEPT ![ip] = Marked(ip)]
    BY Zenon DEF FlightStep, StartFlight, JoinFlight, FlightRead, FlightCall,
       FlightSave, FlightReread, FlightFill
  <2>3. \/ UNCHANGED db
        \/ /\ flight[ip].at = "save" /\ flight'[ip].at = "reread"
           /\ db' = [db EXCEPT ![ip] = Marked(ip)]
    BY <2>2, TypeInvParts DEF FlightsTyped
  <2> QED  BY <2>1, <2>3, StillGauges
<1>4. CASE SweepCache \/ Tick
  <2>1. UNCHANGED <<pc, req, db>> /\ (cleaner' = cleaner \/ cleaner.at = "sweep")
    BY <1>4 DEF SweepCache, Tick, workerVars
  <2> QED  BY <2>1, StillGauges
<1> QED  BY <1>1, <1>2, <1>3, <1>4, WorkerGauges, RequestGauges, RoundGauges DEF Next

(* The reads of the table that are made for the gauges.                    *)
LEMMA ReadGauges ==
  ASSUME TypeInv, DOMAIN seen = Workers, GaugeInv,
         (\E w \in Workers : SeeRow(w)) \/ CountRows \/ CountThreats
  PROVE  GaugeInv'
<1>1. GaugesTyped /\ Balanced /\ TrapsHoldThreats
  BY DEF GaugeInv
<1>2. /\ UNCHANGED <<db, pc, req>> /\ Rows' = Rows /\ Threats' = Threats
      /\ TrapsHoldThreats'
  <2>1. UNCHANGED <<db, pc, req>>
    BY DEF SeeRow, CountRows, CountThreats, gateVars, workerVars
  <2> QED  BY <1>1, <2>1 DEF Rows, Threats, TrapsHoldThreats
<1>3. ASSUME NEW w \in Workers, SeeRow(w)
      PROVE  GaugeInv'
  <2>1. /\ pc[w] = "save" /\ UNCHANGED <<entities, threats, counting>>
        /\ \A v \in Workers : v # w => seen'[v] = seen[v]
    BY <1>3 DEF SeeRow
  <2>2. ~blurred' => ~blurred
    BY <1>3, Zenon DEF SeeRow
  <2>3. RowDebts' = RowDebts /\ MoreDebts' = MoreDebts /\ LessDebts' = LessDebts
    <3>1. ASSUME NEW v \in Workers
          PROVE  /\ (OwesRow(v)' <=> OwesRow(v)) /\ (OwesMore(v)' <=> OwesMore(v))
                 /\ (OwesLess(v)' <=> OwesLess(v))
      BY <1>2, <2>1, Debts, OthersOwe DEF StoredPlaces
    <3> QED  BY <3>1 DEF RowDebts, MoreDebts, LessDebts
  <2> QED  BY <1>1, <1>2, <2>1, <2>2, <2>3, BalanceStays DEF GaugeInv
<1>4. ASSUME UNCHANGED seen
      PROVE  /\ RowDebts' = RowDebts /\ MoreDebts' = MoreDebts /\ LessDebts' = LessDebts
  BY <1>2, <1>4 DEF RowDebts, MoreDebts, LessDebts, OwesRow, OwesMore, OwesLess
<1>5. ASSUME ~SomeoneOwes
      PROVE  /\ Cardinality(RowDebts) = 0 /\ Cardinality(MoreDebts) = 0
             /\ Cardinality(LessDebts) = 0
  <2>1. RowDebts = {} /\ MoreDebts = {} /\ LessDebts = {}
    BY <1>5 DEF SomeoneOwes, Owes, RowDebts, MoreDebts, LessDebts
  <2> QED  BY <2>1, FS_EmptySet
<1>6. CASE CountRows
  <2>1. counting' = "threats" /\ UNCHANGED <<threats, seen>>
    BY <1>6 DEF CountRows
  <2>2. ~blurred' => ~SomeoneOwes /\ entities' = Cardinality(Rows)
    BY <1>6, Zenon DEF CountRows
  <2>3. entities' \in Int
    BY <1>1, <1>6, Sizes DEF CountRows, GaugesTyped
  <2>4. GaugesTyped'
    BY <1>1, <1>2, <1>4, <2>1, <2>3 DEF GaugesTyped
  <2>5. ~blurred' => RowsBalance'
    BY <1>1, <1>2, <1>4, <1>5, <2>1, <2>2, Sizes DEF RowsBalance
  <2> QED  BY <1>2, <2>1, <2>4, <2>5 DEF GaugeInv, Balanced
<1>7. CASE CountThreats
  <2>1. counting = "threats" /\ counting' = "nothing" /\ UNCHANGED <<entities, seen>>
    BY <1>7 DEF CountThreats
  <2>2. ~blurred' => ~blurred /\ ~SomeoneOwes /\ threats' = Cardinality(Threats)
    BY <1>7, Zenon DEF CountThreats
  <2>3. threats' \in Int
    BY <1>1, <1>7, Sizes DEF CountThreats, GaugesTyped
  <2>4. GaugesTyped'
    BY <1>1, <1>2, <1>4, <2>1, <2>3 DEF GaugesTyped
  <2>5. ~blurred' => RowsBalance' /\ ThreatsBalance'
    BY <1>1, <1>2, <1>4, <1>5, <2>1, <2>2, Sizes
       DEF Balanced, RowsBalance, ThreatsBalance
  <2> QED  BY <1>2, <2>1, <2>4, <2>5 DEF GaugeInv, Balanced
<1> QED  BY <1>3, <1>6, <1>7

(* A new process sets its gauges before anybody owes them anything.        *)
LEMMA NobodyOwes ==
  ASSUME \A w \in Workers : pc[w] = "idle"
  PROVE  /\ RowDebts = {} /\ MoreDebts = {} /\ LessDebts = {} /\ TrapsHoldThreats
  BY DEF RowDebts, MoreDebts, LessDebts, OwesRow, OwesMore, OwesLess, StoredPlaces,
         TrapsHoldThreats

LEMMA RestartGauges ==
  ASSUME TypeInv, GaugeInv, Restart
  PROVE  GaugeInv'
<1> DEFINE counts == InitializeMetrics(db)
<1>1. /\ UNCHANGED db /\ \A w \in Workers : pc'[w] = "idle"
      /\ counting' = "nothing"
  BY DEF Restart, Crash
<1>2. /\ Rows' = Rows /\ Threats' = Threats
      /\ counts = [entities |-> Cardinality(Rows), threats |-> Cardinality(Threats)]
  BY <1>1 DEF Rows, Threats, InitializeMetrics
<1>3. Cardinality(Rows) \in Int /\ Cardinality(Threats) \in Int
  BY Sizes DEF GaugeInv
<1>4. /\ entities' \in Int /\ threats' \in Int
      /\ ~blurred' => entities' = Cardinality(Rows) /\ threats' = Cardinality(Threats)
  <2>1. CASE entities' = counts.entities /\ threats' = counts.threats
    BY <1>2, <1>3, <2>1
  <2>2. CASE /\ blurred' = TRUE
             /\ \E zero \in DOMAIN counts :
                  /\ entities' = [counts EXCEPT ![zero] = 0].entities
                  /\ threats' = [counts EXCEPT ![zero] = 0].threats
    BY <1>2, <1>3, <2>2
  <2> QED  BY <2>1, <2>2 DEF Restart
<1>5. RowDebts' = {} /\ MoreDebts' = {} /\ LessDebts' = {} /\ TrapsHoldThreats'
  BY <1>1 DEF RowDebts, MoreDebts, LessDebts, OwesRow, OwesMore, OwesLess, StoredPlaces,
              TrapsHoldThreats
<1>6. GaugesTyped'
  BY <1>2, <1>4, <1>5, FS_EmptySet DEF GaugeInv, GaugesTyped
<1>7. ~blurred' => RowsBalance' /\ ThreatsBalance'
  BY <1>2, <1>3, <1>4, <1>5, FS_EmptySet DEF RowsBalance, ThreatsBalance
<1> QED  BY <1>5, <1>6, <1>7 DEF GaugeInv, Balanced

LEMMA FirstGauges ==
  ASSUME ViewsInit
  PROVE  GaugeInv
<1>1. db = [ip \in IPs |-> NoRecord] /\ \A w \in Workers : pc[w] = "idle"
  BY DEF ViewsInit, Init
<1>2. Rows = {} /\ Threats = {}
  BY <1>1 DEF Rows, Threats, NoRecord
<1>3. entities = Cardinality(Rows) /\ threats = Cardinality(Threats)
  BY DEF ViewsInit, InitializeMetrics, Rows, Threats
<1>4. RowDebts = {} /\ MoreDebts = {} /\ LessDebts = {} /\ TrapsHoldThreats
  BY <1>1, NobodyOwes
<1> QED  BY <1>2, <1>3, <1>4, FS_EmptySet
         DEF GaugeInv, GaugesTyped, Balanced, RowsBalance, ThreatsBalance

(* A step of the gauges is a step of the gate, or leaves the gate alone.   *)
LEMMA ViewsStep ==
  ASSUME [ViewsNext]_viewsVars
  PROVE  [Next]_gateVars
<1>1. CASE UNCHANGED viewsVars
  BY <1>1 DEF viewsVars
<1>2. CASE \E w \in Workers : SeeRow(w)
  BY <1>2 DEF SeeRow
<1>3. CASE CountRows \/ CountThreats
  BY <1>3 DEF CountRows, CountThreats
<1>4. CASE GateStep
  BY <1>4 DEF GateStep
<1>5. CASE Restart
  BY <1>5 DEF Restart, Next
<1> QED  BY <1>1, <1>2, <1>3, <1>4, <1>5 DEF ViewsNext

LEMMA EveryoneSees ==
  /\ ViewsInit => DOMAIN seen = Workers
  /\ DOMAIN seen = Workers /\ [ViewsNext]_viewsVars => (DOMAIN seen = Workers)'
<1>1. ViewsInit => DOMAIN seen = Workers
  BY DEF ViewsInit
<1>2. ASSUME DOMAIN seen = Workers, [ViewsNext]_viewsVars
      PROVE  (DOMAIN seen)' = Workers
  BY <1>2 DEF ViewsNext, SeeRow, CountRows, CountThreats, GateStep, Restart, viewsVars,
              viewVars
<1> QED  BY <1>1, <1>2

(* The gauges of /metrics are the numbers of rows and of threats in the    *)
(* table whenever nobody has a stored record still to count, unless one of *)
(* the named slips has happened since they were set: for any number of     *)
(* requests, reports and IPs, overlapping as they may, through every order *)
(* of inserts, updates, clean-ups, rounds of the cleanup worker, failures  *)
(* and restarts.  The proof is a balance: gauge and open debts of the      *)
(* workers make up the count of the table.                                 *)
THEOREM GaugesAreExact == ViewsSpec => []GaugesExact
<1>1. ViewsSpec => Spec
  <2>1. ViewsInit => Init
    BY DEF ViewsInit
  <2>2. [ViewsNext]_viewsVars => [Next]_gateVars
    BY ViewsStep
  <2> QED  BY <2>1, <2>2, PTL DEF ViewsSpec, Spec
<1>2. ViewsSpec => []TypeInv /\ [](DOMAIN seen = Workers)
  BY <1>1, Sound, EveryoneSees, PTL DEF ViewsSpec
<1>3. GaugeInv /\ TypeInv /\ DOMAIN seen = Workers /\ [ViewsNext]_viewsVars => GaugeInv'
  <2> SUFFICES ASSUME GaugeInv, TypeInv, DOMAIN seen = Workers, [ViewsNext]_viewsVars
               PROVE  GaugeInv'
    OBVIOUS
  <2>1. CASE UNCHANGED viewsVars
    <3>1. UNCHANGED <<db, pc, req, entities, threats, seen, counting, blurred>>
      BY <2>1 DEF viewsVars, viewVars, gateVars, workerVars
    <3>2. /\ Rows' = Rows /\ Threats' = Threats
          /\ RowDebts' = RowDebts /\ MoreDebts' = MoreDebts /\ LessDebts' = LessDebts
      BY <3>1 DEF Rows, Threats, RowDebts, MoreDebts, LessDebts, OwesRow, OwesMore, OwesLess
    <3>3. TrapsHoldThreats'
      BY <3>1 DEF GaugeInv, TrapsHoldThreats
    <3> QED  BY <3>1, <3>2, <3>3, BalanceStays DEF GaugeInv
  <2> QED  BY <2>1, ReadGauges, GateGauges, RestartGauges DEF ViewsNext
<1>4. GaugeInv => GaugesExact
  <2> SUFFICES ASSUME GaugeInv, ~blurred, ~SomeoneOwes, counting = "nothing"
               PROVE  entities = Cardinality(Rows) /\ threats = Cardinality(Threats)
    BY DEF GaugesExact
  <2>1. RowDebts = {} /\ MoreDebts = {} /\ LessDebts = {}
    BY DEF SomeoneOwes, Owes, RowDebts, MoreDebts, LessDebts
  <2>2. Cardinality({}) = 0
    BY FS_EmptySet
  <2> QED  BY <2>1, <2>2, Sizes
           DEF GaugeInv, GaugesTyped, Balanced, RowsBalance, ThreatsBalance
<1> QED  BY <1>2, <1>3, <1>4, FirstGauges, PTL DEF ViewsSpec
=============================================================================
