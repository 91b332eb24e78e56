---------------------------- MODULE HistoryProofs -----------------------------
(***************************************************************************)
(* Proofs about the gate with a memory (GateEvidence and GatePromise), for *)
(* any configuration: what L1 knows the table held before, what a client   *)
(* is told rests on what AbuseIPDB or a trap said of its IP, and the block *)
(* that an undisturbed trap promises is kept.                              *)
(***************************************************************************)
EXTENDS GateEvidence, GatePromise, GateProofs

(* The gate with a memory is the gate.                                     *)
LEMMA RestrictsNone == EvidenceSpec => Spec
<1>1. EvidenceInit => Init
  BY DEF EvidenceInit
<1>2. [EvidenceNext]_evidenceVars => [Next]_gateVars
  BY DEF EvidenceNext, evidenceVars
<1> QED  BY <1>1, <1>2, PTL DEF EvidenceSpec, Spec

-----------------------------------------------------------------------------
(* A record travels: from an answer or a trap to a goroutine, from there   *)
(* to the table, from the table to other goroutines and to reports, and    *)
(* from either to L1.  The invariant follows it: believed from the start,  *)
(* written as soon as somebody has read it back.  A trap's record scores   *)
(* 100, which is a threat unless the threshold is larger than any score;   *)
(* an open breaker answers for a score of 0, which blocks if the threshold *)
(* is no larger.                                                           *)
Attainable == 0 < Threshold /\ Threshold <= 100

Believed(ip, r) ==
  Attainable => r.status = StatusOf(r.score) /\ r.score \in heard[ip]

Told(ip, verdict) ==
  Attainable =>
    /\ verdict = "block" => \E score \in heard[ip] : score >= Threshold
    /\ verdict = "allow" => \E score \in heard[ip] : score < Threshold

TrapPlaces == {"trapSave", "trapReread", "trapFill"}

WorkerKnows(w) ==
  /\ pc[w] \in HoldingPlaces => Believed(IP(w), req[w].record)
  /\ pc[w] \in HoldingPlaces \ {"save", "trapSave"} => req[w].record \in written[IP(w)]
  /\ pc[w] \in TrapPlaces => req[w].record.status = "threat"
  /\ pc[w] = "done" => Told(IP(w), req[w].verdict)

WorkersKnow == \A w \in Workers : WorkerKnows(w)
TableKnows ==
  \A ip \in IPs :
    /\ db[ip] # NoRecord => db[ip] \in written[ip]
    /\ \A r \in written[ip] : r \in Record /\ Believed(ip, r)
FlightsKnow ==
  \A ip \in IPs : flight[ip].at \in FlyingPlaces => flight[ip].record \in written[ip]
CacheKnows == \A ip \in L1!Cached : ip \in IPs /\ cache[ip] \in written[ip]

AllKnow == WorkersKnow /\ TableKnows /\ FlightsKnow /\ CacheKnows

(* The histories only grow, by what is learnt and what is written.         *)
Remembered ==
  /\ \A ip \in IPs : heard[ip] \subseteq heard'[ip] /\ written[ip] \subseteq written'[ip]
  /\ \A ip \in IPs : db'[ip] # NoRecord => db'[ip] \in written'[ip]
  /\ \A ip \in IPs : \A r \in written'[ip] :
       r \in written[ip] \/ (r = db'[ip] /\ r # NoRecord)
  /\ \A w \in Workers :
       \/ pc[w] = "ask" /\ pc'[w] = "save"
       \/ pc[w] = "trapRead" /\ pc'[w] = "trapSave"
       => req'[w].record.score \in heard'[IP(w)]

LEMMA Remembers ==
  ASSUME TypeInv, EvidenceNext
  PROVE  Remembered
<1>1. \A w \in Workers : IP(w) \in IPs
  BY TypeInvParts DEF WorkersTyped, IP
<1>2. ASSUME NEW w \in Workers,
             \/ pc[w] = "ask" /\ pc'[w] = "save"
             \/ pc[w] = "trapRead" /\ pc'[w] = "trapSave"
      PROVE  req'[w].record.score \in heard'[IP(w)]
  <2>1. req'[w].record.score \in Learnt(IP(w))
    BY <1>2 DEF Learnt
  <2> QED  BY <1>1, <2>1 DEF EvidenceNext
<1> QED  BY <1>2 DEF EvidenceNext, Remembered

(* What is known stays known.                                              *)
LEMMA BeliefGrows ==
  ASSUME Remembered, NEW ip \in IPs
  PROVE  /\ \A r : Believed(ip, r) => Believed(ip, r)'
         /\ \A verdict : Told(ip, verdict) => Told(ip, verdict)'
  BY DEF Remembered, Believed, Told

LEMMA WorkerStillKnows ==
  ASSUME Remembered, WorkersTyped, NEW w \in Workers, WorkerKnows(w),
         pc'[w] = pc[w], req'[w] = req[w]
  PROVE  WorkerKnows(w)'
<1>1. IP(w) \in IPs /\ IP(w)' = IP(w) /\ written[IP(w)] \subseteq written'[IP(w)]
  BY DEF WorkersTyped, IP, Remembered
<1> QED  BY <1>1, BeliefGrows DEF WorkerKnows

(* What a step leaves in the table.                                        *)
LEMMA TableStillKnows ==
  ASSUME Remembered, TypeInv', TableKnows,
         \A ip \in IPs : \/ db'[ip] = NoRecord \/ db'[ip] \in written[ip]
                         \/ Believed(ip, db'[ip])
  PROVE  TableKnows'
<1>1. \A ip \in IPs : db'[ip] # NoRecord => db'[ip] \in Record
  BY TypeInvParts, NoRecordIsNone DEF TableTyped
<1>2. ASSUME NEW ip \in IPs, NEW r \in written'[ip]
      PROVE  r \in Record /\ Believed(ip, r)'
  BY <1>1, <1>2, BeliefGrows DEF Remembered, TableKnows
<1> QED  BY <1>2 DEF TableKnows, Remembered

LEMMA FlightsStillKnow ==
  ASSUME Remembered, FlightsKnow, UNCHANGED flight
  PROVE  FlightsKnow'
  BY DEF Remembered, FlightsKnow

(* What a step leaves in L1.                                               *)
LEMMA CacheFilled ==
  ASSUME Remembered, CacheKnows, NEW ip \in IPs, NEW r \in written[ip], L1!Set(ip, r)
  PROVE  CacheKnows'
<1>1. \A k \in (P!Cached)' : \/ k = ip /\ cache'[k] = r
                             \/ k \in P!Cached /\ cache'[k] = cache[k]
  BY SameSet, P!SetContents, SameCache
<1> QED  BY <1>1 DEF CacheKnows, L1!Cached, P!Cached, Remembered

LEMMA CacheStillKnows ==
  ASSUME Remembered, CacheKnows, NEW ip, NEW time,
         L1!Get(ip) \/ L1!Remove(ip) \/ L1!RemoveExpired(time) \/ UNCHANGED l1Vars
  PROVE  CacheKnows'
<1>1. P!Get(ip) \/ P!Remove(ip) \/ P!RemoveExpired(time) \/ UNCHANGED P!cacheVars
  BY SameGet, SameRemove, SameRemoveExpired DEF l1Vars, P!cacheVars
<1>2. \A k \in (P!Cached)' : k \in P!Cached /\ cache'[k] = cache[k]
  BY <1>1, P!OtherContents, SameCache
<1> QED  BY <1>2 DEF CacheKnows, L1!Cached, P!Cached, Remembered

(* The verdict on a believed record is told with reason; so is one that    *)
(* claims nothing.                                                         *)
LEMMA Judged ==
  ASSUME NEW ip, NEW r \in Record, Believed(ip, r)
  PROVE  Told(ip, VerdictOn(r))
<1>1. r.score \in Scores \cup {100}
  BY DEF Record
<1>2. Threshold \in Int /\ \A score \in Scores : score \in 0..100
  BY GateAssumption
<1> QED  BY <1>1, <1>2 DEF Believed, Told, VerdictOn

LEMMA ClaimsNothing ==
  ASSUME NEW ip
  PROVE  /\ Told(ip, OnSourceError) /\ Told(ip, OnBreakerError)
         /\ Told(ip, "none") /\ Told(ip, "assumed") /\ Told(ip, "accepted")
         /\ Told(ip, "fault")
  BY GateAssumption DEF Told, Attainable, OnSourceError, OnBreakerError

-----------------------------------------------------------------------------
(* What the worker of a step of a check knows after it.                    *)
LEMMA CheckerKnows ==
  ASSUME Remembered, TypeInv, TypeInv', AllKnow, NEW w \in Workers, CheckStep(w)
  PROVE  WorkerKnows(w)'
<1>1. /\ WorkersTyped /\ WorkersTyped' /\ IP(w) \in IPs /\ WorkerKnows(w)
      /\ TableTyped /\ TableKnows /\ CacheKnows
      /\ heard[IP(w)] \subseteq heard'[IP(w)] /\ written[IP(w)] \subseteq written'[IP(w)]
  BY TypeInvParts DEF WorkersTyped, IP, AllKnow, WorkersKnow, Remembered
<1>2. IP(w)' = IP(w)
  <2>1. UNCHANGED req \/ (\E v : Answer(w, v)) \/ (\E r : Hold(w, r))
    BY Zenon DEF CheckStep, LookInCache, CleanGet, CleanRemove, CleanDelete,
       LookInDatabase, PassBreaker, AskAbuseIPDB, SaveChecked, RereadChecked,
       RecordFailure, RecordSuccess, FillCache
  <2>2. \A v : Answer(w, v) => req'[w].ip = req[w].ip
    BY <1>1 DEF Answer, WorkersTyped
  <2>3. \A r : Hold(w, r) => req'[w].ip = req[w].ip
    BY <1>1 DEF Hold, WorkersTyped
  <2> QED  BY <2>1, <2>2, <2>3 DEF IP
<1>3. \A r \in written[IP(w)] : r \in Record /\ Believed(IP(w), r)
  BY <1>1 DEF TableKnows
<1>4. ASSUME NEW v, Told(IP(w), v), NEW from, Goto(w, from, "done"), Answer(w, v)
      PROVE  WorkerKnows(w)'
  <2>1. pc'[w] = "done" /\ req'[w].verdict = v
    BY <1>1, <1>4 DEF Goto, Answer, WorkersTyped
  <2>2. Told(IP(w), v)'
    BY <1>1, <1>2, <1>4 DEF Told
  <2> QED  BY <1>2, <2>1, <2>2 DEF WorkerKnows, HoldingPlaces, TrapPlaces, Told
<1>5. ASSUME NEW from, NEW to, Goto(w, from, to), to \notin HoldingPlaces, to # "done"
      PROVE  WorkerKnows(w)'
  BY <1>1, <1>5 DEF Goto, WorkersTyped, WorkerKnows, HoldingPlaces, TrapPlaces
<1>6. ASSUME NEW from, NEW to \in HoldingPlaces \ TrapPlaces, Goto(w, from, to),
             req'[w].record \in written[IP(w)]
      PROVE  WorkerKnows(w)'
  <2>1. pc'[w] = to /\ to # "done"
    BY <1>1, <1>6 DEF Goto, WorkersTyped, HoldingPlaces
  <2>2. Believed(IP(w), req[w].record)'
    BY <1>1, <1>2, <1>3, <1>6 DEF Believed
  <2> QED  BY <1>1, <1>2, <1>6, <2>1, <2>2 DEF WorkerKnows
<1>7. CASE LookInCache(w)
  <2>1. CASE IP(w) \in L1!Cached /\ Answer(w, VerdictOn(cache[IP(w)]))
             /\ Goto(w, "l1Get", "done")
    <3>1. Told(IP(w), VerdictOn(cache[IP(w)]))
      BY <1>1, <1>3, <2>1, Judged DEF CacheKnows
    <3> QED  BY <1>4, <2>1, <3>1
  <2> QED  BY <1>5, <1>7, <2>1 DEF LookInCache, HoldingPlaces
<1>8. CASE LookInDatabase(w)
  <2>1. CASE LiveRow(IP(w)) /\ Goto(w, "dbGet", "fill") /\ Hold(w, db[IP(w)])
    <3>1. req'[w].record = db[IP(w)] /\ db[IP(w)] \in written[IP(w)]
      BY <1>1, <2>1 DEF Hold, WorkersTyped, LiveRow, TableKnows
    <3> QED  BY <1>6, <2>1, <3>1 DEF HoldingPlaces, TrapPlaces
  <2>2. CASE Goto(w, "dbGet", "admit")
    BY <1>5, <2>2 DEF HoldingPlaces
  <2>3. CASE Goto(w, "dbGet", "done") /\ Answer(w, OnSourceError)
    BY <1>4, <2>3, ClaimsNothing
  <2> QED  BY <1>8, <2>1, <2>2, <2>3 DEF LookInDatabase
<1>9. CASE AskAbuseIPDB(w)
  <2>1. CASE Goto(w, "ask", "save") /\ \E score \in Scores : Hold(w, CheckedRecord(score))
    <3>1. PICK score \in Scores : Hold(w, CheckedRecord(score))
      BY <2>1
    <3>2. /\ pc[w] = "ask" /\ pc'[w] = "save" /\ req'[w].record = CheckedRecord(score)
      BY <1>1, <2>1, <3>1 DEF Goto, Hold, WorkersTyped
    <3>3. score \in heard'[IP(w)]
      BY <3>2 DEF Remembered, CheckedRecord
    <3>4. Believed(IP(w), req[w].record)'
      BY <1>2, <3>2, <3>3 DEF Believed, CheckedRecord
    <3> QED  BY <1>2, <3>2, <3>4 DEF WorkerKnows, HoldingPlaces, TrapPlaces
  <2>2. CASE Goto(w, "ask", "fail")
    BY <1>5, <2>2 DEF HoldingPlaces
  <2> QED  BY <1>9, <2>1, <2>2 DEF AskAbuseIPDB
<1>10. CASE SaveChecked(w)
  <2>1. CASE db' = [db EXCEPT ![IP(w)] = req[w].record] /\ Goto(w, "save", "reread")
             /\ UNCHANGED req
    <3>1. /\ pc[w] = "save" /\ pc'[w] = "reread"
          /\ req[w].record \in Record /\ db'[IP(w)] = req[w].record
      BY <1>1, <2>1 DEF Goto, WorkersTyped, HoldingPlaces, TableTyped
    <3>2. req[w].record \in written'[IP(w)]
      BY <1>1, <3>1 DEF Remembered, Record, NoRecord
    <3>3. Believed(IP(w), req[w].record)'
      BY <1>1, <1>2, <2>1, <3>1 DEF WorkerKnows, HoldingPlaces, Believed
    <3> QED  BY <1>2, <2>1, <3>1, <3>2, <3>3 DEF WorkerKnows, HoldingPlaces, TrapPlaces, Believed
  <2>2. CASE Goto(w, "save", "fail")
    BY <1>5, <2>2 DEF HoldingPlaces
  <2> QED  BY <1>10, <2>1, <2>2 DEF SaveChecked
<1>11. CASE RereadChecked(w)
  <2>1. CASE db[IP(w)] # NoRecord /\ Goto(w, "reread", "succeed") /\ Hold(w, db[IP(w)])
    <3>1. req'[w].record = db[IP(w)] /\ db[IP(w)] \in written[IP(w)]
      BY <1>1, <2>1 DEF Hold, WorkersTyped, TableKnows
    <3> QED  BY <1>6, <2>1, <3>1 DEF HoldingPlaces, TrapPlaces
  <2>2. CASE Goto(w, "reread", "fail")
    BY <1>5, <2>2 DEF HoldingPlaces
  <2> QED  BY <1>11, <2>1, <2>2 DEF RereadChecked
<1>12. CASE RecordSuccess(w)
  <2>1. req'[w].record \in written[IP(w)]
    BY <1>1, <1>12 DEF RecordSuccess, Goto, WorkerKnows, HoldingPlaces
  <2> QED  BY <1>6, <1>12, <2>1 DEF RecordSuccess, HoldingPlaces, TrapPlaces
<1>13. CASE FillCache(w)
  <2>1. Believed(IP(w), req[w].record) /\ req[w].record \in Record
    BY <1>1, <1>3, <1>13 DEF FillCache, Goto, WorkerKnows, HoldingPlaces
  <2> QED  BY <1>4, <1>13, <2>1, Judged DEF FillCache
<1>14. CASE CleanGet(w) \/ CleanRemove(w) \/ CleanDelete(w)
  BY <1>5, <1>14 DEF CleanGet, CleanRemove, CleanDelete, HoldingPlaces
<1>15. CASE PassBreaker(w) \/ RecordFailure(w)
  BY <1>4, <1>5, <1>15, ClaimsNothing DEF PassBreaker, RecordFailure, HoldingPlaces
<1> QED
  BY <1>7, <1>8, <1>9, <1>10, <1>11, <1>12, <1>13, <1>14, <1>15 DEF CheckStep

LEMMA TrapperKnows ==
  ASSUME Remembered, TypeInv, TypeInv', AllKnow, NEW w \in Workers, TrapStep(w)
  PROVE  WorkerKnows(w)'
<1>1. /\ WorkersTyped /\ WorkersTyped' /\ IP(w) \in IPs /\ WorkerKnows(w)
      /\ TableTyped /\ TableKnows
      /\ heard[IP(w)] \subseteq heard'[IP(w)] /\ written[IP(w)] \subseteq written'[IP(w)]
  BY TypeInvParts DEF WorkersTyped, IP, AllKnow, WorkersKnow, Remembered
<1>2. IP(w)' = IP(w)
  <2>1. UNCHANGED req \/ (\E v : Answer(w, v)) \/ Hold(w, TrapRecord)
    BY Zenon DEF TrapStep, TrapRead, TrapSave, TrapReread, TrapFill
  <2>2. \A v : Answer(w, v) => req'[w].ip = req[w].ip
    BY <1>1 DEF Answer, WorkersTyped
  <2>3. \A r : Hold(w, r) => req'[w].ip = req[w].ip
    BY <1>1 DEF Hold, WorkersTyped
  <2> QED  BY <2>1, <2>2, <2>3 DEF IP
<1>3. ASSUME Told(IP(w), "block"), NEW ok,
             NEW from, Goto(w, from, "done"), Answer(w, TrapVerdict(w, ok))
      PROVE  WorkerKnows(w)'
  <2>1. pc'[w] = "done" /\ req'[w].verdict = TrapVerdict(w, ok)
    BY <1>1, <1>3 DEF Goto, Answer, WorkersTyped
  <2>2. TrapVerdict(w, ok) # "allow"
    BY DEF TrapVerdict
  <2>3. Told(IP(w), req[w].verdict)'
    BY <1>1, <1>2, <1>3, <2>1, <2>2 DEF Told
  <2> QED  BY <1>2, <2>1, <2>3 DEF WorkerKnows, HoldingPlaces, TrapPlaces
<1>4. pc[w] \in TrapPlaces =>
        /\ Believed(IP(w), req[w].record) /\ req[w].record \in Record
        /\ req[w].record.status = "threat"
        /\ Told(IP(w), "block")
  BY <1>1 DEF WorkerKnows, WorkersTyped, HoldingPlaces, TrapPlaces, Believed, Told,
              StatusOf
<1>5. CASE TrapRead(w)
  <2>1. CASE /\ db[IP(w)].status = "threat" /\ db[IP(w)].reported
             /\ Goto(w, "trapRead", "done") /\ Answer(w, TrapVerdict(w, TRUE))
    <3>1. db[IP(w)] # NoRecord
      BY <2>1 DEF NoRecord
    <3>2. Believed(IP(w), db[IP(w)])
      BY <1>1, <3>1 DEF TableKnows
    <3> QED  BY <1>3, <2>1, <3>2 DEF Believed, Told, StatusOf
  <2>2. CASE Goto(w, "trapRead", "trapSave") /\ Hold(w, TrapRecord)
    <3>1. pc[w] = "trapRead" /\ pc'[w] = "trapSave" /\ req'[w].record = TrapRecord
      BY <1>1, <2>2 DEF Goto, Hold, WorkersTyped
    <3>2. 100 \in heard'[IP(w)]
      BY <3>1 DEF Remembered, TrapRecord
    <3>3. Believed(IP(w), req[w].record)'
      BY <1>2, <3>1, <3>2, GateAssumption DEF Believed, Attainable, TrapRecord, StatusOf
    <3> QED  BY <3>1, <3>3 DEF WorkerKnows, HoldingPlaces, TrapPlaces, TrapRecord
  <2> QED  BY <1>5, <2>1, <2>2 DEF TrapRead
<1>6. CASE TrapSave(w)
  <2>1. CASE db' = [db EXCEPT ![IP(w)] = req[w].record] /\ UNCHANGED req
             /\ Goto(w, "trapSave", "trapReread")
    <3>1. pc[w] = "trapSave" /\ pc'[w] = "trapReread" /\ db'[IP(w)] = req[w].record
      BY <1>1, <2>1 DEF Goto, WorkersTyped, TableTyped
    <3>2. req[w].record \in written'[IP(w)]
      BY <1>1, <1>4, <3>1 DEF Remembered, Record, NoRecord, TrapPlaces
    <3>3. Believed(IP(w), req[w].record)'
      BY <1>1, <1>2, <1>4, <2>1, <3>1 DEF Believed, TrapPlaces
    <3> QED  BY <1>2, <1>4, <2>1, <3>1, <3>2, <3>3 DEF WorkerKnows, TrapPlaces
  <2>2. CASE Goto(w, "trapSave", "done") /\ Answer(w, TrapVerdict(w, FALSE))
    <3>1. pc[w] \in TrapPlaces
      BY <2>2 DEF Goto, TrapPlaces
    <3> QED  BY <1>3, <1>4, <2>2, <3>1
  <2> QED  BY <1>6, <2>1, <2>2 DEF TrapSave
<1>7. CASE TrapReread(w)
  <2>1. pc[w] = "trapReread"
    BY <1>7 DEF TrapReread, Goto
  <2>2. CASE Goto(w, "trapReread", "trapFill") /\ UNCHANGED req
    <3>1. pc'[w] = "trapFill" /\ req[w].record \in written[IP(w)]
      BY <1>1, <2>1, <2>2 DEF Goto, WorkersTyped, WorkerKnows, HoldingPlaces
    <3>2. Believed(IP(w), req[w].record)'
      BY <1>1, <1>2, <1>4, <2>1, <2>2 DEF Believed, TrapPlaces
    <3> QED  BY <1>1, <1>2, <1>4, <2>1, <2>2, <3>1, <3>2 DEF WorkerKnows, TrapPlaces
  <2>3. CASE Goto(w, "trapReread", "done") /\ Answer(w, TrapVerdict(w, FALSE))
    BY <1>3, <1>4, <2>1, <2>3 DEF TrapPlaces
  <2> QED  BY <1>7, <2>2, <2>3 DEF TrapReread
<1>8. CASE TrapFill(w)
  BY <1>3, <1>4, <1>8 DEF TrapFill, Goto, TrapPlaces
<1> QED  BY <1>5, <1>6, <1>7, <1>8 DEF TrapStep

LEMMA WorkerStepKnows ==
  ASSUME Remembered, TypeInv, TypeInv', AllKnow, NEW w \in Workers, WorkerStep(w)
  PROVE  AllKnow'
<1>1. /\ WorkersTyped /\ TableTyped /\ IP(w) \in IPs
      /\ WorkersKnow /\ TableKnows /\ FlightsKnow /\ CacheKnows
  BY TypeInvParts DEF WorkersTyped, IP, AllKnow
<1>2. \A v \in Workers : v # w => pc'[v] = pc[v] /\ req'[v] = req[v]
  <2>1. /\ \E to : pc' = [pc EXCEPT ![w] = to]
        /\ UNCHANGED req \/ (\E v : Answer(w, v)) \/ (\E r : Hold(w, r))
    BY Zenon DEF WorkerStep, CheckStep, TrapStep, LookInCache, CleanGet, CleanRemove,
       CleanDelete, LookInDatabase, PassBreaker, AskAbuseIPDB, SaveChecked,
       RereadChecked, RecordFailure, RecordSuccess, FillCache,
       TrapRead, TrapSave, TrapReread, TrapFill, Goto
  <2> QED  BY <1>1, <2>1 DEF WorkersTyped, Answer, Hold
<1>3. WorkersKnow'
  BY <1>1, <1>2, CheckerKnows, TrapperKnows, WorkerStillKnows
     DEF WorkerStep, WorkersKnow
<1>4. TableKnows'
  <2>1. CASE db' = [db EXCEPT ![IP(w)] = req[w].record]
             /\ pc[w] \in {"save", "trapSave"}
    <3>1. Believed(IP(w), req[w].record)
      BY <1>1, <2>1 DEF WorkersKnow, WorkerKnows, HoldingPlaces
    <3> QED  BY <1>1, <2>1, <3>1, TableStillKnows DEF TableTyped, TableKnows
  <2>2. CASE UNCHANGED db \/ db' = [db EXCEPT ![IP(w)] = NoRecord]
    BY <1>1, <2>2, TableStillKnows DEF TableTyped, TableKnows
  <2> QED
    BY <2>1, <2>2
    DEF WorkerStep, CheckStep, TrapStep, LookInCache, CleanGet, CleanRemove,
        CleanDelete, LookInDatabase, PassBreaker, AskAbuseIPDB, SaveChecked,
        RereadChecked, RecordFailure, RecordSuccess, FillCache,
        TrapRead, TrapSave, TrapReread, TrapFill, Goto
<1>5. FlightsKnow'
  <2>1. UNCHANGED flight
    BY Zenon DEF WorkerStep, CheckStep, TrapStep, LookInCache, CleanGet, CleanRemove,
       CleanDelete, LookInDatabase, PassBreaker, AskAbuseIPDB, SaveChecked,
       RereadChecked, RecordFailure, RecordSuccess, FillCache,
       TrapRead, TrapSave, TrapReread, TrapFill, reporterVars
  <2> QED  BY <1>1, <2>1, FlightsStillKnow
<1>6. CacheKnows'
  <2>1. CASE L1!Get(IP(w)) \/ L1!Remove(IP(w)) \/ UNCHANGED l1Vars
    BY <1>1, <2>1, CacheStillKnows
  <2>2. CASE L1!Set(IP(w), req[w].record) /\ pc[w] \in {"fill", "trapFill"}
    <3>1. req[w].record \in written[IP(w)]
      BY <1>1, <2>2 DEF WorkersKnow, WorkerKnows, HoldingPlaces
    <3> QED  BY <1>1, <2>2, <3>1, CacheFilled
  <2> QED
    BY <2>1, <2>2, Zenon
    DEF WorkerStep, CheckStep, TrapStep, LookInCache, CleanGet, CleanRemove,
        CleanDelete, LookInDatabase, PassBreaker, AskAbuseIPDB, SaveChecked,
        RereadChecked, RecordFailure, RecordSuccess, FillCache,
        TrapRead, TrapSave, TrapReread, TrapFill, SetCaches, Goto
<1> QED  BY <1>3, <1>4, <1>5, <1>6 DEF AllKnow

(* A report marks the record it read, whose score stays.                   *)
LEMMA FlightStepKnows ==
  ASSUME Remembered, TypeInv, TypeInv', AllKnow, NEW ip \in IPs, FlightStep(ip)
  PROVE  AllKnow'
<1>1. /\ WorkersTyped /\ FlightsTyped /\ TableTyped
      /\ WorkersKnow /\ TableKnows /\ FlightsKnow /\ CacheKnows
  BY TypeInvParts DEF AllKnow
<1>2. WorkersKnow'
  <2>1. UNCHANGED <<pc, req>>
    BY DEF FlightStep, StartFlight, JoinFlight, FlightRead, FlightCall,
       FlightSave, FlightReread, FlightFill, workerVars
  <2> QED  BY <1>1, <2>1, WorkerStillKnows DEF WorkersKnow
<1>3. CASE FlightSave(ip) /\ db' = [db EXCEPT ![ip] = Marked(ip)]
           /\ flight' = [flight EXCEPT ![ip] = [at |-> "reread", record |-> Marked(ip)]]
  <2>1. flight[ip].record \in written[ip] /\ flight[ip].record \in Record
    BY <1>1, <1>3 DEF FlightSave, FlightsKnow, FlightsTyped, FlyingPlaces
  <2>2. /\ Marked(ip).status = flight[ip].record.status
        /\ Marked(ip).score = flight[ip].record.score /\ Marked(ip) # NoRecord
    BY <2>1 DEF Marked, Record, NoRecord
  <2>3. Believed(ip, Marked(ip))
    BY <1>1, <2>1, <2>2 DEF Believed, TableKnows
  <2>4. TableKnows'
    BY <1>1, <1>3, <2>3, TableStillKnows DEF TableTyped, TableKnows
  <2>5. db'[ip] = Marked(ip) /\ Marked(ip) \in written'[ip]
    BY <1>1, <1>3, <2>2 DEF TableTyped, Remembered
  <2>6. FlightsKnow'
    BY <1>1, <1>3, <2>5 DEF FlightsKnow, FlightsTyped, Remembered
  <2>7. CacheKnows'
    BY <1>1, <1>3, CacheStillKnows DEF FlightSave
  <2> QED  BY <1>2, <2>4, <2>6, <2>7 DEF AllKnow
<1>4. CASE UNCHANGED db /\ (FlightSave(ip) => EndFlight(ip))
  <2>2. TableKnows'
    BY <1>1, <1>4, TableStillKnows DEF TableKnows
  <2>3. ASSUME db[ip] # NoRecord,
               flight' = [flight EXCEPT ![ip] = [at |-> "call", record |-> db[ip]]]
        PROVE  FlightsKnow'
    BY <1>1, <2>3 DEF FlightsKnow, FlightsTyped, TableKnows, Remembered
  <2>4. ASSUME EndFlight(ip)
        PROVE  FlightsKnow'
    BY <1>1, <2>4 DEF EndFlight, NoFlight, FlightsKnow, FlightsTyped, FlyingPlaces,
                      Remembered
  <2>5. ASSUME \/ UNCHANGED flight \/ FlightTo(ip, "none", "read")
               \/ FlightTo(ip, "call", "save") \/ FlightTo(ip, "reread", "fill")
        PROVE  FlightsKnow'
    BY <1>1, <2>5 DEF FlightTo, FlightsKnow, FlightsTyped, FlyingPlaces, Remembered
  <2>6. FlightsKnow'
    BY <1>4, <2>3, <2>4, <2>5
       DEF FlightStep, StartFlight, JoinFlight, FlightRead, FlightCall,
           FlightSave, FlightReread, FlightFill, FlightTo
  <2>7. CacheKnows'
    <3>1. CASE FlightFill(ip)
      <4>1. flight[ip].record \in written[ip]
        BY <1>1, <3>1 DEF FlightFill, FlightsKnow, FlyingPlaces
      <4> QED  BY <1>1, <3>1, <4>1, CacheFilled, CacheStillKnows DEF FlightFill, SetCaches
    <3>2. CASE UNCHANGED l1Vars
      BY <1>1, <3>2, CacheStillKnows
    <3> QED  BY <3>1, <3>2, Zenon DEF FlightStep, StartFlight, JoinFlight, FlightRead,
               FlightCall, FlightSave, FlightReread
  <2> QED  BY <1>2, <2>2, <2>6, <2>7 DEF AllKnow
<1>5. \/ FlightSave(ip) /\ db' = [db EXCEPT ![ip] = Marked(ip)]
          /\ flight' = [flight EXCEPT ![ip] = [at |-> "reread", record |-> Marked(ip)]]
      \/ UNCHANGED db /\ (FlightSave(ip) => EndFlight(ip))
  BY DEF FlightStep, StartFlight, JoinFlight, FlightRead, FlightCall, FlightSave,
         FlightReread, FlightFill
<1> QED  BY <1>3, <1>4, <1>5

LEMMA OtherKnows ==
  ASSUME Remembered, TypeInv, TypeInv', AllKnow,
         \/ \E w \in Workers, ip \in IPs, kind \in Kinds : Request(w, ip, kind)
         \/ DeleteExpired \/ SweepCache \/ Tick \/ Crash
  PROVE  AllKnow'
<1>1. /\ WorkersTyped /\ FlightsTyped /\ TableTyped
      /\ WorkersKnow /\ TableKnows /\ FlightsKnow /\ CacheKnows
  BY TypeInvParts DEF AllKnow
<1>2. CASE \E w \in Workers, ip \in IPs, kind \in Kinds : Request(w, ip, kind)
  <2> PICK w \in Workers, ip \in IPs, kind \in Kinds : Request(w, ip, kind)
    BY <1>2
  <2>1. UNCHANGED <<l1Vars, db, flight>>
    BY Zenon DEF Request, reporterVars
  <2>2. /\ pc'[w] \in {"trapRead", "l1Get", "done"}
        /\ req'[w].verdict \in {"none", "assumed"}
        /\ \A v \in Workers : v # w => pc'[v] = pc[v] /\ req'[v] = req[v]
    BY <1>1 DEF Request, WorkersTyped
  <2>3. WorkerKnows(w)'
    BY <2>2, ClaimsNothing DEF WorkerKnows, HoldingPlaces, TrapPlaces, Told
  <2>4. WorkersKnow'
    BY <1>1, <2>2, <2>3, WorkerStillKnows DEF WorkersKnow
  <2> QED  BY <1>1, <2>1, <2>4, TableStillKnows, FlightsStillKnow, CacheStillKnows
             DEF AllKnow, TableKnows
<1>3. CASE DeleteExpired \/ SweepCache \/ Tick
  <2>1. UNCHANGED <<pc, req, flight>>
    BY <1>3 DEF DeleteExpired, SweepCache, Tick, reporterVars, workerVars
  <2>2. \A ip \in IPs : db'[ip] = db[ip] \/ db'[ip] = NoRecord
    BY <1>3 DEF DeleteExpired, SweepCache, Tick
  <2>3. L1!RemoveExpired(cleaner.time) \/ UNCHANGED l1Vars
    BY <1>3, Zenon DEF DeleteExpired, SweepCache, Tick
  <2>4. WorkersKnow'
    BY <1>1, <2>1, WorkerStillKnows DEF WorkersKnow
  <2>5. TableKnows'
    BY <1>1, <2>2, TableStillKnows DEF TableKnows
  <2>6. FlightsKnow' /\ CacheKnows'
    BY <1>1, <2>1, <2>3, FlightsStillKnow, CacheStillKnows
  <2> QED  BY <2>4, <2>5, <2>6 DEF AllKnow
<1>4. CASE Crash
  <2>1. /\ cache' = <<>> /\ pc' = [w \in Workers |-> "idle"]
        /\ flight' = [ip \in IPs |-> NoFlight] /\ UNCHANGED db
    BY <1>4 DEF Crash
  <2>2. WorkersKnow' /\ FlightsKnow' /\ CacheKnows'
    BY <2>1 DEF WorkersKnow, WorkerKnows, HoldingPlaces, TrapPlaces, FlightsKnow,
                FlyingPlaces, NoFlight, CacheKnows, L1!Cached
  <2>3. TableKnows'
    BY <1>1, <2>1, TableStillKnows DEF TableKnows
  <2> QED  BY <2>2, <2>3 DEF AllKnow
<1> QED  BY <1>2, <1>3, <1>4

LEMMA StutterKnows ==
  ASSUME TypeInv, AllKnow, UNCHANGED evidenceVars
  PROVE  AllKnow'
  BY DEF evidenceVars, gateVars, l1Vars, reporterVars, workerVars, AllKnow,
     WorkersKnow, WorkerKnows, TableKnows, FlightsKnow, CacheKnows, L1!Cached,
     Believed, Told, IP

LEMMA InitKnows == EvidenceInit => AllKnow
<1> SUFFICES ASSUME EvidenceInit PROVE AllKnow
  OBVIOUS
<1>1. /\ cache = <<>> /\ db = [ip \in IPs |-> NoRecord]
      /\ pc = [w \in Workers |-> "idle"] /\ flight = [ip \in IPs |-> NoFlight]
      /\ written = [ip \in IPs |-> {}]
  BY DEF EvidenceInit, Init, L1!NewIPCache
<1> QED  BY <1>1 DEF AllKnow, WorkersKnow, WorkerKnows, HoldingPlaces, TrapPlaces,
           TableKnows, FlightsKnow, FlyingPlaces, NoFlight, CacheKnows, L1!Cached

LEMMA Knowing == EvidenceSpec => []AllKnow
<1>1. TypeInv /\ TypeInv' /\ AllKnow /\ [EvidenceNext]_evidenceVars => AllKnow'
  <2> SUFFICES ASSUME TypeInv, TypeInv', AllKnow, [EvidenceNext]_evidenceVars
               PROVE  AllKnow'
    OBVIOUS
  <2>1. CASE EvidenceNext
    <3>1. Next /\ Remembered
      BY <2>1, Remembers DEF EvidenceNext
    <3>2. CASE UNCHANGED gateVars
      <4>1. UNCHANGED <<l1Vars, db, flight, pc, req>>
        BY <3>2 DEF gateVars, reporterVars, workerVars
      <4> QED  BY <3>1, <4>1, TypeInvParts, WorkerStillKnows, TableStillKnows,
                  FlightsStillKnow, CacheStillKnows
                 DEF AllKnow, WorkersKnow, TableKnows
    <3> QED  BY <3>1, WorkerStepKnows, FlightStepKnows, OtherKnows DEF Next
  <2> QED  BY <2>1, StutterKnows
<1>2. EvidenceSpec => []TypeInv
  BY RestrictsNone, Sound, PTL
<1> QED  BY <1>1, <1>2, InitKnows, PTL DEF EvidenceSpec

(* A record reaches L1 only after the table has held it, whoever stores it *)
(* and whatever fails on the way: CachedWasWritten.                        *)
THEOREM CacheFollowsTable == EvidenceSpec => []CachedWasWritten
<1>1. AllKnow => CachedWasWritten
  BY DEF AllKnow, CacheKnows, CachedWasWritten
<1> QED  BY <1>1, Knowing, PTL

(* No client is turned away, and none let through as safe, without a score *)
(* from AbuseIPDB or a trap to that effect: VerdictHasEvidence.  The       *)
(* threshold is between 1 and 100.  config.go lets it be anything: with a  *)
(* larger one a trap's own record, which scores 100, is no threat and the  *)
(* trap blocks all the same, and with 0, which a missing setting means, an *)
(* open breaker blocks on no evidence at all.                              *)
THEOREM VerdictsHaveEvidence ==
  ASSUME 0 < Threshold, Threshold <= 100
  PROVE  EvidenceSpec => []VerdictHasEvidence
<1>1. AllKnow => VerdictHasEvidence
  BY DEF AllKnow, WorkersKnow, WorkerKnows, Told, Attainable, VerdictHasEvidence
<1> QED  BY <1>1, Knowing, PTL

-----------------------------------------------------------------------------
(* While a promised block is in force, every record of the IP, wherever it *)
(* is, blocks it at least as long, and no check of it is where it could    *)
(* learn better or delete the row: those have come since the trap ended.   *)
InForce(ip) == now < undisturbed[ip]

Lasts(ip, r) ==
  r \in Record /\ r.score >= Threshold /\ r.expiresAt >= undisturbed[ip]

TableKeeps(ip) == InForce(ip) => Lasts(ip, db[ip])
CacheKeeps(ip) == InForce(ip) /\ ip \in L1!Cached => Lasts(ip, cache[ip])
FlightKeeps(ip) ==
  InForce(ip) /\ flight[ip].at \in FlyingPlaces => Lasts(ip, flight[ip].record)


CheckKeeps(w) ==
  InForce(IP(w)) =>
    /\ pc[w] \in {"idle", "done", "l1Get", "dbGet", "fill", "trapRead"} \cup TrapPlaces
    /\ pc[w] = "fill" => Lasts(IP(w), req[w].record)

(* A trap under way was read later than any that has ended, so that its    *)
(* record lasts longer; one that is alone finds its row as it left it, or  *)
(* expired and deleted.                                                    *)
TrapKeeps(w) ==
  pc[w] \in TrapPlaces =>
    /\ req[w].record.score = 100
    /\ req[w].record.expiresAt \in undisturbed[IP(w)]..(now + TrapTTL)

AloneKeeps(w) ==
  w \in alone =>
    /\ Busy(w) /\ Quiet(w, IP(w))
    /\ pc[w] \in {"trapReread", "trapFill"} =>
         \/ db[IP(w)] = req[w].record
         \/ db[IP(w)] = NoRecord /\ req[w].record.expiresAt <= now

OwedKept(w) == owed[w].undisturbed <= undisturbed[IP(w)]

WorkerKeeps(w) == CheckKeeps(w) /\ TrapKeeps(w) /\ AloneKeeps(w) /\ OwedKept(w)
IPKeeps(ip) == TableKeeps(ip) /\ CacheKeeps(ip) /\ FlightKeeps(ip)

PromisesTyped ==
  /\ undisturbed \in [IPs -> Nat] /\ \A ip \in IPs : undisturbed[ip] <= now + TrapTTL
  /\ \A w \in Workers : owed[w].undisturbed \in Int
  /\ alone \subseteq Workers

PromiseInv ==
  /\ PromisesTyped
  /\ \A ip \in IPs : IPKeeps(ip)
  /\ \A w \in Workers : WorkerKeeps(w)

-----------------------------------------------------------------------------
(* What the history variables do in a step in which no request arrives.    *)
LEMMA NoArrival ==
  ASSUME PromiseNext, UNCHANGED arrivals
  PROVE  /\ alone' = {w \in Workers : w \in alone /\ pc'[w] \notin {"idle", "done"}}
         /\ \A w \in Workers :
              owed'[w] = IF pc'[w] = "idle" THEN NoPromise ELSE owed[w]
  BY DEF PromiseNext, Arrives

LEMMA NothingPromised ==
  ASSUME PromiseNext, NEW ip \in IPs,
         \A w \in alone : ~(FinishesTrap(w) /\ IP(w) = ip)
  PROVE  undisturbed'[ip] = undisturbed[ip]
<1>1. {w \in alone : FinishesTrap(w) /\ IP(w) = ip} = {}
  OBVIOUS
<1> QED  BY <1>1 DEF PromiseNext, Promise

LEMMA BlockPromised ==
  ASSUME PromiseNext, NEW w \in alone, FinishesTrap(w), IP(w) \in IPs,
         \A v \in alone : FinishesTrap(v) => v = w
  PROVE  undisturbed'[IP(w)] = Later(undisturbed[IP(w)], req[w].record.expiresAt)
<1>1. {v \in alone : FinishesTrap(v) /\ IP(v) = IP(w)} = {w}
  OBVIOUS
<1>2. (CHOOSE v \in {w} : TRUE) = w
  OBVIOUS
<1> QED  BY <1>1, <1>2 DEF PromiseNext, Promise

(* What a step of a worker leaves alone.                                   *)
LEMMA WorkerFrame ==
  ASSUME WorkersTyped, FlightsTyped, TableTyped, NEW w \in Workers, WorkerStep(w)
  PROVE  /\ IP(w) \in IPs /\ req'[w].ip = req[w].ip /\ Busy(w) /\ pc'[w] \in Places
         /\ \A v \in Workers : v # w => pc'[v] = pc[v] /\ req'[v] = req[v]
         /\ UNCHANGED <<now, arrivals, flight>>
         /\ \A ip \in IPs : ip # IP(w) => pending'[ip] = pending[ip] /\ db'[ip] = db[ip]
         /\ pc'[w] # "done" => pending'[IP(w)] = pending[IP(w)]
<1>1. IP(w) \in IPs
  BY DEF WorkersTyped, IP
<1>2. PICK to \in Places : pc' = [pc EXCEPT ![w] = to]
  BY DEF Places, WorkerStep, CheckStep, TrapStep, LookInCache, CleanGet, CleanRemove,
     CleanDelete, LookInDatabase, PassBreaker, AskAbuseIPDB, SaveChecked,
     RereadChecked, RecordFailure, RecordSuccess, FillCache,
     TrapRead, TrapSave, TrapReread, TrapFill, Goto
<1>3. UNCHANGED req \/ (\E v : Answer(w, v)) \/ (\E r : Hold(w, r))
  BY Zenon DEF WorkerStep, CheckStep, TrapStep, LookInCache, CleanGet, CleanRemove,
     CleanDelete, LookInDatabase, PassBreaker, AskAbuseIPDB, SaveChecked,
     RereadChecked, RecordFailure, RecordSuccess, FillCache,
     TrapRead, TrapSave, TrapReread, TrapFill
<1>4. pc[w] \notin {"idle", "done"}
  BY DEF WorkerStep, CheckStep, TrapStep, LookInCache, CleanGet, CleanRemove,
     CleanDelete, LookInDatabase, PassBreaker, AskAbuseIPDB, SaveChecked,
     RereadChecked, RecordFailure, RecordSuccess, FillCache,
     TrapRead, TrapSave, TrapReread, TrapFill, Goto
<1>5. UNCHANGED <<now, arrivals, flight>>
  BY Zenon DEF WorkerStep, CheckStep, TrapStep, LookInCache, CleanGet, CleanRemove,
     CleanDelete, LookInDatabase, PassBreaker, AskAbuseIPDB, SaveChecked,
     RereadChecked, RecordFailure, RecordSuccess, FillCache,
     TrapRead, TrapSave, TrapReread, TrapFill, reporterVars, boundVars
<1>6. UNCHANGED db \/ \E r : db' = [db EXCEPT ![IP(w)] = r]
  BY Zenon DEF WorkerStep, CheckStep, TrapStep, LookInCache, CleanGet, CleanRemove,
     CleanDelete, LookInDatabase, PassBreaker, AskAbuseIPDB, SaveChecked,
     RereadChecked, RecordFailure, RecordSuccess, FillCache,
     TrapRead, TrapSave, TrapReread, TrapFill
<1>7. \/ UNCHANGED pending
      \/ pending' = [pending EXCEPT ![IP(w)] = @ + 1] /\ pc' = [pc EXCEPT ![w] = "done"]
  BY Zenon DEF WorkerStep, CheckStep, TrapStep, LookInCache, CleanGet, CleanRemove,
     CleanDelete, LookInDatabase, PassBreaker, AskAbuseIPDB, SaveChecked,
     RereadChecked, RecordFailure, RecordSuccess, FillCache,
     TrapRead, TrapSave, TrapReread, TrapFill, Goto, reporterVars
<1>8. /\ req'[w].ip = req[w].ip
      /\ \A v \in Workers : v # w => pc'[v] = pc[v] /\ req'[v] = req[v]
  BY <1>2, <1>3 DEF WorkersTyped, Answer, Hold
<1>9. \A ip \in IPs : ip # IP(w) => pending'[ip] = pending[ip] /\ db'[ip] = db[ip]
  BY <1>6, <1>7 DEF FlightsTyped, TableTyped
<1>10. pc'[w] \in Places /\ (pc'[w] # "done" => pending'[IP(w)] = pending[IP(w)])
  BY <1>2, <1>7 DEF WorkersTyped
<1> QED  BY <1>1, <1>4, <1>5, <1>8, <1>9, <1>10 DEF Busy

(* A worker that a step passes by keeps what it has.                       *)
LEMMA BystanderKeeps ==
  ASSUME TypeInv, PromisesTyped, NEW w \in Workers, WorkerKeeps(w),
         pc'[w] = pc[w], req'[w] = req[w], now' \in {now, now + 1},
         undisturbed'[IP(w)] = undisturbed[IP(w)],
         owed'[w].undisturbed <= undisturbed[IP(w)],
         w \in alone' =>
           /\ w \in alone /\ Quiet(w, IP(w))'
           /\ \/ db'[IP(w)] = db[IP(w)]
              \/ db'[IP(w)] = NoRecord /\ ~LiveRow(IP(w))
  PROVE  WorkerKeeps(w)'
<1>1. /\ IP(w) \in IPs /\ IP(w)' = IP(w) /\ now \in Nat /\ TrapTTL \in Nat
      /\ undisturbed[IP(w)] \in Nat
      /\ pc[w] \in TrapPlaces => req[w].record \in Record
  BY TypeInvParts, GateAssumption
     DEF WorkersTyped, RestTyped, IP, PromisesTyped, TrapPlaces, HoldingPlaces
<1>2. CheckKeeps(w)'
  BY <1>1 DEF WorkerKeeps, CheckKeeps, InForce, Lasts
<1>3. TrapKeeps(w)'
  BY <1>1 DEF WorkerKeeps, TrapKeeps
<1>4. AloneKeeps(w)'
  <2> SUFFICES ASSUME w \in alone' PROVE AloneKeeps(w)'
    BY DEF AloneKeeps
  <2>1. Busy(w)' /\ (Quiet(w, IP(w)))'
    BY <1>1 DEF WorkerKeeps, AloneKeeps, Busy
  <2>2. ASSUME pc[w] \in {"trapReread", "trapFill"}
        PROVE  \/ db'[IP(w)] = req[w].record
               \/ db'[IP(w)] = NoRecord /\ req[w].record.expiresAt <= now'
    <3>1. req[w].record \in Record /\ req[w].record.expiresAt \in Int
      BY <1>1, <2>2 DEF TrapPlaces, Record, Horizon
    <3>2. \/ db[IP(w)] = req[w].record
          \/ db[IP(w)] = NoRecord /\ req[w].record.expiresAt <= now
      BY <2>2 DEF WorkerKeeps, AloneKeeps
    <3>3. req[w].record # NoRecord
      BY <3>1 DEF Record, NoRecord
    <3> QED  BY <1>1, <3>1, <3>2, <3>3 DEF LiveRow
  <2> QED  BY <1>1, <2>1, <2>2 DEF AloneKeeps
<1>5. OwedKept(w)'
  BY <1>1 DEF OwedKept
<1> QED  BY <1>2, <1>3, <1>4, <1>5 DEF WorkerKeeps

(* What an IP keeps in a step that promises it nothing.                    *)
LEMMA IPStillKeeps ==
  ASSUME TypeInv, PromisesTyped, NEW ip \in IPs, IPKeeps(ip),
         undisturbed'[ip] = undisturbed[ip], now' \in {now, now + 1},
         InForce(ip) =>
           /\ db'[ip] = db[ip] \/ Lasts(ip, db'[ip])
           /\ flight'[ip] = flight[ip] \/ flight'[ip].at \notin FlyingPlaces
                \/ Lasts(ip, flight'[ip].record)
           /\ ip \in (L1!Cached)' => \/ ip \in L1!Cached /\ cache'[ip] = cache[ip]
                                     \/ Lasts(ip, cache'[ip])
  PROVE  IPKeeps(ip)'
<1>1. now \in Nat /\ undisturbed[ip] \in Nat
  BY TypeInvParts, GateAssumption DEF RestTyped, PromisesTyped
<1>2. InForce(ip)' => InForce(ip)
  BY <1>1 DEF InForce
<1> QED  BY <1>2 DEF IPKeeps, TableKeeps, CacheKeeps, FlightKeeps, Lasts

LEMMA PromiseFilled ==
  ASSUME NEW k, NEW r, L1!Set(k, r)
  PROVE  /\ k \in (L1!Cached)' /\ cache'[k] = r
         /\ \A ip \in (L1!Cached)' : ip # k => ip \in L1!Cached /\ cache'[ip] = cache[ip]
<1>1. \A ip \in (P!Cached)' : \/ ip = k /\ cache'[ip] = r
                              \/ ip \in P!Cached /\ cache'[ip] = cache[ip]
  BY SameSet, P!SetContents, SameCache
<1>2. k \in (L1!Cached)' /\ cache'[k] = r
  BY DEF L1!Set, L1!Overwrite, L1!Insert, L1!Cached
<1> QED  BY <1>1, <1>2 DEF L1!Cached, P!Cached

LEMMA CacheOnlyLoses ==
  ASSUME NEW k, NEW time,
         L1!Get(k) \/ L1!Remove(k) \/ L1!RemoveExpired(time) \/ UNCHANGED l1Vars
  PROVE  \A ip \in (L1!Cached)' : ip \in L1!Cached /\ cache'[ip] = cache[ip]
<1>1. P!Get(k) \/ P!Remove(k) \/ P!RemoveExpired(time) \/ UNCHANGED P!cacheVars
  BY SameGet, SameRemove, SameRemoveExpired DEF l1Vars, P!cacheVars
<1> QED  BY <1>1, P!OtherContents, SameCache DEF L1!Cached, P!Cached

(* A record that lasts blocks, and has not expired.                        *)
LEMMA Lasting ==
  ASSUME TypeInv, PromisesTyped, NEW ip \in IPs, InForce(ip), NEW r, Lasts(ip, r)
  PROVE  /\ VerdictOn(r) = "block" /\ ~Expired(r, now) /\ r.expiresAt > now
         /\ r # NoRecord
<1>1. /\ now \in Nat /\ undisturbed[ip] \in Nat /\ r.expiresAt \in Int
  BY TypeInvParts, GateAssumption DEF RestTyped, PromisesTyped, Lasts, Record, Horizon
<1>2. r # NoRecord
  BY DEF Lasts, Record, NoRecord
<1> QED  BY <1>1, <1>2 DEF InForce, Lasts, VerdictOn, Expired

-----------------------------------------------------------------------------
(* The histories in a step of a worker: it alone may end a trap.           *)
LEMMA WorkerHistory ==
  ASSUME TypeInv, PromiseNext, alone \subseteq Workers, NEW w \in Workers, WorkerStep(w)
  PROVE  /\ alone' = {v \in Workers : v \in alone /\ pc'[v] \notin {"idle", "done"}}
         /\ owed'[w] = owed[w]
         /\ \A v \in Workers : owed'[v] = IF pc'[v] = "idle" THEN NoPromise ELSE owed[v]
         /\ \A v \in Workers : FinishesTrap(v) => v = w
         /\ \A ip \in IPs : ~(w \in alone /\ FinishesTrap(w) /\ IP(w) = ip) =>
              undisturbed'[ip] = undisturbed[ip]
<1>1. /\ UNCHANGED arrivals /\ \A v \in Workers : v # w => pc'[v] = pc[v]
  BY TypeInvParts, WorkerFrame
<1>2. pc'[w] # "idle"
  <2>1. \E from, to : pc[w] = from /\ pc' = [pc EXCEPT ![w] = to] /\ to # "idle"
    BY DEF WorkerStep, CheckStep, TrapStep, LookInCache, CleanGet, CleanRemove,
       CleanDelete, LookInDatabase, PassBreaker, AskAbuseIPDB, SaveChecked,
       RereadChecked, RecordFailure, RecordSuccess, FillCache,
       TrapRead, TrapSave, TrapReread, TrapFill, Goto
  <2> QED  BY <2>1, TypeInvParts DEF WorkersTyped
<1>3. \A v \in Workers : FinishesTrap(v) => v = w
  BY <1>1 DEF FinishesTrap
<1>4. \A ip \in IPs : ~(w \in alone /\ FinishesTrap(w) /\ IP(w) = ip) =>
              undisturbed'[ip] = undisturbed[ip]
  BY <1>3, NothingPromised
<1> QED  BY <1>1, <1>2, <1>3, <1>4, NoArrival

(* Nobody comes near a worker that is alone, and goes on, in its own step. *)
LEMMA StaysAlone ==
  ASSUME TypeInv, TypeInv', PromiseInv, PromiseNext, NEW w \in Workers, WorkerStep(w),
         w \in alone'
  PROVE  w \in alone /\ Busy(w)' /\ Quiet(w, IP(w))'
<1>1. /\ WorkersTyped /\ FlightsTyped /\ TableTyped /\ alone \subseteq Workers
      /\ w \in alone => AloneKeeps(w)
  BY TypeInvParts DEF PromiseInv, PromisesTyped, WorkerKeeps
<1>2. w \in alone /\ pc'[w] \notin {"idle", "done"}
  BY <1>1, WorkerHistory
<1>3. IP(w)' = IP(w) /\ \A v \in Workers : v # w => Busy(v)' = Busy(v) /\ IP(v)' = IP(v)
  BY <1>1, WorkerFrame DEF IP, Busy
<1>4. pending'[IP(w)] = 0 /\ flight'[IP(w)].at = "none"
  BY <1>1, <1>2, WorkerFrame DEF AloneKeeps, Quiet
<1> QED  BY <1>1, <1>2, <1>3, <1>4 DEF AloneKeeps, Quiet, Busy

(* While the block is in force a check is answered by L1, or by the row.   *)
LEMMA CheckerKeeps ==
  ASSUME TypeInv, TypeInv', PromiseInv, PromiseNext, NEW w \in Workers, CheckStep(w)
  PROVE  WorkerKeeps(w)'
<1>1. /\ WorkersTyped /\ FlightsTyped /\ TableTyped /\ alone \subseteq Workers
      /\ WorkerKeeps(w) /\ PromisesTyped /\ WorkerStep(w)
  BY TypeInvParts DEF PromiseInv, PromisesTyped, WorkerStep
<1>2. /\ IP(w) \in IPs /\ IP(w)' = IP(w) /\ now' = now
      /\ TableKeeps(IP(w)) /\ CacheKeeps(IP(w))
  BY <1>1, WorkerFrame DEF IP, PromiseInv, IPKeeps
<1>3. pc[w] \notin TrapPlaces /\ pc'[w] \notin TrapPlaces \cup {"idle", "trapRead"}
  <2>1. \E from, to : /\ pc[w] = from /\ pc' = [pc EXCEPT ![w] = to]
                      /\ from \notin TrapPlaces
                      /\ to \notin TrapPlaces \cup {"idle", "trapRead"}
    BY DEF CheckStep, LookInCache, CleanGet, CleanRemove,
       CleanDelete, LookInDatabase, PassBreaker, AskAbuseIPDB, SaveChecked,
       RereadChecked, RecordFailure, RecordSuccess, FillCache, Goto, TrapPlaces
  <2> QED  BY <1>1, <2>1 DEF WorkersTyped
<1>4. undisturbed'[IP(w)] = undisturbed[IP(w)] /\ owed'[w] = owed[w]
  BY <1>1, <1>2, <1>3, WorkerHistory DEF FinishesTrap, TrapPlaces
<1>5. CheckKeeps(w)'
  <2> SUFFICES ASSUME InForce(IP(w))
               PROVE  /\ pc'[w] \in {"done", "dbGet", "fill"}
                      /\ pc'[w] = "fill" => Lasts(IP(w), req'[w].record)
    BY <1>2, <1>4 DEF CheckKeeps, InForce, Lasts
  <2>1. pc[w] \in {"idle", "done", "l1Get", "dbGet", "fill", "trapRead"}
    BY <1>1, <1>3 DEF WorkerKeeps, CheckKeeps
  <2>2. CASE LookInCache(w)
    <3>1. ~(IP(w) \in L1!Cached /\ Expired(cache[IP(w)], now))
      BY <1>1, <1>2, Lasting DEF CacheKeeps
    <3>2. Goto(w, "l1Get", "dbGet") \/ Goto(w, "l1Get", "done")
      BY <2>2, <3>1, Zenon DEF LookInCache
    <3> QED  BY <1>1, <3>2 DEF Goto, WorkersTyped
  <2>3. CASE LookInDatabase(w)
    <3>1. LiveRow(IP(w)) /\ Lasts(IP(w), db[IP(w)])
      BY <1>1, <1>2, Lasting DEF TableKeeps, LiveRow
    <3>2. \/ Goto(w, "dbGet", "fill") /\ Hold(w, db[IP(w)])
          \/ Goto(w, "dbGet", "done")
      BY <2>3, <3>1, Zenon DEF LookInDatabase
    <3> QED  BY <1>1, <3>1, <3>2 DEF Goto, Hold, WorkersTyped
  <2>4. CASE FillCache(w)
    BY <1>1, <2>4 DEF FillCache, Goto, WorkersTyped
  <2> QED
    BY <2>1, <2>2, <2>3, <2>4
       DEF CheckStep, CleanGet, CleanRemove,
       CleanDelete, PassBreaker, AskAbuseIPDB, SaveChecked,
       RereadChecked, RecordFailure, RecordSuccess, Goto
<1>6. TrapKeeps(w)'
  BY <1>3 DEF TrapKeeps
<1>7. AloneKeeps(w)'
  BY <1>2, <1>3, StaysAlone, <1>1 DEF AloneKeeps, TrapPlaces
<1>8. OwedKept(w)'
  BY <1>1, <1>2, <1>4 DEF WorkerKeeps, OwedKept
<1> QED  BY <1>5, <1>6, <1>7, <1>8 DEF WorkerKeeps

(* A trap stores a record that lasts longer than any before it promised,   *)
(* and one that ends alone promises no more than is stored.                *)
LEMMA TrapperKeeps ==
  ASSUME TypeInv, TypeInv', PromiseInv, PromiseNext, NEW w \in Workers, TrapStep(w)
  PROVE  WorkerKeeps(w)'
<1>1. /\ WorkersTyped /\ FlightsTyped /\ TableTyped /\ alone \subseteq Workers
      /\ WorkerKeeps(w) /\ PromisesTyped /\ WorkerStep(w)
  BY TypeInvParts DEF PromiseInv, PromisesTyped, WorkerStep
<1>2. /\ IP(w) \in IPs /\ IP(w)' = IP(w) /\ now' = now /\ now \in Nat
      /\ undisturbed[IP(w)] \in Nat /\ owed[w].undisturbed \in Int /\ owed'[w] = owed[w]
  BY <1>1, WorkerFrame, WorkerHistory, TypeInvParts, GateAssumption
     DEF IP, PromisesTyped, RestTyped
<1>3. /\ pc[w] \in TrapPlaces \cup {"trapRead"}
      /\ pc'[w] \in TrapPlaces \cup {"done"}
  <2>1. \E from, to : /\ pc[w] = from /\ pc' = [pc EXCEPT ![w] = to]
                      /\ from \in TrapPlaces \cup {"trapRead"}
                      /\ to \in TrapPlaces \cup {"done"}
    BY Zenon DEF TrapStep, TrapRead, TrapSave, TrapReread, TrapFill, Goto, TrapPlaces
  <2> QED  BY <1>1, <2>1 DEF WorkersTyped
<1>4. CheckKeeps(w)'
  BY <1>3 DEF CheckKeeps, TrapPlaces
<1>5. ASSUME pc'[w] \in TrapPlaces
      PROVE  /\ undisturbed'[IP(w)] = undisturbed[IP(w)]
             /\ TrapKeeps(w)' /\ AloneKeeps(w)'
  <2>1. undisturbed'[IP(w)] = undisturbed[IP(w)]
    BY <1>1, <1>2, <1>5, WorkerHistory DEF FinishesTrap, TrapPlaces
  <2>2. CASE pc[w] = "trapRead"
    <3>1. pc'[w] = "trapSave" /\ req'[w].record = TrapRecord
      BY <1>1, <1>5, <2>2
         DEF TrapStep, TrapRead, TrapSave, TrapReread, TrapFill, Goto, Hold,
             WorkersTyped, TrapPlaces
    <3>2. TrapKeeps(w)'
      BY <1>1, <1>2, <2>1, <3>1, GateAssumption DEF TrapKeeps, TrapRecord, PromisesTyped
    <3> QED  BY <1>1, <1>2, <2>1, <3>1, <3>2, StaysAlone DEF AloneKeeps
  <2>3. CASE pc[w] = "trapSave"
    <3>1. /\ pc'[w] = "trapReread" /\ UNCHANGED req /\ db'[IP(w)] = req[w].record
      BY <1>1, <1>2, <1>5, <2>3
         DEF TrapStep, TrapRead, TrapSave, TrapReread, TrapFill, Goto,
             WorkersTyped, TableTyped, TrapPlaces
    <3>2. TrapKeeps(w)'
      BY <1>1, <1>2, <2>1, <2>3, <3>1 DEF TrapKeeps, WorkerKeeps, TrapPlaces
    <3> QED  BY <1>1, <1>2, <2>1, <3>1, <3>2, StaysAlone DEF AloneKeeps
  <2>4. CASE pc[w] \in {"trapReread", "trapFill"}
    <3>1. /\ pc[w] = "trapReread" /\ pc'[w] = "trapFill" /\ UNCHANGED <<req, db>>
      BY <1>1, <1>5, <2>4
         DEF TrapStep, TrapRead, TrapSave, TrapReread, TrapFill, Goto,
             WorkersTyped, TrapPlaces
    <3>2. TrapKeeps(w)'
      BY <1>1, <1>2, <2>1, <2>4, <3>1 DEF TrapKeeps, WorkerKeeps, TrapPlaces
    <3> QED  BY <1>1, <1>2, <2>1, <3>1, <3>2, StaysAlone DEF AloneKeeps, WorkerKeeps
  <2> QED  BY <1>3, <2>1, <2>2, <2>3, <2>4 DEF TrapPlaces
<1>6. ASSUME pc'[w] = "done"
      PROVE  TrapKeeps(w)' /\ AloneKeeps(w)'
  BY <1>6, StaysAlone, <1>1 DEF TrapKeeps, AloneKeeps, TrapPlaces, Busy
<1>7. OwedKept(w)'
  <2>1. undisturbed'[IP(w)] >= undisturbed[IP(w)]
    <3>1. CASE w \in alone /\ FinishesTrap(w)
      <4>1. /\ undisturbed'[IP(w)] = Later(undisturbed[IP(w)], req[w].record.expiresAt)
            /\ req[w].record.expiresAt \in undisturbed[IP(w)]..(now + TrapTTL)
        BY <1>1, <1>2, <3>1, BlockPromised, WorkerHistory
           DEF WorkerKeeps, TrapKeeps, FinishesTrap, TrapPlaces
      <4> QED  BY <1>2, <4>1 DEF Later
    <3> QED  BY <1>1, <1>2, <3>1, WorkerHistory
  <2>2. undisturbed'[IP(w)] \in Int
    <3>1. CASE w \in alone /\ FinishesTrap(w)
      <4>1. /\ undisturbed'[IP(w)] = Later(undisturbed[IP(w)], req[w].record.expiresAt)
            /\ req[w].record.expiresAt \in undisturbed[IP(w)]..(now + TrapTTL)
        BY <1>1, <1>2, <3>1, BlockPromised, WorkerHistory
           DEF WorkerKeeps, TrapKeeps, FinishesTrap, TrapPlaces
      <4> QED  BY <1>2, <4>1 DEF Later
    <3> QED  BY <1>1, <1>2, <3>1, WorkerHistory
  <2> QED  BY <1>1, <1>2, <2>1, <2>2 DEF WorkerKeeps, OwedKept
<1> QED  BY <1>3, <1>4, <1>5, <1>6, <1>7 DEF WorkerKeeps

(* What a worker's step leaves of an IP that it promises nothing.          *)
LEMMA IPKeepsThroughStep ==
  ASSUME SourceEnabled, Threshold <= 100, TypeInv, TypeInv', PromiseInv, PromiseNext,
         NEW w \in Workers, WorkerStep(w), NEW ip \in IPs,
         undisturbed'[ip] = undisturbed[ip]
  PROVE  IPKeeps(ip)'
<1>1. /\ WorkersTyped /\ FlightsTyped /\ TableTyped /\ RestTyped
      /\ WorkerKeeps(w) /\ PromisesTyped /\ IPKeeps(ip)
  BY TypeInvParts DEF PromiseInv
<1>2. /\ now' = now /\ flight' = flight /\ IP(w) \in IPs
      /\ ip # IP(w) => db'[ip] = db[ip]
  BY <1>1, WorkerFrame
<1>3. ASSUME pc[w] \in TrapPlaces
      PROVE  Lasts(IP(w), req[w].record)
  BY <1>1, <1>2, <1>3, GateAssumption
     DEF WorkerKeeps, TrapKeeps, Lasts, WorkersTyped, HoldingPlaces, TrapPlaces,
         PromisesTyped
<1>4. ASSUME InForce(IP(w)), ip = IP(w)
      PROVE  db'[ip] = db[ip] \/ Lasts(ip, db'[ip])
  <2>1. pc[w] \in {"l1Get", "dbGet", "fill", "trapRead"} \cup TrapPlaces
    BY <1>1, <1>2, <1>4, WorkerFrame DEF WorkerKeeps, CheckKeeps, Busy
  <2>2. \/ UNCHANGED db
        \/ pc[w] = "trapSave" /\ db' = [db EXCEPT ![IP(w)] = req[w].record]
    BY <2>1 DEF WorkerStep, CheckStep, TrapStep, LookInCache, CleanGet, CleanRemove,
       CleanDelete, LookInDatabase, PassBreaker, AskAbuseIPDB, SaveChecked,
       RereadChecked, RecordFailure, RecordSuccess, FillCache,
       TrapRead, TrapSave, TrapReread, TrapFill, Goto, TrapPlaces
  <2> QED  BY <1>1, <1>2, <1>3, <1>4, <2>2 DEF TableTyped, TrapPlaces
<1>5. ASSUME InForce(ip), ip \in (L1!Cached)'
      PROVE  \/ ip \in L1!Cached /\ cache'[ip] = cache[ip]
             \/ Lasts(ip, cache'[ip])
  <2>1. \/ L1!Get(IP(w)) \/ L1!Remove(IP(w)) \/ UNCHANGED l1Vars
        \/ L1!Set(IP(w), req[w].record) /\ pc[w] \in {"fill", "trapFill"}
    BY Zenon
    DEF WorkerStep, CheckStep, TrapStep, LookInCache, CleanGet, CleanRemove,
        CleanDelete, LookInDatabase, PassBreaker, AskAbuseIPDB, SaveChecked,
        RereadChecked, RecordFailure, RecordSuccess, FillCache,
        TrapRead, TrapSave, TrapReread, TrapFill, SetCaches, Goto
  <2>2. CASE L1!Set(IP(w), req[w].record) /\ pc[w] \in {"fill", "trapFill"}
    <3>1. ip = IP(w) => Lasts(ip, req[w].record)
      BY <1>1, <1>3, <1>5, <2>2 DEF WorkerKeeps, CheckKeeps, TrapPlaces
    <3> QED  BY <1>5, <2>2, <3>1, PromiseFilled
  <2> QED  BY <1>5, <2>1, <2>2, CacheOnlyLoses
<1> QED  BY <1>1, <1>2, <1>4, <1>5, IPStillKeeps

(* What it leaves of another worker, whose IP it promises nothing.         *)
LEMMA BesideWorker ==
  ASSUME TypeInv, TypeInv', PromiseInv, PromiseNext, NEW w \in Workers, WorkerStep(w),
         NEW v \in Workers, v # w, undisturbed'[IP(v)] = undisturbed[IP(v)]
  PROVE  WorkerKeeps(v)'
<1>1. /\ WorkersTyped /\ FlightsTyped /\ TableTyped /\ alone \subseteq Workers
      /\ WorkerKeeps(v) /\ PromisesTyped /\ now' = now /\ flight' = flight
      /\ pc'[v] = pc[v] /\ req'[v] = req[v] /\ IP(v)' = IP(v)
      /\ IP(v) \in IPs /\ undisturbed[IP(v)] \in Nat
  BY TypeInvParts, WorkerFrame DEF PromiseInv, PromisesTyped, WorkersTyped, IP
<1>2. owed'[v].undisturbed <= undisturbed[IP(v)]
  BY <1>1, WorkerHistory DEF WorkerKeeps, OwedKept, NoPromise, PromisesTyped
<1>3. ASSUME v \in alone'
      PROVE  /\ v \in alone /\ Quiet(v, IP(v))'
             /\ db'[IP(v)] = db[IP(v)]
  <2>1. v \in alone /\ Quiet(v, IP(v))
    BY <1>1, <1>3, WorkerHistory DEF WorkerKeeps, AloneKeeps
  <2>2. IP(v) # IP(w)
    BY <1>1, <2>1, WorkerFrame DEF Quiet
  <2>3. \A u \in Workers : IP(u)' = IP(u) /\ (Busy(u)' => Busy(u))
    BY <1>1, WorkerFrame DEF IP, Busy
  <2>4. pending'[IP(v)] = pending[IP(v)] /\ db'[IP(v)] = db[IP(v)]
    BY <1>1, <2>2, WorkerFrame
  <2> QED  BY <1>1, <2>1, <2>3, <2>4 DEF Quiet
<1> QED  BY <1>1, <1>2, <1>3, BystanderKeeps

(* The step that ends an undisturbed trap: its record is in L1 and, unless *)
(* it has expired already, in the table, and nobody else is at the IP.     *)
LEMMA PromiseMade ==
  ASSUME SourceEnabled, Threshold <= 100, TypeInv, TypeInv', PromiseInv, PromiseNext,
         NEW w \in Workers, WorkerStep(w), w \in alone, FinishesTrap(w)
  PROVE  IPKeeps(IP(w))' /\ \A v \in Workers : v # w => WorkerKeeps(v)'
<1> DEFINE r == req[w].record
<1>1. /\ WorkersTyped /\ FlightsTyped /\ TableTyped /\ RestTyped /\ alone \subseteq Workers
      /\ WorkerKeeps(w) /\ PromisesTyped /\ now \in Nat
      /\ IP(w) \in IPs /\ now' = now /\ flight' = flight
      /\ pc[w] = "trapFill" /\ undisturbed[IP(w)] \in Nat
  BY TypeInvParts, WorkerFrame, GateAssumption
     DEF PromiseInv, FinishesTrap, RestTyped, PromisesTyped
<1>2. /\ r \in Record /\ r.score = 100 /\ r.expiresAt \in Int
      /\ r.expiresAt >= undisturbed[IP(w)]
      /\ Quiet(w, IP(w))
      /\ db[IP(w)] = r \/ r.expiresAt <= now
  BY <1>1, GateAssumption
     DEF WorkerKeeps, TrapKeeps, AloneKeeps, TrapPlaces, WorkersTyped, HoldingPlaces
<1>3. undisturbed'[IP(w)] = r.expiresAt
  BY <1>1, <1>2, BlockPromised, WorkerHistory DEF Later
<1>4. TrapFill(w)
  BY <1>1 DEF WorkerStep, CheckStep, TrapStep, LookInCache, CleanGet, CleanRemove,
        CleanDelete, LookInDatabase, PassBreaker, AskAbuseIPDB, SaveChecked,
        RereadChecked, RecordFailure, RecordSuccess, FillCache,
        TrapRead, TrapSave, TrapReread, Goto
<1>5. /\ UNCHANGED db /\ L1!Set(IP(w), r)
  BY <1>4 DEF TrapFill, SetCaches
<1>6. IPKeeps(IP(w))'
  <2>1. IP(w)' = IP(w)
    BY <1>1, WorkerFrame DEF IP
  <2>2. now < undisturbed'[IP(w)] => db'[IP(w)] = r
    BY <1>1, <1>2, <1>3, <1>5
  <2>3. cache'[IP(w)] = r
    BY <1>5, PromiseFilled
  <2>4. flight'[IP(w)].at \notin FlyingPlaces
    BY <1>1, <1>2 DEF Quiet, FlyingPlaces
  <2>5. r.score >= Threshold
    BY <1>2, GateAssumption
  <2> QED  BY <1>1, <1>2, <1>3, <2>1, <2>2, <2>3, <2>4, <2>5
             DEF IPKeeps, TableKeeps, CacheKeeps, FlightKeeps, InForce, Lasts
<1>7. ASSUME NEW v \in Workers, v # w
      PROVE  WorkerKeeps(v)'
  <2>1. /\ pc'[v] = pc[v] /\ req'[v] = req[v] /\ WorkerKeeps(v) /\ IP(v)' = IP(v)
    BY <1>1, <1>7, WorkerFrame DEF PromiseInv, IP
  <2>2. CASE IP(v) = IP(w)
    <3>1. pc[v] \in {"idle", "done"} /\ v \notin alone'
      BY <1>1, <1>2, <1>7, <2>1, <2>2, WorkerHistory DEF Quiet, Busy
    <3>2. owed'[v].undisturbed <= undisturbed'[IP(v)]
      BY <1>1, <1>2, <1>3, <2>1, <2>2, <3>1, WorkerHistory
         DEF WorkerKeeps, OwedKept, NoPromise, PromisesTyped
    <3> QED  BY <2>1, <3>1, <3>2
               DEF WorkerKeeps, CheckKeeps, TrapKeeps, AloneKeeps, OwedKept, TrapPlaces
  <2>3. CASE IP(v) # IP(w)
    BY <1>1, <1>7, <2>3, WorkerHistory, BesideWorker DEF WorkersTyped, IP
  <2> QED  BY <2>2, <2>3
<1> QED  BY <1>6, <1>7

(* Every step of a worker.                                                 *)
LEMMA WorkerStepKeeps ==
  ASSUME SourceEnabled, Threshold <= 100, TypeInv, TypeInv', PromiseInv, PromiseNext,
         NEW w \in Workers, WorkerStep(w)
  PROVE  /\ \A ip \in IPs : IPKeeps(ip)'
         /\ \A v \in Workers : WorkerKeeps(v)'
<1>1. /\ WorkersTyped /\ alone \subseteq Workers /\ IP(w) \in IPs
      /\ \A v \in Workers : IP(v) \in IPs
  BY TypeInvParts DEF PromiseInv, PromisesTyped, WorkersTyped, IP
<1>2. WorkerKeeps(w)'
  BY CheckerKeeps, TrapperKeeps DEF WorkerStep
<1>3. CASE w \in alone /\ FinishesTrap(w)
  <2>1. \A ip \in IPs : ip # IP(w) => undisturbed'[ip] = undisturbed[ip]
    BY <1>1, WorkerHistory
  <2>2. \A ip \in IPs : ip # IP(w) => IPKeeps(ip)'
    BY <2>1, IPKeepsThroughStep
  <2>3. IPKeeps(IP(w))' /\ \A v \in Workers : v # w => WorkerKeeps(v)'
    BY <1>3, PromiseMade
  <2>4. IP(w)' = IP(w)
    BY TypeInvParts, WorkerFrame DEF IP
  <2>5. \A ip \in IPs : ip = IP(w) => IPKeeps(ip)'
    BY <2>3, <2>4 DEF IPKeeps, TableKeeps, CacheKeeps, FlightKeeps, InForce, Lasts
  <2> QED  BY <1>2, <2>2, <2>3, <2>5
<1>4. CASE ~(w \in alone /\ FinishesTrap(w))
  <2>1. \A ip \in IPs : undisturbed'[ip] = undisturbed[ip]
    BY <1>1, <1>4, WorkerHistory
  <2> QED  BY <1>1, <1>2, <2>1, IPKeepsThroughStep, BesideWorker
<1> QED  BY <1>3, <1>4

(* The histories in a step that no worker takes.                           *)
LEMMA OtherHistory ==
  ASSUME TypeInv, PromiseNext, alone \subseteq Workers, UNCHANGED <<pc, arrivals>>
  PROVE  /\ alone' \subseteq alone
         /\ \A v \in Workers : owed'[v] = NoPromise \/ owed'[v] = owed[v]
         /\ \A ip \in IPs : undisturbed'[ip] = undisturbed[ip]
<1>1. \A ip \in IPs : undisturbed'[ip] = undisturbed[ip]
  BY NothingPromised DEF FinishesTrap
<1> QED  BY <1>1, NoArrival

LEMMA OwedStillKept ==
  ASSUME TypeInv, PromiseInv, NEW v \in Workers,
         owed'[v] = NoPromise \/ owed'[v] = owed[v]
  PROVE  owed'[v].undisturbed \in Int /\ owed'[v].undisturbed <= undisturbed[IP(v)]
  BY TypeInvParts
     DEF PromiseInv, PromisesTyped, WorkerKeeps, OwedKept, NoPromise, WorkersTyped, IP

(* A report writes back the record it read, as lasting as it was.          *)
LEMMA FlightStepKeeps ==
  ASSUME SourceEnabled, Threshold <= 100, TypeInv, TypeInv', PromiseInv, PromiseNext,
         NEW k \in IPs, FlightStep(k)
  PROVE  /\ \A ip \in IPs : IPKeeps(ip)'
         /\ \A v \in Workers : WorkerKeeps(v)'
<1>1. /\ WorkersTyped /\ FlightsTyped /\ TableTyped /\ PromisesTyped /\ IPKeeps(k)
      /\ alone \subseteq Workers
  BY TypeInvParts DEF PromiseInv, PromisesTyped
<1>2. UNCHANGED <<now, pc, req, arrivals>>
  BY Zenon DEF FlightStep, StartFlight, JoinFlight, FlightRead, FlightCall,
       FlightSave, FlightReread, FlightFill, workerVars, boundVars
<1>3. /\ pending[k] > 0 \/ flight[k].at # "none"
      /\ \A ip \in IPs : ip # k => /\ pending'[ip] = pending[ip] /\ flight'[ip] = flight[ip]
                                   /\ db'[ip] = db[ip]
  <2>1. pending[k] > 0 \/ flight[k].at # "none"
    BY DEF FlightStep, StartFlight, JoinFlight, FlightRead, FlightCall,
       FlightSave, FlightReread, FlightFill, FlightTo
  <2>2. UNCHANGED pending \/ pending' = [pending EXCEPT ![k] = @ - 1]
    BY Zenon DEF FlightStep, StartFlight, JoinFlight, FlightRead, FlightCall,
       FlightSave, FlightReread, FlightFill, reporterVars
  <2>3. \/ UNCHANGED flight \/ \E f : flight' = [flight EXCEPT ![k] = f]
        \/ \E a : flight' = [flight EXCEPT ![k].at = a]
    BY Zenon DEF FlightStep, StartFlight, JoinFlight, FlightRead, FlightCall,
       FlightSave, FlightReread, FlightFill, FlightTo, EndFlight
  <2>4. UNCHANGED db \/ \E r : db' = [db EXCEPT ![k] = r]
    BY Zenon DEF FlightStep, StartFlight, JoinFlight, FlightRead, FlightCall,
       FlightSave, FlightReread, FlightFill
  <2> QED  BY <1>1, <2>1, <2>2, <2>3, <2>4 DEF FlightsTyped, TableTyped
<1>4. ASSUME InForce(k)
      PROVE  db'[k] = db[k] \/ Lasts(k, db'[k])
  <2>1. CASE FlightSave(k) /\ db' = [db EXCEPT ![k] = Marked(k)]
    <3>1. Lasts(k, flight[k].record)
      BY <1>1, <1>4, <2>1 DEF FlightSave, IPKeeps, FlightKeeps, FlyingPlaces
    <3>2. Lasts(k, Marked(k))
      BY <3>1, MarkedIsRecord DEF Lasts, Marked, Record
    <3> QED  BY <1>1, <2>1, <3>2 DEF TableTyped
  <2>2. CASE UNCHANGED db
    BY <2>2
  <2> QED
    BY <2>1, <2>2 DEF FlightStep, StartFlight, JoinFlight, FlightRead, FlightCall,
       FlightSave, FlightReread, FlightFill
<1>5. ASSUME InForce(k), flight'[k].at \in FlyingPlaces
      PROVE  flight'[k] = flight[k] \/ Lasts(k, flight'[k].record)
  <2>1. \/ UNCHANGED flight \/ flight'[k].at \notin FlyingPlaces
        \/ flight[k].at \in FlyingPlaces /\ flight'[k].record = flight[k].record
        \/ db[k] # NoRecord /\ flight'[k].record = db[k]
        \/ flight[k].at = "save" /\ flight'[k].record = Marked(k)
    <3>1. EndFlight(k) => flight'[k].at \notin FlyingPlaces
      BY <1>1 DEF EndFlight, FlightsTyped, NoFlight, FlyingPlaces
    <3>2. CASE StartFlight(k) \/ JoinFlight(k)
      BY <1>1, <3>2 DEF StartFlight, JoinFlight, FlightTo, FlightsTyped, FlyingPlaces
    <3>3. CASE FlightRead(k)
      BY <1>1, <3>1, <3>3 DEF FlightRead, FlightsTyped, FlyingPlaces
    <3>4. CASE FlightCall(k)
      BY <1>1, <3>1, <3>4 DEF FlightCall, FlightsTyped, FlyingPlaces
    <3>5. CASE FlightSave(k)
      BY <1>1, <3>1, <3>5 DEF FlightSave, FlightsTyped, FlyingPlaces
    <3>6. CASE FlightReread(k)
      BY <1>1, <3>1, <3>6 DEF FlightReread, FlightTo, FlightsTyped, FlyingPlaces
    <3>7. CASE FlightFill(k)
      BY <1>1, <3>1, <3>7 DEF FlightFill
    <3> QED  BY <3>2, <3>3, <3>4, <3>5, <3>6, <3>7 DEF FlightStep
  <2>2. flight[k].at \in FlyingPlaces => Lasts(k, flight[k].record)
    BY <1>1, <1>5 DEF IPKeeps, FlightKeeps
  <2>3. flight[k].at = "save" => Lasts(k, Marked(k))
    BY <2>2, MarkedIsRecord DEF Lasts, Marked, Record, FlyingPlaces
  <2> QED  BY <1>1, <1>5, <2>1, <2>2, <2>3 DEF IPKeeps, TableKeeps
<1>6. ASSUME NEW ip \in IPs, InForce(ip), ip \in (L1!Cached)'
      PROVE  \/ ip \in L1!Cached /\ cache'[ip] = cache[ip]
             \/ Lasts(ip, cache'[ip])
  <2>1. UNCHANGED l1Vars \/ (flight[k].at = "fill" /\ L1!Set(k, flight[k].record))
    <3>1. FlightFill(k) => \/ UNCHANGED l1Vars
                           \/ flight[k].at = "fill" /\ L1!Set(k, flight[k].record)
      BY DEF FlightFill, SetCaches
    <3>2. ~FlightFill(k) => UNCHANGED l1Vars
      BY Zenon DEF FlightStep, StartFlight, JoinFlight, FlightRead, FlightCall,
                   FlightSave, FlightReread
    <3> QED  BY <3>1, <3>2
  <2>2. CASE flight[k].at = "fill" /\ L1!Set(k, flight[k].record)
    <3>1. ip = k => Lasts(ip, flight[k].record)
      BY <1>1, <1>6, <2>2 DEF IPKeeps, FlightKeeps, FlyingPlaces
    <3> QED  BY <1>6, <2>2, <3>1, PromiseFilled
  <2> QED  BY <1>6, <2>1, <2>2, CacheOnlyLoses
<1>7. \A ip \in IPs : IPKeeps(ip)'
  BY <1>1, <1>2, <1>3, <1>4, <1>5, <1>6, OtherHistory, IPStillKeeps DEF PromiseInv
<1>8. ASSUME NEW v \in Workers
      PROVE  WorkerKeeps(v)'
  <2>1. /\ IP(v) \in IPs /\ WorkerKeeps(v) /\ pc'[v] = pc[v] /\ req'[v] = req[v]
        /\ undisturbed'[IP(v)] = undisturbed[IP(v)]
        /\ owed'[v].undisturbed <= undisturbed[IP(v)]
    BY <1>1, <1>2, OtherHistory, OwedStillKept DEF PromiseInv, WorkersTyped, IP
  <2>2. ASSUME v \in alone'
        PROVE  v \in alone /\ Quiet(v, IP(v))' /\ db'[IP(v)] = db[IP(v)]
    <3>1. v \in alone /\ Quiet(v, IP(v))
      BY <1>1, <1>2, <2>1, <2>2, OtherHistory DEF WorkerKeeps, AloneKeeps
    <3>2. IP(v) # k
      BY <1>1, <1>3, <3>1 DEF Quiet, FlightsTyped
    <3> QED  BY <1>2, <1>3, <2>1, <3>1, <3>2 DEF Quiet, Busy, IP
  <2> QED  BY <1>1, <1>2, <2>1, <2>2, BystanderKeeps
<1> QED  BY <1>7, <1>8

(* The cleanup deletes what has expired; a crash leaves the table.         *)
LEMMA OtherKeeps ==
  ASSUME TypeInv, TypeInv', PromiseInv, PromiseNext,
         DeleteExpired \/ SweepCache \/ Tick
  PROVE  /\ \A ip \in IPs : IPKeeps(ip)'
         /\ \A v \in Workers : WorkerKeeps(v)'
<1>1. /\ WorkersTyped /\ FlightsTyped /\ TableTyped /\ PromisesTyped
      /\ alone \subseteq Workers
  BY TypeInvParts DEF PromiseInv, PromisesTyped
<1>2. UNCHANGED <<pc, req, arrivals, pending, flight>> /\ now' \in {now, now + 1}
  <2>1. UNCHANGED <<workerVars, boundVars, reporterVars>>
    BY Zenon DEF DeleteExpired, SweepCache, Tick
  <2>2. UNCHANGED now \/ now' = now + 1
    BY Zenon DEF DeleteExpired, SweepCache, Tick
  <2> QED  BY <2>1, <2>2 DEF workerVars, boundVars, reporterVars
<1>3. \A ip \in IPs : db'[ip] = db[ip] \/ (db'[ip] = NoRecord /\ ~LiveRow(ip))
  BY DEF DeleteExpired, SweepCache, Tick
<1>4. L1!RemoveExpired(cleaner.time) \/ UNCHANGED l1Vars
  BY Zenon DEF DeleteExpired, SweepCache, Tick
<1>5. ASSUME NEW ip \in IPs
      PROVE  IPKeeps(ip)'
  <2>1. InForce(ip) => LiveRow(ip)
    BY <1>1, Lasting DEF PromiseInv, IPKeeps, TableKeeps, LiveRow
  <2> QED  BY <1>1, <1>2, <1>3, <1>4, <2>1, CacheOnlyLoses, OtherHistory, IPStillKeeps
             DEF PromiseInv
<1>6. ASSUME NEW v \in Workers
      PROVE  WorkerKeeps(v)'
  <2>1. /\ IP(v) \in IPs /\ WorkerKeeps(v) /\ pc'[v] = pc[v] /\ req'[v] = req[v]
        /\ undisturbed'[IP(v)] = undisturbed[IP(v)]
        /\ owed'[v].undisturbed <= undisturbed[IP(v)]
    BY <1>1, <1>2, OtherHistory, OwedStillKept DEF PromiseInv, WorkersTyped, IP
  <2>2. ASSUME v \in alone'
        PROVE  v \in alone /\ Quiet(v, IP(v))'
    <3>1. v \in alone /\ Quiet(v, IP(v))
      BY <1>1, <1>2, <2>1, <2>2, OtherHistory DEF WorkerKeeps, AloneKeeps
    <3> QED  BY <1>2, <2>1, <3>1 DEF Quiet, Busy, IP
  <2> QED  BY <1>1, <1>2, <1>3, <2>1, <2>2, BystanderKeeps
<1> QED  BY <1>5, <1>6

LEMMA CrashKeeps ==
  ASSUME TypeInv, TypeInv', PromiseInv, PromiseNext, Crash
  PROVE  /\ alone' = {} /\ \A ip \in IPs : undisturbed'[ip] = undisturbed[ip]
         /\ \A ip \in IPs : IPKeeps(ip)'
         /\ \A v \in Workers : WorkerKeeps(v)'
<1>1. /\ WorkersTyped /\ WorkersTyped' /\ PromisesTyped /\ alone \subseteq Workers
      /\ UNCHANGED <<now, db, arrivals>> /\ cache' = <<>>
      /\ pc' = [w \in Workers |-> "idle"] /\ flight' = [ip \in IPs |-> NoFlight]
  BY TypeInvParts DEF PromiseInv, PromisesTyped, Crash
<1>2. /\ alone' = {}
      /\ \A w \in Workers : owed'[w] = NoPromise
      /\ \A ip \in IPs : undisturbed'[ip] = undisturbed[ip]
  BY <1>1, NoArrival, NothingPromised DEF FinishesTrap
<1>3. ASSUME NEW ip \in IPs
      PROVE  IPKeeps(ip)'
  BY <1>1, <1>2, IPStillKeeps DEF PromiseInv, NoFlight, FlyingPlaces, L1!Cached
<1>4. ASSUME NEW w \in Workers
      PROVE  WorkerKeeps(w)'
  <2>1. IP(w)' \in IPs /\ undisturbed[IP(w)'] \in Nat
    BY <1>1 DEF WorkersTyped, IP, PromisesTyped
  <2> QED  BY <1>1, <1>2, <2>1 DEF WorkerKeeps, CheckKeeps, TrapKeeps, AloneKeeps,
             OwedKept, NoPromise, TrapPlaces
<1> QED  BY <1>2, <1>3, <1>4

(* A request that arrives ends the solitude of all others on its IP.       *)
LEMMA RequestKeeps ==
  ASSUME SourceEnabled, TypeInv, TypeInv', PromiseInv, PromiseNext,
         NEW w \in Workers, NEW k \in IPs, NEW kind \in Kinds, Request(w, k, kind)
  PROVE  /\ alone' \subseteq Workers /\ owed'[w].undisturbed \in Int
         /\ \A v \in Workers : v # w => owed'[v] = owed[v] \/ owed'[v] = NoPromise
         /\ \A ip \in IPs : undisturbed'[ip] = undisturbed[ip]
         /\ \A ip \in IPs : IPKeeps(ip)'
         /\ \A v \in Workers : WorkerKeeps(v)'
<1>1. /\ WorkersTyped /\ PromisesTyped /\ FlightsTyped /\ alone \subseteq Workers
      /\ RestTyped /\ UNCHANGED <<now, db, cache, pending, flight>>
  BY Zenon, TypeInvParts
     DEF PromiseInv, PromisesTyped, Request, l1Vars, reporterVars
<1>2. /\ pc[w] \in {"idle", "done"} /\ pc'[w] \in {"trapRead", "l1Get"}
      /\ req'[w].ip = k /\ IP(w)' = k
      /\ \A v \in Workers : v # w => pc'[v] = pc[v] /\ req'[v] = req[v]
      /\ arrivals' # arrivals
  BY <1>1 DEF Request, WorkersTyped, RestTyped, IP
<1>3. Arrives(w) /\ \A v \in Workers : v # w => ~Arrives(v)
  BY <1>2 DEF Arrives
<1>4. \A ip \in IPs : undisturbed'[ip] = undisturbed[ip]
  BY <1>1, <1>2, NothingPromised DEF FinishesTrap
<1>5. /\ w \in alone' => Quiet(w, k)
      /\ alone' \subseteq Workers
      /\ \A v \in Workers : v # w /\ v \in alone' => v \in alone /\ k # IP(v)
  BY <1>1, <1>2, <1>3 DEF PromiseNext
<1>6. /\ owed'[w].undisturbed = undisturbed[k]
      /\ \A v \in Workers : v # w => owed'[v] = owed[v] \/ owed'[v] = NoPromise
  BY <1>2, <1>3 DEF PromiseNext
<1>7. ASSUME NEW ip \in IPs
      PROVE  IPKeeps(ip)'
  BY <1>1, <1>4, IPStillKeeps DEF PromiseInv, L1!Cached
<1>8. WorkerKeeps(w)'
  <2>1. w \in alone' => Quiet(w, IP(w))'
    BY <1>1, <1>2, <1>5 DEF Quiet, Busy, IP
  <2>2. undisturbed'[IP(w)'] = undisturbed[k] /\ undisturbed[k] \in Nat
    BY <1>1, <1>2, <1>4 DEF PromisesTyped
  <2> QED  BY <1>2, <1>6, <2>1, <2>2
             DEF WorkerKeeps, CheckKeeps, TrapKeeps, AloneKeeps, OwedKept, TrapPlaces, Busy
<1>9. ASSUME NEW v \in Workers, v # w
      PROVE  WorkerKeeps(v)'
  <2>1. /\ IP(v) \in IPs /\ WorkerKeeps(v) /\ pc'[v] = pc[v] /\ req'[v] = req[v]
        /\ undisturbed'[IP(v)] = undisturbed[IP(v)]
        /\ owed'[v].undisturbed <= undisturbed[IP(v)]
    BY <1>1, <1>2, <1>4, <1>6, <1>9, OwedStillKept DEF PromiseInv, WorkersTyped, IP
  <2>2. ASSUME v \in alone'
        PROVE  v \in alone /\ Quiet(v, IP(v))'
    <3>1. v \in alone /\ Quiet(v, IP(v)) /\ k # IP(v)
      BY <1>5, <1>9, <2>1, <2>2 DEF WorkerKeeps, AloneKeeps
    <3> QED  BY <1>1, <1>2, <2>1, <3>1 DEF Quiet, Busy, IP
  <2> QED  BY <1>1, <2>1, <2>2, BystanderKeeps
<1> QED  BY <1>1, <1>4, <1>5, <1>6, <1>7, <1>8, <1>9 DEF PromisesTyped

-----------------------------------------------------------------------------
LEMMA PromisesStayTyped ==
  ASSUME SourceEnabled, TypeInv, TypeInv', PromiseInv, PromiseNext
  PROVE  PromisesTyped'
<1>1. /\ WorkersTyped /\ FlightsTyped /\ TableTyped /\ RestTyped /\ PromisesTyped
      /\ alone \subseteq Workers /\ now \in Nat
      /\ \A v \in Workers : WorkerKeeps(v) /\ IP(v) \in IPs
  BY TypeInvParts, GateAssumption
     DEF PromiseInv, PromisesTyped, RestTyped, WorkersTyped, IP
<1>2. alone' \subseteq Workers
  BY DEF PromiseNext
<1>3. undisturbed' = [ip \in IPs |-> undisturbed'[ip]]
  BY DEF PromiseNext
<1>4. ASSUME NEW ip \in IPs, now' \in {now, now + 1}, undisturbed'[ip] = undisturbed[ip]
      PROVE  undisturbed'[ip] \in Nat /\ undisturbed'[ip] <= now' + TrapTTL
  BY <1>1, <1>4, GateAssumption DEF PromisesTyped
<1>5. ASSUME NEW v \in Workers, owed'[v] = owed[v] \/ owed'[v] = NoPromise
      PROVE  owed'[v].undisturbed \in Int
  BY <1>1, <1>5 DEF PromisesTyped, NoPromise
<1>6. CASE \E w \in Workers, k \in IPs, kind \in Kinds : Request(w, k, kind)
  <2> PICK w \in Workers, k \in IPs, kind \in Kinds : Request(w, k, kind)
    BY <1>6
  <2>1. now' = now
    BY Zenon DEF Request
  <2> QED  BY <1>2, <1>3, <1>4, <1>5, <2>1, RequestKeeps DEF PromisesTyped
<1>7. CASE \E w \in Workers : WorkerStep(w)
  <2> PICK w \in Workers : WorkerStep(w)
    BY <1>7
  <2>1. now' = now /\ \A v \in Workers : owed'[v] = owed[v] \/ owed'[v] = NoPromise
    BY <1>1, WorkerFrame, WorkerHistory
  <2>2. ASSUME NEW ip \in IPs
        PROVE  undisturbed'[ip] \in Nat /\ undisturbed'[ip] <= now' + TrapTTL
    <3>1. CASE w \in alone /\ FinishesTrap(w) /\ IP(w) = ip
      <4>1. /\ undisturbed'[ip] = Later(undisturbed[ip], req[w].record.expiresAt)
            /\ req[w].record.expiresAt \in undisturbed[ip]..(now + TrapTTL)
        BY <1>1, <3>1, BlockPromised, WorkerHistory
           DEF WorkerKeeps, TrapKeeps, FinishesTrap, TrapPlaces
      <4>2. undisturbed[ip] \in Nat /\ now + TrapTTL \in Nat
        BY <1>1, GateAssumption DEF PromisesTyped
      <4> QED  BY <2>1, <4>1, <4>2 DEF Later
    <3> QED  BY <1>1, <1>4, <2>1, <3>1, WorkerHistory
  <2> QED  BY <1>2, <1>3, <1>5, <2>1, <2>2 DEF PromisesTyped
<1>8. CASE (\E ip \in IPs : FlightStep(ip)) \/ DeleteExpired \/ SweepCache \/ Tick
  <2>1. UNCHANGED <<pc, arrivals>> /\ now' \in {now, now + 1}
    <3>1. (\E ip \in IPs : FlightStep(ip)) => UNCHANGED <<pc, arrivals, now>>
      BY Zenon DEF FlightStep, StartFlight, JoinFlight, FlightRead, FlightCall,
         FlightSave, FlightReread, FlightFill, workerVars, boundVars
    <3>2. DeleteExpired \/ SweepCache \/ Tick =>
            UNCHANGED <<workerVars, boundVars>> /\ (UNCHANGED now \/ now' = now + 1)
      BY Zenon DEF DeleteExpired, SweepCache, Tick
    <3> QED  BY <1>8, <3>1, <3>2 DEF workerVars, boundVars
  <2> QED  BY <1>1, <1>2, <1>3, <1>4, <1>5, <2>1, OtherHistory DEF PromisesTyped
<1>9. CASE Crash
  <2>1. now' = now /\ UNCHANGED arrivals
    BY <1>9 DEF Crash
  <2> QED  BY <1>2, <1>3, <1>4, <1>5, <1>9, <2>1, CrashKeeps, NoArrival
             DEF PromisesTyped
<1> QED  BY <1>6, <1>7, <1>8, <1>9 DEF PromiseNext, Next

LEMMA PromiseStep ==
  ASSUME SourceEnabled, Threshold <= 100, TypeInv, TypeInv', PromiseInv,
         [PromiseNext]_promiseVars
  PROVE  PromiseInv'
<1>1. CASE UNCHANGED promiseVars
  <2>1. UNCHANGED <<cache, db, now, pc, req, pending, flight, undisturbed, alone, owed>>
    BY <1>1 DEF promiseVars, gateVars, l1Vars, workerVars, reporterVars
  <2> QED  BY <2>1
    DEF PromiseInv, PromisesTyped, IPKeeps, TableKeeps, CacheKeeps, FlightKeeps,
        WorkerKeeps, CheckKeeps, TrapKeeps, AloneKeeps, OwedKept, InForce, Lasts,
        L1!Cached, Quiet, Busy, IP
<1>2. CASE PromiseNext
  <2>1. /\ \A ip \in IPs : IPKeeps(ip)'
        /\ \A v \in Workers : WorkerKeeps(v)'
    <3>1. Next
      BY <1>2 DEF PromiseNext
    <3> QED  BY <1>2, <3>1, RequestKeeps, WorkerStepKeeps, FlightStepKeeps, OtherKeeps,
                CrashKeeps DEF Next
  <2> QED  BY <1>2, <2>1, PromisesStayTyped DEF PromiseInv
<1> QED  BY <1>1, <1>2

LEMMA PromiseStart ==
  ASSUME PromiseInit
  PROVE  PromiseInv
<1>1. TypeInv
  BY InitTypes DEF PromiseInit
<1>2. /\ now = 0 /\ pc = [w \in Workers |-> "idle"]
      /\ undisturbed = [ip \in IPs |-> 0] /\ alone = {}
      /\ owed = [w \in Workers |-> NoPromise]
  BY DEF PromiseInit, Init
<1>3. \A w \in Workers : IP(w) \in IPs
  BY <1>1, TypeInvParts DEF WorkersTyped, IP
<1>4. PromisesTyped
  BY <1>2, GateAssumption DEF PromisesTyped, NoPromise
<1>5. \A ip \in IPs : IPKeeps(ip)
  BY <1>2 DEF IPKeeps, TableKeeps, CacheKeeps, FlightKeeps, InForce
<1>6. \A w \in Workers : WorkerKeeps(w)
  BY <1>2, <1>3 DEF WorkerKeeps, CheckKeeps, TrapKeeps, AloneKeeps, OwedKept, NoPromise,
                    TrapPlaces
<1> QED  BY <1>4, <1>5, <1>6 DEF PromiseInv

(* Who is let through owes no block: a check that answers while the block  *)
(* is in force read a record that lasts, and any other is not told "allow".*)
LEMMA BlockedWhileInForce ==
  ASSUME SourceEnabled, TypeInv, TypeInv', PromiseInv, PromiseNext,
         NEW w \in Workers, LetsThrough(w)
  PROVE  now >= owed'[w].undisturbed
<1>1. /\ WorkersTyped /\ FlightsTyped /\ TableTyped /\ RestTyped /\ PromisesTyped
      /\ alone \subseteq Workers /\ WorkerKeeps(w) /\ now \in Nat
      /\ IP(w) \in IPs /\ undisturbed[IP(w)] \in Nat /\ owed[w].undisturbed \in Int
      /\ TableKeeps(IP(w)) /\ CacheKeeps(IP(w))
  BY TypeInvParts, GateAssumption
     DEF PromiseInv, PromisesTyped, RestTyped, WorkersTyped, IP, IPKeeps
<1>2. pc'[w] = "done" /\ req'[w].verdict \in {"allow", "assumed"} /\ pc[w] # pc'[w]
  <2>1. ASSUME NEW v \in Workers, NEW k \in IPs, NEW kind \in Kinds, Request(v, k, kind)
        PROVE  pc'[w] # "done" \/ (pc'[w] = pc[w] /\ req'[w] = req[w])
    BY <1>1, <2>1 DEF Request, WorkersTyped
  <2>2. (\A v \in Workers, k \in IPs, kind \in Kinds : ~Request(v, k, kind))
          => UNCHANGED arrivals
    BY <1>1, WorkerFrame, Zenon DEF PromiseNext, Next, FlightStep, StartFlight, JoinFlight,
       FlightRead, FlightCall, FlightSave, FlightReread, FlightFill, DeleteExpired,
       SweepCache, Tick, Crash, boundVars
  <2> QED  BY <2>1, <2>2 DEF LetsThrough, Arrives, Busy
<1>3. WorkerStep(w)
  <2>1. ASSUME NEW v \in Workers, v # w, WorkerStep(v)
        PROVE  FALSE
    BY <1>1, <1>2, <2>1, WorkerFrame
  <2>2. ASSUME NEW v \in Workers, NEW k \in IPs, NEW kind \in Kinds, Request(v, k, kind)
        PROVE  FALSE
    BY <1>1, <1>2, <2>2 DEF Request, WorkersTyped
  <2>3. ~Crash
    BY <1>2 DEF Crash
  <2>4. ~(DeleteExpired \/ SweepCache \/ Tick \/ \E ip \in IPs : FlightStep(ip))
    BY <1>2, Zenon DEF DeleteExpired, SweepCache, Tick, FlightStep, StartFlight,
       JoinFlight, FlightRead, FlightCall, FlightSave, FlightReread, FlightFill, workerVars
  <2> QED  BY <2>1, <2>2, <2>3, <2>4 DEF PromiseNext, Next
<1>4. owed'[w] = owed[w]
  BY <1>1, <1>3, WorkerHistory
<1>5. ASSUME InForce(IP(w)) PROVE FALSE
  <2>1. pc[w] \in {"l1Get", "dbGet", "fill", "trapRead"} \cup TrapPlaces
    BY <1>1, <1>3, <1>5, WorkerFrame DEF WorkerKeeps, CheckKeeps, Busy
  <2>2. CASE LookInCache(w)
    <3>1. IP(w) \in L1!Cached => VerdictOn(cache[IP(w)]) = "block"
      BY <1>1, <1>5, Lasting DEF CacheKeeps
    <3> QED  BY <1>1, <1>2, <2>2, <3>1 DEF LookInCache, Goto, Answer, WorkersTyped
  <2>3. CASE LookInDatabase(w)
    BY <1>1, <1>2, <2>3
       DEF LookInDatabase, Goto, Answer, WorkersTyped, OnSourceError
  <2>4. CASE FillCache(w)
    <3>1. VerdictOn(req[w].record) = "block"
      BY <1>1, <1>5, <2>4, Lasting DEF FillCache, Goto, WorkerKeeps, CheckKeeps
    <3> QED  BY <1>1, <1>2, <2>4, <3>1 DEF FillCache, Answer, WorkersTyped
  <2>5. CASE TrapStep(w)
    <3>1. \/ \E ok : Answer(w, TrapVerdict(w, ok))
          \/ pc' = [pc EXCEPT ![w] = "trapSave"] \/ pc' = [pc EXCEPT ![w] = "trapReread"]
          \/ pc' = [pc EXCEPT ![w] = "trapFill"]
      BY <2>5, Zenon DEF TrapStep, TrapRead, TrapSave, TrapReread, TrapFill, Goto
    <3>2. \A ok : TrapVerdict(w, ok) \notin {"allow", "assumed"}
      BY DEF TrapVerdict
    <3> QED  BY <1>1, <1>2, <3>1, <3>2 DEF Answer, WorkersTyped
  <2> QED
    BY <1>3, <2>1, <2>2, <2>3, <2>4, <2>5
       DEF WorkerStep, CheckStep, CleanGet, CleanRemove,
       CleanDelete, PassBreaker, AskAbuseIPDB, SaveChecked,
       RereadChecked, RecordFailure, RecordSuccess, Goto, TrapPlaces
<1> QED  BY <1>1, <1>4, <1>5 DEF InForce, WorkerKeeps, OwedKept

LEMMA PromiseKept ==
  ASSUME SourceEnabled, Threshold <= 100
  PROVE  PromiseSpec => [](TypeInv /\ PromiseInv)
<1>1. PromiseSpec => Spec
  <2>1. PromiseInit => Init
    BY DEF PromiseInit
  <2>2. [PromiseNext]_promiseVars => [Next]_gateVars
    BY DEF PromiseNext, promiseVars
  <2> QED  BY <2>1, <2>2, PTL DEF PromiseSpec, Spec
<1>2. PromiseSpec => []TypeInv
  BY <1>1, Sound, PTL
<1>3. TypeInv /\ TypeInv' /\ PromiseInv /\ [PromiseNext]_promiseVars => PromiseInv'
  BY PromiseStep
<1> QED  BY <1>2, <1>3, PromiseStart, PTL DEF PromiseSpec

(* While the block of a trap that nothing overlapped is in force, both     *)
(* tiers hold it, however the requests, reports and clean-ups that come    *)
(* after it overlap: UndisturbedBlockKept.                                 *)
THEOREM BlocksKept ==
  ASSUME SourceEnabled, Threshold <= 100
  PROVE  PromiseSpec => []UndisturbedBlockKept
<1>1. TypeInv /\ PromiseInv => UndisturbedBlockKept
  <2> SUFFICES ASSUME TypeInv, PromiseInv, NEW ip \in IPs, now < undisturbed[ip]
               PROVE  /\ BlocksUntil(db[ip], undisturbed[ip])
                      /\ ip \in L1!Cached => BlocksUntil(cache[ip], undisturbed[ip])
    BY DEF UndisturbedBlockKept
  <2>1. Lasts(ip, db[ip]) /\ (ip \in L1!Cached => Lasts(ip, cache[ip]))
    BY DEF PromiseInv, IPKeeps, TableKeeps, CacheKeeps, InForce
  <2>2. \A r : Lasts(ip, r) => BlocksUntil(r, undisturbed[ip])
    BY DEF Lasts, BlocksUntil, Record, NoRecord
  <2> QED  BY <2>1, <2>2
<1> QED  BY <1>1, PromiseKept, PTL

(* A trap that nothing overlapped is kept: UndisturbedTrapHolds, in every  *)
(* configuration with the AbuseIPDB source and a threshold that a score    *)
(* can reach.  Without the source a check asks nobody and passes; with a   *)
(* larger threshold, which config.go accepts, the record of a trap is no   *)
(* threat to anyone who reads it.                                          *)
THEOREM TrapsHold ==
  ASSUME SourceEnabled, Threshold <= 100
  PROVE  PromiseSpec => UndisturbedTrapHolds
<1>1. TypeInv /\ TypeInv' /\ PromiseInv /\ [PromiseNext]_promiseVars
        => [\A w \in Workers : LetsThrough(w) => now >= owed'[w].undisturbed]_promiseVars
  BY BlockedWhileInForce
<1> QED  BY <1>1, PromiseKept, PTL DEF PromiseSpec, UndisturbedTrapHolds
==============================================================================
