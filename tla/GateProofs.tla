----------------------------- MODULE GateProofs ------------------------------
(***************************************************************************)
(* Proofs about ThreatGate for any IPs, workers, scores and configuration: *)
(* its types, that its L1 stays a sound cache in the hands of all its      *)
(* goroutines, and that only a report that was sent is marked as sent.     *)
(***************************************************************************)
EXTENDS ThreatGate, TLAPS

P == INSTANCE IPCacheProofs WITH
       Records <- Record, Times <- 0..MaxTime, MaxSize <- CacheMaxSize,
       askedAfter <- L1!Order(lru)

-----------------------------------------------------------------------------
(* Types.                                                                  *)
HoldingPlaces == {"save", "reread", "succeed", "fill",
                  "trapSave", "trapReread", "trapFill"}

FlyingPlaces == {"call", "save", "reread", "fill"}

(* Where a goroutine is about to store or to judge a record, it has one.   *)
HeldRecords ==
  /\ \A w \in Workers : pc[w] \in HoldingPlaces => req[w].record \in Record
  /\ \A ip \in IPs : flight[ip].at \in FlyingPlaces => flight[ip].record \in Record

TypeInv == StateTypeOK /\ HeldRecords

(* The same, split by who owns what.                                       *)
WorkersTyped ==
  /\ pc \in [Workers -> Places]
  /\ req \in [Workers -> [kind : {"check", "trap", "report"}, ip : IPs,
                          record : RecordOrNone, verdict : Verdicts]]
  /\ \A w \in Workers : pc[w] \in HoldingPlaces => req[w].record \in Record

FlightsTyped ==
  /\ pending \in [IPs -> Nat]
  /\ flight \in [IPs -> [at : {"none", "read", "call", "save", "reread", "fill"},
                         record : RecordOrNone]]
  /\ reports \in [IPs -> Nat]
  /\ \A ip \in IPs : flight[ip].at \in FlyingPlaces => flight[ip].record \in Record

TableTyped == db \in [IPs -> RecordOrNone]

RestTyped ==
  /\ now \in 0..MaxTime
  /\ cbFailures \in Nat /\ cbLastFailed \in Int
  /\ cleaner \in [at : {"idle", "sweep"}, time : 0..MaxTime]
  /\ arrivals \in Nat /\ faults \in Nat /\ crashes \in Nat

LEMMA TypeInvParts ==
  /\ TypeInv <=> WorkersTyped /\ FlightsTyped /\ TableTyped /\ RestTyped
  /\ TypeInv' <=> WorkersTyped' /\ FlightsTyped' /\ TableTyped' /\ RestTyped'
  BY Zenon DEF TypeInv, StateTypeOK, HeldRecords, WorkersTyped, FlightsTyped,
               TableTyped, RestTyped

LEMMA NoRecordIsNone ==
  /\ NoRecord \in RecordOrNone /\ Record \subseteq RecordOrNone
  /\ \A r \in RecordOrNone : r # NoRecord => r \in Record
  BY DEF RecordOrNone

LEMMA RecordsBuilt ==
  ASSUME RestTyped
  PROVE  /\ TrapRecord \in Record
         /\ \A score \in Scores : CheckedRecord(score) \in Record
<1>1. /\ now + TrapTTL \in 0..Horizon
      /\ now + CheckTTL \in 0..Horizon
  BY GateAssumption DEF RestTyped, Horizon
<1> QED  BY <1>1 DEF TrapRecord, CheckedRecord, Record, StatusOf

LEMMA MarkedIsRecord ==
  ASSUME NEW r \in Record
  PROVE  [r EXCEPT !.reported = TRUE] \in Record
  BY DEF Record

LEMMA VerdictsGiven ==
  /\ \A record : VerdictOn(record) \in Verdicts
  /\ OnSourceError \in Verdicts /\ OnBreakerError \in Verdicts
  /\ \A w, ok : TrapVerdict(w, ok) \in Verdicts
  BY DEF VerdictOn, OnSourceError, OnBreakerError, TrapVerdict, Verdicts

(* A worker moves on with what it holds.                                   *)
LEMMA WorkerGoes ==
  ASSUME WorkersTyped, NEW w \in Workers, NEW from, NEW to \in Places,
         Goto(w, from, to), UNCHANGED req,
         to \in HoldingPlaces => from \in HoldingPlaces
  PROVE  WorkersTyped'
  BY DEF WorkersTyped, Goto

(* It moves on with a record it has just read or built.                    *)
LEMMA WorkerHolds ==
  ASSUME WorkersTyped, NEW w \in Workers, NEW from, NEW to \in Places,
         NEW r \in Record, Goto(w, from, to), Hold(w, r)
  PROVE  WorkersTyped'
  BY NoRecordIsNone DEF WorkersTyped, Goto, Hold

(* It answers, and holds nothing any more.                                 *)
LEMMA WorkerAnswers ==
  ASSUME WorkersTyped, NEW w \in Workers, NEW from, NEW v \in Verdicts,
         Goto(w, from, "done"), Answer(w, v)
  PROVE  WorkersTyped'
  BY NoRecordIsNone DEF WorkersTyped, Goto, Answer, Places, HoldingPlaces

(* The count of faults of a step that may fail.                            *)
LEMMA FaultsCounted ==
  ASSUME faults \in Nat, NoFault \/ Fault
  PROVE  faults' \in Nat
  BY DEF NoFault, Fault

(* Each step of a check keeps the types.                                   *)
LEMMA CheckTypes ==
  ASSUME TypeInv, NEW w \in Workers, CheckStep(w)
  PROVE  TypeInv'
<1>1. /\ WorkersTyped /\ FlightsTyped /\ TableTyped /\ RestTyped
      /\ IP(w) \in IPs
      /\ {"done", "cleanGet", "cleanRemove", "cleanDelete", "dbGet", "admit",
          "ask", "fail"} \subseteq Places \ HoldingPlaces
      /\ {"save", "reread", "succeed", "fill"} \subseteq Places \cap HoldingPlaces
  BY TypeInvParts DEF WorkersTyped, IP, Places, HoldingPlaces
<1> USE <1>1
<1>2. CASE LookInCache(w)
  <2>1. WorkersTyped'
    BY <1>2, WorkerGoes, WorkerAnswers, VerdictsGiven DEF LookInCache
  <2> QED  BY <2>1, <1>2, TypeInvParts DEF LookInCache, FlightsTyped, TableTyped,
             RestTyped, reporterVars, breakerVars, boundVars
<1>3. CASE CleanGet(w)
  <2>1. WorkersTyped'
    BY <1>3, WorkerGoes DEF CleanGet
  <2> QED  BY <2>1, <1>3, TypeInvParts DEF CleanGet, FlightsTyped, TableTyped,
             RestTyped, reporterVars, breakerVars, boundVars
<1>4. CASE CleanRemove(w)
  <2>1. WorkersTyped'
    BY <1>4, WorkerGoes DEF CleanRemove
  <2> QED  BY <2>1, <1>4, TypeInvParts DEF CleanRemove, FlightsTyped, TableTyped,
             RestTyped, reporterVars, breakerVars, boundVars
<1>5. CASE CleanDelete(w)
  <2>1. WorkersTyped'
    BY <1>5, WorkerGoes DEF CleanDelete
  <2> QED  BY <2>1, <1>5, TypeInvParts, NoRecordIsNone
             DEF CleanDelete, NoFault, Fault, FlightsTyped, TableTyped,
                 RestTyped, reporterVars, breakerVars, boundVars
<1>6. CASE LookInDatabase(w)
  <2>1. LiveRow(IP(w)) => db[IP(w)] \in Record
    BY NoRecordIsNone DEF LiveRow, TableTyped
  <2>2. WorkersTyped'
    BY <2>1, <1>6, WorkerGoes, WorkerHolds, WorkerAnswers, VerdictsGiven
       DEF LookInDatabase
  <2> QED  BY <2>2, <1>6, TypeInvParts
             DEF LookInDatabase, NoFault, Fault, FlightsTyped, TableTyped,
                 RestTyped, reporterVars, breakerVars, boundVars
<1>7. CASE PassBreaker(w)
  <2>1. WorkersTyped'
    BY <1>7, WorkerGoes, WorkerAnswers, VerdictsGiven DEF PassBreaker
  <2> QED  BY <2>1, <1>7, TypeInvParts DEF PassBreaker, FlightsTyped, TableTyped,
             RestTyped, reporterVars, breakerVars, boundVars
<1>8. CASE AskAbuseIPDB(w)
  <2>1. WorkersTyped'
    BY <1>8, RecordsBuilt, WorkerGoes, WorkerHolds DEF AskAbuseIPDB
  <2> QED  BY <2>1, <1>8, TypeInvParts
             DEF AskAbuseIPDB, NoFault, Fault, FlightsTyped, TableTyped,
                 RestTyped, reporterVars, breakerVars, boundVars
<1>9. CASE SaveChecked(w)
  <2>1. WorkersTyped'
    BY <1>9, WorkerGoes DEF SaveChecked, HoldingPlaces
  <2>2. TableTyped'
    BY <1>9, NoRecordIsNone DEF SaveChecked, Goto, TableTyped, WorkersTyped,
                                HoldingPlaces
  <2> QED  BY <2>1, <2>2, <1>9, TypeInvParts
             DEF SaveChecked, NoFault, Fault, FlightsTyped,
                 RestTyped, reporterVars, breakerVars, boundVars
<1>10. CASE RereadChecked(w)
  <2>1. db[IP(w)] # NoRecord => db[IP(w)] \in Record
    BY NoRecordIsNone DEF TableTyped
  <2>2. WorkersTyped'
    BY <2>1, <1>10, WorkerGoes, WorkerHolds DEF RereadChecked
  <2> QED  BY <2>2, <1>10, TypeInvParts
             DEF RereadChecked, NoFault, Fault, FlightsTyped, TableTyped,
                 RestTyped, reporterVars, breakerVars, boundVars
<1>11. CASE RecordFailure(w)
  <2>1. WorkersTyped'
    BY <1>11, WorkerAnswers, VerdictsGiven DEF RecordFailure
  <2> QED  BY <2>1, <1>11, TypeInvParts DEF RecordFailure, FlightsTyped,
             TableTyped, RestTyped, reporterVars, boundVars
<1>12. CASE RecordSuccess(w)
  <2>1. WorkersTyped'
    BY <1>12, WorkerGoes DEF RecordSuccess, HoldingPlaces
  <2> QED  BY <2>1, <1>12, TypeInvParts DEF RecordSuccess, FlightsTyped,
             TableTyped, RestTyped, reporterVars, boundVars
<1>13. CASE FillCache(w)
  <2>1. WorkersTyped'
    BY <1>13, WorkerAnswers, VerdictsGiven DEF FillCache
  <2> QED  BY <2>1, <1>13, TypeInvParts DEF FillCache, FlightsTyped, TableTyped,
             RestTyped, reporterVars, breakerVars, boundVars
<1> QED
  BY <1>2, <1>3, <1>4, <1>5, <1>6, <1>7, <1>8, <1>9, <1>10, <1>11, <1>12, <1>13
     DEF CheckStep

LEMMA TrapTypes ==
  ASSUME TypeInv, NEW w \in Workers, TrapStep(w)
  PROVE  TypeInv'
<1>1. /\ WorkersTyped /\ FlightsTyped /\ TableTyped /\ RestTyped
      /\ IP(w) \in IPs
      /\ "done" \in Places \ HoldingPlaces
      /\ {"trapSave", "trapReread", "trapFill"} \subseteq Places \cap HoldingPlaces
  BY TypeInvParts DEF WorkersTyped, IP, Places, HoldingPlaces
<1> USE <1>1
<1>2. CASE TrapRead(w)
  <2>1. WorkersTyped'
    BY <1>2, RecordsBuilt, WorkerHolds, WorkerAnswers, VerdictsGiven DEF TrapRead
  <2>3. NoFault \/ Fault
    BY <1>2, Zenon DEF TrapRead
  <2>4. UNCHANGED <<db, now, breakerVars, reporterVars, cleaner, boundVars>>
    BY <1>2, Zenon DEF TrapRead
  <2> QED  BY <2>1, <2>3, <2>4, TypeInvParts, FaultsCounted
             DEF FlightsTyped, TableTyped, RestTyped, reporterVars, breakerVars, boundVars
<1>3. CASE TrapSave(w)
  <2>1. WorkersTyped'
    BY <1>3, WorkerGoes, WorkerAnswers, VerdictsGiven DEF TrapSave, HoldingPlaces
  <2>2. TableTyped'
    BY <1>3, NoRecordIsNone DEF TrapSave, Goto, TableTyped, WorkersTyped,
                                HoldingPlaces
  <2>3. NoFault \/ Fault
    BY <1>3, Zenon DEF TrapSave
  <2>4. UNCHANGED <<now, breakerVars, reporterVars, cleaner, boundVars>>
    BY <1>3, Zenon DEF TrapSave
  <2> QED  BY <2>2, <2>1, <2>3, <2>4, TypeInvParts, FaultsCounted
             DEF FlightsTyped, RestTyped, reporterVars, breakerVars, boundVars
<1>4. CASE TrapReread(w)
  <2>1. WorkersTyped'
    BY <1>4, WorkerGoes, WorkerAnswers, VerdictsGiven DEF TrapReread, HoldingPlaces
  <2>3. NoFault \/ Fault
    BY <1>4, Zenon DEF TrapReread
  <2>4. UNCHANGED <<db, now, breakerVars, reporterVars, cleaner, boundVars>>
    BY <1>4, Zenon DEF TrapReread
  <2> QED  BY <2>1, <2>3, <2>4, TypeInvParts, FaultsCounted
             DEF FlightsTyped, TableTyped, RestTyped, reporterVars, breakerVars, boundVars
<1>5. CASE TrapFill(w)
  <2>1. WorkersTyped'
    BY <1>5, WorkerAnswers, VerdictsGiven DEF TrapFill
  <2>2. FlightsTyped'
    BY <1>5 DEF TrapFill, FlightsTyped
  <2> QED  BY <2>1, <2>2, <1>5, TypeInvParts DEF TrapFill, TableTyped,
             RestTyped, breakerVars, boundVars
<1> QED
  BY <1>2, <1>3, <1>4, <1>5 DEF TrapStep

LEMMA FlightTypes ==
  ASSUME TypeInv, NEW ip \in IPs, FlightStep(ip)
  PROVE  TypeInv'
<1>1. WorkersTyped /\ FlightsTyped /\ TableTyped /\ RestTyped
  BY TypeInvParts
<1> USE <1>1
<1>2. CASE StartFlight(ip)
  <2>2. FlightsTyped'
    BY <1>2, NoRecordIsNone DEF StartFlight, FlightTo, FlightsTyped, FlyingPlaces
  <2>4. UNCHANGED <<db, now, breakerVars, workerVars, cleaner, boundVars, faults>>
    BY <1>2, Zenon DEF StartFlight
  <2> QED  BY <2>2, <2>4, TypeInvParts
             DEF WorkersTyped, TableTyped, RestTyped, workerVars, breakerVars, boundVars
<1>3. CASE JoinFlight(ip)
  <2>2. FlightsTyped'
    BY <1>3, NoRecordIsNone DEF JoinFlight, FlightsTyped, FlyingPlaces
  <2>4. UNCHANGED <<db, now, breakerVars, workerVars, cleaner, boundVars, faults>>
    BY <1>3, Zenon DEF JoinFlight
  <2> QED  BY <2>2, <2>4, TypeInvParts
             DEF WorkersTyped, TableTyped, RestTyped, workerVars, breakerVars, boundVars
<1>4. CASE FlightRead(ip)
  <2>2. FlightsTyped'
    BY <1>4, NoRecordIsNone DEF FlightRead, EndFlight, NoFlight, TableTyped, FlightsTyped, FlyingPlaces
  <2>3. NoFault \/ Fault
    BY <1>4, Zenon DEF FlightRead
  <2>4. UNCHANGED <<db, now, breakerVars, workerVars, cleaner, boundVars>>
    BY <1>4, Zenon DEF FlightRead
  <2> QED  BY <2>2, <2>3, <2>4, TypeInvParts, FaultsCounted
             DEF WorkersTyped, TableTyped, RestTyped, workerVars, breakerVars, boundVars
<1>5. CASE FlightCall(ip)
  <2>2. FlightsTyped'
    BY <1>5, NoRecordIsNone DEF FlightCall, EndFlight, NoFlight, FlightsTyped, FlyingPlaces
  <2>3. NoFault \/ Fault
    BY <1>5, Zenon DEF FlightCall
  <2>4. UNCHANGED <<db, now, breakerVars, workerVars, cleaner, boundVars>>
    BY <1>5, Zenon DEF FlightCall
  <2> QED  BY <2>2, <2>3, <2>4, TypeInvParts, FaultsCounted
             DEF WorkersTyped, TableTyped, RestTyped, workerVars, breakerVars, boundVars
<1>6. CASE FlightSave(ip)
  <2>0. flight[ip].record \in Record
    BY <1>6 DEF FlightSave, FlightsTyped, FlyingPlaces
  <2>1. Marked(ip) \in Record
    BY <2>0, MarkedIsRecord DEF Marked
  <2>2. FlightsTyped' /\ TableTyped'
    BY <2>1, <1>6, NoRecordIsNone DEF FlightSave, EndFlight, NoFlight, FlightsTyped,
                                      FlyingPlaces, TableTyped
  <2>3. NoFault \/ Fault
    BY <1>6, Zenon DEF FlightSave
  <2>4. UNCHANGED <<now, breakerVars, workerVars, cleaner, boundVars>>
    BY <1>6, Zenon DEF FlightSave
  <2> QED  BY <2>2, <2>3, <2>4, TypeInvParts, FaultsCounted
             DEF WorkersTyped, RestTyped, workerVars, breakerVars, boundVars
<1>7. CASE FlightReread(ip)
  <2>2. FlightsTyped'
    BY <1>7, NoRecordIsNone DEF FlightReread, FlightTo, EndFlight, NoFlight, FlightsTyped, FlyingPlaces
  <2>3. NoFault \/ Fault
    BY <1>7, Zenon DEF FlightReread
  <2>4. UNCHANGED <<db, now, breakerVars, workerVars, cleaner, boundVars>>
    BY <1>7, Zenon DEF FlightReread
  <2> QED  BY <2>2, <2>3, <2>4, TypeInvParts, FaultsCounted
             DEF WorkersTyped, TableTyped, RestTyped, workerVars, breakerVars, boundVars
<1>8. CASE FlightFill(ip)
  <2>2. FlightsTyped'
    BY <1>8, NoRecordIsNone DEF FlightFill, EndFlight, NoFlight, FlightsTyped, FlyingPlaces
  <2>4. UNCHANGED <<db, now, breakerVars, workerVars, cleaner, boundVars, faults>>
    BY <1>8, Zenon DEF FlightFill
  <2> QED  BY <2>2, <2>4, TypeInvParts
             DEF WorkersTyped, TableTyped, RestTyped, workerVars, breakerVars, boundVars
<1> QED
  BY <1>2, <1>3, <1>4, <1>5, <1>6, <1>7, <1>8 DEF FlightStep

LEMMA OtherTypes ==
  ASSUME TypeInv,
         \/ \E w \in Workers, ip \in IPs, kind \in Kinds : Request(w, ip, kind)
         \/ DeleteExpired \/ SweepCache \/ Tick \/ Crash
  PROVE  TypeInv'
<1>1. WorkersTyped /\ FlightsTyped /\ TableTyped /\ RestTyped
  BY TypeInvParts
<1> USE <1>1
<1>2. CASE \E w \in Workers, ip \in IPs, kind \in Kinds : Request(w, ip, kind)
  <2> PICK w \in Workers, ip \in IPs, kind \in Kinds : Request(w, ip, kind)
    BY <1>2
  <2>1. WorkersTyped'
    BY NoRecordIsNone, GateAssumption
       DEF Request, WorkersTyped, Places, HoldingPlaces, Verdicts
  <2>2. FlightsTyped' /\ TableTyped' /\ RestTyped'
    BY DEF Request, FlightsTyped, TableTyped, RestTyped, reporterVars,
           breakerVars
  <2> QED  BY <2>1, <2>2, TypeInvParts
<1>3. CASE DeleteExpired
  <2>1. TableTyped'
    BY <1>3, NoRecordIsNone DEF DeleteExpired, TableTyped
  <2>2. NoFault \/ Fault
    BY <1>3, Zenon DEF DeleteExpired
  <2>3. cleaner' = [at |-> "sweep", time |-> now]
    BY <1>3, Zenon DEF DeleteExpired
  <2>4. UNCHANGED <<now, breakerVars, workerVars, reporterVars, boundVars>>
    BY <1>3, Zenon DEF DeleteExpired
  <2> QED  BY <2>1, <2>2, <2>3, <2>4, TypeInvParts, FaultsCounted
             DEF WorkersTyped, FlightsTyped, RestTyped, workerVars, reporterVars,
                 breakerVars, boundVars
<1>4. CASE SweepCache
  <2>1. cleaner' = [at |-> "idle", time |-> 0]
    BY <1>4, Zenon DEF SweepCache
  <2>2. UNCHANGED <<db, now, breakerVars, workerVars, reporterVars, boundVars,
                    faults>>
    BY <1>4, Zenon DEF SweepCache
  <2> QED  BY <2>1, <2>2, TypeInvParts, GateAssumption
             DEF WorkersTyped, FlightsTyped, TableTyped, RestTyped, workerVars,
                 reporterVars, breakerVars, boundVars
<1>5. CASE Tick
  BY <1>5, TypeInvParts, GateAssumption
     DEF Tick, WorkersTyped, FlightsTyped, TableTyped, RestTyped, workerVars,
         reporterVars, breakerVars, boundVars
<1>6. CASE Crash
  <2>1. NoRequest \in [kind : {"check", "trap", "report"}, ip : IPs,
                       record : RecordOrNone, verdict : Verdicts]
    BY GateAssumption, NoRecordIsNone DEF NoRequest, Verdicts
  <2>2. WorkersTyped'
    BY <2>1, <1>6 DEF Crash, WorkersTyped, Places, HoldingPlaces
  <2>3. FlightsTyped'
    BY <1>6, NoRecordIsNone DEF Crash, FlightsTyped, NoFlight, FlyingPlaces
  <2>4. TableTyped' /\ RestTyped'
    BY <1>6, GateAssumption DEF Crash, TableTyped, RestTyped
  <2> QED  BY <2>2, <2>3, <2>4, TypeInvParts
<1> QED  BY <1>2, <1>3, <1>4, <1>5, <1>6

LEMMA InitTypes == Init => TypeInv
<1> SUFFICES ASSUME Init PROVE TypeInv
  OBVIOUS
<1>1. NoRequest \in [kind : {"check", "trap", "report"}, ip : IPs,
                     record : RecordOrNone, verdict : Verdicts]
  BY GateAssumption, NoRecordIsNone DEF NoRequest, Verdicts
<1>2. WorkersTyped
  BY <1>1 DEF Init, WorkersTyped, Places, HoldingPlaces
<1>3. FlightsTyped
  BY NoRecordIsNone DEF Init, FlightsTyped, NoFlight, FlyingPlaces
<1>4. TableTyped /\ RestTyped
  BY NoRecordIsNone, GateAssumption DEF Init, TableTyped, RestTyped
<1> QED  BY <1>2, <1>3, <1>4, TypeInvParts

LEMMA TypeStep == TypeInv /\ [Next]_gateVars => TypeInv'
<1> SUFFICES ASSUME TypeInv, [Next]_gateVars PROVE TypeInv'
  OBVIOUS
<1>1. CASE UNCHANGED gateVars
  BY <1>1, TypeInvParts
     DEF gateVars, WorkersTyped, FlightsTyped, TableTyped, RestTyped, workerVars,
         reporterVars, breakerVars, boundVars
<1>2. CASE Next
  BY <1>2, CheckTypes, TrapTypes, FlightTypes, OtherTypes DEF Next, WorkerStep
<1> QED  BY <1>1, <1>2

LEMMA Typed == Spec => []TypeInv
  BY InitTypes, TypeStep, PTL DEF Spec

-----------------------------------------------------------------------------
(* L1.  The operations the gate calls are those the proofs of the cache    *)
(* are about, each with records and times of the gate.                     *)
LEMMA SameCache ==
  /\ P!CacheAssumption
  /\ L1!CacheInv <=> P!CacheInv
  /\ L1!Cached = P!Cached
  /\ L1!NewIPCache <=> P!NewIPCache
<1>1. P!CacheAssumption
  BY GateAssumption DEF P!CacheAssumption, Record, Horizon
<1> QED
  BY <1>1 DEF L1!CacheInv, P!CacheInv, L1!Cached, P!Cached,
     L1!CacheTypeOK, P!CacheTypeOK, L1!LruListsCache, P!LruListsCache,
     L1!IsListing, P!IsListing, L1!Range, P!Range,
     L1!ThreatCountExact, P!ThreatCountExact, L1!Threats, P!Threats,
     L1!IsThreat, P!IsThreat, L1!Cardinality, P!Cardinality,
     L1!CacheBounded, P!CacheBounded, L1!Capacity, P!Capacity,
     L1!NewIPCache, P!NewIPCache

LEMMA SameGet ==
  ASSUME NEW ip, L1!Get(ip)
  PROVE  P!Get(ip)
  BY DEF L1!Get, P!Get, L1!MoveToFront, P!MoveToFront, L1!Unlinked, P!Unlinked,
     L1!Lists!RemoveAt, P!Lists!RemoveAt, L1!Cached, P!Cached, L1!cacheVars,
     P!cacheVars

LEMMA SameSet ==
  ASSUME NEW ip, NEW record, L1!Set(ip, record)
  PROVE  P!Set(ip, record)
  BY DEF L1!Set, P!Set, L1!Overwrite, P!Overwrite, L1!Insert, P!Insert,
     L1!MoveToFront, P!MoveToFront, L1!Unlinked, P!Unlinked,
     L1!Lists!RemoveAt, P!Lists!RemoveAt, L1!Cached, P!Cached,
     L1!Weight, P!Weight, L1!IsThreat, P!IsThreat, L1!Threats, P!Threats,
     L1!Victims, P!Victims, L1!Lists!Last, P!Lists!Last,
     L1!Lists!Front, P!Lists!Front, L1!Cardinality, P!Cardinality

LEMMA SameRemove ==
  ASSUME NEW ip, L1!Remove(ip)
  PROVE  P!Remove(ip)
  BY DEF L1!Remove, P!Remove, L1!Unlinked, P!Unlinked,
     L1!Lists!RemoveAt, P!Lists!RemoveAt, L1!Cached, P!Cached,
     L1!Weight, P!Weight, L1!IsThreat, P!IsThreat, L1!Restrict, P!Restrict,
     L1!cacheVars, P!cacheVars

LEMMA SameRemoveExpired ==
  ASSUME NEW time, L1!RemoveExpired(time)
  PROVE  P!RemoveExpired(time)
  BY DEF L1!RemoveExpired, P!RemoveExpired, L1!ExpiredAt, P!ExpiredAt,
     L1!Cached, P!Cached, L1!Threats, P!Threats, L1!IsThreat, P!IsThreat,
     L1!Restrict, P!Restrict, L1!Cardinality, P!Cardinality,
     L1!Survivors, P!Survivors, L1!Order, P!Order, L1!Range, P!Range,
     L1!Injection, P!Injection, L1!IsInjective, P!IsInjective

(* What a step of the gate may do to L1.                                   *)
CacheCalled ==
  \/ UNCHANGED l1Vars
  \/ \E ip \in IPs : L1!Get(ip) \/ L1!Remove(ip)
  \/ \E ip \in IPs, record \in Record : L1!Set(ip, record)
  \/ \E time \in 0..MaxTime : L1!RemoveExpired(time)

CacheLost == cache' = <<>> /\ lru' = <<>> /\ threatCount' = 0

LEMMA GateCallsCache ==
  ASSUME TypeInv, [Next]_gateVars
  PROVE  CacheCalled \/ CacheLost
<1>1. WorkersTyped /\ FlightsTyped /\ RestTyped
  BY TypeInvParts
<1>2. ASSUME NEW w \in Workers, WorkerStep(w)
      PROVE  CacheCalled
  <2>1. IP(w) \in IPs
    BY <1>1 DEF WorkersTyped, IP
  <2>2. CASE LookInCache(w) \/ CleanGet(w)
    BY <2>1, <2>2 DEF LookInCache, CleanGet, CacheCalled
  <2>3. CASE CleanRemove(w)
    BY <2>1, <2>3 DEF CleanRemove, CacheCalled
  <2>4. CASE FillCache(w)
    <3>1. req[w].record \in Record
      BY <1>1, <2>4 DEF FillCache, Goto, WorkersTyped, HoldingPlaces
    <3> QED  BY <2>1, <2>4, <3>1 DEF FillCache, CacheCalled
  <2>5. CASE TrapFill(w)
    <3>1. req[w].record \in Record
      BY <1>1, <2>5 DEF TrapFill, Goto, WorkersTyped, HoldingPlaces
    <3> QED  BY <2>1, <2>5, <3>1 DEF TrapFill, SetCaches, CacheCalled
  <2>6. CASE CleanDelete(w) \/ LookInDatabase(w) \/ PassBreaker(w)
               \/ AskAbuseIPDB(w) \/ SaveChecked(w) \/ RereadChecked(w)
               \/ RecordFailure(w) \/ RecordSuccess(w)
               \/ TrapRead(w) \/ TrapSave(w) \/ TrapReread(w)
    BY <2>6, Zenon
       DEF CleanDelete, LookInDatabase, PassBreaker, AskAbuseIPDB, SaveChecked,
           RereadChecked, RecordFailure, RecordSuccess, TrapRead, TrapSave,
           TrapReread, CacheCalled
  <2> QED
    BY <1>2, <2>2, <2>3, <2>4, <2>5, <2>6 DEF WorkerStep, CheckStep, TrapStep
<1>3. ASSUME NEW ip \in IPs, FlightStep(ip)
      PROVE  CacheCalled
  <2>1. CASE FlightFill(ip)
    <3>1. flight[ip].record \in Record
      BY <1>1, <2>1 DEF FlightFill, FlightsTyped, FlyingPlaces
    <3> QED  BY <2>1, <3>1 DEF FlightFill, SetCaches, CacheCalled
  <2>2. CASE StartFlight(ip) \/ JoinFlight(ip) \/ FlightRead(ip) \/ FlightCall(ip)
               \/ FlightSave(ip) \/ FlightReread(ip)
    BY <2>2, Zenon DEF StartFlight, JoinFlight, FlightRead, FlightCall, FlightSave,
                       FlightReread, CacheCalled
  <2> QED  BY <1>3, <2>1, <2>2 DEF FlightStep
<1>4. SweepCache => CacheCalled
  BY <1>1 DEF SweepCache, RestTyped, CacheCalled
<1>5. ASSUME NEW w \in Workers, NEW ip \in IPs, NEW kind \in Kinds,
             Request(w, ip, kind)
      PROVE  CacheCalled
  BY <1>5, Zenon DEF Request, CacheCalled
<1>6. DeleteExpired \/ Tick => CacheCalled
  BY Zenon DEF DeleteExpired, Tick, CacheCalled
<1>7. UNCHANGED gateVars => CacheCalled
  BY DEF gateVars, CacheCalled
<1>8. Crash => CacheLost
  BY DEF Crash, CacheLost
<1> QED
  BY <1>2, <1>3, <1>4, <1>5, <1>6, <1>7, <1>8 DEF Next

LEMMA EmptyCacheSound == ((P!NewIPCache)' => (P!IInv)')
<1>1. P!NewIPCache => P!IInv
  BY SameCache, P!InitIInv
<1> QED  BY <1>1, PTL

LEMMA CacheKept ==
  ASSUME TypeInv, P!IInv, [Next]_gateVars
  PROVE  (P!IInv)'
<1>1. CASE CacheLost
  <2>1. (P!NewIPCache)'
    BY <1>1 DEF CacheLost, P!NewIPCache
  <2> QED  BY <2>1, EmptyCacheSound
<1>2. CASE UNCHANGED l1Vars
  <2>1. UNCHANGED P!cacheVars
    BY <1>2 DEF l1Vars, P!cacheVars
  <2> QED  BY <2>1, SameCache, P!NextStep
<1>3. ASSUME NEW ip \in IPs, L1!Get(ip)
      PROVE  (P!IInv)'
  BY <1>3, SameGet, SameCache, P!GetStep
<1>4. ASSUME NEW ip \in IPs, L1!Remove(ip)
      PROVE  (P!IInv)'
  BY <1>4, SameRemove, SameCache, P!RemoveStep
<1>5. ASSUME NEW ip \in IPs, NEW record \in Record, L1!Set(ip, record)
      PROVE  (P!IInv)'
  BY <1>5, SameSet, SameCache, P!OverwriteStep, P!InsertStep DEF P!Set
<1>6. ASSUME NEW time \in 0..MaxTime, L1!RemoveExpired(time)
      PROVE  (P!IInv)'
  <2>1. time \in Int
    BY <1>6, GateAssumption
  <2> QED  BY <1>6, <2>1, SameRemoveExpired, SameCache, P!RemoveExpiredStep
<1> QED
  BY <1>1, <1>2, <1>3, <1>4, <1>5, <1>6, GateCallsCache DEF CacheCalled

(* Every reachable state is typed, and its L1 and the prover's are sound.  *)
LEMMA Sound == Spec => [](TypeInv /\ P!IInv)
<1>1. Init => TypeInv /\ P!IInv
  BY InitTypes, SameCache, P!InitIInv DEF Init
<1>2. TypeInv /\ P!IInv /\ [Next]_gateVars => TypeInv' /\ (P!IInv)'
  BY TypeStep, CacheKept
<1> QED  BY <1>1, <1>2, PTL DEF Spec

(* Every variable of the gate, its L1 included, keeps its type.            *)
THEOREM GateTypes == Spec => []GateTypeOK
<1>1. TypeInv /\ P!IInv => GateTypeOK
  BY SameCache DEF TypeInv, GateTypeOK, P!IInv, L1!CacheInv
<1> QED  BY <1>1, Sound, PTL

-----------------------------------------------------------------------------
(* Reports.  A record is marked only after its report was taken, and then  *)
(* travels: from the call to the table, from the table to a goroutine that *)
(* reads it, and from either to L1.  The invariant follows it everywhere.  *)
Sent(ip, record) == record # NoRecord /\ record.reported => reports[ip] > 0

TableSent == \A ip \in IPs : Sent(ip, db[ip])
CacheSent == \A ip \in L1!Cached : Sent(ip, cache[ip])
HeldSent == \A w \in Workers : Sent(IP(w), req[w].record)
FlightSent ==
  \A ip \in IPs :
    /\ Sent(ip, flight[ip].record)
    /\ flight[ip].at \in {"save", "reread", "fill"} => reports[ip] > 0

AllSent == TableSent /\ CacheSent /\ HeldSent /\ FlightSent

LEMMA NotReported ==
  \A ip : /\ Sent(ip, NoRecord) /\ Sent(ip, TrapRecord)
          /\ \A score : Sent(ip, CheckedRecord(score))
  BY DEF Sent, TrapRecord, CheckedRecord

(* What a worker goes on to hold.                                          *)
LEMMA HoldSent ==
  ASSUME WorkersTyped, HeldSent, UNCHANGED reports, NEW w \in Workers,
         NEW r, Sent(IP(w), r), Hold(w, r)
  PROVE  HeldSent'
  BY DEF WorkersTyped, HeldSent, Sent, IP, Hold

LEMMA AnswerSent ==
  ASSUME WorkersTyped, HeldSent, UNCHANGED reports, NEW w \in Workers,
         NEW v, Answer(w, v)
  PROVE  HeldSent'
  BY DEF WorkersTyped, HeldSent, Sent, IP, Answer

LEMMA KeepSent ==
  ASSUME HeldSent, UNCHANGED <<reports, req>>
  PROVE  HeldSent'
  BY DEF HeldSent, Sent, IP

(* What a step leaves in the table.                                        *)
LEMMA StoreSent ==
  ASSUME TableTyped, TableSent, UNCHANGED reports, NEW ip \in IPs,
         NEW r, Sent(ip, r), db' = [db EXCEPT ![ip] = r]
  PROVE  TableSent'
  BY DEF TableTyped, TableSent, Sent

LEMMA TableKeepSent ==
  ASSUME TableSent, UNCHANGED <<db, reports>>
  PROVE  TableSent'
  BY DEF TableSent, Sent

(* What a step leaves in L1.                                               *)
LEMMA FillSent ==
  ASSUME CacheSent, UNCHANGED reports, NEW ip, NEW r, Sent(ip, r),
         L1!Set(ip, r)
  PROVE  CacheSent'
<1>1. \A k \in (P!Cached)' : \/ k = ip /\ cache'[k] = r
                             \/ k \in P!Cached /\ cache'[k] = cache[k]
  BY SameSet, P!SetContents, SameCache
<1> QED  BY <1>1 DEF CacheSent, L1!Cached, P!Cached, Sent

LEMMA CacheKeepSent ==
  ASSUME CacheSent, UNCHANGED reports, NEW ip, NEW time,
         L1!Get(ip) \/ L1!Remove(ip) \/ L1!RemoveExpired(time) \/ UNCHANGED l1Vars
  PROVE  CacheSent'
<1>1. P!Get(ip) \/ P!Remove(ip) \/ P!RemoveExpired(time) \/ UNCHANGED P!cacheVars
  BY SameGet, SameRemove, SameRemoveExpired DEF l1Vars, P!cacheVars
<1>2. \A k \in (P!Cached)' : k \in P!Cached /\ cache'[k] = cache[k]
  BY <1>1, P!OtherContents, SameCache
<1> QED  BY <1>2 DEF CacheSent, L1!Cached, P!Cached, Sent

LEMMA FlightKeepSent ==
  ASSUME FlightSent, UNCHANGED <<flight, reports>>
  PROVE  FlightSent'
  BY DEF FlightSent, Sent

LEMMA CheckSent ==
  ASSUME TypeInv, AllSent, NEW w \in Workers, CheckStep(w)
  PROVE  AllSent'
<1>1. /\ WorkersTyped /\ TableTyped /\ IP(w) \in IPs
      /\ TableSent /\ CacheSent /\ HeldSent /\ FlightSent
      /\ Sent(IP(w), db[IP(w)]) /\ Sent(IP(w), req[w].record)
  BY TypeInvParts DEF WorkersTyped, IP, AllSent, TableSent, HeldSent
<1> USE <1>1
<1>2. UNCHANGED <<flight, reports>>
  BY Zenon DEF CheckStep, LookInCache, CleanGet, CleanRemove, CleanDelete,
     LookInDatabase, PassBreaker, AskAbuseIPDB, SaveChecked, RereadChecked,
     RecordFailure, RecordSuccess, FillCache, reporterVars
<1>3. UNCHANGED reports /\ FlightSent'
  BY <1>2, FlightKeepSent
<1>4. HeldSent'
  <2>1. CASE UNCHANGED req
    BY <1>3, <2>1, KeepSent
  <2>2. CASE \E v : Answer(w, v)
    BY <1>3, <2>2, AnswerSent
  <2>3. CASE Hold(w, db[IP(w)])
    BY <1>3, <2>3, HoldSent
  <2>4. CASE \E score \in Scores : Hold(w, CheckedRecord(score))
    BY <1>3, <2>4, HoldSent, NotReported
  <2> QED
    BY <2>1, <2>2, <2>3, <2>4, Zenon
    DEF CheckStep, LookInCache, CleanGet, CleanRemove, CleanDelete,
        LookInDatabase, PassBreaker, AskAbuseIPDB, SaveChecked, RereadChecked,
        RecordFailure, RecordSuccess, FillCache
<1>5. TableSent'
  <2>1. CASE UNCHANGED db
    BY <1>3, <2>1, TableKeepSent
  <2>2. CASE db' = [db EXCEPT ![IP(w)] = NoRecord]
    BY <1>3, <2>2, StoreSent, NotReported
  <2>3. CASE db' = [db EXCEPT ![IP(w)] = req[w].record]
    BY <1>3, <2>3, StoreSent
  <2> QED
    BY <2>1, <2>2, <2>3, Zenon
    DEF CheckStep, LookInCache, CleanGet, CleanRemove, CleanDelete,
        LookInDatabase, PassBreaker, AskAbuseIPDB, SaveChecked, RereadChecked,
        RecordFailure, RecordSuccess, FillCache
<1>6. CacheSent'
  <2>1. CASE L1!Get(IP(w)) \/ L1!Remove(IP(w)) \/ UNCHANGED l1Vars
    BY <1>3, <2>1, CacheKeepSent
  <2>2. CASE L1!Set(IP(w), req[w].record)
    BY <1>3, <2>2, FillSent
  <2> QED
    BY <2>1, <2>2, Zenon
    DEF CheckStep, LookInCache, CleanGet, CleanRemove, CleanDelete,
        LookInDatabase, PassBreaker, AskAbuseIPDB, SaveChecked, RereadChecked,
        RecordFailure, RecordSuccess, FillCache
<1> QED  BY <1>3, <1>4, <1>5, <1>6 DEF AllSent

LEMMA TrapSent ==
  ASSUME TypeInv, AllSent, NEW w \in Workers, TrapStep(w)
  PROVE  AllSent'
<1>1. /\ WorkersTyped /\ TableTyped /\ IP(w) \in IPs
      /\ TableSent /\ CacheSent /\ HeldSent /\ FlightSent
      /\ Sent(IP(w), req[w].record)
  BY TypeInvParts DEF WorkersTyped, IP, AllSent, HeldSent
<1> USE <1>1
<1>2. UNCHANGED <<flight, reports>>
  BY Zenon DEF TrapStep, TrapRead, TrapSave, TrapReread, TrapFill, reporterVars
<1>3. UNCHANGED reports /\ FlightSent'
  BY <1>2, FlightKeepSent
<1>4. HeldSent'
  <2>1. CASE UNCHANGED req
    BY <1>3, <2>1, KeepSent
  <2>2. CASE \E v : Answer(w, v)
    BY <1>3, <2>2, AnswerSent
  <2>3. CASE Hold(w, TrapRecord)
    BY <1>3, <2>3, HoldSent, NotReported
  <2> QED
    BY <2>1, <2>2, <2>3, Zenon DEF TrapStep, TrapRead, TrapSave, TrapReread, TrapFill
<1>5. TableSent'
  <2>1. CASE UNCHANGED db
    BY <1>3, <2>1, TableKeepSent
  <2>2. CASE db' = [db EXCEPT ![IP(w)] = req[w].record]
    BY <1>3, <2>2, StoreSent
  <2> QED
    BY <2>1, <2>2, Zenon DEF TrapStep, TrapRead, TrapSave, TrapReread, TrapFill
<1>6. CacheSent'
  <2>1. CASE UNCHANGED l1Vars
    BY <1>3, <2>1, CacheKeepSent
  <2>2. CASE L1!Set(IP(w), req[w].record)
    BY <1>3, <2>2, FillSent
  <2> QED
    BY <2>1, <2>2, Zenon
    DEF TrapStep, TrapRead, TrapSave, TrapReread, TrapFill, SetCaches
<1> QED  BY <1>3, <1>4, <1>5, <1>6 DEF AllSent

(* FlightCall is where a report is made, FlightSave where it is marked.    *)
LEMMA FlightStepSent ==
  ASSUME TypeInv, P!IInv, AllSent, NEW ip \in IPs, FlightStep(ip)
  PROVE  AllSent'
<1>1. /\ WorkersTyped /\ FlightsTyped /\ TableTyped
      /\ TableSent /\ CacheSent /\ HeldSent /\ FlightSent
  BY TypeInvParts DEF AllSent
<1> USE <1>1
<1>2. CASE FlightCall(ip)
  <2>1. \A k \in IPs : reports[k] > 0 => reports'[k] > 0
    BY <1>2 DEF FlightCall, FlightsTyped
  <2>2. UNCHANGED <<cache, db, req>>
    BY <1>2, Zenon DEF FlightCall, l1Vars, workerVars
  <2>3. L1!Cached \subseteq IPs
    BY SameCache, P!Facts
  <2>4. TableSent' /\ HeldSent'
    BY <2>1, <2>2 DEF TableSent, HeldSent, Sent, IP, WorkersTyped
  <2>5. FlightSent'
    BY <1>2, <2>1 DEF FlightCall, FlightSent, EndFlight, NoFlight, Sent, FlightsTyped
  <2>6. CacheSent'
    BY <2>1, <2>2, <2>3 DEF CacheSent, Sent, L1!Cached
  <2> QED  BY <2>4, <2>5, <2>6 DEF AllSent
<1>3. CASE FlightSave(ip)
  <2>1. UNCHANGED <<cache, req, reports>>
    BY <1>3, Zenon DEF FlightSave, l1Vars, workerVars
  <2>2. Sent(ip, Marked(ip))
    BY <1>3 DEF FlightSave, FlightSent, Sent
  <2>3. TableSent'
    BY <1>3, <2>1, <2>2, StoreSent, TableKeepSent DEF FlightSave
  <2>4. FlightSent'
    BY <1>3, <2>1, <2>2 DEF FlightSave, FlightSent, EndFlight, NoFlight, Sent, FlightsTyped
  <2> QED  BY <2>1, <2>3, <2>4, KeepSent, CacheKeepSent DEF AllSent, CacheSent, Sent, L1!Cached
<1>4. CASE StartFlight(ip) \/ JoinFlight(ip) \/ FlightRead(ip) \/ FlightReread(ip)
  <2>1. UNCHANGED <<cache, db, req, reports>>
    BY <1>4, Zenon DEF StartFlight, JoinFlight, FlightRead, FlightReread,
                       l1Vars, workerVars
  <2>2. TableSent' /\ HeldSent' /\ CacheSent'
    BY <2>1, KeepSent, TableKeepSent DEF CacheSent, Sent, L1!Cached
  <2>3. FlightSent'
    BY <1>4, <2>1 DEF StartFlight, JoinFlight, FlightRead, FlightReread, FlightTo,
       EndFlight, NoFlight, FlightSent, TableSent, Sent, FlightsTyped
  <2> QED  BY <2>2, <2>3 DEF AllSent
<1>5. CASE FlightFill(ip)
  <2>1. UNCHANGED <<db, req, reports>>
    BY <1>5, Zenon DEF FlightFill, workerVars
  <2>2. TableSent' /\ HeldSent'
    BY <2>1, KeepSent, TableKeepSent
  <2>3. FlightSent'
    BY <1>5, <2>1 DEF FlightFill, EndFlight, NoFlight, FlightSent, Sent, FlightsTyped
  <2>4. CacheSent'
    <3>1. Sent(ip, flight[ip].record)
      BY DEF FlightSent
    <3> QED  BY <1>5, <2>1, <3>1, FillSent, CacheKeepSent DEF FlightFill, SetCaches
  <2> QED  BY <2>2, <2>3, <2>4 DEF AllSent
<1> QED  BY <1>2, <1>3, <1>4, <1>5 DEF FlightStep

LEMMA OtherSent ==
  ASSUME TypeInv, AllSent,
         \/ \E w \in Workers, ip \in IPs, kind \in Kinds : Request(w, ip, kind)
         \/ DeleteExpired \/ SweepCache \/ Tick \/ Crash
  PROVE  AllSent'
<1>1. /\ WorkersTyped /\ FlightsTyped /\ TableTyped
      /\ TableSent /\ CacheSent /\ HeldSent /\ FlightSent
  BY TypeInvParts DEF AllSent
<1> USE <1>1
<1>2. CASE \E w \in Workers, ip \in IPs, kind \in Kinds : Request(w, ip, kind)
  <2> PICK w \in Workers, ip \in IPs, kind \in Kinds : Request(w, ip, kind)
    BY <1>2
  <2>1. UNCHANGED <<cache, db, flight, reports>>
    BY Zenon DEF Request, l1Vars, reporterVars
  <2>2. HeldSent'
    BY <2>1 DEF Request, HeldSent, IP, Sent, WorkersTyped
  <2> QED  BY <2>1, <2>2, TableKeepSent, FlightKeepSent
             DEF AllSent, CacheSent, Sent, L1!Cached
<1>3. CASE DeleteExpired
  <2>1. UNCHANGED <<cache, req, flight, reports>>
    BY <1>3, Zenon DEF DeleteExpired, l1Vars, reporterVars, workerVars
  <2>2. db' = db \/ db' = [ip \in IPs |-> IF LiveRow(ip) THEN db[ip] ELSE NoRecord]
    BY <1>3, Zenon DEF DeleteExpired
  <2>3. TableSent'
    BY <2>1, <2>2, NotReported DEF TableSent, Sent
  <2> QED  BY <2>1, <2>3, KeepSent, FlightKeepSent
             DEF AllSent, CacheSent, Sent, L1!Cached
<1>4. CASE SweepCache
  <2>1. UNCHANGED <<db, req, flight, reports>>
    BY <1>4, Zenon DEF SweepCache, reporterVars, workerVars
  <2>2. CacheSent'
    BY <1>4, <2>1, CacheKeepSent DEF SweepCache
  <2> QED  BY <2>1, <2>2, KeepSent, TableKeepSent, FlightKeepSent DEF AllSent
<1>5. CASE Tick
  <2>1. UNCHANGED <<cache, db, req, flight, reports>>
    BY <1>5, Zenon DEF Tick, l1Vars, reporterVars, workerVars
  <2> QED  BY <2>1, KeepSent, TableKeepSent, FlightKeepSent
             DEF AllSent, CacheSent, Sent, L1!Cached
<1>6. CASE Crash
  <2>1. UNCHANGED <<db, reports>> /\ cache' = <<>>
        /\ req' = [w \in Workers |-> NoRequest] /\ flight' = [ip \in IPs |-> NoFlight]
    BY <1>6 DEF Crash
  <2>2. HeldSent' /\ FlightSent'
    BY <2>1 DEF HeldSent, FlightSent, Sent, IP, NoRequest, NoFlight
  <2> QED  BY <2>1, <2>2, TableKeepSent DEF AllSent, CacheSent, L1!Cached
<1> QED  BY <1>2, <1>3, <1>4, <1>5, <1>6

LEMMA StutterSent ==
  ASSUME AllSent, UNCHANGED gateVars
  PROVE  AllSent'
<1>1. UNCHANGED <<cache, db, req, flight, reports>>
  BY DEF gateVars, l1Vars, reporterVars, workerVars
<1> QED  BY <1>1, KeepSent, TableKeepSent, FlightKeepSent
           DEF AllSent, CacheSent, Sent, L1!Cached

(* A record marked as reported was: ReportedWasSent, in every reachable    *)
(* state of every configuration, whatever fails and however goroutines and *)
(* crashes interleave.                                                     *)
THEOREM ReportsMarked == Spec => []ReportedWasSent
<1>1. Init => AllSent
  <2> SUFFICES ASSUME Init PROVE AllSent
    OBVIOUS
  <2>1. /\ cache = <<>> /\ db = [ip \in IPs |-> NoRecord]
        /\ req = [w \in Workers |-> NoRequest] /\ flight = [ip \in IPs |-> NoFlight]
    BY DEF Init, L1!NewIPCache
  <2> QED  BY <2>1 DEF AllSent, TableSent, CacheSent, HeldSent, FlightSent, Sent,
             L1!Cached, NoRequest, NoFlight
<1>2. TypeInv /\ P!IInv /\ AllSent /\ [Next]_gateVars => AllSent'
  BY CheckSent, TrapSent, FlightStepSent, OtherSent, StutterSent
     DEF Next, WorkerStep
<1>3. TypeInv /\ P!IInv /\ AllSent => ReportedWasSent
  <2> SUFFICES ASSUME TypeInv, P!IInv, AllSent, NEW ip \in IPs,
                      \/ db[ip] # NoRecord /\ db[ip].reported
                      \/ ip \in L1!Cached /\ cache[ip].reported
               PROVE  reports[ip] > 0
    BY DEF ReportedWasSent
  <2>1. ip \in L1!Cached => cache[ip] \in Record
    BY SameCache, P!Facts
  <2>2. ip \in L1!Cached => cache[ip] # NoRecord
    BY <2>1 DEF Record, NoRecord
  <2> QED  BY <2>2 DEF AllSent, TableSent, CacheSent, Sent
<1> QED  BY <1>1, <1>2, <1>3, Sound, PTL DEF Spec
=============================================================================
