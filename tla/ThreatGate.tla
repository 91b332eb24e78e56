----------------------------- MODULE ThreatGate ------------------------------
(***************************************************************************)
(* The gate as it runs: the goroutines of the HTTP server that answer      *)
(* check and report requests (internal/threatcheck, internal/activedefence *)
(* and the handlers that call them), the background goroutines that report *)
(* trapped IPs to AbuseIPDB, and the hourly cleanup worker, over what they *)
(* share: the in-memory cache (L1, an IPCache), the ip_records table (L2), *)
(* the circuit breaker and the clock.                                      *)
(*                                                                         *)
(* Each mutex-protected call and each SQL statement is one step; between   *)
(* two steps of one goroutine any other may run, time may pass, a client   *)
(* may go away (its context fails the next call) and the process may die.  *)
(***************************************************************************)
EXTENDS Integers, FiniteSets

CONSTANTS
  IPs,           \* client addresses: valid and not local
  Workers,       \* goroutines of the HTTP server, one request at a time each
  Scores,        \* abuse confidence scores AbuseIPDB may answer
  Threshold,     \* confidence_score_threshold
  CheckTTL,      \* abuse_ip_db.expiration_time, in ticks
  TrapTTL,       \* active_defence.expiration_time, in ticks
  CacheMaxSize,  \* cache_max_size
  MaxRetries,    \* circuit_breaker.max_retries
  CoolDown,      \* circuit_breaker.cool_down_period, in ticks
  OpenOnError,   \* circuit_breaker.open_on_error
  FailOpen,      \* fail_open
  AutoReport,    \* active_defence.auto_report
  SourceEnabled, \* abuse_ip_db.enabled with an API key
  Kinds,         \* bound: the kinds of request that arrive
  MaxTime,       \* bound: the last instant
  MaxRequests,   \* bound: requests accepted in a behaviour
  MaxFaults,     \* bound: calls that fail in a behaviour
  MaxCrashes     \* bound: crashes in a behaviour

ASSUME GateAssumption ==
  /\ IPs # {}
  /\ Scores \subseteq 0..100
  /\ Threshold \in Int /\ CacheMaxSize \in Int /\ MaxRetries \in Int
  /\ CheckTTL \in Nat /\ TrapTTL \in Nat /\ CoolDown \in Nat
  /\ {OpenOnError, FailOpen, AutoReport, SourceEnabled} \subseteq BOOLEAN
  /\ Kinds \subseteq {"check", "trap", "report"}
  /\ MaxTime \in Nat /\ MaxRequests \in Nat
  /\ MaxFaults \in Nat /\ MaxCrashes \in Nat

VARIABLES
  cache, lru, threatCount,  \* L1
  db,            \* ip_records: the row of each IP, or NoRecord
  now,           \* the clock
  cbFailures,    \* the breaker's count of failures
  cbLastFailed,  \* the instant of the last failure
  pc,            \* where each worker is
  req,           \* what each worker holds: kind, ip, record read, verdict
  pending,       \* report goroutines of an IP spawned and not yet in Do
  flight,        \* the running singleflight call of an IP: place and record
  cleaner,       \* the cleanup worker: its place and the instant it works for
  reports,       \* how often AbuseIPDB took a report of an IP
  arrivals, faults, crashes  \* what the bounds count

l1Vars == <<cache, lru, threatCount>>
breakerVars == <<cbFailures, cbLastFailed>>
reporterVars == <<pending, flight, reports>>
workerVars == <<pc, req>>
boundVars == <<arrivals, crashes>>
gateVars == <<l1Vars, db, now, breakerVars, workerVars, reporterVars, cleaner,
              boundVars, faults>>

-----------------------------------------------------------------------------
(* Records.  A trap stores the highest score; a check stores AbuseIPDB's.  *)
(* The source of a record and the time it was checked at decide nothing.   *)
Horizon == MaxTime + CheckTTL + TrapTTL
Record == [status : {"safe", "threat"}, score : Scores \cup {100},
           expiresAt : 0..Horizon, reported : BOOLEAN]
NoRecord == [status |-> "none"]

L1 == INSTANCE IPCache WITH
        Records <- Record, Times <- 0..MaxTime, MaxSize <- CacheMaxSize

StatusOf(score) == IF score >= Threshold THEN "threat" ELSE "safe"

CheckedRecord(score) ==
  [status |-> StatusOf(score), score |-> score,
   expiresAt |-> now + CheckTTL, reported |-> FALSE]

TrapRecord ==
  [status |-> "threat", score |-> 100,
   expiresAt |-> now + TrapTTL, reported |-> FALSE]

(* createResult: the verdict on a record is on its score, not its status.  *)
VerdictOn(record) == IF record.score >= Threshold THEN "block" ELSE "allow"

(* What a failed source gives: an error for the handler or, if the breaker *)
(* is configured to, a result on a score of 0, which is safe unless the    *)
(* threshold is 0 too, as when the setting is missing.                     *)
OnSourceError == IF FailOpen THEN "failopen" ELSE "fault"
OnBreakerError ==
  IF ~OpenOnError THEN OnSourceError
  ELSE IF 0 >= Threshold THEN "block" ELSE "assumed"

Places == {"idle", "l1Get", "cleanGet", "cleanRemove", "cleanDelete", "dbGet",
           "admit", "ask", "save", "reread", "succeed", "fail", "fill",
           "trapRead", "trapSave", "trapReread", "trapFill", "done"}
Verdicts == {"none", "allow", "block", "assumed", "failopen", "fault",
             "accepted"}

NoRequest == [kind |-> "check", ip |-> CHOOSE ip \in IPs : TRUE,
              record |-> NoRecord, verdict |-> "none"]
NoFlight == [at |-> "none", record |-> NoRecord]

-----------------------------------------------------------------------------
Init ==
  /\ L1!NewIPCache
  /\ db = [ip \in IPs |-> NoRecord]
  /\ now = 0
  /\ cbFailures = 0 /\ cbLastFailed = -CoolDown
  /\ pc = [w \in Workers |-> "idle"]
  /\ req = [w \in Workers |-> NoRequest]
  /\ pending = [ip \in IPs |-> 0]
  /\ flight = [ip \in IPs |-> NoFlight]
  /\ cleaner = [at |-> "idle", time |-> 0]
  /\ reports = [ip \in IPs |-> 0]
  /\ arrivals = 0 /\ faults = 0 /\ crashes = 0

(* A step of worker w, to the place it goes to.                            *)
Goto(w, from, to) == pc[w] = from /\ pc' = [pc EXCEPT ![w] = to]
Hold(w, record) == req' = [req EXCEPT ![w].record = record]
Answer(w, verdict) ==
  req' = [req EXCEPT ![w].record = NoRecord, ![w].verdict = verdict]

IP(w) == req[w].ip

NoFault == UNCHANGED faults
Fault == faults < MaxFaults /\ faults' = faults + 1

(* Every cache the gate writes: none if the AbuseIPDB source is not built. *)
SetCaches(ip, record) ==
  IF SourceEnabled THEN L1!Set(ip, record) ELSE UNCHANGED l1Vars

Expired(record, time) == record.expiresAt < time

-----------------------------------------------------------------------------
(* Requests.  A check of a honeytoken path is a trap: the active defence   *)
(* source comes first and handles it.  POST /report-threat runs the same   *)
(* ReportThreat.  Any other check passes active defence and goes to the    *)
(* AbuseIPDB source, if there is one.                                      *)
Request(w, ip, kind) ==
  /\ pc[w] \in {"idle", "done"}
  /\ arrivals < MaxRequests /\ arrivals' = arrivals + 1
  /\ pc' = [pc EXCEPT ![w] = CASE kind # "check" -> "trapRead"
                               [] kind = "check" /\ SourceEnabled -> "l1Get"
                               [] OTHER -> "done"]
  /\ req' = [req EXCEPT ![w] =
               [kind |-> kind, ip |-> ip, record |-> NoRecord,
                verdict |-> IF kind = "check" /\ ~SourceEnabled
                            THEN "assumed" ELSE "none"]]
  /\ UNCHANGED <<l1Vars, db, now, breakerVars, reporterVars, cleaner, crashes,
                 faults>>

(* Check, 1: L1.  An entry that expires exactly now still counts.          *)
LookInCache(w) ==
  /\ L1!Get(IP(w))
  /\ \/ /\ IP(w) \notin L1!Cached
        /\ Goto(w, "l1Get", "dbGet") /\ UNCHANGED req
     \/ /\ IP(w) \in L1!Cached /\ Expired(cache[IP(w)], now)
        /\ Goto(w, "l1Get", "cleanGet") /\ UNCHANGED req
     \/ /\ IP(w) \in L1!Cached /\ ~Expired(cache[IP(w)], now)
        /\ Goto(w, "l1Get", "done") /\ Answer(w, VerdictOn(cache[IP(w)]))
  /\ UNCHANGED <<db, now, breakerVars, reporterVars, cleaner, boundVars, faults>>

(* cleanExpiredIP: three separate calls, none of which looks again at what *)
(* it removes.                                                             *)
CleanGet(w) ==
  /\ Goto(w, "cleanGet", "cleanRemove")
  /\ L1!Get(IP(w))
  /\ UNCHANGED <<db, now, breakerVars, req, reporterVars, cleaner, boundVars,
                 faults>>

CleanRemove(w) ==
  /\ Goto(w, "cleanRemove", "cleanDelete")
  /\ L1!Remove(IP(w))
  /\ UNCHANGED <<db, now, breakerVars, req, reporterVars, cleaner, boundVars,
                 faults>>

CleanDelete(w) ==
  /\ Goto(w, "cleanDelete", "dbGet")
  /\ \/ NoFault /\ db' = [db EXCEPT ![IP(w)] = NoRecord]
     \/ Fault /\ UNCHANGED db
  /\ UNCHANGED <<l1Vars, now, breakerVars, req, reporterVars, cleaner,
                 boundVars>>

(* Check, 2: L2.  GetByIp wants a row that expires later than now.         *)
LiveRow(ip) == db[ip] # NoRecord /\ db[ip].expiresAt > now

LookInDatabase(w) ==
  /\ \/ /\ LiveRow(IP(w)) /\ NoFault
        /\ Goto(w, "dbGet", "fill") /\ Hold(w, db[IP(w)])
     \/ /\ ~LiveRow(IP(w)) /\ NoFault
        /\ Goto(w, "dbGet", "admit") /\ UNCHANGED req
     \/ /\ Fault
        /\ Goto(w, "dbGet", "done") /\ Answer(w, OnSourceError)
  /\ UNCHANGED <<l1Vars, db, now, breakerVars, reporterVars, cleaner, boundVars>>

(* Check, 3: the circuit breaker.                                          *)
AllowRequest == cbFailures < MaxRetries \/ now - cbLastFailed >= CoolDown

PassBreaker(w) ==
  /\ \/ AllowRequest /\ Goto(w, "admit", "ask") /\ UNCHANGED req
     \/ ~AllowRequest /\ Goto(w, "admit", "done") /\ Answer(w, OnBreakerError)
  /\ UNCHANGED <<l1Vars, db, now, breakerVars, reporterVars, cleaner, boundVars,
                 faults>>

(* Check, 4: AbuseIPDB answers with a score, or not.                       *)
AskAbuseIPDB(w) ==
  /\ \/ /\ NoFault
        /\ \E score \in Scores : Hold(w, CheckedRecord(score))
        /\ Goto(w, "ask", "save")
     \/ Fault /\ Goto(w, "ask", "fail") /\ UNCHANGED req
  /\ UNCHANGED <<l1Vars, db, now, breakerVars, reporterVars, cleaner, boundVars>>

(* Mutant of SaveChecked: a row that is not saved does not matter.         *)
SaveIgnoresError(w) ==
  /\ \/ NoFault /\ db' = [db EXCEPT ![IP(w)] = req[w].record]
     \/ Fault /\ UNCHANGED db
  /\ Goto(w, "save", "succeed")
  /\ UNCHANGED <<l1Vars, now, breakerVars, req, reporterVars, cleaner, boundVars>>

(* Check, 5: Update writes the row and reads it back; both may fail.       *)
SaveChecked(w) ==
  /\ \/ /\ NoFault /\ db' = [db EXCEPT ![IP(w)] = req[w].record]
        /\ Goto(w, "save", "reread")
     \/ Fault /\ UNCHANGED db /\ Goto(w, "save", "fail")
  /\ UNCHANGED <<l1Vars, now, breakerVars, req, reporterVars, cleaner, boundVars>>

(* Mutant of RereadChecked: it expects to find the row it has just saved.  *)
RereadExpectsRow(w) ==
  /\ \/ /\ db[IP(w)] # NoRecord /\ NoFault
        /\ Goto(w, "reread", "succeed") /\ Hold(w, db[IP(w)])
     \/ Fault /\ Goto(w, "reread", "fail") /\ UNCHANGED req
  /\ UNCHANGED <<l1Vars, db, now, breakerVars, reporterVars, cleaner, boundVars>>

RereadChecked(w) ==
  /\ \/ /\ db[IP(w)] # NoRecord /\ NoFault
        /\ Goto(w, "reread", "succeed") /\ Hold(w, db[IP(w)])
     \/ /\ db[IP(w)] = NoRecord /\ NoFault
        /\ Goto(w, "reread", "fail") /\ UNCHANGED req
     \/ Fault /\ Goto(w, "reread", "fail") /\ UNCHANGED req
  /\ UNCHANGED <<l1Vars, db, now, breakerVars, reporterVars, cleaner, boundVars>>

RecordFailure(w) ==
  /\ Goto(w, "fail", "done") /\ Answer(w, OnBreakerError)
  /\ cbFailures' = cbFailures + 1 /\ cbLastFailed' = now
  /\ UNCHANGED <<l1Vars, db, now, reporterVars, cleaner, boundVars, faults>>

(* Mutant of RecordSuccess: a success takes one failure back.              *)
SuccessTakesOne(w) ==
  /\ Goto(w, "succeed", "fill")
  /\ cbFailures' = cbFailures - 1 /\ UNCHANGED cbLastFailed
  /\ UNCHANGED <<l1Vars, db, now, req, reporterVars, cleaner, boundVars, faults>>

RecordSuccess(w) ==
  /\ Goto(w, "succeed", "fill")
  /\ cbFailures' = 0 /\ UNCHANGED cbLastFailed
  /\ UNCHANGED <<l1Vars, db, now, req, reporterVars, cleaner, boundVars, faults>>

(* Check, 6: the record read or saved goes to L1 and decides.              *)
FillCache(w) ==
  /\ Goto(w, "fill", "done")
  /\ L1!Set(IP(w), req[w].record)
  /\ Answer(w, VerdictOn(req[w].record))
  /\ UNCHANGED <<db, now, breakerVars, reporterVars, cleaner, boundVars, faults>>

-----------------------------------------------------------------------------
(* ReportThreat.  A trap is blocked whatever becomes of its report; a      *)
(* report request is told.                                                 *)
TrapVerdict(w, ok) ==
  IF req[w].kind = "trap" THEN "block" ELSE IF ok THEN "accepted" ELSE "fault"

(* 1: a row that says threat and reported is left as it is, whenever it    *)
(* expires; a read that fails counts as no row.                            *)
TrapRead(w) ==
  /\ \/ /\ db[IP(w)].status = "threat" /\ db[IP(w)].reported /\ NoFault
        /\ Goto(w, "trapRead", "done") /\ Answer(w, TrapVerdict(w, TRUE))
     \/ /\ ~(db[IP(w)].status = "threat" /\ db[IP(w)].reported) /\ NoFault
        /\ Goto(w, "trapRead", "trapSave") /\ Hold(w, TrapRecord)
     \/ Fault /\ Goto(w, "trapRead", "trapSave") /\ Hold(w, TrapRecord)
  /\ UNCHANGED <<l1Vars, db, now, breakerVars, reporterVars, cleaner, boundVars>>

(* 2: Update, as in a check; its failure ends the report.                  *)
TrapSave(w) ==
  /\ \/ /\ NoFault /\ db' = [db EXCEPT ![IP(w)] = req[w].record]
        /\ Goto(w, "trapSave", "trapReread") /\ UNCHANGED req
     \/ /\ Fault /\ UNCHANGED db
        /\ Goto(w, "trapSave", "done") /\ Answer(w, TrapVerdict(w, FALSE))
  /\ UNCHANGED <<l1Vars, now, breakerVars, reporterVars, cleaner, boundVars>>

TrapReread(w) ==
  /\ \/ /\ db[IP(w)] # NoRecord /\ NoFault
        /\ Goto(w, "trapReread", "trapFill") /\ UNCHANGED req
     \/ /\ db[IP(w)] = NoRecord /\ NoFault
        /\ Goto(w, "trapReread", "done") /\ Answer(w, TrapVerdict(w, FALSE))
     \/ /\ Fault
        /\ Goto(w, "trapReread", "done") /\ Answer(w, TrapVerdict(w, FALSE))
  /\ UNCHANGED <<l1Vars, db, now, breakerVars, reporterVars, cleaner, boundVars>>

(* Mutant of TrapFill: the caches are left to expire.                      *)
TrapLeavesCaches(w) ==
  /\ Goto(w, "trapFill", "done")
  /\ Answer(w, TrapVerdict(w, TRUE))
  /\ pending' = IF AutoReport THEN [pending EXCEPT ![IP(w)] = @ + 1] ELSE pending
  /\ UNCHANGED <<l1Vars, db, now, breakerVars, flight, reports, cleaner,
                 boundVars, faults>>

(* 3: the record as it was built, not as it was read back, goes to the     *)
(* caches, and a goroutine is spawned to report the IP.                    *)
TrapFill(w) ==
  /\ Goto(w, "trapFill", "done")
  /\ SetCaches(IP(w), req[w].record)
  /\ Answer(w, TrapVerdict(w, TRUE))
  /\ pending' = IF AutoReport THEN [pending EXCEPT ![IP(w)] = @ + 1] ELSE pending
  /\ UNCHANGED <<db, now, breakerVars, flight, reports, cleaner, boundVars,
                 faults>>

-----------------------------------------------------------------------------
(* The report goroutines of one IP share a singleflight call: one that     *)
(* comes while a call runs waits for it and does nothing of its own.       *)
EndFlight(ip) == flight' = [flight EXCEPT ![ip] = NoFlight]
FlightTo(ip, from, to) ==
  flight[ip].at = from /\ flight' = [flight EXCEPT ![ip].at = to]

StartFlight(ip) ==
  /\ pending[ip] > 0 /\ FlightTo(ip, "none", "read")
  /\ pending' = [pending EXCEPT ![ip] = @ - 1]
  /\ UNCHANGED <<l1Vars, db, now, breakerVars, workerVars, reports, cleaner,
                 boundVars, faults>>

JoinFlight(ip) ==
  /\ pending[ip] > 0 /\ flight[ip].at # "none"
  /\ pending' = [pending EXCEPT ![ip] = @ - 1]
  /\ UNCHANGED <<l1Vars, db, now, breakerVars, workerVars, flight, reports,
                 cleaner, boundVars, faults>>

(* Mutant of FlightRead: it expects a row that is not yet reported.        *)
FlightReadsOnce(ip) ==
  /\ flight[ip].at = "read"
  /\ \/ /\ db[ip] # NoRecord /\ ~db[ip].reported /\ NoFault
        /\ flight' = [flight EXCEPT ![ip] = [at |-> "call", record |-> db[ip]]]
     \/ Fault /\ EndFlight(ip)
  /\ UNCHANGED <<l1Vars, db, now, breakerVars, workerVars, pending, reports,
                 cleaner, boundVars>>

(* The row as it is now: whatever its status, it is reported unless it is  *)
(* marked as reported.                                                     *)
FlightRead(ip) ==
  /\ flight[ip].at = "read"
  /\ \/ /\ db[ip] # NoRecord /\ ~db[ip].reported /\ NoFault
        /\ flight' = [flight EXCEPT ![ip] = [at |-> "call", record |-> db[ip]]]
     \/ db[ip] # NoRecord /\ db[ip].reported /\ NoFault /\ EndFlight(ip)
     \/ db[ip] = NoRecord /\ NoFault /\ EndFlight(ip)
     \/ Fault /\ EndFlight(ip)
  /\ UNCHANGED <<l1Vars, db, now, breakerVars, workerVars, pending, reports,
                 cleaner, boundVars>>

(* Mutant of FlightCall: an error of the call is logged and passed over.   *)
FlightIgnoresError(ip) ==
  /\ flight[ip].at = "call" /\ flight' = [flight EXCEPT ![ip].at = "save"]
  /\ \/ NoFault /\ reports' = [reports EXCEPT ![ip] = @ + 1]
     \/ Fault /\ UNCHANGED reports
  /\ UNCHANGED <<l1Vars, db, now, breakerVars, workerVars, pending, cleaner,
                 boundVars>>

(* ReportIP: taken, refused, or taken with the reply lost on the way back. *)
FlightCall(ip) ==
  /\ flight[ip].at = "call"
  /\ \/ /\ NoFault /\ flight' = [flight EXCEPT ![ip].at = "save"]
        /\ reports' = [reports EXCEPT ![ip] = @ + 1]
     \/ Fault /\ EndFlight(ip) /\ UNCHANGED reports
     \/ Fault /\ EndFlight(ip) /\ reports' = [reports EXCEPT ![ip] = @ + 1]
  /\ UNCHANGED <<l1Vars, db, now, breakerVars, workerVars, pending, cleaner,
                 boundVars>>

(* Mutants of Marked: a new record, without the score; a block that ends   *)
(* with its report.                                                        *)
MarkedAfresh(ip) ==
  [flight[ip].record EXCEPT !.reported = TRUE, !.score = 0]
MarkedAsOver(ip) ==
  [flight[ip].record EXCEPT !.reported = TRUE, !.expiresAt = now]

Marked(ip) == [flight[ip].record EXCEPT !.reported = TRUE]

(* The record read before the call is written back, marked.                *)
FlightSave(ip) ==
  /\ flight[ip].at = "save"
  /\ \/ /\ NoFault /\ db' = [db EXCEPT ![ip] = Marked(ip)]
        /\ flight' = [flight EXCEPT ![ip] = [at |-> "reread",
                                             record |-> Marked(ip)]]
     \/ Fault /\ UNCHANGED db /\ EndFlight(ip)
  /\ UNCHANGED <<l1Vars, now, breakerVars, workerVars, pending, reports,
                 cleaner, boundVars>>

FlightReread(ip) ==
  /\ \/ db[ip] # NoRecord /\ NoFault /\ FlightTo(ip, "reread", "fill")
     \/ flight[ip].at = "reread" /\ db[ip] = NoRecord /\ NoFault /\ EndFlight(ip)
     \/ flight[ip].at = "reread" /\ Fault /\ EndFlight(ip)
  /\ UNCHANGED <<l1Vars, db, now, breakerVars, workerVars, pending, reports,
                 cleaner, boundVars>>

FlightFill(ip) ==
  /\ flight[ip].at = "fill" /\ EndFlight(ip)
  /\ SetCaches(ip, flight[ip].record)
  /\ UNCHANGED <<db, now, breakerVars, workerVars, pending, reports, cleaner,
                 boundVars, faults>>

-----------------------------------------------------------------------------
(* The cleanup worker: one statement on the table, then the caches, both   *)
(* for the instant the ticker fired at.                                    *)
(* Mutant of DeleteExpired: threats are kept for good.                     *)
DeleteKeepsThreats ==
  /\ cleaner.at = "idle" /\ cleaner' = [at |-> "sweep", time |-> now]
  /\ \/ /\ NoFault
        /\ db' = [ip \in IPs |-> IF LiveRow(ip) \/ db[ip].status = "threat"
                                 THEN db[ip] ELSE NoRecord]
     \/ Fault /\ UNCHANGED db
  /\ UNCHANGED <<l1Vars, now, breakerVars, workerVars, reporterVars, boundVars>>

DeleteExpired ==
  /\ cleaner.at = "idle" /\ cleaner' = [at |-> "sweep", time |-> now]
  /\ \/ /\ NoFault
        /\ db' = [ip \in IPs |-> IF LiveRow(ip) THEN db[ip] ELSE NoRecord]
     \/ Fault /\ UNCHANGED db
  /\ UNCHANGED <<l1Vars, now, breakerVars, workerVars, reporterVars, boundVars>>

SweepCache ==
  /\ cleaner.at = "sweep" /\ cleaner' = [at |-> "idle", time |-> 0]
  /\ IF SourceEnabled THEN L1!RemoveExpired(cleaner.time) ELSE UNCHANGED l1Vars
  /\ UNCHANGED <<db, now, breakerVars, workerVars, reporterVars, boundVars,
                 faults>>

Tick ==
  /\ now < MaxTime /\ now' = now + 1
  /\ UNCHANGED <<l1Vars, db, breakerVars, workerVars, reporterVars, cleaner,
                 boundVars, faults>>

(* The process dies and starts again: the table survives, nothing else     *)
(* does, and the reports that were under way are not taken up again.       *)
Crash ==
  /\ crashes < MaxCrashes /\ crashes' = crashes + 1
  /\ cache' = <<>> /\ lru' = <<>> /\ threatCount' = 0
  /\ cbFailures' = 0 /\ cbLastFailed' = -CoolDown
  /\ pc' = [w \in Workers |-> "idle"] /\ req' = [w \in Workers |-> NoRequest]
  /\ pending' = [ip \in IPs |-> 0] /\ flight' = [ip \in IPs |-> NoFlight]
  /\ cleaner' = [at |-> "idle", time |-> 0]
  /\ UNCHANGED <<db, now, reports, arrivals, faults>>

-----------------------------------------------------------------------------
CheckStep(w) ==
  \/ LookInCache(w) \/ CleanGet(w) \/ CleanRemove(w) \/ CleanDelete(w)
  \/ LookInDatabase(w) \/ PassBreaker(w) \/ AskAbuseIPDB(w)
  \/ SaveChecked(w) \/ RereadChecked(w)
  \/ RecordFailure(w) \/ RecordSuccess(w) \/ FillCache(w)

TrapStep(w) == TrapRead(w) \/ TrapSave(w) \/ TrapReread(w) \/ TrapFill(w)

WorkerStep(w) == CheckStep(w) \/ TrapStep(w)

FlightStep(ip) ==
  \/ StartFlight(ip) \/ JoinFlight(ip) \/ FlightRead(ip) \/ FlightCall(ip)
  \/ FlightSave(ip) \/ FlightReread(ip) \/ FlightFill(ip)

Next ==
  \/ \E w \in Workers, ip \in IPs, kind \in Kinds : Request(w, ip, kind)
  \/ \E w \in Workers : WorkerStep(w)
  \/ \E ip \in IPs : FlightStep(ip)
  \/ DeleteExpired \/ SweepCache
  \/ Tick
  \/ Crash

Spec == Init /\ [][Next]_gateVars

(* The Go scheduler runs every goroutine that can run; statements on the   *)
(* table end (busy_timeout), and so do calls of AbuseIPDB (a client        *)
(* timeout of 3 s), one way or the other.  Nothing makes requests arrive,  *)
(* the process crash, or a call fail.                                      *)
Fairness ==
  /\ \A w \in Workers : WF_gateVars(WorkerStep(w))
  /\ \A ip \in IPs : WF_gateVars(FlightStep(ip))
  /\ WF_gateVars(DeleteExpired) /\ WF_gateVars(SweepCache)
  /\ WF_gateVars(Tick)

FairSpec == Spec /\ Fairness

-----------------------------------------------------------------------------
RecordOrNone == Record \cup {NoRecord}

StateTypeOK ==
  /\ db \in [IPs -> RecordOrNone]
  /\ now \in 0..MaxTime
  /\ cbFailures \in Nat /\ cbLastFailed \in Int
  /\ pc \in [Workers -> Places]
  /\ req \in [Workers -> [kind : {"check", "trap", "report"}, ip : IPs,
                          record : RecordOrNone, verdict : Verdicts]]
  /\ pending \in [IPs -> Nat]
  /\ flight \in [IPs -> [at : {"none", "read", "call", "save", "reread", "fill"},
                         record : RecordOrNone]]
  /\ cleaner \in [at : {"idle", "sweep"}, time : 0..MaxTime]
  /\ reports \in [IPs -> Nat]
  /\ arrivals \in Nat /\ faults \in Nat /\ crashes \in Nat

GateTypeOK == L1!CacheTypeOK /\ StateTypeOK

(* A record marked as reported, in the table or in L1, belongs to an IP    *)
(* AbuseIPDB did take a report of: a report that fails, or that a crash    *)
(* interrupts, never marks it, so that the next trap tries again.          *)
ReportedWasSent ==
  \A ip \in IPs :
    \/ db[ip] # NoRecord /\ db[ip].reported
    \/ ip \in L1!Cached /\ cache[ip].reported
    => reports[ip] > 0

(* activedefence_test.go: several ReportThreat of one IP at once make      *)
(* "exactly 1 report call".                                                *)
AtMostOneReport == \A ip \in IPs : reports[ip] <= 1

(* Every request is answered: no chain of an expired entry, a miss in both *)
(* tiers, an open breaker, a row that vanished and a failed call leaves    *)
(* its goroutine without a next step.                                      *)
RequestsAnswered ==
  \A w \in Workers :
    pc[w] \notin {"idle", "done"} ~> pc[w] \in {"idle", "done"}

(* Every spawned report settles: it is made, or it joins another, or it    *)
(* fails, and the singleflight call of the IP is over.                     *)
ReportsSettle ==
  \A ip \in IPs :
    pending[ip] > 0 ~> (pending[ip] = 0 /\ flight[ip].at = "none")

(* An expired row does not stay: the cleanup worker gets to it even if no  *)
(* request for its IP ever comes.                                          *)
ExpiredRowsGo ==
  \A ip \in IPs :
    (db[ip] # NoRecord /\ ~LiveRow(ip)) ~> (db[ip] = NoRecord \/ LiveRow(ip))
=============================================================================
