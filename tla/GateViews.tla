------------------------------ MODULE GateViews ------------------------------
(***************************************************************************)
(* ThreatGate with the two gauges of /metrics that tell how many rows and  *)
(* how many threats the table holds.  A gauge is set from a count of the   *)
(* table when the program starts and after each round of the cleanup       *)
(* worker; in between, whoever writes a row adjusts it, by what it had     *)
(* seen of the row in an earlier statement.                                *)
(***************************************************************************)
EXTENDS ThreatGate

CONSTANT MaxMisses  \* bound: reads made for the gauges that fail

ASSUME ViewsAssumption == MaxMisses \in Nat

VARIABLES
  entities, threats,  \* the gauges
  seen,       \* the status each worker saw, of the row or of the L1 entry
  counting,   \* what the cleanup worker has still to count
  blurred,    \* history: something made the gauges inexact since they were set
  misses

viewVars == <<entities, threats, seen, counting, blurred, misses>>
viewsVars == <<gateVars, viewVars>>

Rows == {ip \in IPs : db[ip] # NoRecord}
Threats == {ip \in IPs : db[ip].status = "threat"}

(* initializeMetrics, over the table the process starts with.              *)
InitializeMetrics(table) ==
  [entities |-> Cardinality({ip \in IPs : table[ip] # NoRecord}),
   threats |-> Cardinality({ip \in IPs : table[ip].status = "threat"})]

ViewsInit ==
  /\ Init
  /\ entities = InitializeMetrics(db).entities
  /\ threats = InitializeMetrics(db).threats
  /\ seen = [w \in Workers |-> "none"]
  /\ counting = "nothing" /\ blurred = FALSE /\ misses = 0

Miss == misses < MaxMisses /\ misses' = misses + 1

-----------------------------------------------------------------------------
(* The row as it is before AbuseIPDB's answer is saved, expired or not; if *)
(* it cannot be read the record passes for a new one.                      *)
SeeRow(w) ==
  /\ pc[w] = "save" /\ seen[w] = "unread"
  /\ \/ seen' = [seen EXCEPT ![w] = db[IP(w)].status] /\ UNCHANGED misses
     \/ Miss /\ seen' = [seen EXCEPT ![w] = "none"]
  /\ UNCHANGED <<gateVars, entities, threats, counting, blurred>>

(* A worker whose record is in the table and not yet in the gauges, though *)
(* it makes a difference to them.                                          *)
StoredPlaces == {"reread", "trapReread", "trapFill"}
OwesRow(w) == pc[w] \in StoredPlaces /\ seen[w] = "none"
OwesMore(w) ==
  pc[w] \in StoredPlaces /\ req[w].record.status = "threat" /\ seen[w] # "threat"
OwesLess(w) ==
  pc[w] \in StoredPlaces /\ req[w].record.status # "threat" /\ seen[w] = "threat"
Owes(w) == OwesRow(w) \/ OwesMore(w) \/ OwesLess(w)

SomeoneOwes == \E w \in Workers : Owes(w)

(* After a round's delete both gauges are set, each from a count.          *)
CountRows ==
  /\ counting = "rows" /\ counting' = "threats"
  /\ \/ /\ entities' = Cardinality(Rows)
        /\ blurred' = SomeoneOwes /\ UNCHANGED misses
     \/ Miss /\ blurred' = TRUE /\ UNCHANGED entities
  /\ UNCHANGED <<gateVars, threats, seen>>

CountThreats ==
  /\ counting = "threats" /\ counting' = "nothing"
  /\ \/ /\ threats' = Cardinality(Threats)
        /\ blurred' = (blurred \/ SomeoneOwes) /\ UNCHANGED misses
     \/ Miss /\ blurred' = TRUE /\ UNCHANGED threats
  /\ UNCHANGED <<gateVars, entities, seen>>

-----------------------------------------------------------------------------
(* The steps of the gate that touch the gauges.                            *)
Goes(w, from, to) == pc[w] = from /\ pc'[w] = to
Deletes(w) == Goes(w, "cleanDelete", "dbGet") /\ NoFault
Saves(w) == Goes(w, "reread", "succeed")
Traps(w) == Goes(w, "trapFill", "done")

One(condition) == IF condition THEN 1 ELSE 0

(* Mutant of EntityChange: whoever saves a row counts it.                  *)
EveryCheckCounts(w) ==
  IF Deletes(w) THEN -1
  ELSE One(Saves(w) \/ (Traps(w) /\ seen[w] = "none"))

EntityChange(w) ==
  IF Deletes(w) THEN -1
  ELSE One((Saves(w) \/ Traps(w)) /\ seen[w] = "none")

ThreatChange(w) ==
  LET before == One(seen[w] = "threat")
  IN  IF Deletes(w) THEN -before
      ELSE IF Saves(w) THEN One(req[w].record.status = "threat") - before
      ELSE One(Traps(w) /\ seen[w] # "threat")

See(w) ==
  CASE Goes(w, "ask", "save") -> "unread"
    [] Goes(w, "trapRead", "trapSave") -> IF NoFault THEN db[IP(w)].status ELSE "none"
    [] Goes(w, "cleanGet", "cleanRemove") ->
         IF IP(w) \in L1!Cached THEN cache[IP(w)].status ELSE "none"
    [] pc'[w] \in {"idle", "done", "dbGet"} -> "none"
    [] OTHER -> seen[w]

(* What a step does that the gauges do not follow: a record replaces a     *)
(* row, or a delete removes one, of another status than its worker has     *)
(* seen; a stored record is not read back, and so never counted; a report  *)
(* writes back a row that has been deleted or has changed its status.      *)
ReplacesUnseen(w) ==
  /\ Goes(w, "save", "reread") \/ Goes(w, "trapSave", "trapReread")
  /\ db[IP(w)].status # seen[w]
DeletesUnseen(w) ==
  /\ Deletes(w)
  /\ db[IP(w)] = NoRecord \/ (db[IP(w)].status = "threat") # (seen[w] = "threat")
LeavesUncounted(w) ==
  Owes(w) /\ (Goes(w, "reread", "fail") \/ Goes(w, "trapReread", "done"))
WritesBackChanged(ip) ==
  /\ flight[ip].at = "save" /\ flight'[ip].at = "reread"
  /\ db[ip].status # flight[ip].record.status

Slips ==
  \/ \E w \in Workers : ReplacesUnseen(w) \/ DeletesUnseen(w) \/ LeavesUncounted(w)
  \/ \E ip \in IPs : WritesBackChanged(ip)

(* A step of the gate, with what it does to the gauges: a record is saved  *)
(* only once the row was looked at, and the caches are swept only once the *)
(* rows are counted.                                                       *)
GateStep ==
  /\ Next /\ UNCHANGED <<crashes, misses>>
  /\ \A w \in Workers : pc[w] = "save" /\ seen[w] = "unread" => pc'[w] = "save"
  /\ cleaner.at = "sweep" /\ cleaner'.at = "idle" => counting = "nothing"
  /\ counting' = IF cleaner.at = "idle" /\ cleaner'.at = "sweep" /\ NoFault
                 THEN "rows" ELSE counting
  /\ seen' = [w \in Workers |-> See(w)]
  /\ \/ /\ \A w \in Workers : pc'[w] = pc[w]
        /\ UNCHANGED <<entities, threats>>
     \/ \E w \in Workers :
          /\ pc'[w] # pc[w]
          /\ entities' = entities + EntityChange(w)
          /\ threats' = threats + ThreatChange(w)
  /\ blurred' = (blurred \/ Slips)

(* A process starts with its gauges at 0 until they are set.               *)
Restart ==
  LET counts == InitializeMetrics(db)
  IN  /\ Crash
      /\ \/ /\ entities' = counts.entities /\ threats' = counts.threats
            /\ blurred' = FALSE /\ UNCHANGED misses
         \/ /\ Miss /\ blurred' = TRUE
            /\ \E zero \in DOMAIN counts :
                 /\ entities' = [counts EXCEPT ![zero] = 0].entities
                 /\ threats' = [counts EXCEPT ![zero] = 0].threats
      /\ seen' = [w \in Workers |-> "none"] /\ counting' = "nothing"

ViewsNext ==
  \/ \E w \in Workers : SeeRow(w)
  \/ CountRows \/ CountThreats
  \/ GateStep \/ Restart

ViewsSpec == ViewsInit /\ [][ViewsNext]_viewsVars

-----------------------------------------------------------------------------
(* The gauges are what their help text says, the number of rows and of     *)
(* threats in the table, whenever no request has a stored record still to  *)
(* count and no round of the cleanup worker is under way: through every    *)
(* transition of a row's status, expiry, eviction, sweep and restart, and  *)
(* for any overlap of requests, reports and clean-ups.  What `blurred`     *)
(* remembers is all that makes them drift until they are set again: the    *)
(* Slips above, a count that falls between a request's write and its       *)
(* adjustment, and a read for the gauges that fails.                       *)
GaugesExact ==
  ~blurred /\ ~SomeoneOwes /\ counting = "nothing" =>
    entities = Cardinality(Rows) /\ threats = Cardinality(Threats)
=============================================================================
