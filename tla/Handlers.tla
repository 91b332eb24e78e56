------------------------------- MODULE Handlers -------------------------------
(***************************************************************************)
(* The process around the gate, once it has started: the edge of the check *)
(* and report handlers, which local addresses never pass, and the status   *)
(* handler, over the table of verdicts.  What a request does beyond the    *)
(* edge is ThreatGate; here it stores a row or does not.                   *)
(***************************************************************************)
EXTENDS Startup

CONSTANTS
  Clients,   \* the addresses that requests name, as they are spelt
  Fresh,     \* ticks for which the counts of the table are kept (15 s)
  MaxWrites  \* bound: changes of the table in a behaviour

ASSUME HandlersAssumption ==
  /\ IsFiniteSet(Clients)
  /\ Clients \subseteq [family : {4, 6}, value : Nat, zone : BOOLEAN]
  /\ Fresh \in Nat /\ MaxWrites \in Nat

VARIABLES
  rows,    \* ip_records: the status of each client's row, or "none"
  writes,  \* what the bound counts
  wronged,  \* history: <<entry, client>> where the entry lists the client, which
            \* was turned away or stored as a threat
  status   \* the status handler: its place, the counts it keeps, their age

tableVars == <<rows, writes, wronged>>
handlerVars == <<startVars, tableVars, status>>

NoStatus == [at |-> "idle", entries |-> 0, threats |-> 0, age |-> Fresh + 1]

HandlersInit ==
  /\ StartInit
  /\ rows = [ip \in Clients |-> "none"] /\ writes = 0 /\ wronged = {}
  /\ status = NoStatus

Serving == phase = "serve"
Rows == {"none", "safe", "threat"}
Matching(search, st) == {ip \in search : rows[ip] # "none" /\ st \in {"", rows[ip]}}

(* NewHandler parses the networks once more.                               *)
LocalNetworks == ParseLocalNetworks(settings.locals).prefixes
IsLocal(ip) == IsLocalIP(LocalNetworks, ip)

(* The entries by which the administrator listed the client.               *)
Listing(ip) == {e \in ToSet(settings.locals) : Lists(e, ip)} \X {ip}

Store(ip, row) ==
  /\ rows' = [rows EXCEPT ![ip] = row]
  /\ IF row = rows[ip] THEN UNCHANGED writes
     ELSE writes < MaxWrites /\ writes' = writes + 1

-----------------------------------------------------------------------------
(* What the sources may say of a client, and the row it then has: a trap   *)
(* is a threat even if it could not be stored.  AbuseIPDB's source says    *)
(* threat of the row it found or stored, or of none; when it says safe or  *)
(* fails there may be any row, cleared, or saved by an update whose        *)
(* re-read failed.                                                         *)
Results(ip, trap) ==
  CASE trap /\ settings.activeDefence ->
         {[said |-> "threat", row |-> row] : row \in {rows[ip], "threat"}}
    [] ~(trap /\ settings.activeDefence) /\ settings.abuseIPDB ->
         {r \in [said : {"safe", "threat", "error"}, row : Rows] :
            r.said = "threat" => r.row \in {rows[ip], "none", "threat"}}
    [] OTHER -> {[said |-> "safe", row |-> rows[ip]]}

(* The first source that says threat or fails decides.                     *)
Code(said) ==
  CASE said = "threat" -> 403
    [] said = "error" -> IF settings.failOpen THEN 200 ELSE 500
    [] OTHER -> 200

(* GET /check.  A request without a valid address is turned away and leaves*)
(* no trace; one from a local address is let through without a question.   *)
CheckHandler(ip, trap) ==
  /\ Serving /\ ~IsLocal(ip)
  /\ \E result \in Results(ip, trap) :
       /\ Store(ip, result.row)
       /\ wronged' = IF Code(result.said) = 403 THEN wronged \cup Listing(ip) ELSE wronged
  /\ UNCHANGED <<startVars, status>>

(* POST /report-threat: of a local address it is ignored.                  *)
ReportThreatHandler(ip) ==
  /\ Serving /\ settings.activeDefence /\ ~IsLocal(ip)
  /\ \/ Store(ip, "threat") /\ wronged' = wronged \cup Listing(ip)
     \/ UNCHANGED <<rows, writes, wronged>>
  /\ UNCHANGED <<startVars, status>>

(* A row expires and is deleted, by the cleanup worker or a check.         *)
Expire(ip) ==
  /\ Serving /\ rows[ip] # "none" /\ Store(ip, "none")
  /\ UNCHANGED <<startVars, wronged, status>>

-----------------------------------------------------------------------------
(* GET /api/v1/status: counts that are too old are read again, under the   *)
(* mutex, so that other requests for the status wait.                      *)
StatusHandler ==
  /\ Serving /\ status.at = "idle"
  /\ status' = IF status.age > Fresh THEN [status EXCEPT !.at = "entries"] ELSE status
  /\ UNCHANGED <<startVars, tableVars>>

(* Mutant of CountEntries: a failure returns with the mutex held.          *)
CountKeepsMutex ==
  /\ Serving /\ status.at = "entries"
  /\ \/ /\ NoFault
        /\ status' = [status EXCEPT !.at = "threats", !.entries = Cardinality(Matching(Clients, ""))]
     \/ Fault /\ status' = [status EXCEPT !.at = "returned"]
  /\ UNCHANGED <<phase, settings, schemaVars, readVars, starts, tableVars>>

(* Count and ThreatCount.  One that fails, or whose client went away,      *)
(* leaves its count as it was; the age is renewed all the same.            *)
CountEntries ==
  /\ Serving /\ status.at = "entries"
  /\ \/ /\ NoFault
        /\ status' = [status EXCEPT !.at = "threats", !.entries = Cardinality(Matching(Clients, ""))]
     \/ Fault /\ status' = [status EXCEPT !.at = "threats"]
  /\ UNCHANGED <<phase, settings, schemaVars, readVars, starts, tableVars>>

CountThreats ==
  /\ Serving /\ status.at = "threats"
  /\ \/ /\ NoFault
        /\ status' = [status EXCEPT !.at = "idle", !.age = 0,
                                    !.threats = Cardinality(Matching(Clients, "threat"))]
     \/ Fault /\ status' = [status EXCEPT !.at = "idle", !.age = 0]
  /\ UNCHANGED <<phase, settings, schemaVars, readVars, starts, tableVars>>

Tick ==
  /\ Serving /\ status.age <= Fresh /\ status' = [status EXCEPT !.age = @ + 1]
  /\ UNCHANGED <<startVars, tableVars>>

Starting == Start /\ UNCHANGED <<tableVars, status>>
Ending == Stop /\ status' = NoStatus /\ UNCHANGED tableVars

StatusStep == StatusHandler \/ CountEntries \/ CountThreats

ChangeTable ==
  \/ \E ip \in Clients, trap \in BOOLEAN : CheckHandler(ip, trap)
  \/ \E ip \in Clients : ReportThreatHandler(ip) \/ Expire(ip)

Serve == ChangeTable \/ StatusStep \/ Tick

HandlersNext == Starting \/ Ending \/ Serve

-----------------------------------------------------------------------------
(* An address that the configuration of this start lists as local, in      *)
(* whatever spelling it comes, is never turned away and never stored as a  *)
(* threat: neither by a honeytoken nor by a report.  Two kinds of entry    *)
(* miss what they list (Misses): any entry, an address with a zone; an     *)
(* entry of IPv6, an IPv4 address in its IPv6 spelling.                    *)
LocalsLeftAlone == \A w \in wronged : Misses(w[1], w[2])

(* The status catches up: while the program serves, after the last change  *)
(* of the table and the last failure, its counts become those of the table *)
(* and stay so, however its requests fall between ticks and writes.        *)
CountsCatchUp ==
  <>[](Serving => /\ status.entries = Cardinality(Matching(Clients, ""))
                  /\ status.threats = Cardinality(Matching(Clients, "threat")))
=============================================================================
