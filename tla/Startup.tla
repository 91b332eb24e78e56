------------------------------- MODULE Startup --------------------------------
(***************************************************************************)
(* How the process starts and ends (cmd/repgate/main.go): it loads its     *)
(* configuration, opens the database, runs the migrations it has no record *)
(* of, builds the threat sources and serves, until a signal or a crash.    *)
(* The process may die between any two statements; a supervisor starts it  *)
(* again, with a configuration that may have been edited.                  *)
(***************************************************************************)
EXTENDS Networks, FiniteSets

CONSTANTS
  Files,       \* the migrations, in the order of their names
  Statements,  \* how many statements a file has
  Repeatable,  \* those <<file, n>> that may run twice: CREATE ... IF NOT EXISTS
  Settings,    \* what config.yaml may say
  MaxStarts,   \* bound: times the process is started
  MaxFaults    \* bound: statements that fail

ASSUME StartupAssumption ==
  /\ Files \in Seq(ToSet(Files))  \* distinct names, of one directory
  /\ \A i, j \in DOMAIN Files : Files[i] = Files[j] => i = j
  /\ Statements \in [ToSet(Files) -> Nat \ {0}]
  /\ \A conf \in Settings : \A e \in ToSet(conf.locals) :  \* netip.ParsePrefix
       \/ e \in {Blank, Malformed}
       \/ e.family \in {4, 6} /\ e.value \in Nat /\ e.bits \in -1..Width(e.family)
  /\ MaxStarts \in Nat /\ MaxFaults \in Nat

VARIABLES
  phase,     \* where main is
  settings,  \* the configuration of this start
  executed,  \* the statements <<file, n>> that the database has run
  versions,  \* schema_migrations
  applied,   \* the versions read at this start
  short,     \* history: this start read less than there is
  at, line,  \* the migration at hand, and its next statement
  starts, faults

schemaVars == <<executed, versions>>
readVars == <<applied, short, at, line>>
startVars == <<phase, settings, schemaVars, readVars, starts, faults>>

(* Down after a signal or a crash, or after os.Exit(1) for one of four      *)
(* reasons.                                                                *)
Ended == {"down", "badConfig", "badDatabase", "badMigration", "badSources"}
Phases == Ended \cup {"open", "versions", "migrate", "record", "build", "serve"}

NoFault == UNCHANGED faults
Fault == faults < MaxFaults /\ faults' = faults + 1

(* parseExpirationTime: "permanent", else a duration, else the integer the *)
(* text begins with, as hours, whatever follows it.                        *)
ParseExpirationTime(text) ==
  CASE text.form = "permanent" -> [ok |-> TRUE, hours |-> "ever"]
    [] text.form = "duration" -> [ok |-> TRUE, hours |-> text.n]
    [] text.form = "number" /\ text.n > 0 -> [ok |-> TRUE, hours |-> text.n]
    [] OTHER -> [ok |-> FALSE, hours |-> 0]

Leave(why) ==
  /\ phase' = why /\ applied' = {} /\ at' = 0 /\ line' = 1
  /\ short' = (short /\ why = "badMigration")

StartInit ==
  /\ phase = "down" /\ settings = CHOOSE conf \in Settings : TRUE
  /\ executed = {} /\ versions = {}
  /\ applied = {} /\ short = FALSE /\ at = 0 /\ line = 1
  /\ starts = 0 /\ faults = 0

(* LoadConfig and setLogger: whatever does not parse ends the process.     *)
LoadConfig(conf) ==
  /\ phase \in Ended /\ starts < MaxStarts /\ starts' = starts + 1
  /\ settings' = conf
  /\ phase' = IF conf.parses /\ ParseLocalNetworks(conf.locals).ok /\ conf.levelKnown
              THEN "open" ELSE "badConfig"
  /\ UNCHANGED <<schemaVars, readVars, faults>>

OpenSQLiteDB ==
  /\ phase = "open"
  /\ \/ NoFault /\ phase' = "versions" /\ UNCHANGED readVars
     \/ Fault /\ Leave("badDatabase")
  /\ UNCHANGED <<settings, schemaVars, starts>>

(* Mutant of ReadVersions: nothing is read of what is on record.           *)
ReadNoVersions ==
  /\ phase = "versions" /\ phase' = "migrate" /\ at' = 1
  /\ UNCHANGED <<settings, schemaVars, applied, short, line, starts, faults>>

(* RunMigrations, 1: the versions on record; a failure before the first    *)
(* row ends the start, one among the rows is not noticed.                  *)
ReadVersions ==
  /\ phase = "versions"
  /\ \/ /\ NoFault /\ applied' = versions /\ short' = FALSE
        /\ phase' = "migrate" /\ at' = 1 /\ UNCHANGED line
     \/ /\ Fault /\ applied' \in (SUBSET versions) \ {versions} /\ short' = TRUE
        /\ phase' = "migrate" /\ at' = 1 /\ UNCHANGED line
     \/ Fault /\ Leave("badDatabase")
  /\ UNCHANGED <<settings, schemaVars, starts>>

Skip ==
  /\ phase = "migrate" /\ at <= Len(Files) /\ Files[at] \in applied
  /\ at' = at + 1
  /\ UNCHANGED <<phase, settings, schemaVars, applied, short, line, starts, faults>>

(* The statement at hand is done: the next one, or the file's record.      *)
Done ==
  /\ executed' = executed \cup {<<Files[at], line>>}
  /\ IF line < Statements[Files[at]] THEN line' = line + 1 /\ UNCHANGED phase
     ELSE phase' = "record" /\ UNCHANGED line
  /\ UNCHANGED <<applied, short, at>>

(* Mutant of Execute: an error of a migration is logged and passed over.   *)
ExecuteLogsError ==
  /\ phase = "migrate" /\ at <= Len(Files) /\ Files[at] \notin applied
  /\ \/ NoFault /\ Done
     \/ Fault /\ phase' = "record" /\ UNCHANGED <<executed, readVars>>
  /\ UNCHANGED <<settings, versions, starts>>

(* RunMigrations, 2: a file that was not read as applied is executed, each *)
(* statement for itself, so that those before one that fails stay done;    *)
(* one that cannot run twice fails if it has run.                          *)
Execute ==
  /\ phase = "migrate" /\ at <= Len(Files) /\ Files[at] \notin applied
  /\ \/ <<Files[at], line>> \notin executed \ Repeatable /\ NoFault /\ Done
     \/ /\ <<Files[at], line>> \in executed \ Repeatable
        /\ NoFault /\ Leave("badMigration") /\ UNCHANGED executed
     \/ Fault /\ Leave("badDatabase") /\ UNCHANGED executed
  /\ UNCHANGED <<settings, versions, starts>>

(* 3: and its name is recorded, which fails if it already is.              *)
RecordVersion ==
  /\ phase = "record"
  /\ \/ /\ Files[at] \notin versions /\ NoFault
        /\ versions' = versions \cup {Files[at]} /\ phase' = "migrate"
        /\ at' = at + 1 /\ line' = 1 /\ UNCHANGED <<applied, short>>
     \/ Files[at] \in versions /\ NoFault /\ Leave("badMigration") /\ UNCHANGED versions
     \/ Fault /\ Leave("badDatabase") /\ UNCHANGED versions
  /\ UNCHANGED <<settings, executed, starts>>

Migrated ==
  /\ phase = "migrate" /\ at > Len(Files) /\ phase' = "build"
  /\ UNCHANGED <<settings, schemaVars, readVars, starts, faults>>

(* buildThreatSources: only now are the trap's expiration time and its     *)
(* patterns looked at.                                                     *)
TrapIsValid == ParseExpirationTime(settings.expiration).ok /\ settings.patternsCompile
Build ==
  /\ phase = "build"
  /\ IF settings.activeDefence /\ ~TrapIsValid THEN Leave("badSources") ELSE Leave("serve")
  /\ UNCHANGED <<settings, schemaVars, starts, faults>>

(* The end: a signal or a port in use once it serves, a crash at any time. *)
Stop ==
  /\ phase \notin Ended /\ Leave("down")
  /\ UNCHANGED <<settings, schemaVars, starts, faults>>

Start ==
  \/ \E conf \in Settings : LoadConfig(conf)
  \/ OpenSQLiteDB \/ ReadVersions \/ Skip \/ Execute \/ RecordVersion
  \/ Migrated \/ Build

-----------------------------------------------------------------------------
(* No request is served on a schema that a migration is missing from, and  *)
(* none is recorded of which a statement has not run, whatever statement   *)
(* the process died or failed at in this start or an earlier one.          *)
Whole(file) == \A n \in 1..Statements[file] : <<file, n>> \in executed
SchemaBeforeService ==
  /\ \A file \in versions : Whole(file)
  /\ phase \in {"build", "serve"} => ToSet(Files) = versions

(* A start on which no statement fails of itself fails on a migration only *)
(* if an earlier one ended, or failed, between a statement that cannot run *)
(* twice and the record of its file, or if the versions on record were     *)
(* read in part: starting again, at any point and however often, is safe   *)
(* otherwise.                                                              *)
Torn == \E s \in executed \ Repeatable : s[1] \notin versions
OnlyTornFails == phase = "badMigration" => Torn \/ short
=============================================================================
