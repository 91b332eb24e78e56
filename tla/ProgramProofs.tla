---------------------------- MODULE ProgramProofs -----------------------------
(***************************************************************************)
(* Proofs about Program, for any migrations, settings, clients and bounds: *)
(* its start, the edge of its handlers and the database tab.               *)
(***************************************************************************)
EXTENDS Program, FiniteSetTheorems, SequenceTheorems, TLAPS

-----------------------------------------------------------------------------
(* The start.  The versions on record are those read and those recorded    *)
(* since, unless some were not read.                                       *)
Ran(k) == {Files[i] : i \in 1..(k - 1)}

SchemaParts ==
  /\ \A file \in versions : Whole(file)
  /\ versions \subseteq ToSet(Files) /\ applied \subseteq versions
  /\ phase \in {"build", "serve"} => ToSet(Files) \subseteq versions

(* Of the file at hand, the statements before the next one have run.       *)
Begun(file, n) == \A m \in 1..(n - 1) : <<file, m>> \in executed

MigrationParts ==
  /\ phase \in {"migrate", "record"} =>
       /\ at \in 1..(Len(Files) + 1) /\ Ran(at) \subseteq versions
       /\ ~short => versions \subseteq applied \cup Ran(at)
  /\ phase = "migrate" =>
       /\ line \in Nat \ {0} /\ (at <= Len(Files) => Begun(Files[at], line))
       /\ at <= Len(Files) /\ Files[at] \in applied => line = 1
  /\ phase \in Ended \cup {"open", "versions"} => line = 1
  /\ phase = "record" =>
       at \in 1..Len(Files) /\ Files[at] \notin applied /\ Whole(Files[at])

SchemaInv == SchemaParts /\ MigrationParts /\ OnlyTornFails

(* What the start is made of, and what leaves it alone.                    *)
startSide == <<phase, settings, schemaVars, readVars>>

LEMMA StartSide ==
  ASSUME [ProgramNext]_programVars
  PROVE  Start \/ Stop \/ UNCHANGED startSide
<1>1. CASE UNCHANGED programVars
  BY <1>1 DEF programVars, handlerVars, startVars, schemaVars, readVars, startSide
<1>2. CASE Beside(HandlersNext)
  <2>1. HandlersNext
    BY <1>2 DEF Beside
  <2>2. ASSUME Serve PROVE UNCHANGED startSide
    BY <2>2 DEF Serve, ChangeTable, CheckHandler, ReportThreatHandler, Expire, StatusStep,
       StatusHandler, CountEntries, CountThreats, Tick, startVars, schemaVars, readVars, startSide
  <2> QED  BY <2>1, <2>2 DEF HandlersNext, Starting, Ending
<1>3. CASE Browse
  <2>1. ASSUME NEW i \in DOMAIN requests, CountListed(i) \/ ReadListed(i) \/ Arrive(i)
        PROVE  UNCHANGED startSide
    BY <2>1 DEF CountListed, ReadListed, Arrive, Reads, handlerVars, startVars,
       schemaVars, readVars, startSide
  <2>2. ASSUME NEW search, NEW st, NEW offset, LoadRecords(search, st, offset)
        PROVE  UNCHANGED startSide
    BY <2>2 DEF LoadRecords, handlerVars, startVars, schemaVars, readVars, startSide
  <2>3. ASSUME NEW text, TypeSearch(text) PROVE UNCHANGED startSide
    BY <2>3 DEF TypeSearch, handlerVars, startVars, schemaVars, readVars, startSide
  <2> QED  BY <1>3, <2>1, <2>2, <2>3
              DEF Browse, handleDbSearch, Clear, handleDbStatusChange,
                    handleDbPageChange, Refresh
<1> QED  BY <1>1, <1>2, <1>3 DEF ProgramNext

LEMMA RanNext ==
  ASSUME NEW k \in 1..Len(Files)
  PROVE  Ran(k + 1) = Ran(k) \cup {Files[k]} /\ Files[k] \in ToSet(Files) \ Ran(k)
<1>1. Files[k] \in ToSet(Files)
  BY DEF ToSet
<1>2. 1..((k + 1) - 1) = 1..(k - 1) \cup {k}
  OBVIOUS
<1>3. \A i \in 1..(k - 1) : Files[i] # Files[k]
  <2>1. DOMAIN Files = 1..Len(Files)
    BY StartupAssumption
  <2> QED  BY <2>1, StartupAssumption
<1> QED  BY <1>1, <1>2, <1>3 DEF Ran

LEMMA RanAll == Ran(Len(Files) + 1) = ToSet(Files)
<1>1. DOMAIN Files = 1..Len(Files) /\ Len(Files) \in Nat
  BY StartupAssumption
<1>2. 1..((Len(Files) + 1) - 1) = 1..Len(Files)
  BY <1>1
<1> QED  BY <1>1, <1>2 DEF Ran, ToSet

LEMMA RanNone == Ran(1) = {}
  BY DEF Ran

LEMMA LeavingKeeps ==
  ASSUME SchemaInv, NEW why \in Ended \cup {"serve"}, Leave(why), UNCHANGED schemaVars,
         why = "serve" => ToSet(Files) \subseteq versions,
         why = "badMigration" => Torn \/ short
  PROVE  SchemaInv'
<1>1. SchemaParts'
  BY DEF SchemaInv, SchemaParts, Whole, Leave, schemaVars, Ended
<1>2. MigrationParts'
  BY DEF Leave, MigrationParts, Ended
<1>3. OnlyTornFails'
  BY DEF Leave, OnlyTornFails, Torn, schemaVars
<1> QED  BY <1>1, <1>2, <1>3 DEF SchemaInv

(* A statement that has run stays run.                                     *)
LEMMA DoneKeeps ==
  ASSUME SchemaInv, phase = "migrate", at \in 1..Len(Files), Files[at] \notin applied,
         Done, UNCHANGED <<settings, versions>>
  PROVE  SchemaInv'
<1> DEFINE f == Files[at]
<1>1. /\ line \in Nat \ {0} /\ Statements[f] \in Nat \ {0}
      /\ Ran(at) \subseteq versions /\ (~short => versions \subseteq applied \cup Ran(at))
  <2>1. f \in ToSet(Files)
    BY RanNext
  <2> QED  BY <2>1, StartupAssumption DEF SchemaInv, MigrationParts
<1>2. /\ executed' = executed \cup {<<f, line>>} /\ UNCHANGED <<applied, short, at>>
      /\ \/ line < Statements[f] /\ line' = line + 1 /\ phase' = "migrate"
         \/ ~(line < Statements[f]) /\ phase' = "record" /\ line' = line
  BY DEF Done
<1>3. \A m \in 1..line : <<f, m>> \in executed'
  <2>1. \A m \in 1..(line - 1) : <<f, m>> \in executed
    BY DEF SchemaInv, MigrationParts, Begun
  <2>2. \A m \in 1..line : m = line \/ m \in 1..(line - 1)
    BY <1>1
  <2> QED  BY <1>2, <2>1, <2>2
<1>4. SchemaParts'
  BY <1>2 DEF SchemaInv, SchemaParts, Whole
<1>5. Files' = Files /\ f' = f
  BY <1>2
<1> HIDE DEF f
<1>6. MigrationParts'
  <2>1. CASE line < Statements[f] /\ line' = line + 1 /\ phase' = "migrate"
    <3>1. Begun(f, line)'
      BY <1>1, <1>3, <1>5, <2>1 DEF Begun
    <3> QED  BY <1>1, <1>2, <1>5, <2>1, <3>1 DEF MigrationParts, Ran, Ended, f
  <2>2. CASE ~(line < Statements[f]) /\ phase' = "record" /\ line' = line
    <3>1. Whole(f)'
      <4>1. \A m \in 1..Statements[f] : m \in 1..line
        BY <1>1, <2>2
      <4> QED  BY <1>3, <1>5, <4>1 DEF Whole
    <3> QED  BY <1>1, <1>2, <1>5, <2>2, <3>1 DEF MigrationParts, Ran, Ended, f
  <2> QED  BY <1>2, <2>1, <2>2
<1>7. OnlyTornFails'
  BY <1>2 DEF OnlyTornFails
<1> QED  BY <1>4, <1>6, <1>7 DEF SchemaInv

LEMMA StartKeepsSchema ==
  ASSUME SchemaInv, Start \/ Stop \/ UNCHANGED startSide
  PROVE  SchemaInv'
<1> USE DEF SchemaInv, SchemaParts, MigrationParts, OnlyTornFails, Torn, schemaVars, readVars
<1>1. CASE UNCHANGED startSide
  BY <1>1 DEF startSide, Whole, Begun, Ran
<1>2. CASE Stop
  BY <1>2, LeavingKeeps DEF Stop, Ended
<1>3. ASSUME NEW conf \in Settings, LoadConfig(conf) PROVE SchemaInv'
  BY <1>3 DEF LoadConfig, Ended, Whole
<1>4. CASE OpenSQLiteDB
  <2>1. CASE phase' = "versions" /\ UNCHANGED readVars
    BY <1>4, <2>1 DEF OpenSQLiteDB, Ended, Whole
  <2>2. CASE Leave("badDatabase")
    BY <1>4, <2>2, LeavingKeeps DEF OpenSQLiteDB, Ended
  <2> QED  BY <1>4, <2>1, <2>2 DEF OpenSQLiteDB
<1>5. CASE ReadVersions
  <2>1. CASE /\ applied' \subseteq versions /\ phase' = "migrate" /\ at' = 1
             /\ ~short' => applied' = versions
             /\ UNCHANGED line
    <3>1. UNCHANGED schemaVars /\ 1 \in 1..(Len(Files) + 1) /\ line = 1
      BY <1>5, StartupAssumption DEF ReadVersions
    <3>2. \A f : Begun(f, line)'
      BY <2>1, <3>1 DEF Begun
    <3>3. SchemaParts'
      BY <2>1, <3>1 DEF Whole
    <3>4. MigrationParts'
      BY <2>1, <3>1, <3>2, RanNone DEF Ran
    <3> QED  BY <2>1, <3>3, <3>4
  <2>2. CASE Leave("badDatabase")
    BY <1>5, <2>2, LeavingKeeps DEF ReadVersions, Ended
  <2> QED  BY <1>5, <2>1, <2>2 DEF ReadVersions
<1>6. CASE Skip
  <2>1. at \in 1..Len(Files) /\ line = 1
    BY <1>6, StartupAssumption DEF Skip
  <2>2. /\ Ran(at') = Ran(at) \cup {Files[at]}
        /\ at' \in 1..(Len(Files) + 1)
    BY <1>6, <2>1, RanNext, StartupAssumption DEF Skip
  <2>3. UNCHANGED <<phase, schemaVars, applied, short, line>>
    BY <1>6 DEF Skip
  <2>4. \A f : Begun(f, line)'
    BY <2>1, <2>3 DEF Begun
  <2>5. SchemaParts'
    BY <2>3 DEF Whole
  <2> QED  BY <1>6, <2>1, <2>2, <2>3, <2>4, <2>5 DEF Skip
<1>7. CASE Execute
  <2>1. at \in 1..Len(Files)
    BY <1>7, StartupAssumption DEF Execute
  <2>2. Files[at] \in ToSet(Files) \ Ran(at)
    BY <2>1, RanNext
  <2>3. CASE Done
    BY <1>7, <2>1, <2>3, DoneKeeps DEF Execute
  <2>4. CASE /\ <<Files[at], line>> \in executed \ Repeatable
             /\ Leave("badMigration") /\ UNCHANGED executed
    <3>1. <<Files[at], line>>[1] = Files[at]
      OBVIOUS
    <3>2. Files[at] \notin versions \/ short
      BY <1>7, <2>2 DEF Execute
    <3>3. Torn \/ short
      BY <2>4, <3>1, <3>2
    <3> QED  BY <1>7, <2>4, <3>3, LeavingKeeps DEF Execute, Ended
  <2>5. CASE Leave("badDatabase") /\ UNCHANGED executed
    BY <1>7, <2>5, LeavingKeeps DEF Execute, Ended
  <2> QED  BY <1>7, <2>3, <2>4, <2>5 DEF Execute
<1>8. CASE RecordVersion
  <2>1. at \in 1..Len(Files) /\ Files[at] \notin applied /\ Whole(Files[at])
    BY <1>8 DEF RecordVersion
  <2>2. /\ Ran(at + 1) = Ran(at) \cup {Files[at]} /\ Files[at] \notin Ran(at)
        /\ at + 1 \in 1..(Len(Files) + 1) /\ Files[at] \in ToSet(Files)
    BY <2>1, RanNext, StartupAssumption
  <2>3. CASE /\ versions' = versions \cup {Files[at]} /\ phase' = "migrate"
             /\ at' = at + 1 /\ line' = 1 /\ UNCHANGED <<applied, short>>
    <3>1. \A f : Begun(f, line)'
      BY <2>3 DEF Begun
    <3>2. UNCHANGED executed
      BY <1>8 DEF RecordVersion
    <3>3. SchemaParts'
      BY <2>1, <2>2, <2>3, <3>2 DEF Whole
    <3>4. Ran(at)' = Ran(at) \cup {Files[at]}
      BY <2>2, <2>3
    <3>5. ~short => versions' \subseteq applied \cup Ran(at)'
      BY <1>8, <2>3, <3>4 DEF RecordVersion
    <3>6. Ran(at)' \subseteq versions'
      BY <1>8, <2>3, <3>4 DEF RecordVersion
    <3>7. MigrationParts'
      BY <2>2, <2>3, <3>1, <3>5, <3>6 DEF Ended
    <3> QED  BY <2>3, <3>3, <3>7
  <2>4. CASE Files[at] \in versions /\ Leave("badMigration") /\ UNCHANGED versions
    <3>1. short
      BY <1>8, <2>1, <2>2, <2>4 DEF RecordVersion
    <3> QED  BY <1>8, <2>4, <3>1, LeavingKeeps DEF RecordVersion, Ended
  <2>5. CASE Leave("badDatabase") /\ UNCHANGED versions
    BY <1>8, <2>5, LeavingKeeps DEF RecordVersion, Ended
  <2> QED  BY <1>8, <2>3, <2>4, <2>5 DEF RecordVersion
<1>9. CASE Migrated
  <2>1. at = Len(Files) + 1 /\ ToSet(Files) \subseteq versions
    BY <1>9, RanAll, StartupAssumption DEF Migrated
  <2> QED  BY <1>9, <2>1 DEF Migrated, Whole, Ended
<1>10. CASE Build
  BY <1>10, LeavingKeeps DEF Build, Ended
<1> QED  BY <1>1, <1>2, <1>3, <1>4, <1>5, <1>6, <1>7, <1>8, <1>9, <1>10 DEF Start

LEMMA Schema == ProgramSpec => []SchemaInv
<1>1. ProgramInit => SchemaInv
  BY DEF ProgramInit, HandlersInit, StartInit, SchemaInv, SchemaParts, MigrationParts,
     OnlyTornFails
<1>2. SchemaInv /\ [ProgramNext]_programVars => SchemaInv'
  BY StartSide, StartKeepsSchema
<1> QED  BY <1>1, <1>2, PTL DEF ProgramSpec

(* The program serves only once every migration has run and is on record,  *)
(* and none is on record that has not run, wherever the starts before      *)
(* ended: SchemaBeforeService.                                             *)
THEOREM SchemaThenService == ProgramSpec => []SchemaBeforeService
<1>1. SchemaInv => SchemaBeforeService
  BY DEF SchemaInv, SchemaParts, SchemaBeforeService
<1> QED  BY <1>1, Schema, PTL

(* Of the starts on which no statement fails of itself, only one after an  *)
(* end or a failure between a statement that cannot run twice and the      *)
(* record of its file can fail on a migration, or one that read the record *)
(* in part: OnlyTornFails, for files of any number of statements.          *)
THEOREM RestartsAreSafe == ProgramSpec => []OnlyTornFails
<1>1. SchemaInv => OnlyTornFails
  BY DEF SchemaInv
<1> QED  BY <1>1, Schema, PTL

-----------------------------------------------------------------------------
(* Arithmetic: the numbers of one block are those with one quotient.       *)
LEMMA Quotient ==
  ASSUME NEW b \in Nat \ {0}, NEW s \in Int
  PROVE  s \div b \in Int /\ s % b \in 0..(b - 1) /\ s = b * (s \div b) + (s % b)
  OBVIOUS

LEMMA QuotientUnique ==
  ASSUME NEW b \in Nat \ {0}, NEW p \in Int, NEW q \in Int,
         NEW r \in 0..(b - 1), NEW t \in 0..(b - 1), b * p + r = b * q + t
  PROVE  p = q
<1>1. b * (p - q) = t - r /\ b * (q - p) = r - t
  OBVIOUS
<1>2. ASSUME p > q PROVE FALSE
  <2>1. b * (p - q) >= b
    BY <1>2
  <2> QED  BY <1>1, <2>1
<1>3. ASSUME q > p PROVE FALSE
  <2>1. b * (q - p) >= b
    BY <1>3
  <2> QED  BY <1>1, <2>1
<1> QED  BY <1>2, <1>3

LEMMA SameBlock ==
  ASSUME NEW b \in Nat \ {0}, NEW v \in Int, NEW s \in Int,
         s \in (v - (v % b))..(v - (v % b) + b - 1)
  PROVE  s \div b = (v - (v % b)) \div b
<1> DEFINE q == v \div b
           w == v - (v % b)
           t == s - w
<1>1. q \in Int /\ v % b \in 0..(b - 1) /\ w = b * q
  BY Quotient
<1>2. w \in Int /\ t \in 0..(b - 1) /\ s = b * q + t /\ w = b * q + 0
  BY <1>1
<1>3. /\ s \div b \in Int /\ s % b \in 0..(b - 1)
      /\ s = b * (s \div b) + (s % b)
  BY Quotient
<1>4. /\ w \div b \in Int /\ w % b \in 0..(b - 1)
      /\ w = b * (w \div b) + (w % b)
  BY <1>2, Quotient
<1> HIDE DEF q, w, t
<1>5. s \div b = q
  BY <1>1, <1>2, <1>3, QuotientUnique
<1>6. 0 \in 0..(b - 1) /\ w \div b = q
  BY <1>1, <1>2, <1>4, QuotientUnique
<1> QED  BY <1>5, <1>6 DEF w

(* The edge.  An address that an entry lists and does not miss is,         *)
(* unmapped, the spelling that the entry's prefix contains.                *)
LEMMA UnmapSpells ==
  ASSUME NEW addr \in [family : {4, 6}, value : Nat, zone : BOOLEAN],
         NEW s \in Spellings(addr), ~Unmap(addr).zone,
         ~(s.family = 6 /\ Unmap(addr).family = 4)
  PROVE  s = Unmap(addr) /\ s.value \in Int /\ s.family \in {4, 6} /\ s.zone = FALSE
<1> DEFINE plain == Address(addr.family, addr.value)
<1>1. Mapped \in Int /\ addr.family \in {4, 6} /\ addr.value \in Nat /\ addr.zone \in BOOLEAN
  BY NetworksAssumption DEF Mapped
<1>2. addr = [family |-> addr.family, value |-> addr.value, zone |-> addr.zone]
  OBVIOUS
<1>3. ASSUME Unmap(addr) = addr PROVE addr = plain
  <2>1. addr.zone = FALSE
    BY <1>1, <1>3, Zenon
  <2> QED  BY <1>2, <2>1 DEF Address
<1>4. CASE InMapped(addr)
  <2>1. /\ Unmap(addr) = Address(4, addr.value - Mapped) /\ addr.family = 6
        /\ s = plain \/ s = Unmap(addr)
    BY <1>4 DEF Unmap, Spellings, InMapped
  <2>2. Unmap(addr).family = 4 /\ plain.family = 6
    BY <2>1 DEF Address
  <2>3. s = Unmap(addr)
    BY <2>1, <2>2
  <2> QED  BY <1>1, <2>1, <2>3 DEF Address
<1>5. CASE ~InMapped(addr)
  <2>1. Unmap(addr) = addr /\ addr = plain
    BY <1>3, <1>5 DEF Unmap
  <2>2. s = plain \/ (addr.family = 4 /\ s = Address(6, Mapped + addr.value))
    BY <1>5 DEF Spellings
  <2>3. s = plain
    BY <2>1, <2>2 DEF Address
  <2> QED  BY <1>1, <2>1, <2>3 DEF Address
<1> QED  BY <1>4, <1>5

LEMMA ListedIsLocal ==
  ASSUME NEW entries, Malformed \notin ToSet(entries), NEW e \in ToSet(entries),
         e.family \in {4, 6}, e.value \in Nat, e.bits \in -1..Width(e.family),
         NEW addr \in [family : {4, 6}, value : Nat, zone : BOOLEAN],
         Lists(e, addr), ~Misses(e, addr)
  PROVE  IsLocalIP(ParseLocalNetworks(entries).prefixes, addr)
<1> DEFINE p == Masked(e)
           b == Block(p)
           bits == IF e.bits < 0 THEN Width(e.family) ELSE e.bits
<1>1. PICK s \in Spellings(addr) :
         s.family = e.family /\ s.value \in p.value..(p.value + b - 1)
  BY DEF Lists
<1>2. s = Unmap(addr) /\ s.value \in Int /\ s.zone = FALSE
  BY <1>1, UnmapSpells DEF Misses
<1>3. p \in ParseLocalNetworks(entries).prefixes
  BY DEF ParseLocalNetworks, Lists
<1>4. /\ p.family = e.family /\ p.bits = bits
      /\ p.value = e.value - (e.value % Block([family |-> e.family, value |-> e.value,
                                               bits |-> bits]))
  BY DEF Masked
<1>5. b = 2^(Width(e.family) - bits)
      /\ Block([family |-> e.family, value |-> e.value, bits |-> bits]) = b
  BY <1>4 DEF Block
<1>6. b \in Nat \ {0}
  <2>1. Width(e.family) \in 0..Width6
    BY NetworksAssumption DEF Width
  <2>2. Width(e.family) - bits \in 0..Width6
    BY <2>1, NetworksAssumption
  <2>3. \A n \in Nat : 2^n \in Int
    OBVIOUS
  <2>4. 0..Width6 \subseteq Nat
    BY NetworksAssumption
  <2> HIDE DEF b, bits
  <2>5. b \in Int /\ b > 0
    BY <1>5, <2>2, <2>3, <2>4, PowersArePositive
  <2> QED  BY <2>5
<1> HIDE DEF p, b, bits
<1>7. s.value \div b = p.value \div b
  <2>1. p.value = e.value - (e.value % b)
    BY <1>4, <1>5
  <2>2. s.value \in (e.value - (e.value % b))..(e.value - (e.value % b) + b - 1)
    BY <1>1, <2>1
  <2> QED  BY <1>2, <1>6, <2>1, <2>2, SameBlock
<1>8. PrefixContains(p, s)
  BY <1>1, <1>2, <1>4, <1>7 DEF PrefixContains, b, p
<1> QED  BY <1>2, <1>3, <1>8 DEF IsLocalIP

(* Whoever runs has parsed the networks of this start.                     *)
EdgeInv ==
  /\ phase \notin Ended => settings \in Settings /\ Malformed \notin ToSet(settings.locals)
  /\ LocalsLeftAlone

LEMMA LocalsAreLocal ==
  ASSUME EdgeInv, Serving, NEW ip \in Clients, ~IsLocal(ip), NEW w \in Listing(ip)
  PROVE  Misses(w[1], w[2])
<1>1. settings \in Settings /\ Malformed \notin ToSet(settings.locals)
  BY DEF EdgeInv, Serving, Ended
<1>2. ASSUME NEW e \in ToSet(settings.locals), Lists(e, ip), ~Misses(e, ip)
      PROVE  FALSE
  <2>1. e \notin {Blank, Malformed}
    BY <1>2 DEF Lists
  <2>2. e.family \in {4, 6} /\ e.value \in Nat /\ e.bits \in -1..Width(e.family)
    BY <1>1, <2>1, StartupAssumption
  <2>3. ip \in [family : {4, 6}, value : Nat, zone : BOOLEAN]
    BY HandlersAssumption
  <2> QED  BY <1>1, <1>2, <2>2, <2>3, ListedIsLocal DEF IsLocal, LocalNetworks
<1>3. w[1] \in ToSet(settings.locals) /\ Lists(w[1], ip) /\ w[2] = ip
  BY DEF Listing
<1> QED  BY <1>2, <1>3

LEMMA SettingsStay ==
  ASSUME EdgeInv, Start \/ Stop \/ UNCHANGED startSide, UNCHANGED wronged
  PROVE  EdgeInv'
<1> USE DEF EdgeInv, LocalsLeftAlone, Ended
<1>1. ASSUME NEW conf \in Settings, LoadConfig(conf) PROVE EdgeInv'
  BY <1>1 DEF LoadConfig, ParseLocalNetworks
<1>2. ASSUME phase \notin Ended, UNCHANGED settings PROVE EdgeInv'
  BY <1>2
<1>3. ASSUME UNCHANGED startSide PROVE EdgeInv'
  BY <1>3 DEF startSide
<1> QED  BY <1>1, <1>2, <1>3 DEF Start, Stop, OpenSQLiteDB, ReadVersions, Skip, Execute,
            RecordVersion, Migrated, Build

LEMMA Edge == ProgramSpec => []EdgeInv
<1>1. ProgramInit => EdgeInv
  BY DEF ProgramInit, HandlersInit, StartInit, EdgeInv, LocalsLeftAlone, Ended
<1>2. ASSUME EdgeInv, [ProgramNext]_programVars PROVE EdgeInv'
  <2>1. Start \/ Stop \/ UNCHANGED startSide
    BY <1>2, StartSide
  <2>2. CASE UNCHANGED wronged
    BY <1>2, <2>1, <2>2, SettingsStay
  <2>3. ASSUME NEW ip \in Clients, NEW trap, CheckHandler(ip, trap) PROVE EdgeInv'
    <3>1. \A w \in Listing(ip) : Misses(w[1], w[2])
      BY <1>2, <2>3, LocalsAreLocal DEF CheckHandler
    <3>2. UNCHANGED <<phase, settings>> /\ wronged' \subseteq wronged \cup Listing(ip)
      BY <2>3 DEF CheckHandler, startVars
    <3> QED  BY <1>2, <3>1, <3>2 DEF EdgeInv, LocalsLeftAlone
  <2>4. ASSUME NEW ip \in Clients, ReportThreatHandler(ip) PROVE EdgeInv'
    <3>1. \A w \in Listing(ip) : Misses(w[1], w[2])
      BY <1>2, <2>4, LocalsAreLocal DEF ReportThreatHandler
    <3>2. UNCHANGED <<phase, settings>> /\ wronged' \subseteq wronged \cup Listing(ip)
      BY <2>4 DEF ReportThreatHandler, startVars
    <3> QED  BY <1>2, <3>1, <3>2 DEF EdgeInv, LocalsLeftAlone
  <2>5. CASE Beside(HandlersNext)
    <3>1. HandlersNext
      BY <2>5 DEF Beside
    <3>2. CASE Starting \/ Ending
      BY <2>2, <3>2 DEF Starting, Ending, tableVars
    <3>3. ASSUME StatusStep \/ Tick \/ \E ip \in Clients : Expire(ip)
          PROVE  UNCHANGED wronged
      BY <3>3 DEF StatusStep, StatusHandler, CountEntries, CountThreats, Tick, Expire,
         tableVars
    <3> QED  BY <2>2, <2>3, <2>4, <3>1, <3>2, <3>3 DEF HandlersNext, Serve, ChangeTable
  <2>6. ASSUME Browse PROVE UNCHANGED wronged
    <3>1. ASSUME NEW i \in DOMAIN requests, CountListed(i) \/ ReadListed(i) \/ Arrive(i)
          PROVE  UNCHANGED wronged
      BY <3>1 DEF CountListed, ReadListed, Arrive, Reads, handlerVars, tableVars
    <3>2. ASSUME NEW search, NEW st, NEW offset, LoadRecords(search, st, offset)
          PROVE  UNCHANGED wronged
      BY <3>2 DEF LoadRecords, handlerVars, tableVars
    <3>3. ASSUME NEW text, TypeSearch(text) PROVE UNCHANGED wronged
      BY <3>3 DEF TypeSearch, handlerVars, tableVars
    <3> QED  BY <2>6, <3>1, <3>2, <3>3
                DEF Browse, handleDbSearch, Clear, handleDbStatusChange,
                    handleDbPageChange, Refresh
  <2>7. CASE UNCHANGED programVars
    BY <2>2, <2>7 DEF programVars, handlerVars, tableVars
  <2> QED  BY <1>2, <2>2, <2>5, <2>6, <2>7 DEF ProgramNext
<1>3. EdgeInv /\ [ProgramNext]_programVars => EdgeInv'
  BY <1>2
<1> QED  BY <1>1, <1>3, PTL DEF ProgramSpec

(* No honeytoken and no report ever condemns an address that the           *)
(* configuration of the start lists, with host bits or without and in      *)
(* whatever spelling it comes, unless it has a zone, or is an IPv4 address *)
(* that only an IPv6 entry lists: LocalsLeftAlone, for addresses and       *)
(* prefixes of any width.                                                  *)
THEOREM LocalsSpared == ProgramSpec => []LocalsLeftAlone
<1>1. EdgeInv => LocalsLeftAlone
  BY DEF EdgeInv
<1> QED  BY <1>1, Edge, PTL

-----------------------------------------------------------------------------
(* The tab.  A page under way carries what the server has read for it, and *)
(* is known to have been moved if the table was written in between.        *)
Page ==
  [search : SUBSET Clients, status : Statuses, offset : Int, total : Nat, size : Nat, moved : BOOLEAN,
   at : {"asked", "counted", "answered", "failed"}]

TabTyped ==
  /\ requests \in Seq(Page) /\ dbPage \in Page
  /\ dbSearch \in SUBSET Clients /\ dbStatus \in Statuses /\ dbOffset \in Int

Fits(page) == ~page.moved => page.size = PageSize(page.total, page.offset)
ReadSoFar(page) ==
  /\ page.at = "counted" /\ ~page.moved => page.total = Cardinality(Matching(page.search, page.status))
  /\ page.at = "answered" => Fits(page)
Asked(page) == page.at # "failed" => Query(page) \in together
Named(query) ==
  query[2] = dbStatus /\ query[3] = dbOffset /\ (typed \/ query[1] = dbSearch)

PagesRead == \A i \in DOMAIN requests : ReadSoFar(requests[i])
AllAsked == \A i \in DOMAIN requests : Asked(requests[i])
ControlsKept == \A query \in together : together = {query} => Named(query)

TabInv ==
  TabTyped /\ PagesRead /\ AllAsked /\ ControlsKept /\ PageFitsTotal /\ TabShowsItsPage

LEMMA Counts ==
  ASSUME NEW search \in SUBSET Clients, NEW st
  PROVE  Cardinality(Matching(search, st)) \in Nat
<1>1. Matching(search, st) \subseteq Clients /\ IsFiniteSet(Clients)
  BY HandlersAssumption DEF Matching
<1> QED  BY <1>1, FS_Subset, FS_CardinalityType

LEMMA Sizes ==
  ASSUME NEW found \in Nat, NEW offset \in Int
  PROVE  PageSize(found, offset) \in Nat
  BY ProgramAssumption DEF PageSize

LEMMA EmptyPages == NoPage \in Page /\ Failed \in Page /\ Fits(NoPage)
<1>1. NoPage \in Page
  BY DEF NoPage, Page, Statuses
<1>2. Failed \in Page
  BY <1>1 DEF Failed, Page
<1>3. Fits(NoPage)
  BY DEF NoPage, Fits, PageSize
<1> QED  BY <1>1, <1>2, <1>3

LEMMA FailedRead == Failed \in Page /\ ReadSoFar(Failed)
<1>1. Failed.at = "failed"
  BY DEF Failed, NoPage
<1> QED  BY <1>1, EmptyPages DEF ReadSoFar

LEMMA Removed ==
  ASSUME NEW S, NEW s \in Seq(S), NEW i \in DOMAIN s
  PROVE  /\ RemoveAt(s, i) \in Seq(S) /\ Len(RemoveAt(s, i)) = Len(s) - 1
         /\ \A j \in DOMAIN RemoveAt(s, i) : \E k \in DOMAIN s : RemoveAt(s, i)[j] = s[k]
<1> DEFINE l == SubSeq(s, 1, i - 1)
           r == SubSeq(s, i + 1, Len(s))
<1>1. Len(s) \in Nat /\ DOMAIN s = 1..Len(s) /\ i \in 1..Len(s)
  OBVIOUS
<1>2. /\ l \in Seq(S) /\ Len(l) = i - 1
      /\ \A j \in 1..(i - 1) : l[j] = s[j]
  BY <1>1, SubSeqProperties
<1>3. /\ r \in Seq(S) /\ Len(r) = Len(s) - i
      /\ \A j \in 1..(Len(s) - i) : r[j] = s[i + j]
  BY <1>1, SubSeqProperties
<1> HIDE DEF l, r
<1>4. /\ l \o r \in Seq(S) /\ Len(l \o r) = Len(s) - 1
      /\ \A j \in 1..(Len(s) - 1) :
           (l \o r)[j] = IF j <= i - 1 THEN l[j] ELSE r[j - (i - 1)]
  <2>1. /\ l \o r \in Seq(S) /\ Len(l \o r) = Len(l) + Len(r)
        /\ \A j \in 1..(Len(l) + Len(r)) :
             (l \o r)[j] = IF j <= Len(l) THEN l[j] ELSE r[j - Len(l)]
    BY <1>2, <1>3, ConcatProperties
  <2>2. Len(l) + Len(r) = Len(s) - 1
    BY <1>1, <1>2, <1>3
  <2> QED  BY <1>2, <2>1, <2>2
<1>5. RemoveAt(s, i) = l \o r
  BY DEF RemoveAt, l, r
<1>6. ASSUME NEW j \in 1..(Len(s) - 1)
      PROVE  \E k \in DOMAIN s : (l \o r)[j] = s[k]
  <2>1. CASE j <= i - 1
    <3>1. (l \o r)[j] = l[j] /\ l[j] = s[j] /\ j \in DOMAIN s
      BY <1>1, <1>2, <1>4, <2>1
    <3> QED  BY <3>1
  <2>2. CASE j > i - 1
    <3>1. j - (i - 1) \in 1..(Len(s) - i) /\ i + (j - (i - 1)) = j + 1
      BY <1>1, <2>2
    <3>2. (l \o r)[j] = s[j + 1]
      BY <1>1, <1>3, <1>4, <2>2, <3>1
    <3> QED  BY <1>1, <3>2
  <2>3. j <= i - 1 \/ j > i - 1
    BY <1>1
  <2> QED  BY <2>1, <2>2, <2>3, Zenon
<1>7. DOMAIN RemoveAt(s, i) = 1..(Len(s) - 1)
  <2>1. Len(l \o r) = Len(s) - 1 /\ DOMAIN (l \o r) = 1..Len(l \o r)
    BY <1>4
  <2> QED  BY <1>5, <2>1
<1> QED  BY <1>4, <1>5, <1>6, <1>7, Zenon

LEMMA AskingKeepsTab ==
  ASSUME TabInv, NEW search \in SUBSET Clients, NEW st \in Statuses, NEW offset \in Int,
         LoadRecords(search, st, offset)
  PROVE  TabInv'
<1> DEFINE page == [NoPage EXCEPT !.search = search, !.status = st, !.offset = offset]
<1>1. /\ page \in Page /\ page.at = "asked"
      /\ page.search = search /\ page.status = st /\ page.offset = offset
  BY DEF NoPage, Page
<1>2. /\ requests' = Append(requests, page) /\ UNCHANGED <<rows, dbPage>>
      /\ together' = (IF requests = <<>> THEN {} ELSE together) \cup {Query(page)}
      /\ dbSearch' = search /\ dbStatus' = st /\ dbOffset' = offset
  BY DEF LoadRecords, handlerVars, tableVars
<1> HIDE DEF page
<1>3. /\ requests' \in Seq(Page) /\ Len(requests') = Len(requests) + 1
      /\ Len(requests) \in Nat /\ DOMAIN requests = 1..Len(requests)
      /\ DOMAIN requests' = 1..(Len(requests) + 1)
      /\ \A i \in 1..Len(requests) : requests'[i] = requests[i]
      /\ requests'[Len(requests) + 1] = page
  BY <1>1, <1>2, AppendProperties DEF TabInv, TabTyped
<1>4. requests' # <<>>
  BY <1>3
<1>5. TabTyped'
  BY <1>2, <1>3 DEF TabInv, TabTyped
<1>6. PagesRead'
  <2> SUFFICES ASSUME NEW i \in DOMAIN requests' PROVE ReadSoFar(requests[i])'
    BY DEF PagesRead
  <2>1. CASE i = Len(requests) + 1
    BY <1>1, <1>3, <2>1 DEF ReadSoFar
  <2>2. CASE i \in 1..Len(requests)
    <3>1. ReadSoFar(requests[i]) /\ requests'[i] = requests[i]
      BY <1>3, <2>2 DEF TabInv, PagesRead
    <3> QED  BY <1>2, <3>1 DEF ReadSoFar, Matching, Fits
  <2> QED  BY <1>3, <2>1, <2>2
<1>7. AllAsked'
  <2> SUFFICES ASSUME NEW i \in DOMAIN requests' PROVE Asked(requests[i])'
    BY DEF AllAsked
  <2>1. CASE i = Len(requests) + 1
    BY <1>2, <1>3, <2>1 DEF Asked
  <2>2. CASE i \in 1..Len(requests)
    <3>1. Asked(requests[i]) /\ requests'[i] = requests[i] /\ requests # <<>>
      BY <1>3, <2>2 DEF TabInv, AllAsked
    <3> QED  BY <1>2, <3>1 DEF Asked
  <2> QED  BY <1>3, <2>1, <2>2
<1>8. ControlsKept'
  <2> SUFFICES ASSUME NEW query \in together', together' = {query} PROVE Named(query)'
    BY DEF ControlsKept
  <2>1. query = Query(page)
    BY <1>2
  <2> QED  BY <1>1, <1>2, <2>1 DEF Query, Named
<1> QED  BY <1>2, <1>4, <1>5, <1>6, <1>7, <1>8 DEF TabInv, PageFitsTotal, TabShowsItsPage

(* The search is typed in: the controls and what is shown part.            *)
LEMMA TypingKeepsTab ==
  ASSUME TabInv, NEW text \in SUBSET Clients, TypeSearch(text)
  PROVE  TabInv'
<1>1. /\ dbSearch' = text /\ typed'
      /\ UNCHANGED <<rows, dbStatus, dbOffset, dbPage, dbError, requests, together>>
  BY DEF TypeSearch, handlerVars, tableVars
<1>2. TabTyped'
  BY <1>1 DEF TabInv, TabTyped
<1>3. PagesRead'
  BY <1>1 DEF TabInv, PagesRead, ReadSoFar, Fits, Matching
<1>4. AllAsked' /\ ControlsKept'
  BY <1>1 DEF TabInv, AllAsked, ControlsKept, Asked, Named
<1>5. PageFitsTotal' /\ TabShowsItsPage'
  BY <1>1 DEF TabInv, PageFitsTotal, TabShowsItsPage
<1> QED  BY <1>2, <1>3, <1>4, <1>5 DEF TabInv

(* The server replaces a page under way by what it has read for it.        *)
LEMMA ReadingKeepsTab ==
  ASSUME TabInv, NEW i \in DOMAIN requests, NEW from, NEW answer \in Page,
         Reads(i, from, answer), ReadSoFar(answer),
         \/ answer = Failed
         \/ Query(answer) = Query(requests[i]),
         from # "failed"
  PROVE  TabInv'
<1>1. /\ requests' = [requests EXCEPT ![i] = answer] /\ requests[i].at = from
      /\ UNCHANGED <<rows, controls, dbPage, dbError, together, typed>>
  BY DEF Reads, tableVars
<1>2. /\ requests' \in Seq(Page) /\ Len(requests') = Len(requests)
      /\ DOMAIN requests' = DOMAIN requests
      /\ \A j \in DOMAIN requests : requests'[j] = IF j = i THEN answer ELSE requests[j]
  <2>1. requests \in Seq(Page) /\ i \in 1..Len(requests)
    BY DEF TabInv, TabTyped
  <2>2. /\ [requests EXCEPT ![i] = answer] \in Seq(Page)
        /\ Len([requests EXCEPT ![i] = answer]) = Len(requests)
    BY <2>1, ExceptSeq
  <2> QED  BY <1>1, <2>1, <2>2
<1>3. requests # <<>> /\ requests' # <<>>
  BY <1>2
<1>4. PagesRead'
  <2> SUFFICES ASSUME NEW j \in DOMAIN requests PROVE ReadSoFar(requests[j])'
    BY <1>2 DEF PagesRead
  <2>1. CASE j = i
    <3>1. requests'[j] = answer
      BY <1>2, <2>1
    <3> QED  BY <1>1, <3>1 DEF ReadSoFar, Matching, Fits
  <2>2. CASE j # i
    <3>1. ReadSoFar(requests[j]) /\ requests'[j] = requests[j]
      BY <1>2, <2>2 DEF TabInv, PagesRead
    <3> QED  BY <1>1, <3>1 DEF ReadSoFar, Matching, Fits
  <2> QED  BY <2>1, <2>2
<1>5. AllAsked'
  <2> SUFFICES ASSUME NEW j \in DOMAIN requests PROVE Asked(requests[j])'
    BY <1>2 DEF AllAsked
  <2>1. Failed.at = "failed"
    BY DEF Failed, NoPage
  <2>2. Asked(requests[j]) /\ Asked(requests[i])
    BY DEF TabInv, AllAsked
  <2> QED  BY <1>1, <1>2, <2>1, <2>2 DEF Asked
<1>6. ControlsKept'
  BY <1>1 DEF TabInv, ControlsKept, Named, controls
<1> QED  BY <1>1, <1>2, <1>3, <1>4, <1>5, <1>6
            DEF TabInv, TabTyped, PageFitsTotal, TabShowsItsPage, controls

LEMMA ArrivingKeepsTab ==
  ASSUME TabInv, NEW i \in DOMAIN requests, Arrive(i)
  PROVE  TabInv'
<1>1. /\ requests' = RemoveAt(requests, i)
      /\ UNCHANGED <<rows, controls, together, typed>>
  BY DEF Arrive, handlerVars, tableVars
<1>2. /\ requests' \in Seq(Page) /\ Len(requests') = Len(requests) - 1
      /\ \A j \in DOMAIN requests' : \E k \in DOMAIN requests : requests'[j] = requests[k]
  BY <1>1, Removed DEF TabInv, TabTyped
<1>3. requests[i] \in Page /\ Len(requests) \in Nat
  BY DEF TabInv, TabTyped
<1>4. PagesRead'
  <2> SUFFICES ASSUME NEW j \in DOMAIN requests' PROVE ReadSoFar(requests[j])'
    BY DEF PagesRead
  <2>1. PICK k \in DOMAIN requests : requests'[j] = requests[k]
    BY <1>2
  <2>2. ReadSoFar(requests[k])
    BY DEF TabInv, PagesRead
  <2> QED  BY <1>1, <2>1, <2>2 DEF ReadSoFar, Matching, Fits
<1>5. AllAsked' /\ ControlsKept'
  <2>1. AllAsked'
    <3> SUFFICES ASSUME NEW j \in DOMAIN requests' PROVE Asked(requests[j])'
      BY DEF AllAsked
    <3>1. PICK k \in DOMAIN requests : requests'[j] = requests[k]
      BY <1>2
    <3>2. Asked(requests[k])
      BY DEF TabInv, AllAsked
    <3> QED  BY <1>1, <3>1, <3>2 DEF Asked
  <2>2. ControlsKept'
    BY <1>1 DEF TabInv, ControlsKept, Named, controls
  <2> QED  BY <2>1, <2>2
<1>6. CASE requests[i].at = "failed"
  <2>1. dbError' /\ UNCHANGED dbPage
    <3>1. dbError' = (requests[i].at = "failed")
      BY DEF Arrive
    <3>2. dbError'
      BY <1>6, <3>1, Zenon
    <3> QED  BY <3>2, Zenon DEF Arrive
  <2> QED  BY <1>1, <1>2, <1>4, <1>5, <2>1
              DEF TabInv, TabTyped, PageFitsTotal, TabShowsItsPage, controls
<1>7. CASE requests[i].at = "answered"
  <2>1. ~dbError' /\ dbPage' = requests[i]
    BY <1>7 DEF Arrive
  <2>2. TabTyped'
    BY <1>1, <1>2, <1>3, <2>1 DEF TabInv, TabTyped, controls
  <2>3. Fits(requests[i])
    BY <1>7 DEF TabInv, PagesRead, ReadSoFar
  <2>4. PageFitsTotal'
    BY <2>1, <2>3 DEF Fits, PageFitsTotal
  <2>5. Query(dbPage)' \in together' /\ Query(dbPage)' = Query(dbPage')
    <3>1. Asked(requests[i])
      BY DEF TabInv, AllAsked
    <3> QED  BY <1>1, <1>7, <2>1, <3>1 DEF Asked, Query
  <2>6. TabShowsItsPage'
    <3>1. together' = {Query(dbPage)'} => Named(Query(dbPage))'
      BY <1>5, <2>5 DEF ControlsKept
    <3> QED  BY <2>5, <3>1 DEF TabShowsItsPage, Named, Query
  <2> QED  BY <1>4, <1>5, <2>2, <2>4, <2>6 DEF TabInv
<1> QED  BY <1>6, <1>7 DEF Arrive

LEMMA BesideKeepsTab ==
  ASSUME TabInv, Beside(HandlersNext)
  PROVE  TabInv'
<1>1. UNCHANGED <<dbSearch, dbStatus, dbOffset, dbPage, dbError, together, typed>>
  BY DEF Beside, controls
<1>2. ASSUME NEW i \in DOMAIN requests
      PROVE  /\ requests'[i] \in Page /\ ReadSoFar(requests[i])'
             /\ Asked(requests[i]) => Asked(requests[i])'
  <2>1. requests[i] \in Page /\ ReadSoFar(requests[i])
    BY <1>2 DEF TabInv, TabTyped, PagesRead
  <2>2. CASE requests'[i] = Failed
    <3>1. Failed.at = "failed"
      BY DEF Failed, NoPage
    <3> QED  BY <2>2, <3>1, EmptyPages DEF ReadSoFar, Asked
  <2>3. CASE requests'[i] = [requests[i] EXCEPT !.moved = TRUE] /\ requests[i].at = "counted"
    BY <1>1, <2>1, <2>3 DEF Page, ReadSoFar, Fits, Asked, Query
  <2>4. CASE requests'[i] = requests[i] /\ ~(requests[i].at = "counted" /\ rows' # rows)
    BY <1>1, <2>1, <2>4 DEF ReadSoFar, Fits, Asked, Matching
  <2>5. requests'[i] =
          CASE phase' # "serve" /\ requests[i].at # "answered" -> Failed
            [] requests[i].at = "counted" /\ rows' # rows ->
                 [requests[i] EXCEPT !.moved = TRUE]
            [] OTHER -> requests[i]
    BY <1>2 DEF Beside
  <2>6. CASE phase' # "serve" /\ requests[i].at # "answered"
    BY <2>2, <2>3, <2>5, <2>6
  <2>7. CASE ~(phase' # "serve" /\ requests[i].at # "answered")
    BY <2>3, <2>4, <2>5, <2>7
  <2> QED  BY <2>6, <2>7
<1>3. /\ DOMAIN requests' = DOMAIN requests /\ DOMAIN requests = 1..Len(requests)
      /\ Len(requests) \in Nat
  BY DEF Beside, TabInv, TabTyped
<1>4. requests' = [i \in 1..Len(requests) |-> requests'[i]]
  BY <1>3 DEF Beside
<1>5. requests' \in Seq(Page) /\ Len(requests') = Len(requests)
  BY <1>2, <1>3, <1>4
<1>6. requests' = <<>> => requests = <<>>
  BY <1>5 DEF TabInv, TabTyped
<1>7. TabTyped' /\ PagesRead' /\ AllAsked'
  BY <1>1, <1>2, <1>3, <1>5 DEF TabInv, TabTyped, PagesRead, AllAsked
<1>8. ControlsKept'
  BY <1>1 DEF TabInv, ControlsKept, Named
<1>9. PageFitsTotal' /\ TabShowsItsPage'
  BY <1>1, <1>6 DEF TabInv, PageFitsTotal, TabShowsItsPage
<1> QED  BY <1>7, <1>8, <1>9 DEF TabInv

LEMMA BrowsingKeepsTab ==
  ASSUME TabInv, Browse
  PROVE  TabInv'
<1>1. /\ dbSearch \in SUBSET Clients /\ dbStatus \in Statuses
      /\ dbOffset \in Int /\ 0 \in Int
  BY DEF TabInv, TabTyped
<1>2. ASSUME NEW st \in Statuses, handleDbStatusChange(st) PROVE TabInv'
  BY <1>1, <1>2, AskingKeepsTab DEF handleDbStatusChange
<1>7. ASSUME handleDbSearch \/ Clear PROVE TabInv'
  BY <1>1, <1>7, AskingKeepsTab DEF handleDbSearch, Clear
<1>3. ASSUME handleDbPageChange PROVE TabInv'
  <2>1. PICK offset \in Buttons : LoadRecords(dbSearch, dbStatus, offset)
    BY <1>3 DEF handleDbPageChange
  <2>2. offset \in Int
    BY <1>1, ProgramAssumption DEF Buttons
  <2> QED  BY <1>1, <2>1, <2>2, AskingKeepsTab
<1>4. ASSUME Refresh PROVE TabInv'
  BY <1>1, <1>4, AskingKeepsTab DEF Refresh
<1>5. ASSUME NEW i \in DOMAIN requests, CountListed(i) PROVE TabInv'
  <2> DEFINE n == Cardinality(Matching(requests[i].search, requests[i].status))
             answer == [requests[i] EXCEPT !.at = "counted", !.total = n]
  <2>1. requests[i] \in Page /\ n \in Nat
    <3>1. requests[i] \in Page
      BY DEF TabInv, TabTyped
    <3>2. requests[i].search \in SUBSET Clients
      BY <3>1 DEF Page
    <3> QED  BY <3>1, <3>2, Counts
  <2>2. /\ answer \in Page /\ answer.at = "counted" /\ answer.total = n
        /\ answer.search = requests[i].search /\ answer.status = requests[i].status
        /\ answer.offset = requests[i].offset
    BY <2>1 DEF Page
  <2>3. ReadSoFar(answer) /\ Query(answer) = Query(requests[i])
    BY <2>2 DEF ReadSoFar, Query
  <2>4. CASE Reads(i, "asked", answer)
    BY <2>2, <2>3, <2>4, ReadingKeepsTab
  <2>5. CASE Reads(i, "asked", Failed)
    BY <2>5, FailedRead, ReadingKeepsTab
  <2> QED  BY <1>5, <2>4, <2>5 DEF CountListed
<1>6. ASSUME NEW i \in DOMAIN requests, ReadListed(i) PROVE TabInv'
  <2> DEFINE found == Cardinality(Matching(requests[i].search, requests[i].status))
             n == PageSize(found, requests[i].offset)
             answer == [requests[i] EXCEPT !.at = "answered", !.size = n]
  <2>1. /\ requests[i] \in Page /\ requests[i].offset \in Int
        /\ found \in Nat
    <3>1. requests[i] \in Page
      BY DEF TabInv, TabTyped
    <3> QED  BY <3>1, Counts DEF Page
  <2>2. n \in Nat
    BY <2>1, Sizes
  <2>3. /\ answer \in Page /\ answer.at = "answered" /\ answer.size = n
        /\ answer.search = requests[i].search /\ answer.status = requests[i].status
        /\ answer.offset = requests[i].offset
        /\ answer.total = requests[i].total /\ answer.moved = requests[i].moved
    BY <2>1, <2>2 DEF Page
  <2>4. CASE Reads(i, "counted", answer)
    <3>1. ReadSoFar(requests[i]) /\ requests[i].at = "counted"
      BY <2>4 DEF TabInv, PagesRead, Reads
    <3>2. ReadSoFar(answer) /\ Query(answer) = Query(requests[i])
      BY <2>3, <3>1 DEF ReadSoFar, Fits, Query
    <3> QED  BY <2>3, <2>4, <3>2, ReadingKeepsTab
  <2>5. CASE Reads(i, "counted", Failed)
    BY <2>5, FailedRead, ReadingKeepsTab
  <2> QED  BY <1>6, <2>4, <2>5 DEF ReadListed
<1>8. Searches \subseteq SUBSET Clients
  BY ProgramAssumption
<1> QED  BY <1>2, <1>3, <1>4, <1>5, <1>6, <1>7, <1>8, ArrivingKeepsTab, TypingKeepsTab DEF Browse

LEMMA Tab == ProgramSpec => []TabInv
<1>1. ProgramInit => TabInv
  <2> SUFFICES ASSUME ProgramInit PROVE TabInv
    OBVIOUS
  <2>1. /\ dbPage = NoPage /\ requests = <<>> /\ together = {Query(NoPage)}
        /\ dbSearch = NoPage.search /\ dbStatus = NoPage.status
        /\ dbOffset = NoPage.offset
    BY DEF ProgramInit, NoPage
  <2>2. dbSearch \in SUBSET Clients /\ dbStatus \in Statuses /\ dbOffset \in Int
    BY <2>1, EmptyPages DEF Page
  <2>3. TabTyped
    BY <2>1, <2>2, EmptyPages DEF TabTyped
  <2>4. PagesRead /\ AllAsked /\ ControlsKept
    BY <2>1 DEF PagesRead, AllAsked, ControlsKept, Named, Query
  <2>5. PageFitsTotal
    BY <2>1, EmptyPages DEF Fits, PageFitsTotal
  <2> QED  BY <2>1, <2>2, <2>3, <2>4, <2>5 DEF TabInv, TabShowsItsPage
<1>2. TabInv /\ UNCHANGED programVars => TabInv'
  <2> SUFFICES ASSUME TabInv, UNCHANGED programVars PROVE TabInv'
    OBVIOUS
  <2>1. UNCHANGED <<rows, dbPage, dbError, requests, controls,
                  together, typed>>
    BY DEF programVars, handlerVars, tableVars, tabVars
  <2>2. TabTyped' /\ AllAsked' /\ ControlsKept' /\ PageFitsTotal' /\ TabShowsItsPage'
    BY <2>1 DEF TabInv, TabTyped, AllAsked, ControlsKept, Asked, Named, PageFitsTotal,
       TabShowsItsPage, controls
  <2>3. PagesRead'
    <3> SUFFICES ASSUME NEW i \in DOMAIN requests PROVE ReadSoFar(requests[i])'
      BY <2>1 DEF PagesRead
    <3> QED  BY <2>1 DEF TabInv, PagesRead, ReadSoFar, Fits, Matching
  <2> QED  BY <2>2, <2>3 DEF TabInv
<1>3. TabInv /\ [ProgramNext]_programVars => TabInv'
  BY <1>2, BesideKeepsTab, BrowsingKeepsTab DEF ProgramNext
<1> QED  BY <1>1, <1>3, PTL DEF ProgramSpec

(* Unless a row was written between the count and the page, the tab shows  *)
(* a page as long as its total allows, whatever failed, restarted or       *)
(* overtook it: PageFitsTotal.                                             *)
THEOREM PagesFit == ProgramSpec => []PageFitsTotal
<1>1. TabInv => PageFitsTotal
  BY DEF TabInv
<1> QED  BY <1>1, Tab, PTL

(* When nothing is under way the tab shows an error or a page asked for    *)
(* since the last time nothing was, and the one that its controls name if  *)
(* that was all, but for a search typed since: TabShowsItsPage.            *)
THEOREM TabFollowsControls == ProgramSpec => []TabShowsItsPage
<1>1. TabInv => TabShowsItsPage
  BY DEF TabInv
<1> QED  BY <1>1, Tab, PTL
=============================================================================
