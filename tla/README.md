# A TLA+ model of RepGate

RepGate is a reputation gate for a reverse proxy. The proxy asks `GET /check`
about every request; RepGate answers 200 or 403 from what it knows of the client's
IP: an in-memory cache (L1), a SQLite table (L2), the AbuseIPDB service, and the
*honeytoken* paths that only an attacker asks for (active defence). It keeps a log
of its verdicts, streams it to a dashboard, and reports trapped IPs to AbuseIPDB.

This directory holds TLA+ modules of the program, the TLC configurations that
check them on small instances, and proofs that TLAPS checks. `PROJECT.json` maps
every definition to the lines it stands for and lists runs, mutants, findings,
hazards and theorems. Paths below are those of the repository.

## Inventory

| Component | Source | State | Operations | Modelled in |
|---|---|---|---|---|
| L1 cache | `internal/cache/ip_cache.go` | map, LRU list, threat count; one mutex | Get, Set (overwrite, evict, insert), Remove, RemoveExpired, counts | `IPCache`, `CacheUse`, `LRUCache` |
| AbuseIPDB source | `internal/threatcheck/abuseipdbclient.go` | the L1 cache, the breaker's two fields | Check, cleanExpiredIP, allowRequest, recordSuccess, recordFailure, CleanExpired | `ThreatGate`, `ReputationClient` (breaker) |
| Active defence | `internal/activedefence/activedefence.go` | singleflight group, goroutines under way | Check, ReportThreat, reportToAbuseIPDB, (Wait: never called), parseExpirationTime | `ThreatGate`, `Startup` |
| ip_records (L2) | `internal/storage/ip_repository.go` | one row per IP | GetByIp, GetRecord, Update, Delete, DeleteExpired; Count, ThreatCount, ListRecords | `ThreatGate` (all that write, and the reads that decide), `GateViews`, `Handlers`, `Program` |
| Check and report handlers | `internal/api/handlers/check_handler.go`, `report_threat_handler.go` | none | one request each | `ThreatGate` (decision and error paths), `Handlers` (the edge) |
| AbuseIPDB REST client | `internal/abuseipdb/abuseipdbrestclient.go` | singleflight group | CheckIP, ReportIP | `ReputationClient`, `ThreatGate` (outcomes) |
| Clean-up worker | `cmd/repgate/main.go` | an hourly ticker | expired rows, expired cache entries, gauges, old events | `ThreatGate`, `GateViews`, `EventService` |
| Event service | `internal/event/service.go` | queue, subscribers, one mutex | Publish, Subscribe, Unsubscribe, the processor | `EventService`, `EventLog` |
| events table | `internal/storage/event_repository.go` | rows, AUTOINCREMENT sequence | Insert, DeleteOlderThan; GetEvents | `EventService` (writes), `LiveFeed` (pages) |
| Stream handler | `internal/api/handlers/stream_logs_handler.go` | one channel per client | the SSE loop | `EventService` |
| Live feed (browser), events handler | `web/src/lib/LiveTrafficFeed.svelte`, `api.ts`, `internal/api/handlers/events_handler.go` | list, oldest id, filter, connection | first page, more pages, SSE, setFilter | `LiveFeed` over `EventLog` |
| Database tab, record listing | `web/src/lib/DatabaseTab.svelte`, `db_records_handler.go` | the page shown, the controls | offset paging, filters, refresh | `Program` |
| Status handler | `internal/api/handlers/status_handler.go` | counts cached for 15 s | status | `Handlers` |
| Metrics | `internal/metrics/metrics.go` | gauges adjusted beside the table | Inc, Dec, Set | `GateViews` (those of the table) |
| Start-up, migrations | `cmd/repgate/main.go`, `internal/storage/migrations.go`, `sqlite.go` | schema_migrations | LoadConfig, OpenSQLiteDB, RunMigrations, buildThreatSources, shutdown | `Startup` |
| Configuration, handler base | `internal/config/config.go`, `internal/api/handlers/handler.go` | none of their own | ParseLocalNetworks, IsLocalIP | `Networks` |
| Router, alerts, widgets | `internal/api/router.go`, `internal/alerts`, `web/src` | none of their own | wiring, presentation | the router's timeout in `ReputationClient`; else not modelled |

How they meet. A check goes through the sources in order, active defence first.
A honeytoken path makes it a *trap*: `ReportThreat` writes a threat row, writes the
same record to L1, answers 403 and spawns a goroutine that reports the IP and
writes the row and L1 again, marked. `POST /report-threat` is the same without the
verdict. Any other check looks in L1, then in the table, then asks AbuseIPDB
through the breaker, saves the answer in the table and in L1. The clean-up worker
deletes from both. Every verdict is published to the event queue; the processor
saves it and offers it to the streams.

What is hard. No lock spans two calls: between the lookup in L1, the row read, the
call of AbuseIPDB, the save, the read back and the fill, any other request, a
report, the clean-up, an expiry or a crash may come in. Every statement may fail,
not least because the client's context ends with its connection. The queue and the
channels drop when full. What makes each component correct:

- *L1*: map, list and count are one thing; the victim is the least recently used.
- *The gate*: an answer rests on something learnt of the IP; a trap blocks for as
  long as it says, in both tiers; its row is not deleted before; reports are neither
  marked unmade nor made twice; every request and report ends.
- *The way to AbuseIPDB*: an open breaker lets nothing through, and opens again for
  all in the end; nobody fails because somebody else's client went away.
- *The events*: one order for table and streams; ids that name and order; no send
  on a closed channel; nobody waits for ever; a feed that shows everything once.
- *The process*: nothing is served on half a schema; a start can be repeated; local
  clients are never blocked; gauges, status and tab agree with the table.

## Modules

- **`IPCache`**, a state machine of the cache. Each method holds the mutex
  throughout, so each is one action. List elements are found by their IP instead of
  by a pointer, which `LruListsCache` makes the same. The order of a Go map's
  iteration decides nothing: `RemoveExpired` removes a set.
- **`LRUCache`**, what such a cache promises, without list or counter: contents and
  a relation "used after". `IPCache!ImplementsLRUCache` is the refinement, with the
  order of the list for the relation. A `MaxSize` below 1 gives a cache of one
  entry, as the code does (`Capacity`).
- **`CacheUse`** adds the history of the calls. A `Get` that forgot to touch the list
  would refine `LRUCache` by stuttering; `EvictsLeastRecentlyUsed` judges evictions by
  what callers asked for.
- **`ThreatGate`**, the gate. It takes its L1 from `IPCache` through `INSTANCE`
  (`L1!Get`, `L1!Set`, ...). Each worker is an HTTP goroutine and `pc` its place:
  `LookInCache` -> (`CleanGet` -> `CleanRemove` -> `CleanDelete`) ->
  `LookInDatabase` -> `PassBreaker` -> `AskAbuseIPDB` -> `SaveChecked` ->
  `RereadChecked` -> `RecordSuccess` | `RecordFailure` -> `FillCache` is
  `AbuseIPDBThreatSource.Check`; `TrapRead` -> `TrapSave` -> `TrapReread` ->
  `TrapFill` is `ReportThreat`; `StartFlight` | `JoinFlight`, `FlightRead`,
  `FlightCall`, `FlightSave`, `FlightReread`, `FlightFill` is the report goroutine
  under singleflight; `DeleteExpired`, `SweepCache` the clean-up; `Tick` the clock;
  `Crash` the end of the process and its restart. A step is one mutex-protected call
  or one SQL statement, with the local computation next to it.
- **`GateEvidence`** adds history variables: what was learnt of each IP, and every
  record the table held. **`GatePromise`** adds others: until when an IP is to be
  blocked, and which traps nothing overlapped. They restrict no step of the gate.
- **`GateViews`** puts the gauges of the table on top of `ThreatGate`: the read before
  a check's save (`SeeRow`), what each step of the gate does to them, their counts
  after a round's delete and at a start, each of which may fail. A request that has
  stored a record *owes* the gauges their change until it makes it. `blurred` says
  that something the code does not guard against made them inexact since they were
  set: one of the four `Slips` (a record written over a row whose status is not the
  one seen before, a delete of a row other than the one seen, a record stored and
  never counted since its reading back failed, a report that writes back a row that
  changed), a count while some request owes, or a failed read.
- **`Breaker`** is what a circuit breaker promises; **`ReputationClient`** is the one of
  the code with `CheckIP` under it: `PassBreaker` -> `Ask` (DoChan) -> `Receive` ->
  `Save` -> `RecordSuccess` | `RecordFailure`, `AbuseIPDBAnswers` for the shared
  call, `GoAway` for the end of a request's context. It refines `Breaker`; how
  failures are counted is its own affair.
- **`EventService`**, queue, processor, streams, table, retention and crashes. It
  carries the history of what was fanned out. **`EventLog`** is what it promises to
  those who read events; `EventService!ImplementsEventLog` is the refinement.
- **`LiveFeed`**, one browser over `EventLog`: pages asked for, read (whole or, since
  `GetEvents` does not look at `rows.Err()`, in part) and answered in any order, the
  stream, its breaks, the filter. Three histories serve the properties: `lost`, what
  the feed misses and where; `stale`, whether an answer to the last filter was merged
  after the change of filter; `overtaken`, the events that were saved but still on
  their way by the stream when the first page was read and ended above them.
- **`Networks`**, a pure module: `ParseLocalNetworks`, `IsLocalIP`, and `Lists`, what
  the administrator means, independent of both: an address from the first of the
  entry's block to the last, in any spelling, with or without a zone. `Misses` tells
  the two ways in which the code does not match what is listed.
- **`Startup`** (on `Networks`), `main` from the configuration to the server, a step
  per statement, those of a migration file included (`db.Exec` commits each by
  itself); **`Handlers`** (on `Startup`), the edge of the check and report handlers,
  and the status handler; **`Program`** (on `Handlers`), the whole with a database
  tab, whose search changes while it is typed (`TypeSearch`) and is read by whichever
  load comes next. Beyond the edge a request stores a row or does not: that is
  `ThreatGate`.
- **`IPCacheProofs`**, **`GateProofs`**, **`HistoryProofs`** (about `GateEvidence` and
  `GatePromise`), **`GaugeProofs`** (about `GateViews`), **`ClientProofs`**,
  **`EventProofs`**, **`FeedProofs`**, **`ProgramProofs`**: theorems about the modules
  above and their proofs.
- **`MC*`**: the modules TLC runs, with symmetry sets and bounds.

Operators whose comment begins with *Mutant of* are faulty versions of the
definition that follows. No specification uses them; each property of a passing run
has one that, put in place of the original, breaks it (`mutants` in `PROJECT.json`).

What the modules abstract. A record keeps its status, score, expiry and mark; its
source and time of checking decide nothing. Time is counted in ticks, and two steps
may share an instant, which makes every `Before` and `<=` at equality matter. A
path is a honeytoken or it is not. Requests of `ThreatGate` are those of valid,
non-local IPs: the others are answered at the edge (`Handlers`). A failed statement, a
statement cut off by the client's context and a failed call of AbuseIPDB are all a
*fault*. A fault of the gate's upsert leaves the row as it was, and one of the read
back that follows in the same call leaves it written; the insert of an event, which
is one statement, may fail either way. `ReportIP` may also fail with the report
taken. A threshold may be any integer: nothing validates it. A source that is enabled without an API key is skipped by the handler but its cache is still
written, to no effect: it counts as not enabled.

## Runs

All runs finish; deadlock is checked in all but `feed` and the `program` runs, which
stop when their bounds are used up.

| Run | Instance | Shows |
|---|---|---|
| `ip_cache` | 4 IPs over 3 entries, both statuses, 2 expiries, sweeps at 3 instants | types, one entry per element, exact count, bound, refinement of `LRUCache`, evictions in the order of the calls. An eviction chooses among three; every path that touches the count runs with threats and safe records. |
| `gate_sharing` | 2 workers, 2 IPs, L1 of 1 entry, 2 requests, scores below and *at* the threshold, 1 fault, 1 crash | types, `ReportedWasSent`, `VerdictHasEvidence`, `CachedWasWritten` under concurrent checks and reports that evict each other. |
| `gate_promise` | 2 workers, 1 IP AbuseIPDB calls clean, 3 requests, 1 fault, 1 crash | `UndisturbedBlockKept`, `UndisturbedTrapHolds`: after one trap that nothing overlapped, two more requests that overlap each other and the report. A clean IP is the worst case: any lost block shows. |
| `gate_gauges` | 2 workers, 1 IP, scores on both sides of the threshold, 2 requests with their reports, 1 fault, 1 crash, 1 failed read for the gauges | `GaugesExact`: the transitions of a row's status, over expiry, eviction and restart, while two requests, their reports and the clean-up interleave. |
| `gate_liveness` | 2 workers, 1 IP, 2 requests, 1 fault, 1 crash, fair | `RequestsAnswered`, `ReportsSettle`, `ExpiredRowsGo`. |
| `event_service` | 2 publishers, 1 stream, queue and channel of 1, 3 events, 1 fault, 1 crash, fair | the order, ids, fetchability of events, closing of channels, refinement of `EventLog`, liveness. Three events overfill both the queue and the channel. |
| `client` | 2 checks, 2 IPs, tolerances 0, 1 and 2, cool-down 2, 2 faults, fair | `NobodyFailsForAnother`, refinement of `Breaker`, `ChecksEnd`, `BreakerRecovers`. Two faults open each of the breakers; two checks share a call or race each other for the breaker. |
| `feed` | 4 events, pages of 2, 3 pages asked for, 1 change of filter, 1 break, 1 failure | `FeedInOrder`, `NothingElseLost`. Four events make two full pages; pages and stream overlap by up to two. |
| `program` | 3 migrations of 3, 2 and 1 statements, the last of which cannot run twice, 5 configurations, 3 starts, 2 faults, 3 clients, 2 writes, fair | `SchemaBeforeService`, `OnlyTornFails`, `LocalsLeftAlone`, `CountsCatchUp`. A start meets what any end or failure of two earlier ones left. One client comes in the IPv6 spelling of an address that is listed, one has a zone; one configuration lists a prefix with host bits set, one a network in the IPv6 spelling, so that both kinds of entry that miss a client occur. |
| `program_tab` | 1 migration, 2 starts, 1 fault, 2 clients that are not local, 2 writes, pages of 1 row, 2 pages asked for, 2 texts; without the status handler (`TabSpec`), which only reads the same table | `PageFitsTotal`, `TabShowsItsPage`: pages, searches typed and submitted, writes, failures and one restart in any order. |
| `gate_race`, `gate_reports` | small | each finds the one property it checks violated: see Findings. |

Two IPs are enough to have an eviction in an L1 of one entry; two workers to have
every pairwise interleaving on one IP; three requests to have two that overlap and
one that meets their result. Times run to 1 or 2 with lifetimes of 0 to 2, so
that entries and rows are met before, at and after their expiry. Symmetry is in the
workers only, and only in runs without liveness.

**Fairness.** `ThreatGate!FairSpec` assumes weak fairness of each worker, of each
IP's report goroutine, of the clean-up worker and of the clock: Go runs every
runnable goroutine, statements end with `busy_timeout` and calls of AbuseIPDB with
the client's 3 s timeout, in success or failure. Nothing is assumed of arrivals,
faults or crashes (a crash ends the requests and reports it meets by itself).
`EventService!FairSpec` assumes weak fairness of the
processor (its insert has a 2 s timeout) and of a publisher that has stamped an
event, and strong fairness of `Unsubscribe`: the mutex is taken and released over
and over, and Go's mutex hands itself to a waiter that has starved for 1 ms.
`ReputationClient!FairSpec` assumes weak fairness of each check, of each shared call
(which ends within the 3 s of its own context) and of the clock. `ProgramSpec`
assumes it of the steps of a start (a supervisor starts what has ended, while the
bound allows), of the status handler, which every open dashboard calls each 5 s
(`App.svelte:15`), and of the clock; nothing of requests, writes and the tab. The
feed has no liveness property: nothing makes a user scroll.

## Findings

Two runs end in a violation:

- `gate_race`, `TrapHolds`: a check that asked AbuseIPDB before a trap of its IP
  saves AbuseIPDB's answer over the trap's row and cache entry
  (`abuseipdbclient.go:192`, `:134`); the block is gone. `README.md:235` says that "any
  further request from this IP" is refused.
- `gate_reports`, `AtMostOneReport`: a report marked between the read and the write
  of a second `ReportThreat` (`activedefence.go:168`) loses its mark, and the IP is
  reported twice. `activedefence_test.go:260` expects one report.

The first is not the only way in which a trap that something else overlaps loses its
block. `TrapHolds` fails by these too:

- a check that found an expired cache entry deletes the row that a trap has stored
  since (`abuseipdbclient.go:141`);
- a check puts what it read or was told before a trap over the trap's cache entry
  (`abuseipdbclient.go:110`, `:134`): the table holds the block, nobody is blocked, and
  the expired entry then has the row deleted.

So two workers break the promise of a trap that is overlapped, and the properties of
the passing runs, `UndisturbedBlockKept` and `UndisturbedTrapHolds`, are of the traps
that were not: whatever overlaps after such a trap is checked.

Where the code and its documents differ, and how the properties take it:

- With the AbuseIPDB source off nothing reads what traps store
  (`activedefence.go:101`); `README.md:110` says such users "will be **blocked**". Traps are
  checked, and proved to hold, with the source on.
- A score *at* the threshold blocks (`abuseipdbclient.go:227`, `:173`); `config.yaml:33`,
  `README.md:87` and `docs/user_manual.md:103` say above it. `VerdictHasEvidence` has the
  code's `>=`, and one score of its run equals the threshold.
- With `confidence_score_threshold` missing, that is 0, the answers that "fail open,
  return safe" block everyone they answer (`abuseipdbclient.go:118`, `:128`).
  `ThreatGate` does so too, for any threshold; `VerdictHasEvidence` is checked at 50 and
  proved from 1 on.
- A client of a listed network is blocked if its address has a zone, or if the network
  is written in the IPv6 spelling of IPv4 (`handler.go:64`), though `handler.go:62`,
  `config.yaml:13` and `README.md:29` make no such exception. `LocalsLeftAlone` names
  these two (`Misses`) and shows that they are all.

Other behaviour met while modelling, which the properties name as their exceptions
and no text of the repository denies:

- A trap of an IP whose row is marked as reported is skipped
  (`activedefence.go:148`), so that its block ends with the first one's.
- An answer asked for under the last filter is merged into the feed after the change
  (`LiveTrafficFeed.svelte:41`, `:67`): rows appear a second time or out of order, and
  since it sets the id from which more is loaded, or ends the loading, rows of the
  filter may stay missing (`stale`).
- An event that was saved but not streamed yet when a full or shortened first page
  was read goes to the top of the feed and is loaded again from below (`overtaken`).
- What is published while a stream is down, or arrives before the first page, is
  missing from the feed, and so is an event whose row was saved though its insert
  failed: it is streamed with id 0.
- The older of two answers may stay in the database tab (`DatabaseTab.svelte:65`), and
  a search typed and not submitted is used by the next page with the offset of a page
  of the search before (`DatabaseTab.svelte:139`).
- A page of events or a list of versions that fails among its rows passes for a whole
  one (`event_repository.go:72`, `migrations.go:33`).
- A process that ends between `003_reported.sql` and its record never starts again;
  so would one that ends between a statement that cannot run twice and the last of a
  longer file (`OnlyTornFails` allows these alone).
- The gauges drift by the slips of `GateViews` until the next clean-up sets them.
- An expiration time of `2d` is read as 2 hours (`activedefence.go:272`), and one of
  `0s` or less is accepted.
- The row of a trap that lives shorter than a check may be deleted before it is read
  back, and an older entry stays in L1.

## Proofs

Theorems hold for every value of the constants that satisfies the modules' named
assumptions (`CacheAssumption`, `GateAssumption`, `ViewsAssumption`,
`ClientAssumption`, `EventAssumption`, `FeedAssumption`, `StartupAssumption`,
`HandlersAssumption`, `PowersArePositive`): any IPs, workers, scores, threshold,
lifetimes, sizes (a cache of zero or fewer entries too), migrations, prefixes, events,
pages and bounds. A theorem that needs more says so:

- `Threshold <= 100`, for the three that speak of traps (`VerdictsHaveEvidence`,
  `BlocksKept`, `TrapsHold`): `config.go` does not validate the threshold, and above
  100 a trap's own record is no threat to who reads it;
- `0 < Threshold`, for `VerdictsHaveEvidence`: at 0 and below the answers that fail open block
  on nothing;
- `SourceEnabled`, for `BlocksKept` and `TrapsHold`: the promise of a trap, which nothing keeps
  with the source off.

`PROJECT.json` lists the theorems with the properties they state. None of these
invariants is inductive as the runs check it; the strengthenings are:

- **`IPCacheProofs`**. `CacheInvariant`, its four parts by name (`CacheTypes`,
  `ListIsMap`, `CountIsExact`, `SizeIsBounded`), `LRURefinement` and
  `VictimIsLeastAskedFor`. `IInv` adds to `CacheInv` that the cached IPs are a finite
  set, without which count and bound say nothing. Lemmas state what the list
  operators do to a listing (`Unlinked`, `Front`, `Survivors`) and to the order it
  induces; the preservation proof has a step per method; the refinement maps `Get`
  to `Use`, `Overwrite` to `Replace`, `Insert` to `Add`, a removal or sweep to
  `Forget`. For the evictions, `ListIsOrderOfUse` says that the list is in the order
  in which callers last asked, of which the victim is a corollary.
- **`GateProofs`**. `GateTypes` and `ReportsMarked`. `ReportedWasSent` is not inductive, because a mark travels: from
  the report to the table, from there into the hands of a worker or of another
  report, from those to L1. `AllSent` says it of all four places. The cache's proof
  is reused: lemmas carry each call of `L1` to the operation of the same name in
  `IPCacheProofs`, so that no gate action is proved about the list again.
- **`HistoryProofs`**. `CacheFollowsTable` and `VerdictsHaveEvidence`: `AllKnow` follows
  a record in the same way, from AbuseIPDB's answer or the trap through the hands of
  workers and reports to table and cache: each is believed on evidence, and what has
  been read back was written.
  `BlocksKept` and `TrapsHold`: the first is of the two tiers at every moment, the
  second an action property, of the moment an answer is given. `PromiseInv` says, per IP, that while a promised block is
  in force row, entry and report all block for at least as long and, per worker, where
  a check of the IP can be meanwhile, how long the record of a trap under way lasts,
  and that a trap which nothing overlapped finds its row as it left it.
- **`GaugeProofs`**. `GaugesAreExact`, for any number of workers. `GaugeInv` is a
  balance: while nothing has blurred them, a gauge and the requests that owe it
  (`RowDebts`, `MoreDebts`, `LessDebts`) add up to the cardinality of its set. Each
  step of a request changes one row, one debt and the gauges by the same
  (`StepMatched`), or is a slip; a count sets the gauge when nobody owes; a restart
  forgets all debts (`NobodyOwes`).
- **`ClientProofs`**. `ClientTypes`, `OwnFailures` and `BreakerRefinement`. A check fails
  one step after the cause, so the invariant adds that an error in a channel belongs
  to a failed call (`ErrorsAreOfCalls`).
- **`EventProofs`**. `EventTypes` (with `Counted`: what was published is what is on its
  way and what has an id), `OpenChannels` (`Subscribed`: who can still be offered an
  event has an open channel, by the mutex), `IdsOrderEvents` (`IdsInv`: an event that
  waits has no id, the one just saved has the last), `RowsOutliveStream`,
  `StreamsShowLog` (`StreamInv`: what a client has received, then its channel, then
  what it is about to be offered, are the log from its subscription on) and
  `EventLogRefinement`, under which each step of the service is one of `EventLog` or a
  stutter.
- **`FeedProofs`**. `FeedTypes`, `FeedOrdered`, `NothingMissing` and `FeedOnEventLog`.
  First, what a page is (`Paged`, `PagedInPart`): it falls, and a row it was asked for
  is in it, or below a full page, or was cut. This rests on `Ranks`: the rank of a row
  among those found is a bijection, so that a list in falling order exists for
  `NewestFirst` to choose. Then the invariants. `TypedInv` says where ids come from, and
  what is true of each request under way whether or not the filter changed since
  (`Sound`, and `Alike`: of a filter one first page, and one page below, at a time).
  `ShownInv`, for `NothingMissing`, holds while no stale answer was merged: a page below
  was asked for at `oldest`, and a page that is read but has not arrived will, with
  what the stream brings and what is lost, leave no gap above where it ends
  (`FirstCovers`, `MoreCovers`). What the server and the stream do is proved once: an
  event on its way stays there until it is shown or counted as lost (`Journey`).
  `FeedOrdered` needs more: `WayInv`, that ids rise along the way from the table
  through the log to the stream, so that what comes next is older than all that is
  still to come; and `OrderInv`, that `oldest` is the lowest id shown (`Bottom`), and
  that the feed and the first page under way are `Ahead` of what is on its way, which
  is either among their events or newer than them all, unless it was overtaken. Every
  step of the server and the stream is `Onward`: nothing older gets on its way.
- **`ProgramProofs`**. `SchemaThenService` and `RestartsAreSafe` for any list of
  migrations of any number of statements (`SchemaInv`: what is read as applied is on
  record, what is on record has run to its last statement, up to `at` all is on
  record, and of the file at hand what is before `line` has run); `LocalsSpared` for
  addresses of any width, by lemmas about `Networks` that say that an address within a
  listed entry is local in each spelling but for the entries that miss it; `PagesFit`
  and `TabFollowsControls` for any page size (`TabInv`: each request under way was
  asked for since nothing last was, and a single one is the one the controls name).

Every safety property of a passing run, invariant or of steps, and every refinement is
so proved. Left to TLC: the liveness properties (`RequestsAnswered`, `ReportsSettle`,
`ExpiredRowsGo`, `EventsAreFannedOut`, `HandlersEnd`, `ChecksEnd`, `BreakerRecovers`,
`CountsCatchUp`), since the proof system does not reason about fairness, whose meaning
is `ENABLED`; and the findings, which are counterexamples.

## Not modelled, and why

The gauges of the cache, set from its counters at each clean-up, and the request
counters: nothing depends on them. Routes, static files, middleware (but for the
timeout), header parsing, logging, JSON, alerts and the widgets keep no state that a
verdict depends on. Honeytoken patterns are an input: whether a path matches is a
library's regular expression. Retention does not run under `LiveFeed`; it is
`EventService`'s, and removes the oldest rows of a feed days old. `Program` keeps
apart what could be checked together with `ThreatGate` and is too large so: the
statements of a request are one step there, and `ThreatGate` with its histories is
where they interleave. The bound of two pages in `program_tab` reaches a refresh and the next page
but not the way back.

## Plan

Done: `IPCache` + `CacheUse` + `LRUCache` + proofs; `ThreatGate` + history modules + proofs;
`GateViews`; `EventService` + `EventLog`; `Breaker` + `ReputationClient`;
`LiveFeed`; `Networks`, `Startup`, `Handlers`, `Program`.

Their safety is proved. What a larger model would add: retention under `LiveFeed`, and
the edge of `Handlers` in front of `ThreatGate` instead of beside it.

No module uses a `RECURSIVE` operator, so that each can be proved about.
