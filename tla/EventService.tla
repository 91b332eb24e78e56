---------------------------- MODULE EventService -----------------------------
(***************************************************************************)
(* The traffic log (internal/event, event_repository.go and the two        *)
(* handlers that read it).  Handlers publish an event per verdict into a   *)
(* bounded queue and never wait; one goroutine saves each event in the     *)
(* events table and offers it to every subscribed stream, a bounded        *)
(* channel that one HTTP handler empties towards its client.               *)
(*                                                                         *)
(* An event is its place in the order of publication, its timestamp and    *)
(* its id, 0 until the table gives it one.                                 *)
(***************************************************************************)
EXTENDS Integers, Sequences

CONSTANTS
  Publishers,  \* goroutines that publish
  Streams,     \* handlers of GET /api/v1/stream/logs
  QueueSize,   \* capacity of eventChan (10000)
  BufferSize,  \* capacity of a subscriber's channel (100)
  Retention,   \* live_stream_retention_days, in ticks; 0 is off, -1 for ever
  MaxEvents,   \* bound: events published
  MaxTime,     \* bound: the last instant
  MaxFaults,   \* bound: inserts that report a failure
  MaxCrashes   \* bound: crashes

ASSUME EventAssumption ==
  /\ QueueSize \in Nat \ {0} /\ BufferSize \in Nat \ {0}
  /\ Retention \in Int
  /\ MaxEvents \in Nat /\ MaxTime \in Nat
  /\ MaxFaults \in Nat /\ MaxCrashes \in Nat

VARIABLES
  publishing,   \* the event each publisher has stamped and not yet queued
  queue,        \* eventChan
  at, held,     \* the processor: its place and the event it works on
  todo,         \* the subscribers it has still to offer the event to
  subscribers,  \* the map of subscribed channels
  closed,       \* whether the channel of a stream is closed
  buffer,       \* what is in the channel of a stream
  place,        \* the stream's handler: "off", "open" or "leaving"
  client,       \* what the handler has written to its client
  table,        \* the rows of the events table
  lastId,       \* sqlite_sequence: the last id the table gave
  now,          \* the clock
  log,          \* history: every event fanned out, in order
  since,        \* history: the length of log when a stream subscribed
  missed,       \* history: whether a stream was full when offered an event
  published, faults, crashes  \* what the bounds count

processorVars == <<at, held, todo>>
streamVars == <<subscribers, closed, buffer, place, client, since, missed>>
tableVars == <<table, lastId>>
countVars == <<published, faults, crashes>>
eventVars == <<publishing, queue, processorVars, streamVars, tableVars, now, log,
               countVars>>

Events == [n : 1..MaxEvents, time : 0..MaxTime, id : 0..MaxEvents]
Rows == {e \in Events : e.id > 0}
NoEvent == [n |-> 0]

-----------------------------------------------------------------------------
NewService ==
  /\ publishing = [p \in Publishers |-> NoEvent] /\ queue = <<>>
  /\ at = "take" /\ held = NoEvent /\ todo = {}
  /\ subscribers = {} /\ closed = [s \in Streams |-> TRUE]
  /\ buffer = [s \in Streams |-> <<>>] /\ place = [s \in Streams |-> "off"]
  /\ client = [s \in Streams |-> <<>>]
  /\ since = [s \in Streams |-> 0] /\ missed = [s \in Streams |-> FALSE]
  /\ table = {} /\ lastId = 0
  /\ now = 0 /\ log = <<>>
  /\ published = 0 /\ faults = 0 /\ crashes = 0

(* Publish: the event gets its timestamp first and is queued second, so    *)
(* that events may be queued in another order; a full queue drops it.      *)
Stamp(p) ==
  /\ Retention # 0
  /\ publishing[p] = NoEvent
  /\ published < MaxEvents /\ published' = published + 1
  /\ publishing' = [publishing EXCEPT ![p] =
                      [n |-> published + 1, time |-> now, id |-> 0]]
  /\ UNCHANGED <<queue, processorVars, streamVars, tableVars, now, log, faults,
                 crashes>>

Enqueue(p) ==
  /\ publishing[p] # NoEvent
  /\ publishing' = [publishing EXCEPT ![p] = NoEvent]
  /\ queue' = IF Len(queue) < QueueSize THEN Append(queue, publishing[p]) ELSE queue
  /\ UNCHANGED <<processorVars, streamVars, tableVars, now, log, countVars>>

-----------------------------------------------------------------------------
(* The processor: it takes an event, tries to save it, and whether it is   *)
(* saved or not offers it to the subscribers, holding their mutex.         *)
Locked == at = "offer"

Take ==
  /\ at = "take" /\ queue # <<>>
  /\ held' = Head(queue) /\ queue' = Tail(queue) /\ at' = "insert"
  /\ UNCHANGED <<publishing, todo, streamVars, tableVars, now, log, countVars>>

(* Mutant of NextId: the table's own numbering, without AUTOINCREMENT.     *)
NextIdOfRows ==
  IF table = {} THEN 1
  ELSE 1 + (CHOOSE e \in table : \A f \in table : f.id <= e.id).id

NextId == lastId + 1

(* Mutants of Insert: an event that is not saved gets an id all the same,  *)
(* or is not streamed.                                                     *)
InsertNumbersFailed ==
  /\ at = "insert" /\ at' = "fan"
  /\ held' = [held EXCEPT !.id = NextId]
  /\ \/ table' = table \cup {held'} /\ lastId' = NextId /\ UNCHANGED faults
     \/ faults < MaxFaults /\ faults' = faults + 1 /\ UNCHANGED tableVars
  /\ UNCHANGED <<publishing, queue, todo, streamVars, now, log, published, crashes>>

InsertSkipsFailed ==
  /\ at = "insert"
  /\ \/ /\ at' = "fan" /\ held' = [held EXCEPT !.id = NextId]
        /\ table' = table \cup {held'} /\ lastId' = NextId
        /\ UNCHANGED faults
     \/ /\ at' = "take" /\ held' = NoEvent
        /\ faults < MaxFaults /\ faults' = faults + 1
        /\ UNCHANGED tableVars
  /\ UNCHANGED <<publishing, queue, todo, streamVars, now, log, published, crashes>>

(* An error may come after the row was committed, from the 2 s that are    *)
(* over or from the id asked for: the event then goes on without its id.   *)
Insert ==
  /\ at = "insert" /\ at' = "fan"
  /\ \/ /\ held' = [held EXCEPT !.id = NextId]
        /\ table' = table \cup {held'} /\ lastId' = NextId
        /\ UNCHANGED faults
     \/ /\ faults < MaxFaults /\ faults' = faults + 1 /\ UNCHANGED held
        /\ \/ UNCHANGED tableVars
           \/ /\ table' = table \cup {[held EXCEPT !.id = NextId]}
              /\ lastId' = NextId
  /\ UNCHANGED <<publishing, queue, todo, streamVars, now, log, published, crashes>>

FanOut ==
  /\ at = "fan" /\ at' = "offer"
  /\ todo' = subscribers /\ log' = Append(log, held)
  /\ UNCHANGED <<publishing, queue, held, streamVars, tableVars, now, countVars>>

(* Mutant of Offer: the channel takes any number of events.                *)
OfferUnbounded(s) ==
  /\ Locked /\ s \in todo /\ todo' = todo \ {s}
  /\ buffer' = [buffer EXCEPT ![s] = Append(@, held)]
  /\ UNCHANGED <<publishing, queue, at, held, subscribers, closed, place, client,
                 since, missed, tableVars, now, log, countVars>>

(* Mutant of Offer: a full channel loses its oldest event.                 *)
OfferDropsOldest(s) ==
  /\ Locked /\ s \in todo /\ todo' = todo \ {s}
  /\ buffer' = [buffer EXCEPT ![s] =
                  Append(IF Len(@) < BufferSize THEN @ ELSE Tail(@), held)]
  /\ UNCHANGED <<publishing, queue, at, held, subscribers, closed, place, client,
                 since, missed, tableVars, now, log, countVars>>

(* A subscriber whose channel is full misses the event.                    *)
Offer(s) ==
  /\ Locked /\ s \in todo /\ todo' = todo \ {s}
  /\ \/ /\ Len(buffer[s]) < BufferSize
        /\ buffer' = [buffer EXCEPT ![s] = Append(@, held)]
        /\ UNCHANGED missed
     \/ /\ Len(buffer[s]) >= BufferSize
        /\ missed' = [missed EXCEPT ![s] = TRUE]
        /\ UNCHANGED buffer
  /\ UNCHANGED <<publishing, queue, at, held, subscribers, closed, place, client,
                 since, tableVars, now, log, countVars>>

(* Mutant of EndFanOut: the mutex is not unlocked.                         *)
EndFanOutLocked ==
  /\ Locked /\ todo = {} /\ held' = NoEvent
  /\ UNCHANGED <<publishing, queue, at, todo, streamVars, tableVars, now, log,
                 countVars>>

EndFanOut ==
  /\ Locked /\ todo = {} /\ at' = "take" /\ held' = NoEvent
  /\ UNCHANGED <<publishing, queue, todo, streamVars, tableVars, now, log,
                 countVars>>

-----------------------------------------------------------------------------
(* A stream's handler subscribes, writes what comes to its client, and     *)
(* unsubscribes once the client has gone or a write has failed.            *)
(* Mutant of Subscribe: the channel of the last subscription, as it was.   *)
SubscribeAgain(s) ==
  /\ place[s] = "off" /\ ~Locked
  /\ place' = [place EXCEPT ![s] = "open"]
  /\ subscribers' = subscribers \cup {s}
  /\ closed' = [closed EXCEPT ![s] = FALSE]
  /\ client' = [client EXCEPT ![s] = <<>>]
  /\ since' = [since EXCEPT ![s] = Len(log)]
  /\ missed' = [missed EXCEPT ![s] = FALSE]
  /\ UNCHANGED <<publishing, queue, processorVars, buffer, tableVars, now, log,
                 countVars>>

Subscribe(s) ==
  /\ place[s] = "off" /\ ~Locked
  /\ place' = [place EXCEPT ![s] = "open"]
  /\ subscribers' = subscribers \cup {s}
  /\ closed' = [closed EXCEPT ![s] = FALSE]
  /\ buffer' = [buffer EXCEPT ![s] = <<>>] /\ client' = [client EXCEPT ![s] = <<>>]
  /\ since' = [since EXCEPT ![s] = Len(log)]
  /\ missed' = [missed EXCEPT ![s] = FALSE]
  /\ UNCHANGED <<publishing, queue, processorVars, tableVars, now, log, countVars>>

Write(s) ==
  /\ place[s] = "open" /\ buffer[s] # <<>>
  /\ client' = [client EXCEPT ![s] = Append(@, Head(buffer[s]))]
  /\ buffer' = [buffer EXCEPT ![s] = Tail(@)]
  /\ UNCHANGED <<publishing, queue, processorVars, subscribers, closed, place,
                 since, missed, tableVars, now, log, countVars>>

Leave(s) ==
  /\ place[s] = "open" /\ place' = [place EXCEPT ![s] = "leaving"]
  /\ UNCHANGED <<publishing, queue, processorVars, subscribers, closed, buffer,
                 client, since, missed, tableVars, now, log, countVars>>

(* Mutant of Unsubscribe: without the mutex.                               *)
UnsubscribeUnlocked(s) ==
  /\ place[s] = "leaving"
  /\ place' = [place EXCEPT ![s] = "off"]
  /\ subscribers' = subscribers \ {s}
  /\ closed' = [closed EXCEPT ![s] = TRUE]
  /\ UNCHANGED <<publishing, queue, processorVars, buffer, client, since, missed,
                 tableVars, now, log, countVars>>

Unsubscribe(s) ==
  /\ place[s] = "leaving" /\ ~Locked
  /\ place' = [place EXCEPT ![s] = "off"]
  /\ subscribers' = subscribers \ {s}
  /\ closed' = [closed EXCEPT ![s] = TRUE]
  /\ UNCHANGED <<publishing, queue, processorVars, buffer, client, since, missed,
                 tableVars, now, log, countVars>>

-----------------------------------------------------------------------------
(* The retention: at startup and once an hour, for the instant read at the *)
(* start of the round, which may be some time ago.                         *)
DeleteOlderThan(cutoff) ==
  /\ table' = {e \in table : e.time > cutoff}
  /\ UNCHANGED <<publishing, queue, processorVars, streamVars, lastId, now, log,
                 countVars>>

Clean == Retention > 0 /\ \E instant \in 0..now : DeleteOlderThan(instant - Retention)

Tick ==
  /\ now < MaxTime /\ now' = now + 1
  /\ UNCHANGED <<publishing, queue, processorVars, streamVars, tableVars, log,
                 countVars>>

(* The process ends, gracefully or not: what is queued is lost, the table  *)
(* survives, and clients have to subscribe again.                          *)
Crash ==
  /\ crashes < MaxCrashes /\ crashes' = crashes + 1
  /\ publishing' = [p \in Publishers |-> NoEvent] /\ queue' = <<>>
  /\ at' = "take" /\ held' = NoEvent /\ todo' = {}
  /\ subscribers' = {} /\ closed' = [s \in Streams |-> TRUE]
  /\ buffer' = [s \in Streams |-> <<>>] /\ place' = [s \in Streams |-> "off"]
  /\ client' = [s \in Streams |-> <<>>]
  /\ since' = [s \in Streams |-> 0] /\ missed' = [s \in Streams |-> FALSE]
  /\ UNCHANGED <<tableVars, now, log, published, faults>>

-----------------------------------------------------------------------------
ProcessorStep ==
  Take \/ Insert \/ FanOut \/ (\E s \in Streams : Offer(s)) \/ EndFanOut

Next ==
  \/ \E p \in Publishers : Stamp(p) \/ Enqueue(p)
  \/ ProcessorStep
  \/ \E s \in Streams : Subscribe(s) \/ Write(s) \/ Leave(s) \/ Unsubscribe(s)
  \/ Clean \/ Tick \/ Crash

Spec == NewService /\ [][Next]_eventVars

(* The scheduler runs every goroutine that can run; an insert ends within  *)
(* its 2 s; a Go mutex does not starve those who wait for it.              *)
Fairness ==
  /\ WF_eventVars(ProcessorStep)
  /\ \A p \in Publishers : WF_eventVars(Enqueue(p))
  /\ \A s \in Streams : SF_eventVars(Unsubscribe(s))

FairSpec == Spec /\ Fairness

-----------------------------------------------------------------------------
EventTypeOK ==
  /\ publishing \in [Publishers -> Events \cup {NoEvent}]
  /\ queue \in Seq(Events) /\ Len(queue) <= QueueSize
  /\ at \in {"take", "insert", "fan", "offer"}
  /\ held \in Events \cup {NoEvent}
  /\ todo \subseteq Streams /\ subscribers \subseteq Streams
  /\ closed \in [Streams -> BOOLEAN]
  /\ buffer \in [Streams -> Seq(Events)]
  /\ \A s \in Streams : Len(buffer[s]) <= BufferSize
  /\ place \in [Streams -> {"off", "open", "leaving"}]
  /\ client \in [Streams -> Seq(Events)]
  /\ table \subseteq Rows /\ lastId \in 0..MaxEvents
  /\ now \in 0..MaxTime /\ log \in Seq(Events)
  /\ since \in [Streams -> Nat] /\ missed \in [Streams -> BOOLEAN]

(* The processor never sends on a closed channel, which would end the      *)
(* whole gate with a panic: a client that leaves in the middle of a        *)
(* fan-out is unsubscribed, its channel closed, before it or after it.     *)
NeverSendsOnClosed == Locked => \A s \in todo : ~closed[s]

(* What a stream got or is about to get.                                   *)
Received(s) == client[s] \o buffer[s]

(* The events fanned out to a stream so far.                               *)
FannedTo(s) ==
  SubSeq(log, since[s] + 1, IF s \in todo THEN Len(log) - 1 ELSE Len(log))

(* One sequence is the other with some elements left out.                  *)
PartOf(part, whole) ==
  \E where \in [DOMAIN part -> DOMAIN whole] :
    \A i \in DOMAIN part :
      part[i] = whole[where[i]] /\ \A j \in 1..i-1 : where[j] < where[i]

(* A stream that was never full shows the log without a gap, a repetition  *)
(* or a change of order, from its subscription on; one that was full shows *)
(* a part of it, in order.                                                 *)
StreamsFollowLog ==
  \A s \in subscribers :
    IF missed[s] THEN PartOf(Received(s), FannedTo(s))
                 ELSE Received(s) = FannedTo(s)

(* The id an event is streamed with names it alone and orders it: a client *)
(* tells events apart by their id and asks for the events before an id, so *)
(* that no deletion of old rows, failed insert or restart may give an id   *)
(* a second time.                                                          *)
IdsFollowLog ==
  \A i \in DOMAIN log :
    log[i].id > 0 =>
      /\ \A j \in DOMAIN log : j > i /\ log[j].id > 0 => log[i].id < log[j].id
      /\ \A e \in table : e.id = log[i].id => e = log[i]

(* An event streamed with an id can be fetched again until it is too old.  *)
StreamedCanBeFetched ==
  \A i \in DOMAIN log :
    log[i].id > 0 =>
      \/ log[i] \in table
      \/ Retention > 0 /\ log[i].time + Retention <= now

(* The service keeps the log's promise to its readers: ids that grow, an   *)
(* event saved before it is streamed, a stream that is sent each event at  *)
(* most once and in order from the moment it subscribed, whatever is       *)
(* dropped, fails, leaves or restarts.                                     *)
Shown(e) == IF e = NoEvent THEN NoEvent ELSE [n |-> e.n, id |-> e.id]
ShownSeq(events) == [i \in DOMAIN events |-> Shown(events[i])]

Abstract == INSTANCE EventLog WITH
  Numbers <- 1..MaxEvents,
  rows <- {Shown(e) : e \in table},
  saved <- IF at = "fan" THEN Shown(held) ELSE NoEvent,
  log <- ShownSeq(log),
  open <- subscribers,
  next <- [s \in Streams |->
             IF s \notin subscribers THEN 1
             ELSE Len(log) + (IF s \in todo THEN 0 ELSE 1)],
  sent <- [s \in Streams |->
             IF s \in subscribers THEN ShownSeq(Received(s)) ELSE <<>>]

ImplementsEventLog == Abstract!Spec

(* An event that was queued is fanned out in the end, whatever insert fails*)
(* and whatever streams come and go, unless the process ends.              *)
Queued(n) == \E i \in DOMAIN queue : queue[i].n = n
FannedOut(n) == \E i \in DOMAIN log : log[i].n = n

EventsAreFannedOut ==
  \A n \in 1..MaxEvents, life \in 0..MaxCrashes :
    Queued(n) /\ crashes = life ~> FannedOut(n) \/ crashes # life

(* A handler whose client has gone ends: it gets the mutex between two     *)
(* fan-outs.                                                               *)
HandlersEnd == \A s \in Streams : place[s] = "leaving" ~> place[s] = "off"
=============================================================================
