----------------------------- MODULE EventProofs -----------------------------
(***************************************************************************)
(* Proofs about EventService for any publishers, streams, capacities and   *)
(* retention: its types, that it never sends on a closed channel, that ids *)
(* name and order the events, that streams follow the log, and that it     *)
(* implements EventLog.                                                    *)
(***************************************************************************)
EXTENDS EventService, FiniteSetTheorems, SequenceTheorems, TLAPS

-----------------------------------------------------------------------------
(* Types.  An event gets its id from the table at the end of its way, so   *)
(* that no more ids are given than events were published: an id stays in   *)
(* its range because lastId and the events still on their way are together *)
(* no more than those published.                                           *)
Stamped == {p \in Publishers : publishing[p] # NoEvent}
OnTheirWay == Cardinality(Stamped) + Len(queue) + (IF at = "insert" THEN 1 ELSE 0)

Counted ==
  /\ IsFiniteSet(Stamped) /\ published \in Nat
  /\ lastId + OnTheirWay <= published /\ published <= MaxEvents

HeldTyped == at # "take" => held \in Events

TypeInv == EventTypeOK /\ HeldTyped /\ Counted

(* The same, by who owns what.                                             *)
WayTyped ==
  /\ publishing \in [Publishers -> Events \cup {NoEvent}]
  /\ queue \in Seq(Events) /\ Len(queue) <= QueueSize
  /\ at \in {"take", "insert", "fan", "offer"}
  /\ held \in Events \cup {NoEvent}
  /\ HeldTyped

StreamsTyped ==
  /\ todo \subseteq Streams /\ subscribers \subseteq Streams
  /\ closed \in [Streams -> BOOLEAN]
  /\ buffer \in [Streams -> Seq(Events)]
  /\ \A s \in Streams : Len(buffer[s]) <= BufferSize
  /\ place \in [Streams -> {"off", "open", "leaving"}]
  /\ client \in [Streams -> Seq(Events)]
  /\ since \in [Streams -> Nat] /\ missed \in [Streams -> BOOLEAN]

RestTyped ==
  /\ table \subseteq Rows /\ lastId \in 0..MaxEvents
  /\ now \in 0..MaxTime /\ log \in Seq(Events)

LEMMA TypeInvParts ==
  /\ TypeInv <=> WayTyped /\ StreamsTyped /\ RestTyped /\ Counted
  /\ TypeInv' <=> WayTyped' /\ StreamsTyped' /\ RestTyped' /\ Counted'
  BY Zenon DEF TypeInv, EventTypeOK, WayTyped, StreamsTyped, RestTyped

LEMMA EventsAreNotNone ==
  /\ NoEvent \notin Events
  /\ \A e \in Events : e.n \in 1..MaxEvents /\ e.time \in 0..MaxTime
                       /\ e.id \in 0..MaxEvents
  BY DEF Events, NoEvent

LEMMA InitTypes == NewService => TypeInv
<1> SUFFICES ASSUME NewService PROVE TypeInv
  OBVIOUS
<1>1. WayTyped
  BY EventAssumption DEF NewService, WayTyped, HeldTyped
<1>2. StreamsTyped
  BY EventAssumption DEF NewService, StreamsTyped
<1>3. RestTyped
  BY EventAssumption DEF NewService, RestTyped
<1>4. Stamped = {}
  BY DEF NewService, Stamped
<1>5. Counted
  BY <1>4, FS_EmptySet, EventAssumption DEF NewService, Counted, OnTheirWay
<1> QED  BY <1>1, <1>2, <1>3, <1>5, TypeInvParts

(* One more publisher on its way, one less.                                *)
LEMMA StampTypes ==
  ASSUME TypeInv, NEW p \in Publishers, Stamp(p)
  PROVE  TypeInv'
<1> USE TypeInvParts
<1>1. UNCHANGED <<queue, processorVars, streamVars, tableVars, now, log>>
  BY DEF Stamp
<1>2. WayTyped'
  BY <1>1, EventAssumption
     DEF Stamp, WayTyped, HeldTyped, Events, RestTyped, Counted, processorVars
<1>3. StreamsTyped' /\ RestTyped'
  BY <1>1 DEF StreamsTyped, RestTyped, processorVars, streamVars, tableVars
<1>4. Stamped' = Stamped \cup {p} /\ p \notin Stamped
  BY EventsAreNotNone DEF Stamp, Stamped, WayTyped, NoEvent
<1>5. IsFiniteSet(Stamped') /\ Cardinality(Stamped') = Cardinality(Stamped) + 1
  BY <1>4, FS_AddElement DEF Counted
<1>6. /\ Cardinality(Stamped) \in Nat /\ Len(queue) \in Nat /\ lastId \in Nat
      /\ MaxEvents \in Nat
  BY FS_CardinalityType, EventAssumption DEF Counted, WayTyped, RestTyped
<1>7. Counted'
  BY <1>1, <1>5, <1>6 DEF Counted, OnTheirWay, Stamp, processorVars, tableVars
<1> QED  BY <1>2, <1>3, <1>7

LEMMA EnqueueTypes ==
  ASSUME TypeInv, NEW p \in Publishers, Enqueue(p)
  PROVE  TypeInv'
<1> USE TypeInvParts
<1>1. UNCHANGED <<processorVars, streamVars, tableVars, now, log, countVars>>
  BY DEF Enqueue
<1>2. /\ Len(queue) \in Nat /\ queue' \in Seq(Events) /\ Len(queue') \in Nat
      /\ Len(queue') <= Len(queue) + 1 /\ Len(queue') <= QueueSize
  BY EventAssumption DEF Enqueue, WayTyped
<1>3. WayTyped'
  BY <1>1, <1>2 DEF Enqueue, WayTyped, HeldTyped, processorVars
<1>4. StreamsTyped' /\ RestTyped'
  BY <1>1 DEF StreamsTyped, RestTyped, processorVars, streamVars, tableVars
<1>5. Stamped' = Stamped \ {p} /\ p \in Stamped
  BY DEF Enqueue, Stamped, WayTyped
<1>6. IsFiniteSet(Stamped') /\ Cardinality(Stamped') = Cardinality(Stamped) - 1
  BY <1>5, FS_RemoveElement DEF Counted
<1>7. Cardinality(Stamped) \in Nat /\ lastId \in Nat
  BY FS_CardinalityType DEF Counted, RestTyped
<1>8. Counted'
  BY <1>1, <1>2, <1>6, <1>7
     DEF Counted, OnTheirWay, processorVars, tableVars, countVars
<1> QED  BY <1>3, <1>4, <1>8

LEMMA ProcessorTypes ==
  ASSUME TypeInv, ProcessorStep
  PROVE  TypeInv'
<1> USE TypeInvParts
<1>1. /\ Cardinality(Stamped) \in Nat /\ Len(queue) \in Nat /\ lastId \in Nat
      /\ MaxEvents \in Nat
  BY FS_CardinalityType, EventAssumption DEF Counted, WayTyped, RestTyped
<1>2. UNCHANGED publishing /\ Stamped' = Stamped
  BY Zenon DEF ProcessorStep, Take, Insert, FanOut, Offer, EndFanOut, Stamped
<1>3. CASE Take
  <2>1. /\ Head(queue) \in Events /\ queue' \in Seq(Events)
        /\ Len(queue') = Len(queue) - 1
    BY <1>3 DEF Take, WayTyped
  <2>2. WayTyped'
    BY <1>1, <1>2, <1>3, <2>1, EventAssumption DEF Take, WayTyped, HeldTyped
  <2>3. StreamsTyped' /\ RestTyped'
    BY <1>3 DEF Take, StreamsTyped, RestTyped, streamVars, tableVars
  <2>4. Counted'
    BY <1>1, <1>2, <1>3, <2>1 DEF Take, Counted, OnTheirWay, tableVars, countVars
  <2> QED  BY <2>2, <2>3, <2>4
<1>4. CASE Insert
  <2>1. NextId \in 1..MaxEvents /\ held \in Events
    BY <1>1, <1>4 DEF Insert, NextId, Counted, OnTheirWay, WayTyped, HeldTyped
  <2>2. WayTyped'
    <3>1. held' = held \/ held' = [held EXCEPT !.id = NextId]
      BY <1>4 DEF Insert
    <3>2. held' \in Events
      BY <2>1, <3>1 DEF Events
    <3> QED  BY <1>2, <1>4, <3>2 DEF Insert, WayTyped, HeldTyped
  <2>3. StreamsTyped'
    BY <1>4 DEF Insert, StreamsTyped, streamVars
  <2>4. RestTyped'
    <3>1. /\ UNCHANGED <<now, log>>
          /\ lastId' = lastId \/ lastId' = NextId
          /\ \/ table' = table
             \/ table' = table \cup {[held EXCEPT !.id = NextId]}
      <4>1. table' = table \cup {held'} /\ held' = [held EXCEPT !.id = NextId] =>
              table' = table \cup {[held EXCEPT !.id = NextId]}
        OBVIOUS
      <4> QED  BY <1>4, <4>1 DEF Insert, tableVars
    <3>2. [held EXCEPT !.id = NextId] \in Rows
      BY <2>1 DEF Rows, Events
    <3>3. lastId' \in 0..MaxEvents
      BY <2>1, <3>1 DEF RestTyped
    <3>4. table' \subseteq Rows
      BY <3>1, <3>2 DEF RestTyped
    <3> QED  BY <3>1, <3>3, <3>4 DEF RestTyped
  <2>5. Counted'
    BY <1>1, <1>2, <1>4 DEF Insert, Counted, OnTheirWay, NextId, tableVars
  <2> QED  BY <2>2, <2>3, <2>4, <2>5
<1>5. CASE FanOut
  <2>1. WayTyped'
    BY <1>5, <1>2 DEF FanOut, WayTyped, HeldTyped
  <2>2. StreamsTyped'
    BY <1>5 DEF FanOut, StreamsTyped, streamVars
  <2>3. RestTyped'
    BY <1>5 DEF FanOut, RestTyped, WayTyped, HeldTyped, tableVars
  <2>4. Counted'
    BY <1>1, <1>2, <1>5 DEF FanOut, Counted, OnTheirWay, tableVars, countVars
  <2> QED  BY <2>1, <2>2, <2>3, <2>4
<1>6. ASSUME NEW s \in Streams, Offer(s)
      PROVE  TypeInv'
  <2>1. held \in Events
    BY <1>6 DEF Offer, Locked, WayTyped, HeldTyped
  <2>2. WayTyped'
    BY <1>6, <1>2 DEF Offer, WayTyped, HeldTyped
  <2>3. StreamsTyped'
    <3>1. buffer[s] \in Seq(Events) /\ Append(buffer[s], held) \in Seq(Events)
          /\ Len(Append(buffer[s], held)) = Len(buffer[s]) + 1
          /\ Len(buffer[s]) \in Nat
      BY <2>1 DEF StreamsTyped
    <3>2. CASE UNCHANGED buffer
      BY <1>6, <3>2 DEF Offer, StreamsTyped
    <3>3. CASE Len(buffer[s]) < BufferSize
               /\ buffer' = [buffer EXCEPT ![s] = Append(@, held)] /\ UNCHANGED missed
      BY <1>6, <3>1, <3>3, EventAssumption DEF Offer, StreamsTyped
    <3> QED  BY <1>6, <3>2, <3>3 DEF Offer
  <2>4. RestTyped'
    BY <1>6 DEF Offer, RestTyped, tableVars
  <2>5. Counted'
    BY <1>1, <1>2, <1>6 DEF Offer, Counted, OnTheirWay, tableVars, countVars
  <2> QED  BY <2>2, <2>3, <2>4, <2>5
<1>7. CASE EndFanOut
  <2>1. WayTyped'
    BY <1>7, <1>2 DEF EndFanOut, WayTyped, HeldTyped
  <2>2. StreamsTyped' /\ RestTyped'
    BY <1>7 DEF EndFanOut, StreamsTyped, RestTyped, streamVars, tableVars
  <2>3. Counted'
    BY <1>1, <1>2, <1>7 DEF EndFanOut, Locked, Counted, OnTheirWay, tableVars, countVars
  <2> QED  BY <2>1, <2>2, <2>3
<1> QED  BY <1>3, <1>4, <1>5, <1>6, <1>7 DEF ProcessorStep

(* Handlers touch nothing but the streams.                                 *)
HandlerStep(s) == Subscribe(s) \/ Write(s) \/ Leave(s) \/ Unsubscribe(s)

LEMMA HandlerTypes ==
  ASSUME TypeInv, NEW s \in Streams, HandlerStep(s)
  PROVE  TypeInv'
<1> USE TypeInvParts
<1>1. UNCHANGED <<publishing, queue, at, held, todo, table, lastId, now, log, published>>
  BY DEF HandlerStep, Subscribe, Write, Leave, Unsubscribe, processorVars,
         tableVars, countVars
<1>2. WayTyped' /\ RestTyped'
  BY <1>1 DEF WayTyped, HeldTyped, RestTyped
<1>3. StreamsTyped'
  <2>1. CASE Subscribe(s)
    BY <2>1, <1>1, EventAssumption DEF Subscribe, StreamsTyped, RestTyped
  <2>2. CASE Write(s)
    <3>1. /\ Append(client[s], Head(buffer[s])) \in Seq(Events)
          /\ Tail(buffer[s]) \in Seq(Events)
          /\ Len(Tail(buffer[s])) <= BufferSize
      BY <2>2, EventAssumption DEF Write, StreamsTyped
    <3> QED  BY <2>2, <3>1, <1>1 DEF Write, StreamsTyped
  <2>3. CASE Leave(s) \/ Unsubscribe(s)
    BY <2>3, <1>1 DEF Leave, Unsubscribe, StreamsTyped
  <2> QED  BY <2>1, <2>2, <2>3 DEF HandlerStep
<1>4. Counted'
  BY <1>1 DEF Counted, OnTheirWay, Stamped
<1> QED  BY <1>2, <1>3, <1>4

LEMMA OtherTypes ==
  ASSUME TypeInv, Clean \/ Tick \/ Crash \/ UNCHANGED eventVars
  PROVE  TypeInv'
<1> USE TypeInvParts
<1>1. CASE Clean \/ Tick \/ UNCHANGED eventVars
  <2>1. UNCHANGED <<publishing, queue, processorVars, streamVars, log, lastId, published>>
    BY <1>1 DEF Clean, DeleteOlderThan, Tick, eventVars, tableVars, countVars
  <2>2. WayTyped' /\ StreamsTyped'
    BY <2>1 DEF WayTyped, HeldTyped, StreamsTyped, processorVars, streamVars
  <2>3. RestTyped'
    BY <2>1, <1>1, EventAssumption
       DEF RestTyped, Clean, DeleteOlderThan, Tick, eventVars, tableVars
  <2>4. Counted'
    BY <2>1 DEF Counted, OnTheirWay, Stamped, processorVars
  <2> QED  BY <2>2, <2>3, <2>4
<1>2. CASE Crash
  <2>1. WayTyped'
    BY <1>2, EventAssumption DEF Crash, WayTyped, HeldTyped
  <2>2. StreamsTyped'
    BY <1>2, EventAssumption DEF Crash, StreamsTyped
  <2>3. RestTyped'
    BY <1>2 DEF Crash, RestTyped, tableVars
  <2>4. Stamped' = {} /\ Len(queue') = 0
    BY <1>2 DEF Crash, Stamped
  <2>5. OnTheirWay \in Nat /\ lastId \in Nat
    BY FS_CardinalityType DEF OnTheirWay, Counted, WayTyped, RestTyped
  <2>6. IsFiniteSet(Stamped') /\ OnTheirWay' = 0
    BY <1>2, <2>4, FS_EmptySet DEF Crash, OnTheirWay
  <2>7. Counted'
    BY <1>2, <2>5, <2>6, EventAssumption DEF Crash, Counted, tableVars
  <2> QED  BY <2>1, <2>2, <2>3, <2>7
<1> QED  BY <1>1, <1>2

LEMMA TypeStep == TypeInv /\ [Next]_eventVars => TypeInv'
  BY StampTypes, EnqueueTypes, ProcessorTypes, HandlerTypes, OtherTypes
     DEF Next, HandlerStep

LEMMA Typed == Spec => []TypeInv
  BY InitTypes, TypeStep, PTL DEF Spec

(* Every variable of the service keeps its type, and no queue or channel   *)
(* holds more than its capacity: EventTypeOK.                              *)
THEOREM EventTypes == Spec => []EventTypeOK
  BY Typed, PTL DEF TypeInv

-----------------------------------------------------------------------------
(* The mutex.  A handler enters and leaves the subscribers between two     *)
(* fan-outs only, so that whoever the processor has still to serve is      *)
(* subscribed and its channel open.                                        *)
Subscribed ==
  /\ subscribers = {s \in Streams : place[s] # "off"}
  /\ \A s \in Streams : closed[s] <=> s \notin subscribers
  /\ todo \subseteq subscribers
  /\ ~Locked => todo = {}

LEMMA SubscribedStep ==
  ASSUME TypeInv, Subscribed, [Next]_eventVars
  PROVE  Subscribed'
<1>0. StreamsTyped
  BY TypeInvParts
<1>1. CASE UNCHANGED <<at, todo, subscribers, closed, place>>
  BY <1>1 DEF Subscribed, Locked
<1>2. CASE Take \/ Insert \/ FanOut \/ EndFanOut \/ Crash
  BY <1>0, <1>2 DEF Subscribed, Locked, Take, Insert, FanOut, EndFanOut, Crash, streamVars
<1>3. ASSUME NEW s \in Streams, Offer(s) \/ HandlerStep(s)
      PROVE  Subscribed'
  <2>1. CASE Offer(s)
    BY <2>1 DEF Offer, Subscribed, Locked
  <2>2. CASE Subscribe(s)
    BY <2>2, <1>0 DEF Subscribe, Subscribed, Locked, processorVars, StreamsTyped
  <2>3. CASE Write(s)
    BY <2>3 DEF Write, Subscribed, Locked, processorVars
  <2>4. CASE Leave(s)
    BY <2>4, <1>0 DEF Leave, Subscribed, Locked, processorVars, StreamsTyped
  <2>5. CASE Unsubscribe(s)
    BY <2>5, <1>0 DEF Unsubscribe, Subscribed, Locked, processorVars, StreamsTyped
  <2> QED  BY <1>3, <2>1, <2>2, <2>3, <2>4, <2>5 DEF HandlerStep
<1>4. CASE \/ Clean \/ Tick \/ UNCHANGED eventVars
           \/ \E p \in Publishers : Stamp(p) \/ Enqueue(p)
  BY <1>1, <1>4 DEF Clean, DeleteOlderThan, Tick, Stamp, Enqueue, eventVars,
                    processorVars, streamVars
<1> QED  BY <1>2, <1>3, <1>4 DEF Next, ProcessorStep, HandlerStep

(* A client that leaves in the middle of a fan-out never makes the         *)
(* processor send on a closed channel: NeverSendsOnClosed.                 *)
THEOREM OpenChannels == Spec => []NeverSendsOnClosed
<1>1. NewService => Subscribed
  BY DEF NewService, Subscribed, Locked
<1>2. TypeInv /\ Subscribed /\ [Next]_eventVars => Subscribed'
  BY SubscribedStep
<1>3. TypeInv /\ Subscribed => NeverSendsOnClosed
  BY TypeInvParts DEF Subscribed, NeverSendsOnClosed, StreamsTyped
<1> QED  BY <1>1, <1>2, <1>3, Typed, PTL DEF Spec

-----------------------------------------------------------------------------
(* The way to the table.  An event that waits, at its publisher, in the    *)
(* queue or for its insert, is nowhere else: it has no id yet, and neither *)
(* a row nor the log nor another event that waits has its number.          *)
Kept(n) ==
  \/ \E e \in table : e.n = n
  \/ \E i \in DOMAIN log : log[i].n = n
  \/ at = "fan" /\ held.n = n

New(e) == e.id = 0 /\ e.n \in 1..published /\ ~Kept(e.n)
Waits(p) == publishing[p] # NoEvent

AllNew ==
  /\ \A n \in 1..MaxEvents : Kept(n) => n <= published
  /\ \A p \in Publishers : Waits(p) => New(publishing[p])
  /\ \A i \in DOMAIN queue : New(queue[i])
  /\ at = "insert" => New(held)

AllApart ==
  /\ \A p, q \in Publishers :
       Waits(p) /\ Waits(q) /\ p # q => publishing[p].n # publishing[q].n
  /\ \A i, j \in DOMAIN queue : i # j => queue[i].n # queue[j].n
  /\ \A p \in Publishers, i \in DOMAIN queue :
       Waits(p) => publishing[p].n # queue[i].n
  /\ at = "insert" =>
       /\ \A p \in Publishers : Waits(p) => publishing[p].n # held.n
       /\ \A i \in DOMAIN queue : queue[i].n # held.n

WaitingInv == AllNew /\ AllApart

(* Steps that move nothing forward, and may lose some.                     *)
LEMMA WaitingLess ==
  ASSUME TypeInv, WaitingInv, TypeInv', published' = published,
         \A n \in 1..MaxEvents : Kept(n)' => Kept(n),
         \A p \in Publishers : Waits(p)' => publishing'[p] = publishing[p],
         queue' = queue \/ queue' = <<>>,
         at' = "insert" => at = "insert" /\ held' = held
  PROVE  WaitingInv'
<1>1. \A e \in Events : New(e) => New(e)'
  BY EventsAreNotNone DEF New
<1>2. /\ \A p \in Publishers : Waits(p) => publishing[p] \in Events
      /\ \A p \in Publishers : Waits(p)' => Waits(p)
      /\ \A i \in DOMAIN queue : queue[i] \in Events
      /\ at = "insert" => held \in Events
      /\ DOMAIN queue' \subseteq DOMAIN queue
      /\ \A i \in DOMAIN queue' : queue'[i] = queue[i]
  BY TypeInvParts DEF WayTyped, HeldTyped, Waits
<1>3. AllNew'
  BY <1>1, <1>2 DEF WaitingInv, AllNew
<1>4. AllApart'
  BY <1>2 DEF WaitingInv, AllApart
<1> QED  BY <1>3, <1>4 DEF WaitingInv

LEMMA WaitingStep ==
  ASSUME TypeInv, WaitingInv, [Next]_eventVars
  PROVE  WaitingInv'
<1>0. /\ TypeInv' /\ WayTyped /\ RestTyped /\ MaxEvents \in Nat
      /\ published \in Nat /\ published <= MaxEvents
  BY TypeInvParts, TypeStep, EventAssumption DEF Counted
<1>1. /\ \A p \in Publishers : Waits(p) => publishing[p] \in Events
      /\ \A i \in DOMAIN queue : queue[i] \in Events
      /\ DOMAIN queue = 1..Len(queue) /\ Len(queue) \in Nat
      /\ at # "take" => held \in Events
  BY <1>0 DEF WayTyped, HeldTyped, Waits
<1>2. ASSUME NEW p \in Publishers, Stamp(p)
      PROVE  WaitingInv'
  <2>0. /\ published' = published + 1 /\ published' <= MaxEvents
        /\ publishing' = [publishing EXCEPT ![p] =
                            [n |-> published', time |-> now, id |-> 0]]
        /\ UNCHANGED <<queue, at, held, table, log>>
    BY <1>0, <1>2 DEF Stamp, processorVars, tableVars
  <2>1. \A n \in 1..MaxEvents : Kept(n)' <=> Kept(n)
    BY <2>0 DEF Kept
  <2>2. \A e \in Events : New(e) => New(e)' /\ e.n <= published
    BY <1>0, <2>0, <2>1, EventsAreNotNone DEF New
  <2>3. New(publishing[p])'
    BY <1>0, <2>0, <2>1 DEF New, WaitingInv, AllNew, WayTyped
  <2>4. \A q \in Publishers : q # p => publishing'[q] = publishing[q]
    BY <1>0, <2>0 DEF WayTyped
  <2>5. Waits(p)' /\ publishing'[p].n = published + 1
    BY <1>0, <2>0 DEF WayTyped, Waits, NoEvent
  <2>6. AllNew'
    BY <1>0, <1>1, <2>0, <2>1, <2>2, <2>3, <2>4 DEF WaitingInv, AllNew, Waits
  <2>7. /\ \A q \in Publishers : Waits(q) => publishing[q].n <= published
        /\ \A i \in DOMAIN queue : queue[i].n <= published
        /\ at = "insert" => held.n <= published
    BY <1>1, <2>2 DEF WaitingInv, AllNew
  <2>8. AllApart'
    BY <1>0, <1>1, <2>0, <2>4, <2>5, <2>7, EventsAreNotNone
       DEF WaitingInv, AllApart, Waits
  <2> QED  BY <2>6, <2>8 DEF WaitingInv
<1>3. ASSUME NEW p \in Publishers, Enqueue(p)
      PROVE  WaitingInv'
  <2>0. /\ Waits(p) /\ publishing' = [publishing EXCEPT ![p] = NoEvent]
        /\ UNCHANGED <<at, held, table, log, published>>
    BY <1>3 DEF Enqueue, processorVars, tableVars, countVars, Waits
  <2>1. /\ \A n \in 1..MaxEvents : Kept(n)' <=> Kept(n)
        /\ \A e \in Events : New(e) => New(e)'
    BY <2>0, EventsAreNotNone DEF Kept, New
  <2>2. \A q \in Publishers : Waits(q)' => q # p /\ publishing'[q] = publishing[q] /\ Waits(q)
    BY <1>0, <2>0 DEF WayTyped, Waits
  <2>3. CASE queue' = queue
    BY <1>0, <2>0, <2>1, <2>2, <2>3, WaitingLess
  <2>4. CASE queue' = Append(queue, publishing[p])
    <3>1. /\ DOMAIN queue' = DOMAIN queue \cup {Len(queue) + 1}
          /\ \A i \in DOMAIN queue : queue'[i] = queue[i]
          /\ queue'[Len(queue) + 1] = publishing[p]
      BY <1>0, <1>1, <2>4 DEF WayTyped
    <3>2. AllNew'
      BY <1>1, <2>0, <2>1, <2>2, <3>1 DEF WaitingInv, AllNew
    <3>3. AllApart'
      BY <1>1, <2>0, <2>2, <3>1 DEF WaitingInv, AllApart
    <3> QED  BY <3>2, <3>3 DEF WaitingInv
  <2> QED  BY <1>3, <2>3, <2>4 DEF Enqueue
<1>4. CASE Take
  <2>0. /\ at' = "insert" /\ held' = Head(queue) /\ queue' = Tail(queue) /\ queue # <<>>
        /\ UNCHANGED <<publishing, table, log, published>> /\ at = "take"
    BY <1>4 DEF Take, tableVars, countVars
  <2>1. /\ \A n \in 1..MaxEvents : Kept(n)' <=> Kept(n)
        /\ \A e \in Events : New(e) => New(e)'
    BY <2>0, EventsAreNotNone DEF Kept, New
  <2>2. /\ DOMAIN queue' = 1..Len(queue) - 1 /\ 1 \in DOMAIN queue
        /\ \A i \in DOMAIN queue' : queue'[i] = queue[i + 1] /\ i + 1 \in DOMAIN queue
        /\ held' = queue[1]
    BY <1>0, <1>1, <2>0 DEF WayTyped
  <2>3. AllNew'
    BY <1>1, <2>0, <2>1, <2>2 DEF WaitingInv, AllNew, Waits
  <2>4. AllApart'
    BY <1>1, <2>0, <2>2 DEF WaitingInv, AllApart, Waits
  <2> QED  BY <2>3, <2>4 DEF WaitingInv
<1>5. CASE Insert
  <2>0. /\ at = "insert" /\ at' = "fan" /\ UNCHANGED <<publishing, queue, log, published>>
        /\ held \in Events /\ held'.n = held.n
        /\ \A e \in table' : e \in table \/ e.n = held.n
    BY <1>1, <1>5 DEF Insert, Events, tableVars
  <2>1. \A n \in 1..MaxEvents : Kept(n)' => Kept(n) \/ n = held.n
    BY <2>0 DEF Kept
  <2>2. \A e \in Events : New(e) /\ e.n # held.n => New(e)'
    BY <2>0, <2>1, EventsAreNotNone DEF New
  <2>3. AllNew'
    BY <1>1, <2>0, <2>1, <2>2 DEF WaitingInv, AllNew, AllApart, New, Waits
  <2>4. AllApart'
    BY <2>0 DEF WaitingInv, AllApart, Waits
  <2> QED  BY <2>3, <2>4 DEF WaitingInv
<1>6. CASE FanOut \/ EndFanOut
  <2>0. /\ UNCHANGED <<publishing, queue, table, published>> /\ at' # "insert"
        /\ \/ log' = log /\ at' # "fan"
           \/ at = "fan" /\ log' = Append(log, held) /\ at' # "fan"
    BY <1>6 DEF FanOut, EndFanOut, tableVars, countVars
  <2>1. \A n \in 1..MaxEvents : Kept(n)' => Kept(n)
    BY <1>0, <2>0 DEF Kept, RestTyped
  <2> QED  BY <1>0, <2>0, <2>1, WaitingLess
<1>7. CASE Clean \/ Crash
  <2>0. /\ published' = published /\ table' \subseteq table /\ log' = log
        /\ at' = "fan" => at = "fan" /\ held' = held
        /\ at' = "insert" => at = "insert" /\ held' = held
        /\ queue' = queue \/ queue' = <<>>
        /\ \A p \in Publishers : Waits(p)' => publishing'[p] = publishing[p]
    BY <1>7 DEF Clean, DeleteOlderThan, Crash, Waits, processorVars, tableVars, countVars
  <2>1. \A n \in 1..MaxEvents : Kept(n)' => Kept(n)
    BY <2>0 DEF Kept
  <2> QED  BY <1>0, <2>0, <2>1, WaitingLess
<1>8. CASE UNCHANGED <<publishing, queue, at, held, table, log, published>>
  <2>1. \A n \in 1..MaxEvents : Kept(n)' => Kept(n)
    BY <1>8 DEF Kept
  <2> QED  BY <1>0, <1>8, <2>1, WaitingLess
<1>9. ASSUME NEW s \in Streams, Offer(s) \/ HandlerStep(s)
      PROVE  UNCHANGED <<publishing, queue, at, held, table, log, published>>
  BY <1>9 DEF Offer, HandlerStep, Subscribe, Write, Leave, Unsubscribe,
              processorVars, tableVars, countVars
<1>10. CASE Tick \/ UNCHANGED eventVars
  BY <1>10, <1>8 DEF Tick, eventVars, processorVars, tableVars, countVars
<1> QED
  BY <1>2, <1>3, <1>4, <1>5, <1>6, <1>7, <1>8, <1>9, <1>10
     DEF Next, ProcessorStep, HandlerStep

LEMMA Waiting == Spec => []WaitingInv
<1>1. NewService => WaitingInv
  BY EventAssumption DEF NewService, WaitingInv, AllNew, AllApart, Kept, Waits
<1>2. TypeInv /\ WaitingInv /\ [Next]_eventVars => WaitingInv'
  BY WaitingStep
<1> QED  BY <1>1, <1>2, Typed, PTL DEF Spec

-----------------------------------------------------------------------------
(* The steps that do something to the table, to the log or to the event on *)
(* its way from one to the other; all others leave them alone.             *)
Bystander == UNCHANGED <<at, held, table, lastId, log>>

LEMMA LogSteps ==
  ASSUME [Next]_eventVars
  PROVE  \/ Bystander /\ UNCHANGED <<now, published>>
         \/ Bystander /\ UNCHANGED now /\ \E p \in Publishers : Stamp(p)
         \/ Bystander /\ Tick
         \/ Take \/ Insert \/ FanOut \/ EndFanOut \/ Clean \/ Crash
<1>1. CASE \E p \in Publishers : Stamp(p) \/ Enqueue(p)
  BY <1>1 DEF Stamp, Enqueue, Bystander, processorVars, tableVars, countVars
<1>2. CASE ProcessorStep
  BY <1>2 DEF ProcessorStep, Offer, Bystander, tableVars, countVars
<1>3. CASE \E s \in Streams : HandlerStep(s)
  BY <1>3 DEF HandlerStep, Subscribe, Write, Leave, Unsubscribe, Bystander,
              processorVars, tableVars, countVars
<1>4. CASE Clean \/ Tick \/ Crash \/ UNCHANGED eventVars
  BY <1>4 DEF Tick, Bystander, eventVars, processorVars, tableVars, countVars
<1> QED  BY <1>1, <1>2, <1>3, <1>4 DEF Next, HandlerStep

(* Ids.  The table remembers the last id it gave, whatever rows are gone:  *)
(* no row, no logged event has a larger one, and an event that is saved    *)
(* but not yet logged has one larger than all in the log.                  *)
SavedLast ==
  at = "fan" /\ held.id > 0 =>
    /\ held.id <= lastId
    /\ \A i \in DOMAIN log : log[i].id < held.id
    /\ \A e \in table : e.id = held.id => e = held

IdsInv ==
  /\ \A e \in table : e.id <= lastId
  /\ \A e, f \in table : e.id = f.id => e = f
  /\ \A i \in DOMAIN log : log[i].id <= lastId
  /\ SavedLast
  /\ IdsFollowLog

LEMMA IdsStep ==
  ASSUME TypeInv, WaitingInv, IdsInv, [Next]_eventVars
  PROVE  IdsInv'
<1>0. /\ WayTyped /\ RestTyped /\ WayTyped' /\ RestTyped'
      /\ \A e \in table : e \in Events /\ e.id \in 1..MaxEvents
      /\ \A i \in DOMAIN log : log[i] \in Events /\ log[i].id \in 0..MaxEvents
      /\ lastId \in Nat
  <2>1. WayTyped /\ RestTyped /\ WayTyped' /\ RestTyped'
    BY TypeInvParts, TypeStep
  <2>2. /\ lastId \in Nat /\ MaxEvents \in Nat
        /\ \A e \in table : e \in Events /\ e.id \in 1..MaxEvents
        /\ \A i \in DOMAIN log : log[i] \in Events
    BY <2>1, EventAssumption, EventsAreNotNone DEF RestTyped, Rows
  <2> QED  BY <2>1, <2>2, EventsAreNotNone
<1>1. CASE Bystander
  BY <1>1 DEF Bystander, IdsInv, SavedLast, IdsFollowLog
<1>2. CASE Take \/ EndFanOut \/ Crash
  <2>1. UNCHANGED <<table, lastId, log>> /\ at' # "fan"
    BY <1>2 DEF Take, EndFanOut, Crash, tableVars
  <2> QED  BY <2>1 DEF IdsInv, SavedLast, IdsFollowLog
<1>3. CASE Insert
  <2>0. held \in Events /\ UNCHANGED log /\ at' = "fan"
    BY <1>0, <1>3 DEF Insert, WayTyped, HeldTyped
  <2>1. CASE UNCHANGED <<held, tableVars>>
    <3>1. held.id = 0
      BY <1>3 DEF Insert, WaitingInv, AllNew, New
    <3> QED  BY <2>0, <2>1, <3>1 DEF IdsInv, SavedLast, IdsFollowLog, tableVars
  <2>2. CASE /\ held' = [held EXCEPT !.id = NextId]
             /\ table' = table \cup {held'} /\ lastId' = NextId
    <3>1. held'.id = lastId + 1 /\ lastId' = lastId + 1
      BY <2>0, <2>2 DEF NextId, Events
    <3>2. /\ \A e \in table : e.id <= lastId
          /\ \A i \in DOMAIN log : log[i].id <= lastId
      BY DEF IdsInv
    <3>3. /\ \A e \in table : e.id # held'.id
          /\ \A e \in table' : e \in table \/ e = held'
      BY <1>0, <2>2, <3>1, <3>2
    <3>6. \A e \in table' : e.id <= lastId'
      BY <1>0, <3>1, <3>2, <3>3
    <3>7. \A e, f \in table' : e.id = f.id => e = f
      BY <3>3 DEF IdsInv
    <3>4. /\ \A i \in DOMAIN log' : log'[i].id <= lastId'
          /\ SavedLast'
      BY <1>0, <2>0, <2>2, <3>1, <3>2 DEF SavedLast
    <3>5. IdsFollowLog'
      <4>1. \A i \in DOMAIN log : log[i].id # held'.id
        BY <1>0, <3>1, <3>2
      <4> QED  BY <2>0, <3>3, <4>1 DEF IdsInv, IdsFollowLog
    <3> QED  BY <3>4, <3>5, <3>6, <3>7 DEF IdsInv
  <2>3. CASE /\ UNCHANGED held /\ lastId' = NextId
             /\ table' = table \cup {[held EXCEPT !.id = NextId]}
    <3> DEFINE row == [held EXCEPT !.id = NextId]
    <3>1. held.id = 0 /\ row.id = lastId + 1 /\ lastId' = lastId + 1
      BY <1>3, <2>0, <2>3 DEF Insert, WaitingInv, AllNew, New, NextId, Events
    <3>2. \A e \in table' : e \in table \/ e = row
      BY <2>3
    <3> HIDE DEF row
    <3>3. /\ \A e \in table : e.id <= lastId
          /\ \A i \in DOMAIN log : log[i].id <= lastId
      BY DEF IdsInv
    <3>4. /\ \A e \in table' : e.id <= lastId'
          /\ \A i \in DOMAIN log' : log'[i].id <= lastId'
          /\ SavedLast'
      BY <1>0, <2>0, <2>3, <3>1, <3>2, <3>3 DEF SavedLast
    <3>5. \A e, f \in table' : e.id = f.id => e = f
      <4>1. \A e \in table : e.id # row.id
        BY <1>0, <3>1, <3>3
      <4> QED  BY <3>2, <4>1 DEF IdsInv
    <3>6. IdsFollowLog'
      <4>1. \A i \in DOMAIN log : log[i].id # row.id
        BY <1>0, <3>1, <3>3
      <4> QED  BY <2>0, <3>2, <4>1 DEF IdsInv, IdsFollowLog
    <3> QED  BY <3>4, <3>5, <3>6 DEF IdsInv
  <2> QED  BY <1>3, <2>1, <2>2, <2>3 DEF Insert, tableVars
<1>4. CASE FanOut
  <2>0. /\ held \in Events /\ held.id \in 0..MaxEvents /\ at = "fan" /\ at' = "offer"
        /\ log' = Append(log, held) /\ UNCHANGED <<table, lastId>>
    BY <1>0, <1>4, EventsAreNotNone DEF FanOut, WayTyped, HeldTyped, tableVars
  <2>1. /\ DOMAIN log' = DOMAIN log \cup {Len(log) + 1} /\ Len(log) \in Nat
        /\ DOMAIN log = 1..Len(log)
        /\ \A i \in DOMAIN log : log'[i] = log[i]
        /\ log'[Len(log) + 1] = held
    BY <1>0, <2>0 DEF RestTyped
  <2>2. held.id <= lastId
    BY <1>0, <2>0 DEF IdsInv, SavedLast
  <2>3. /\ \A i \in DOMAIN log' : log'[i].id <= lastId'
        /\ SavedLast'
    BY <2>0, <2>1, <2>2 DEF IdsInv, SavedLast
  <2>4. IdsFollowLog'
    BY <1>0, <2>0, <2>1 DEF IdsInv, SavedLast, IdsFollowLog
  <2> QED  BY <2>0, <2>3, <2>4 DEF IdsInv
<1>5. CASE Clean
  <2>1. table' \subseteq table /\ UNCHANGED <<at, held, lastId, log>>
    BY <1>5 DEF Clean, DeleteOlderThan, processorVars
  <2> QED  BY <2>1 DEF IdsInv, SavedLast, IdsFollowLog
<1> QED  BY <1>1, <1>2, <1>3, <1>4, <1>5, LogSteps

LEMMA Ids == Spec => []IdsInv
<1>1. NewService => IdsInv
  BY DEF NewService, IdsInv, SavedLast, IdsFollowLog
<1>2. TypeInv /\ WaitingInv /\ IdsInv /\ [Next]_eventVars => IdsInv'
  BY IdsStep
<1> QED  BY <1>1, <1>2, Typed, Waiting, PTL DEF Spec

(* No deletion of old rows, failed insert or restart gives an id a second  *)
(* time, and ids grow along the log: IdsFollowLog.                         *)
THEOREM IdsOrderEvents == Spec => []IdsFollowLog
  BY Ids, PTL DEF IdsInv

-----------------------------------------------------------------------------
(* Rows.  What is streamed with an id was saved before, and is deleted     *)
(* only when it is too old.                                                *)
Fetchable(e) ==
  e.id > 0 => e \in table \/ (Retention > 0 /\ e.time + Retention <= now)

FetchInv ==
  /\ \A i \in DOMAIN log : Fetchable(log[i])
  /\ at = "fan" => Fetchable(held)

LEMMA FetchStep ==
  ASSUME TypeInv, WaitingInv, FetchInv, [Next]_eventVars
  PROVE  FetchInv'
<1>0. /\ WayTyped /\ RestTyped /\ now \in Nat /\ Retention \in Int
      /\ \A i \in DOMAIN log : log[i] \in Events
  BY TypeInvParts, EventAssumption DEF RestTyped
<1>1. \A e \in Events : e.time \in Nat /\ e.id \in Nat
  BY EventAssumption, EventsAreNotNone
<1>2. CASE Bystander /\ (UNCHANGED now \/ Tick)
  <2>1. now' \in Nat /\ now <= now'
    BY <1>0, <1>2 DEF Tick
  <2>2. ASSUME NEW e \in Events, Fetchable(e)
        PROVE  Fetchable(e)'
    BY <1>0, <1>1, <1>2, <2>1, <2>2 DEF Bystander, Fetchable
  <2>3. at = "fan" => held \in Events
    BY <1>0 DEF WayTyped, HeldTyped
  <2> QED  BY <1>0, <1>2, <2>2, <2>3 DEF Bystander, FetchInv
<1>3. CASE Take \/ EndFanOut \/ Crash
  <2>1. at' # "fan" /\ UNCHANGED <<table, log, now>>
    BY <1>3 DEF Take, EndFanOut, Crash, tableVars
  <2> QED  BY <2>1 DEF FetchInv, Fetchable
<1>4. CASE Insert
  <2>1. /\ UNCHANGED <<log, now>> /\ table \subseteq table'
        /\ held' \in table' \/ held'.id = 0
    BY <1>4 DEF Insert, tableVars, WaitingInv, AllNew, New
  <2> QED  BY <2>1 DEF FetchInv, Fetchable
<1>5. CASE FanOut
  <2>1. /\ at = "fan" /\ at' # "fan" /\ UNCHANGED <<table, now>>
        /\ log' = Append(log, held) /\ held \in Events
    BY <1>0, <1>5 DEF FanOut, WayTyped, HeldTyped, tableVars
  <2>2. \A i \in DOMAIN log' : log'[i] = held \/ (i \in DOMAIN log /\ log'[i] = log[i])
    BY <1>0, <2>1 DEF RestTyped
  <2> QED  BY <2>1, <2>2 DEF FetchInv, Fetchable
<1>6. CASE Clean
  <2>1. PICK instant \in 0..now :
          Retention > 0 /\ table' = {e \in table : e.time > instant - Retention}
    BY <1>6 DEF Clean, DeleteOlderThan
  <2>2. UNCHANGED <<at, held, log, now>>
    BY <1>6 DEF Clean, DeleteOlderThan, processorVars
  <2>3. ASSUME NEW e \in Events, Fetchable(e)
        PROVE  Fetchable(e)'
    BY <1>0, <1>1, <2>1, <2>2, <2>3 DEF Fetchable
  <2>4. at = "fan" => held \in Events
    BY <1>0 DEF WayTyped, HeldTyped
  <2> QED  BY <1>0, <2>2, <2>3, <2>4 DEF FetchInv
<1> QED  BY <1>2, <1>3, <1>4, <1>5, <1>6, LogSteps

(* An event streamed with an id has its row until it is too old, whatever  *)
(* crash comes between the insert and the fan-out: StreamedCanBeFetched.   *)
THEOREM RowsOutliveStream == Spec => []StreamedCanBeFetched
<1>1. NewService => FetchInv
  BY DEF NewService, FetchInv
<1>2. TypeInv /\ WaitingInv /\ FetchInv /\ [Next]_eventVars => FetchInv'
  BY FetchStep
<1>3. FetchInv => StreamedCanBeFetched
  BY DEF FetchInv, Fetchable, StreamedCanBeFetched
<1> QED  BY <1>1, <1>2, <1>3, Typed, Waiting, PTL DEF Spec

-----------------------------------------------------------------------------
(* Streams.  A stream got the log from its subscription on, or a part of   *)
(* it: what the two grow by keeps this.                                    *)
LEMMA PartOfItself ==
  ASSUME NEW S, NEW w \in Seq(S)
  PROVE  PartOf(w, w)
<1> DEFINE f == [i \in DOMAIN w |-> i]
<1>1. f \in [DOMAIN w -> DOMAIN w] /\ DOMAIN w \subseteq Nat
  OBVIOUS
<1>2. \A i \in DOMAIN w : w[i] = w[f[i]] /\ \A j \in 1..i-1 : f[j] < f[i]
  OBVIOUS
<1> QED  BY <1>1, <1>2 DEF PartOf

LEMMA PartOfLonger ==
  ASSUME NEW S, NEW p \in Seq(S), NEW w \in Seq(S), NEW e \in S, PartOf(p, w)
  PROVE  PartOf(p, Append(w, e))
<1>1. PICK f \in [DOMAIN p -> DOMAIN w] :
        \A i \in DOMAIN p : p[i] = w[f[i]] /\ \A j \in 1..i-1 : f[j] < f[i]
  BY DEF PartOf
<1>2. f \in [DOMAIN p -> DOMAIN Append(w, e)]
  OBVIOUS
<1>3. \A i \in DOMAIN p : p[i] = Append(w, e)[f[i]] /\ \A j \in 1..i-1 : f[j] < f[i]
  BY <1>1
<1> QED  BY <1>2, <1>3 DEF PartOf

LEMMA BothLonger ==
  ASSUME NEW S, NEW p \in Seq(S), NEW w \in Seq(S), NEW e \in S, PartOf(p, w)
  PROVE  PartOf(Append(p, e), Append(w, e))
<1>1. PICK f \in [DOMAIN p -> DOMAIN w] :
        \A i \in DOMAIN p : p[i] = w[f[i]] /\ \A j \in 1..i-1 : f[j] < f[i]
  BY DEF PartOf
<1> DEFINE g == [i \in DOMAIN Append(p, e) |->
                   IF i = Len(p) + 1 THEN Len(w) + 1 ELSE f[i]]
<1>2. /\ DOMAIN p = 1..Len(p) /\ Len(p) \in Nat
      /\ DOMAIN w = 1..Len(w) /\ Len(w) \in Nat
      /\ DOMAIN Append(p, e) = 1..Len(p) + 1
      /\ DOMAIN Append(w, e) = 1..Len(w) + 1
  OBVIOUS
<1>3. g \in [DOMAIN Append(p, e) -> DOMAIN Append(w, e)]
  BY <1>2
<1>4. ASSUME NEW i \in DOMAIN Append(p, e)
      PROVE  /\ Append(p, e)[i] = Append(w, e)[g[i]]
             /\ \A j \in 1..i-1 : g[j] < g[i]
  <2>1. CASE i = Len(p) + 1
    BY <1>2, <2>1
  <2>2. CASE i \in DOMAIN p
    BY <1>1, <1>2, <2>2
  <2>3. i = Len(p) + 1 \/ i \in DOMAIN p
    BY <1>2
  <2> QED  BY <2>1, <2>2, <2>3
<1> QED  BY <1>3, <1>4 DEF PartOf

(* The log from a place on, as the log grows.                              *)
LEMMA Grows ==
  ASSUME NEW S, NEW w \in Seq(S), NEW e \in S, NEW a \in 0..Len(w)
  PROVE  /\ SubSeq(w, a + 1, Len(w)) \in Seq(S)
         /\ SubSeq(Append(w, e), a + 1, Len(w)) = SubSeq(w, a + 1, Len(w))
         /\ SubSeq(Append(w, e), a + 1, Len(w) + 1) = Append(SubSeq(w, a + 1, Len(w)), e)
<1> DEFINE v == Append(w, e)
<1>1. /\ v \in Seq(S) /\ Len(v) = Len(w) + 1 /\ Len(w) \in Nat
      /\ \A i \in 1..Len(w) : v[i] = w[i] /\ w[i] \in S
      /\ v[Len(w) + 1] = e
  BY AppendProperties
<1>2. /\ SubSeq(w, a + 1, Len(w)) \in Seq(S)
      /\ Len(SubSeq(w, a + 1, Len(w))) = Len(w) - a
      /\ \A i \in 1..Len(w) - a : SubSeq(w, a + 1, Len(w))[i] = w[a + i]
  BY <1>1, SubSeqProperties
<1>3. /\ SubSeq(v, a + 1, Len(w)) \in Seq(S)
      /\ Len(SubSeq(v, a + 1, Len(w))) = Len(w) - a
      /\ \A i \in 1..Len(w) - a : SubSeq(v, a + 1, Len(w))[i] = v[a + i]
  BY <1>1, SubSeqProperties
<1>4. /\ SubSeq(v, a + 1, Len(w) + 1) \in Seq(S)
      /\ Len(SubSeq(v, a + 1, Len(w) + 1)) = Len(w) - a + 1
      /\ \A i \in 1..Len(w) - a + 1 : SubSeq(v, a + 1, Len(w) + 1)[i] = v[a + i]
  BY <1>1, SubSeqProperties
<1> HIDE DEF v
<1>5. SubSeq(v, a + 1, Len(w)) = SubSeq(w, a + 1, Len(w))
  BY <1>1, <1>2, <1>3, SeqEqual
<1> DEFINE u == Append(SubSeq(w, a + 1, Len(w)), e)
<1>6. /\ u \in Seq(S) /\ Len(u) = Len(w) - a + 1
      /\ \A i \in 1..Len(w) - a : u[i] = w[a + i]
      /\ u[Len(w) - a + 1] = e
  BY <1>1, <1>2, AppendProperties
<1> HIDE DEF u
<1>7. \A i \in 1..Len(w) - a + 1 : v[a + i] = u[i]
  BY <1>1, <1>6
<1>8. SubSeq(v, a + 1, Len(w) + 1) = u
  BY <1>1, <1>4, <1>6, <1>7, SeqEqual
<1> QED  BY <1>2, <1>5, <1>8 DEF u, v

LEMMA Ends ==
  ASSUME NEW S, NEW w \in Seq(S), NEW a \in Nat, a < Len(w)
  PROVE  /\ SubSeq(w, a + 1, Len(w) - 1) \in Seq(S)
         /\ SubSeq(w, a + 1, Len(w)) = Append(SubSeq(w, a + 1, Len(w) - 1), w[Len(w)])
<1>1. a + 1 \in 1..Len(w) /\ Len(w) \in a + 1..Len(w) /\ w[Len(w)] \in S
  OBVIOUS
<1>2. SubSeq(w, a + 1, Len(w)) = SubSeq(w, a + 1, Len(w) - 1) \o <<w[Len(w)]>>
  BY <1>1, SubSeqRecursiveSecond
<1>3. SubSeq(w, a + 1, Len(w) - 1) \in Seq(S)
  BY SubSeqProperties
<1> QED  BY <1>1, <1>2, <1>3, AppendIsConcat

LEMMA Concats ==
  ASSUME NEW S, NEW c \in Seq(S), NEW b \in Seq(S)
  PROVE  /\ c \o b \in Seq(S)
         /\ \A e \in S : c \o Append(b, e) = Append(c \o b, e)
         /\ b # <<>> => Append(c, Head(b)) \o Tail(b) = c \o b
<1>1. c \o b \in Seq(S)
  BY ConcatProperties
<1>2. ASSUME NEW e \in S
      PROVE  c \o Append(b, e) = Append(c \o b, e)
  <2>1. <<e>> \in Seq(S)
    OBVIOUS
  <2> QED  BY <1>1, <2>1, AppendIsConcat, ConcatAssociative
<1>3. ASSUME b # <<>>
      PROVE  Append(c, Head(b)) \o Tail(b) = c \o b
  <2>1. Head(b) \in S /\ <<Head(b)>> \in Seq(S) /\ Tail(b) \in Seq(S)
    BY <1>3
  <2>2. b = <<Head(b)>> \o Tail(b)
    BY <1>3, <2>1
  <2>3. (c \o <<Head(b)>>) \o Tail(b) = c \o (<<Head(b)>> \o Tail(b))
    BY <2>1, ConcatAssociative
  <2> QED  BY <2>1, <2>2, <2>3, AppendIsConcat
<1> QED  BY <1>1, <1>2, <1>3

(* While an event is offered it is the last of the log; who has it still   *)
(* to get is one event behind.                                             *)
InOrder(s) ==
  /\ since[s] <= Len(log) /\ (s \in todo => since[s] < Len(log))
  /\ PartOf(Received(s), FannedTo(s))
  /\ ~missed[s] => Received(s) = FannedTo(s)

StreamInv ==
  /\ at = "offer" => log # <<>> /\ held = log[Len(log)]
  /\ \A s \in subscribers : InOrder(s)

LEMMA StreamStep ==
  ASSUME TypeInv, Subscribed, StreamInv, [Next]_eventVars
  PROVE  StreamInv'
<1>0. /\ StreamsTyped /\ WayTyped /\ Len(log) \in Nat /\ log \in Seq(Events)
      /\ at # "take" => held \in Events
  BY TypeInvParts DEF RestTyped, WayTyped, HeldTyped
<1>1. ASSUME NEW s \in subscribers,
             s \in subscribers' => UNCHANGED <<client[s], buffer[s], since[s], missed[s], log>>,
             s \in todo' <=> s \in todo
      PROVE  s \in subscribers' => InOrder(s)'
  BY <1>1 DEF StreamInv, InOrder, Received, FannedTo
<1>2. ASSUME at' # "offer" \/ UNCHANGED <<at, held, log>>,
             \A s \in subscribers' :
               /\ s \in subscribers
               /\ UNCHANGED <<client[s], buffer[s], since[s], missed[s], log>>
               /\ s \in todo' <=> s \in todo
      PROVE  StreamInv'
  BY <1>2 DEF StreamInv, InOrder, Received, FannedTo
<1>3. CASE Take \/ Insert \/ EndFanOut \/ Clean \/ Tick \/ Crash \/ UNCHANGED eventVars
           \/ \E p \in Publishers : Stamp(p) \/ Enqueue(p)
  BY <1>2, <1>3 DEF Take, Insert, EndFanOut, Clean, DeleteOlderThan, Tick, Crash,
                    Stamp, Enqueue, eventVars, processorVars, streamVars
<1>4. CASE FanOut
  <2>1. /\ at = "fan" /\ at' = "offer" /\ todo' = subscribers /\ log' = Append(log, held)
        /\ UNCHANGED <<held, streamVars>> /\ todo = {} /\ held \in Events
    BY <1>0, <1>4 DEF FanOut, Subscribed, Locked
  <2>2. Len(log') = Len(log) + 1 /\ log' # <<>> /\ log'[Len(log')] = held
    BY <1>0, <2>1
  <2>3. ASSUME NEW s \in subscribers
        PROVE  InOrder(s)'
    <3>1. since[s] \in 0..Len(log)
      BY <1>0, <2>3 DEF StreamInv, InOrder, StreamsTyped
    <3>2. FannedTo(s)' = FannedTo(s)
      BY <1>0, <2>1, <2>2, <2>3, <3>1, Grows DEF FannedTo, streamVars
    <3>3. Received(s)' = Received(s) /\ missed'[s] = missed[s] /\ since'[s] = since[s]
      BY <2>1 DEF Received, streamVars
    <3>4. PartOf(Received(s), FannedTo(s))'
      BY <2>3, <3>2, <3>3 DEF StreamInv, InOrder, PartOf
    <3> QED  BY <1>0, <2>2, <2>3, <3>1, <3>2, <3>3, <3>4 DEF StreamInv, InOrder
  <2> QED  BY <2>1, <2>2, <2>3 DEF StreamInv, streamVars
<1>5. ASSUME NEW s \in Streams, Offer(s)
      PROVE  StreamInv'
  <2>1. /\ at = "offer" /\ s \in todo /\ s \in subscribers /\ todo' = todo \ {s}
        /\ held \in Events /\ log # <<>> /\ held = log[Len(log)]
        /\ UNCHANGED <<at, held, subscribers, client, since, log>>
    BY <1>0, <1>5 DEF Offer, Subscribed, Locked, StreamInv
  <2>2. since[s] \in Nat /\ since[s] < Len(log) /\ InOrder(s)
    BY <1>0, <2>1 DEF StreamInv, InOrder, StreamsTyped
  <2>3. FannedTo(s) \in Seq(Events) /\ FannedTo(s)' = Append(FannedTo(s), held)
    BY <1>0, <2>1, <2>2, Ends DEF FannedTo
  <2>4. /\ Received(s) \in Seq(Events)
        /\ client[s] \o Append(buffer[s], held) = Append(Received(s), held)
    BY <1>0, <2>1, Concats DEF Received, StreamsTyped
  <2>5. ASSUME buffer' = [buffer EXCEPT ![s] = Append(@, held)], UNCHANGED missed
        PROVE  InOrder(s)'
    <3>1. Received(s)' = Append(Received(s), held)
      BY <1>0, <2>1, <2>4, <2>5 DEF Received, StreamsTyped
    <3>2. PartOf(Received(s), FannedTo(s))'
      <4>1. PartOf(Append(Received(s), held), Append(FannedTo(s), held))
        BY <2>1, <2>2, <2>3, <2>4, BothLonger DEF InOrder
      <4> QED  BY <2>3, <3>1, <4>1 DEF PartOf
    <3> QED  BY <1>0, <2>1, <2>2, <2>3, <2>5, <3>1, <3>2 DEF InOrder
  <2>6. ASSUME missed' = [missed EXCEPT ![s] = TRUE], UNCHANGED buffer
        PROVE  InOrder(s)'
    <3>1. Received(s)' = Received(s) /\ missed'[s]
      BY <1>0, <2>1, <2>6 DEF Received, StreamsTyped
    <3>2. PartOf(Received(s), FannedTo(s))'
      <4>1. PartOf(Received(s), Append(FannedTo(s), held))
        BY <2>1, <2>2, <2>3, <2>4, PartOfLonger DEF InOrder
      <4> QED  BY <2>3, <3>1, <4>1 DEF PartOf
    <3> QED  BY <2>1, <2>2, <3>1, <3>2 DEF InOrder
  <2>7. InOrder(s)'
    BY <1>5, <2>5, <2>6 DEF Offer
  <2>8. ASSUME NEW t \in subscribers, t # s
        PROVE  InOrder(t)'
    BY <1>0, <1>1, <1>5, <2>1, <2>8 DEF Offer, StreamsTyped
  <2> QED  BY <2>1, <2>7, <2>8 DEF StreamInv
<1>6. ASSUME NEW s \in Streams, HandlerStep(s)
      PROVE  StreamInv'
  <2>0. UNCHANGED <<at, held, todo, log>>
    BY <1>6 DEF HandlerStep, Subscribe, Write, Leave, Unsubscribe, processorVars
  <2>1. CASE Subscribe(s)
    <3>1. /\ s \notin todo /\ subscribers' = subscribers \cup {s}
          /\ client'[s] = <<>> /\ buffer'[s] = <<>> /\ since'[s] = Len(log)
          /\ ~missed'[s]
      BY <1>0, <2>1 DEF Subscribe, Subscribed, StreamsTyped
    <3>2. FannedTo(s)' = <<>> /\ Received(s)' = <<>>
      BY <1>0, <2>0, <3>1 DEF FannedTo, Received
    <3>3. PartOf(Received(s), FannedTo(s))'
      <4>0. <<>> \in Seq(Events)
        OBVIOUS
      <4>1. PartOf(<<>>, <<>>)
        BY <4>0, PartOfItself
      <4> QED  BY <3>2, <4>1 DEF PartOf
    <3>4. InOrder(s)'
      BY <1>0, <2>0, <3>1, <3>2, <3>3 DEF InOrder
    <3>5. ASSUME NEW t \in subscribers, t # s
          PROVE  InOrder(t)'
      BY <1>0, <1>1, <2>0, <2>1, <3>1, <3>5 DEF Subscribe, StreamsTyped
    <3> QED  BY <2>0, <3>1, <3>4, <3>5 DEF StreamInv
  <2>2. CASE Write(s)
    <3>1. Received(s)' = Received(s)
      BY <1>0, <2>2, Concats DEF Write, Received, StreamsTyped
    <3>2. /\ \A t \in Streams : t # s => Received(t)' = Received(t)
          /\ UNCHANGED <<subscribers, since, missed>>
      BY <1>0, <2>2 DEF Write, Received, StreamsTyped
    <3>3. \A t \in subscribers : InOrder(t)'
      BY <1>0, <2>0, <3>1, <3>2 DEF StreamInv, InOrder, FannedTo, StreamsTyped
    <3> QED  BY <2>0, <3>2, <3>3 DEF StreamInv
  <2>3. CASE Leave(s) \/ Unsubscribe(s)
    BY <1>2, <2>0, <2>3 DEF Leave, Unsubscribe
  <2> QED  BY <1>6, <2>1, <2>2, <2>3 DEF HandlerStep
<1> QED  BY <1>3, <1>4, <1>5, <1>6 DEF Next, ProcessorStep, HandlerStep

LEMMA Streaming == Spec => [](Subscribed /\ StreamInv)
<1>1. NewService => Subscribed /\ StreamInv
  BY DEF NewService, Subscribed, Locked, StreamInv
<1>2. TypeInv /\ Subscribed /\ StreamInv /\ [Next]_eventVars => Subscribed' /\ StreamInv'
  BY SubscribedStep, StreamStep
<1> QED  BY <1>1, <1>2, Typed, PTL DEF Spec

(* A stream that was never full shows the log from its subscription on     *)
(* without a gap, a repetition or a change of order; any other a part of   *)
(* it, in order: StreamsFollowLog.                                         *)
THEOREM StreamsShowLog == Spec => []StreamsFollowLog
<1>1. StreamInv => StreamsFollowLog
  BY DEF StreamInv, InOrder, StreamsFollowLog
<1> QED  BY <1>1, Streaming, PTL

-----------------------------------------------------------------------------
(* The log's promise.  The variables of EventLog, as EventService shows    *)
(* them to it.                                                             *)
RowsShown == {Shown(e) : e \in table}
SavedShown == IF at = "fan" THEN Shown(held) ELSE NoEvent
LogShown == ShownSeq(log)
NextShown ==
  [s \in Streams |-> IF s \notin subscribers THEN 1
                     ELSE Len(log) + (IF s \in todo THEN 0 ELSE 1)]
SentShown ==
  [s \in Streams |-> IF s \in subscribers THEN ShownSeq(Received(s)) ELSE <<>>]

AllShown == <<RowsShown, lastId, SavedShown, LogShown, subscribers, NextShown, SentShown>>

LEMMA AllIsShown == UNCHANGED AllShown => UNCHANGED Abstract!logVars
  BY DEF AllShown, RowsShown, SavedShown, LogShown, NextShown, SentShown,
         Abstract!logVars, Abstract!rowVars, Abstract!sentVars

LEMMA ShownOne ==
  ASSUME NEW e \in Events
  PROVE  Shown(e) = [n |-> e.n, id |-> e.id] /\ Shown(e) # NoEvent
  BY EventsAreNotNone DEF Shown, NoEvent

LEMMA ShownAppend ==
  ASSUME NEW w \in Seq(Events), NEW e \in Events
  PROVE  /\ Len(ShownSeq(w)) = Len(w) /\ DOMAIN ShownSeq(w) = 1..Len(w)
         /\ ShownSeq(Append(w, e)) = Append(ShownSeq(w), Shown(e))
<1> DEFINE T == {Shown(f) : f \in Events}
<1>1. /\ ShownSeq(w) \in Seq(T) /\ Len(ShownSeq(w)) = Len(w)
      /\ DOMAIN ShownSeq(w) = 1..Len(w) /\ Len(w) \in Nat
      /\ \A i \in 1..Len(w) : ShownSeq(w)[i] = Shown(w[i])
  BY DEF ShownSeq
<1>2. /\ Append(w, e) \in Seq(Events) /\ Len(Append(w, e)) = Len(w) + 1
      /\ \A i \in 1..Len(w) : Append(w, e)[i] = w[i]
      /\ Append(w, e)[Len(w) + 1] = e
  BY AppendProperties
<1>3. /\ ShownSeq(Append(w, e)) \in Seq(T)
      /\ Len(ShownSeq(Append(w, e))) = Len(w) + 1
      /\ \A i \in 1..Len(w) + 1 : ShownSeq(Append(w, e))[i] = Shown(Append(w, e)[i])
  BY <1>1, <1>2 DEF ShownSeq
<1>4. /\ Append(ShownSeq(w), Shown(e)) \in Seq(T)
      /\ Len(Append(ShownSeq(w), Shown(e))) = Len(w) + 1
      /\ \A i \in 1..Len(w) : Append(ShownSeq(w), Shown(e))[i] = ShownSeq(w)[i]
      /\ Append(ShownSeq(w), Shown(e))[Len(w) + 1] = Shown(e)
  BY <1>1, AppendProperties
<1>5. \A i \in 1..Len(w) + 1 :
        ShownSeq(Append(w, e))[i] = Append(ShownSeq(w), Shown(e))[i]
  BY <1>1, <1>2, <1>3, <1>4
<1>6. ShownSeq(Append(w, e)) = Append(ShownSeq(w), Shown(e))
  BY <1>3, <1>4, <1>5, SeqEqual
<1> QED  BY <1>1, <1>6

LEMMA ShownNothing == ShownSeq(<<>>) = <<>>
  BY DEF ShownSeq

(* What a stream is shown depends on its own channel and client only.      *)
LEMMA SameStreams ==
  ASSUME UNCHANGED <<subscribers, todo, log, client, buffer>>
  PROVE  UNCHANGED <<subscribers, NextShown, SentShown>>
  BY DEF NextShown, SentShown, Received

LEMMA InitRefines == NewService => Abstract!Init
<1> SUFFICES ASSUME NewService PROVE Abstract!Init
  OBVIOUS
<1>1. /\ RowsShown = {} /\ SavedShown = NoEvent /\ LogShown = <<>> /\ subscribers = {}
      /\ NextShown = [s \in Streams |-> 1] /\ SentShown = [s \in Streams |-> <<>>]
      /\ lastId = 0
  BY ShownNothing DEF NewService, RowsShown, SavedShown, LogShown, NextShown, SentShown
<1> QED
  BY <1>1 DEF Abstract!Init, Abstract!NoEvent, NoEvent, RowsShown, SavedShown, LogShown,
              NextShown, SentShown

(* An insert gives the number of an event that waits, which nothing has.   *)
LEMMA InsertRefines ==
  ASSUME TypeInv, WaitingInv, Insert
  PROVE  Abstract!Next
<1>0. /\ at = "insert" /\ at' = "fan" /\ UNCHANGED <<subscribers, todo, log, client, buffer>>
      /\ held \in Events /\ New(held)
  BY TypeInvParts DEF Insert, WayTyped, HeldTyped, WaitingInv, AllNew, streamVars
<1>1. SavedShown = NoEvent /\ UNCHANGED <<LogShown, subscribers, NextShown, SentShown>>
  BY <1>0, SameStreams DEF SavedShown, LogShown
<1>2. \A e \in RowsShown \cup {LogShown[i] : i \in DOMAIN LogShown} : e.n # held.n
  <2>1. \A e \in table : e \in Events /\ e.n # held.n
    BY <1>0, TypeInvParts DEF RestTyped, Rows, New, Kept
  <2>2. /\ \A i \in DOMAIN log : log[i] \in Events /\ log[i].n # held.n
        /\ DOMAIN LogShown = DOMAIN log
        /\ \A i \in DOMAIN log : LogShown[i] = Shown(log[i])
    BY <1>0, TypeInvParts DEF RestTyped, New, Kept, LogShown, ShownSeq
  <2> QED  BY <2>1, <2>2, ShownOne DEF RowsShown
<1>3. Abstract!Fresh(held.n)
  BY <1>2 DEF Abstract!Fresh, RowsShown, LogShown
<1>4. held' \in Events /\ SavedShown' = [n |-> held.n, id |-> held'.id]
  <2>1. held' \in Events
    BY <1>0, TypeStep, TypeInvParts DEF Next, ProcessorStep, WayTyped, HeldTyped
  <2>2. held'.n = held.n
    BY <1>0 DEF Insert, Events
  <2> QED  BY <1>0, <2>1, <2>2, ShownOne DEF SavedShown
<1>5. CASE held' = [held EXCEPT !.id = NextId] /\ table' = table \cup {held'}
           /\ lastId' = NextId
  <2>1. held'.id = lastId + 1
    BY <1>0, <1>5 DEF Events, NextId
  <2>2. RowsShown' = RowsShown \cup {SavedShown'}
    BY <1>0, <1>5 DEF RowsShown, SavedShown
  <2>3. Abstract!Save(held.n)
    BY <1>1, <1>3, <1>4, <1>5, <2>1, <2>2
       DEF Abstract!Save, Abstract!NoEvent, NoEvent, Abstract!sentVars, NextId,
           RowsShown, SavedShown, LogShown, NextShown, SentShown
  <2> QED  BY <1>0, <2>3, EventsAreNotNone DEF Abstract!Next
<1>6. CASE UNCHANGED <<held, tableVars>>
  <2>1. held.id = 0 /\ UNCHANGED <<RowsShown, lastId>>
    BY <1>0, <1>6 DEF New, RowsShown, tableVars
  <2>2. Abstract!NotSaved(held.n)
    BY <1>1, <1>3, <1>4, <1>6, <2>1
       DEF Abstract!NotSaved, Abstract!NoEvent, NoEvent, Abstract!sentVars,
           RowsShown, SavedShown, LogShown, NextShown, SentShown
  <2> QED  BY <1>0, <2>2, EventsAreNotNone DEF Abstract!Next
<1>7. CASE /\ UNCHANGED held /\ lastId' = NextId
           /\ table' = table \cup {[held EXCEPT !.id = NextId]}
  <2>1. held.id = 0 /\ lastId' = lastId + 1
    BY <1>0, <1>7 DEF New, NextId
  <2>2. RowsShown' = RowsShown \cup {[n |-> held.n, id |-> lastId + 1]}
    <3>1. Shown([held EXCEPT !.id = NextId]) = [n |-> held.n, id |-> lastId + 1]
      BY <1>0 DEF Events, NextId, Shown, NoEvent
    <3> QED  BY <1>7, <3>1 DEF RowsShown
  <2>3. Abstract!SaveUnseen(held.n)
    BY <1>1, <1>3, <1>4, <1>7, <2>1, <2>2
       DEF Abstract!SaveUnseen, Abstract!NoEvent, NoEvent, Abstract!sentVars,
           RowsShown, SavedShown, LogShown, NextShown, SentShown
  <2> QED  BY <1>0, <2>3, EventsAreNotNone DEF Abstract!Next
<1> QED  BY <1>5, <1>6, <1>7 DEF Insert, tableVars

LEMMA FanOutRefines ==
  ASSUME TypeInv, Subscribed, FanOut
  PROVE  Abstract!Log
<1>0. /\ at = "fan" /\ at' = "offer" /\ todo = {} /\ todo' = subscribers
      /\ log' = Append(log, held) /\ held \in Events /\ log \in Seq(Events)
      /\ UNCHANGED <<subscribers, client, buffer, table, lastId>>
  BY TypeInvParts DEF FanOut, Subscribed, Locked, WayTyped, HeldTyped, RestTyped,
                      streamVars, tableVars
<1>1. SavedShown = Shown(held) /\ SavedShown # NoEvent /\ SavedShown' = NoEvent
  BY <1>0, ShownOne DEF SavedShown
<1>2. LogShown' = Append(LogShown, SavedShown)
  BY <1>0, <1>1, ShownAppend DEF LogShown
<1>3. Len(log') = Len(log) + 1 /\ Len(log) \in Nat
  BY <1>0
<1>4. UNCHANGED <<RowsShown, lastId, subscribers, NextShown, SentShown>>
  BY <1>0, <1>3 DEF RowsShown, NextShown, SentShown, Received
<1> QED
  BY <1>1, <1>2, <1>4
     DEF Abstract!Log, Abstract!NoEvent, NoEvent, Abstract!sentVars,
         RowsShown, SavedShown, LogShown, NextShown, SentShown

(* An event that is offered is the next one of the stream.                 *)
LEMMA OfferRefines ==
  ASSUME TypeInv, Subscribed, StreamInv, NEW s \in Streams, Offer(s)
  PROVE  Abstract!Send(s) \/ Abstract!Skip(s)
<1>0. /\ StreamsTyped /\ at = "offer" /\ s \in todo /\ s \in subscribers
      /\ todo' = todo \ {s} /\ log # <<>> /\ log \in Seq(Events)
      /\ held \in Events /\ held = log[Len(log)]
      /\ UNCHANGED <<at, held, subscribers, client, log, table, lastId>>
  BY TypeInvParts
     DEF Offer, Locked, Subscribed, StreamInv, RestTyped, WayTyped, HeldTyped, tableVars
<1>1. Len(log) \in Nat \ {0} /\ Len(LogShown) = Len(log)
      /\ LogShown[Len(log)] = Shown(held)
  BY <1>0 DEF LogShown, ShownSeq
<1>2. UNCHANGED <<RowsShown, lastId, SavedShown, LogShown, subscribers>>
  BY <1>0 DEF RowsShown, SavedShown, LogShown
<1>3. NextShown[s] = Len(log) /\ NextShown' = [NextShown EXCEPT ![s] = @ + 1]
  <2>1. NextShown[s] = Len(log) /\ NextShown'[s] = Len(log) + 1
    BY <1>0, <1>1 DEF NextShown
  <2>2. \A t \in Streams : t # s => NextShown'[t] = NextShown[t]
    BY <1>0 DEF NextShown
  <2>3. /\ NextShown = [t \in Streams |-> NextShown[t]]
        /\ NextShown' = [t \in Streams |-> NextShown'[t]]
    BY DEF NextShown
  <2> QED  BY <2>1, <2>2, <2>3
<1>4. ASSUME buffer' = [buffer EXCEPT ![s] = Append(@, held)]
      PROVE  SentShown' = [SentShown EXCEPT ![s] = Append(@, LogShown[NextShown[s]])]
  <2>1. client[s] \in Seq(Events) /\ buffer[s] \in Seq(Events)
        /\ Received(s) \in Seq(Events)
    BY <1>0, Concats DEF StreamsTyped, Received
  <2>2. Received(s)' = Append(Received(s), held)
    BY <1>0, <1>4, <2>1, Concats DEF Received, StreamsTyped
  <2>3. ShownSeq(Received(s))' = Append(ShownSeq(Received(s)), Shown(held))
    BY <1>0, <2>1, <2>2, ShownAppend DEF ShownSeq
  <2>4. \A t \in Streams : t # s => Received(t)' = Received(t)
    BY <1>0, <1>4 DEF Received, StreamsTyped
  <2>5. \A t \in Streams : t # s => ShownSeq(Received(t))' = ShownSeq(Received(t))
    BY <2>4 DEF ShownSeq
  <2> QED  BY <1>0, <1>1, <1>3, <2>3, <2>5 DEF SentShown
<1>5. ASSUME UNCHANGED buffer
      PROVE  SentShown' = SentShown
  BY <1>0, <1>5 DEF SentShown, Received
<1>6. CASE buffer' = [buffer EXCEPT ![s] = Append(@, held)]
  <2>1. Abstract!Send(s)
    BY <1>0, <1>1, <1>2, <1>3, <1>4, <1>6
       DEF Abstract!Send, Abstract!rowVars, RowsShown, SavedShown, LogShown,
           NextShown, SentShown
  <2> QED  BY <2>1
<1>7. CASE UNCHANGED buffer
  <2>1. Abstract!Skip(s)
    BY <1>0, <1>1, <1>2, <1>3, <1>5, <1>7
       DEF Abstract!Skip, Abstract!rowVars, RowsShown, SavedShown, LogShown,
           NextShown, SentShown
  <2> QED  BY <2>1
<1> QED  BY <1>6, <1>7 DEF Offer

LEMMA HandlerRefines ==
  ASSUME TypeInv, Subscribed, NEW s \in Streams, HandlerStep(s)
  PROVE  Abstract!Open(s) \/ Abstract!Close(s) \/ UNCHANGED Abstract!logVars
<1>0. /\ StreamsTyped /\ UNCHANGED <<at, held, todo, log, table, lastId>>
      /\ Len(log) \in Nat
  BY TypeInvParts DEF HandlerStep, Subscribe, Write, Leave, Unsubscribe, RestTyped,
                      processorVars, tableVars
<1>1. UNCHANGED <<RowsShown, lastId, SavedShown, LogShown>>
  BY <1>0 DEF RowsShown, SavedShown, LogShown
<1>2. Len(LogShown) = Len(log)
  BY TypeInvParts DEF RestTyped, LogShown, ShownSeq
<1>3. CASE Subscribe(s)
  <2>1. /\ s \notin subscribers /\ s \notin todo /\ subscribers' = subscribers \cup {s}
        /\ client' = [client EXCEPT ![s] = <<>>] /\ buffer' = [buffer EXCEPT ![s] = <<>>]
    BY <1>3 DEF Subscribe, Subscribed
  <2>2. NextShown' = [NextShown EXCEPT ![s] = Len(log) + 1]
    BY <1>0, <2>1 DEF NextShown
  <2>3. ShownSeq(Received(s))' = <<>>
    <3>1. Received(s)' = <<>>
      BY <1>0, <2>1 DEF Received, StreamsTyped
    <3> QED  BY <3>1, ShownNothing DEF ShownSeq
  <2>4. \A t \in Streams : t # s => ShownSeq(Received(t))' = ShownSeq(Received(t))
    BY <1>0, <2>1 DEF Received, StreamsTyped, ShownSeq
  <2>5. SentShown' = [SentShown EXCEPT ![s] = <<>>]
    BY <2>1, <2>3, <2>4 DEF SentShown
  <2>6. Abstract!Open(s)
    BY <1>1, <1>2, <2>1, <2>2, <2>5
       DEF Abstract!Open, Abstract!rowVars, RowsShown, SavedShown, LogShown,
           NextShown, SentShown
  <2> QED  BY <2>6
<1>4. CASE Write(s)
  <2>1. UNCHANGED subscribers /\ \A t \in Streams : Received(t)' = Received(t)
    <3>1. Received(s)' = Received(s)
      BY <1>0, <1>4, Concats DEF Write, Received, StreamsTyped
    <3>2. \A t \in Streams : t # s => Received(t)' = Received(t)
      BY <1>0, <1>4 DEF Write, Received, StreamsTyped
    <3> QED  BY <1>4, <3>1, <3>2 DEF Write
  <2>2. UNCHANGED <<subscribers, NextShown, SentShown>>
    BY <1>0, <2>1 DEF NextShown, SentShown, ShownSeq
  <2> QED  BY <1>1, <2>2, AllIsShown DEF AllShown
<1>5. CASE Leave(s)
  <2>1. UNCHANGED <<subscribers, NextShown, SentShown>>
    BY <1>0, <1>5, SameStreams DEF Leave
  <2> QED  BY <1>1, <2>1, AllIsShown DEF AllShown
<1>6. CASE Unsubscribe(s)
  <2>1. /\ s \in subscribers /\ subscribers' = subscribers \ {s}
        /\ UNCHANGED <<client, buffer>>
    BY <1>6 DEF Unsubscribe, Subscribed
  <2>2. NextShown' = [NextShown EXCEPT ![s] = 1]
    BY <1>0, <2>1 DEF NextShown
  <2>3. SentShown' = [SentShown EXCEPT ![s] = <<>>]
    BY <1>0, <2>1 DEF SentShown, Received
  <2>4. Abstract!Close(s)
    BY <1>1, <2>1, <2>2, <2>3
       DEF Abstract!Close, Abstract!rowVars, RowsShown, SavedShown, LogShown,
           NextShown, SentShown
  <2> QED  BY <2>4
<1> QED  BY <1>3, <1>4, <1>5, <1>6 DEF HandlerStep

LEMMA CleanRefines ==
  ASSUME Clean
  PROVE  Abstract!Next
<1>1. /\ table' \subseteq table
      /\ UNCHANGED <<at, held, todo, subscribers, client, buffer, log, lastId>>
  BY DEF Clean, DeleteOlderThan, processorVars, streamVars
<1>2. UNCHANGED <<lastId, SavedShown, LogShown, subscribers, NextShown, SentShown>>
  BY <1>1, SameStreams DEF SavedShown, LogShown
<1> DEFINE old == RowsShown \ RowsShown'
<1>3. RowsShown' = RowsShown \ old /\ old \in SUBSET RowsShown
  BY <1>1 DEF RowsShown
<1>4. Abstract!Forget(old)
  BY <1>2, <1>3 DEF Abstract!Forget, Abstract!sentVars, RowsShown, SavedShown, LogShown,
                    NextShown, SentShown
<1> QED  BY <1>3, <1>4 DEF Abstract!Next, RowsShown

LEMMA CrashRefines ==
  ASSUME Crash
  PROVE  Abstract!Stop
<1>1. /\ SavedShown' = NoEvent /\ subscribers' = {}
      /\ NextShown' = [s \in Streams |-> 1] /\ SentShown' = [s \in Streams |-> <<>>]
      /\ UNCHANGED <<RowsShown, lastId, LogShown>>
  BY DEF Crash, SavedShown, NextShown, SentShown, RowsShown, LogShown, tableVars
<1> QED
  BY <1>1 DEF Abstract!Stop, Abstract!NoEvent, NoEvent, RowsShown, SavedShown, LogShown,
              NextShown, SentShown

(* Queueing, taking, ending a fan-out and the clock are not shown.         *)
LEMMA OthersStutter ==
  ASSUME Subscribed,
         \/ \E p \in Publishers : Stamp(p) \/ Enqueue(p)
         \/ Take \/ EndFanOut \/ Tick \/ UNCHANGED eventVars
  PROVE  UNCHANGED Abstract!logVars
<1>1. /\ UNCHANGED <<subscribers, todo, log, client, buffer, table, lastId>>
      /\ UNCHANGED <<at, held>> \/ (at # "fan" /\ at' # "fan")
  BY DEF Stamp, Enqueue, Take, EndFanOut, Locked, Tick, eventVars, processorVars,
         streamVars, tableVars
<1>2. UNCHANGED AllShown
  BY <1>1, SameStreams DEF AllShown, RowsShown, SavedShown, LogShown
<1> QED  BY <1>2, AllIsShown

(* The service keeps the log's promise to its readers: ids that grow, an   *)
(* event saved before it is streamed, streams sent the log in order from   *)
(* where they opened: ImplementsEventLog.                                  *)
THEOREM EventLogRefinement == Spec => ImplementsEventLog
<1> DEFINE IInv == TypeInv /\ WaitingInv /\ Subscribed /\ StreamInv
<1>1. IInv /\ [Next]_eventVars => [Abstract!Next]_(Abstract!logVars)
  <2> SUFFICES ASSUME TypeInv, WaitingInv, Subscribed, StreamInv, [Next]_eventVars
               PROVE  [Abstract!Next]_(Abstract!logVars)
    OBVIOUS
  <2>1. CASE Insert
    BY <2>1, InsertRefines
  <2>2. CASE FanOut
    BY <2>2, FanOutRefines DEF Abstract!Next
  <2>3. ASSUME NEW s \in Streams, Offer(s) \/ HandlerStep(s)
        PROVE  [Abstract!Next]_(Abstract!logVars)
    BY <2>3, OfferRefines, HandlerRefines DEF Abstract!Next
  <2>4. CASE Clean \/ Crash
    BY <2>4, CleanRefines, CrashRefines DEF Abstract!Next
  <2>5. CASE \/ \E p \in Publishers : Stamp(p) \/ Enqueue(p)
             \/ Take \/ EndFanOut \/ Tick \/ UNCHANGED eventVars
    BY <2>5, OthersStutter
  <2> QED  BY <2>1, <2>2, <2>3, <2>4, <2>5 DEF Next, ProcessorStep, HandlerStep
<1> QED
  BY <1>1, InitRefines, Typed, Waiting, Streaming, PTL
     DEF Spec, ImplementsEventLog, Abstract!Spec
=============================================================================
