------------------------------ MODULE EventLog -------------------------------
(***************************************************************************)
(* What the event service promises to those who read it: events are saved  *)
(* under ids that grow, then logged, one at a time; an open stream is sent *)
(* the log from where it stood when it opened, in order, with gaps; old    *)
(* rows go.  How events are queued, and by whom, is not said.              *)
(***************************************************************************)
EXTENDS Naturals, Sequences

CONSTANTS Streams, Numbers  \* Numbers: what tells events apart

VARIABLES
  rows,    \* the events that can be fetched
  lastId,  \* the last id given
  saved,   \* the event that is to be logged next
  log,     \* the events logged
  open,    \* the streams that are open
  next,    \* the place in the log of the next event of a stream
  sent     \* what a stream has been sent

rowVars == <<rows, lastId, saved>>
sentVars == <<open, next, sent>>
logVars == <<rowVars, log, sentVars>>

NoEvent == [n |-> 0]

Init ==
  /\ rows = {} /\ lastId = 0 /\ saved = NoEvent /\ log = <<>>
  /\ open = {} /\ next = [s \in Streams |-> 1]
  /\ sent = [s \in Streams |-> <<>>]

Fresh(n) == \A e \in rows \cup {log[i] : i \in DOMAIN log} : e.n # n

Save(n) ==
  /\ saved = NoEvent /\ Fresh(n)
  /\ lastId' = lastId + 1
  /\ saved' = [n |-> n, id |-> lastId + 1] /\ rows' = rows \cup {saved'}
  /\ UNCHANGED <<log, sentVars>>

(* An event that cannot be saved is logged all the same, without an id.    *)
NotSaved(n) ==
  /\ saved = NoEvent /\ Fresh(n)
  /\ saved' = [n |-> n, id |-> 0]
  /\ UNCHANGED <<rows, lastId, log, sentVars>>

(* Nor does one have it whose row was saved and which is not told so.      *)
SaveUnseen(n) ==
  /\ saved = NoEvent /\ Fresh(n)
  /\ lastId' = lastId + 1 /\ rows' = rows \cup {[n |-> n, id |-> lastId + 1]}
  /\ saved' = [n |-> n, id |-> 0]
  /\ UNCHANGED <<log, sentVars>>

Log ==
  /\ saved # NoEvent /\ saved' = NoEvent
  /\ log' = Append(log, saved)
  /\ UNCHANGED <<rows, lastId, sentVars>>

Send(s) ==
  /\ s \in open /\ next[s] <= Len(log)
  /\ next' = [next EXCEPT ![s] = @ + 1]
  /\ sent' = [sent EXCEPT ![s] = Append(@, log[next[s]])]
  /\ UNCHANGED <<rowVars, log, open>>

Skip(s) ==
  /\ s \in open /\ next[s] <= Len(log)
  /\ next' = [next EXCEPT ![s] = @ + 1]
  /\ UNCHANGED <<rowVars, log, open, sent>>

Open(s) ==
  /\ s \notin open /\ open' = open \cup {s}
  /\ next' = [next EXCEPT ![s] = Len(log) + 1]
  /\ sent' = [sent EXCEPT ![s] = <<>>]
  /\ UNCHANGED <<rowVars, log>>

Close(s) ==
  /\ s \in open /\ open' = open \ {s}
  /\ next' = [next EXCEPT ![s] = 1] /\ sent' = [sent EXCEPT ![s] = <<>>]
  /\ UNCHANGED <<rowVars, log>>

Forget(old) == rows' = rows \ old /\ UNCHANGED <<lastId, saved, log, sentVars>>

(* The process ends: an event saved and not logged is not logged any more. *)
Stop ==
  /\ saved' = NoEvent /\ open' = {}
  /\ next' = [s \in Streams |-> 1] /\ sent' = [s \in Streams |-> <<>>]
  /\ UNCHANGED <<rows, lastId, log>>

Next ==
  \/ \E n \in Numbers : Save(n) \/ NotSaved(n) \/ SaveUnseen(n)
  \/ Log
  \/ \E s \in Streams : Send(s) \/ Skip(s) \/ Open(s) \/ Close(s)
  \/ \E old \in SUBSET rows : Forget(old)
  \/ Stop

Spec == Init /\ [][Next]_logVars
=============================================================================
