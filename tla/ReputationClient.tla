-------------------------- MODULE ReputationClient ---------------------------
(***************************************************************************)
(* The way to AbuseIPDB of a check that neither the cache nor the table    *)
(* could answer: the circuit breaker (internal/threatcheck), the shared    *)
(* call of all checks of one IP (CheckIP, internal/abuseipdb) and the row  *)
(* each of them saves, while clients go away and calls fail.               *)
(***************************************************************************)
EXTENDS Integers, FiniteSets

CONSTANTS
  IPs,
  Checks,      \* goroutines of the HTTP server, one check at a time each
  Tolerances,  \* the values of max_retries that are tried
  CoolDown,    \* circuit_breaker.cool_down_period, in ticks
  MaxFaults    \* bound: calls and statements that fail in a behaviour

ASSUME ClientAssumption ==
  /\ IPs # {}
  /\ Tolerances \subseteq Int /\ CoolDown \in Nat /\ MaxFaults \in Nat

VARIABLES
  maxRetries,  \* circuit_breaker.max_retries, 0 when missing, any integer else
  cbFailures,  \* the breaker's count of failures
  cooling,     \* ticks of the cool-down left since the last failure
  pc, ip,      \* where each check is, and the IP it is of
  gone,        \* the checks whose context has ended
  calling,     \* the IPs whose shared call runs
  waiters,     \* the checks that wait for the shared call of an IP
  channel,     \* what a check's channel holds: "empty", "score" or "error"
  failedCalls, \* history: the checks whose shared call failed
  unsaved,     \* history: the checks whose row was not saved
  faults       \* what the bound counts

breakerVars == <<maxRetries, cbFailures, cooling>>
callVars == <<calling, waiters, channel>>
historyVars == <<failedCalls, unsaved>>
clientVars == <<breakerVars, pc, ip, gone, callVars, historyVars, faults>>

Places == {"idle", "admit", "ask", "wait", "save", "fail", "succeed"}

Init ==
  /\ maxRetries \in Tolerances /\ cbFailures = 0 /\ cooling = 0
  /\ pc = [c \in Checks |-> "idle"]
  /\ ip \in [Checks -> {CHOOSE i \in IPs : TRUE}]
  /\ gone = {}
  /\ calling = {} /\ waiters = [i \in IPs |-> {}]
  /\ channel = [c \in Checks |-> "empty"]
  /\ failedCalls = {} /\ unsaved = {} /\ faults = 0

Goto(c, from, to) == pc[c] = from /\ pc' = [pc EXCEPT ![c] = to]
Fault == faults < MaxFaults /\ faults' = faults + 1

-----------------------------------------------------------------------------
(* A check whose IP is in neither tier.  Which IPs those are changes all   *)
(* the time, as entries expire.                                            *)
Arrive(c, i) ==
  /\ Goto(c, "idle", "admit") /\ ip' = [ip EXCEPT ![c] = i]
  /\ gone' = gone \ {c}
  /\ failedCalls' = failedCalls \ {c} /\ unsaved' = unsaved \ {c}
  /\ UNCHANGED <<breakerVars, callVars, faults>>

(* The client closes its connection, or the router's timeout ends the      *)
(* request's context.                                                      *)
GoAway(c) ==
  /\ pc[c] # "idle" /\ c \notin gone /\ Fault
  /\ gone' = gone \cup {c}
  /\ UNCHANGED <<breakerVars, pc, ip, callVars, historyVars>>

AllowRequest == cbFailures < maxRetries \/ cooling = 0

(* Mutant of PassBreaker: a refused check counts as a failure.             *)
PassRenews(c) ==
  /\ \/ AllowRequest /\ Goto(c, "admit", "ask") /\ UNCHANGED cooling
     \/ ~AllowRequest /\ Goto(c, "admit", "idle") /\ cooling' = CoolDown
  /\ UNCHANGED <<maxRetries, cbFailures, ip, gone, callVars, historyVars, faults>>

(* A check that is refused ends there.                                     *)
PassBreaker(c) ==
  /\ \/ AllowRequest /\ Goto(c, "admit", "ask")
     \/ ~AllowRequest /\ Goto(c, "admit", "idle")
  /\ UNCHANGED <<breakerVars, ip, gone, callVars, historyVars, faults>>

-----------------------------------------------------------------------------
(* Mutant of Ask: the call is forgotten once, not when it ends: a check    *)
(* that comes while it runs waits for nobody.                              *)
AskAlone(c) ==
  /\ Goto(c, "ask", "wait")
  /\ channel' = [channel EXCEPT ![c] = "empty"]
  /\ calling' = calling \cup {ip[c]}
  /\ waiters' = [waiters EXCEPT ![ip[c]] = IF ip[c] \in calling THEN @ ELSE {c}]
  /\ UNCHANGED <<breakerVars, ip, gone, historyVars, faults>>

(* DoChan: the first check of an IP starts its call, those that come while *)
(* it runs wait for the same one, each at a channel of its own.            *)
Ask(c) ==
  /\ Goto(c, "ask", "wait")
  /\ channel' = [channel EXCEPT ![c] = "empty"]
  /\ calling' = calling \cup {ip[c]}
  /\ waiters' = [waiters EXCEPT ![ip[c]] = @ \cup {c}]
  /\ UNCHANGED <<breakerVars, ip, gone, historyVars, faults>>

(* Mutant of Deliver: the checks that wait are not forgotten with the call.*)
DeliverKeepsWaiters(i, result) ==
  /\ channel' = [c \in Checks |-> IF c \in waiters[i] THEN result ELSE channel[c]]
  /\ calling' = calling \ {i} /\ UNCHANGED waiters

(* The call ends, with a score or without, and its result goes to every    *)
(* check that waits for it.                                                *)
Deliver(i, result) ==
  /\ channel' = [c \in Checks |-> IF c \in waiters[i] THEN result ELSE channel[c]]
  /\ waiters' = [waiters EXCEPT ![i] = {}] /\ calling' = calling \ {i}

(* Mutant of AbuseIPDBAnswers: the call runs in the context of the check   *)
(* that started it.                                                        *)
AnswersInContext(i) ==
  /\ i \in calling
  /\ \/ /\ waiters[i] \cap gone = {} /\ Deliver(i, "score")
        /\ UNCHANGED <<failedCalls, faults>>
     \/ /\ waiters[i] \cap gone # {} /\ Deliver(i, "error")
        /\ UNCHANGED <<failedCalls, faults>>
     \/ /\ Fault /\ Deliver(i, "error")
        /\ failedCalls' = failedCalls \cup waiters[i]
  /\ UNCHANGED <<breakerVars, pc, ip, gone, unsaved>>

(* The call has a context and a timeout of its own: it ends when AbuseIPDB *)
(* answers or after 3 s, whoever is still there.  Another status, a body   *)
(* that does not parse and no answer are all errors.                       *)
AbuseIPDBAnswers(i) ==
  /\ i \in calling
  /\ \/ Deliver(i, "score") /\ UNCHANGED <<failedCalls, faults>>
     \/ /\ Fault /\ Deliver(i, "error")
        /\ failedCalls' = failedCalls \cup waiters[i]
  /\ UNCHANGED <<breakerVars, pc, ip, gone, unsaved>>

(* select: the result or the end of the context, either one if both are    *)
(* there.  Nobody reads the channel of a check that has left.              *)
Receive(c) ==
  /\ \/ channel[c] = "score" /\ Goto(c, "wait", "save")
     \/ channel[c] = "error" /\ Goto(c, "wait", "fail")
     \/ c \in gone /\ Goto(c, "wait", "fail")
  /\ waiters' = [i \in IPs |-> waiters[i] \ {c}]
  /\ UNCHANGED <<breakerVars, ip, gone, calling, channel, historyVars, faults>>

(* Every check that got a score saves the row itself, in its own context.  *)
Save(c) ==
  /\ \/ c \notin gone /\ Goto(c, "save", "succeed") /\ UNCHANGED <<unsaved, faults>>
     \/ /\ Goto(c, "save", "fail") /\ unsaved' = unsaved \cup {c}
        /\ IF c \in gone THEN UNCHANGED faults ELSE Fault
  /\ UNCHANGED <<breakerVars, ip, gone, callVars, failedCalls>>

-----------------------------------------------------------------------------
RecordSuccess(c) ==
  /\ Goto(c, "succeed", "idle")
  /\ cbFailures' = 0 /\ UNCHANGED <<maxRetries, cooling>>
  /\ UNCHANGED <<ip, gone, callVars, historyVars, faults>>

(* Mutant of RecordFailure: a breaker that is open already counts no more. *)
FailureOnce(c) ==
  /\ Goto(c, "fail", "idle")
  /\ IF cbFailures < maxRetries
       THEN cbFailures' = cbFailures + 1 /\ cooling' = CoolDown
       ELSE UNCHANGED <<cbFailures, cooling>>
  /\ UNCHANGED <<maxRetries, ip, gone, callVars, historyVars, faults>>

RecordFailure(c) ==
  /\ Goto(c, "fail", "idle")
  /\ cbFailures' = cbFailures + 1 /\ cooling' = CoolDown
  /\ UNCHANGED <<maxRetries, ip, gone, callVars, historyVars, faults>>

Tick ==
  /\ cooling > 0 /\ cooling' = cooling - 1
  /\ UNCHANGED <<maxRetries, cbFailures, pc, ip, gone, callVars, historyVars, faults>>

-----------------------------------------------------------------------------
CheckStep(c) ==
  \/ PassBreaker(c) \/ Ask(c) \/ Receive(c) \/ Save(c)
  \/ RecordSuccess(c) \/ RecordFailure(c)

Next ==
  \/ \E c \in Checks, i \in IPs : Arrive(c, i)
  \/ \E c \in Checks : GoAway(c) \/ CheckStep(c)
  \/ \E i \in IPs : AbuseIPDBAnswers(i)
  \/ Tick

Spec == Init /\ [][Next]_clientVars

(* Goroutines run, a shared call ends within its 3 s, time passes.         *)
Fairness ==
  /\ \A c \in Checks : WF_clientVars(CheckStep(c))
  /\ \A i \in IPs : WF_clientVars(AbuseIPDBAnswers(i))
  /\ WF_clientVars(Tick)

FairSpec == Spec /\ Fairness

-----------------------------------------------------------------------------
ClientTypeOK ==
  /\ maxRetries \in Tolerances /\ cbFailures \in Nat /\ cooling \in 0..CoolDown
  /\ pc \in [Checks -> Places] /\ ip \in [Checks -> IPs]
  /\ gone \subseteq Checks /\ calling \subseteq IPs
  /\ waiters \in [IPs -> SUBSET Checks]
  /\ channel \in [Checks -> {"empty", "score", "error"}]
  /\ \A i \in IPs : i \notin calling => waiters[i] = {}

(* A check fails for a reason of its own: its client has gone, AbuseIPDB   *)
(* failed the call it waited for, or its row could not be saved.  That the *)
(* client of another check, with which it shares a call, goes away never   *)
(* fails it, not even if that other one started the call.                  *)
NobodyFailsForAnother ==
  \A c \in Checks :
    pc[c] = "fail" => c \in gone \cup failedCalls \cup unsaved

(* The breaker as such, whatever interleaves: from the failure too many    *)
(* until the cool-down has passed no check gets through, and only what was *)
(* already on its way closes it before or keeps it shut for longer.        *)
Shut == IF cbFailures >= maxRetries THEN cooling ELSE 0
OnTheirWay == {c \in Checks : pc[c] \notin {"idle", "admit"}}

Abstract == INSTANCE Breaker WITH
  tolerance <- maxRetries, shutFor <- Shut, out <- OnTheirWay

ImplementsBreaker == Abstract!Spec

(* No check waits for ever: neither for a call that others started, nor    *)
(* for one whose starter has gone, nor behind an open breaker.             *)
ChecksEnd == \A c \in Checks : pc[c] # "idle" ~> pc[c] = "idle"

(* A breaker that is open lets checks through again in the end, however    *)
(* many it refuses meanwhile: there is no failure that it never forgets.   *)
BreakerRecovers == ~AllowRequest ~> AllowRequest
=============================================================================
