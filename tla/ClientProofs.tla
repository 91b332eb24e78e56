---------------------------- MODULE ClientProofs -----------------------------
(***************************************************************************)
(* Proofs about ReputationClient for any IPs, checks, tolerances and       *)
(* cool-down: its types, that nobody fails for another, and that its       *)
(* breaker does what Breaker promises.                                     *)
(***************************************************************************)
EXTENDS ReputationClient, TLAPS

-----------------------------------------------------------------------------
(* Types.                                                                  *)
LEMMA InitTypes == Init => ClientTypeOK
<1> SUFFICES ASSUME Init PROVE ClientTypeOK
  OBVIOUS
<1>1. (CHOOSE i \in IPs : TRUE) \in IPs
  BY ClientAssumption
<1> QED  BY <1>1, ClientAssumption DEF Init, ClientTypeOK, Places

LEMMA CheckTypes ==
  ASSUME ClientTypeOK, NEW c \in Checks, CheckStep(c)
  PROVE  ClientTypeOK'
<1> USE DEF ClientTypeOK, Places, Goto, breakerVars
<1>1. CASE PassBreaker(c)
  BY <1>1 DEF PassBreaker, callVars, historyVars
<1>2. CASE Ask(c)
  BY <1>2 DEF Ask, historyVars
<1>3. CASE Receive(c)
  BY <1>3 DEF Receive, historyVars
<1>4. CASE Save(c)
  BY <1>4 DEF Save, callVars
<1>5. CASE RecordSuccess(c)
  BY <1>5 DEF RecordSuccess, callVars, historyVars
<1>6. CASE RecordFailure(c)
  BY <1>6, ClientAssumption DEF RecordFailure, callVars, historyVars
<1> QED  BY <1>1, <1>2, <1>3, <1>4, <1>5, <1>6 DEF CheckStep

LEMMA TypeStep == ClientTypeOK /\ [Next]_clientVars => ClientTypeOK'
<1> SUFFICES ASSUME ClientTypeOK, [Next]_clientVars PROVE ClientTypeOK'
  OBVIOUS
<1>1. ASSUME NEW c \in Checks, NEW i \in IPs, Arrive(c, i)
      PROVE  ClientTypeOK'
  BY <1>1 DEF Arrive, Goto, ClientTypeOK, Places, breakerVars, callVars
<1>2. ASSUME NEW c \in Checks, GoAway(c)
      PROVE  ClientTypeOK'
  BY <1>2 DEF GoAway, ClientTypeOK, breakerVars, callVars, historyVars
<1>3. ASSUME NEW i \in IPs, AbuseIPDBAnswers(i)
      PROVE  ClientTypeOK'
  BY <1>3 DEF AbuseIPDBAnswers, Deliver, ClientTypeOK, breakerVars
<1>4. CASE Tick
  BY <1>4, ClientAssumption DEF Tick, ClientTypeOK, callVars, historyVars
<1>5. CASE UNCHANGED clientVars
  BY <1>5 DEF clientVars, ClientTypeOK, breakerVars, callVars, historyVars
<1> QED  BY <1>1, <1>2, <1>3, <1>4, <1>5, CheckTypes DEF Next

(* Every variable of the client keeps its type, and only a call that runs  *)
(* is waited for: ClientTypeOK, through every interleaving of checks,      *)
(* answers and contexts that end.                                          *)
THEOREM ClientTypes == Spec => []ClientTypeOK
  BY InitTypes, TypeStep, PTL DEF Spec

-----------------------------------------------------------------------------
(* Who fails, and why.  A check meets its failure one step after the cause *)
(* of it: an error lies in its channel before it reads it there.  That the *)
(* error belongs to a call that failed is what makes the invariant         *)
(* inductive; an older error, of an earlier request of the same goroutine, *)
(* is not read, because the check asks with a new channel.                 *)
ErrorsAreOfCalls ==
  \A c \in Checks : pc[c] = "wait" /\ channel[c] = "error" => c \in failedCalls

FailInv == NobodyFailsForAnother /\ ErrorsAreOfCalls

LEMMA CheckFails ==
  ASSUME ClientTypeOK, FailInv, NEW c \in Checks, CheckStep(c)
  PROVE  FailInv'
<1> USE DEF ClientTypeOK, FailInv, NobodyFailsForAnother, ErrorsAreOfCalls, Goto
<1>1. CASE PassBreaker(c)
  BY <1>1 DEF PassBreaker, callVars, historyVars
<1>2. CASE Ask(c)
  BY <1>2 DEF Ask, historyVars
<1>3. CASE Receive(c)
  BY <1>3 DEF Receive, historyVars
<1>4. CASE Save(c)
  BY <1>4 DEF Save, callVars
<1>5. CASE RecordSuccess(c) \/ RecordFailure(c)
  BY <1>5 DEF RecordSuccess, RecordFailure, callVars, historyVars
<1> QED  BY <1>1, <1>2, <1>3, <1>4, <1>5 DEF CheckStep

LEMMA FailStep ==
  ASSUME ClientTypeOK, FailInv, [Next]_clientVars
  PROVE  FailInv'
<1> USE DEF ClientTypeOK, FailInv, NobodyFailsForAnother, ErrorsAreOfCalls
<1>1. ASSUME NEW c \in Checks, NEW i \in IPs, Arrive(c, i)
      PROVE  FailInv'
  BY <1>1 DEF Arrive, Goto, callVars
<1>2. ASSUME NEW c \in Checks, GoAway(c)
      PROVE  FailInv'
  BY <1>2 DEF GoAway, callVars, historyVars
<1>3. ASSUME NEW i \in IPs, AbuseIPDBAnswers(i)
      PROVE  FailInv'
  BY <1>3 DEF AbuseIPDBAnswers, Deliver
<1>4. CASE Tick \/ UNCHANGED clientVars
  BY <1>4 DEF Tick, clientVars, callVars, historyVars
<1> QED  BY <1>1, <1>2, <1>3, <1>4, CheckFails DEF Next

(* A check fails only for a reason of its own: its context ended, the call *)
(* it waited for failed, or its row was not saved.  However many checks    *)
(* share a call, the end of the context of one of them, be it the one that *)
(* started the call, fails no other: NobodyFailsForAnother.                *)
THEOREM OwnFailures == Spec => []NobodyFailsForAnother
<1>1. Init => FailInv
  BY DEF Init, FailInv, NobodyFailsForAnother, ErrorsAreOfCalls
<1>2. ClientTypeOK /\ FailInv /\ [Next]_clientVars => FailInv'
  BY FailStep
<1>3. FailInv => NobodyFailsForAnother
  BY DEF FailInv
<1> QED  BY <1>1, <1>2, <1>3, ClientTypes, PTL DEF Spec

-----------------------------------------------------------------------------
(* The refinement of Breaker.                                              *)
LEMMA InitRefines == Init => Abstract!Init
  BY ClientAssumption DEF Init, Abstract!Init, Shut, OnTheirWay

(* A step that leaves the breaker's fields alone and nobody's place on     *)
(* either side of it is none of the abstract breaker.                      *)
LEMMA Stutters ==
  ASSUME UNCHANGED breakerVars,
         \A c \in Checks : pc[c] \in {"idle", "admit"} <=> pc'[c] \in {"idle", "admit"}
  PROVE  UNCHANGED Abstract!breakerVars
  BY DEF breakerVars, Abstract!breakerVars, Shut, OnTheirWay

(* A check that the breaker lets through goes out; one that is refused     *)
(* changes nothing.                                                        *)
LEMMA PassRefines ==
  ASSUME ClientTypeOK, NEW c \in Checks, PassBreaker(c)
  PROVE  [Abstract!Next]_(Abstract!breakerVars)
<1>1. CASE AllowRequest /\ Goto(c, "admit", "ask")
  <2>1. Shut = 0
    BY <1>1, ClientAssumption DEF AllowRequest, Shut, ClientTypeOK
  <2>2. OnTheirWay' = OnTheirWay \cup {c}
    BY <1>1 DEF Goto, OnTheirWay, ClientTypeOK
  <2>3. UNCHANGED <<maxRetries, Shut>>
    BY DEF PassBreaker, breakerVars, Shut
  <2> QED  BY <2>1, <2>2, <2>3 DEF Abstract!Next, Abstract!Admit
<1>2. CASE Goto(c, "admit", "idle")
  BY <1>2, Stutters DEF PassBreaker, Goto, ClientTypeOK
<1> QED  BY <1>1, <1>2 DEF PassBreaker

LEMMA SuccessRefines ==
  ASSUME ClientTypeOK, NEW c \in Checks, RecordSuccess(c)
  PROVE  Abstract!Succeed(c)
<1>1. c \in OnTheirWay /\ OnTheirWay' = OnTheirWay \ {c}
  BY DEF RecordSuccess, Goto, OnTheirWay, ClientTypeOK
<1>2. Shut' = IF maxRetries > 0 THEN 0 ELSE Shut
  BY ClientAssumption DEF RecordSuccess, Shut, ClientTypeOK
<1> QED  BY <1>1, <1>2 DEF Abstract!Succeed, RecordSuccess

LEMMA FailureRefines ==
  ASSUME ClientTypeOK, NEW c \in Checks, RecordFailure(c)
  PROVE  Abstract!Fail(c)
<1>1. c \in OnTheirWay /\ OnTheirWay' = OnTheirWay \ {c}
  BY DEF RecordFailure, Goto, OnTheirWay, ClientTypeOK
<1>2. Shut' = CoolDown \/ (Shut = 0 /\ maxRetries > 1 /\ Shut' = Shut)
  BY ClientAssumption DEF RecordFailure, Shut, ClientTypeOK
<1> QED  BY <1>1, <1>2 DEF Abstract!Fail, RecordFailure

LEMMA TickRefines ==
  ASSUME ClientTypeOK, Tick
  PROVE  [Abstract!Next]_(Abstract!breakerVars)
<1>1. UNCHANGED <<maxRetries, OnTheirWay>>
  BY DEF Tick, OnTheirWay
<1>2. (Shut > 0 /\ Shut' = Shut - 1) \/ Shut' = Shut
  BY ClientAssumption DEF Tick, Shut, ClientTypeOK
<1> QED  BY <1>1, <1>2 DEF Abstract!Next, Abstract!Pass, Abstract!breakerVars

(* Everything else happens on one side of the breaker.                     *)
LEMMA OthersStutter ==
  ASSUME ClientTypeOK, [Next]_clientVars,
         ~Tick, ~\E c \in Checks : PassBreaker(c) \/ RecordSuccess(c) \/ RecordFailure(c)
  PROVE  UNCHANGED Abstract!breakerVars
<1> USE DEF ClientTypeOK, Goto
<1>1. ASSUME NEW c \in Checks, Ask(c) \/ Receive(c) \/ Save(c)
      PROVE  UNCHANGED Abstract!breakerVars
  BY <1>1, Stutters DEF Ask, Receive, Save
<1>2. ASSUME NEW c \in Checks, NEW i \in IPs, Arrive(c, i)
      PROVE  UNCHANGED Abstract!breakerVars
  BY <1>2, Stutters DEF Arrive
<1>3. ASSUME NEW c \in Checks, GoAway(c)
      PROVE  UNCHANGED Abstract!breakerVars
  BY <1>3, Stutters DEF GoAway
<1>4. ASSUME NEW i \in IPs, AbuseIPDBAnswers(i)
      PROVE  UNCHANGED Abstract!breakerVars
  BY <1>4, Stutters DEF AbuseIPDBAnswers
<1>5. CASE UNCHANGED clientVars
  BY <1>5, Stutters DEF clientVars
<1> QED  BY <1>1, <1>2, <1>3, <1>4, <1>5 DEF Next, CheckStep

(* The breaker of the code, with its count of failures that any number of  *)
(* checks renew and reset in any order, is one that lets nothing through   *)
(* for a cool-down after a failure too many: ImplementsBreaker.            *)
THEOREM BreakerRefinement == Spec => ImplementsBreaker
<1>1. ClientTypeOK /\ [Next]_clientVars => [Abstract!Next]_(Abstract!breakerVars)
  <2> SUFFICES ASSUME ClientTypeOK, [Next]_clientVars
               PROVE  [Abstract!Next]_(Abstract!breakerVars)
    OBVIOUS
  <2>1. ASSUME NEW c \in Checks, PassBreaker(c) \/ RecordSuccess(c) \/ RecordFailure(c)
        PROVE  [Abstract!Next]_(Abstract!breakerVars)
    BY <2>1, PassRefines, SuccessRefines, FailureRefines DEF Abstract!Next
  <2> QED  BY <2>1, TickRefines, OthersStutter
<1> QED
  BY <1>1, InitRefines, ClientTypes, PTL DEF Spec, ImplementsBreaker, Abstract!Spec
=============================================================================
