------------------------------ MODULE Breaker --------------------------------
(***************************************************************************)
(* What a circuit breaker promises: after a failure too many it lets       *)
(* nothing through until a cool-down has passed, and those it let through  *)
(* before still settle what it does next.  How it counts is not said.      *)
(***************************************************************************)
EXTENDS Integers

CONSTANTS Checks, CoolDown

VARIABLES
  tolerance,  \* failures in a row at which it opens, 0 or less if it bears none
  shutFor,    \* ticks for which it lets nothing through
  out         \* checks it let through whose outcome it has not heard

breakerVars == <<tolerance, shutFor, out>>

Init == tolerance \in Int /\ shutFor = 0 /\ out = {}

Admit(c) ==
  /\ shutFor = 0
  /\ out' = out \cup {c}
  /\ UNCHANGED <<tolerance, shutFor>>

(* A success opens the way at once, whenever its check was let through;    *)
(* a breaker that bears no failure stays shut for the time it has left.    *)
Succeed(c) ==
  /\ c \in out /\ out' = out \ {c}
  /\ shutFor' = IF tolerance > 0 THEN 0 ELSE shutFor
  /\ UNCHANGED tolerance

(* A failure shuts it for a cool-down, or is one that it bears, but never  *)
(* shortens a cool-down that runs.                                         *)
Fail(c) ==
  /\ c \in out /\ out' = out \ {c}
  /\ \/ shutFor' = CoolDown
     \/ shutFor = 0 /\ tolerance > 1 /\ UNCHANGED shutFor
  /\ UNCHANGED tolerance

Pass == shutFor > 0 /\ shutFor' = shutFor - 1 /\ UNCHANGED <<tolerance, out>>

Next ==
  \/ \E c \in Checks : Admit(c) \/ Succeed(c) \/ Fail(c)
  \/ Pass

Spec == Init /\ [][Next]_breakerVars
=============================================================================
