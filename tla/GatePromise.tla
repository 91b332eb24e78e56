----------------------------- MODULE GatePromise -----------------------------
(***************************************************************************)
(* ThreatGate with a memory of the blocks it promised: a ReportThreat that *)
(* ran to its end promises that its IP is blocked until the record it      *)
(* stored expires.  The history variables follow the steps of the gate and *)
(* restrict none.                                                          *)
(***************************************************************************)
EXTENDS ThreatGate

VARIABLES
  promised,     \* until when an IP is to be blocked, after any trap
  undisturbed,  \* the same, after a trap that nothing else overlapped
  alone,        \* the workers that nothing on the same IP overlapped so far
  owed          \* the promises a worker's request found when it arrived

promiseVars == <<gateVars, promised, undisturbed, alone, owed>>

NoPromise == [any |-> 0, undisturbed |-> 0]

PromiseInit ==
  /\ Init
  /\ promised = [ip \in IPs |-> 0]
  /\ undisturbed = [ip \in IPs |-> 0]
  /\ alone = {}
  /\ owed = [w \in Workers |-> NoPromise]

Busy(w) == pc[w] \notin {"idle", "done"}

(* Request is the only action that counts an arrival.                      *)
Arrives(w) == arrivals' # arrivals /\ (pc'[w] # pc[w] \/ req'[w] # req[w])

(* Nobody else is at work on the IP, in a request or in the background.    *)
Quiet(w, ip) ==
  /\ \A v \in Workers \ {w} : ~(Busy(v) /\ IP(v) = ip)
  /\ pending[ip] = 0 /\ flight[ip].at = "none"

FinishesTrap(w) == pc[w] = "trapFill" /\ pc'[w] = "done"

Later(a, b) == IF a >= b THEN a ELSE b

(* The longest block a trap of the IP that ends in this step promises.     *)
Promise(ip, before, workers) ==
  LET ends == {w \in workers : FinishesTrap(w) /\ IP(w) = ip}
  IN  IF ends = {} THEN before
      ELSE Later(before, req[CHOOSE w \in ends : TRUE].record.expiresAt)

PromiseNext ==
  /\ Next
  /\ promised' = [ip \in IPs |-> Promise(ip, promised[ip], Workers)]
  /\ undisturbed' = [ip \in IPs |-> Promise(ip, undisturbed[ip], alone)]
  /\ alone' = {w \in Workers :
                 IF Arrives(w) THEN Quiet(w, req'[w].ip)
                 ELSE /\ w \in alone /\ pc'[w] \notin {"idle", "done"}
                      /\ \A v \in Workers : Arrives(v) => req'[v].ip # IP(w)}
  /\ owed' = [w \in Workers |->
                IF Arrives(w) THEN [any |-> promised[req'[w].ip],
                                    undisturbed |-> undisturbed[req'[w].ip]]
                ELSE IF pc'[w] = "idle" THEN NoPromise ELSE owed[w]]

PromiseSpec == PromiseInit /\ [][PromiseNext]_promiseVars

(* A worker that answers in this step lets its client through, not because *)
(* of an error that the configuration chose to let through.                *)
LetsThrough(w) ==
  /\ Busy(w) \/ Arrives(w)
  /\ pc'[w] = "done" /\ req'[w].verdict \in {"allow", "assumed"}

(* A record that blocks its IP until the instant given, or for longer.     *)
BlocksUntil(record, until) ==
  record # NoRecord /\ record.score >= Threshold /\ record.expiresAt >= until

-----------------------------------------------------------------------------
(* While the block of a trap that nothing overlapped is in force, its row  *)
(* is in the table and blocks at least as long, and so does the entry of   *)
(* L1 if there is one: of all the requests, reports and clean-ups that     *)
(* come after it, overlapping each other as they may, none puts a row it   *)
(* read before back into either tier, none removes a row unseen that is    *)
(* not the expired one it looked for, and no crash or failed call between  *)
(* two writes leaves one tier behind.                                      *)
UndisturbedBlockKept ==
  \A ip \in IPs : now < undisturbed[ip] =>
    /\ BlocksUntil(db[ip], undisturbed[ip])
    /\ ip \in L1!Cached => BlocksUntil(cache[ip], undisturbed[ip])

(* Once a trap that nothing overlapped has been answered, no check that    *)
(* arrives later lets its IP through before the block expires, whatever    *)
(* checks and traps run after it: neither an eviction from L1, nor the     *)
(* report that follows and writes the row again, nor the cleanup, nor a    *)
(* failed call, nor a crash ends the block early.                          *)
UndisturbedTrapHolds ==
  [][\A w \in Workers : LetsThrough(w) => now >= owed'[w].undisturbed]_promiseVars

(* README: "Any further request from this IP was instantly sentenced to    *)
(* `403 Forbidden`": the same of every trap, overlapped or not.            *)
TrapHolds ==
  [][\A w \in Workers : LetsThrough(w) => now >= owed'[w].any]_promiseVars
=============================================================================
