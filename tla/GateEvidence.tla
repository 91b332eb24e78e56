---------------------------- MODULE GateEvidence -----------------------------
(***************************************************************************)
(* ThreatGate with a memory of what it has heard about each IP and of what *)
(* it has stored, against which its answers and its cache are judged.  The *)
(* two history variables follow the steps of the gate and restrict none.   *)
(***************************************************************************)
EXTENDS ThreatGate

VARIABLES
  heard,   \* the scores learnt of an IP, from AbuseIPDB or a trap
  written  \* every record the table ever held for an IP

evidenceVars == <<gateVars, heard, written>>

EvidenceInit ==
  /\ Init
  /\ heard = [ip \in IPs |-> {}]
  /\ written = [ip \in IPs |-> {}]

(* A worker learns something of an IP when AbuseIPDB answers it, or when   *)
(* it builds a trap's record.                                              *)
Learnt(ip) ==
  {req'[w].record.score :
     w \in {v \in Workers : /\ IP(v) = ip
                            /\ <<pc[v], pc'[v]>> \in {<<"ask", "save">>,
                                                      <<"trapRead", "trapSave">>}}}

EvidenceNext ==
  /\ Next
  /\ heard' = [ip \in IPs |-> heard[ip] \cup Learnt(ip)]
  /\ written' = [ip \in IPs |-> written[ip] \cup ({db'[ip]} \ {NoRecord})]

EvidenceSpec == EvidenceInit /\ [][EvidenceNext]_evidenceVars

-----------------------------------------------------------------------------
(* No answer without evidence: a client is turned away only if AbuseIPDB   *)
(* or a trap gave its IP a score that reaches the threshold, and let       *)
(* through as safe only if AbuseIPDB gave it one that does not, whatever   *)
(* reads, writes, expiries and failures went on between the evidence and   *)
(* the answer.  A score that equals the threshold blocks, as isThreat has  *)
(* it; with a threshold of 0 or less the answers that are meant to fail    *)
(* open block as well, and the property does not hold.                     *)
VerdictHasEvidence ==
  \A w \in Workers :
    pc[w] = "done" =>
      /\ req[w].verdict = "block" => \E score \in heard[IP(w)] : score >= Threshold
      /\ req[w].verdict = "allow" => \E score \in heard[IP(w)] : score < Threshold

(* The cache never knows more than the table did: a record reaches L1 only *)
(* after the table has held it, so that a crash loses no verdict that was  *)
(* given from memory.                                                      *)
CachedWasWritten ==
  \A ip \in L1!Cached : cache[ip] \in written[ip]
=============================================================================
