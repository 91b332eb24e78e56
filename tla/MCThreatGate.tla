---------------------------- MODULE MCThreatGate -----------------------------
EXTENDS ThreatGate, TLC

WorkerSymmetry == Permutations(Workers)
=============================================================================
