---------------------------- MODULE MCGatePromise ----------------------------
EXTENDS GatePromise, TLC

Symmetry == Permutations(Workers)
=============================================================================
