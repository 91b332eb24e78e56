--------------------------- MODULE MCGateEvidence ----------------------------
EXTENDS GateEvidence, TLC

Symmetry == Permutations(Workers)
=============================================================================
