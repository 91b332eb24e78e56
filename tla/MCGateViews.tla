----------------------------- MODULE MCGateViews ------------------------------
EXTENDS GateViews, TLC

Symmetry == Permutations(Workers)
=============================================================================
