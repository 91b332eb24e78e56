------------------------- MODULE MCReputationClient --------------------------
EXTENDS ReputationClient
=============================================================================
