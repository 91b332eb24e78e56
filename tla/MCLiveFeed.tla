----------------------------- MODULE MCLiveFeed ------------------------------
EXTENDS LiveFeed
=============================================================================
