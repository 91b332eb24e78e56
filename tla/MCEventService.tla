--------------------------- MODULE MCEventService ----------------------------
EXTENDS EventService
=============================================================================
