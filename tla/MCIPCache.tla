------------------------------ MODULE MCIPCache ------------------------------
(* CacheUse on a few IPs, two instants and both statuses.                  *)
EXTENDS CacheUse

MCTimes == 0..2
MCRecords == [status : {"safe", "threat"}, expiresAt : 0..1]
=============================================================================
