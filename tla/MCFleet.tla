------------------------------- MODULE MCFleet -------------------------------
(* Small fleets for TLC.  The limits keep the order of the real ones:        *)
(* OFFLINE_AFTER < STOP_TIMEOUT < PICKUP_TTL < START_TIMEOUT.                *)
EXTENDS Fleet, TLC

HostSymmetry == Permutations(Hosts)

=============================================================================
