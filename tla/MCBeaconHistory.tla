-------------------------- MODULE MCBeaconHistory --------------------------
(* BeaconHistory on three windows of four slots. *)
EXTENDS BeaconHistory

MCForkSchedule == <<[epoch |-> 0, name |-> "deneb"], [epoch |-> 2, name |-> "electra"]>>
============================================================================
