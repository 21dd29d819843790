--------------------------- MODULE MCVectorSuite ---------------------------
(***************************************************************************)
(* The ten vectors with the slots, fork schedule and committee sizes of    *)
(* the code.                                                               *)
(***************************************************************************)
EXTENDS VectorSuite

MCForkSchedule ==
  <<[epoch |-> 0, name |-> "phase0"], [epoch |-> 74240, name |-> "altair"],
    [epoch |-> 144896, name |-> "bellatrix"], [epoch |-> 194048, name |-> "capella"],
    [epoch |-> 269568, name |-> "deneb"], [epoch |-> 364032, name |-> "electra"],
    [epoch |-> 411392, name |-> "fulu"]>>
=============================================================================
