------------------------------ MODULE MCPlume ------------------------------
(***************************************************************************)
(* An instance of Plume for TLC: two helicopters, and puffs that stay in   *)
(* the area as long as the area takes to be updated.                       *)
(***************************************************************************)
EXTENDS Plume

MCLife == [s \in Sources |-> AreaDt]
=============================================================================
