----------------------------- MODULE MCQRSimTCP -----------------------------
(***************************************************************************)
(* Instances of QRSimTCP for TLC: two tasks, of one and of two UAVs; the   *)
(* second has the dt of more than one tick that the search and rescue      *)
(* tasks have.                                                             *)
(***************************************************************************)
EXTENDS QRSimTCP, TLC

MCUavs == ("one" :> 1 @@ "two" :> 2)
MCDt   == ("one" :> 1 @@ "two" :> 2)
=============================================================================
