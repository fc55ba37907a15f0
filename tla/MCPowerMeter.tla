---------------------------- MODULE MCPowerMeter ----------------------------
(***************************************************************************)
(* PowerMeter for TLC.  The calibration of slopes and that of the energy     *)
(* share no variable but the place where the meter task is, so the masters   *)
(* of one behaviour ask for one of the two.                                  *)
(***************************************************************************)
EXTENDS PowerMeter

VARIABLE masters    \* what they calibrate

MCInit == Init /\ masters \in {"slopes", "energy"}

MCNext ==
    /\ \/ Progress \/ CycleEnds \/ StoreByte \/ PowerFail
       \/ masters = "slopes" /\ RequestSlope
       \/ masters = "energy" /\ RequestEnergy
    /\ UNCHANGED masters

MCSpec == MCInit /\ [][MCNext]_<<vars, masters>> /\ WF_vars(Progress)
=============================================================================
