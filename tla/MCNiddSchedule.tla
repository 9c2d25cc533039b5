---------------------------- MODULE MCNiddSchedule ----------------------------
(***************************************************************************)
(* An instance of NiddSchedule for TLC: the floor, an interval over it and *)
(* a pass that can block for a whole quarter of the floor.                 *)
(***************************************************************************)
EXTENDS NiddSchedule

MCIntervals == {3, 5, 6}
===============================================================================
