----------------------------- MODULE MCNiddShadow -----------------------------
(***************************************************************************)
(* Instances of NiddShadow for TLC.                                        *)
(***************************************************************************)
EXTENDS NiddShadow

\* One interval under the floor, one over it; a target with both keys, one with each.
MCIntervals == {1, 7}
MCConfigs ==
    { [interval |-> 7, reboot |-> FALSE], [interval |-> 1, reboot |-> TRUE],
      [interval |-> Absent, reboot |-> TRUE], Malformed }
===============================================================================
