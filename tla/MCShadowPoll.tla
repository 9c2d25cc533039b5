----------------------------- MODULE MCShadowPoll -----------------------------
(***************************************************************************)
(* Instances of ShadowPoll for TLC.                                        *)
(***************************************************************************)
EXTENDS ShadowPoll

CONSTANTS slow, fast

MCIntervals == {slow, fast}

Target(l, i, command) == [log |-> l, interval |-> i, reboot |-> command]

\* Log on and off, alone and with a command; a setting; a command; one that does not parse.
MCConfigs ==
    { Target(TRUE, Absent, FALSE), Target(FALSE, Absent, TRUE), Target(TRUE, slow, TRUE),
      Target(Absent, fast, FALSE), Target(Absent, Absent, TRUE), Malformed }
===============================================================================
