----------------------------- MODULE MCShadowPush -----------------------------
(***************************************************************************)
(* Instances of ShadowPush for TLC.                                        *)
(***************************************************************************)
EXTENDS ShadowPush

CONSTANTS slow, fast

MCChannels == {"ws", "mqtt"}
MqttOnly == {"mqtt"}
MCIntervals == {slow, fast}

\* A setting, a command, the other setting with a command, and one that does not parse.
MCConfigs ==
    { [interval |-> fast, reboot |-> FALSE], [interval |-> Absent, reboot |-> TRUE],
      [interval |-> slow, reboot |-> TRUE], Malformed }
===============================================================================
