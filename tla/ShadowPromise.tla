---------------------------- MODULE ShadowPromise ----------------------------
(***************************************************************************)
(* What a shadow promises whoever reads it: when its versions are equal,   *)
(* the settings shown are the ones asked for, and a reboot that was asked  *)
(* for has happened or can no longer be stopped.                           *)
(*                                                                         *)
(* This is all the platform knows of a device.  Firmware slots, polls,     *)
(* pushes, carriers and passes are the detailed modules' business, and     *)
(* each of them is shown to implement this one.                            *)
(***************************************************************************)
EXTENDS Integers

CONSTANTS
    Targets,   \* what the dashboard may write
    Settings,  \* what a device may report
    Commands,  \* the targets that ask for a reboot
    Agreement  \* <<target, settings>> such that the settings carry out the target

VARIABLES
    target,    \* the last target written, with its version
    current,   \* the last report, as stored or, where reports may be reordered, as made
    obeyed     \* the device has restarted since that target, or is about to

vars == <<target, current, obeyed>>

Converged == current.version = target.version

\* The promise itself.
Kept ==
    Converged =>
        /\ <<target.config, current.settings>> \in Agreement
        /\ target.config \in Commands => obeyed

\* A pigeon as provisioned.
Init ==
    /\ \E c \in Targets : target = [version |-> 0, config |-> c]
    /\ \E s \in Settings : current = [version |-> 0, settings |-> s]
    /\ obeyed \in BOOLEAN
    /\ Kept

\* The dashboard writes.  A restart already under way may count for the new target.
Write ==
    /\ \E c \in Targets : target' = [version |-> target.version + 1, config |-> c]
    /\ obeyed' \in {FALSE, obeyed}
    /\ UNCHANGED current

(* A report is stored or made.  It never goes back, never names a          *)
(* version nobody wrote, and names the last one only if that is kept.      *)
Report ==
    /\ \E v \in current.version..target.version, s \in Settings :
         /\ current' = [version |-> v, settings |-> s]
         /\ v = target.version =>
              /\ <<target.config, s>> \in Agreement
              /\ target.config \in Commands => obeyed'
    /\ obeyed' \in {obeyed, TRUE}
    /\ UNCHANGED target

Restart ==
    /\ obeyed' = TRUE
    /\ UNCHANGED <<target, current>>

Next == Write \/ Report \/ Restart

Spec == Init /\ [][Next]_vars
===============================================================================
