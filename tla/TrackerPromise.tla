---------------------------- MODULE TrackerPromise ----------------------------
(***************************************************************************)
(* What a tracker promises whoever reads its reports: a fix it claims is   *)
(* the newest frame at one moment of the poll, all of it, and a position   *)
(* is never anything but a fixed one.                                      *)
(*                                                                         *)
(* A frame is stored and sampled in one step here, and a report is what    *)
(* was sampled, however much of it fits.  The mutex, the halves of a copy, *)
(* the telemetry store and failed flushes are AssetTracker's business.     *)
(***************************************************************************)
EXTENDS Integers

CONSTANTS
    PositionKeys,
    NoFrame,   \* what is sampled before there is a frame
    Free,      \* a key that is not in a report
    Track      \* the points of a simulated track

VARIABLES
    source,    \* "gnss" or "sim"
    taken,     \* frames the receiver has taken
    newest,    \* the last frame stored since the start
    sampled,   \* what the last poll read
    shown      \* the last report: what it says of the fix, and its position keys

vars == <<source, taken, newest, sampled, shown>>

Init ==
    /\ source \in {"gnss", "sim"}
    /\ taken = 0
    /\ newest = NoFrame /\ sampled = NoFrame
    /\ shown = [quality |-> Free, position |-> [k \in PositionKeys |-> Free]]

\* The receiver takes a frame, which may get lost.
Take ==
    /\ taken' = taken + 1
    /\ UNCHANGED <<source, newest, sampled, shown>>

\* The frame taken last becomes the newest.
Store ==
    /\ source = "gnss" /\ taken > 0
    /\ \E fix \in BOOLEAN : newest' = [n |-> taken, fix |-> fix]
    /\ UNCHANGED <<source, taken, sampled, shown>>

Sample ==
    /\ IF source = "gnss" THEN sampled' = newest ELSE sampled' \in Track
    /\ UNCHANGED <<source, taken, newest, shown>>

(* With a fix, position keys are the sample's or missing; without one,     *)
(* those of an earlier fix may still be there.                             *)
MayShow(r) ==
    /\ r.quality \in {sampled, Free}
    /\ \A k \in PositionKeys :
         \/ r.position[k] = Free
         \/ IF r.quality.fix THEN r.position[k] = sampled ELSE r.position[k].fix

Report ==
    /\ MayShow(shown')
    /\ UNCHANGED <<source, taken, newest, sampled>>

Restart ==
    /\ newest' = NoFrame /\ sampled' = NoFrame
    /\ UNCHANGED <<source, taken, shown>>

Next == Take \/ Store \/ Sample \/ Report \/ Restart

Spec == Init /\ [][Next]_vars
===============================================================================
