----------------------------- MODULE MCShadowSync -----------------------------
(***************************************************************************)
(* Instances of ShadowSync for TLC: one image of every kind an operator    *)
(* can upload, and the targets that name them.                             *)
(***************************************************************************)
EXTENDS ShadowSync

CONSTANTS
    a,     \* the image on the device from the bench
    good,  \* a good update
    raw,   \* zephyr.bin: never signed
    dead,  \* signed, but built before a token rotation: every request answers 401
    stale, \* signed and working, its version string not bumped
    slow, fast

MCImages == {a, good, raw, dead, stale}
MCSigned == {a, good, dead, stale}
MCHealthy == {a, good, stale}
MCBaked == [i \in MCImages |-> IF i = stale THEN a ELSE i]
MCIntervals == {slow, fast}

Target(log, interval, reboot, image) ==
    [log |-> log, interval |-> interval, reboot |-> reboot, firmware |-> image]

Update(image, reboot) == Target(Absent, Absent, reboot, image)

\* Settings, a command, and every kind of image with and without one.
UpdateConfigs ==
    { Target(TRUE, fast, FALSE, Absent), Update(Absent, TRUE),
      Update(good, TRUE), Update(a, FALSE), Update(raw, TRUE),
      Update(dead, FALSE), Update(stale, TRUE), Malformed }

\* Settings and commands only.
PlainConfigs ==
    { Target(l, i, r, Absent) :
        l \in {Absent, TRUE, FALSE}, i \in {Absent, slow, fast}, r \in BOOLEAN }
    \cup {Malformed}
===============================================================================
