----------------------------- MODULE NiddSchedule -----------------------------
(***************************************************************************)
(* When the device of NiddShadow uses the radio: the schedule that         *)
(* shadow_loop() of samples/nidd_init keeps with next_ms and taken, while  *)
(* passes that block push the loop past its own deadlines.                 *)
(*                                                                         *)
(* One tick is 250 ms, so the quarter of an interval of s seconds is s     *)
(* ticks, exactly as the loop computes it in milliseconds.  Time is kept   *)
(* relative to the present, which needs no bound on how long it runs.      *)
(***************************************************************************)
EXTENDS Integers

CONSTANTS
    WakeMin,         \* WAKE_MIN_SEC
    ReadingsPerWake, \* READINGS_PER_WAKE
    Intervals,       \* the intervals apply() leaves, none under WAKE_MIN_SEC
    MaxBlock         \* ticks that one flush and one pass can block the loop for

(* CONFIG_PIGEON_NIDD_REPLY_WAIT_SEC is what a pass can wait; the library  *)
(* sets it, and the model takes it to be no longer than a quarter of the   *)
(* shortest interval, 225 s.                                               *)
ASSUME ScheduleAssumption ==
    /\ WakeMin \in Nat \ {0}
    /\ ReadingsPerWake = 4
    /\ Intervals \subseteq Nat /\ \A i \in Intervals : i >= WakeMin
    /\ MaxBlock \in 0..WakeMin

VARIABLES
    interval,   \* applied.telemetry_interval
    taken,      \* readings since the last wake
    slack,      \* next_ms - now; negative when the deadline has passed
    pc,         \* "loop", or "busy" in a flush or a pass
    busy,       \* ticks spent in this flush and pass
    ahead,      \* history: next_ms - the time the last wake was due
    age,        \* history: now - the time the last wake was made, HELLO before the first
    lateness    \* history: how late the last wake was made

vars == <<interval, taken, slack, pc, busy, ahead, age, lateness>>

\* After HELLO and its pass, the first wake is a full interval away.
Init ==
    /\ interval \in Intervals
    /\ taken = 0
    /\ slack = interval
    /\ pc = "loop"
    /\ busy = 0
    /\ ahead = interval
    /\ age = 0
    /\ lateness = 0

Due == pc = "loop" /\ slack <= 0

\* Fault: off by one.
WakeAfterOneFewer == taken + 2 = ReadingsPerWake

WakeReached == taken + 1 = ReadingsPerWake

\* take_reading(), and the next one is due a quarter of the interval later.
TakeReading ==
    /\ Due
    /\ ~WakeReached
    /\ slack' = slack + interval
    /\ ahead' = ahead + interval
    /\ taken' = taken + 1
    /\ UNCHANGED <<interval, pc, busy, age, lateness>>

\* The reading that makes the batch: flush, then a pass.
Wake ==
    /\ Due
    /\ WakeReached
    /\ lateness' = -slack
    /\ slack' = slack + interval
    /\ ahead' = interval
    /\ age' = 0
    /\ taken' = 0
    /\ pc' = "busy"
    /\ busy' = 0
    /\ UNCHANGED interval

\* Fault: the semaphore is taken before the deadline is looked at.
PushedFirst ==
    /\ pc = "loop"
    /\ pc' = "busy"
    /\ busy' = 0
    /\ UNCHANGED <<interval, taken, slack, ahead, age, lateness>>

\* k_sem_take() returned 0 before the deadline: a pass on a pushed shadow.
Pushed ==
    /\ pc = "loop"
    /\ slack > 0
    /\ pc' = "busy"
    /\ busy' = 0
    /\ UNCHANGED <<interval, taken, slack, ahead, age, lateness>>

\* A pass may have applied another interval; it takes effect from the next quarter on.
PassEnds ==
    /\ pc = "busy"
    /\ pc' = "loop"
    /\ interval' \in Intervals
    /\ UNCHANGED <<taken, slack, busy, ahead, age, lateness>>

\* Time passes while the loop waits or is blocked; a loop that is due runs at once.
Tick ==
    /\ \/ pc = "loop" /\ slack > 0 /\ UNCHANGED busy
       \/ pc = "busy" /\ busy < MaxBlock /\ busy' = busy + 1
    /\ slack' = slack - 1
    /\ age' = age + 1
    /\ UNCHANGED <<interval, taken, pc, ahead, lateness>>

Next == TakeReading \/ Wake \/ Pushed \/ PassEnds \/ Tick

Spec == Init /\ [][Next]_vars

-------------------------------------------------------------------------------
\* Properties.

\* The variables hold what the declarations above say, and no deadline is missed by more
\* than one block.
TypeOK ==
    /\ interval \in Intervals
    /\ taken \in 0..(ReadingsPerWake - 1)
    /\ slack \in Int /\ slack >= -MaxBlock
    /\ pc \in {"loop", "busy"}
    /\ busy \in 0..MaxBlock
    /\ ahead \in Nat /\ age \in Nat
    /\ lateness \in 0..MaxBlock

Wakes == pc = "loop" /\ pc' = "busy" /\ taken' # taken

(* The wakes are due at least 900 s apart, however often a push changes    *)
(* the interval between two readings.                                      *)
DueSpacing == [][Wakes => ahead >= ReadingsPerWake * WakeMin]_vars

(* The wakes are made at least 900 s less one block apart, though blocks   *)
(* delay readings, wakes and pushes without end.                           *)
MadeSpacing == [][Wakes => age >= ReadingsPerWake * WakeMin - MaxBlock]_vars

(* Pushes, however many, and blocks never put a wake off: the device is    *)
(* heard from within four quarters of its longest interval and one block.  *)
WakesOnTime == \E i \in Intervals : age <= ReadingsPerWake * i + MaxBlock
===============================================================================
