-------------------------- MODULE NiddScheduleProofs --------------------------
(***************************************************************************)
(* The wake spacing of NiddSchedule, for every floor, every set of         *)
(* intervals and every block no longer than a quarter of the floor.        *)
(***************************************************************************)
EXTENDS NiddSchedule, TLAPS

(* What the present owes to the last wake: each of the taken + 1 quarters  *)
(* counted since then was a floor's quarter or longer, and the time since  *)
(* the wake was made is what those quarters leave.                         *)
SpacingInv ==
    /\ ahead >= (taken + 1) * WakeMin
    /\ age = ahead - slack - lateness
    /\ pc = "busy" => slack >= -busy

(* No quarter counted was longer than the longest interval so far.         *)
AheadInv == \E i \in Intervals : ahead <= (taken + 1) * i

Inv == TypeOK /\ SpacingInv

\* Init satisfies the invariant.
LEMMA InitInv == Init => Inv
  BY ScheduleAssumption DEF Init, Inv, TypeOK, SpacingInv

\* Every step keeps it.
LEMMA NextInv == Inv /\ [Next]_vars => Inv'
<1> SUFFICES ASSUME Inv, [Next]_vars PROVE Inv'
  OBVIOUS
<1>0. /\ WakeMin \in Nat /\ MaxBlock \in Nat /\ MaxBlock <= WakeMin
      /\ interval \in Nat /\ interval >= WakeMin
      /\ taken \in {0, 1, 2, 3} /\ ReadingsPerWake = 4
  BY ScheduleAssumption DEF Inv, TypeOK
<1> USE <1>0 DEF Inv, TypeOK, SpacingInv
<1>1. CASE TakeReading
  <2>1. taken' = taken + 1 /\ taken' \in 0..(ReadingsPerWake - 1)
    BY <1>1 DEF TakeReading, WakeReached
  <2>2. ahead' >= (taken' + 1) * WakeMin
    <3>1. ahead' = ahead + interval
      BY <1>1 DEF TakeReading
    <3>2. (taken' + 1) * WakeMin = (taken + 1) * WakeMin + WakeMin
      BY <2>1
    <3> QED BY <3>1, <3>2
  <2> QED BY <1>1, <2>1, <2>2 DEF TakeReading, Due
<1>2. CASE Wake
  BY <1>2 DEF Wake, Due
<1>3. CASE Pushed
  BY <1>3 DEF Pushed
<1>4. CASE PassEnds
  BY <1>4 DEF PassEnds
<1>5. CASE Tick
  <2>1. taken' = taken /\ ahead' = ahead
    BY <1>5 DEF Tick
  <2>2. CASE pc = "loop" /\ slack > 0 /\ UNCHANGED busy
    BY <1>5, <2>1, <2>2 DEF Tick
  <2>3. CASE pc = "busy" /\ busy < MaxBlock /\ busy' = busy + 1
    BY <1>5, <2>1, <2>3 DEF Tick
  <2> QED BY <1>5, <2>2, <2>3 DEF Tick
<1>6. CASE UNCHANGED vars
  BY <1>6 DEF vars
<1> QED BY <1>1, <1>2, <1>3, <1>4, <1>5, <1>6 DEF Next

\* The invariant holds throughout.
LEMMA InvHolds == Spec => []Inv
  BY InitInv, NextInv, PTL DEF Spec

\* Init and every step keep the bound on what the loop is ahead by.
LEMMA AheadHolds == Spec => []AheadInv
<1>1. Init => AheadInv
  BY ScheduleAssumption DEF Init, AheadInv
<1>2. ASSUME Inv, AheadInv, [Next]_vars
      PROVE  AheadInv'
  <2>0. /\ Intervals \subseteq Nat /\ interval \in Intervals
        /\ taken \in {0, 1, 2, 3} /\ ReadingsPerWake = 4 /\ ahead \in Nat
    BY <1>2, ScheduleAssumption DEF Inv, TypeOK
  <2>i. PICK i \in Intervals : ahead <= (taken + 1) * i
    BY <1>2 DEF AheadInv
  <2>1. CASE TakeReading
    <3>1. taken' = taken + 1 /\ ahead' = ahead + interval
      BY <2>1 DEF TakeReading
    <3>2. CASE interval <= i
      <4>1. ahead' <= (taken' + 1) * i
        BY <2>0, <2>i, <3>1, <3>2
      <4> QED BY <4>1 DEF AheadInv
    <3>3. CASE ~(interval <= i)
      <4>1. ahead' <= (taken' + 1) * interval
        BY <2>0, <2>i, <3>1, <3>3
      <4> QED BY <2>0, <4>1 DEF AheadInv
    <3> QED BY <3>2, <3>3
  <2>2. CASE Wake
    <3>1. taken' = 0 /\ ahead' = interval
      BY <2>2 DEF Wake
    <3>2. ahead' <= (taken' + 1) * interval
      BY <2>0, <3>1
    <3> QED BY <2>0, <3>2 DEF AheadInv
  <2>3. CASE UNCHANGED <<taken, ahead>>
    BY <2>i, <2>3 DEF AheadInv
  <2> QED BY <1>2, <2>1, <2>2, <2>3 DEF Next, Pushed, PassEnds, Tick, vars
<1> QED BY <1>1, <1>2, InvHolds, PTL DEF Spec

(* No deadline is ever missed by more than one block, and the other        *)
(* variables hold what their declarations say.                             *)
THEOREM TypeCorrect == Spec => []TypeOK
<1>1. Inv => TypeOK
  BY DEF Inv
<1> QED BY <1>1, InvHolds, PTL

\* A step that wakes is taken with the last quarter counted and the deadline reached.
LEMMA WakeStep ==
    ASSUME Inv, [Next]_vars, Wakes
    PROVE  slack <= 0 /\ taken = 3
<1>1. Wake
  BY ScheduleAssumption
  DEF Wakes, Next, TakeReading, Pushed, PassEnds, Tick, vars, Inv, TypeOK
<1> QED BY <1>1, ScheduleAssumption DEF Wake, Due, WakeReached, Inv, TypeOK

\* Wakes are due at least four quarters of the floor apart.
THEOREM WakesDueSpaced == Spec => DueSpacing
<1>1. Inv /\ [Next]_vars => [Wakes => ahead >= ReadingsPerWake * WakeMin]_vars
  BY WakeStep, ScheduleAssumption DEF Inv, TypeOK, SpacingInv
<1> QED BY <1>1, InvHolds, PTL DEF Spec, DueSpacing

\* Wakes are made at least that, less one block, apart.
THEOREM WakesMadeSpaced == Spec => MadeSpacing
<1>1. Inv /\ [Next]_vars => [Wakes => age >= ReadingsPerWake * WakeMin - MaxBlock]_vars
  BY WakeStep, ScheduleAssumption DEF Inv, TypeOK, SpacingInv
<1> QED BY <1>1, InvHolds, PTL DEF Spec, MadeSpacing

\* The device is heard from within its longest interval and one block.
THEOREM WakesAreOnTime == Spec => []WakesOnTime
<1>1. ASSUME Inv, AheadInv
      PROVE  WakesOnTime
  <2>0. /\ Intervals \subseteq Nat /\ taken \in {0, 1, 2, 3} /\ ReadingsPerWake = 4
        /\ ahead \in Nat /\ slack \in Int /\ slack >= -MaxBlock /\ lateness \in Nat
        /\ MaxBlock \in Nat /\ age = ahead - slack - lateness
    BY <1>1, ScheduleAssumption DEF Inv, TypeOK, SpacingInv
  <2>i. PICK i \in Intervals : ahead <= (taken + 1) * i
    BY <1>1 DEF AheadInv
  <2>1. ahead <= 4 * i
    BY <2>0, <2>i
  <2>2. age <= ReadingsPerWake * i + MaxBlock
    BY <2>0, <2>1
  <2> QED BY <2>2 DEF WakesOnTime
<1> QED BY <1>1, InvHolds, AheadHolds, PTL
===============================================================================
