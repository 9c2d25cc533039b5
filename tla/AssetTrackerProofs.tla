-------------------------- MODULE AssetTrackerProofs --------------------------
(***************************************************************************)
(* Where a reported position comes from, for every store size and any      *)
(* number of frames and restarts: the two threads' copies are whole, and   *)
(* so is what a cycle leaves in the queue, whatever was in it before.      *)
(***************************************************************************)
EXTENDS AssetTracker, TLAPS

\* The key numbers, as facts for the provers.
LEMMA KeyFacts ==
    /\ Keys = 0..8 /\ PositionKeys = 4..8 /\ FixQuality = 2 /\ Sats = 3
    /\ LastKey = 8 /\ ResetCause = 0
    /\ \A f \in Frame : f # Free
    /\ Free.fix = FALSE /\ NoFrame \in Frame /\ NoFrame.fix = FALSE
  BY TrackerAssumption
  DEF Keys, PositionKeys, FixQuality, Sats, LastKey, ResetCause, Frame, Free, NoFrame

\* Init is typed.
LEMMA InitType == Init => TypeOK
<1> SUFFICES ASSUME Init PROVE TypeOK
  OBVIOUS
<1>1. NoKeys \in [Keys -> Frame \cup {Free}]
  BY DEF NoKeys
<1>2. queue \in [Keys -> Frame \cup {Free}] /\ report \in [Keys -> Frame \cup {Free}]
  BY <1>1, KeyFacts DEF Init
<1>3. last_pvt \in PartsOfFrames /\ sample \in PartsOfFrames
  BY KeyFacts DEF Init, PartsOfFrames, Parts
<1>4. at \in 1..(LastKey + 1) /\ frames \in 0..MaxFrames /\ resets \in 0..MaxResets
  BY KeyFacts, TrackerAssumption DEF Init
<1> QED BY <1>2, <1>3, <1>4, KeyFacts DEF Init, TypeOK

\* A boot leaves what it sets typed.
LEMMA BootType ==
    ASSUME Boot
    PROVE  /\ cb' = "off" /\ pvt' \in Frame /\ pvt_lock' = "free"
           /\ last_pvt' \in PartsOfFrames /\ have_pvt' \in BOOLEAN /\ pc' = "init"
           /\ sample' \in PartsOfFrames /\ at' = 1 /\ queue' \in [Keys -> Frame \cup {Free}]
  BY KeyFacts DEF Boot, PartsOfFrames, Parts, NoKeys

\* Every step keeps the types.
LEMMA NextType == TypeOK /\ [Next]_vars => TypeOK'
<1> SUFFICES ASSUME TypeOK, [Next]_vars PROVE TypeOK'
  OBVIOUS
<1> USE DEF TypeOK
<1>1. CASE ReadFrame
  <2>1. pvt' \in Frame /\ frames' \in 0..MaxFrames
    BY <1>1, TrackerAssumption DEF ReadFrame, Frame
  <2> QED BY <1>1, <2>1 DEF ReadFrame, poll
<1>2. CASE ReadFails
  BY <1>2, TrackerAssumption DEF ReadFails, poll
<1>3. CASE StoreBegins
  BY <1>3 DEF StoreBegins, poll, PartsOfFrames
<1>4. CASE StoreEnds
  BY <1>4 DEF StoreEnds, poll, PartsOfFrames
<1>5. CASE Start
  BY <1>5 DEF Start
<1>6. CASE FetchFails \/ Fetch \/ Sleep
  BY <1>6 DEF FetchFails, Fetch, Sleep, gnss
<1>7. CASE SampleTrack
  <2>1. sample' \in PartsOfFrames
    BY <1>7, TrackerAssumption DEF SampleTrack, PartsOfFrames, Parts, Frame
  <2>2. at' \in 1..(LastKey + 1)
    BY <1>7, KeyFacts DEF SampleTrack
  <2> QED BY <1>7, <2>1, <2>2 DEF SampleTrack, gnss
<1>8. CASE SampleNone
  <2>1. sample' \in PartsOfFrames /\ at' \in 1..(LastKey + 1)
    BY <1>8, KeyFacts DEF SampleNone, PartsOfFrames, Parts
  <2> QED BY <1>8, <2>1 DEF SampleNone, gnss
<1>9. CASE CopyBegins
  BY <1>9 DEF CopyBegins, gnss, PartsOfFrames
<1>10. CASE CopyEnds
  <2>1. at' \in 1..(LastKey + 1)
    BY <1>10, KeyFacts DEF CopyEnds
  <2> QED BY <1>10, <2>1 DEF CopyEnds, gnss, PartsOfFrames
<1>11. CASE QueueMetric
  <2>1. at' \in 1..(LastKey + 1)
    BY <1>11, KeyFacts DEF QueueMetric, CycleQueued
  <2>2. queue' \in [Keys -> Frame \cup {Free}]
    BY <1>11 DEF QueueMetric, Put, Value, PartsOfFrames
  <2> QED BY <1>11, <2>1, <2>2 DEF QueueMetric, gnss
<1>12. CASE FlushSent
  BY <1>12 DEF FlushSent, gnss, NoKeys
<1>13. CASE FlushFails
  BY <1>13 DEF FlushFails, gnss
<1>14. CASE Restart
  BY <1>14, BootType, KeyFacts, TrackerAssumption DEF Restart
<1>15. CASE UNCHANGED vars
  BY <1>15 DEF vars, gnss, poll
<1> QED
  BY <1>1, <1>2, <1>3, <1>4, <1>5, <1>6, <1>7, <1>8, <1>9, <1>10, <1>11, <1>12, <1>13,
     <1>14, <1>15 DEF Next, Callback, Poll, Sample

\* The variables hold what their declarations say.
THEOREM TypeCorrect == Spec => []TypeOK
  BY InitType, NextType, PTL DEF Spec

-------------------------------------------------------------------------------
\* The stored frame is whole unless the callback is storing one, under the mutex; so what
\* a poll copied under the mutex is whole.
WholeInv ==
    /\ pc = "init" => cb = "off"
    /\ cb = "store" <=> pvt_lock = "cb"
    /\ pc = "copy" <=> pvt_lock = "poll"
    /\ cb = "store" => last_pvt.position = pvt
    /\ cb # "store" => last_pvt.position = last_pvt.flags
    /\ pc = "copy" => sample.position = last_pvt.position
    /\ pc # "copy" => sample.position = sample.flags

\* Init and every step keep the copies whole.
LEMMA WholeHolds == Spec => []WholeInv
<1>1. Init => WholeInv
  BY DEF Init, WholeInv, Parts
<1>2. TypeOK /\ WholeInv /\ [Next]_vars => WholeInv'
  <2> SUFFICES ASSUME TypeOK, WholeInv, [Next]_vars PROVE WholeInv'
    OBVIOUS
  <2> USE DEF WholeInv, TypeOK, PartsOfFrames
  <2>1. CASE ReadFrame \/ ReadFails
    BY <2>1 DEF ReadFrame, ReadFails, poll
  <2>2. CASE StoreBegins
    BY <2>2 DEF StoreBegins, poll
  <2>3. CASE StoreEnds
    BY <2>3 DEF StoreEnds, poll
  <2>4. CASE Start
    BY <2>4 DEF Start
  <2>5. CASE FetchFails \/ Fetch \/ Sleep \/ QueueMetric \/ FlushSent \/ FlushFails
    BY <2>5 DEF FetchFails, Fetch, Sleep, QueueMetric, FlushSent, FlushFails, gnss
  <2>6. CASE SampleTrack \/ SampleNone
    <3>1. sample'.position = sample'.flags
      <4>1. \E f : sample' = Parts(f)
        BY <2>6 DEF SampleTrack, SampleNone
      <4> QED BY <4>1 DEF Parts
    <3>2. pc = "sample" /\ pc' = "queue" /\ UNCHANGED <<gnss, pvt_lock>>
      BY <2>6 DEF SampleTrack, SampleNone
    <3> QED BY <3>1, <3>2 DEF gnss
  <2>7. CASE CopyBegins
    BY <2>7 DEF CopyBegins, gnss
  <2>8. CASE CopyEnds
    BY <2>8 DEF CopyEnds, gnss
  <2>9. CASE Restart
    BY <2>9 DEF Restart, Boot, Parts
  <2>10. CASE UNCHANGED vars
    BY <2>10 DEF vars, gnss, poll
  <2> QED
    BY <2>1, <2>2, <2>3, <2>4, <2>5, <2>6, <2>7, <2>8, <2>9, <2>10
    DEF Next, Callback, Poll, Sample
<1> QED BY <1>1, <1>2, TypeCorrect, PTL DEF Spec

-------------------------------------------------------------------------------
(* The keys a cycle has gone past hold what it read, if anything: a key    *)
(* queued before was overwritten, a key refused was not there.  Positions  *)
(* are queued only with a fix.                                             *)
QueueInv ==
    /\ pc = "queue" => \A k \in PositionKeys \cup {FixQuality} :
          k < at => queue[k] \in {Free, sample.flags}
    /\ pc = "queue" /\ ~sample.flags.fix => at <= Sats + 1
    /\ \A k \in PositionKeys : queue[k] # Free => queue[k].fix

\* So is what was reported: a position in it, whatever it claims, was fixed.
PositionIsFixed == \A k \in Position(report) : report[k].fix

Inv == QueueInv /\ ReportIsOneFrame /\ PositionIsFixed

\* What is in the queue when a cycle is done makes a report with both properties.
LEMMA QueueReports ==
    ASSUME TypeOK, QueueInv, pc = "queue", CycleQueued
    PROVE  /\ ClaimsFix(queue) =>
                 \A k \in Position(queue) : queue[k] = queue[FixQuality]
           /\ \A k \in Position(queue) : queue[k].fix
<1>1. ASSUME ClaimsFix(queue), NEW k \in Position(queue)
      PROVE  queue[k] = queue[FixQuality]
  <2>1. at > FixQuality
    BY KeyFacts DEF CycleQueued, TypeOK
  <2>2. queue[FixQuality] = sample.flags
    BY <1>1, <2>1, KeyFacts DEF QueueInv, ClaimsFix
  <2>3. at > LastKey
    BY <1>1, <2>2 DEF CycleQueued, ClaimsFix
  <2>4. k < at /\ k \in PositionKeys /\ queue[k] # Free
    BY <2>3, KeyFacts DEF TypeOK, Position
  <2> QED BY <2>2, <2>4 DEF QueueInv
<1> QED BY <1>1 DEF QueueInv, Position

\* Queueing the next key keeps the queue's part of the invariant.
LEMMA QueueStep ==
    ASSUME TypeOK, WholeInv, QueueInv, QueueMetric
    PROVE  QueueInv'
<1>0. /\ at \in 1..9 /\ pc' = pc /\ sample' = sample /\ at' = at + 1
      /\ sample.position = sample.flags /\ pc = "queue"
  BY KeyFacts DEF QueueMetric, TypeOK, WholeInv
<1>1. \A k \in Keys : queue'[k] = queue[k] \/ (k = at /\ queue'[k] = sample.flags)
  BY <1>0 DEF QueueMetric, Put, Value, TypeOK
<1>2. (queue[at] = Free /\ queue'[at] = Free) \/ queue'[at] = sample.flags \/ at \notin Keys
  BY <1>0 DEF QueueMetric, Put, Value, TypeOK, Used
<1>3. at \in PositionKeys => sample.flags.fix
  BY <1>0, KeyFacts DEF QueueMetric, CycleQueued, TypeOK
<1>4. \A k \in PositionKeys \cup {FixQuality} : k < at' => queue'[k] \in {Free, sample.flags}
  BY <1>0, <1>1, <1>2, KeyFacts DEF QueueInv
<1>5. ~sample.flags.fix => at' <= Sats + 1
  BY <1>0, KeyFacts DEF QueueMetric, CycleQueued, QueueInv
<1>6. \A k \in PositionKeys : queue'[k] # Free => queue'[k].fix
  BY <1>1, <1>3, KeyFacts DEF QueueInv
<1> QED BY <1>0, <1>4, <1>5, <1>6 DEF QueueInv

\* Every step keeps the invariant.
LEMMA NextInv == TypeOK /\ WholeInv /\ Inv /\ [Next]_vars => Inv'
<1> SUFFICES ASSUME TypeOK, WholeInv, Inv, [Next]_vars PROVE Inv'
  OBVIOUS
<1>1. CASE UNCHANGED <<queue, report>> /\ pc' # "queue"
  BY <1>1 DEF Inv, QueueInv, ReportIsOneFrame, PositionIsFixed, ClaimsFix, Position
<1>2. CASE UNCHANGED <<queue, report>> /\ pc' = "queue" /\ at' = 1
  BY <1>2, KeyFacts
  DEF Inv, QueueInv, ReportIsOneFrame, PositionIsFixed, ClaimsFix, Position
<1>3. CASE UNCHANGED poll
  BY <1>3 DEF poll, Inv, QueueInv, ReportIsOneFrame, PositionIsFixed, ClaimsFix, Position
<1>4. CASE QueueMetric
  BY <1>4, QueueStep
  DEF QueueMetric, Inv, ReportIsOneFrame, PositionIsFixed, ClaimsFix, Position
<1>5. CASE FlushSent
  <2>1. \A k \in PositionKeys : queue'[k] = Free
    BY <1>5, KeyFacts DEF FlushSent, NoKeys
  <2>2. QueueInv'
    BY <1>5, <2>1 DEF FlushSent, QueueInv
  <2> QED BY <1>5, <2>2, QueueReports
          DEF FlushSent, Inv, ReportIsOneFrame, PositionIsFixed, ClaimsFix, Position
<1>6. CASE FlushFails
  <2>1. QueueInv'
    BY <1>6 DEF FlushFails, Inv, QueueInv
  <2>2. CASE report' = report
    BY <1>6, <2>1, <2>2 DEF Inv, ReportIsOneFrame, PositionIsFixed, ClaimsFix, Position
  <2>3. CASE report' = queue
    BY <1>6, <2>1, <2>3, QueueReports
    DEF FlushFails, Inv, ReportIsOneFrame, PositionIsFixed, ClaimsFix, Position
  <2> QED BY <1>6, <2>2, <2>3 DEF FlushFails
<1>7. CASE Restart
  <2>1. \A k \in PositionKeys : queue'[k] = Free
    BY <1>7, KeyFacts DEF Restart, Boot, NoKeys
  <2>2. QueueInv'
    BY <1>7, <2>1 DEF Restart, Boot, QueueInv
  <2> QED BY <1>7, <2>2
          DEF Restart, Inv, ReportIsOneFrame, PositionIsFixed, ClaimsFix, Position
<1>8. CASE Callback
  BY <1>3, <1>8 DEF Callback, ReadFrame, ReadFails, StoreBegins, StoreEnds
<1>9. CASE Start \/ FetchFails \/ Fetch \/ CopyBegins \/ Sleep
  BY <1>1, <1>9 DEF Start, FetchFails, Fetch, CopyBegins, Sleep
<1>10. CASE SampleTrack \/ SampleNone \/ CopyEnds
  BY <1>2, <1>10 DEF SampleTrack, SampleNone, CopyEnds
<1>11. CASE UNCHANGED vars
  BY <1>3, <1>11 DEF vars
<1> QED BY <1>4, <1>5, <1>6, <1>7, <1>8, <1>9, <1>10, <1>11 DEF Next, Poll, Sample

\* The invariant holds throughout.
LEMMA InvHolds == Spec => []Inv
<1>1. Init => Inv
  BY KeyFacts
  DEF Init, Inv, QueueInv, ReportIsOneFrame, PositionIsFixed, ClaimsFix, Position, NoKeys
<1> QED BY <1>1, NextInv, TypeCorrect, WholeHolds, PTL DEF Spec

\* A report that claims a fix carries the position of the one frame that had it.
THEOREM ReportsOneFrame == Spec => []ReportIsOneFrame
<1>1. Inv => ReportIsOneFrame
  BY DEF Inv
<1> QED BY <1>1, InvHolds, PTL

-------------------------------------------------------------------------------
(* The step simulation: a frame is stored when its second half is, and     *)
(* sampled when the second half of the copy is.                            *)

\* The frame on its way to the store is the last one taken; none is stored but by storing.
FreshInv ==
    /\ build = "sim" => cb = "off" /\ pc # "copy"
    /\ cb \in {"read", "store"} => pvt.n = frames /\ frames > 0
    /\ ~have_pvt => last_pvt.flags = NoFrame

\* Init and every step keep the frames in order.
LEMMA FreshHolds == Spec => []FreshInv
<1>1. Init => FreshInv
  BY DEF Init, FreshInv, Parts
<1>2. TypeOK /\ FreshInv /\ [Next]_vars => FreshInv'
  <2> SUFFICES ASSUME TypeOK, FreshInv, [Next]_vars PROVE FreshInv'
    OBVIOUS
  <2>0. frames \in Nat
    BY TrackerAssumption DEF TypeOK
  <2> USE <2>0 DEF FreshInv
  <2>1. CASE ReadFrame \/ ReadFails
    BY <2>1 DEF ReadFrame, ReadFails
  <2>2. CASE StoreBegins \/ StoreEnds
    BY <2>2 DEF StoreBegins, StoreEnds, TypeOK, PartsOfFrames
  <2>3. CASE Start
    BY <2>3 DEF Start
  <2>4. CASE FetchFails \/ Fetch \/ Sleep \/ Sample \/ QueueMetric \/ FlushSent \/ FlushFails
    BY <2>4 DEF FetchFails, Fetch, Sleep, Sample, SampleTrack, SampleNone, CopyBegins, CopyEnds,
         QueueMetric, FlushSent, FlushFails, gnss
  <2>5. CASE Restart
    BY <2>5 DEF Restart, Boot, Parts
  <2>6. CASE UNCHANGED vars
    BY <2>6 DEF vars, gnss, poll
  <2> QED BY <2>1, <2>2, <2>3, <2>4, <2>5, <2>6 DEF Next, Callback, Poll
<1> QED BY <1>1, <1>2, TypeCorrect, PTL DEF Spec

\* A report made of a queue that is done may be shown for the sample.
LEMMA ReportSimulated ==
    ASSUME TypeOK, QueueInv, pc = "queue", CycleQueued, report' = queue,
           UNCHANGED <<build, gnss, sample>>
    PROVE  Promise!Report
<1>1. /\ ClaimsFix(queue) => \A k \in Position(queue) : queue[k] = queue[FixQuality]
      /\ \A k \in Position(queue) : queue[k].fix
  BY QueueReports
<1>2. queue[FixQuality] \in {sample.flags, Free}
  BY KeyFacts DEF QueueInv, CycleQueued, TypeOK
<1>3. \A k \in PositionKeys :
        \/ queue[k] = Free
        \/ IF queue[FixQuality].fix THEN queue[k] = sample.flags ELSE queue[k].fix
  BY <1>1, <1>2, KeyFacts DEF ClaimsFix, Position
<1> QED BY <1>2, <1>3 DEF Promise!Report, Promise!MayShow, gnss

\* Every step of the two threads, seen by the promise.
LEMMA StepSimulated ==
    ASSUME TypeOK, WholeInv, FreshInv, QueueInv, [Next]_vars
    PROVE  [Promise!Next]_(Promise!vars)
<1> USE DEF Promise!vars, Promise!Next
<1>1. CASE ReadFrame \/ ReadFails
  BY <1>1 DEF ReadFrame, ReadFails, poll, Promise!Take
<1>2. CASE StoreBegins
  BY <1>2 DEF StoreBegins, poll, TypeOK, PartsOfFrames
<1>3. CASE StoreEnds
  <2>1. last_pvt'.flags = pvt /\ pvt = [n |-> frames, fix |-> pvt.fix] /\ pvt.fix \in BOOLEAN
    BY <1>3 DEF StoreEnds, FreshInv, TypeOK, PartsOfFrames, Frame
  <2>2. build = "gnss" /\ frames > 0
    BY <1>3, TrackerAssumption DEF StoreEnds, FreshInv, TypeOK
  <2> QED BY <1>3, <2>1, <2>2 DEF StoreEnds, poll, Promise!Store
<1>4. CASE Start \/ FetchFails \/ Fetch \/ Sleep \/ QueueMetric
  BY <1>4 DEF Start, FetchFails, Fetch, Sleep, QueueMetric, gnss
<1>5. CASE SampleTrack
  <2>1. PICK n \in 1..MaxFrames : sample' = Parts([n |-> n, fix |-> TRUE])
    BY <1>5 DEF SampleTrack
  <2>2. sample'.flags \in {[n |-> m, fix |-> TRUE] : m \in 1..MaxFrames}
    BY <2>1 DEF Parts
  <2> QED BY <1>5, <2>2 DEF SampleTrack, gnss, Promise!Sample
<1>6. CASE SampleNone
  BY <1>6 DEF SampleNone, Parts, FreshInv, gnss, Promise!Sample
<1>7. CASE CopyBegins
  BY <1>7 DEF CopyBegins, gnss, TypeOK, PartsOfFrames
<1>8. CASE CopyEnds
  <2>1. build = "gnss"
    BY <1>8, TrackerAssumption DEF CopyEnds, FreshInv, TypeOK
  <2> QED BY <1>8, <2>1 DEF CopyEnds, gnss, TypeOK, PartsOfFrames, Promise!Sample
<1>9. CASE FlushSent
  BY <1>9, ReportSimulated DEF FlushSent
<1>10. CASE FlushFails
  BY <1>10, ReportSimulated DEF FlushFails, gnss
<1>11. CASE Restart
  BY <1>11 DEF Restart, Boot, Parts, Promise!Restart
<1>12. CASE UNCHANGED vars
  BY <1>12 DEF vars, gnss, poll
<1> QED
  BY <1>1, <1>2, <1>3, <1>4, <1>5, <1>6, <1>7, <1>8, <1>9, <1>10, <1>11, <1>12
  DEF Next, Callback, Poll, Sample

(* The tracker implements the promise: it samples the newest frame at one  *)
(* moment and reports that, for every store size, whatever is interleaved, *)
(* refused, lost or cut off.                                               *)
THEOREM KeepsPromise == Spec => ImplementsPromise
<1>1. Init => Promise!Init
  BY TrackerAssumption, KeyFacts DEF Init, Parts, NoKeys, Promise!Init
<1>2. TypeOK /\ WholeInv /\ FreshInv /\ Inv /\ [Next]_vars => [Promise!Next]_(Promise!vars)
  BY StepSimulated DEF Inv
<1> QED
  BY <1>1, <1>2, TypeCorrect, WholeHolds, FreshHolds, InvHolds, PTL
  DEF Spec, ImplementsPromise, Promise!Spec

-------------------------------------------------------------------------------
\* Nothing sampled is newer than what is stored, nothing shown than what is sampled.
AgeInv ==
    /\ frames \in Nat
    /\ LET newest == last_pvt.flags
           sampled == sample.flags
       IN  /\ newest.n \in 0..frames /\ (newest.fix => newest.n # 0)
           /\ build = "gnss" =>
                /\ sampled.n \in 0..newest.n /\ (sampled.fix => sampled.n # 0)
                /\ report[FixQuality].n \in Int /\ report[FixQuality].n <= frames
                /\ newest.n # 0 => report[FixQuality].n <= newest.n
                /\ sampled.n # 0 => report[FixQuality].n <= sampled.n

(* A fix that is claimed is never older than what was shown before it:     *)
(* frames that are lost, reports repeated after a failed flush and         *)
(* restarts do not take a tracked asset back.                              *)
FixesMoveOn ==
    [][build = "gnss" /\ ClaimsFix(report') => report'[FixQuality].n >= report[FixQuality].n]_vars
THEOREM NeverOlder == Spec => FixesMoveOn
<1>1. Promise!Init => AgeInv
  BY KeyFacts DEF Promise!Init, AgeInv, NoFrame, Free
<1>2. AgeInv /\ [Promise!Next]_(Promise!vars) => AgeInv'
  <2> SUFFICES ASSUME AgeInv, [Promise!Next]_(Promise!vars) PROVE AgeInv'
    OBVIOUS
  <2> USE DEF AgeInv
  <2>1. CASE Promise!Take
    BY <2>1 DEF Promise!Take
  <2>2. CASE Promise!Store
    BY <2>2 DEF Promise!Store
  <2>3. CASE Promise!Sample
    BY <2>3 DEF Promise!Sample
  <2>4. CASE Promise!Report
    BY <2>4 DEF Promise!Report, Promise!MayShow, Free
  <2>5. CASE Promise!Restart
    BY <2>5 DEF Promise!Restart, NoFrame
  <2>6. CASE UNCHANGED Promise!vars
    BY <2>6 DEF Promise!vars
  <2> QED BY <2>1, <2>2, <2>3, <2>4, <2>5, <2>6 DEF Promise!Next
<1>3. AgeInv /\ [Promise!Next]_(Promise!vars)
        => [build = "gnss" /\ ClaimsFix(report') =>
              report'[FixQuality].n >= report[FixQuality].n]_vars
  <2> SUFFICES ASSUME AgeInv, [Promise!Next]_(Promise!vars), build = "gnss", ClaimsFix(report')
               PROVE  report'[FixQuality].n >= report[FixQuality].n
    OBVIOUS
  <2>1. CASE report'[FixQuality] = report[FixQuality]
    BY <2>1 DEF AgeInv
  <2>2. CASE Promise!Report
    <3>1. report'[FixQuality] = sample.flags
      BY <2>2 DEF Promise!Report, Promise!MayShow, ClaimsFix, Free
    <3> QED BY <3>1 DEF AgeInv, ClaimsFix
  <2> QED BY <2>1, <2>2 DEF Promise!Next, Promise!vars, Promise!Take, Promise!Store,
             Promise!Sample, Promise!Restart
<1> QED
  BY <1>1, <1>2, <1>3, KeepsPromise, PTL DEF ImplementsPromise, Promise!Spec, FixesMoveOn
===============================================================================
