----------------------------- MODULE AssetTracker -----------------------------
(***************************************************************************)
(* samples/asset_tracker: where a reported position comes from.  The       *)
(* modem's callback stores one GNSS frame after another; a poll copies the *)
(* newest under the same mutex, queues telemetry key by key and sends the  *)
(* queue as one report, which keeps its keys when the report fails.        *)
(*                                                                         *)
(* A frame is copied in two parts, what pvt.flags says of it and the       *)
(* position itself, so that a copy can be torn.  Keys are numbered in the  *)
(* order a poll queues them.  What a poll does with the shadow is          *)
(* ShadowSync's; the queue is the library's, as prj.conf and shadow.c      *)
(* describe it: one slot a key, a key refused when the slots are full.     *)
(***************************************************************************)
EXTENDS Integers, FiniteSets

CONSTANTS
    Builds,      \* which builds to look at: "gnss", "sim"
    SlotChoices, \* values of CONFIG_PIGEON_TELEMETRY_MAX_KEYS
    MaxFrames,   \* bound: frames the receiver takes; the simulated track has as many points
    MaxResets    \* bound: power cuts

ASSUME TrackerAssumption ==
    /\ Builds \subseteq {"gnss", "sim"}
    /\ SlotChoices \subseteq Nat
    /\ MaxFrames \in Nat /\ MaxResets \in Nat

Frame == [n : 0..MaxFrames, fix : BOOLEAN]

NoFrame == [n |-> 0, fix |-> FALSE]   \* struct tracker_position after the memset

\* The keys of a cycle, and the one the library queues at boot.
ResetCause == 0
FixQuality == 2
Sats == 3
PositionKeys == 4..8
LastKey == 8
Keys == ResetCause..LastKey

Free == [n |-> -1, fix |-> FALSE]     \* a slot that holds no key

NoKeys == [k \in Keys |-> Free]

VARIABLES
    build,      \* gnss.c or gnss_sim.c
    slots,      \* the telemetry store's size
    frames,     \* frames the receiver has taken so far
    cb,         \* gnss_event_handler(): "off", "idle", "read", "store"
    pvt,        \* its local copy of a frame
    pvt_lock,   \* who holds the mutex: "free", "cb", "poll"
    last_pvt,   \* the stored frame, in its two parts
    have_pvt,
    pc,         \* the polling thread
    sample,     \* what the poll read, in the same two parts
    at,         \* the key queued next
    queue,      \* the library's store: what each key holds
    report,     \* the last report the platform received
    resets      \* history: power cuts so far

gnss == <<frames, cb, pvt, last_pvt, have_pvt>>
poll == <<pc, sample, at, queue, report>>
vars == <<build, slots, gnss, pvt_lock, poll, resets>>

Parts(f) == [flags |-> f, position |-> f]

\* pigeon_init() queues the reset cause.
Boot ==
    /\ cb' = "off"
    /\ pvt' = NoFrame
    /\ pvt_lock' = "free"
    /\ last_pvt' = Parts(NoFrame)
    /\ have_pvt' = FALSE
    /\ pc' = "init"
    /\ sample' = Parts(NoFrame)
    /\ at' = 1
    /\ queue' = [NoKeys EXCEPT ![ResetCause] = NoFrame]

Init ==
    /\ build \in Builds /\ slots \in SlotChoices
    /\ frames = 0
    /\ cb = "off"
    /\ pvt = NoFrame
    /\ pvt_lock = "free"
    /\ last_pvt = Parts(NoFrame)
    /\ have_pvt = FALSE
    /\ pc = "init"
    /\ sample = Parts(NoFrame)
    /\ at = 1
    /\ queue = [NoKeys EXCEPT ![ResetCause] = NoFrame]
    /\ report = NoKeys
    /\ resets = 0

-------------------------------------------------------------------------------
\* gnss_event_handler(), on the modem library's thread.

\* A position frame is announced and read.
ReadFrame ==
    /\ cb = "idle"
    /\ frames < MaxFrames
    /\ frames' = frames + 1
    /\ \E fix \in BOOLEAN : pvt' = [n |-> frames + 1, fix |-> fix]
    /\ cb' = "read"
    /\ UNCHANGED <<build, slots, last_pvt, have_pvt, pvt_lock, poll, resets>>

\* nrf_modem_gnss_read() failed: the frame is gone.
ReadFails ==
    /\ cb = "idle"
    /\ frames < MaxFrames
    /\ frames' = frames + 1
    /\ UNCHANGED <<build, slots, cb, pvt, last_pvt, have_pvt, pvt_lock, poll, resets>>

\* Fault: the frame is stored without the mutex.
StoreUnlocked ==
    /\ cb = "read"
    /\ cb' = "store"
    /\ last_pvt' = [last_pvt EXCEPT !.position = pvt]
    /\ UNCHANGED <<build, slots, frames, pvt, pvt_lock, have_pvt, poll, resets>>

StoreBegins ==
    /\ cb = "read"
    /\ pvt_lock = "free" /\ pvt_lock' = "cb"
    /\ cb' = "store"
    /\ last_pvt' = [last_pvt EXCEPT !.position = pvt]
    /\ UNCHANGED <<build, slots, frames, pvt, have_pvt, poll, resets>>

\* Fault: nobody is told that there is a frame.
StoreEndsUntold ==
    /\ cb = "store"
    /\ last_pvt' = [last_pvt EXCEPT !.flags = pvt]
    /\ pvt_lock' = "free"
    /\ cb' = "idle"
    /\ UNCHANGED <<build, slots, frames, pvt, have_pvt, poll, resets>>

StoreEnds ==
    /\ cb = "store"
    /\ last_pvt' = [last_pvt EXCEPT !.flags = pvt]
    /\ have_pvt' = TRUE
    /\ pvt_lock' = "free"
    /\ cb' = "idle"
    /\ UNCHANGED <<build, slots, frames, pvt, poll, resets>>

-------------------------------------------------------------------------------
\* The polling thread.

\* tracker_gnss_init(); a failure is not fatal, but no frame will come.
Start ==
    /\ pc = "init"
    /\ pc' = "poll"
    /\ cb' \in IF build = "gnss" THEN {"off", "idle"} ELSE {"off"}
    /\ UNCHANGED <<build, slots, frames, pvt, last_pvt, have_pvt, pvt_lock, sample, at, queue,
                   report, resets>>

\* A poll that gets no shadow document reports nothing.
FetchFails ==
    /\ pc = "poll"
    /\ pc' = "sleep"
    /\ UNCHANGED <<build, slots, gnss, pvt_lock, sample, at, queue, report, resets>>

\* uptime_s is queued first, whatever is sampled after it.
Fetch ==
    /\ pc = "poll"
    /\ pc' = "sample"
    /\ UNCHANGED <<build, slots, gnss, pvt_lock, sample, at, queue, report, resets>>

\* gnss_sim.c: a point of the track, from the uptime alone.
SampleTrack ==
    /\ pc = "sample" /\ build = "sim"
    /\ \E n \in 1..MaxFrames : sample' = Parts([n |-> n, fix |-> TRUE])
    /\ at' = 1
    /\ pc' = "queue"
    /\ UNCHANGED <<build, slots, gnss, pvt_lock, queue, report, resets>>

SampleNone ==
    /\ pc = "sample" /\ build = "gnss" /\ pvt_lock = "free"
    /\ ~have_pvt
    /\ sample' = Parts(NoFrame)
    /\ at' = 1
    /\ pc' = "queue"
    /\ UNCHANGED <<build, slots, gnss, pvt_lock, queue, report, resets>>

CopyBegins ==
    /\ pc = "sample" /\ build = "gnss" /\ pvt_lock = "free"
    /\ have_pvt
    /\ pvt_lock' = "poll"
    /\ sample' = [sample EXCEPT !.position = last_pvt.position]
    /\ pc' = "copy"
    /\ UNCHANGED <<build, slots, gnss, at, queue, report, resets>>

CopyEnds ==
    /\ pc = "copy"
    /\ sample' = [sample EXCEPT !.flags = last_pvt.flags]
    /\ pvt_lock' = "free"
    /\ at' = 1
    /\ pc' = "queue"
    /\ UNCHANGED <<build, slots, gnss, queue, report, resets>>

Used == {k \in Keys : queue[k] # Free}

\* queue_metric(): a key already queued is overwritten, one with no slot left is refused.
Put(k, value) ==
    queue' = IF k \in Used \/ Cardinality(Used) < slots
             THEN [queue EXCEPT ![k] = value] ELSE queue

Value(k) == IF k \in PositionKeys THEN sample.position ELSE sample.flags

\* Fault: the position is queued with or without a fix.
CycleQueuedAll == at > LastKey

\* Without a fix the cycle ends before the position.
CycleQueued == at > (IF sample.flags.fix THEN LastKey ELSE Sats)

QueueMetric ==
    /\ pc = "queue" /\ ~CycleQueued
    /\ Put(at, Value(at))
    /\ at' = at + 1
    /\ UNCHANGED <<build, slots, gnss, pvt_lock, pc, sample, report, resets>>

\* pigeon_telemetry_flush() reached the platform and returned 0.
FlushSent ==
    /\ pc = "queue" /\ CycleQueued
    /\ report' = queue
    /\ queue' = NoKeys
    /\ pc' = "sleep"
    /\ UNCHANGED <<build, slots, gnss, pvt_lock, sample, at, resets>>

\* It returned an error, whether the platform has the report or not: the keys stay queued.
FlushFails ==
    /\ pc = "queue" /\ CycleQueued
    /\ report' \in {report, queue}
    /\ pc' = "sleep"
    /\ UNCHANGED <<build, slots, gnss, pvt_lock, sample, at, queue, resets>>

Sleep ==
    /\ pc = "sleep"
    /\ pc' = "poll"
    /\ UNCHANGED <<build, slots, gnss, pvt_lock, sample, at, queue, report, resets>>

\* The rest of a pass may reboot, the watchdog and a power cut may at any moment.
Restart ==
    /\ resets < MaxResets
    /\ resets' = resets + 1
    /\ Boot
    /\ UNCHANGED <<build, slots, frames, report>>

Callback == ReadFrame \/ ReadFails \/ StoreBegins \/ StoreEnds

Sample == SampleTrack \/ SampleNone \/ CopyBegins \/ CopyEnds

Poll ==
    Start \/ FetchFails \/ Fetch \/ Sample \/ QueueMetric \/ FlushSent \/ FlushFails \/ Sleep

Next == Callback \/ Poll \/ Restart

Spec == Init /\ [][Next]_vars

(* Both threads run on and the mutex is not kept from either for ever; a   *)
(* fetch and a report made again and again get through.  Nothing is        *)
(* assumed of frames.                                                      *)
FairSpec ==
    /\ Spec
    /\ WF_vars(Poll)
    /\ SF_vars(SampleNone \/ CopyBegins)
    /\ SF_vars(StoreBegins)
    /\ WF_vars(StoreEnds)
    /\ SF_vars(Fetch)
    /\ SF_vars(FlushSent)

-------------------------------------------------------------------------------
\* Properties.

PartsOfFrames == [flags : Frame, position : Frame]

\* The variables hold what the declarations above say.
TypeOK ==
    /\ build \in Builds /\ slots \in SlotChoices
    /\ frames \in 0..MaxFrames
    /\ cb \in {"off", "idle", "read", "store"}
    /\ pvt \in Frame
    /\ pvt_lock \in {"free", "cb", "poll"}
    /\ last_pvt \in PartsOfFrames
    /\ have_pvt \in BOOLEAN
    /\ pc \in {"init", "poll", "sample", "copy", "queue", "sleep"}
    /\ sample \in PartsOfFrames
    /\ at \in 1..(LastKey + 1)
    /\ queue \in [Keys -> Frame \cup {Free}]
    /\ report \in [Keys -> Frame \cup {Free}]
    /\ resets \in 0..MaxResets

ClaimsFix(r) == r[FixQuality].fix

Position(r) == {k \in PositionKeys : r[k] # Free}

(* gnss.c:41-44, 95-104, shadow.c:60-92: a report that claims a fix        *)
(* carries the position of the frame that had it, all of it from that one  *)
(* frame: no torn copy, no mix with what an earlier report left queued, no *)
(* leftover of a key that was refused.                                     *)
ReportIsOneFrame ==
    ClaimsFix(report) => \A k \in Position(report) : report[k] = report[FixQuality]

Promise == INSTANCE TrackerPromise WITH
    Track <- {[n |-> n, fix |-> TRUE] : n \in 1..MaxFrames},
    source <- build,
    taken <- frames,
    newest <- last_pvt.flags,
    sampled <- sample.flags,
    shown <- [quality |-> report[FixQuality],
              position |-> [k \in PositionKeys |-> report[k]]]

(* gnss.c:41-44, 95-104, shadow.c:58-92 and README.rst:152: two threads,   *)
(* copies in halves, a store too small, failed flushes and restarts show   *)
(* as a tracker that samples the newest frame at one moment and reports    *)
(* that frame: a claimed fix is current when it is read, and no position   *)
(* is ever a searching receiver's or the zeros of an empty sample.         *)
ImplementsPromise == Promise!Spec

(* A frame with a fix, stored and not followed by another, is reported in  *)
(* the end, unless the device restarts.                                    *)
FixReported ==
    last_pvt.flags.fix /\ cb = "idle" /\ frames = MaxFrames
        ~> pc = "init" \/ report[FixQuality] = last_pvt.flags
===============================================================================
