------------------------------ MODULE NiddShadow ------------------------------
(***************************************************************************)
(* samples/nidd_init: a shadow applied and reported over Non-IP Data       *)
(* Delivery, where frames go through the carrier and each can be lost.     *)
(* Two threads share the device: shadow_loop(), which syncs at boot, at    *)
(* every wake and when the event callback gave the semaphore, and the      *)
(* library's receive thread, which takes frames while a report waits for   *)
(* its reply.  Time is left to NiddSchedule: a wake and a timeout may come *)
(* at any moment here.                                                     *)
(*                                                                         *)
(* Of the library (not in this repository) the model assumes what          *)
(* shadow.c, shadow.h and the README say: it keeps the newest target it    *)
(* was sent, tells the callback of a newer one, repeats HELLO until it has *)
(* a target, and counts a confirmation whenever it arrives.  Of the        *)
(* platform, that it stores a report as it is (mock_dovecote.py), even one *)
(* that a newer report overtook on the way.                                *)
(***************************************************************************)
EXTENDS Integers, FiniteSets

CONSTANTS
    Absent,          \* a key the target does not carry
    Malformed,       \* a target_config that does not parse
    NoDoc,           \* no target received in this boot
    Intervals,       \* telemetry_interval values the dashboard may write
    WakeMin,         \* WAKE_MIN_SEC
    DefaultInterval,
    Configs,         \* the target configurations the dashboard may write
    MaxVersion,      \* bound: dashboard writes
    MaxResets,       \* bound: power cuts
    MaxFrames        \* bound: shadow frames in flight

Config == [interval : Intervals \cup {Absent}, reboot : BOOLEAN]

EmptyConfig == [interval |-> Absent, reboot |-> FALSE]

ASSUME NiddAssumption ==
    /\ Intervals \subseteq Int /\ WakeMin \in Nat
    /\ DefaultInterval \in Nat /\ DefaultInterval >= WakeMin
    /\ Absent \notin Int /\ Malformed \notin Config
    /\ Configs \subseteq Config \cup {Malformed}
    /\ NoDoc \notin [target_version : Nat, current_version : Nat,
                     target_config : Config \cup {Malformed}]
    /\ MaxVersion \in Nat /\ MaxResets \in Nat /\ MaxFrames \in Nat

VARIABLES
    shadow,              \* platform: target and current version, target config
    shadows,             \* downlink: SHADOW frames in flight
    stored,              \* downlink: versions of STATUS STORED frames in flight
    reports,             \* uplink: versions of SHADOW_REPORT frames in flight
    doc,                 \* library: the document pigeon_shadow_get() returns
    shadow_wakeup,       \* the semaphore, 0 or 1
    pc,                  \* shadow_loop()'s thread
    applied,             \* applied.telemetry_interval
    applied_version,
    reboot_asked,
    unconfirmed_version,
    resets,              \* history: power cuts so far
    rebooted,            \* history: booted since the present target was written
    sent,                \* history: the version of the last report made, over every boot
    held,                \* history: versions the platform has stored
    obeyed,              \* history: versions whose reboot was obeyed, on record ever since
    timeouts             \* history: reports of each version timed out since a wake

air == <<shadows, stored, reports>>
ram == <<applied, applied_version, reboot_asked, unconfirmed_version>>
told == <<sent, held>>
vars == <<shadow, air, doc, shadow_wakeup, pc, ram, resets, rebooted, told, obeyed, timeouts>>

Versions == 0..MaxVersion

NoTimeouts == [v \in Versions |-> 0]

\* Power-on, up to the first pass of shadow_loop(); what was on its way down
\* is lost with the connection.
Boot ==
    /\ applied' = DefaultInterval
    /\ applied_version' = -1
    /\ reboot_asked' = FALSE
    /\ unconfirmed_version' = -1
    /\ doc' = NoDoc
    /\ shadow_wakeup' = 0
    /\ pc' = "sync"
    /\ rebooted' = TRUE
    /\ timeouts' = NoTimeouts
    /\ shadows' = {} /\ stored' = {}

Init ==
    /\ shadow = [target_version |-> 0, current_version |-> 0, target_config |-> EmptyConfig]
    /\ shadows = {} /\ stored = {} /\ reports = {}
    /\ doc = NoDoc
    /\ shadow_wakeup = 0
    /\ pc = "sync"
    /\ applied = DefaultInterval
    /\ applied_version = -1
    /\ reboot_asked = FALSE
    /\ unconfirmed_version = -1
    /\ resets = 0
    /\ rebooted = TRUE
    /\ sent = 0 /\ held = {0}
    /\ obeyed = {}
    /\ timeouts = NoTimeouts

-------------------------------------------------------------------------------
\* The platform and the carrier.

SetShadow ==
    /\ shadow.target_version < MaxVersion
    /\ \E c \in Configs :
         shadow' = [shadow EXCEPT !.target_version = @ + 1, !.target_config = c]
    /\ rebooted' = FALSE
    /\ UNCHANGED <<air, doc, shadow_wakeup, pc, ram, resets, told, obeyed, timeouts>>

\* A push, what the platform owes at a wake, or the reply to HELLO.
SendShadow ==
    /\ doc = NoDoc \/ shadow.target_version > shadow.current_version
    /\ Cardinality(shadows) < MaxFrames
    /\ shadows' = shadows \cup {shadow}
    /\ UNCHANGED <<shadow, stored, reports, doc, shadow_wakeup, pc, ram, resets, rebooted,
                   told, obeyed, timeouts>>

(* A report is stored and confirmed as it arrives: one that a newer report *)
(* overtook takes the record of the newer one back.                        *)
ReceiveReport ==
    \E v \in reports :
        /\ reports' = reports \ {v}
        /\ shadow' = [shadow EXCEPT !.current_version = v]
        /\ stored' = stored \cup {v}
        /\ held' = held \cup {v}
        /\ obeyed' = {w \in obeyed : w <= v}
        /\ UNCHANGED <<shadows, doc, shadow_wakeup, pc, ram, resets, rebooted, sent, timeouts>>

LoseFrame ==
    /\ \/ \E f \in shadows : shadows' = shadows \ {f} /\ UNCHANGED <<stored, reports>>
       \/ \E v \in stored : stored' = stored \ {v} /\ UNCHANGED <<shadows, reports>>
       \/ \E v \in reports : reports' = reports \ {v} /\ UNCHANGED <<shadows, stored>>
    /\ UNCHANGED <<shadow, doc, shadow_wakeup, pc, ram, resets, rebooted, told, obeyed, timeouts>>

-------------------------------------------------------------------------------
\* The library's receive thread.

\* Fault: a signal that finds the loop busy is dropped.
ShadowEventIfIdle == shadow_wakeup' = IF pc = "loop" THEN 1 ELSE shadow_wakeup

\* shadow_event_cb(): only signals; the semaphore counts to one.
ShadowEvent == shadow_wakeup' = 1

DeliverShadow ==
    \E f \in shadows :
        /\ shadows' = shadows \ {f}
        /\ IF doc = NoDoc \/ f.target_version > doc.target_version
           THEN doc' = f /\ ShadowEvent
           ELSE UNCHANGED <<doc, shadow_wakeup>>
        /\ UNCHANGED <<shadow, stored, reports, pc, ram, resets, rebooted, told, obeyed, timeouts>>

\* What the waiting report does with its confirmation.
Confirmed ==
    /\ pc' = IF reboot_asked THEN "reboot" ELSE "loop"
    /\ obeyed' = IF reboot_asked /\ applied_version <= shadow.current_version
                 THEN obeyed \cup {applied_version} ELSE obeyed

DeliverStored ==
    \E v \in stored :
        /\ stored' = stored \ {v}
        /\ doc' = IF doc # NoDoc /\ v > doc.current_version
                  THEN [doc EXCEPT !.current_version = v] ELSE doc
        /\ IF pc = "report" /\ v = applied_version
           THEN Confirmed
           ELSE UNCHANGED <<pc, obeyed>>
        /\ UNCHANGED <<shadow, shadows, reports, shadow_wakeup, ram, resets, rebooted, told,
                       timeouts>>

-------------------------------------------------------------------------------
\* shadow_loop()'s thread.

Keep(value, old) == IF value = Absent THEN old ELSE value

\* An interval under the carrier's floor is raised to it.
Clamp(interval) == IF interval < WakeMin THEN WakeMin ELSE interval

Apply(d) ==
    /\ applied' = Clamp(Keep(d.target_config.interval, applied))
    /\ applied_version' = d.target_version
    /\ reboot_asked' = d.target_config.reboot

\* No document, or one that does not parse: the pass ends.
SyncFails ==
    /\ pc = "sync"
    /\ \/ doc = NoDoc
       \/ /\ doc # NoDoc /\ doc.target_version > applied_version
          /\ doc.target_config = Malformed
    /\ pc' = "loop"
    /\ UNCHANGED <<shadow, air, doc, shadow_wakeup, ram, resets, rebooted, told, obeyed, timeouts>>

\* Fault: a target that does not parse is marked applied so as not to be looked at again.
SyncAppliesAnything ==
    /\ pc = "sync"
    /\ doc # NoDoc
    /\ IF doc.target_version > applied_version
       THEN IF doc.target_config # Malformed
            THEN Apply(doc)
            ELSE applied_version' = doc.target_version /\ UNCHANGED <<applied, reboot_asked>>
       ELSE UNCHANGED <<applied, applied_version, reboot_asked>>
    /\ UNCHANGED unconfirmed_version

SyncApplies ==
    /\ pc = "sync"
    /\ doc # NoDoc
    /\ IF doc.target_version > applied_version
       THEN doc.target_config # Malformed /\ Apply(doc)
       ELSE UNCHANGED <<applied, applied_version, reboot_asked>>
    /\ UNCHANGED unconfirmed_version

\* Faults: a timed-out report is repeated at every pass; a converged one is repeated too.
NothingToReportIgnoringTimeout == applied_version' <= doc.current_version
NothingToReportOnceOnly == applied_version' = unconfirmed_version

\* The platform holds this version, or its report went unconfirmed since the last wake.
NothingToReport ==
    applied_version' <= doc.current_version \/ applied_version' = unconfirmed_version

SyncDone ==
    /\ SyncApplies
    /\ NothingToReport
    /\ pc' = "loop"
    /\ UNCHANGED <<shadow, air, doc, shadow_wakeup, resets, rebooted, told, obeyed, timeouts>>

SyncReports ==
    /\ SyncApplies
    /\ ~NothingToReport
    /\ pc' = "report"
    /\ reports' = reports \cup {applied_version'}
    /\ sent' = applied_version'
    /\ UNCHANGED <<shadow, shadows, stored, doc, shadow_wakeup, resets, rebooted, held, obeyed,
                   timeouts>>

\* The report never left the device: a warning, and nothing remembered.
ReportFails ==
    /\ SyncApplies
    /\ ~NothingToReport
    /\ pc' = "loop"
    /\ UNCHANGED <<shadow, air, doc, shadow_wakeup, resets, rebooted, told, obeyed, timeouts>>

\* Fault: a report nobody confirmed is taken for one that was.
ReportTimesOutAsConfirmed ==
    /\ pc = "report"
    /\ Confirmed
    /\ UNCHANGED <<shadow, air, doc, shadow_wakeup, ram, resets, rebooted, told, timeouts>>

ReportTimesOut ==
    /\ pc = "report"
    /\ pc' = "loop"
    /\ unconfirmed_version' = applied_version
    /\ timeouts' = [timeouts EXCEPT ![applied_version] = @ + 1]
    /\ UNCHANGED <<shadow, air, doc, shadow_wakeup, applied, applied_version, reboot_asked,
                   resets, rebooted, told, obeyed>>

\* Fault: the wake does not let an unconfirmed version be reported again.
WakeKeepsUnconfirmed ==
    /\ pc = "loop"
    /\ pc' = "sync"
    /\ timeouts' = NoTimeouts
    /\ UNCHANGED <<shadow, air, doc, shadow_wakeup, ram, resets, rebooted, told, obeyed>>

\* The scheduled wake: telemetry goes out, then a pass.
Wake ==
    /\ pc = "loop"
    /\ pc' = "sync"
    /\ unconfirmed_version' = -1
    /\ timeouts' = NoTimeouts
    /\ UNCHANGED <<shadow, air, doc, shadow_wakeup, applied, applied_version, reboot_asked,
                   resets, rebooted, told, obeyed>>

\* k_sem_take() returned 0: a pass between wakes.
TakeWakeup ==
    /\ pc = "loop"
    /\ shadow_wakeup = 1
    /\ shadow_wakeup' = 0
    /\ pc' = "sync"
    /\ UNCHANGED <<shadow, air, doc, ram, resets, rebooted, told, obeyed, timeouts>>

\* sample_reboot()
SampleReboot ==
    /\ pc = "reboot"
    /\ Boot
    /\ UNCHANGED <<shadow, reports, resets, told, obeyed>>

PowerCut ==
    /\ resets < MaxResets
    /\ Boot
    /\ resets' = resets + 1
    /\ UNCHANGED <<shadow, reports, told, obeyed>>

Sync == SyncFails \/ SyncDone \/ SyncReports \/ ReportFails

Device == Sync \/ ReportTimesOut \/ Wake \/ TakeWakeup \/ SampleReboot

Carrier == SendShadow \/ ReceiveReport \/ LoseFrame \/ DeliverShadow \/ DeliverStored

Next == SetShadow \/ Carrier \/ Device \/ PowerCut

Spec == Init /\ [][Next]_vars

(* The loop's thread runs on and wakes on schedule.  Of the carrier only   *)
(* that what is repeated for ever gets through in the end: every frame may *)
(* be lost any number of times before.  A report that leaves the device    *)
(* every so often is the same assumption for the radio.                    *)
FairSpec ==
    /\ Spec
    /\ WF_vars(Device)
    /\ SF_vars(Wake)
    /\ SF_vars(SyncReports)
    /\ WF_vars(SendShadow)
    /\ SF_vars(DeliverShadow)
    /\ SF_vars(ReceiveReport)
    /\ SF_vars(DeliverStored)

-------------------------------------------------------------------------------
\* Properties.

Shadow ==
    [target_version : Versions, current_version : Versions,
     target_config : Config \cup {Malformed}]

\* The variables hold what the declarations above say; what is applied is at the floor or over.
TypeOK ==
    /\ shadow \in Shadow
    /\ shadows \subseteq Shadow
    /\ stored \subseteq Versions /\ reports \subseteq Versions
    /\ doc \in Shadow \cup {NoDoc}
    /\ shadow_wakeup \in {0, 1}
    /\ pc \in {"loop", "sync", "report", "reboot"}
    /\ applied \in Int /\ applied >= WakeMin
    /\ applied_version \in Versions \cup {-1}
    /\ reboot_asked \in BOOLEAN
    /\ unconfirmed_version \in Versions \cup {-1}
    /\ resets \in 0..MaxResets
    /\ rebooted \in BOOLEAN
    /\ sent \in Versions
    /\ held \subseteq Versions /\ obeyed \subseteq Versions
    /\ timeouts \in [Versions -> Nat]

(* shadow.c:136-137: the device reboots for a version only after the       *)
(* platform stored it, whatever timed out, was lost or was confirmed late. *)
(* With no older report still on its way the next boot then finds it       *)
(* converged.                                                              *)
RebootOnlyConfirmed == pc = "reboot" => applied_version \in held

(* The reboot a version asks for is obeyed again only if an overtaken      *)
(* report took the platform's record of it back: over every boot, timeout  *)
(* and repeated report, and at most once each time.                        *)
RebootAtMostOnce ==
    [][pc = "report" /\ pc' = "reboot" => applied_version \notin obeyed]_vars

(* Between two wakes no version's report times out twice: an event already *)
(* queued, or any number of pushes, never spends a second radio access on  *)
(* the version that went unconfirmed (shadow.c:51-53).                     *)
OneTimeoutPerWake == \A v \in Versions : timeouts[v] <= 1

(* No wakeup is lost: when the loop goes to sleep with the semaphore not   *)
(* given, the newest document the library holds has been applied, in every *)
(* boot (shadow.c:46), unless it does not parse.                           *)
NothingUnnoticed ==
    pc = "loop" /\ shadow_wakeup = 0 /\ doc # NoDoc =>
        \/ doc.target_config = Malformed
        \/ /\ applied_version = doc.target_version
           /\ applied = Clamp(Keep(doc.target_config.interval, applied))

Promise == INSTANCE ShadowPromise WITH
    Targets <- Config \cup {Malformed},
    Settings <- {"applied"},
    Commands <- {},
    Agreement <- Config \X {"applied"},
    target <- [version |-> shadow.target_version, config |-> shadow.target_config],
    current <- [version |-> sent, settings |-> "applied"],
    obeyed <- TRUE

(* What the device says of itself never goes back, over boots, lost        *)
(* confirmations and targets that arrive out of order, nor past what was   *)
(* written, nor to a target it could not parse.  What the platform shows   *)
(* may be an older report.  The promise about commands is left out: see    *)
(* LateConfirmationCounts.                                                 *)
ImplementsPromise == Promise!Spec

(* The last target, if it parses, is applied and its report stored, over a *)
(* carrier that only loses what it does not lose for ever.  An overtaken   *)
(* report may take it back; the device, told that it was confirmed, does   *)
(* not report it again before it boots.                                    *)
Settles ==
    shadow.target_version = MaxVersion /\ shadow.target_config # Malformed
        ~> MaxVersion \in held

(* Radio use stops once there is nothing to tell: reports cease.           *)
ReportsCease == <>[](pc # "report")

-------------------------------------------------------------------------------
(* README.rst:159-163, shadow.c:136-140: a confirmation that arrives after *)
(* the report stopped waiting still counts.  So a reboot command that both *)
(* the platform and the device hold as converged has been obeyed.          *)
LateConfirmationCounts ==
    pc = "loop" /\ doc # NoDoc /\ doc.target_version = shadow.target_version
            /\ doc.current_version = shadow.target_version
            /\ shadow.target_config # Malformed /\ shadow.target_config.reboot
        => rebooted
===============================================================================
