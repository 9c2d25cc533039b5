------------------------------ MODULE ShadowPush ------------------------------
(***************************************************************************)
(* samples/ws_init and samples/mqtt_init: a shadow whose changes are       *)
(* pushed.  shadow_loop() sleeps on a semaphore that the library's worker  *)
(* thread gives when a connection opens or a target arrives, and on the    *)
(* telemetry interval.  The two samples share every line of this but one:  *)
(* a push is only a wakeup to ws_init, which then fetches over HTTPS, and  *)
(* is the document itself to mqtt_init, which reads back what was pushed.  *)
(*                                                                         *)
(* A connection drops at any point, what it carried is lost, and the       *)
(* device learns of it later.  What the settings do to the device is       *)
(* ShadowSync's subject; here a target carries one setting and a command.  *)
(***************************************************************************)
EXTENDS Integers, Sequences

CONSTANTS
    Absent,          \* a key the target does not carry
    Malformed,       \* a target_config that does not parse
    NoDoc,           \* nothing fetched or received in this boot
    Channels,        \* the samples looked at: "ws", "mqtt"
    Intervals,       \* telemetry_interval values
    DefaultInterval,
    Configs,         \* the target configurations the dashboard may write
    MaxVersion,      \* bound: dashboard writes
    MaxDrops         \* bound: connections lost

Config == [interval : Intervals \cup {Absent}, reboot : BOOLEAN]

EmptyConfig == [interval |-> Absent, reboot |-> FALSE]

ASSUME PushAssumption ==
    /\ Channels \subseteq {"ws", "mqtt"}
    /\ Absent \notin Intervals /\ DefaultInterval \in Intervals
    /\ Malformed \notin Config
    /\ Configs \subseteq Config \cup {Malformed}
    /\ NoDoc \notin [target_version : Nat, current_version : Nat]
    /\ NoDoc \notin [target_version : Nat, current_version : Nat,
                     target_config : Config \cup {Malformed}, current_config : Intervals]
    /\ MaxVersion \in Nat /\ MaxDrops \in Nat

VARIABLES
    channel,        \* which of the two samples this device runs
    shadow,         \* platform: the shadow of this pigeon
    link,           \* the connection; "dead" is one the device still believes in
    frames,         \* pushes on their way down, in order
    library,        \* the document the library's buffer holds
    shadow_wakeup,  \* the semaphore, 0 or 1
    pc,             \* shadow_loop()'s thread
    doc,            \* this pass's copy of the versions; the config stays in the buffer
    current_config, \* telemetry_interval applied
    reboot,         \* target.reboot of this pass
    failed,         \* history: the last pass had no document
    written,        \* history: the target_config of every version
    rebooted,       \* history: booted since the present target was written
    drops           \* history: connections lost so far

platform == <<shadow, written, rebooted>>
connection == <<link, frames, drops>>
ram == <<library, shadow_wakeup, doc, current_config, reboot, failed>>
vars == <<channel, platform, connection, ram, pc>>

Versions == 0..MaxVersion

Keep(value, old) == IF value = Absent THEN old ELSE value

\* Power-on.
Boot ==
    /\ link' = "down" /\ frames' = <<>>
    /\ library' = NoDoc
    /\ shadow_wakeup' = 0
    /\ pc' = "sync"
    /\ doc' = NoDoc
    /\ current_config' = DefaultInterval
    /\ reboot' = FALSE
    /\ failed' = FALSE
    /\ rebooted' = TRUE

Init ==
    /\ channel \in Channels
    /\ shadow = [target_version |-> 0, current_version |-> 0,
                 target_config |-> EmptyConfig, current_config |-> DefaultInterval]
    /\ written = [v \in Versions |-> EmptyConfig]
    /\ rebooted = TRUE
    /\ drops = 0
    /\ link = "down" /\ frames = <<>>
    /\ library = NoDoc
    /\ shadow_wakeup = 0
    /\ pc = "sync"
    /\ doc = NoDoc
    /\ current_config = DefaultInterval
    /\ reboot = FALSE
    /\ failed = FALSE

-------------------------------------------------------------------------------
\* The platform, and for mqtt the broker's bridge in front of it.

Push(s) ==
    frames' = IF link \in {"opening", "up"} THEN Append(frames, s) ELSE frames

SetShadow ==
    /\ shadow.target_version < MaxVersion
    /\ \E c \in Configs :
         /\ shadow' = [shadow EXCEPT !.target_version = @ + 1, !.target_config = c]
         /\ written' = [written EXCEPT ![shadow.target_version + 1] = c]
    /\ Push(shadow')
    /\ rebooted' = FALSE
    /\ UNCHANGED <<channel, link, drops, ram, pc>>

\* A report is pushed back like any write; the broker drops it, as no target changed.
Converge(version, config) ==
    /\ shadow' = [shadow EXCEPT !.current_version = version, !.current_config = config]
    /\ IF channel = "ws" THEN Push(shadow') ELSE UNCHANGED frames

\* A connection is accepted; mqtt's starts with the retained target.
Accept ==
    /\ link = "down"
    /\ link' = "opening"
    /\ frames' = IF channel = "mqtt" THEN <<shadow>> ELSE <<>>
    /\ UNCHANGED <<channel, platform, drops, ram, pc>>

Drop ==
    /\ link \in {"opening", "up"}
    /\ drops < MaxDrops
    /\ link' = "dead"
    /\ frames' = <<>>
    /\ drops' = drops + 1
    /\ UNCHANGED <<channel, platform, ram, pc>>

-------------------------------------------------------------------------------
\* The library's worker thread and the callback it runs.

\* Fault: a signal that finds the loop busy is dropped.
SignalIfIdle == shadow_wakeup' = IF pc = "wait" THEN 1 ELSE shadow_wakeup

\* What the callback does with a connection and with a push: the semaphore counts to one.
Signal == shadow_wakeup' = 1

\* PIGEON_EVENT_CONNECTED
Opened ==
    /\ link = "opening"
    /\ link' = "up"
    /\ Signal
    /\ UNCHANGED <<channel, platform, frames, drops, library, doc, current_config, reboot,
                   failed, pc>>

\* Fault: ws_init keeps the document that came with the push.
ReceiveInto(s) == library' = s

\* The pushed document lives for the callback with ws, and in the buffer with mqtt.
Receive(s) == library' = IF channel = "mqtt" THEN s ELSE library

\* PIGEON_EVENT_SHADOW_UPDATE
Deliver ==
    /\ link = "up"
    /\ frames # <<>>
    /\ frames' = Tail(frames)
    /\ Receive(Head(frames))
    /\ Signal
    /\ UNCHANGED <<channel, platform, link, drops, doc, current_config, reboot, failed, pc>>

\* PIGEON_EVENT_DISCONNECTED: nothing to do.
Disconnected ==
    /\ link = "dead"
    /\ link' = "down"
    /\ UNCHANGED <<channel, platform, frames, drops, ram, pc>>

-------------------------------------------------------------------------------
\* shadow_loop()'s thread.

\* The fetch over HTTPS fails, or nothing was pushed yet.
SyncFails ==
    /\ pc = "sync"
    /\ channel = "ws" \/ library = NoDoc
    /\ failed' = TRUE
    /\ pc' = "wait"
    /\ UNCHANGED <<channel, platform, connection, library, shadow_wakeup, doc, current_config,
                   reboot>>

VersionsOf(s) ==
    [target_version |-> s.target_version, current_version |-> s.current_version]

\* pigeon_shadow_get(), and telemetry starts.
Fetch ==
    /\ pc = "sync"
    /\ IF channel = "ws" THEN library' = shadow ELSE library # NoDoc /\ UNCHANGED library
    /\ doc' = VersionsOf(library')
    /\ failed' = FALSE
    /\ pc' = "telemetry"
    /\ UNCHANGED <<channel, platform, connection, shadow_wakeup, current_config, reboot>>

\* Fault: a converged shadow is applied and reported again.
NothingToApplyNever == FALSE

NothingToApply == doc.target_version = doc.current_version

SyncDone ==
    /\ pc = "telemetry"
    /\ NothingToApply
    /\ pc' = "wait"
    /\ UNCHANGED <<channel, platform, connection, ram>>

\* What reading one configuration while another is written over it can give.
Splices(c, d) ==
    {c, d, Malformed}
    \cup {s \in Config : /\ c # Malformed /\ d # Malformed
                         /\ s.interval \in {c.interval, d.interval}
                         /\ s.reboot \in {c.reboot, d.reboot}}

(* The strncpy() out of the library's buffer, after telemetry went out: by *)
(* then mqtt's worker thread may have put the next push there, or be       *)
(* putting it there now.                                                   *)
Copied ==
    IF channel = "mqtt" /\ link = "up" /\ frames # <<>>
    THEN Splices(library.target_config, Head(frames).target_config)
    ELSE {library.target_config}

RejectConfig ==
    /\ pc = "telemetry"
    /\ ~NothingToApply
    /\ Malformed \in Copied
    /\ pc' = "wait"
    /\ UNCHANGED <<channel, platform, connection, ram>>

Apply ==
    /\ pc = "telemetry"
    /\ ~NothingToApply
    /\ \E c \in Copied \ {Malformed} :
         /\ current_config' = Keep(c.interval, current_config)
         /\ reboot' = c.reboot
    /\ pc' = "report"
    /\ UNCHANGED <<channel, platform, connection, library, shadow_wakeup, doc, failed>>

\* Fault: the version that was current.
ReportVersionOld == doc.current_version

ReportVersion == doc.target_version

\* Fault: a document that is already there is dealt with first.
AfterReportUnlessSignalled ==
    /\ pc' = IF reboot /\ shadow_wakeup = 0 THEN "reboot" ELSE "wait"
    /\ UNCHANGED <<channel, written, rebooted, link, drops, ram>>

AfterReport ==
    /\ pc' = IF reboot THEN "reboot" ELSE "wait"
    /\ UNCHANGED <<channel, written, rebooted, link, drops, ram>>

\* With mqtt a report is a publish on the session.
ReportStored ==
    /\ pc = "report"
    /\ channel = "mqtt" => link = "up"
    /\ Converge(ReportVersion, current_config)
    /\ AfterReport

\* Not sent, or lost: a warning, and the pass goes on.
ReportLost ==
    /\ pc = "report"
    /\ UNCHANGED <<shadow, frames>>
    /\ AfterReport

\* The channel is closed, the network taken down and the device reset.
Reboot ==
    /\ pc = "reboot"
    /\ Boot
    /\ UNCHANGED <<channel, shadow, written, drops>>

\* k_sem_take() returned 0.
TakeWakeup ==
    /\ pc = "wait"
    /\ shadow_wakeup = 1
    /\ shadow_wakeup' = 0
    /\ pc' = "sync"
    /\ UNCHANGED <<channel, platform, connection, library, doc, current_config, reboot, failed>>

\* k_sem_take() timed out: the interval is over.
Poll ==
    /\ pc = "wait"
    /\ shadow_wakeup = 0
    /\ pc' = "sync"
    /\ UNCHANGED <<channel, platform, connection, ram>>

Worker == Accept \/ Opened \/ Deliver \/ Disconnected

Sync ==
    \/ SyncFails
    \/ Fetch
    \/ SyncDone
    \/ RejectConfig
    \/ Apply
    \/ ReportStored
    \/ ReportLost
    \/ Reboot
    \/ TakeWakeup
    \/ Poll

Next == SetShadow \/ Drop \/ Worker \/ Sync

Spec == Init /\ [][Next]_vars

(* Both threads run on, and the library reconnects.  A fetch and a report  *)
(* that are tried again and again get through in the end.                  *)
FairSpec ==
    /\ Spec
    /\ WF_vars(Sync)
    /\ WF_vars(Worker)
    /\ SF_vars(Fetch)
    /\ SF_vars(ReportStored)

-------------------------------------------------------------------------------
\* Properties.

Shadow ==
    [target_version : Versions, current_version : Versions,
     target_config : Config \cup {Malformed}, current_config : Intervals]

\* The variables hold what the declarations above say.
TypeOK ==
    /\ channel \in Channels
    /\ shadow \in Shadow
    /\ written \in [Versions -> Config \cup {Malformed}]
    /\ rebooted \in BOOLEAN
    /\ link \in {"down", "opening", "up", "dead"}
    /\ frames \in Seq(Shadow)
    /\ drops \in 0..MaxDrops
    /\ library \in Shadow \cup {NoDoc}
    /\ shadow_wakeup \in {0, 1}
    /\ pc \in {"sync", "telemetry", "report", "reboot", "wait"}
    /\ doc \in [target_version : Versions, current_version : Versions] \cup {NoDoc}
    /\ current_config \in Intervals
    /\ reboot \in BOOLEAN
    /\ failed \in BOOLEAN

Wanted == shadow.target_config

Converged == shadow.current_version = shadow.target_version

(* No push is lost between the worker's give and the loop's sleep: when    *)
(* the loop waits out its interval on an open connection with nothing on   *)
(* its way, its last pass was about the newest target, whatever dropped    *)
(* and whenever it was written.  Only ws_init can miss one, by a fetch     *)
(* that failed.                                                            *)
PushNotLost ==
    pc = "wait" /\ shadow_wakeup = 0 /\ link = "up" /\ frames = <<>> =>
        IF failed THEN channel = "ws"
        ELSE doc # NoDoc /\ doc.target_version = shadow.target_version

(* What the platform shows as current agrees with a converged target, also *)
(* when pushes overwrote the document in the middle of a pass.             *)
ConvergedMeansReported ==
    Converged /\ Wanted # Malformed =>
        shadow.current_config = Keep(Wanted.interval, shadow.current_config)

(* A pass applies the configuration that was written at the version it     *)
(* reports.                                                                *)
AppliesWhatItReports ==
    pc = "report" =>
        LET c == written[doc.target_version]
        IN  /\ c # Malformed
            /\ current_config = Keep(c.interval, current_config)
            /\ reboot = c.reboot

(* shadow.c:20-21: with ws_init a push is a wakeup, not a payload, so no   *)
(* push changes what a pass under way applies.                             *)
PushIsNoPayload == channel = "ws" => AppliesWhatItReports

Agreement ==
    {p \in Config \X Intervals : p[2] = Keep(p[1].interval, p[2])}

Promise == INSTANCE ShadowPromise WITH
    Targets <- Config \cup {Malformed},
    Settings <- Intervals,
    Commands <- {c \in Config : c.reboot},
    Agreement <- Agreement,
    target <- [version |-> shadow.target_version, config |-> shadow.target_config],
    current <- [version |-> shadow.current_version, settings |-> shadow.current_config],
    obeyed <- rebooted \/ pc = "reboot"

(* Neither documents that are as old as the last push nor a buffer that is *)
(* overwritten in the middle of a pass makes the platform conclude what is *)
(* not so: versions reported never go back, and the newest one is reported *)
(* with its own settings and its own command obeyed.                       *)
ImplementsPromise == Promise!Spec

\* The last target written, if it parses, is converged to in the end.
Settles ==
    shadow.target_version = MaxVersion /\ Wanted # Malformed
        ~> shadow.current_version = MaxVersion

(* The push that a device's own report sets off does not keep it busy for  *)
(* ever (mock_dovecote.py:249-255): wakeups cease when writes do.          *)
WakeupsCease == <>[](shadow_wakeup = 0)
===============================================================================
