------------------------------ MODULE ShadowPoll ------------------------------
(***************************************************************************)
(* The samples that poll and do no more: coap_dtls_init and coap_tcp_init, *)
(* whose shadow.c is the same file, and the part of asset_tracker's that   *)
(* follows its telemetry.  main() starts the network once and, if that     *)
(* fails, returns for good; then shadow_loop() fetches, sends telemetry,   *)
(* applies and reports.                                                    *)
(*                                                                         *)
(* What ShadowSync leaves out is here: the log output the setting is about *)
(* and the telemetry that a pass sends between its fetch and its report.   *)
(***************************************************************************)
EXTENDS Integers

CONSTANTS
    Absent,          \* a key the target does not carry
    Malformed,       \* a target_config that does not parse
    NoDoc,           \* nothing fetched in this boot
    Intervals,       \* telemetry_interval values
    DefaultInterval,
    Configs,         \* the target configurations the dashboard may write
    MaxVersion,      \* bound: dashboard writes
    MaxPolls,        \* bound: poll_count is counted up to here
    MaxResets        \* bound: power cuts

Config == [log : BOOLEAN \cup {Absent}, interval : Intervals \cup {Absent}, reboot : BOOLEAN]

EmptyConfig == [log |-> Absent, interval |-> Absent, reboot |-> FALSE]

ASSUME PollAssumption ==
    /\ Absent \notin BOOLEAN /\ Absent \notin Intervals /\ DefaultInterval \in Intervals
    /\ Malformed \notin Config
    /\ Configs \subseteq Config \cup {Malformed}
    /\ MaxVersion \in Nat /\ MaxPolls \in Nat /\ MaxResets \in Nat

VARIABLES
    shadow,         \* platform: the shadow of this pigeon
    last,           \* platform: the last poll_count it received, 0 if none
    pc,             \* main(), then shadow_loop()
    doc,            \* the shadow this pass fetched
    current_config, \* log and telemetry_interval, applied
    log_level,      \* what the log really does: "build" until it is first set
    reboot,         \* target.reboot of this pass
    poll_count,
    resets,         \* history: power cuts so far
    rebooted,       \* history: booted since the present target was written
    here            \* history: last came from the present boot

platform == <<shadow, last>>
ram == <<doc, current_config, log_level, reboot, poll_count>>
history == <<resets, rebooted, here>>
vars == <<platform, pc, ram, history>>

Versions == 0..MaxVersion

\* A key absent from a partial update keeps its current value.
Keep(value, old) == IF value = Absent THEN old ELSE value

\* The setting is false at boot although the log is on: no build starts silenced.
DefaultConfig == [log |-> FALSE, interval |-> DefaultInterval]

Boot ==
    /\ pc' = "start"
    /\ doc' = NoDoc
    /\ current_config' = DefaultConfig
    /\ log_level' = "build"
    /\ reboot' = FALSE
    /\ poll_count' = 0
    /\ rebooted' = TRUE
    /\ here' = FALSE

Init ==
    /\ shadow = [target_version |-> 0, current_version |-> 0,
                 target_config |-> EmptyConfig, current_config |-> DefaultConfig]
    /\ last = 0
    /\ pc = "start"
    /\ doc = NoDoc
    /\ current_config = DefaultConfig
    /\ log_level = "build"
    /\ reboot = FALSE
    /\ poll_count = 0
    /\ resets = 0
    /\ rebooted = TRUE
    /\ here = FALSE

-------------------------------------------------------------------------------
\* The platform.

SetShadow ==
    /\ shadow.target_version < MaxVersion
    /\ \E c \in Configs :
         shadow' = [shadow EXCEPT !.target_version = @ + 1, !.target_config = c]
    /\ rebooted' = FALSE
    /\ UNCHANGED <<last, pc, ram, resets, here>>

-------------------------------------------------------------------------------
\* main()

\* net_prepare(), pigeon_init(), net_connect().
Start ==
    /\ pc = "start"
    /\ pc' = "poll"
    /\ UNCHANGED <<platform, ram, history>>

\* One of them fails: main() returns, and nothing tries again.
StartFails ==
    /\ pc = "start"
    /\ pc' = "ended"
    /\ UNCHANGED <<platform, ram, history>>

-------------------------------------------------------------------------------
\* shadow_sync(), called for ever.  A fetch that fails changes nothing.

Fetch ==
    /\ pc = "poll"
    /\ doc' = shadow
    /\ pc' = "telemetry"
    /\ UNCHANGED <<platform, current_config, log_level, reboot, poll_count, history>>

\* ++poll_count, as far as the bound.
Count == IF poll_count < MaxPolls THEN poll_count + 1 ELSE poll_count

\* Fault: a poll is only counted if the platform answered.
CountedIfAnswered == poll_count' \in {poll_count, Count}

\* The poll is counted before anything can fail.
Counted == poll_count' = Count

NothingToApply == doc.target_version = doc.current_version

AfterTelemetry ==
    /\ pc = "telemetry"
    /\ Counted
    /\ pc' = IF NothingToApply THEN "poll" ELSE "apply"
    /\ UNCHANGED <<shadow, doc, current_config, log_level, reboot, resets, rebooted>>

\* The flush gets through, answered or not.
TelemetryArrives ==
    /\ AfterTelemetry
    /\ last' = Count
    /\ here' = TRUE

\* Not queued, not sent or lost: a warning, and the pass goes on.
TelemetryLost ==
    /\ AfterTelemetry
    /\ UNCHANGED <<last, here>>

RejectConfig ==
    /\ pc = "apply"
    /\ doc.target_config = Malformed
    /\ pc' = "poll"
    /\ UNCHANGED <<platform, ram, history>>

\* Fault: the setting is compared after it was stored, so it never differs.
SetLogLevelNever(log) == UNCHANGED log_level

\* set_all_log_levels(), if the setting is another than before.
SetLogLevel(log) ==
    log_level' = IF log = current_config.log THEN log_level
                 ELSE IF log THEN "default" ELSE "none"

Apply ==
    LET target == doc.target_config
    IN  /\ pc = "apply"
        /\ target # Malformed
        /\ SetLogLevel(Keep(target.log, current_config.log))
        /\ current_config' = [log |-> Keep(target.log, current_config.log),
                               interval |-> Keep(target.interval, current_config.interval)]
        /\ reboot' = target.reboot
        /\ pc' = "report"
        /\ UNCHANGED <<platform, doc, poll_count, history>>

\* Faults: the version that is the target by now; the one that was current.
ReportVersionNow == shadow.target_version
ReportVersionOld == doc.current_version

\* Whatever was applied, although a newer target may be pending by now.
ReportVersion == doc.target_version

AfterReport ==
    /\ pc' = IF reboot THEN "reboot" ELSE "poll"
    /\ UNCHANGED <<last, ram, history>>

ReportStored ==
    /\ pc = "report"
    /\ shadow' = [shadow EXCEPT !.current_version = ReportVersion,
                                !.current_config = current_config]
    /\ AfterReport

\* Encoding failed or the request was lost: a warning, and the pass goes on.
ReportLost ==
    /\ pc = "report"
    /\ UNCHANGED shadow
    /\ AfterReport

\* net_disconnect(), then pigeon_reboot().
Reboot ==
    /\ pc = "reboot"
    /\ Boot
    /\ UNCHANGED <<platform, resets>>

\* Power is cut at any point (bound: MaxResets).
PowerCut ==
    /\ resets < MaxResets
    /\ Boot
    /\ resets' = resets + 1
    /\ UNCHANGED platform

Sync ==
    \/ Fetch
    \/ TelemetryArrives
    \/ TelemetryLost
    \/ RejectConfig
    \/ Apply
    \/ ReportStored
    \/ ReportLost
    \/ Reboot

Next == SetShadow \/ Start \/ StartFails \/ Sync \/ PowerCut

Spec == Init /\ [][Next]_vars

\* The thread runs on, and a report that is tried again and again gets through.
FairSpec ==
    /\ Spec
    /\ WF_vars(Start \/ StartFails \/ Sync)
    /\ SF_vars(ReportStored)

-------------------------------------------------------------------------------
\* Properties.

Shown == [log : BOOLEAN, interval : Intervals]

Shadow ==
    [target_version : Versions, current_version : Versions,
     target_config : Config \cup {Malformed}, current_config : Shown]

\* The variables hold what the declarations above say.
TypeOK ==
    /\ shadow \in Shadow
    /\ last \in 0..MaxPolls
    /\ pc \in {"start", "ended", "poll", "telemetry", "apply", "report", "reboot"}
    /\ doc \in Shadow \cup {NoDoc}
    /\ current_config \in Shown
    /\ log_level \in {"build", "default", "none"}
    /\ reboot \in BOOLEAN
    /\ poll_count \in 0..MaxPolls
    /\ resets \in 0..MaxResets
    /\ rebooted \in BOOLEAN
    /\ here \in BOOLEAN

Agreement ==
    {p \in Config \X Shown :
        /\ p[2].log = Keep(p[1].log, p[2].log)
        /\ p[2].interval = Keep(p[1].interval, p[2].interval)}

Promise == INSTANCE ShadowPromise WITH
    Targets <- Config \cup {Malformed},
    Settings <- Shown,
    Commands <- {c \in Config : c.reboot},
    Agreement <- Agreement,
    target <- [version |-> shadow.target_version, config |-> shadow.target_config],
    current <- [version |-> shadow.current_version, settings |-> shadow.current_config],
    obeyed <- rebooted \/ pc = "reboot"

(* Writes that land anywhere in a pass, lost reports and power cuts leave  *)
(* the promise of a shadow kept, although a report goes out even if a      *)
(* newer target is pending (shadow.c:139-140).                             *)
ImplementsPromise == Promise!Spec

(* The log does what the applied setting says, over any sequence of        *)
(* targets with and without the key; only a setting nobody ever changed in *)
(* this boot leaves the log as it was built.                               *)
OutputFollows ==
    \/ log_level = IF current_config.log THEN "default" ELSE "none"
    \/ log_level = "build" /\ ~current_config.log

(* shadow.c:48-49: poll_count doubles as a reboot indicator.  It gives no  *)
(* false alarm: in one boot the counts that arrive go up, whatever is lost *)
(* on the way there or back.                                               *)
NoFalseReboot ==
    [][TelemetryArrives /\ here /\ last < MaxPolls => last' > last]_vars

(* The last target written, if it parses, is converged to in the end,      *)
(* unless main() has returned.                                             *)
Settles ==
    shadow.target_version = MaxVersion /\ shadow.target_config # Malformed
        ~> shadow.current_version = MaxVersion \/ pc = "ended"

\* A reboot command is not run on every poll (shadow.c:159-160): reboots cease.
RebootsCease == <>[](pc # "reboot")
===============================================================================
