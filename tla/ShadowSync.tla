------------------------------ MODULE ShadowSync ------------------------------
(***************************************************************************)
(* One pigeon polling its device shadow, applying it and updating its own  *)
(* firmware: shadow_sync() and shadow_loop() of samples/https_init, and of *)
(* samples/wifi_init, whose shadow.c is the same program.  With Fota FALSE *)
(* it is the build without CONFIG_PIGEON_FOTA, which is also what          *)
(* coap_dtls_init and coap_tcp_init run.                                   *)
(*                                                                         *)
(* The device is one thread; everything else happens to it.  The dashboard *)
(* writes new targets between any two of its steps, requests and answers   *)
(* are lost, power goes at any point, and what survives a boot is the      *)
(* flash: MCUboot's two slots and the attempt budget the library keeps in  *)
(* settings.  A fetch that fails leaves nothing behind, so it is a         *)
(* stuttering step and not an action.                                      *)
(***************************************************************************)
EXTENDS Integers

CONSTANTS
    Absent,        \* a key the target does not carry
    Malformed,     \* a target_config that does not parse
    NoDoc,         \* no shadow fetched in this boot
    NoImage,       \* an empty or half-written slot
    Images,        \* firmware images, each named by the version it is uploaded under
    FirstImage,    \* the image flashed on the bench
    Signed,        \* images signed with the key this bootloader trusts
    Healthy,       \* images that get as far as a successful fetch
    Baked,         \* CONFIG_PIGEON_FOTA_CURRENT_VERSION of each image
    Intervals,     \* telemetry_interval values
    DefaultInterval,
    Configs,       \* the target configurations the dashboard may write
    Fota,          \* the build has CONFIG_PIGEON_FOTA
    SwapRevert,    \* MCUboot swaps and can revert (nRF91); FALSE overwrites (ESP32-C6)
    ConfirmMayFail,\* marking the running image good can fail
    Budget,        \* attempts the library allows for one target_version
    MaxVersion,    \* bound: dashboard writes
    MaxResets      \* bound: power cuts under a healthy image

Config ==
    [log : BOOLEAN \cup {Absent}, interval : Intervals \cup {Absent},
     reboot : BOOLEAN, firmware : Images \cup {Absent}]

EmptyConfig ==
    [log |-> Absent, interval |-> Absent, reboot |-> FALSE, firmware |-> Absent]

ASSUME ImagesAssumption ==
    /\ FirstImage \in Signed \cap Healthy
    /\ Signed \subseteq Images /\ Healthy \subseteq Images
    /\ Baked \in [Images -> Images]
    /\ NoImage \notin Images /\ Absent \notin Images

ASSUME ConfigAssumption ==
    /\ Absent \notin BOOLEAN /\ Absent \notin Intervals
    /\ DefaultInterval \in Intervals
    /\ Malformed \notin Config
    /\ Configs \subseteq Config \cup {Malformed}

ASSUME BuildAssumption ==
    /\ Fota \in BOOLEAN /\ SwapRevert \in BOOLEAN /\ ConfirmMayFail \in BOOLEAN
    /\ Budget \in Nat /\ MaxVersion \in Nat /\ MaxResets \in Nat

VARIABLES
    shadow,         \* platform: the shadow of this pigeon
    flash,          \* device, persistent: slots, swap state, attempt budget
    pc,             \* device: where the polling thread is
    doc,            \* device, RAM: the last shadow fetched
    current_config, \* device, RAM: what is applied
    target,         \* device, RAM: reboot and firmware of the target being applied
    firmware,       \* device, RAM: "met", "unconverged" or "applied" for this pass
    resets,         \* history: power cuts so far
    rebooted,       \* history: booted since the present target was written
    obeyed,         \* history: <<version, the report before it was stored>> of obeyed reboots
    downloads       \* history: pigeon_fota_apply() calls per target_version

platform == <<shadow>>
ram == <<doc, current_config, target, firmware>>
history == <<resets, rebooted, obeyed, downloads>>
vars == <<shadow, flash, pc, ram, history>>

Versions == 0..MaxVersion

Keep(value, old) == IF value = Absent THEN old ELSE value

-------------------------------------------------------------------------------
\* Power-on: RAM at its initialisers, whatever the flash holds.

DefaultConfig == [log |-> FALSE, interval |-> DefaultInterval]

NoTarget == [reboot |-> FALSE, firmware |-> NoImage]

BootRam ==
    /\ doc' = NoDoc
    /\ current_config' = DefaultConfig
    /\ target' = NoTarget
    /\ firmware' = "met"

(* MCUboot: a pending test swap is carried out if the image verifies and   *)
(* dropped if not; an image nobody confirmed is swapped back, as long as   *)
(* the slot it came from still holds the one before it.                    *)
Bootloader(f) ==
    CASE f.pending /\ f.secondary \in Signed ->
            [f EXCEPT !.primary = f.secondary, !.pending = FALSE, !.confirmed = FALSE,
                      !.secondary = IF SwapRevert THEN f.primary ELSE NoImage]
      [] f.pending /\ f.secondary \notin Signed ->
            [f EXCEPT !.pending = FALSE, !.secondary = NoImage]
      [] ~f.pending /\ ~f.confirmed /\ f.secondary # NoImage ->
            [f EXCEPT !.primary = f.secondary, !.secondary = f.primary, !.confirmed = TRUE]
      [] OTHER -> f

\* Fault: the attempt record is lost over a boot.
BootForgets ==
    /\ flash' = [Bootloader(flash) EXCEPT !.attempts = [version |-> 0, count |-> 0]]
    /\ BootRam
    /\ pc' = "poll"
    /\ rebooted' = TRUE

Boot ==
    /\ flash' = Bootloader(flash)
    /\ BootRam
    /\ pc' = "poll"
    /\ rebooted' = TRUE

NoAttempts == [version |-> 0, count |-> 0]

\* A pigeon as provisioned: nothing asked of it yet, so converged at version 0.
Init ==
    /\ shadow = [target_version |-> 0, current_version |-> 0,
                 target_config |-> EmptyConfig,
                 current_config |-> [log |-> FALSE, interval |-> DefaultInterval,
                                     firmware |-> Baked[FirstImage]]]
    /\ flash = [primary |-> FirstImage, secondary |-> NoImage, pending |-> FALSE,
                confirmed |-> TRUE, attempts |-> NoAttempts]
    /\ pc = "poll"
    /\ doc = NoDoc
    /\ current_config = DefaultConfig
    /\ target = NoTarget
    /\ firmware = "met"
    /\ resets = 0
    /\ rebooted = TRUE
    /\ obeyed = {}
    /\ downloads = [v \in Versions |-> 0]

-------------------------------------------------------------------------------
\* The platform.

\* The dashboard writes a new target, at a new version (bound: MaxVersion).
SetShadow ==
    /\ shadow.target_version < MaxVersion
    /\ \E c \in Configs :
         shadow' = [shadow EXCEPT !.target_version = @ + 1, !.target_config = c]
    /\ rebooted' = FALSE
    /\ UNCHANGED <<flash, pc, ram, resets, obeyed, downloads>>

\* A report that arrives: the platform takes the version and config as they are.
Converge(version, config) ==
    shadow' = [shadow EXCEPT !.current_version = version, !.current_config = config]

-------------------------------------------------------------------------------
\* The device: one pass of shadow_sync().

Running == Baked[flash.primary]

\* Fault: the running image is never marked good.
ConfirmBootNever == UNCHANGED flash

\* pigeon_fota_confirm_boot(), whose result the caller does not look at.
ConfirmBoot ==
    \E ok \in IF ConfirmMayFail THEN BOOLEAN ELSE {TRUE} :
        flash' = [flash EXCEPT !.confirmed = @ \/ (Fota /\ ok)]

Fetch ==
    /\ pc = "poll"
    /\ flash.primary \in Healthy
    /\ doc' = shadow
    /\ ConfirmBoot
    /\ pc' = IF shadow.target_version = shadow.current_version THEN "poll" ELSE "apply"
    /\ UNCHANGED <<shadow, current_config, target, firmware, history>>

\* A target that does not parse ends the pass: nothing applied, nothing reported.
RejectConfig ==
    /\ pc = "apply"
    /\ doc.target_config = Malformed
    /\ pc' = "poll"
    /\ UNCHANGED <<shadow, flash, ram, history>>

ApplyConfig ==
    LET cfg == doc.target_config
    IN  /\ pc = "apply"
        /\ cfg # Malformed
        /\ current_config' = [log |-> Keep(cfg.log, current_config.log),
                               interval |-> Keep(cfg.interval, current_config.interval)]
        /\ target' = [reboot |-> cfg.reboot, firmware |-> cfg.firmware]

\* pigeon_fota_update_available(): the offered version against the compiled-in one.
UpdateAvailable == Fota /\ Keep(doc.target_config.firmware, Running) # Running

Attempts(version) ==
    IF flash.attempts.version = version THEN flash.attempts.count ELSE 0

\* pigeon_fota_attempt_allowed(): the budget is keyed on target_version.
AttemptAllowed == Attempts(doc.target_version) < Budget

ApplyUpToDate ==
    /\ ApplyConfig
    /\ ~UpdateAvailable
    /\ flash' = IF Fota THEN [flash EXCEPT !.attempts = NoAttempts] ELSE flash
    /\ firmware' = "met"
    /\ pc' = "report"
    /\ UNCHANGED <<shadow, doc, history>>

ApplyRefused ==
    /\ ApplyConfig
    /\ UpdateAvailable
    /\ ~AttemptAllowed
    /\ firmware' = "unconverged"
    /\ pc' = "report"
    /\ UNCHANGED <<shadow, flash, doc, history>>

\* The attempt is charged before the download starts, which erases the second slot.
ApplyStartsDownload ==
    /\ ApplyConfig
    /\ UpdateAvailable
    /\ AttemptAllowed
    /\ flash' = [flash EXCEPT
                   !.secondary = NoImage,
                   !.attempts = [version |-> doc.target_version,
                                 count |-> Attempts(doc.target_version) + 1]]
    /\ downloads' = [downloads EXCEPT ![doc.target_version] = @ + 1]
    /\ firmware' = "unconverged"
    /\ pc' = "download"
    /\ UNCHANGED <<shadow, doc, resets, rebooted, obeyed>>

DownloadFails ==
    /\ pc = "download"
    /\ pc' = "report"
    /\ UNCHANGED <<shadow, flash, ram, history>>

\* Downloaded, hash verified, staged, test swap requested.
DownloadStages ==
    /\ pc = "download"
    /\ flash' = [flash EXCEPT !.secondary = target.firmware, !.pending = TRUE]
    /\ firmware' = "applied"
    /\ pc' = "report"
    /\ UNCHANGED <<shadow, doc, current_config, target, history>>

\* Faults: staged is reported as converged; converged is not reported.
ReportVersionEager == doc.target_version
ReportVersionHeld == doc.current_version

ReportVersion ==
    IF firmware = "met" THEN doc.target_version ELSE doc.current_version

Reported ==
    [log |-> current_config.log, interval |-> current_config.interval, firmware |-> Running]

\* Fault: no deferral.
ObeysRebootNow == target.reboot

\* Fault: only the pass that updates reboots.
ObeysRebootOnUpdate == target.reboot /\ firmware = "applied"

\* A reboot command is put off until the firmware target resolves.
ObeysReboot == target.reboot /\ firmware = "met"

AfterReport(stored) ==
    /\ pc' = IF ObeysReboot \/ firmware = "applied" THEN "reboot" ELSE "poll"
    /\ obeyed' = IF ObeysReboot THEN obeyed \cup {<<doc.target_version, stored>>} ELSE obeyed
    /\ UNCHANGED <<flash, ram, resets, rebooted, downloads>>

ReportStored ==
    /\ pc = "report"
    /\ Converge(ReportVersion, Reported)
    /\ AfterReport(TRUE)

\* Encoding failed or the request was lost: a warning, and the pass goes on.
ReportLost ==
    /\ pc = "report"
    /\ UNCHANGED shadow
    /\ AfterReport(FALSE)

\* net_disconnect(), then pigeon_reboot().
Reboot ==
    /\ pc = "reboot"
    /\ Boot
    /\ UNCHANGED <<shadow, resets, obeyed, downloads>>

\* Power is cut at any point of the pass (bound: MaxResets).
PowerCut ==
    /\ resets < MaxResets
    /\ Boot
    /\ resets' = resets + 1
    /\ UNCHANGED <<shadow, obeyed, downloads>>

(* An image that never reaches a fetch may crash, or be reset by whoever   *)
(* notices.  The programs do not see to it: one that cannot join returns   *)
(* from main(), one whose token was rotated polls on.                      *)
UnhealthyReset ==
    /\ flash.primary \notin Healthy
    /\ Boot
    /\ UNCHANGED <<shadow, resets, obeyed, downloads>>

Sync ==
    \/ Fetch
    \/ RejectConfig
    \/ ApplyUpToDate
    \/ ApplyRefused
    \/ ApplyStartsDownload
    \/ DownloadFails
    \/ DownloadStages
    \/ ReportStored
    \/ ReportLost
    \/ Reboot

Next == SetShadow \/ Sync \/ PowerCut \/ UnhealthyReset

Spec == Init /\ [][Next]_vars

(* The polling thread always runs on, a fetch that is retried gets through *)
(* in the end, and so does a report: strong fairness, since each may fail  *)
(* any number of times first.  Nothing is assumed of downloads, nor that   *)
(* anyone resets an image that never reaches a fetch.                      *)
FairSpec ==
    /\ Spec
    /\ WF_vars(Sync)
    /\ SF_vars(ReportStored)

-------------------------------------------------------------------------------
\* Properties.

Shown == [log : BOOLEAN, interval : Intervals, firmware : Images]

Shadow ==
    [target_version : Versions, current_version : Versions,
     target_config : Config \cup {Malformed}, current_config : Shown]

Flash ==
    [primary : Images, secondary : Images \cup {NoImage}, pending : BOOLEAN,
     confirmed : BOOLEAN, attempts : [version : Versions, count : 0..Budget]]

\* The variables hold what the declarations above say.
TypeOK ==
    /\ shadow \in Shadow
    /\ flash \in Flash
    /\ pc \in {"poll", "apply", "download", "report", "reboot"}
    /\ doc \in Shadow \cup {NoDoc}
    /\ current_config \in [log : BOOLEAN, interval : Intervals]
    /\ target \in [reboot : BOOLEAN, firmware : Images \cup {NoImage, Absent}]
    /\ firmware \in {"met", "unconverged", "applied"}
    /\ resets \in 0..MaxResets
    /\ rebooted \in BOOLEAN
    /\ obeyed \subseteq Versions \X BOOLEAN
    /\ downloads \in [Versions -> Nat]

Converged == shadow.current_version = shadow.target_version

Wanted == shadow.target_config

(* docs/firmware-updates.md, "Convergence means booted, not staged": when  *)
(* the platform shows a shadow that names a firmware version as converged, *)
(* the device runs an image of that version, has marked it good, and will  *)
(* still run it after any reset.                                           *)
ConvergedMeansBooted ==
    Converged /\ Wanted # Malformed /\ Wanted.firmware # Absent =>
        /\ Running = Wanted.firmware
        /\ Bootloader(flash) = flash

(* What the platform shows as current agrees with a converged target on    *)
(* every key the target carries, whichever writes raced the report.        *)
ConvergedMeansReported ==
    Converged /\ Wanted # Malformed =>
        /\ shadow.current_config.log = Keep(Wanted.log, shadow.current_config.log)
        /\ shadow.current_config.interval =
             Keep(Wanted.interval, shadow.current_config.interval)

(* With a swapping bootloader no sequence of updates loses the way back:   *)
(* either the image that boots next is confirmed and reaches the platform, *)
(* or the image a reset reverts to does.                                   *)
Recoverable ==
    \/ flash.confirmed /\ flash.primary \in Healthy
    \/ ~flash.pending /\ ~flash.confirmed /\ flash.secondary \in Healthy

(* The attempt budget really bounds the downloads of one target, over      *)
(* resets, reverts, lost reports and the clearing of the record.           *)
DownloadsWithinBudget == \A v \in Versions : downloads[v] <= Budget

(* Convergence is the only record of a reboot command, so a command the    *)
(* platform shows as carried out has been, or is about to be.              *)
RecordedRebootHappens ==
    Converged /\ Wanted # Malformed /\ Wanted.reboot => rebooted \/ pc = "reboot"

Obeys(v) == pc = "report" /\ pc' = "reboot" /\ ObeysReboot /\ doc.target_version = v

(* Once the report of the pass that obeyed it is stored, a reboot command  *)
(* is never obeyed again, firmware updates in the same target included.    *)
RecordedRebootOnce ==
    [][\A v \in Versions : Obeys(v) => <<v, TRUE>> \notin obeyed]_vars

Attainable(cfg) ==
    /\ cfg # Malformed
    /\ cfg.firmware # Absent =>
          cfg.firmware \in Signed \cap Healthy /\ Baked[cfg.firmware] = cfg.firmware

CommandTargets == {c \in Config : c.reboot}

\* Settings that carry a target out: every key it has, and the image only with Fota.
Agreement ==
    {p \in Config \X Shown :
        /\ p[2].log = Keep(p[1].log, p[2].log)
        /\ p[2].interval = Keep(p[1].interval, p[2].interval)
        /\ Fota => p[2].firmware = Keep(p[1].firmware, p[2].firmware)}

Promise == INSTANCE ShadowPromise WITH
    Targets <- Config \cup {Malformed},
    Settings <- Shown,
    Commands <- CommandTargets,
    Agreement <- Agreement,
    target <- [version |-> shadow.target_version, config |-> shadow.target_config],
    current <- [version |-> shadow.current_version, settings |-> shadow.current_config],
    obeyed <- rebooted \/ pc = "reboot"

(* Polls, downloads, swaps, crashes and lost reports included, the device  *)
(* does nothing to a shadow that a shadow does not promise: reports never  *)
(* go back or run ahead, and the last one says what was asked for is done. *)
ImplementsPromise == Promise!Spec

(* The last target written, if the device can meet it, is converged to in  *)
(* the end, unless as many downloads failed as the budget allows, or the   *)
(* device stays for ever in an image that never reaches the platform:      *)
(* firmware-updates.md reverts such an image at the next reset, but no     *)
(* watchdog of these samples makes one come.                               *)
Settles ==
    []<>(flash.primary \in Healthy) =>
        (shadow.target_version = MaxVersion /\ Attainable(Wanted)
            ~> \/ shadow.current_version = MaxVersion
               \/ downloads[MaxVersion] = Budget)

(* An image that cannot be met does not keep the device busy: downloads    *)
(* and reboots stop, whatever the targets asked for.                       *)
EventuallyQuiet == <>[](pc \notin {"download", "reboot"})

-------------------------------------------------------------------------------
\* What comments and documents say and the program does not do.

\* A pass over the present target has ended in this boot, and it is converged.
Synced ==
    /\ pc = "poll" /\ doc # NoDoc /\ Converged /\ Wanted # Malformed
    /\ doc.target_version = shadow.target_version

(* shadow.c:44-45: nothing persists across reboots, so every boot          *)
(* re-applies the platform's target.                                       *)
BootReapplies ==
    Synced =>
        /\ current_config.log = Keep(Wanted.log, current_config.log)
        /\ current_config.interval = Keep(Wanted.interval, current_config.interval)
===============================================================================
