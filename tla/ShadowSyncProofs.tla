--------------------------- MODULE ShadowSyncProofs ---------------------------
(***************************************************************************)
(* Theorems about ShadowSync, for every set of images and configurations,  *)
(* every budget and any number of writes and resets.                       *)
(***************************************************************************)
EXTENDS ShadowSync, TLAPS

\* A pass is under way, on a document fetched in this boot.
InPass == pc \in {"apply", "download", "report"}

FetchedInv ==
    /\ InPass => doc \in Shadow
    /\ pc = "download" => target.firmware \in Images

TypeInv == TypeOK /\ FetchedInv

(* The version of a pass: only the device moves current_version, versions  *)
(* only grow, and a version names one configuration.                       *)
PassInv ==
    /\ shadow.current_version <= shadow.target_version
    /\ InPass =>
        /\ doc.current_version = shadow.current_version
        /\ doc.current_version < doc.target_version
        /\ doc.target_version <= shadow.target_version
        /\ doc.target_version = shadow.target_version =>
             doc.target_config = shadow.target_config

\* What makes a running image the one that stays: confirmation, or nothing to go back to.
ImagesStay == SwapRevert => ~ConfirmMayFail

\* Nothing the bootloader would swap in or back.
Settled(f) == ~f.pending /\ (f.confirmed \/ f.secondary = NoImage)

(* Only an image that has fetched goes further than "poll", and from there *)
(* on it stays; a swap is pending only from staging to the boot; and a     *)
(* bootloader that overwrites keeps no image it is not about to install.   *)
FlashInv ==
    /\ pc # "poll" /\ ~flash.pending => Settled(flash)
    /\ ~flash.confirmed => pc = "poll" \/ ConfirmMayFail
    /\ flash.pending => pc \in {"report", "reboot"} /\ firmware = "applied"
    /\ ~SwapRevert /\ flash.secondary # NoImage => flash.pending

\* What is about to be reported at the target's version is what runs.
MetInv ==
    /\ pc = "download" => firmware = "unconverged"
    /\ pc = "report" /\ firmware = "met" =>
        /\ doc.target_config # Malformed
        /\ Fota => doc.target_config.firmware \in {Absent, Running}

\* A build without updates never touches its flash.
PlainInv ==
    /\ flash.primary = FirstImage /\ flash.confirmed /\ ~flash.pending
    /\ pc # "download"
    /\ downloads = [v \in Versions |-> 0]

BootedInv == PassInv /\ FlashInv /\ MetInv /\ ConvergedMeansBooted

(* What has been applied since the fetch is what the document asked for,   *)
(* and an obeyed command whose report was stored is behind the platform's  *)
(* current version.                                                        *)
AppliedInv ==
    /\ pc \in {"download", "report"} =>
        /\ doc.target_config # Malformed
        /\ target.reboot = doc.target_config.reboot
        /\ current_config.log = Keep(doc.target_config.log, current_config.log)
        /\ current_config.interval = Keep(doc.target_config.interval, current_config.interval)
    /\ \A v \in Versions : <<v, TRUE>> \in obeyed => v <= shadow.current_version

RecordInv == PassInv /\ AppliedInv /\ RecordedRebootHappens /\ ConvergedMeansReported

(* Past "poll" the running image is one that fetched; before its first     *)
(* fetch the image it replaced, which did, is in the other slot.           *)
RecoverInv ==
    /\ pc # "poll" => flash.primary \in Healthy
    /\ Recoverable

(* A version that was downloaded for is not behind any pass; either its    *)
(* attempts are on record, or nothing can download for it again: it has    *)
(* been superseded, or it is met and will be after any reset.              *)
Closed(v) ==
    /\ v = shadow.target_version =>
        /\ Wanted # Malformed /\ Wanted.firmware \in {Absent, Running}
        /\ Settled(flash)
    /\ InPass /\ doc.target_version = v =>
        /\ doc.target_config # Malformed
        /\ doc.target_config.firmware \in {Absent, Running}
        /\ pc # "download"

BudgetInv ==
    \A v \in Versions : downloads[v] # 0 =>
        /\ v <= shadow.target_version
        /\ InPass => v <= doc.target_version
        /\ downloads[v] <= Budget
        /\ \/ flash.attempts.version = v /\ downloads[v] <= flash.attempts.count
           \/ Closed(v)

-------------------------------------------------------------------------------
\* The bootloader leaves slots that hold images, and nothing pending.
LEMMA BootloaderSettles ==
    ASSUME NEW f \in Flash
    PROVE  Bootloader(f) \in Flash /\ ~Bootloader(f).pending
<1>1. CASE f.pending /\ f.secondary \in Signed
  BY <1>1, ImagesAssumption DEF Bootloader, Flash
<1>2. CASE f.pending /\ f.secondary \notin Signed
  BY <1>2 DEF Bootloader, Flash
<1>3. CASE ~f.pending /\ ~f.confirmed /\ f.secondary # NoImage
  BY <1>3 DEF Bootloader, Flash
<1>4. CASE ~f.pending /\ (f.confirmed \/ f.secondary = NoImage)
  BY <1>4 DEF Bootloader, Flash
<1> QED BY <1>1, <1>2, <1>3, <1>4 DEF Flash

\* After a boot RAM is typed, and no pass is under way.
LEMMA BootType ==
    ASSUME TypeInv, Boot
    PROVE  /\ flash' \in Flash /\ ~flash'.pending
           /\ pc' = "poll" /\ doc' = NoDoc /\ rebooted' = TRUE
           /\ current_config' \in [log : BOOLEAN, interval : Intervals]
           /\ target' \in [reboot : BOOLEAN, firmware : Images \cup {NoImage, Absent}]
           /\ firmware' \in {"met", "unconverged", "applied"}
  BY BootloaderSettles, ConfigAssumption
  DEF TypeInv, TypeOK, Boot, BootRam, DefaultConfig, NoTarget

\* A configuration that parses is applied to typed RAM.
LEMMA ApplyConfigType ==
    ASSUME TypeInv, ApplyConfig
    PROVE  /\ doc \in Shadow /\ doc.target_config \in Config
           /\ current_config' \in [log : BOOLEAN, interval : Intervals]
           /\ target' \in [reboot : BOOLEAN, firmware : Images \cup {NoImage, Absent}]
  BY DEF TypeInv, TypeOK, FetchedInv, InPass, ApplyConfig, Keep, Shadow, Config

\* Init satisfies the type invariant.
LEMMA InitType == Init => TypeInv
  BY ImagesAssumption, ConfigAssumption, BuildAssumption
  DEF Init, TypeInv, TypeOK, FetchedInv, InPass, Shadow, Shown, Flash, Versions, Config, EmptyConfig,
      NoAttempts, DefaultConfig, NoTarget

\* Every step keeps the type invariant.
LEMMA NextType == TypeInv /\ [Next]_vars => TypeInv'
<1> SUFFICES ASSUME TypeInv, [Next]_vars PROVE TypeInv'
  OBVIOUS
<1> USE DEF TypeInv, TypeOK, FetchedInv, InPass
<1>1. CASE SetShadow
  <2>1. PICK c \in Configs :
          shadow' = [shadow EXCEPT !.target_version = @ + 1, !.target_config = c]
    BY <1>1 DEF SetShadow
  <2>2. shadow.target_version + 1 \in Versions
    BY <1>1, BuildAssumption DEF SetShadow, Shadow, Versions
  <2>3. shadow' \in Shadow
    BY <2>1, <2>2, ConfigAssumption DEF Shadow
  <2> QED BY <1>1, <2>3 DEF SetShadow, ram
<1>2. CASE Fetch
  <2>1. flash' \in Flash
    BY <1>2, BuildAssumption DEF Fetch, ConfirmBoot, Flash
  <2> QED BY <1>2, <2>1 DEF Fetch, history
<1>3. CASE RejectConfig
  BY <1>3 DEF RejectConfig, ram, history
<1>4. CASE ApplyUpToDate
  <2>1. NoAttempts \in [version : Versions, count : 0..Budget]
    BY BuildAssumption DEF NoAttempts, Versions
  <2>2. [flash EXCEPT !.attempts = NoAttempts] \in Flash
    BY <2>1 DEF Flash
  <2>3. flash' \in Flash
    BY <1>4, <2>2 DEF ApplyUpToDate
  <2> QED BY <1>4, <2>3, ApplyConfigType DEF ApplyUpToDate, history
<1>5. CASE ApplyRefused
  BY <1>5, ApplyConfigType DEF ApplyRefused, history
<1>6. CASE ApplyStartsDownload
  <2>1. doc.target_version \in Versions
    BY <1>6, ApplyConfigType DEF ApplyStartsDownload, Shadow
  <2> DEFINE count == Attempts(doc.target_version)
  <2>2. flash.attempts.count \in 0..Budget
    BY DEF Flash
  <2>3. count \in 0..Budget
    BY <2>2, BuildAssumption DEF Attempts
  <2>4. count + 1 \in 0..Budget
    BY <1>6, <2>3, BuildAssumption DEF ApplyStartsDownload, AttemptAllowed
  <2>5. [version |-> doc.target_version, count |-> count + 1]
          \in [version : Versions, count : 0..Budget]
    BY <2>1, <2>4
  <2>6. flash' \in Flash
    BY <1>6, <2>5 DEF ApplyStartsDownload, Flash
  <2>7. target'.firmware \in Images
    BY <1>6, ApplyConfigType
    DEF ApplyStartsDownload, ApplyConfig, UpdateAvailable, Keep, Config
  <2>8. downloads' \in [Versions -> Nat]
    BY <1>6, <2>1 DEF ApplyStartsDownload
  <2> QED BY <1>6, <2>6, <2>7, <2>8, ApplyConfigType DEF ApplyStartsDownload
<1>7. CASE DownloadFails
  BY <1>7 DEF DownloadFails, ram, history
<1>8. CASE DownloadStages
  <2>1. flash' \in Flash
    BY <1>8 DEF DownloadStages, Flash
  <2> QED BY <1>8, <2>1 DEF DownloadStages, history
<1>9. CASE ReportStored
  <2>1. shadow' \in Shadow
    BY <1>9, ImagesAssumption
    DEF ReportStored, Converge, ReportVersion, Reported, Running, Shadow, Shown, Flash
  <2>2. obeyed' \subseteq Versions \X BOOLEAN
    <3>1. <<doc.target_version, TRUE>> \in Versions \X BOOLEAN
      BY <1>9 DEF ReportStored, Shadow
    <3> QED BY <1>9, <3>1 DEF ReportStored, AfterReport
  <2> QED BY <1>9, <2>1, <2>2 DEF ReportStored, AfterReport, ram
<1>10. CASE ReportLost
  <2>1. obeyed' \subseteq Versions \X BOOLEAN
    <3>1. <<doc.target_version, FALSE>> \in Versions \X BOOLEAN
      BY <1>10 DEF ReportLost, Shadow
    <3> QED BY <1>10, <3>1 DEF ReportLost, AfterReport
  <2> QED BY <1>10, <2>1 DEF ReportLost, AfterReport, ram
<1>11. CASE Reboot
  BY <1>11, BootType DEF Reboot
<1>12. CASE PowerCut
  <2>1. resets' \in 0..MaxResets
    BY <1>12, BuildAssumption DEF PowerCut
  <2> QED BY <1>12, <2>1, BootType DEF PowerCut
<1>13. CASE UnhealthyReset
  BY <1>13, BootType DEF UnhealthyReset
<1>14. CASE UNCHANGED vars
  BY <1>14 DEF vars, ram, history
<1> QED
  BY <1>1, <1>2, <1>3, <1>4, <1>5, <1>6, <1>7, <1>8, <1>9, <1>10, <1>11, <1>12, <1>13, <1>14
  DEF Next, Sync

(* Every reachable state is typed: the shadow, the flash and the RAM hold  *)
(* what the code's declarations allow, and the attempt count never leaves  *)
(* 0..Budget.                                                              *)
THEOREM TypeCorrect == Spec => []TypeOK
<1>1. Spec => []TypeInv
  BY InitType, NextType, PTL DEF Spec
<1>2. TypeInv => TypeOK
  BY DEF TypeInv
<1> QED BY <1>1, <1>2, PTL

-------------------------------------------------------------------------------
\* A fetch leaves the version order of a pass behind it; every step keeps it.
LEMMA NextPass == TypeInv /\ PassInv /\ [Next]_vars => PassInv'
<1> SUFFICES ASSUME TypeInv, PassInv, [Next]_vars PROVE PassInv'
  OBVIOUS
<1>0. /\ shadow \in Shadow
      /\ InPass => doc \in Shadow
      /\ shadow.target_version \in Nat /\ shadow.current_version \in Nat
      /\ InPass => doc.target_version \in Nat /\ doc.current_version \in Nat
  BY BuildAssumption DEF TypeInv, TypeOK, FetchedInv, Shadow, Versions
<1> USE <1>0 DEF PassInv, InPass
<1>1. CASE SetShadow
  <2>1. PICK c \in Configs :
          shadow' = [shadow EXCEPT !.target_version = @ + 1, !.target_config = c]
    BY <1>1 DEF SetShadow
  <2>2. /\ shadow'.target_version = shadow.target_version + 1
        /\ shadow'.current_version = shadow.current_version
    BY <2>1 DEF Shadow
  <2> QED BY <1>1, <2>2 DEF SetShadow, ram
<1>2. CASE Fetch
  BY <1>2 DEF Fetch
<1>3. CASE RejectConfig
  BY <1>3 DEF RejectConfig
<1>4. CASE ApplyUpToDate
  BY <1>4 DEF ApplyUpToDate, ApplyConfig
<1>5. CASE ApplyRefused
  BY <1>5 DEF ApplyRefused, ApplyConfig
<1>6. CASE ApplyStartsDownload
  BY <1>6 DEF ApplyStartsDownload, ApplyConfig
<1>7. CASE DownloadFails
  BY <1>7 DEF DownloadFails, ram
<1>8. CASE DownloadStages
  BY <1>8 DEF DownloadStages
<1>9. CASE ReportStored
  <2>1. /\ shadow'.target_version = shadow.target_version
        /\ shadow'.current_version = ReportVersion
    BY <1>9 DEF ReportStored, Converge, Shadow
  <2>2. pc' \in {"reboot", "poll"}
    BY <1>9 DEF ReportStored, AfterReport
  <2> QED BY <1>9, <2>1, <2>2 DEF ReportStored, ReportVersion
<1>10. CASE ReportLost
  BY <1>10 DEF ReportLost, AfterReport
<1>11. CASE Reboot \/ PowerCut \/ UnhealthyReset
  BY <1>11 DEF Reboot, PowerCut, UnhealthyReset, Boot
<1>12. CASE UNCHANGED vars
  BY <1>12 DEF vars, ram
<1> QED
  BY <1>1, <1>2, <1>3, <1>4, <1>5, <1>6, <1>7, <1>8, <1>9, <1>10, <1>11, <1>12
  DEF Next, Sync

\* The bootloader leaves a flash alone exactly if it is settled.
LEMMA AtRest ==
    ASSUME NEW f \in Flash
    PROVE  Bootloader(f) = f <=> Settled(f)
<1>1. Settled(f) => Bootloader(f) = f
  BY DEF Bootloader, Flash, Settled
<1>2. Bootloader(f) = f => ~f.pending
  BY BootloaderSettles
<1>3. ~f.pending /\ ~f.confirmed /\ f.secondary # NoImage => Bootloader(f).confirmed
  BY DEF Bootloader, Flash
<1> QED BY <1>1, <1>2, <1>3 DEF Settled

\* An image that has fetched stays, if it can be confirmed or has replaced the other one.
LEMMA NextFlash ==
    ASSUME Fota, ImagesStay
    PROVE  TypeInv /\ FlashInv /\ [Next]_vars => FlashInv'
<1> SUFFICES ASSUME TypeInv, FlashInv, [Next]_vars PROVE FlashInv'
  OBVIOUS
<1>0. flash \in Flash
  BY DEF TypeInv, TypeOK
<1> USE <1>0 DEF FlashInv, Settled
<1>1. CASE SetShadow
  BY <1>1 DEF SetShadow, ram
<1>2. CASE Fetch
  <2>1. PICK ok \in BOOLEAN :
          /\ ~ConfirmMayFail => ok
          /\ flash' = [flash EXCEPT !.confirmed = @ \/ (Fota /\ ok)]
    BY <1>2 DEF Fetch, ConfirmBoot
  <2>2. /\ flash'.confirmed = (flash.confirmed \/ ok) /\ flash'.pending = flash.pending
        /\ flash'.secondary = flash.secondary
    BY <2>1 DEF Flash
  <2>3. ~flash.pending
    BY <1>2 DEF Fetch
  <2> QED BY <1>2, <2>1, <2>2, <2>3 DEF Fetch, ImagesStay
<1>3. CASE RejectConfig
  BY <1>3 DEF RejectConfig, ram
<1>4. CASE ApplyUpToDate
  BY <1>4 DEF ApplyUpToDate, ApplyConfig, Flash
<1>5. CASE ApplyRefused
  BY <1>5 DEF ApplyRefused, ApplyConfig
<1>6. CASE ApplyStartsDownload
  BY <1>6 DEF ApplyStartsDownload, ApplyConfig, Flash
<1>7. CASE DownloadFails
  BY <1>7 DEF DownloadFails, ram
<1>8. CASE DownloadStages
  BY <1>8 DEF DownloadStages, Flash
<1>9. CASE ReportStored \/ ReportLost
  BY <1>9 DEF ReportStored, ReportLost, AfterReport, ram
<1>10. CASE Reboot \/ PowerCut \/ UnhealthyReset
  <2>1. flash' = Bootloader(flash) /\ ~flash'.pending /\ pc' = "poll"
    BY <1>10, BootType DEF Reboot, PowerCut, UnhealthyReset, Boot
  <2>2. ~SwapRevert => Bootloader(flash).secondary = NoImage
    BY DEF Bootloader, Flash
  <2> QED BY <2>1, <2>2
<1>11. CASE UNCHANGED vars
  BY <1>11 DEF vars, ram
<1> QED
  BY <1>1, <1>2, <1>3, <1>4, <1>5, <1>6, <1>7, <1>8, <1>9, <1>10, <1>11 DEF Next, Sync

\* A pass that found its firmware target met runs that image until it has reported.
LEMMA NextMet == TypeInv /\ MetInv /\ [Next]_vars => MetInv'
<1> SUFFICES ASSUME TypeInv, MetInv, [Next]_vars PROVE MetInv'
  OBVIOUS
<1>0. flash \in Flash
  BY DEF TypeInv, TypeOK
<1> USE <1>0 DEF MetInv, Running
<1>1. CASE SetShadow
  BY <1>1 DEF SetShadow, ram
<1>2. CASE Fetch \/ RejectConfig
  BY <1>2 DEF Fetch, RejectConfig
<1>3. CASE ApplyUpToDate
  <2>1. flash'.primary = flash.primary
    BY <1>3 DEF ApplyUpToDate, Flash
  <2>2. doc' = doc /\ pc' = "report"
    BY <1>3 DEF ApplyUpToDate
  <2>3. doc.target_config # Malformed /\ (Fota => doc.target_config.firmware \in {Absent, Running})
    BY <1>3 DEF ApplyUpToDate, ApplyConfig, UpdateAvailable, Keep
  <2> QED BY <2>1, <2>2, <2>3
<1>4. CASE ApplyRefused \/ ApplyStartsDownload
  BY <1>4 DEF ApplyRefused, ApplyStartsDownload, ApplyConfig
<1>5. CASE DownloadFails \/ DownloadStages
  BY <1>5 DEF DownloadFails, DownloadStages, ram
<1>6. CASE ReportStored \/ ReportLost
  BY <1>6 DEF ReportStored, ReportLost, AfterReport
<1>7. CASE Reboot \/ PowerCut \/ UnhealthyReset
  BY <1>7 DEF Reboot, PowerCut, UnhealthyReset, Boot
<1>8. CASE UNCHANGED vars
  BY <1>8 DEF vars, ram
<1> QED BY <1>1, <1>2, <1>3, <1>4, <1>5, <1>6, <1>7, <1>8 DEF Next, Sync

\* Every step keeps what a converged firmware target means.
LEMMA NextBooted ==
    ASSUME Fota, ImagesStay
    PROVE  TypeInv /\ BootedInv /\ [Next]_vars => BootedInv'
<1> SUFFICES ASSUME TypeInv, BootedInv, [Next]_vars PROVE BootedInv'
  OBVIOUS
<1>0. PassInv' /\ FlashInv' /\ MetInv'
  BY NextPass, NextFlash, NextMet DEF BootedInv
<1>a. /\ shadow \in Shadow /\ flash \in Flash
      /\ InPass => doc \in Shadow
      /\ shadow.target_version \in Nat /\ shadow.current_version \in Nat
      /\ InPass => doc.target_version \in Nat /\ doc.current_version \in Nat
  BY BuildAssumption DEF TypeInv, TypeOK, FetchedInv, Shadow, Versions
<1> SUFFICES ConvergedMeansBooted'
  BY <1>0 DEF BootedInv
<1> USE <1>a DEF BootedInv, MetInv, ConvergedMeansBooted, Converged, Wanted, Running
<1>1. CASE SetShadow
  <2>1. PICK c \in Configs :
          shadow' = [shadow EXCEPT !.target_version = @ + 1, !.target_config = c]
    BY <1>1 DEF SetShadow
  <2>2. shadow'.current_version < shadow'.target_version
    BY <2>1 DEF Shadow, PassInv
  <2>3. ~Converged'
    BY <2>1, <2>2 DEF Shadow
  <2> QED BY <1>1, <2>3 DEF SetShadow, ram
<1>2. CASE Fetch
  <2>1. flash'.primary = flash.primary
    BY <1>2 DEF Fetch, ConfirmBoot, Flash
  <2>2. Bootloader(flash) = flash => Bootloader(flash') = flash'
    <3>1. flash' \in Flash
      BY NextType DEF TypeInv, TypeOK
    <3>2. PICK ok \in BOOLEAN : flash' = [flash EXCEPT !.confirmed = @ \/ (Fota /\ ok)]
      BY <1>2 DEF Fetch, ConfirmBoot
    <3>3. Settled(flash) => Settled(flash')
      BY <3>2 DEF Settled, Flash
    <3> QED BY <3>1, <3>3, AtRest
  <2> QED BY <1>2, <2>1, <2>2 DEF Fetch
<1>3. CASE RejectConfig
  BY <1>3 DEF RejectConfig, ram
<1>4. CASE ApplyUpToDate
  <2>1. flash' = [flash EXCEPT !.attempts = NoAttempts]
    BY <1>4 DEF ApplyUpToDate
  <2>2. flash'.primary = flash.primary
    BY <2>1 DEF Flash
  <2>3. doc' = doc /\ shadow' = shadow /\ pc' = "report"
    BY <1>4 DEF ApplyUpToDate
  <2>4. ~Converged'
    BY <1>4, <2>3 DEF ApplyUpToDate, ApplyConfig, PassInv, InPass
  <2> QED BY <2>4
<1>5. CASE ApplyRefused
  BY <1>5 DEF ApplyRefused, ApplyConfig
<1>6. CASE ApplyStartsDownload
  <2>1. ~Converged /\ shadow' = shadow
    BY <1>6 DEF ApplyStartsDownload, ApplyConfig, PassInv, InPass
  <2> QED BY <1>6, <2>1 DEF ApplyStartsDownload
<1>7. CASE DownloadFails
  <2>1. ~Converged /\ shadow' = shadow
    BY <1>7 DEF DownloadFails, PassInv, InPass
  <2> QED BY <1>7, <2>1 DEF DownloadFails, ram
<1>8. CASE DownloadStages
  <2>1. ~Converged /\ shadow' = shadow
    BY <1>8 DEF DownloadStages, PassInv, InPass
  <2> QED BY <1>8, <2>1 DEF DownloadStages
<1>9. CASE ReportStored
  <2>1. /\ shadow'.target_version = shadow.target_version
        /\ shadow'.target_config = shadow.target_config
        /\ shadow'.current_version = ReportVersion
    BY <1>9 DEF ReportStored, Converge, Shadow
  <2>2. pc = "report" /\ pc' \in {"reboot", "poll"} /\ flash' = flash
    BY <1>9 DEF ReportStored, AfterReport
  <2>3. CASE firmware = "met"
    <3>1. Bootloader(flash) = flash
      BY <2>2, <2>3, AtRest DEF FlashInv
    <3>2. Converged' => Wanted' = doc.target_config
      BY <2>1, <2>2, <2>3 DEF ReportVersion, PassInv, InPass
    <3> QED BY <2>1, <2>2, <2>3, <3>1, <3>2
  <2>4. CASE firmware # "met"
    <3>1. ~Converged'
      BY <2>1, <2>2, <2>4 DEF ReportVersion, PassInv, InPass
    <3> QED BY <2>2, <3>1
  <2> QED BY <2>3, <2>4
<1>10. CASE ReportLost
  BY <1>10 DEF ReportLost, AfterReport
<1>11. CASE Reboot \/ PowerCut \/ UnhealthyReset
  <2>1. shadow' = shadow /\ flash' = Bootloader(flash) /\ pc' = "poll"
    BY <1>11 DEF Reboot, PowerCut, UnhealthyReset, Boot
  <2> QED BY <2>1
<1>12. CASE UNCHANGED vars
  BY <1>12 DEF vars, ram
<1> QED
  BY <1>1, <1>2, <1>3, <1>4, <1>5, <1>6, <1>7, <1>8, <1>9, <1>10, <1>11, <1>12
  DEF Next, Sync

\* Without updates nothing a pass, a reset or the bootloader does changes the flash.
LEMMA NextPlain ==
    ASSUME ~Fota
    PROVE  TypeInv /\ PlainInv /\ [Next]_vars => PlainInv'
<1> SUFFICES ASSUME TypeInv, PlainInv, [Next]_vars PROVE PlainInv'
  OBVIOUS
<1>0. flash \in Flash
  BY DEF TypeInv, TypeOK
<1> USE <1>0 DEF PlainInv, Settled
<1>1. CASE SetShadow
  BY <1>1 DEF SetShadow
<1>2. CASE Fetch
  <2>1. PICK ok \in BOOLEAN : flash' = [flash EXCEPT !.confirmed = @ \/ (Fota /\ ok)]
    BY <1>2 DEF Fetch, ConfirmBoot
  <2>2. flash'.primary = flash.primary /\ flash'.confirmed /\ ~flash'.pending
    BY <2>1 DEF Flash
  <2> QED BY <1>2, <2>2 DEF Fetch, history
<1>3. CASE RejectConfig
  BY <1>3 DEF RejectConfig, history
<1>4. CASE ApplyUpToDate
  BY <1>4 DEF ApplyUpToDate, history
<1>5. CASE ApplyRefused \/ ApplyStartsDownload
  BY <1>5 DEF ApplyRefused, ApplyStartsDownload, UpdateAvailable
<1>6. CASE DownloadFails \/ DownloadStages
  BY <1>6 DEF DownloadFails, DownloadStages
<1>7. CASE ReportStored \/ ReportLost
  BY <1>7 DEF ReportStored, ReportLost, AfterReport
<1>8. CASE Reboot \/ PowerCut \/ UnhealthyReset
  <2>1. flash' = Bootloader(flash) /\ pc' = "poll" /\ downloads' = downloads
    BY <1>8 DEF Reboot, PowerCut, UnhealthyReset, Boot
  <2> QED BY <2>1, AtRest
<1>9. CASE UNCHANGED vars
  BY <1>9 DEF vars, history
<1> QED BY <1>1, <1>2, <1>3, <1>4, <1>5, <1>6, <1>7, <1>8, <1>9 DEF Next, Sync

\* A build without updates runs the bench image, confirmed, and downloads nothing.
LEMMA PlainHolds ==
    ASSUME ~Fota
    PROVE  Spec => []PlainInv
<1>1. Init => TypeInv /\ PlainInv
  BY InitType DEF Init, PlainInv
<1> QED BY <1>1, NextType, NextPlain, PTL DEF Spec

\* Init satisfies the invariants below.
LEMMA InitInv == Init => BootedInv /\ RecordInv /\ BudgetInv
  BY ImagesAssumption, ConfigAssumption, BuildAssumption
  DEF Init, BootedInv, RecordInv, BudgetInv, PassInv, FlashInv, MetInv, AppliedInv,
      ConvergedMeansBooted, ConvergedMeansReported, RecordedRebootHappens, Converged, Wanted,
      Settled, InPass, EmptyConfig, Keep, Config, Versions

(* On a build with firmware updates, a shadow that names a firmware        *)
(* version and shows converged is running that version for good: with a    *)
(* bootloader that overwrites, and with one that swaps if images can be    *)
(* confirmed.                                                              *)
THEOREM ConvergedIsBooted ==
    ASSUME Fota, ImagesStay
    PROVE  Spec => []ConvergedMeansBooted
<1>1. Init => TypeInv /\ BootedInv
  BY InitType, InitInv
<1>2. TypeInv /\ BootedInv /\ [Next]_vars => (TypeInv /\ BootedInv)'
  BY NextType, NextBooted
<1>3. TypeInv /\ BootedInv => ConvergedMeansBooted
  BY DEF BootedInv
<1> QED BY <1>1, <1>2, <1>3, PTL DEF Spec

-------------------------------------------------------------------------------
\* What a pass has applied stays what its document asked for.
LEMMA NextRecord == TypeInv /\ RecordInv /\ [Next]_vars => RecordInv'
<1> SUFFICES ASSUME TypeInv, RecordInv, [Next]_vars PROVE RecordInv'
  OBVIOUS
<1>0. PassInv'
  BY NextPass DEF RecordInv
<1>a. /\ shadow \in Shadow
      /\ InPass => doc \in Shadow
      /\ shadow.target_version \in Nat /\ shadow.current_version \in Nat
      /\ InPass => doc.target_version \in Nat /\ doc.current_version \in Nat
      /\ Versions \subseteq Nat
  BY BuildAssumption DEF TypeInv, TypeOK, FetchedInv, Shadow, Versions
<1> SUFFICES AppliedInv' /\ RecordedRebootHappens' /\ ConvergedMeansReported'
  BY <1>0 DEF RecordInv
<1> USE <1>a DEF RecordInv, AppliedInv, RecordedRebootHappens, ConvergedMeansReported,
                 Converged, Wanted
<1>1. CASE SetShadow
  <2>1. PICK c \in Configs :
          shadow' = [shadow EXCEPT !.target_version = @ + 1, !.target_config = c]
    BY <1>1 DEF SetShadow
  <2>2. /\ shadow'.current_version = shadow.current_version
        /\ shadow'.target_version = shadow.target_version + 1
    BY <2>1 DEF Shadow
  <2>3. ~Converged'
    BY <2>2 DEF PassInv
  <2>4. AppliedInv'
    BY <1>1, <2>2 DEF SetShadow, ram
  <2> QED BY <2>3, <2>4
<1>2. CASE Fetch
  BY <1>2 DEF Fetch, history
<1>3. CASE RejectConfig
  BY <1>3 DEF RejectConfig, ram, history
<1>4. CASE ApplyConfig /\ UNCHANGED <<shadow, doc, rebooted, obeyed>>
  BY <1>4 DEF ApplyConfig, Keep
<1>5. CASE ApplyUpToDate \/ ApplyRefused \/ ApplyStartsDownload
  BY <1>4, <1>5 DEF ApplyUpToDate, ApplyRefused, ApplyStartsDownload, history
<1>6. CASE DownloadFails
  BY <1>6 DEF DownloadFails, ram, history
<1>7. CASE DownloadStages
  BY <1>7 DEF DownloadStages, history
<1>8. CASE ReportStored
  <2>1. /\ shadow'.target_version = shadow.target_version
        /\ shadow'.target_config = shadow.target_config
        /\ shadow'.current_version = ReportVersion
        /\ shadow'.current_config = Reported
    BY <1>8 DEF ReportStored, Converge, Shadow
  <2>2. /\ pc = "report"
        /\ pc' = IF ObeysReboot \/ firmware = "applied" THEN "reboot" ELSE "poll"
        /\ obeyed' = IF ObeysReboot THEN obeyed \cup {<<doc.target_version, TRUE>>} ELSE obeyed
    BY <1>8 DEF ReportStored, AfterReport
  <2>3. ReportVersion >= shadow.current_version
    BY <2>2 DEF ReportVersion, PassInv, InPass
  <2>4. Converged' => firmware = "met" /\ Wanted = doc.target_config
    BY <2>1, <2>2 DEF ReportVersion, PassInv, InPass
  <2>5. ObeysReboot => ReportVersion = doc.target_version
    BY DEF ObeysReboot, ReportVersion
  <2>6. \A v \in Versions : <<v, TRUE>> \in obeyed' => v <= shadow'.current_version
    <3> SUFFICES ASSUME NEW v \in Versions, <<v, TRUE>> \in obeyed'
                 PROVE  v <= ReportVersion
      BY <2>1
    <3>1. CASE <<v, TRUE>> \in obeyed
      <4>1. v <= shadow.current_version
        BY <3>1
      <4>2. ReportVersion \in Nat /\ v \in Nat
        BY <2>2 DEF ReportVersion, InPass
      <4> HIDE DEF RecordInv, AppliedInv, RecordedRebootHappens, ConvergedMeansReported
      <4> QED BY <2>3, <4>1, <4>2
    <3>2. CASE ObeysReboot /\ v = doc.target_version
      <4>1. v = ReportVersion /\ v \in Nat
        BY <2>5, <3>2
      <4> QED BY <4>1
    <3>3. <<v, TRUE>> \in obeyed \/ (ObeysReboot /\ <<v, TRUE>> = <<doc.target_version, TRUE>>)
      BY <2>2
    <3> QED BY <3>1, <3>2, <3>3
  <2>7. RecordedRebootHappens'
    BY <2>1, <2>2, <2>4 DEF ObeysReboot
  <2>8. ConvergedMeansReported'
    BY <2>1, <2>2, <2>4 DEF Reported, Keep
  <2> QED BY <2>2, <2>6, <2>7, <2>8
<1>9. CASE ReportLost
  BY <1>9 DEF ReportLost, AfterReport
<1>10. CASE Reboot \/ PowerCut \/ UnhealthyReset
  BY <1>10 DEF Reboot, PowerCut, UnhealthyReset, Boot
<1>11. CASE UNCHANGED vars
  BY <1>11 DEF vars, ram, history
<1> QED
  BY <1>1, <1>2, <1>3, <1>5, <1>6, <1>7, <1>8, <1>9, <1>10, <1>11 DEF Next, Sync

\* The invariant the three theorems below rest on holds throughout.
LEMMA RecordHolds == Spec => [](TypeInv /\ RecordInv)
<1>1. Init => TypeInv /\ RecordInv
  BY InitType, InitInv
<1>2. TypeInv /\ RecordInv /\ [Next]_vars => (TypeInv /\ RecordInv)'
  BY NextType, NextRecord
<1> QED BY <1>1, <1>2, PTL DEF Spec

(* A reboot command that shows as converged has been obeyed or is about to *)
(* be: no early return, deferral, lost report or power cut swallows it.    *)
THEOREM RebootHappens == Spec => []RecordedRebootHappens
<1>1. RecordInv => RecordedRebootHappens
  BY DEF RecordInv
<1> QED BY <1>1, RecordHolds, PTL

(* Whatever writes race a report, a converged shadow shows the settings    *)
(* its target asked for.                                                   *)
THEOREM ReportedIsWanted == Spec => []ConvergedMeansReported
<1>1. RecordInv => ConvergedMeansReported
  BY DEF RecordInv
<1> QED BY <1>1, RecordHolds, PTL

(* A reboot command whose report was stored in the pass that obeyed it is  *)
(* never obeyed again.                                                     *)
THEOREM RebootOnce == Spec => RecordedRebootOnce
<1>1. TypeInv /\ RecordInv =>
        [\A v \in Versions : Obeys(v) => <<v, TRUE>> \notin obeyed]_vars
  <2> SUFFICES ASSUME TypeInv, RecordInv, NEW v \in Versions, Obeys(v), <<v, TRUE>> \in obeyed
               PROVE  FALSE
    OBVIOUS
  <2>1. v <= shadow.current_version
    BY DEF RecordInv, AppliedInv
  <2>2. shadow.current_version < v /\ doc \in Shadow /\ shadow \in Shadow
    BY DEF Obeys, RecordInv, PassInv, InPass, TypeInv, TypeOK, FetchedInv
  <2> QED BY <2>1, <2>2, BuildAssumption DEF Shadow, Versions
<1> QED BY <1>1, RecordHolds, PTL DEF RecordedRebootOnce, Spec

-------------------------------------------------------------------------------
\* The image a reset would bring up stays within reach.
LEMMA NextRecover ==
    ASSUME Fota, ~ConfirmMayFail, SwapRevert
    PROVE  TypeInv /\ FlashInv /\ RecoverInv /\ [Next]_vars => RecoverInv'
<1> SUFFICES ASSUME TypeInv, FlashInv, RecoverInv, [Next]_vars PROVE RecoverInv'
  OBVIOUS
<1>0. flash \in Flash
  BY DEF TypeInv, TypeOK
<1> USE <1>0 DEF FlashInv, RecoverInv, Recoverable
<1>1. CASE SetShadow
  BY <1>1 DEF SetShadow, ram
<1>2. CASE Fetch
  <2>1. flash' = [flash EXCEPT !.confirmed = flash.confirmed \/ Fota]
    BY <1>2 DEF Fetch, ConfirmBoot
  <2>2. flash'.primary = flash.primary /\ flash'.confirmed
    BY <2>1 DEF Flash
  <2> QED BY <1>2, <2>2 DEF Fetch
<1>3. CASE RejectConfig
  BY <1>3 DEF RejectConfig
<1>4. CASE ApplyUpToDate
  BY <1>4 DEF ApplyUpToDate, ApplyConfig, Flash
<1>5. CASE ApplyRefused
  BY <1>5 DEF ApplyRefused, ApplyConfig
<1>6. CASE ApplyStartsDownload
  BY <1>6 DEF ApplyStartsDownload, ApplyConfig, Flash
<1>7. CASE DownloadFails
  BY <1>7 DEF DownloadFails
<1>8. CASE DownloadStages
  BY <1>8 DEF DownloadStages, Flash
<1>9. CASE ReportStored \/ ReportLost
  BY <1>9 DEF ReportStored, ReportLost, AfterReport
<1>10. CASE Reboot \/ PowerCut \/ UnhealthyReset
  <2>1. flash' = Bootloader(flash) /\ pc' = "poll"
    BY <1>10 DEF Reboot, PowerCut, UnhealthyReset, Boot
  <2>2. CASE flash.pending /\ flash.secondary \in Signed
    BY <2>1, <2>2 DEF Bootloader, Flash
  <2>3. CASE flash.pending /\ flash.secondary \notin Signed
    BY <2>1, <2>3 DEF Bootloader, Flash
  <2>4. CASE ~flash.pending /\ ~flash.confirmed
    <3>1. flash.secondary # NoImage
      BY <2>4, ImagesAssumption
    <3> QED BY <2>1, <2>4, <3>1 DEF Bootloader, Flash
  <2>5. CASE ~flash.pending /\ flash.confirmed
    BY <2>1, <2>5 DEF Bootloader, Flash
  <2> QED BY <2>2, <2>3, <2>4, <2>5
<1>11. CASE UNCHANGED vars
  BY <1>11 DEF vars, ram
<1> QED
  BY <1>1, <1>2, <1>3, <1>4, <1>5, <1>6, <1>7, <1>8, <1>9, <1>10, <1>11 DEF Next, Sync

(* With a bootloader that swaps, whatever is uploaded and whenever power   *)
(* is cut, an image that reaches the platform is running confirmed or is   *)
(* what the next reset reverts to; without updates, with any bootloader.   *)
THEOREM AlwaysRecoverable ==
    ASSUME Fota => SwapRevert /\ ~ConfirmMayFail
    PROVE  Spec => []Recoverable
<1>1. CASE Fota
  <2>1. Init => TypeInv /\ FlashInv /\ RecoverInv
    BY InitType, ImagesAssumption DEF Init, FlashInv, Settled, RecoverInv, Recoverable
  <2>2. TypeInv /\ FlashInv /\ RecoverInv /\ [Next]_vars => (TypeInv /\ FlashInv /\ RecoverInv)'
    BY <1>1, NextType, NextFlash, NextRecover DEF ImagesStay
  <2>3. RecoverInv => Recoverable
    BY DEF RecoverInv
  <2> QED BY <2>1, <2>2, <2>3, PTL DEF Spec
<1>2. CASE ~Fota
  <2>1. PlainInv => Recoverable
    BY ImagesAssumption DEF PlainInv, Recoverable
  <2>2. Spec => []PlainInv
    BY <1>2, PlainHolds
  <2> QED BY <2>1, <2>2, PTL
<1> QED BY <1>1, <1>2

-------------------------------------------------------------------------------
(* Neither a pass, a boot nor a new target reopens a version that has been *)
(* closed, and what is charged for a version still on record is counted.   *)
LEMMA NextBudget ==
    ASSUME Fota, ImagesStay
    PROVE  TypeInv /\ PassInv /\ FlashInv /\ BudgetInv /\ [Next]_vars => BudgetInv'
<1> SUFFICES ASSUME TypeInv, PassInv, FlashInv, BudgetInv, [Next]_vars,
                    NEW v \in Versions, downloads'[v] # 0
             PROVE  /\ v <= shadow'.target_version
                    /\ InPass' => v <= doc'.target_version
                    /\ downloads'[v] <= Budget
                    /\ \/ flash'.attempts.version = v /\ downloads'[v] <= flash'.attempts.count
                       \/ Closed(v)'
  BY DEF BudgetInv
<1>a. /\ shadow \in Shadow /\ flash \in Flash /\ v \in Nat
      /\ InPass => doc \in Shadow
      /\ shadow.target_version \in Nat /\ shadow.current_version \in Nat
      /\ InPass => doc.target_version \in Nat /\ doc.current_version \in Nat
      /\ downloads \in [Versions -> Nat]
  BY BuildAssumption DEF TypeInv, TypeOK, FetchedInv, Shadow, Versions
<1>b. downloads[v] # 0 =>
        /\ v <= shadow.target_version
        /\ InPass => v <= doc.target_version
        /\ downloads[v] <= Budget
        /\ \/ flash.attempts.version = v /\ downloads[v] <= flash.attempts.count
           \/ Closed(v)
  BY DEF BudgetInv
<1> USE <1>a, <1>b DEF Closed, Wanted, Running
<1>1. CASE SetShadow
  <2>1. PICK c \in Configs :
          shadow' = [shadow EXCEPT !.target_version = @ + 1, !.target_config = c]
    BY <1>1 DEF SetShadow
  <2>2. shadow'.target_version = shadow.target_version + 1
    BY <2>1 DEF Shadow
  <2>3. /\ flash' = flash /\ pc' = pc /\ doc' = doc /\ downloads' = downloads
    BY <1>1 DEF SetShadow, ram
  <2> QED BY <2>2, <2>3 DEF InPass
<1>2. CASE Fetch
  <2>1. PICK ok \in BOOLEAN : flash' = [flash EXCEPT !.confirmed = @ \/ (Fota /\ ok)]
    BY <1>2 DEF Fetch, ConfirmBoot
  <2>2. /\ flash'.primary = flash.primary /\ flash'.attempts = flash.attempts
        /\ Settled(flash) => Settled(flash')
    BY <2>1 DEF Flash, Settled
  <2>3. shadow' = shadow /\ downloads' = downloads /\ doc' = shadow /\ pc' # "download"
    BY <1>2 DEF Fetch, history
  <2> QED BY <2>2, <2>3
<1>3. CASE RejectConfig
  BY <1>3 DEF RejectConfig, ram, history, InPass
<1>4. CASE ApplyUpToDate
  <2>1. flash' = [flash EXCEPT !.attempts = NoAttempts]
    BY <1>4 DEF ApplyUpToDate
  <2>2. flash'.primary = flash.primary /\ Settled(flash') = Settled(flash)
    BY <2>1 DEF Flash, Settled
  <2>3. /\ doc' = doc /\ shadow' = shadow /\ downloads' = downloads
        /\ pc = "apply" /\ pc' = "report"
    BY <1>4 DEF ApplyUpToDate, ApplyConfig, history
  <2>4. doc.target_config # Malformed /\ doc.target_config.firmware \in {Absent, Running}
    BY <1>4 DEF ApplyUpToDate, ApplyConfig, UpdateAvailable, Keep
  <2>5. Settled(flash)
    BY <2>3 DEF FlashInv
  <2> QED BY <2>2, <2>3, <2>4, <2>5 DEF InPass, PassInv
<1>5. CASE ApplyRefused
  BY <1>5 DEF ApplyRefused, ApplyConfig, history, InPass
<1>6. CASE ApplyStartsDownload
  <2> DEFINE w == doc.target_version
  <2>1. /\ pc = "apply" /\ pc' = "download" /\ doc' = doc /\ shadow' = shadow
        /\ Attempts(w) < Budget /\ w \in Versions
        /\ downloads' = [downloads EXCEPT ![w] = @ + 1]
        /\ flash' = [flash EXCEPT !.secondary = NoImage,
                       !.attempts = [version |-> w, count |-> Attempts(w) + 1]]
    BY <1>6 DEF ApplyStartsDownload, ApplyConfig, AttemptAllowed, Shadow, InPass
  <2>2. /\ flash'.attempts.version = w /\ flash'.attempts.count = Attempts(w) + 1
        /\ flash'.primary = flash.primary
        /\ Settled(flash) => Settled(flash')
    BY <2>1 DEF Flash, Settled
  <2>3. ~(doc.target_config # Malformed /\ doc.target_config.firmware \in {Absent, Running})
    BY <1>6 DEF ApplyStartsDownload, UpdateAvailable, Keep
  <2>4. CASE v = w
    <3>1. downloads'[v] = downloads[v] + 1
      BY <2>1, <2>4
    <3>2. downloads[v] <= Attempts(w)
      <4>1. CASE downloads[v] = 0
        BY <4>1 DEF Attempts, Flash
      <4>2. CASE downloads[v] # 0
        BY <2>1, <2>3, <2>4, <4>2 DEF Attempts, InPass
      <4> QED BY <4>1, <4>2
    <3>3. Attempts(w) \in Nat
      BY BuildAssumption DEF Attempts, Flash
    <3> QED BY <2>1, <2>2, <2>4, <3>1, <3>2, <3>3, BuildAssumption DEF PassInv, InPass
  <2>5. CASE v # w
    <3>1. downloads'[v] = downloads[v]
      BY <2>1, <2>5
    <3>2. v < w
      BY <2>1, <2>5, <3>1 DEF InPass
    <3> QED BY <2>1, <2>2, <2>5, <3>1, <3>2 DEF PassInv, InPass
  <2> QED BY <2>4, <2>5
<1>7. CASE DownloadFails
  BY <1>7 DEF DownloadFails, ram, history, InPass
<1>8. CASE DownloadStages
  <2>1. /\ flash'.primary = flash.primary /\ flash'.attempts = flash.attempts
    BY <1>8 DEF DownloadStages, Flash
  <2>2. /\ pc = "download" /\ pc' = "report" /\ doc' = doc /\ shadow' = shadow
        /\ downloads' = downloads
    BY <1>8 DEF DownloadStages, history
  <2>3. Closed(v) => doc.target_version # v
    BY <2>2 DEF InPass
  <2> QED BY <2>1, <2>2, <2>3 DEF InPass, PassInv
<1>9. CASE ReportStored
  <2>1. /\ shadow'.target_version = shadow.target_version
        /\ shadow'.target_config = shadow.target_config
    BY <1>9 DEF ReportStored, Converge, Shadow
  <2> QED BY <1>9, <2>1 DEF ReportStored, AfterReport, InPass
<1>10. CASE ReportLost
  BY <1>10 DEF ReportLost, AfterReport, InPass
<1>11. CASE Reboot \/ PowerCut \/ UnhealthyReset
  <2>1. /\ flash' = Bootloader(flash) /\ pc' = "poll" /\ shadow' = shadow
        /\ downloads' = downloads
    BY <1>11 DEF Reboot, PowerCut, UnhealthyReset, Boot
  <2>2. flash'.attempts = flash.attempts
    BY <2>1 DEF Bootloader, Flash
  <2>3. Settled(flash) => flash' = flash
    BY <2>1, AtRest
  <2> QED BY <2>1, <2>2, <2>3 DEF InPass
<1>12. CASE UNCHANGED vars
  BY <1>12 DEF vars, ram, history, InPass
<1> QED
  BY <1>1, <1>2, <1>3, <1>4, <1>5, <1>6, <1>7, <1>8, <1>9, <1>10, <1>11, <1>12
  DEF Next, Sync

(* No target version is downloaded for more often than the budget allows,  *)
(* through any number of boots, reverts and cleared records.               *)
THEOREM BudgetHolds ==
    ASSUME Fota => ImagesStay
    PROVE  Spec => []DownloadsWithinBudget
<1>1. CASE Fota
  <2>1. Init => TypeInv /\ PassInv /\ FlashInv /\ BudgetInv
    BY InitType, InitInv DEF BootedInv
  <2>2. TypeInv /\ PassInv /\ FlashInv /\ BudgetInv /\ [Next]_vars
          => (TypeInv /\ PassInv /\ FlashInv /\ BudgetInv)'
    BY <1>1, NextType, NextPass, NextFlash, NextBudget
  <2>3. TypeInv /\ BudgetInv => DownloadsWithinBudget
    <3> SUFFICES ASSUME TypeInv, BudgetInv, NEW v \in Versions PROVE downloads[v] <= Budget
      BY DEF DownloadsWithinBudget
    <3> QED BY BuildAssumption DEF BudgetInv, TypeInv, TypeOK
  <2> QED BY <2>1, <2>2, <2>3, PTL DEF Spec
<1>2. CASE ~Fota
  <2>1. PlainInv => DownloadsWithinBudget
    BY BuildAssumption DEF PlainInv, DownloadsWithinBudget
  <2>2. Spec => []PlainInv
    BY <1>2, PlainHolds
  <2> QED BY <2>1, <2>2, PTL
<1> QED BY <1>1, <1>2

-------------------------------------------------------------------------------
(* The step simulation.  A write is the promise's write, a stored report   *)
(* its report, a boot its restart; everything else leaves the promise's    *)
(* state alone or puts the restart out of reach of anything that stops it. *)

\* What the promise sees of a stored report.
LEMMA ReportSimulated ==
    ASSUME TypeInv, PassInv, AppliedInv, MetInv, ReportStored
    PROVE  Promise!Report
<1>a. /\ shadow \in Shadow /\ doc \in Shadow /\ pc = "report"
      /\ flash.primary \in Images /\ current_config \in [log : BOOLEAN, interval : Intervals]
  BY DEF TypeInv, TypeOK, FetchedInv, InPass, ReportStored, Flash
<1>b. /\ shadow.target_version \in Nat /\ shadow.current_version \in Nat
      /\ doc.target_version \in Nat /\ doc.current_version \in Nat
  BY <1>a, BuildAssumption DEF Shadow, Versions
<1>1. /\ shadow'.target_version = shadow.target_version
      /\ shadow'.target_config = shadow.target_config
      /\ shadow'.current_version = ReportVersion
      /\ shadow'.current_config = Reported
      /\ pc' = IF ObeysReboot \/ firmware = "applied" THEN "reboot" ELSE "poll"
      /\ rebooted' = rebooted
  BY <1>a DEF ReportStored, Converge, Shadow, AfterReport
<1>2. Reported \in Shown
  BY <1>a, ImagesAssumption DEF Reported, Running, Shown
<1>3. ReportVersion \in shadow.current_version..shadow.target_version
  BY <1>a, <1>b DEF ReportVersion, PassInv, InPass
<1>4. ReportVersion = shadow.target_version =>
        firmware = "met" /\ shadow.target_config = doc.target_config
  BY <1>a, <1>b DEF ReportVersion, PassInv, InPass
<1>5. ASSUME ReportVersion = shadow.target_version
      PROVE  <<shadow.target_config, Reported>> \in Agreement
  <2>1. shadow.target_config \in Config
    BY <1>a, <1>4, <1>5 DEF AppliedInv, Shadow
  <2> QED
    BY <1>2, <1>4, <1>5, <1>a, <2>1 DEF Agreement, AppliedInv, MetInv, Reported, Keep, Shown
<1>6. ASSUME ReportVersion = shadow.target_version, shadow.target_config \in CommandTargets
      PROVE  pc' = "reboot"
  BY <1>a, <1>1, <1>4, <1>6 DEF CommandTargets, ObeysReboot, AppliedInv
<1> QED
  BY <1>a, <1>1, <1>2, <1>3, <1>5, <1>6 DEF Promise!Report

\* Every step of the device and of the platform, seen by the promise.
LEMMA StepSimulated ==
    ASSUME TypeInv, PassInv, AppliedInv, MetInv, [Next]_vars
    PROVE  [Promise!Next]_(Promise!vars)
<1> USE DEF Promise!vars, Promise!Next
<1>1. CASE SetShadow
  <2>1. PICK c \in Configs :
          shadow' = [shadow EXCEPT !.target_version = @ + 1, !.target_config = c]
    BY <1>1 DEF SetShadow
  <2>2. /\ c \in Config \cup {Malformed}
        /\ shadow'.target_version = shadow.target_version + 1
        /\ shadow'.target_config = c
        /\ shadow'.current_version = shadow.current_version
        /\ shadow'.current_config = shadow.current_config
        /\ rebooted' = FALSE /\ pc' = pc
    BY <1>1, <2>1, ConfigAssumption DEF SetShadow, TypeInv, TypeOK, Shadow
  <2>3. Promise!Write
    BY <2>2 DEF Promise!Write, TypeInv, TypeOK
  <2> QED BY <2>3
<1>2. CASE ReportStored
  BY <1>2, ReportSimulated
<1>3. CASE Reboot \/ PowerCut \/ UnhealthyReset
  BY <1>3 DEF Reboot, PowerCut, UnhealthyReset, Boot, Promise!Restart
<1>4. CASE ReportLost
  BY <1>4 DEF ReportLost, AfterReport, Promise!Restart
<1>5. CASE Fetch
  BY <1>5 DEF Fetch, history
<1>6. CASE RejectConfig
  BY <1>6 DEF RejectConfig, history
<1>7. CASE ApplyUpToDate \/ ApplyRefused \/ ApplyStartsDownload
  BY <1>7 DEF ApplyUpToDate, ApplyRefused, ApplyStartsDownload, ApplyConfig, history
<1>8. CASE DownloadFails \/ DownloadStages
  BY <1>8 DEF DownloadFails, DownloadStages, history
<1>9. CASE UNCHANGED vars
  BY <1>9 DEF vars, history
<1> QED
  BY <1>1, <1>2, <1>3, <1>4, <1>5, <1>6, <1>7, <1>8, <1>9 DEF Next, Sync

(* The device implements the promise, with updates and without, whether    *)
(* or not images can be confirmed: no poll, download, swap, revert, crash, *)
(* power cut or lost report lets the platform conclude more than is so.    *)
THEOREM KeepsPromise == Spec => ImplementsPromise
<1>1. Init => TypeInv /\ MetInv /\ RecordInv
  BY InitType, InitInv DEF BootedInv
<1>2. TypeInv /\ MetInv /\ RecordInv /\ [Next]_vars
        => (TypeInv /\ MetInv /\ RecordInv)'
  BY NextType, NextMet, NextRecord
<1>3. Init => Promise!Init
  <2> SUFFICES ASSUME Init PROVE Promise!Init
    OBVIOUS
  <2>1. /\ shadow.target_version = 0 /\ shadow.current_version = 0
        /\ shadow.target_config = EmptyConfig /\ EmptyConfig \in Config
        /\ shadow.current_config \in Shown
    BY ImagesAssumption, ConfigAssumption DEF Init, Shown, EmptyConfig, Config
  <2>2. <<EmptyConfig, shadow.current_config>> \in Agreement
    BY <2>1 DEF Agreement, EmptyConfig, Keep
  <2>3. EmptyConfig \notin CommandTargets
    BY DEF CommandTargets, EmptyConfig
  <2> QED BY <2>1, <2>2, <2>3 DEF Promise!Init, Promise!Kept, Promise!Converged, Init
<1>4. TypeInv /\ MetInv /\ RecordInv /\ [Next]_vars => [Promise!Next]_(Promise!vars)
  BY StepSimulated DEF RecordInv
<1> QED BY <1>1, <1>2, <1>3, <1>4, PTL DEF Spec, ImplementsPromise, Promise!Spec

\* What was reported is behind what was written, and only what is kept is level with it.
KeptInv ==
    /\ shadow.target_version \in Nat
    /\ shadow.current_version \in 0..shadow.target_version
    /\ Promise!Kept

(* Whenever the platform shows equal versions, the settings it shows are   *)
(* what the target asks for, in every build, and a reboot it asks for has  *)
(* happened or is under way.                                               *)
THEOREM PromiseIsKept == Spec => []Promise!Kept
<1>1. Promise!Init => KeptInv
  BY DEF Promise!Init, KeptInv
<1>2. KeptInv /\ [Promise!Next]_(Promise!vars) => KeptInv'
  <2> SUFFICES ASSUME KeptInv, [Promise!Next]_(Promise!vars) PROVE KeptInv'
    OBVIOUS
  <2> USE DEF KeptInv, Promise!Kept, Promise!Converged
  <2>1. CASE Promise!Write
    BY <2>1 DEF Promise!Write
  <2>2. CASE Promise!Report
    BY <2>2 DEF Promise!Report
  <2>3. CASE Promise!Restart
    BY <2>3 DEF Promise!Restart
  <2>4. CASE UNCHANGED Promise!vars
    BY <2>4 DEF Promise!vars
  <2> QED BY <2>1, <2>2, <2>3, <2>4 DEF Promise!Next
<1>3. KeptInv => Promise!Kept
  BY DEF KeptInv
<1> QED BY <1>1, <1>2, <1>3, KeepsPromise, PTL DEF ImplementsPromise, Promise!Spec
===============================================================================
