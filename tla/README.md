# TLA+ models of pigeon-examples

TLA+ modules for the device programs under `samples/`: each is a Zephyr
application in C that applies a *device shadow* it gets from the pigeon
platform. The `pigeon` library, Zephyr, MCUboot, the modem and the platform are
not in the repository; what the samples rely on of them is modelled as external
and named below.

Run a model with `tlc -config <Run>.cfg <MCModule>`, a proof with
`tlapm <Module>Proofs.tla`. `PROJECT.json` lists the runs, the source lines each
definition stands for, the hazards and the theorems.

## The system

A *shadow* holds a `target_version` and `target_config` written by the
dashboard and a `current_version` and `current_config` reported by the device.
It is *converged* when the versions are equal. The only record that a target
was carried out is that equality, so almost everything that can go wrong here is
about when a device may report it.

| Part | State it keeps | Operations | What is hard | What makes it correct |
|---|---|---|---|---|
| Shadow sync with firmware update (`https_init`, `wifi_init`) | RAM: `current_config`; flash: MCUboot's slots, the attempt budget | `shadow_sync()` polled by `shadow_loop()`, reboot | power cuts between any two steps, lost reports, a dashboard that writes during a pass, images that do not boot, do not verify or carry a stale version | converged means booted and confirmed; a way back is always left; downloads bounded; a reboot command obeyed once |
| Plain polling (`coap_dtls_init`, `coap_tcp_init`, `asset_tracker`'s loop) | RAM: `current_config`, `poll_count`, the log levels | `main()`, `shadow_sync()`, `shadow_loop()`, telemetry | a newer target pending at the report, lost telemetry and reports, partial updates | the promise of a shadow; the log does what is applied; the poll count tells of reboots only |
| Pushed shadow (`ws_init`, `mqtt_init`) | a semaphore, the library's document buffer | the event callback on the library's thread, `shadow_sync()`, `shadow_loop()` | two threads, pushes at any point of a pass, dropped connections | no push is lost; a push does not leak into a pass under way |
| NIDD shadow (`nidd_init`) | `applied`: interval, version, a reboot asked for, an unconfirmed version | the callback, `apply()`, `shadow_sync()`, readings and wakes | frames lost, late or overtaken, late confirmations, a budget of radio wakes | reboots only once confirmed, one timeout per wake, wakes spaced |
| Network bring-up (`common/net`, every `main()`, `asset_tracker`'s rounds) | a semaphore, the modem's mode, the credential store | `net_prepare`, `net_install_ca`, `net_connect`, `net_disconnect`, `connect_with_retry` | late L4 events, refused requests, failing power-off, a power cut while provisioning | success means a fresh connect; modem powered off before reset; store complete |
| Asset tracker position (`asset_tracker`) | last GNSS frame, queue of metrics | GNSS callback, `queue_position`, `report_telemetry` | two threads, a flush that fails | a report is about one frame |
| NIDD probe (`nidd_probe`) | the Non-IP socket's handle, two semaphores, the modem | bring-up in `main()`, events, the receive loop, shell commands | two threads on one handle, events in any order, a dozen ways to fail | frames leave by the Non-IP PDN only; every end powers the modem off; headers are read for what they are |
| Heap monitor, shadow model | nothing | logging | nothing | nothing |
| Platform mock, end-to-end script | the shadow, sockets | test double | pushes sent outside its lock | not part of the product |

Interactions: the platform and a device exchange documents and reports by
polling (HTTPS, CoAP), by push over a connection (WebSocket, MQTT) or by single
frames through a carrier (NIDD). On the device the library's worker thread and
`shadow_loop()` share a semaphore of limit 1 and the library's buffer; the
connection manager's thread and `main()` share another semaphore.

## Modules

| Module | Models | State and actions against the code |
|---|---|---|
| `ShadowPromise` | nothing of its own: what a shadow promises whoever reads it | `Write`, `Report`, `Restart` of a target, the last report and whether a reboot asked for is under way; see Refinement |
| `TrackerPromise` | nothing of its own: what a tracker promises of its reports | `Take`, `Store`, `Sample`, `Report`, `Restart`; see Refinement |
| `ShadowSync` | `https_init`, `wifi_init` | `pc` is where `shadow_sync()` stands: `poll`, `apply` (fetched, image confirmed), `download`, `report`, `reboot`. `Fetch` is lines 92-118 with `pigeon_fota_confirm_boot()`; `ApplyUpToDate`, `ApplyRefused` and `ApplyStartsDownload` are the three ways out of the firmware part; `DownloadFails`/`DownloadStages`; `ReportStored`/`ReportLost` include the reboot decision that follows. A failed fetch changes nothing and is a stutter. `flash` and `Bootloader` are MCUboot. |
| `ShadowPush` | `ws_init`, `mqtt_init` | `channel` selects the sample. Worker thread: `Accept`, `Opened`, `Deliver`, `Disconnected`. Loop: `SyncFails`, `Fetch`, then after telemetry `SyncDone`, `RejectConfig`, `Apply`, then `ReportStored`/`ReportLost`, `Reboot`, and `k_sem_take()` as `TakeWakeup` or `Poll`. `Copied` is the `strncpy()` out of the library's buffer, which mqtt's worker may be writing. |
| `ShadowPoll` | `coap_dtls_init`, `coap_tcp_init`, the loop of `asset_tracker` | `Start`/`StartFails` are `main()`; `Fetch`, then `TelemetryArrives`/`TelemetryLost` (the count goes up before anything can fail), then `RejectConfig`, `Apply` with `SetLogLevel`, `ReportStored`/`ReportLost`, `Reboot`. It keeps what `ShadowSync` leaves out, the real log level and the telemetry. |
| `NiddShadow` | `nidd_init`, untimed | the two threads, frames in flight as sets, so in any order, `ReportTimesOut`, `Confirmed`, `Wake`, `TakeWakeup`. `ReceiveReport` stores what arrives as it is. Of the history, `sent` is the last report made, `held` what the platform ever stored, and `obeyed` forgets a version when an older report is stored over it. |
| `NiddSchedule` | the wake schedule of `nidd_init`'s loop | time in quarter units, `Tick`, readings, pushes, passes that block |
| `NetConnect` | `common/net`, `main()`, `connect_with_retry()` | `pc` runs through install, `begin`, `request`, `wait`, `backoff`, `disconnect`, `poweroff`, `failed`, `online`; `L4Connected`/`L4Disconnected` are the event thread; `build` selects board and rounds |
| `AssetTracker` | where `asset_tracker`'s reported position comes from | the modem's callback (`ReadFrame`, `StoreBegins`, `StoreEnds`), the poll's copy (`CopyBegins`, `CopyEnds`, `SampleTrack`), one `QueueMetric` a key, `FlushSent`, `FlushFails` |
| `NiddFrame` | how `nidd_probe` reads a downlink's header | `header_number` and `downlink_log` as operators, and `ReadRight`, what a header is without reading it from left to right |
| `NiddProbe` | `nidd_probe` | `pc` is `main()`: `connect`, `register`, `activate`, `pdn`, `open`, `bind`, `receive`/`print`, `close`, `stop`, `ended`; `NetworkRegisters` and `PdnComesUp` are `lte_handler()`; `Command`/`CommandRuns` are the shell's check of the handle and its use, `HttpsOpens`/`HttpsEnds` its TLS socket. `sockets` says what each descriptor stands for. |
| `MC*` | instances for TLC | sets of images, configurations, channels and builds |
| `*Proofs` | theorems | see below |

Each detailed specification stands alone: the samples are separate programs and
share only the platform, and what they share of it is `ShadowPromise`. What one leaves to another is said in its header (the
settings of a target are `ShadowSync`'s subject, so `ShadowPush` and
`NiddShadow` keep one setting and a command; time is `NiddSchedule`'s).
Definitions marked `Fault:` stand next to the definition they spoil and are not
used by any specification: they are the mistakes each property was tried
against.

### Refinement

`ShadowPromise` is the platform's view of any device. `target` is the last
write, `current` the last report, `obeyed` says that the device has restarted
since that write or can no longer be kept from it. A report never goes back,
never names a version nobody wrote, and names the newest only if its settings
agree with that target and its reboot, if it asks for one, is `obeyed`. So equal
versions mean carried out (`Kept`). The four sample specifications instantiate
it and state `ImplementsPromise == Promise!Spec`:

| Module | `current` settings | `Agreement` | `obeyed` |
|---|---|---|---|
| `ShadowSync` | log, interval and running firmware of the report | keys the target carries are met, the firmware included | `rebooted`, or the pass is about to reboot |
| `ShadowPush` | the interval | the key, if carried, is met | the same |
| `ShadowPoll` | log and interval | the same | the same |
| `NiddShadow` | nothing: its reports say a version only | the target parses | not promised: no commands, since this sample confirms first and reboots after (`RebootOnlyConfirmed`, and `nidd_late` for what that costs) |

In `NiddShadow` `current` is the last report *made* (`sent`), not the last one
stored: a carrier that reorders can store an older report over a newer one, and
no program can promise that away. What it does promise is that its reports only
rise. The platform's view has a theorem of its own (`ShownIsKept`).

All four do so in every build. Without firmware updates `Agreement` leaves the
firmware key out, which such a build does not meet. With them, an image that
cannot be confirmed may still be reverted after it was reported: the report was
right when it was made, and that the device keeps to it is
`ConvergedMeansBooted`, which needs more.

`TrackerPromise` is the same for `AssetTracker`: a tracker that stores a frame,
samples the newest and reports the sample, each in one step. `newest` and
`sampled` are the flags' halves of `last_pvt` and `sample`, which are copied
last, so a frame is stored when `StoreEnds` and sampled when `CopyEnds`; `shown`
is the last report.

## What the runs check

| Run | Shows | Bounds, and why they are enough |
|---|---|---|
| `shadow_update` | converged means booted and confirmed; a way back; the budget; a recorded reboot command obeyed once; the promise (settings reported as met are met, a recorded command happens); the last attainable target met or given up, if the device is back in a healthy image again and again; downloads and reboots cease | 3 writes (one in force, one that races its report, one after), 8 targets covering each kind of image with and without a command, 1 power cut at any step besides the boots the program and MCUboot cause, budget 2 (one attempt left, none left) |
| `shadow_reapply` (violation) | a boot does not re-apply a converged target | the finding |
| `poll` | the log does what is applied; the promise; no false reboot; convergence; reboots cease | 3 writes, 6 targets: log on and off, alone and with a command, an interval, a command, one that does not parse; the count to 3; 1 power cut |
| `push` | no lost push; the promise; a ws push is no payload; the last target is converged to; wakeups cease | 2 writes (the pass's and the one that races it), 1 dropped connection, both samples, targets: a setting, a command, both, one that does not parse |
| `push_mixed` (violation) | mqtt can apply version N+1 and report it as N | the finding |
| `nidd_sync` | reboots only for what the platform stored, and once while that record stands; one timeout per version and wake; no lost wakeup; the promise; the last target reported and stored; reports cease | 2 writes (so one report can overtake another), frames lost, late and reordered, a power cut |
| `nidd_late` (violation) | a late confirmation leaves a reboot command unobeyed | the finding |
| `nidd_wakes` | wakes due and made far enough apart, and none put off by pushes | intervals at the floor, between and above; blocks up to a quarter of the floor |
| `net_up` | success is of this call; the modem powered off first; provisioning; a tracker comes online | all six builds, 3 rounds, 3 power-off attempts, 1 power cut, every initial store |
| `net_wifi` (violation) | a WiFi attempt succeeds on a connect that was lost | the finding |
| `tracker` | a claimed fix is one frame's position; the tracker implements one that samples the newest frame at one moment, and reports no position without a fix behind it; the last fix is reported | 3 frames (one stored, one under way, one after), 1 restart, stores of 10 keys (the sample's) and 8 (too small for the first cycle), both builds |
| `nidd_probe` | frames leave by the Non-IP PDN only; clean ends; no event missed or mistaken; headers read right; `main()` does not hang | both builds, 2 descriptors (the raw socket and the shell's TLS one: a number is reused as soon as it is free), about 950 frames: every combination of a missing, short, longest, overflowing and too long number, a missing or swapped end, a payload, and a tag that would go on with a number or end it. Numbers are binary of two digits and the largest is 2, so that 3 overflows as 2^32 does in ten decimal digits |

The type invariants are not among them: every module has its `TypeOK`, and each is
a theorem (`TypeCorrect`) for every instance. Nor are `RecordedRebootHappens`,
`ConvergedMeansReported` and `HandleLive`, proved too: the first two are parts of
the promise, the last is why `NonIpOnly` holds.

`net_up`, `poll` and `nidd_probe` do not check deadlock: `main()` really returns
there. Every other run does. Each bound is a constant or a guard that its module names (`MaxVersion`,
`MaxResets`, `MaxPolls`, `MaxDrops`, `MaxFrames`, `MaxCuts`); the proofs do without them.

### Fairness

- `ShadowSync`: the polling thread always runs on (`k_sleep()` returns), a
  report that is tried again gets through in the end. Nothing is assumed of
  downloads, nor that anyone resets an image that never reaches the platform:
  only `asset_tracker` sets `CONFIG_PIGEON_WATCHDOG`, `main()` returns after a
  failed `net_connect()` (`https_init/src/main.c:27-30`), and an image with a
  rotated token polls on (`docs/firmware-updates.md:107-109`). Such an image may
  crash (`UnhealthyReset`) or stay. `Settles` is therefore about executions in
  which a healthy image runs again and again; `EventuallyQuiet` and the safety
  properties need no such condition.
- `ShadowPush`: both threads run on, the library reconnects (`shadow.c`: "The
  reconnect is the library's"), a fetch and a report tried again get through.
- `ShadowPoll`: the thread runs on, a fetch and a report tried again get through.
  Nothing is assumed of telemetry.
- `NiddProbe`: `main()` runs on; its waits have limits. Nothing is assumed of the
  network, the modem or the shell.
- `NiddShadow`: the loop wakes on schedule; of the carrier only that what is
  repeated for ever is not lost for ever. Nothing is assumed of the order in which
  reports arrive, so `Settles` promises that the last target's report is stored
  and not that nothing older is stored over it.
- `AssetTracker`: both threads run on and neither is kept from the mutex for
  ever, a fetch and a report tried again get through. Nothing is assumed of frames.
- `NetConnect`: a request made again and again is granted, a connect lands
  within some wait. Nothing is assumed of power-off or of the link staying up.

The strong fairness is on steps that may fail any number of times first; no
liveness property holds without it, since a network that never answers answers
nobody.

## What is proved

For every value of the constants, and with no bound on writes, drops or boots
other than the guards' constants, which are arbitrary:

- `ShadowSyncProofs`: `TypeCorrect`; `RebootHappens`, `ReportedIsWanted`,
  `RebootOnce` and `KeepsPromise`, for every build; `ConvergedIsBooted` and
  `BudgetHolds` where an image that has fetched stays (`ImagesStay`: the bootloader
  overwrites, or confirming does not fail); `AlwaysRecoverable` where it swaps and
  confirming does not fail. `BudgetHolds` and `AlwaysRecoverable` hold too without
  firmware updates, since then nothing changes the flash (`PlainInv`). The
  strengthening ties what a pass under way will report to what is in flash: a pass
  whose firmware is `met` runs what its document names (`MetInv`), and nothing
  staged or replaced can boot behind a converged shadow (`FlashInv`).
- `ShadowPollProofs`: `TypeCorrect`; `LogFollows`; `FalseRebootNever`, from
  `CountInv`; `KeepsPromise`, from `PassInv`: the document of a pass is at least
  as new as everything reported, and what was applied of it is what it says.
- The `KeepsPromise` theorems of the shadows have one shape: the initial states map to initial
  states, and under the invariants each step maps to a `Write`, a `Report`, a
  `Restart` or a stutter (`StepSimulated`). What needs work is that a report never
  goes back: `LowInv` in `ShadowPush`, where documents may be stale, and
  `WrittenInv` and `RiseInv` in `NiddShadow`: whatever is in flight was written
  once, and every document a boot can get to read is as new as the last report of
  all boots before it.
  `PromiseIsKept` draws the conclusion for each sample from the promise alone:
  equal versions always mean carried out (`Kept`).
- `ShadowPushProofs`: `TypeCorrect`; `NoPushLost`, from `NoticeInv`: on an open
  connection the newest target is in the last frame or, with none left, in
  mqtt's buffer, and a semaphore that was taken for it was taken for a pass that
  has seen it; `WakeupOnly`, from `FetchedInv`: ws's buffer is written by the
  pass that reads it; `ReportedIsWanted`, from `OrderInv`: mqtt's documents
  arrive in order, so a pass about the newest target can only read that target,
  even out of a buffer being overwritten; `KeepsPromise`.
- `NiddShadowProofs`: `TypeCorrect`; `RebootsConfirmed` and `NoRebootLoop`, from
  `ObeyedInv`: what is confirmed was stored, and an obeyed version whose record
  stands is behind every document the next boot can learn; `TimeoutsBounded`, from
  `TimeoutInv`; `NoLostWakeup`, from `NoticedInv`; `KeepsPromise`; `ShownIsKept`:
  no report is ahead of the last one made, so equal versions on the platform mean
  a target that parses, whichever report was stored last.
- `NiddScheduleProofs`: `TypeCorrect`, `WakesDueSpaced`, `WakesMadeSpaced`, `WakesAreOnTime`.
- `NetConnectProofs`: `TypeCorrect`; `ConnectIsFresh`, from `ArmedInv`: once
  armed, a given semaphore was given by a connect of this call;
  `ModemPoweredOff`; `CredentialsReady` (assumes deletes do what they say), from
  `StoreInv`, which says how far the store is at each step of
  `net_install_ca()`, so that a power cut anywhere only repeats steps; `CaIsOurs`,
  what is left of it when deletes fail: the CA at least is the platform's.
- `AssetTrackerProofs`: `TypeCorrect`; `ReportsOneFrame`, from `WholeInv` (a frame
  is in two halves only under the mutex) and `QueueInv` (the keys a cycle has gone
  past hold what it read or nothing, for every store size and whatever was queued
  before); `KeepsPromise`, from these and `FreshInv` (what is being stored is the
  last frame taken); and from the promise alone `NeverOlder`: a fix that is claimed
  is never older than what was shown before, restarts included.
- `NiddProbeProofs`: `TypeCorrect`; `HandleIsLive`, `FramesStayNonIp` and
  `AlwaysEndsClean`, from `OwnInv`, which gives every descriptor one owner: a
  command that holds the handle runs in the one thread that could give its number
  to another socket, so it reaches the Non-IP socket or a closed descriptor;
  `OpensOwn` and `RealTimeouts`, from `ServedInv`: an event that came is in its
  semaphore until `main()` takes it.
  `PrintsRight`, for frames of any length, any base, number of digits and largest
  number: `DigitsRight` (where the search for the digits stops), `NumberRight`
  (what the loop over them computes), `HeaderNumberRight` and `HeaderRight` (what
  one call and two calls find) lead to `LogIsRight`, which compares the code with
  `ReadRight`, where a number's digits are found by dividing. The prover has no
  induction over data, so the recursion in `Number` is met by looking at the least
  place where a statement would fail (`LeastOf`, from the library's well-founded
  order on Nat). It assumes that the frames are sequences of bytes, that neither
  end of a number is a digit, and that a SHADOW's type is not a STATUS's.

Only model-checked: all liveness (`Settles`, `EventuallyQuiet`, `WakeupsCease`,
`ReportsCease`, `RebootsCease`, `ComesOnline`, `FixReported`, `Concludes`), which
is out of the prover's reach.

## Assumptions about what is not in the repository

- MCUboot: a pending image is swapped in if its signature verifies and dropped
  if not; an unconfirmed image is swapped back while its slot holds the one
  before. The ESP32-C6 build overwrites (`SwapRevert = FALSE`).
- The attempt budget is kept in flash, keyed on `target_version`, and charged
  before the download.
- Platform: a report sets `current_version` and `current_config` as they are
  (the mock's `_converge`), older ones included. Pushes on one connection arrive in
  order.
- ws: the platform pushes every shadow write, reports included. mqtt: the broker
  drops a push whose target did not change, and starts a session with the
  retained target. The library has one buffer for the document (`shadow.c`:
  "target_config only lives until the next push").
- NIDD: the library keeps the newest target, repeats HELLO until it has one,
  and downlinks do not outlive a boot. Frames arrive in any order, and a report may
  outlive boots.
- Connection manager: L4 events queued while a call sleeps are delivered before
  the next call arms (every path between sleeps a second or more).
- Telemetry store: one slot a key, overwritten in place; with the slots full a
  new key is refused (`asset_tracker/prj.conf`); a report that succeeds empties it.
- NIDD probe: contexts other than ours may report events too; a receive and a
  power-off may fail; the handle is read twice by `frame_send()` unless the
  compiler kept the first value; there is one shell, and it runs one command at a
  time (with a second shell backend a descriptor closed by `main()` could be
  reused between a check and its send).
- Data: settings are one interval (and the log flag in `ShadowSync`); log
  output and telemetry are `ShadowPoll`'s and `AssetTracker`'s, wording is left out.

## Findings

The violation runs are disagreements between the code and what its comments or
READMEs say; `PROJECT.json` quotes them. Two are defects: `push_mixed` (copy
`target_config` before telemetry, or read it with the versions) and `nidd_late`
(look at `reboot_asked` when a pass finds the shadow converged).

Smaller divergences met on the way, without a run of their own:

- `https_init/src/shadow.c:142`: log levels change only when `target.log` differs
  from a default of `false` that never described the real level, so a first
  target of `log=false` silences nothing and is reported as applied (57-58 says
  the field "really silences and restores output"). `OutputFollows` states the
  exception.
- `https_init/src/shadow.c:248`: a failed report is only a warning and the reboot
  follows all the same, so the next boot meets the same target and reboots
  again, once for every report that is lost (127-128: "reboot is a one-shot
  command"). `RecordedRebootOnce` and `RebootsCease` say what does hold.
- `asset_tracker/src/shadow.c:113`: a flush that fails leaves a position queued,
  and a later poll without a fix sends it beside `gps_fix_quality=0`, having
  logged "position not reported" (74). `ReportIsOneFrame` is about claimed fixes.
- `coap_dtls_init/src/shadow.c:48`: `poll_count` "restarting at 1" tells of a
  reboot, but with the first telemetry of a boot lost it restarts at 2, and a
  boot that follows one poll may not show at all. `NoFalseReboot` is the half
  that holds.
- `nidd_probe/src/main.c:420`: the sequence number is used up before the handle
  is looked at, so a gap need not be a frame "lost on the way" (409-410).
- `https_init/src/shadow.c:110`: the result of `pigeon_fota_confirm_boot()` is not
  looked at. With `ConfirmMayFail = TRUE` the model reports convergence and the
  next reset reverts, which lines 169-172 set out to avoid.
- `nidd_init/src/shadow.c:187`: the schedule advances from the deadline and not
  from the wake, so a late wake is followed by one less than 900 s after it
  (README.rst:71-72). `MadeSpacing` states by how much at most.
- `nidd_init/src/shadow.c:136`: the reboot waits until the platform has confirmed
  the version, so that "the next boot then finds it converged and does not reboot again"
  (136-137), but if an older
  report is still on its way it is stored over the newer one: the next boot
  reports and reboots again, or, if the device does not boot, it believes the
  confirmation and the platform stays behind until it does. `RebootAtMostOnce` and
  `Settles` say what holds.
- `mqtt_init/src/shadow.c:112`: the document keeps the `current_version` it was
  pushed with, so a target is applied and reported again at every interval until
  the next session (`shadow.h` says only "if the platform has moved past what
  this boot applied").
- `common/net/wifi.c:66`: an error from inside the retry loop leaves the join
  under way; if it lands before `asset_tracker` calls again, `net_events_arm()`
  clears it and no further event comes, so the tracker waits on a link that is
  up. `ComesOnline` leaves WiFi out for this.
- `common/net/lte.c:107`: a request refused before the wait returns without
  powering the modem off, and the tracker's last round then resets it.
  `PoweredOffNotReset` excludes such a round.

## Plan

In order of what matters to the platform; the first eight are done, the ninth is left.

1. `ShadowSync`, its run and proofs: convergence, firmware, reboots.
2. `NiddShadow` and `NiddSchedule`.
3. `ShadowPush`.
4. `NetConnect`.
5. Proofs of each component's safety.
6. `AssetTracker` and `TrackerPromise`, with its proofs.
7. `ShadowPromise` and `ShadowPoll`; the four sample specifications shown to
   implement the abstract shadow, by TLC and as theorems.
8. `NiddFrame` and `NiddProbe`, with its proofs.
9. A composition of `NetConnect` with a polling pass, for reboots that go
   through `net_disconnect()`.

Not modelled, and why: the end-to-end script and the documents (no state), board
files and Kconfig (no behaviour), the heap monitor (a timer that logs and sets
itself again) and the shadow model demo (it fills two structs and logs them). Of
the platform mock only what a device can observe is modelled, its shadow routes
and pushes: HTTP and WebSocket framing, authentication and recording are its own.
The model's platform pushes in the order of the writes; the mock sends outside its
lock (`mock_dovecote.py:283`) and might not. The samples that return from `main()`
after one failed `net_connect()` do so on purpose and are `pc = "stopped"`.
