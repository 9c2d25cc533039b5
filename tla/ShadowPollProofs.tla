--------------------------- MODULE ShadowPollProofs ---------------------------
(***************************************************************************)
(* Theorems about ShadowPoll, for every set of configurations and          *)
(* intervals and any number of writes, polls and power cuts.               *)
(***************************************************************************)
EXTENDS ShadowPoll, TLAPS

TypeInv ==
    /\ TypeOK
    /\ pc \in {"telemetry", "apply", "report"} => doc \in Shadow

(* What a pass holds is a target that was written, as new as everything    *)
(* reported so far; once applied, the settings and the command are its.    *)
PassInv ==
    /\ shadow.current_version <= shadow.target_version
    /\ pc \in {"telemetry", "apply", "report"} =>
        /\ doc.target_version \in shadow.current_version..shadow.target_version
        /\ doc.target_version = shadow.target_version =>
             doc.target_config = shadow.target_config
    /\ pc = "report" =>
        /\ doc.target_config \in Config
        /\ <<doc.target_config, current_config>> \in Agreement
        /\ reboot = doc.target_config.reboot

CountInv == here => last <= poll_count

-------------------------------------------------------------------------------
\* Types.

\* What applying a target leaves in the settings is of their type and agrees with it.
LEMMA KeptType ==
    ASSUME NEW t \in Config, NEW c \in Shown,
           NEW k, k = [log |-> Keep(t.log, c.log), interval |-> Keep(t.interval, c.interval)]
    PROVE  k \in Shown /\ <<t, k>> \in Agreement
<1>1. k \in Shown
  BY DEF Config, Shown, Keep
<1> QED BY <1>1, PollAssumption DEF Agreement, Keep

\* A device that comes up is typed.
LEMMA BootType ==
    ASSUME TypeInv, Boot, UNCHANGED platform, resets' \in 0..MaxResets
    PROVE  TypeInv'
<1>1. DefaultConfig \in Shown
  BY PollAssumption DEF DefaultConfig, Shown
<1>2. 0 \in 0..MaxPolls
  BY PollAssumption
<1>3. shadow' = shadow /\ last' = last
  BY DEF platform
<1>4. shadow' \in Shadow /\ last' \in 0..MaxPolls
  BY <1>3 DEF TypeInv, TypeOK
<1> QED BY <1>1, <1>2, <1>4 DEF TypeInv, TypeOK, Boot

\* The initial state is typed.
LEMMA InitType == Init => TypeInv
<1> SUFFICES ASSUME Init PROVE TypeInv
  OBVIOUS
<1>1. DefaultConfig \in Shown /\ EmptyConfig \in Config
  BY PollAssumption DEF DefaultConfig, Shown, EmptyConfig, Config
<1>2. shadow \in Shadow
  BY <1>1, PollAssumption DEF Init, Shadow, Versions
<1>3. 0 \in 0..MaxPolls /\ 0 \in 0..MaxResets
  BY PollAssumption
<1> QED BY <1>1, <1>2, <1>3 DEF Init, TypeInv, TypeOK

\* Every step keeps the types.
LEMMA NextType == TypeInv /\ [Next]_vars => TypeInv'
<1> SUFFICES ASSUME TypeInv, [Next]_vars PROVE TypeInv'
  OBVIOUS
<1>0. shadow \in Shadow /\ current_config \in Shown
  BY DEF TypeInv, TypeOK
<1>1. CASE SetShadow
  <2>1. PICK c \in Configs :
          shadow' = [shadow EXCEPT !.target_version = @ + 1, !.target_config = c]
    BY <1>1 DEF SetShadow
  <2>2. shadow.target_version + 1 \in Versions
    BY <1>0, <1>1, PollAssumption DEF SetShadow, Shadow, Versions
  <2>3. shadow' \in Shadow
    BY <1>0, <2>1, <2>2, PollAssumption DEF Shadow
  <2> QED BY <1>1, <2>3 DEF SetShadow, TypeInv, TypeOK, ram
<1>2. CASE Start \/ StartFails \/ RejectConfig
  BY <1>2 DEF Start, StartFails, RejectConfig, TypeInv, TypeOK, platform, ram, history
<1>3. CASE Fetch
  BY <1>3 DEF Fetch, TypeInv, TypeOK, platform, history
<1>4. CASE TelemetryArrives \/ TelemetryLost
  <2>1. Count \in 0..MaxPolls
    BY PollAssumption DEF Count, TypeInv, TypeOK
  <2> QED
    BY <1>4, <2>1 DEF TelemetryArrives, TelemetryLost, AfterTelemetry, Counted, TypeInv, TypeOK
<1>5. CASE Apply
  <2>1. doc.target_config \in Config
    BY <1>5 DEF Apply, TypeInv, Shadow
  <2>2. current_config' \in Shown /\ reboot' \in BOOLEAN
    BY <1>0, <1>5, <2>1, KeptType DEF Apply, Config
  <2>3. log_level' \in {"build", "default", "none"}
    BY <1>5 DEF Apply, SetLogLevel, TypeInv, TypeOK
  <2> QED BY <1>5, <2>2, <2>3 DEF Apply, TypeInv, TypeOK, platform, history
<1>6. CASE ReportStored \/ ReportLost
  <2>1. doc \in Shadow
    BY <1>6 DEF ReportStored, ReportLost, TypeInv
  <2>2. shadow' \in Shadow
    BY <1>0, <1>6, <2>1 DEF ReportStored, ReportLost, ReportVersion, Shadow
  <2> QED
    BY <1>6, <2>2 DEF ReportStored, ReportLost, AfterReport, TypeInv, TypeOK, ram, history
<1>7. CASE Reboot
  BY <1>7, BootType DEF Reboot, TypeInv, TypeOK
<1>8. CASE PowerCut
  <2>1. resets' \in 0..MaxResets
    BY <1>8, PollAssumption DEF PowerCut, TypeInv, TypeOK
  <2> QED BY <1>8, <2>1, BootType DEF PowerCut
<1>9. CASE UNCHANGED vars
  BY <1>9 DEF vars, platform, ram, history, TypeInv, TypeOK
<1> QED BY <1>1, <1>2, <1>3, <1>4, <1>5, <1>6, <1>7, <1>8, <1>9 DEF Next, Sync

\* Every reachable state is typed.
THEOREM TypeCorrect == Spec => []TypeOK
<1> QED BY InitType, NextType, PTL DEF Spec, TypeInv

-------------------------------------------------------------------------------
\* The log and the counter.

(* set_all_log_levels() is only called for a change, and that is enough:   *)
(* the log never contradicts a setting that was ever changed.              *)
THEOREM LogFollows == Spec => []OutputFollows
<1>1. Init => OutputFollows
  BY DEF Init, OutputFollows, DefaultConfig
<1>2. TypeInv /\ OutputFollows /\ [Next]_vars => OutputFollows'
  <2> SUFFICES ASSUME TypeInv, OutputFollows, [Next]_vars PROVE OutputFollows'
    OBVIOUS
  <2>1. CASE Apply
    <3>1. doc.target_config \in Config /\ current_config \in Shown
      BY <2>1 DEF Apply, TypeInv, TypeOK, Shadow
    <3>2. PICK log \in BOOLEAN : log = Keep(doc.target_config.log, current_config.log)
      BY <3>1 DEF Keep, Config, Shown
    <3>3. current_config'.log = log /\ SetLogLevel(log)
      BY <2>1, <3>2 DEF Apply
    <3> QED BY <3>1, <3>2, <3>3 DEF SetLogLevel, OutputFollows, Shown
  <2>2. CASE Reboot \/ PowerCut
    BY <2>2 DEF Reboot, PowerCut, Boot, DefaultConfig, OutputFollows
  <2>3. CASE UNCHANGED <<current_config, log_level>>
    BY <2>3 DEF OutputFollows
  <2> QED
    BY <2>1, <2>2, <2>3
    DEF Next, Sync, SetShadow, Start, StartFails, Fetch, TelemetryArrives, TelemetryLost,
        AfterTelemetry, RejectConfig, ReportStored, ReportLost, AfterReport, vars, ram
<1> QED BY <1>1, <1>2, InitType, NextType, PTL DEF Spec

\* No step lets the counter fall behind what the platform received from this boot.
LEMMA NextCount == TypeInv /\ CountInv /\ [Next]_vars => CountInv'
<1> SUFFICES ASSUME TypeInv, CountInv, [Next]_vars PROVE CountInv'
  OBVIOUS
<1>1. CASE TelemetryArrives \/ TelemetryLost
  <2>1. poll_count \in Nat /\ last \in Nat /\ poll_count' = Count
    BY <1>1 DEF TelemetryArrives, TelemetryLost, AfterTelemetry, Counted, TypeInv, TypeOK
  <2>2. poll_count <= Count
    BY <2>1, PollAssumption DEF Count
  <2>3. CASE TelemetryArrives
    <3>1. last' = poll_count' /\ poll_count' \in Nat
      BY <2>1, <2>3, PollAssumption DEF TelemetryArrives, Count
    <3> QED BY <3>1 DEF CountInv
  <2>4. CASE TelemetryLost
    <3>1. last' = last /\ here' = here /\ poll_count' \in Nat
      BY <2>1, <2>4, PollAssumption DEF TelemetryLost, Count
    <3> QED BY <2>1, <2>2, <3>1 DEF CountInv
  <2> QED BY <1>1, <2>3, <2>4
<1>2. CASE Reboot \/ PowerCut
  BY <1>2 DEF Reboot, PowerCut, Boot, CountInv
<1>3. CASE UNCHANGED <<last, poll_count, here>>
  BY <1>3 DEF CountInv
<1> QED
  BY <1>1, <1>2, <1>3
  DEF Next, Sync, SetShadow, Start, StartFails, Fetch, RejectConfig, Apply, ReportStored,
      ReportLost, AfterReport, vars, platform, ram, history

(* A poll_count that is not above the one before it says reboot, and there *)
(* was one.                                                                *)
THEOREM FalseRebootNever == Spec => NoFalseReboot
<1>1. Init => CountInv
  BY DEF Init, CountInv
<1>2. TypeInv /\ CountInv
        => [TelemetryArrives /\ here /\ last < MaxPolls => last' > last]_vars
  <2> SUFFICES ASSUME TypeInv, CountInv, TelemetryArrives, here, last < MaxPolls
               PROVE  last' > last
    OBVIOUS
  <2>1. poll_count \in 0..MaxPolls /\ last \in Nat /\ MaxPolls \in Nat /\ last' = Count
    BY PollAssumption DEF TypeInv, TypeOK, TelemetryArrives
  <2> QED BY <2>1 DEF CountInv, Count
<1> QED BY <1>1, <1>2, InitType, NextType, NextCount, PTL DEF Spec, NoFalseReboot

-------------------------------------------------------------------------------
\* The promise.

\* Every step keeps the document of a pass and what was applied of it.
LEMMA NextPass == TypeInv /\ PassInv /\ [Next]_vars => PassInv'
<1> SUFFICES ASSUME TypeInv, PassInv, [Next]_vars PROVE PassInv'
  OBVIOUS
<1>0. /\ shadow \in Shadow /\ current_config \in Shown
      /\ shadow.target_version \in Nat /\ shadow.current_version \in Nat
  BY PollAssumption DEF TypeInv, TypeOK, Shadow, Versions
<1>1. CASE SetShadow
  <2>1. PICK c \in Configs :
          shadow' = [shadow EXCEPT !.target_version = @ + 1, !.target_config = c]
    BY <1>1 DEF SetShadow
  <2>2. /\ shadow'.target_version = shadow.target_version + 1
        /\ shadow'.current_version = shadow.current_version
        /\ UNCHANGED <<pc, doc, current_config, reboot>>
    BY <1>0, <1>1, <2>1 DEF SetShadow, Shadow, ram
  <2>3. pc \in {"telemetry", "apply", "report"} => doc.target_version \in Nat
    BY PollAssumption DEF TypeInv, Shadow, Versions
  <2> QED BY <1>0, <2>2, <2>3 DEF PassInv
<1>2. CASE Start \/ StartFails \/ RejectConfig
  BY <1>2 DEF Start, StartFails, RejectConfig, PassInv, platform, ram
<1>3. CASE Fetch
  BY <1>0, <1>3 DEF Fetch, PassInv, platform
<1>4. CASE TelemetryArrives \/ TelemetryLost
  BY <1>4 DEF TelemetryArrives, TelemetryLost, AfterTelemetry, PassInv
<1>5. CASE Apply
  <2>1. doc.target_config \in Config
    BY <1>5 DEF Apply, TypeInv, Shadow
  <2>2. <<doc.target_config, current_config'>> \in Agreement
    BY <1>0, <1>5, <2>1, KeptType DEF Apply
  <2> QED BY <1>5, <2>1, <2>2 DEF Apply, PassInv, platform
<1>6. CASE ReportStored \/ ReportLost
  <2>1. doc.target_version \in shadow.current_version..shadow.target_version
    BY <1>6 DEF ReportStored, ReportLost, PassInv
  <2>2. /\ shadow'.target_version = shadow.target_version
        /\ shadow'.current_version \in {shadow.current_version, doc.target_version}
    BY <1>0, <1>6 DEF ReportStored, ReportLost, ReportVersion, Shadow
  <2>3. shadow'.current_version <= shadow'.target_version
    BY <1>0, <2>1, <2>2 DEF PassInv
  <2> QED BY <1>6, <2>3 DEF ReportStored, ReportLost, AfterReport, PassInv
<1>7. CASE Reboot \/ PowerCut
  BY <1>7 DEF Reboot, PowerCut, Boot, PassInv, platform
<1>8. CASE UNCHANGED vars
  BY <1>8 DEF vars, platform, ram, PassInv
<1> QED BY <1>1, <1>2, <1>3, <1>4, <1>5, <1>6, <1>7, <1>8 DEF Next, Sync

\* The report of a pass is one the promise allows.
LEMMA ReportSimulated ==
    ASSUME TypeInv, PassInv, ReportStored
    PROVE  Promise!Report
<1>0. /\ pc = "report" /\ shadow \in Shadow /\ current_config \in Shown
      /\ doc.target_version \in shadow.current_version..shadow.target_version
  BY DEF TypeInv, TypeOK, PassInv, ReportStored
<1>1. /\ shadow'.target_version = shadow.target_version
      /\ shadow'.target_config = shadow.target_config
      /\ shadow'.current_version = doc.target_version
      /\ shadow'.current_config = current_config
      /\ pc' = IF reboot THEN "reboot" ELSE "poll"
      /\ rebooted' = rebooted
  BY <1>0 DEF ReportStored, ReportVersion, AfterReport, history, Shadow
<1>2. ASSUME doc.target_version = shadow.target_version
      PROVE  /\ <<shadow.target_config, current_config>> \in Agreement
             /\ shadow.target_config \in {c \in Config : c.reboot} => pc' = "reboot"
  BY <1>0, <1>1, <1>2 DEF PassInv
<1> QED BY <1>0, <1>1, <1>2 DEF Promise!Report

\* Every step of the device and the platform, seen by the promise.
LEMMA StepSimulated ==
    ASSUME TypeInv, PassInv, [Next]_vars
    PROVE  [Promise!Next]_(Promise!vars)
<1> USE DEF Promise!vars, Promise!Next
<1>1. CASE SetShadow
  <2>1. PICK c \in Configs :
          shadow' = [shadow EXCEPT !.target_version = @ + 1, !.target_config = c]
    BY <1>1 DEF SetShadow
  <2>2. /\ c \in Config \cup {Malformed}
        /\ shadow'.target_version = shadow.target_version + 1
        /\ shadow'.target_config = c
        /\ shadow'.current_version = shadow.current_version
        /\ shadow'.current_config = shadow.current_config
        /\ rebooted' = FALSE /\ pc' = pc
    BY <1>1, <2>1, PollAssumption DEF SetShadow, TypeInv, TypeOK, Shadow
  <2>3. Promise!Write
    BY <2>2 DEF Promise!Write, TypeInv, TypeOK
  <2> QED BY <2>3
<1>2. CASE ReportStored
  BY <1>2, ReportSimulated
<1>3. CASE Reboot \/ PowerCut
  BY <1>3 DEF Reboot, PowerCut, Boot, platform, Promise!Restart
<1>4. CASE ReportLost
  BY <1>4 DEF ReportLost, AfterReport, history, Promise!Restart
<1>5. CASE Start \/ StartFails \/ Fetch \/ RejectConfig \/ Apply
  BY <1>5 DEF Start, StartFails, Fetch, RejectConfig, Apply, platform, history
<1>6. CASE TelemetryArrives \/ TelemetryLost
  BY <1>6 DEF TelemetryArrives, TelemetryLost, AfterTelemetry
<1>7. CASE UNCHANGED vars
  BY <1>7 DEF vars, platform, history
<1> QED BY <1>1, <1>2, <1>3, <1>4, <1>5, <1>6, <1>7 DEF Next, Sync

(* The polling samples implement the promise, a newer target pending at    *)
(* the report, lost reports and power cuts at any point included.          *)
THEOREM KeepsPromise == Spec => ImplementsPromise
<1>1. Init => PassInv
  BY DEF Init, PassInv
<1>2. Init => Promise!Init
  <2> SUFFICES ASSUME Init PROVE Promise!Init
    OBVIOUS
  <2>1. /\ EmptyConfig \in Config /\ EmptyConfig \notin {c \in Config : c.reboot}
        /\ DefaultConfig \in Shown /\ <<EmptyConfig, DefaultConfig>> \in Agreement
    BY PollAssumption DEF EmptyConfig, Config, DefaultConfig, Shown, Agreement, Keep
  <2> QED BY <2>1 DEF Init, Promise!Init, Promise!Kept, Promise!Converged
<1>3. TypeInv /\ PassInv /\ [Next]_vars => (TypeInv /\ PassInv)'
  BY NextType, NextPass
<1>4. TypeInv /\ PassInv /\ [Next]_vars => [Promise!Next]_(Promise!vars)
  BY StepSimulated
<1> QED BY <1>1, <1>2, <1>3, <1>4, InitType, PTL DEF Spec, ImplementsPromise, Promise!Spec

\* What was reported is behind what was written, and only what is kept is level with it.
KeptInv ==
    /\ shadow.target_version \in Nat
    /\ shadow.current_version \in 0..shadow.target_version
    /\ Promise!Kept

(* Whenever the platform shows equal versions, the settings it shows are   *)
(* what the target asks for, and a reboot it asks for has happened or is   *)
(* under way.                                                              *)
THEOREM PromiseIsKept == Spec => []Promise!Kept
<1>1. Promise!Init => KeptInv
  BY DEF Promise!Init, KeptInv
<1>2. KeptInv /\ [Promise!Next]_(Promise!vars) => KeptInv'
  <2> SUFFICES ASSUME KeptInv, [Promise!Next]_(Promise!vars) PROVE KeptInv'
    OBVIOUS
  <2> USE DEF KeptInv, Promise!Kept, Promise!Converged
  <2>1. CASE Promise!Write
    BY <2>1 DEF Promise!Write
  <2>2. CASE Promise!Report
    BY <2>2 DEF Promise!Report
  <2>3. CASE Promise!Restart
    BY <2>3 DEF Promise!Restart
  <2>4. CASE UNCHANGED Promise!vars
    BY <2>4 DEF Promise!vars
  <2> QED BY <2>1, <2>2, <2>3, <2>4 DEF Promise!Next
<1>3. KeptInv => Promise!Kept
  BY DEF KeptInv
<1> QED BY <1>1, <1>2, <1>3, KeepsPromise, PTL DEF ImplementsPromise, Promise!Spec
===============================================================================
