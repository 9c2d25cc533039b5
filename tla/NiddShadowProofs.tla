--------------------------- MODULE NiddShadowProofs ---------------------------
(***************************************************************************)
(* Theorems about NiddShadow, for every set of configurations, any number  *)
(* of writes, power cuts and frames in flight.                             *)
(***************************************************************************)
EXTENDS NiddShadow, TLAPS

\* A report that waits is about a version, and a document that is held is one.
DocInv ==
    /\ pc = "report" => applied_version \in Versions
    /\ doc # NoDoc => doc \in Shadow

TypeInv == TypeOK /\ DocInv

(* What is confirmed was stored.  A version whose reboot was obeyed, and    *)
(* whose record stands, is behind everything the next boot can learn: what *)
(* the platform holds, sends and has sent.                                 *)
ObeyedInv ==
    /\ stored \subseteq held
    /\ \A v \in obeyed : v <= shadow.current_version
    /\ pc # "reboot" =>
        \A v \in obeyed :
            /\ \A f \in shadows : v <= f.current_version
            /\ doc # NoDoc => v <= doc.current_version
    /\ pc = "report" => applied_version \notin obeyed
    /\ RebootOnlyConfirmed

(* Since applied_version only grows in a boot, remembering one timed-out   *)
(* version is enough.                                                      *)
TimeoutInv ==
    /\ \A v \in Versions :
        timeouts[v] # 0 =>
            /\ timeouts[v] = 1
            /\ v <= applied_version
            /\ v = applied_version => unconfirmed_version = v
    /\ pc = "report" => timeouts[applied_version] = 0

(* The loop is never ahead of the library's document; what it has applied  *)
(* of the newest is what that document says, and what it has not applied,  *)
(* between passes and in a report, it has been signalled.                  *)
NoticedInv ==
    /\ doc = NoDoc => applied_version = -1
    /\ doc # NoDoc =>
        /\ applied_version <= doc.target_version
        /\ applied_version = doc.target_version /\ doc.target_config # Malformed =>
             applied = Clamp(Keep(doc.target_config.interval, applied))
    /\ pc \in {"loop", "report"} /\ shadow_wakeup = 0 /\ doc # NoDoc =>
        doc.target_config = Malformed \/ applied_version = doc.target_version

(* Whatever is on its way, held, applied or ever reported is one of the    *)
(* targets written, and the newest is applied only if it parses.           *)
WrittenInv ==
    /\ \A f \in shadows \cup ({doc} \ {NoDoc}) :
        /\ f.target_version <= shadow.target_version
        /\ f.target_version = shadow.target_version =>
             f.target_config = shadow.target_config
    /\ \A v \in reports \cup {applied_version, sent} :
        /\ v <= shadow.target_version
        /\ v = shadow.target_version => shadow.target_config # Malformed

(* The next report is no older than the last one: every document this boot *)
(* can get to read is at least as new.  The platform shows some report.    *)
RiseInv ==
    /\ doc # NoDoc => doc.target_version >= sent
    /\ doc = NoDoc => \A f \in shadows : f.target_version >= sent
    /\ \A v \in reports \cup {shadow.current_version} : v <= sent

-------------------------------------------------------------------------------
\* Init satisfies the type invariant.
LEMMA InitType == Init => TypeInv
<1> SUFFICES ASSUME Init PROVE TypeInv
  OBVIOUS
<1> USE NiddAssumption DEF Init
<1>1. shadow \in Shadow
  BY DEF Shadow, Config, EmptyConfig, Versions
<1>2. timeouts \in [Versions -> Nat]
  BY DEF NoTimeouts
<1>3. applied \in Int /\ applied >= WakeMin
  OBVIOUS
<1>4. DocInv
  BY DEF DocInv
<1>5. resets \in 0..MaxResets
  OBVIOUS
<1>6. shadows \subseteq Shadow /\ stored \subseteq Versions /\ reports \subseteq Versions
      /\ obeyed \subseteq Versions /\ held \subseteq Versions /\ sent \in Versions
  BY DEF Versions
<1>7. applied_version \in Versions \cup {-1} /\ unconfirmed_version \in Versions \cup {-1}
  OBVIOUS
<1>8. /\ doc \in Shadow \cup {NoDoc} /\ shadow_wakeup \in {0, 1}
      /\ pc \in {"loop", "sync", "report", "reboot"}
      /\ reboot_asked \in BOOLEAN /\ rebooted \in BOOLEAN
  OBVIOUS
<1> HIDE NiddAssumption DEF Init
<1> QED BY <1>1, <1>2, <1>3, <1>4, <1>5, <1>6, <1>7, <1>8 DEF TypeInv, TypeOK

\* A boot leaves every variable typed.
LEMMA BootType ==
    ASSUME TypeInv, Boot
    PROVE  /\ shadows' \subseteq Shadow /\ stored' \subseteq Versions
           /\ doc' = NoDoc /\ shadow_wakeup' \in {0, 1} /\ pc' = "sync"
           /\ applied' \in Int /\ applied' >= WakeMin /\ applied_version' = -1
           /\ reboot_asked' \in BOOLEAN /\ unconfirmed_version' = -1
           /\ rebooted' \in BOOLEAN /\ timeouts' \in [Versions -> Nat]
<1>1. applied' \in Int /\ applied' >= WakeMin /\ applied_version' = -1
  BY NiddAssumption DEF Boot
<1>2. timeouts' \in [Versions -> Nat]
  BY DEF Boot, NoTimeouts
<1> QED BY <1>1, <1>2 DEF Boot

\* A pass that applies leaves typed RAM, with a version of the document it read.
LEMMA SyncType ==
    ASSUME TypeInv, SyncApplies
    PROVE  /\ doc \in Shadow
           /\ applied' \in Int /\ applied' >= WakeMin
           /\ applied_version' \in Versions
           /\ applied_version' >= applied_version
           /\ reboot_asked' \in BOOLEAN
           /\ unconfirmed_version' = unconfirmed_version
<1>1. doc \in Shadow /\ pc = "sync"
  BY DEF TypeInv, DocInv, SyncApplies
<1>2. /\ doc.target_version \in Versions /\ Versions \subseteq Nat
      /\ applied_version \in Versions \cup {-1} /\ applied_version \in Int
      /\ doc.target_version \in Nat
      /\ applied \in Int /\ applied >= WakeMin /\ WakeMin \in Nat
  BY <1>1, NiddAssumption DEF Shadow, Versions, TypeInv, TypeOK
<1>3. CASE doc.target_version > applied_version
  <2>1. doc.target_config \in Config /\ Apply(doc)
    BY <1>1, <1>3 DEF SyncApplies, Shadow
  <2>2. Keep(doc.target_config.interval, applied) \in Int
    BY <1>2, <2>1, NiddAssumption DEF Keep, Config
  <2>3. applied' \in Int /\ applied' >= WakeMin
    BY <1>2, <2>1, <2>2 DEF Apply, Clamp
  <2>4. applied_version' = doc.target_version
    BY <2>1 DEF Apply
  <2>6. applied_version' \in Versions /\ applied_version' >= applied_version
    BY <1>2, <1>3, <2>4
  <2>5. reboot_asked' \in BOOLEAN
    BY <2>1 DEF Apply, Config
  <2> QED BY <1>1, <2>3, <2>5, <2>6 DEF SyncApplies
<1>4. CASE ~(doc.target_version > applied_version)
  <2>1. UNCHANGED <<applied, applied_version, reboot_asked>>
    BY <1>4 DEF SyncApplies
  <2>2. applied_version \in Versions
    BY <1>2, <1>4
  <2>3. applied_version' >= applied_version
    BY <1>2, <2>1, <2>2
  <2>4. reboot_asked \in BOOLEAN
    BY DEF TypeInv, TypeOK
  <2> QED BY <1>1, <1>2, <2>1, <2>2, <2>3, <2>4 DEF SyncApplies
<1> QED BY <1>3, <1>4

\* Every step keeps the type invariant.
LEMMA NextType == TypeInv /\ [Next]_vars => TypeInv'
<1> SUFFICES ASSUME TypeInv, [Next]_vars PROVE TypeInv'
  OBVIOUS
<1>0. Versions \subseteq Nat /\ MaxVersion \in Nat
  BY NiddAssumption DEF Versions
<1> USE <1>0 DEF TypeInv, TypeOK, DocInv
<1>1. CASE SetShadow
  <2>1. PICK c \in Configs :
          shadow' = [shadow EXCEPT !.target_version = @ + 1, !.target_config = c]
    BY <1>1 DEF SetShadow
  <2>2. shadow.target_version + 1 \in Versions
    BY <1>1 DEF SetShadow, Shadow, Versions
  <2>3. shadow' \in Shadow
    BY <2>1, <2>2, NiddAssumption DEF Shadow
  <2> QED BY <1>1, <2>3 DEF SetShadow, air, ram, told
<1>2. CASE SendShadow
  BY <1>2 DEF SendShadow, ram, told
<1>3. CASE ReceiveReport
  <2>1. PICK v \in reports :
          /\ reports' = reports \ {v} /\ stored' = stored \cup {v}
          /\ shadow' = [shadow EXCEPT !.current_version = v]
          /\ held' = held \cup {v} /\ obeyed' \subseteq obeyed
    BY <1>3 DEF ReceiveReport
  <2>2. shadow' \in Shadow
    BY <2>1 DEF Shadow
  <2> QED BY <1>3, <2>1, <2>2 DEF ReceiveReport, ram
<1>4. CASE LoseFrame
  <2>1. shadows' \subseteq shadows /\ stored' \subseteq stored /\ reports' \subseteq reports
    BY <1>4 DEF LoseFrame
  <2> QED BY <1>4, <2>1 DEF LoseFrame, ram, told
<1>5. CASE DeliverShadow
  <2>1. PICK f \in shadows :
          /\ shadows' = shadows \ {f}
          /\ \/ doc' = f /\ shadow_wakeup' = 1
             \/ doc' = doc /\ shadow_wakeup' = shadow_wakeup
    BY <1>5 DEF DeliverShadow, ShadowEvent
  <2>2. f \in Shadow /\ shadows' \subseteq Shadow
    BY <2>1
  <2>3. doc' \in Shadow \cup {NoDoc} /\ shadow_wakeup' \in {0, 1}
    BY <2>1, <2>2
  <2>4. DocInv'
    BY <1>5, <2>1, <2>2 DEF DeliverShadow, ram
  <2> QED BY <1>5, <2>2, <2>3, <2>4 DEF DeliverShadow, ram, told
<1>6. CASE DeliverStored
  <2>1. PICK v \in stored :
          /\ stored' = stored \ {v}
          /\ doc' = IF doc # NoDoc /\ v > doc.current_version
                    THEN [doc EXCEPT !.current_version = v] ELSE doc
          /\ IF pc = "report" /\ v = applied_version THEN Confirmed ELSE UNCHANGED <<pc, obeyed>>
    BY <1>6 DEF DeliverStored
  <2>2. doc' \in Shadow \/ doc' = doc
    BY <2>1 DEF Shadow
  <2>3. pc' \in {"loop", "sync", "report", "reboot"} /\ obeyed' \subseteq Versions
    BY <2>1 DEF Confirmed
  <2>4. pc' = "report" => pc = "report"
    BY <2>1 DEF Confirmed
  <2> QED BY <1>6, <2>1, <2>2, <2>3, <2>4 DEF DeliverStored, ram, told
<1>7. CASE SyncFails
  BY <1>7 DEF SyncFails, air, ram, told
<1>8. CASE SyncDone \/ ReportFails
  BY <1>8, SyncType DEF SyncDone, ReportFails, SyncApplies, air, told
<1>9. CASE SyncReports
  BY <1>9, SyncType DEF SyncReports, SyncApplies
<1>10. CASE ReportTimesOut
  BY <1>10 DEF ReportTimesOut, air, told
<1>11. CASE Wake
  BY <1>11 DEF Wake, air, told, NoTimeouts
<1>12. CASE TakeWakeup
  BY <1>12 DEF TakeWakeup, air, ram, told
<1>13. CASE SampleReboot
  BY <1>13, BootType DEF SampleReboot, told
<1>14. CASE PowerCut
  <2>1. resets' \in 0..MaxResets
    BY <1>14, NiddAssumption DEF PowerCut
  <2> QED BY <1>14, <2>1, BootType DEF PowerCut, told
<1>15. CASE UNCHANGED vars
  BY <1>15 DEF vars, air, ram, told
<1> QED
  BY <1>1, <1>2, <1>3, <1>4, <1>5, <1>6, <1>7, <1>8, <1>9, <1>10, <1>11, <1>12, <1>13, <1>14, <1>15
  DEF Next, Carrier, Device, Sync

\* Every reachable state is typed; no interval under the carrier's floor is ever applied.
THEOREM TypeCorrect == Spec => []TypeOK
<1>1. Spec => []TypeInv
  BY InitType, NextType, PTL DEF Spec
<1>2. TypeInv => TypeOK
  BY DEF TypeInv
<1> QED BY <1>1, <1>2, PTL

-------------------------------------------------------------------------------
\* What an obeyed version on record is behind does not fall below it.
LEMMA NextObeyed == TypeInv /\ ObeyedInv /\ [Next]_vars => ObeyedInv'
<1> SUFFICES ASSUME TypeInv, ObeyedInv, [Next]_vars PROVE ObeyedInv'
  OBVIOUS
<1>0. /\ Versions \subseteq Int /\ shadow \in Shadow /\ shadows \subseteq Shadow
      /\ stored \subseteq Versions /\ reports \subseteq Versions /\ obeyed \subseteq Versions
      /\ doc \in Shadow \cup {NoDoc}
      /\ shadow.current_version \in Int
      /\ applied_version \in Int
  BY DEF TypeInv, TypeOK, Versions, Shadow
<1> USE <1>0 DEF ObeyedInv, RebootOnlyConfirmed
<1>1. CASE SetShadow
  <2>1. shadow'.current_version = shadow.current_version
    BY <1>1 DEF SetShadow, Shadow
  <2> QED BY <1>1, <2>1 DEF SetShadow, air, ram, told
<1>2. CASE SendShadow
  <2>1. shadows' = shadows \cup {shadow}
    BY <1>2 DEF SendShadow
  <2>2. UNCHANGED <<shadow, stored, held, doc, pc, applied_version, obeyed>>
    BY <1>2 DEF SendShadow, ram, told
  <2> QED BY <2>1, <2>2
<1>3. CASE ReceiveReport
  <2>1. PICK v \in reports :
          /\ stored' = stored \cup {v} /\ held' = held \cup {v}
          /\ obeyed' = {w \in obeyed : w <= v}
          /\ shadow' = [shadow EXCEPT !.current_version = v]
    BY <1>3 DEF ReceiveReport
  <2>2. shadow'.current_version = v
    BY <2>1 DEF Shadow
  <2>3. UNCHANGED <<shadows, doc, pc, applied_version>>
    BY <1>3 DEF ReceiveReport, ram
  <2> QED BY <2>1, <2>2, <2>3
<1>4. CASE LoseFrame
  BY <1>4 DEF LoseFrame, ram, told
<1>5. CASE DeliverShadow
  <2>1. PICK f \in shadows : shadows' = shadows \ {f} /\ (doc' = f \/ doc' = doc)
    BY <1>5 DEF DeliverShadow
  <2>2. UNCHANGED <<shadow, stored, held, pc, applied_version, obeyed>>
    BY <1>5 DEF DeliverShadow, ram, told
  <2> QED BY <2>1, <2>2
<1>6. CASE DeliverStored
  <2>1. PICK v \in stored :
          /\ stored' = stored \ {v}
          /\ doc' = IF doc # NoDoc /\ v > doc.current_version
                    THEN [doc EXCEPT !.current_version = v] ELSE doc
          /\ IF pc = "report" /\ v = applied_version THEN Confirmed ELSE UNCHANGED <<pc, obeyed>>
    BY <1>6 DEF DeliverStored
  <2>2. UNCHANGED <<shadow, shadows, held, applied_version>>
    BY <1>6 DEF DeliverStored, ram, told
  <2>3. doc # NoDoc =>
          \A w \in Versions : w <= doc.current_version => w <= doc'.current_version
    BY <2>1 DEF Shadow
  <2>4. doc = NoDoc => doc' = NoDoc
    BY <2>1
  <2>5. CASE pc = "report" /\ v = applied_version
    <3>1. CASE reboot_asked
      <4>1. /\ pc' = "reboot"
            /\ obeyed' = IF v <= shadow.current_version THEN obeyed \cup {v} ELSE obeyed
        BY <2>1, <2>5, <3>1 DEF Confirmed
      <4> QED BY <2>1, <2>2, <2>5, <4>1
    <3>2. CASE ~reboot_asked
      <4>1. pc' = "loop" /\ obeyed' = obeyed
        BY <2>1, <2>5, <3>2 DEF Confirmed
      <4> QED BY <2>1, <2>2, <2>3, <2>4, <2>5, <4>1
    <3> QED BY <3>1, <3>2
  <2>6. CASE ~(pc = "report" /\ v = applied_version)
    <3>1. pc' = pc /\ obeyed' = obeyed
      BY <2>1, <2>6
    <3> QED BY <2>1, <2>2, <2>3, <2>4, <3>1
  <2> QED BY <2>5, <2>6
<1>7. CASE SyncFails
  BY <1>7 DEF SyncFails, air, ram, told
<1>8. CASE SyncDone \/ ReportFails
  BY <1>8 DEF SyncDone, ReportFails, SyncApplies, air, told
<1>9. CASE SyncReports
  <2>1. UNCHANGED <<shadow, shadows, stored, held, doc, obeyed>> /\ pc' = "report" /\ pc = "sync"
    BY <1>9 DEF SyncReports, SyncApplies
  <2>2. doc # NoDoc /\ ~(applied_version' <= doc.current_version)
    BY <1>9 DEF SyncReports, SyncApplies, NothingToReport
  <2>3. applied_version' \notin obeyed
    BY <2>1, <2>2
  <2> QED BY <2>1, <2>3
<1>10. CASE ReportTimesOut \/ Wake \/ TakeWakeup
  BY <1>10 DEF ReportTimesOut, Wake, TakeWakeup, air, ram, told
<1>11. CASE SampleReboot \/ PowerCut
  <2>1. /\ shadows' = {} /\ stored' = {} /\ doc' = NoDoc /\ pc' = "sync"
        /\ UNCHANGED <<shadow, held, obeyed>>
    BY <1>11 DEF SampleReboot, PowerCut, Boot, told
  <2> QED BY <2>1
<1>12. CASE UNCHANGED vars
  BY <1>12 DEF vars, air, ram, told
<1> QED
  BY <1>1, <1>2, <1>3, <1>4, <1>5, <1>6, <1>7, <1>8, <1>9, <1>10, <1>11, <1>12
  DEF Next, Carrier, Device, Sync

\* The invariant about obeyed reboots holds throughout.
LEMMA ObeyedHolds == Spec => [](TypeInv /\ ObeyedInv)
<1>1. Init => TypeInv /\ ObeyedInv
  BY InitType DEF Init, ObeyedInv, RebootOnlyConfirmed
<1>2. TypeInv /\ ObeyedInv /\ [Next]_vars => (TypeInv /\ ObeyedInv)'
  BY NextType, NextObeyed
<1> QED BY <1>1, <1>2, PTL DEF Spec

(* A device that is about to reboot does so for a version the platform     *)
(* stored, whatever timed out, was lost or was overtaken.                  *)
THEOREM RebootsConfirmed == Spec => []RebootOnlyConfirmed
<1>1. ObeyedInv => RebootOnlyConfirmed
  BY DEF ObeyedInv
<1> QED BY <1>1, ObeyedHolds, PTL

(* No version's reboot is obeyed twice, however many boots, losses and     *)
(* repeats come between, while the platform's record of it stands.         *)
THEOREM NoRebootLoop == Spec => RebootAtMostOnce
<1>1. ObeyedInv => [pc = "report" /\ pc' = "reboot" => applied_version \notin obeyed]_vars
  BY DEF ObeyedInv
<1> QED BY <1>1, ObeyedHolds, PTL DEF RebootAtMostOnce

-------------------------------------------------------------------------------
\* A version that timed out since the wake is the unconfirmed one, or has been superseded.
LEMMA NextTimeout == TypeInv /\ TimeoutInv /\ [Next]_vars => TimeoutInv'
<1> SUFFICES ASSUME TypeInv, TimeoutInv, [Next]_vars PROVE TimeoutInv'
  OBVIOUS
<1>0. /\ Versions \subseteq Int /\ applied_version \in Int
      /\ timeouts \in [Versions -> Nat]
      /\ pc = "report" => applied_version \in Versions
  BY DEF TypeInv, TypeOK, DocInv, Versions
<1> USE <1>0 DEF TimeoutInv
<1>1. CASE SetShadow
  BY <1>1 DEF SetShadow, ram
<1>2. CASE SendShadow \/ ReceiveReport \/ LoseFrame \/ DeliverShadow
  BY <1>2 DEF SendShadow, ReceiveReport, LoseFrame, DeliverShadow, ram
<1>3. CASE DeliverStored
  <2>1. pc' = "report" => pc = "report"
    BY <1>3 DEF DeliverStored, Confirmed
  <2> QED BY <1>3, <2>1 DEF DeliverStored, ram
<1>4. CASE SyncFails
  BY <1>4 DEF SyncFails, ram
<1>5. CASE SyncDone \/ SyncReports \/ ReportFails
  <2>1. /\ applied_version' \in Versions /\ applied_version' >= applied_version
        /\ unconfirmed_version' = unconfirmed_version /\ timeouts' = timeouts
    BY <1>5, SyncType DEF SyncDone, SyncReports, ReportFails
  <2>2. pc' = "report" => applied_version' # unconfirmed_version
    BY <1>5 DEF SyncDone, SyncReports, ReportFails, NothingToReport
  <2>3. \A v \in Versions : timeouts[v] # 0 =>
          /\ v <= applied_version'
          /\ v = applied_version' => unconfirmed_version = v
    BY <2>1
  <2> QED BY <2>1, <2>2, <2>3
<1>6. CASE ReportTimesOut
  <2>1. /\ pc = "report" /\ pc' = "loop" /\ applied_version' = applied_version
        /\ unconfirmed_version' = applied_version
        /\ timeouts' = [timeouts EXCEPT ![applied_version] = @ + 1]
    BY <1>6 DEF ReportTimesOut
  <2> QED BY <2>1
<1>7. CASE Wake
  BY <1>7 DEF Wake, NoTimeouts
<1>8. CASE TakeWakeup
  BY <1>8 DEF TakeWakeup, ram
<1>9. CASE SampleReboot \/ PowerCut
  BY <1>9 DEF SampleReboot, PowerCut, Boot, NoTimeouts
<1>10. CASE UNCHANGED vars
  BY <1>10 DEF vars, ram
<1> QED
  BY <1>1, <1>2, <1>3, <1>4, <1>5, <1>6, <1>7, <1>8, <1>9, <1>10 DEF Next, Carrier, Device, Sync

\* Between two wakes no version's report times out twice.
THEOREM TimeoutsBounded == Spec => []OneTimeoutPerWake
<1>1. Init => TypeInv /\ TimeoutInv
  BY InitType DEF Init, TimeoutInv, NoTimeouts
<1>2. TypeInv /\ TimeoutInv /\ [Next]_vars => (TypeInv /\ TimeoutInv)'
  BY NextType, NextTimeout
<1>3. TypeInv /\ TimeoutInv => OneTimeoutPerWake
  <2> SUFFICES ASSUME TimeoutInv, NEW v \in Versions PROVE timeouts[v] <= 1
    BY DEF OneTimeoutPerWake
  <2> QED BY DEF TimeoutInv
<1> QED BY <1>1, <1>2, <1>3, PTL DEF Spec

-------------------------------------------------------------------------------
\* What is kept and clamped once stays so.
LEMMA ClampSettles ==
    ASSUME NEW value \in Int \cup {Absent}, NEW old \in Int, old >= WakeMin, NEW new,
           new = Clamp(Keep(value, old))
    PROVE  new = Clamp(Keep(value, new))
  BY NiddAssumption DEF Clamp, Keep

\* A pass that applies leaves the newest document applied.
LEMMA SyncNoticed ==
    ASSUME TypeInv, NoticedInv, SyncApplies
    PROVE  /\ doc # NoDoc
           /\ applied_version' = doc.target_version
           /\ doc.target_config # Malformed =>
                applied' = Clamp(Keep(doc.target_config.interval, applied'))
<1>0. /\ doc # NoDoc /\ doc \in Shadow
      /\ doc.target_version \in Int /\ applied_version \in Int
      /\ applied \in Int /\ applied >= WakeMin
  BY DEF SyncApplies, TypeInv, TypeOK, DocInv, Shadow, Versions
<1>1. CASE doc.target_version > applied_version
  <2>1. Apply(doc) /\ doc.target_config \in Config
    BY <1>0, <1>1 DEF SyncApplies, Shadow
  <2>2. doc.target_config.interval \in Int \cup {Absent}
    BY <2>1, NiddAssumption DEF Config
  <2>3. applied' = Clamp(Keep(doc.target_config.interval, applied))
    BY <2>1 DEF Apply
  <2>4. applied' = Clamp(Keep(doc.target_config.interval, applied'))
    BY <1>0, <2>2, <2>3, ClampSettles
  <2> QED BY <1>0, <2>1, <2>4 DEF Apply
<1>2. CASE ~(doc.target_version > applied_version)
  BY <1>0, <1>2 DEF SyncApplies, NoticedInv
<1> QED BY <1>1, <1>2

\* No step leaves the newest document both unapplied and unsignalled.
LEMMA NextNoticed == TypeInv /\ NoticedInv /\ [Next]_vars => NoticedInv'
<1> SUFFICES ASSUME TypeInv, NoticedInv, [Next]_vars PROVE NoticedInv'
  OBVIOUS
<1>0. /\ doc # NoDoc => doc \in Shadow /\ doc.target_version \in Int
      /\ NoDoc \notin Shadow /\ applied_version \in Int /\ shadows \subseteq Shadow
  BY NiddAssumption DEF TypeInv, TypeOK, DocInv, Shadow, Versions
<1>1. CASE SetShadow \/ SendShadow \/ ReceiveReport \/ LoseFrame
  BY <1>1 DEF NoticedInv, SetShadow, SendShadow, ReceiveReport, LoseFrame, ram
<1>2. CASE DeliverShadow
  <2>1. PICK f \in shadows :
          \/ /\ doc = NoDoc \/ f.target_version > doc.target_version
             /\ doc' = f /\ shadow_wakeup' = 1
          \/ doc' = doc /\ shadow_wakeup' = shadow_wakeup
    BY <1>2 DEF DeliverShadow, ShadowEvent
  <2>2. UNCHANGED <<applied, applied_version, pc>>
    BY <1>2 DEF DeliverShadow, ram
  <2>3. f \in Shadow /\ f # NoDoc /\ f.target_version \in Nat
    BY <1>0, <2>1, NiddAssumption DEF Shadow, Versions
  <2>4. CASE doc' = f /\ shadow_wakeup' = 1 /\ (doc = NoDoc \/ f.target_version > doc.target_version)
    <3>1. applied_version < f.target_version
      BY <1>0, <2>3, <2>4 DEF NoticedInv
    <3> QED BY <1>0, <2>2, <2>3, <2>4, <3>1 DEF NoticedInv
  <2>5. CASE doc' = doc /\ shadow_wakeup' = shadow_wakeup
    BY <2>2, <2>5 DEF NoticedInv
  <2> QED BY <2>1, <2>4, <2>5
<1>3. CASE DeliverStored
  <2>1. UNCHANGED <<applied, applied_version, shadow_wakeup>>
    BY <1>3 DEF DeliverStored, ram
  <2>2. \/ doc' = doc
        \/ /\ doc # NoDoc /\ doc' \in Shadow
           /\ doc'.target_version = doc.target_version
           /\ doc'.target_config = doc.target_config
    <3>1. PICK v \in stored :
            doc' = IF doc # NoDoc /\ v > doc.current_version
                   THEN [doc EXCEPT !.current_version = v] ELSE doc
      BY <1>3 DEF DeliverStored
    <3>2. v \in Versions
      BY DEF TypeInv, TypeOK
    <3> QED BY <1>0, <3>1, <3>2 DEF Shadow
  <2>3. pc' = pc \/ (pc = "report" /\ pc' \in {"loop", "reboot"})
    BY <1>3 DEF DeliverStored, Confirmed
  <2> QED BY <1>0, <2>1, <2>2, <2>3 DEF NoticedInv
<1>4. CASE SyncFails
  <2>1. doc = NoDoc \/ doc.target_config = Malformed
    BY <1>4 DEF SyncFails
  <2> QED BY <1>4, <2>1 DEF NoticedInv, SyncFails, air, ram
<1>5. CASE SyncDone \/ SyncReports \/ ReportFails
  <2>1. SyncApplies /\ doc' = doc
    BY <1>5 DEF SyncDone, SyncReports, ReportFails
  <2> QED BY <1>0, <2>1, SyncNoticed DEF NoticedInv
<1>6. CASE ReportTimesOut \/ Wake \/ TakeWakeup
  BY <1>6 DEF NoticedInv, ReportTimesOut, Wake, TakeWakeup, ram
<1>7. CASE SampleReboot \/ PowerCut
  BY <1>7 DEF NoticedInv, SampleReboot, PowerCut, Boot
<1>8. CASE UNCHANGED vars
  BY <1>8 DEF NoticedInv, vars, ram
<1> QED BY <1>1, <1>2, <1>3, <1>4, <1>5, <1>6, <1>7, <1>8 DEF Next, Carrier, Device, Sync

\* No wakeup is lost: an unapplied document that parses has the semaphore given for it.
THEOREM NoLostWakeup == Spec => []NothingUnnoticed
<1>1. Init => TypeInv /\ NoticedInv
  BY InitType DEF Init, NoticedInv
<1>2. TypeInv /\ NoticedInv /\ [Next]_vars => (TypeInv /\ NoticedInv)'
  BY NextType, NextNoticed
<1>3. NoticedInv => NothingUnnoticed
  BY DEF NoticedInv, NothingUnnoticed
<1> QED BY <1>1, <1>2, <1>3, PTL DEF Spec

-------------------------------------------------------------------------------
\* A pass applies, and so reports, a target that parses.
LEMMA SyncWritten ==
    ASSUME TypeInv, WrittenInv, SyncApplies
    PROVE  /\ applied_version' <= shadow.target_version
           /\ applied_version' = shadow.target_version => shadow.target_config # Malformed
  BY DEF SyncApplies, Apply, WrittenInv

\* Nothing unwritten and nothing unparsed gets on its way.
LEMMA NextWritten == TypeInv /\ WrittenInv /\ [Next]_vars => WrittenInv'
<1> SUFFICES ASSUME TypeInv, WrittenInv, [Next]_vars PROVE WrittenInv'
  OBVIOUS
<1>0. /\ shadow \in Shadow /\ shadow.target_version \in Nat
      /\ \A f \in shadows \cup ({doc} \ {NoDoc}) : f \in Shadow /\ f.target_version \in Nat
      /\ \A v \in reports \cup {applied_version, sent} : v \in Int
  BY NiddAssumption DEF TypeInv, TypeOK, DocInv, Shadow, Versions
<1>1. CASE SetShadow
  <2>1. /\ shadow'.target_version = shadow.target_version + 1
        /\ UNCHANGED <<shadows, doc, reports, applied_version, sent>>
    BY <1>0, <1>1 DEF SetShadow, Shadow, air, ram, told
  <2>2. \A f \in shadows \cup ({doc} \ {NoDoc}) : f.target_version < shadow'.target_version
    BY <1>0, <2>1 DEF WrittenInv
  <2>3. \A v \in reports \cup {applied_version, sent} : v < shadow'.target_version
    <3>1. \A v \in reports \cup {applied_version, sent} : v \in Int /\ v <= shadow.target_version
      BY <1>0 DEF WrittenInv
    <3>2. \A x, y \in Int : x <= y => x < y + 1
      OBVIOUS
    <3>3. shadow.target_version \in Int /\ shadow'.target_version = shadow.target_version + 1
      BY <1>0, <2>1
    <3> QED BY <3>1, <3>2, <3>3
  <2>4. /\ \A f \in shadows' \cup ({doc'} \ {NoDoc}) : f.target_version < shadow'.target_version
        /\ \A v \in reports' \cup {applied_version', sent'} : v < shadow'.target_version
    BY <2>1, <2>2, <2>3
  <2>5. /\ \A f \in shadows' \cup ({doc'} \ {NoDoc}) : f.target_version \in Int
        /\ \A v \in reports' \cup {applied_version', sent'} : v \in Int
        /\ shadow'.target_version \in Int
    BY <1>0, <2>1
  <2>6. \A x, y \in Int : x < y => x <= y /\ x # y
    OBVIOUS
  <2> QED BY <2>4, <2>5, <2>6 DEF WrittenInv
<1>2. CASE SendShadow
  <2>1. UNCHANGED <<shadow, doc, reports, applied_version, sent>> /\ shadows' = shadows \cup {shadow}
    BY <1>2 DEF SendShadow, ram, told
  <2> QED BY <1>0, <2>1 DEF WrittenInv
<1>3. CASE ReceiveReport
  <2>1. /\ UNCHANGED <<doc, shadows, applied_version, sent>> /\ reports' \subseteq reports
        /\ shadow'.target_version = shadow.target_version
        /\ shadow'.target_config = shadow.target_config
    BY <1>0, <1>3 DEF ReceiveReport, ram, Shadow
  <2> QED BY <2>1 DEF WrittenInv
<1>4. CASE LoseFrame
  <2>1. /\ UNCHANGED <<shadow, doc, applied_version, sent>>
        /\ reports' \subseteq reports /\ shadows' \subseteq shadows
    BY <1>4 DEF LoseFrame, ram, told
  <2> QED BY <2>1 DEF WrittenInv
<1>5. CASE DeliverShadow
  <2>1. /\ UNCHANGED <<shadow, reports, applied_version, sent>>
        /\ shadows' \subseteq shadows /\ (doc' = doc \/ doc' \in shadows)
    BY <1>5 DEF DeliverShadow, ram, told
  <2> QED BY <2>1 DEF WrittenInv
<1>6. CASE DeliverStored
  <2>1. /\ UNCHANGED <<shadow, shadows, reports, applied_version, sent>>
        /\ \/ doc' = doc
           \/ /\ doc # NoDoc
              /\ doc'.target_version = doc.target_version
              /\ doc'.target_config = doc.target_config
    BY <1>6 DEF DeliverStored, ram, told, TypeInv, DocInv, Shadow
  <2> QED BY <2>1 DEF WrittenInv
<1>7. CASE SyncFails \/ ReportTimesOut \/ Wake \/ TakeWakeup
  BY <1>7 DEF SyncFails, ReportTimesOut, Wake, TakeWakeup, WrittenInv, air, ram, told
<1>8. CASE SyncDone \/ SyncReports \/ ReportFails
  <2>1. /\ SyncApplies /\ UNCHANGED <<shadow, shadows, doc>>
        /\ reports' \subseteq reports \cup {applied_version'}
        /\ sent' \in {sent, applied_version'}
    BY <1>8 DEF SyncDone, SyncReports, ReportFails, air, told
  <2> QED BY <2>1, SyncWritten DEF WrittenInv
<1>9. CASE SampleReboot \/ PowerCut
  <2>1. /\ UNCHANGED <<shadow, reports, sent>> /\ shadows' = {} /\ doc' = NoDoc
        /\ applied_version' = -1
    BY <1>9 DEF SampleReboot, PowerCut, Boot, told
  <2> QED BY <1>0, <2>1 DEF WrittenInv
<1>10. CASE UNCHANGED vars
  BY <1>10 DEF vars, air, ram, told, WrittenInv
<1> QED
  BY <1>1, <1>2, <1>3, <1>4, <1>5, <1>6, <1>7, <1>8, <1>9, <1>10
  DEF Next, Carrier, Device, Sync

\* No document gets to be read that is older than the last report.
LEMMA NextRise ==
    TypeInv /\ NoticedInv /\ WrittenInv /\ RiseInv /\ [Next]_vars => RiseInv'
<1> SUFFICES ASSUME TypeInv, NoticedInv, WrittenInv, RiseInv, [Next]_vars PROVE RiseInv'
  OBVIOUS
<1>0. /\ shadow \in Shadow /\ shadow.target_version \in Nat /\ sent \in Nat
      /\ \A f \in shadows \cup ({doc} \ {NoDoc}) : f \in Shadow /\ f.target_version \in Nat
      /\ NoDoc \notin Shadow
      /\ \A v \in reports \cup {shadow.current_version} : v \in Nat
  BY NiddAssumption DEF TypeInv, TypeOK, DocInv, Shadow, Versions
<1>1. CASE SetShadow
  <2>1. /\ UNCHANGED <<shadows, doc, reports, sent>>
        /\ shadow'.current_version = shadow.current_version
    BY <1>0, <1>1 DEF SetShadow, Shadow, air, told
  <2> QED BY <2>1 DEF RiseInv
<1>2. CASE SendShadow
  <2>1. UNCHANGED <<shadow, doc, reports, sent>> /\ shadows' = shadows \cup {shadow}
    BY <1>2 DEF SendShadow, told
  <2>2. sent <= shadow.target_version
    BY DEF WrittenInv
  <2> QED BY <2>1, <2>2 DEF RiseInv
<1>3. CASE ReceiveReport
  <2>1. PICK v \in reports :
          reports' = reports \ {v} /\ shadow' = [shadow EXCEPT !.current_version = v]
    BY <1>3 DEF ReceiveReport
  <2>2. shadow'.current_version = v /\ UNCHANGED <<shadows, doc, sent>>
    BY <1>0, <1>3, <2>1 DEF ReceiveReport, Shadow
  <2> QED BY <2>1, <2>2 DEF RiseInv
<1>4. CASE LoseFrame
  <2>1. /\ UNCHANGED <<shadow, doc, sent>>
        /\ reports' \subseteq reports /\ shadows' \subseteq shadows
    BY <1>4 DEF LoseFrame, told
  <2> QED BY <2>1 DEF RiseInv
<1>5. CASE DeliverShadow
  <2>1. PICK f \in shadows :
          \/ (doc = NoDoc \/ f.target_version > doc.target_version) /\ doc' = f
          \/ doc' = doc
    BY <1>5 DEF DeliverShadow
  <2>2. UNCHANGED <<shadow, reports, sent>> /\ shadows' \subseteq shadows
    BY <1>5 DEF DeliverShadow, told
  <2>3. CASE doc' = doc
    BY <2>2, <2>3 DEF RiseInv
  <2>4. CASE doc = NoDoc /\ doc' = f
    BY <1>0, <2>2, <2>4 DEF RiseInv
  <2>5. CASE doc # NoDoc /\ f.target_version > doc.target_version /\ doc' = f
    <3>1. doc.target_version \in Nat /\ f.target_version \in Nat /\ f # NoDoc
      BY <1>0, <2>5
    <3>2. f.target_version >= sent
      BY <1>0, <2>5, <3>1 DEF RiseInv
    <3> QED BY <2>2, <2>5, <3>1, <3>2 DEF RiseInv
  <2> QED BY <2>1, <2>3, <2>4, <2>5
<1>6. CASE DeliverStored
  <2>1. /\ UNCHANGED <<shadow, reports, sent>> /\ shadows' = shadows
        /\ \/ doc' = doc
           \/ doc # NoDoc /\ doc' # NoDoc /\ doc'.target_version = doc.target_version
    <3>1. PICK v \in stored :
            doc' = IF doc # NoDoc /\ v > doc.current_version
                   THEN [doc EXCEPT !.current_version = v] ELSE doc
      BY <1>6 DEF DeliverStored
    <3>2. v \in Versions
      BY DEF TypeInv, TypeOK
    <3> QED BY <1>0, <1>6, <3>1, <3>2 DEF DeliverStored, told, Shadow
  <2> QED BY <2>1 DEF RiseInv
<1>7. CASE SyncReports
  <2>1. SyncApplies /\ UNCHANGED <<shadow, shadows, doc>> /\ sent' = applied_version'
        /\ reports' = reports \cup {applied_version'}
    BY <1>7 DEF SyncReports
  <2>2. doc # NoDoc /\ sent' = doc.target_version /\ doc.target_version \in Nat
    BY <1>0, <2>1, SyncNoticed
  <2>3. sent <= sent'
    BY <2>2 DEF RiseInv
  <2>4. \A v \in reports \cup {shadow.current_version} : v <= sent'
    BY <1>0, <2>2, <2>3 DEF RiseInv
  <2> QED BY <1>0, <2>1, <2>2, <2>4 DEF RiseInv
<1>8. CASE SyncFails \/ SyncDone \/ ReportFails \/ ReportTimesOut \/ Wake \/ TakeWakeup
  <2>1. UNCHANGED <<shadow, shadows, reports, doc, sent>>
    BY <1>8 DEF SyncFails, SyncDone, ReportFails, ReportTimesOut, Wake, TakeWakeup, air, told
  <2> QED BY <2>1 DEF RiseInv
<1>9. CASE SampleReboot \/ PowerCut
  <2>1. UNCHANGED <<shadow, reports, sent>> /\ shadows' = {} /\ doc' = NoDoc
    BY <1>9 DEF SampleReboot, PowerCut, Boot, told
  <2> QED BY <2>1 DEF RiseInv
<1>10. CASE UNCHANGED vars
  BY <1>10 DEF vars, air, told, RiseInv
<1> QED
  BY <1>1, <1>2, <1>3, <1>4, <1>5, <1>6, <1>7, <1>8, <1>9, <1>10
  DEF Next, Carrier, Device, Sync

\* The four invariants hold throughout.
LEMMA RiseHolds == Spec => [](TypeInv /\ NoticedInv /\ WrittenInv /\ RiseInv)
<1>1. Init => TypeInv /\ NoticedInv /\ WrittenInv /\ RiseInv
  <2> SUFFICES ASSUME Init PROVE TypeInv /\ NoticedInv /\ WrittenInv /\ RiseInv
    OBVIOUS
  <2>1. EmptyConfig \in Config /\ Malformed \notin Config
    BY NiddAssumption DEF EmptyConfig, Config
  <2>2. WrittenInv
    BY <2>1 DEF Init, WrittenInv
  <2> QED BY <2>2, InitType DEF Init, NoticedInv, RiseInv
<1>2. TypeInv /\ NoticedInv /\ WrittenInv /\ RiseInv /\ [Next]_vars
      => (TypeInv /\ NoticedInv /\ WrittenInv /\ RiseInv)'
  BY NextType, NextNoticed, NextWritten, NextRise
<1> QED BY <1>1, <1>2, PTL DEF Spec

\* A write and a report made are all that the promise sees.
LEMMA StepSimulated ==
    ASSUME TypeInv, NoticedInv, WrittenInv, RiseInv, [Next]_vars
    PROVE  [Promise!Next]_(Promise!vars)
<1> USE DEF Promise!vars, Promise!Next
<1>0. /\ shadow \in Shadow /\ shadow.target_version \in Nat /\ sent \in Nat
      /\ shadow.target_config \in Config \cup {Malformed}
  BY NiddAssumption DEF TypeInv, TypeOK, Shadow, Versions
<1>1. CASE SetShadow
  <2>1. PICK c \in Configs :
          shadow' = [shadow EXCEPT !.target_version = @ + 1, !.target_config = c]
    BY <1>1 DEF SetShadow
  <2>2. /\ c \in Config \cup {Malformed}
        /\ shadow'.target_version = shadow.target_version + 1
        /\ shadow'.target_config = c
        /\ sent' = sent
    BY <1>0, <1>1, <2>1, NiddAssumption DEF SetShadow, Shadow, told
  <2>3. Promise!Write
    BY <2>2 DEF Promise!Write
  <2> QED BY <2>3
<1>2. CASE SyncReports
  <2>1. SyncApplies /\ UNCHANGED shadow /\ sent' = applied_version'
    BY <1>2 DEF SyncReports
  <2>2. doc # NoDoc /\ sent' = doc.target_version /\ sent' \in Nat
    BY <2>1, SyncNoticed, SyncType, NiddAssumption DEF Versions
  <2>3. sent' \in sent..shadow.target_version
    BY <1>0, <2>1, <2>2, SyncWritten DEF RiseInv
  <2>4. sent' = shadow.target_version =>
          <<shadow.target_config, "applied">> \in Config \X {"applied"}
    BY <1>0, <2>1, SyncWritten
  <2>5. Promise!Report
    BY <2>1, <2>3, <2>4 DEF Promise!Report
  <2> QED BY <2>5
<1>3. CASE ReceiveReport
  <2>1. /\ shadow'.target_version = shadow.target_version
        /\ shadow'.target_config = shadow.target_config
        /\ sent' = sent
    BY <1>0, <1>3 DEF ReceiveReport, Shadow
  <2> QED BY <2>1
<1>4. CASE UNCHANGED <<shadow, sent>>
  BY <1>4
<1>5. SetShadow \/ SyncReports \/ ReceiveReport \/ UNCHANGED <<shadow, sent>>
  BY DEF Next, Carrier, Device, Sync, SendShadow, LoseFrame, DeliverShadow, DeliverStored,
     SyncFails, SyncDone, ReportFails, ReportTimesOut, Wake, TakeWakeup,
     SampleReboot, PowerCut, vars, told
<1> QED BY <1>1, <1>2, <1>3, <1>4, <1>5

(* Over a carrier that loses, delays and reorders frames, and over boots,  *)
(* what the device reports never goes back, nor past what was written, and *)
(* is level with it only for a target it could parse.                      *)
THEOREM KeepsPromise == Spec => ImplementsPromise
<1>1. Init => Promise!Init
  <2> SUFFICES ASSUME Init PROVE Promise!Init
    OBVIOUS
  <2>1. EmptyConfig \in Config
    BY NiddAssumption DEF EmptyConfig, Config
  <2> QED BY <2>1 DEF Init, Promise!Init, Promise!Kept, Promise!Converged
<1>2. TypeInv /\ NoticedInv /\ WrittenInv /\ RiseInv /\ [Next]_vars
      => [Promise!Next]_(Promise!vars)
  BY StepSimulated
<1> QED BY <1>1, <1>2, RiseHolds, PTL DEF Spec, ImplementsPromise, Promise!Spec

\* What was reported is behind what was written, and only what is kept is level with it.
KeptInv ==
    /\ shadow.target_version \in Nat
    /\ sent \in 0..shadow.target_version
    /\ Promise!Kept

\* A last report that names the last target is about one that parses.
THEOREM PromiseIsKept == Spec => []Promise!Kept
<1>1. Promise!Init => KeptInv
  BY DEF Promise!Init, KeptInv
<1>2. KeptInv /\ [Promise!Next]_(Promise!vars) => KeptInv'
  <2> SUFFICES ASSUME KeptInv, [Promise!Next]_(Promise!vars) PROVE KeptInv'
    OBVIOUS
  <2> USE DEF KeptInv, Promise!Kept, Promise!Converged
  <2>1. CASE Promise!Write
    BY <2>1 DEF Promise!Write
  <2>2. CASE Promise!Report
    BY <2>2 DEF Promise!Report
  <2>3. CASE Promise!Restart
    BY <2>3 DEF Promise!Restart
  <2>4. CASE UNCHANGED Promise!vars
    BY <2>4 DEF Promise!vars
  <2> QED BY <2>1, <2>2, <2>3, <2>4 DEF Promise!Next
<1>3. KeptInv => Promise!Kept
  BY DEF KeptInv
<1> QED BY <1>1, <1>2, <1>3, KeepsPromise, PTL DEF ImplementsPromise, Promise!Spec

(* Whenever the platform shows equal versions, the target is one that      *)
(* parses: what it shows was reported, and no report is ahead of the last. *)
THEOREM ShownIsKept ==
    Spec => [](shadow.current_version = shadow.target_version
                 => shadow.target_config # Malformed)
<1>1. TypeInv /\ WrittenInv /\ RiseInv =>
        (shadow.current_version = shadow.target_version => shadow.target_config # Malformed)
  <2> SUFFICES ASSUME TypeInv, WrittenInv, RiseInv,
                      shadow.current_version = shadow.target_version
               PROVE  shadow.target_config # Malformed
    OBVIOUS
  <2>1. shadow.target_version \in Int /\ sent \in Int
    BY DEF TypeInv, TypeOK, Shadow, Versions
  <2>2. shadow.target_version <= sent /\ sent <= shadow.target_version
    BY DEF RiseInv, WrittenInv
  <2> QED BY <2>1, <2>2 DEF WrittenInv
<1> QED BY <1>1, RiseHolds, PTL
===============================================================================
