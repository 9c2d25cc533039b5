--------------------------- MODULE ShadowPushProofs ---------------------------
(***************************************************************************)
(* Theorems about ShadowPush, for either sample, every set of              *)
(* configurations and any number of writes and lost connections.           *)
(***************************************************************************)
EXTENDS ShadowPush, SequenceTheorems, TLAPS

\* A pass under way has a document.
TypeInv ==
    /\ TypeOK
    /\ pc \in {"telemetry", "report"} => doc # NoDoc /\ library # NoDoc

\* A document anywhere in the system is one the dashboard wrote.
Genuine(s) ==
    /\ s.target_version <= shadow.target_version
    /\ s.target_config = written[s.target_version]

GenuineInv ==
    /\ Genuine(shadow)
    /\ library # NoDoc => Genuine(library)
    /\ \A i \in 1..Len(frames) : Genuine(frames[i])
    /\ doc # NoDoc => doc.target_version <= shadow.target_version
    /\ shadow.current_version <= shadow.target_version

(* mqtt's documents arrive in the order they were written, so the buffer   *)
(* never falls behind the pass that reads it, nor ahead of what follows.   *)
OrderInv ==
    /\ channel = "mqtt" =>
        /\ \A i, j \in 1..Len(frames) :
             i <= j => frames[i].target_version <= frames[j].target_version
        /\ library # NoDoc =>
             \A i \in 1..Len(frames) : library.target_version <= frames[i].target_version
    /\ pc = "telemetry" => doc.target_version <= library.target_version

(* A pass about the newest target applied what that target says, and so    *)
(* did the one whose report made it current.                               *)
ReportInv ==
    /\ pc = "report" /\ doc.target_version = shadow.target_version =>
        /\ Wanted # Malformed
        /\ current_config = Keep(Wanted.interval, current_config)
        /\ reboot = Wanted.reboot
    /\ ConvergedMeansReported

(* Versions never go back: no document a pass can still report is older    *)
(* than the last one reported.                                             *)
LowInv ==
    /\ pc \in {"telemetry", "report"} => shadow.current_version <= doc.target_version
    /\ channel = "mqtt" =>
        /\ pc = "report" => doc.target_version <= library.target_version
        /\ library # NoDoc => shadow.current_version <= library.target_version
        /\ \A i \in 1..Len(frames) : shadow.current_version <= frames[i].target_version

(* On an open connection the newest target is in the last frame, or with   *)
(* no frame left in mqtt's buffer; and once the semaphore has been taken   *)
(* for the last one, in the pass.                                          *)
NoticeInv ==
    /\ channel = "mqtt" /\ link \in {"opening", "up"} =>
        IF frames = <<>>
        THEN /\ link = "up" /\ library # NoDoc
             /\ library.target_version = shadow.target_version
        ELSE frames[Len(frames)].target_version = shadow.target_version
    /\ pc # "sync" /\ shadow_wakeup = 0 /\ link = "up" /\ frames = <<>> =>
        IF failed THEN channel = "ws"
        ELSE doc # NoDoc /\ doc.target_version = shadow.target_version

(* ws_init's buffer is written by the fetch of the pass that reads it.     *)
FetchedInv ==
    channel = "ws" =>
        /\ pc = "telemetry" => doc.target_version = library.target_version
        /\ AppliesWhatItReports

-------------------------------------------------------------------------------
\* Constants as the provers like them.
LEMMA VersionsNat == Versions \subseteq Nat /\ MaxVersion \in Nat /\ 0 \in Versions
  BY PushAssumption DEF Versions

\* A document has versions, and is not NoDoc.
LEMMA ShadowFacts ==
    ASSUME NEW s \in Shadow
    PROVE  /\ s.target_version \in Versions /\ s.target_version \in Nat
           /\ s.current_version \in Versions /\ s.current_version \in Nat
           /\ s.target_config \in Config \cup {Malformed}
           /\ s.current_config \in Intervals
           /\ s # NoDoc
<1>1. s \in [target_version : Nat, current_version : Nat,
             target_config : Config \cup {Malformed}, current_config : Intervals]
  BY VersionsNat DEF Shadow
<1> QED BY <1>1, VersionsNat, PushAssumption DEF Shadow

\* The versions of a document, and they are not NoDoc either.
LEMMA VersionsOfType ==
    ASSUME NEW s \in Shadow
    PROVE  /\ VersionsOf(s) \in [target_version : Versions, current_version : Versions]
           /\ VersionsOf(s) # NoDoc
           /\ VersionsOf(s).target_version = s.target_version
<1>1. VersionsOf(s) \in [target_version : Versions, current_version : Versions]
  BY ShadowFacts DEF VersionsOf
<1>2. VersionsOf(s) \in [target_version : Nat, current_version : Nat]
  BY <1>1, VersionsNat
<1> QED BY <1>1, <1>2, PushAssumption DEF VersionsOf

\* What can be read out of the buffer is a configuration or does not parse.
LEMMA CopiedType ==
    ASSUME TypeInv, pc = "telemetry", NEW c \in Copied \ {Malformed}
    PROVE  c \in Config
<1>1. library \in Shadow
  BY DEF TypeInv, TypeOK
<1>2. library.target_config \in Config \cup {Malformed}
  BY <1>1, ShadowFacts
<1>3. CASE channel = "mqtt" /\ link = "up" /\ frames # <<>>
  <2>1. Head(frames) \in Shadow
    BY <1>3 DEF TypeInv, TypeOK
  <2>2. Head(frames).target_config \in Config \cup {Malformed}
    BY <2>1, ShadowFacts
  <2> QED BY <1>2, <1>3, <2>2 DEF Copied, Splices
<1>4. CASE ~(channel = "mqtt" /\ link = "up" /\ frames # <<>>)
  BY <1>2, <1>4 DEF Copied
<1> QED BY <1>3, <1>4

\* A push leaves a sequence of documents.
LEMMA PushType ==
    ASSUME frames \in Seq(Shadow), NEW s \in Shadow, Push(s)
    PROVE  frames' \in Seq(Shadow)
  BY DEF Push

\* Init satisfies the type invariant.
LEMMA InitType == Init => TypeInv
<1> SUFFICES ASSUME Init PROVE TypeInv
  OBVIOUS
<1>1. EmptyConfig \in Config
  BY DEF EmptyConfig, Config
<1>2. shadow \in Shadow
  BY <1>1, VersionsNat, PushAssumption DEF Init, Shadow
<1>3. written \in [Versions -> Config \cup {Malformed}]
  BY <1>1 DEF Init
<1>4. frames \in Seq(Shadow)
  BY DEF Init
<1>5. drops \in 0..MaxDrops /\ current_config \in Intervals
  BY PushAssumption DEF Init
<1> QED BY <1>2, <1>3, <1>4, <1>5 DEF Init, TypeInv, TypeOK

\* The platform's side of a write or a report is typed.
LEMMA SetShadowType ==
    ASSUME TypeInv, SetShadow
    PROVE  /\ shadow' \in Shadow /\ frames' \in Seq(Shadow)
           /\ written' \in [Versions -> Config \cup {Malformed}]
           /\ shadow'.target_version = shadow.target_version + 1
           /\ shadow.target_version + 1 \in Versions
           /\ shadow'.current_version = shadow.current_version
           /\ written' = [written EXCEPT ![shadow.target_version + 1] = shadow'.target_config]
<1> USE DEF TypeInv, TypeOK
<1>1. PICK c \in Configs :
        /\ shadow' = [shadow EXCEPT !.target_version = @ + 1, !.target_config = c]
        /\ written' = [written EXCEPT ![shadow.target_version + 1] = c]
  BY DEF SetShadow
<1>2. c \in Config \cup {Malformed}
  BY PushAssumption
<1>3. shadow.target_version + 1 \in Versions
  BY VersionsNat, ShadowFacts DEF SetShadow, Versions
<1>4. shadow' \in Shadow
  BY <1>1, <1>2, <1>3 DEF Shadow
<1>5. frames' \in Seq(Shadow)
  BY <1>4, PushType DEF SetShadow
<1>6. shadow'.target_config = c /\ shadow'.target_version = shadow.target_version + 1
      /\ shadow'.current_version = shadow.current_version
  BY <1>1 DEF Shadow
<1> QED BY <1>1, <1>2, <1>3, <1>4, <1>5, <1>6

\* A stored report changes what is current and nothing else of the shadow.
LEMMA ReportType ==
    ASSUME TypeInv, ReportStored
    PROVE  /\ shadow' \in Shadow /\ frames' \in Seq(Shadow)
           /\ doc \in [target_version : Versions, current_version : Versions]
           /\ shadow'.target_version = shadow.target_version
           /\ shadow'.target_config = shadow.target_config
           /\ shadow'.current_version = doc.target_version
           /\ shadow'.current_config = current_config
<1> USE DEF TypeInv, TypeOK
<1>1. doc \in [target_version : Versions, current_version : Versions]
  BY DEF ReportStored
<1>2. shadow' = [shadow EXCEPT !.current_version = doc.target_version,
                               !.current_config = current_config]
  BY DEF ReportStored, Converge, ReportVersion
<1>3. shadow' \in Shadow
  BY <1>1, <1>2 DEF Shadow
<1>4. frames' \in Seq(Shadow)
  BY <1>3, PushType DEF ReportStored, Converge
<1> QED BY <1>1, <1>2, <1>3, <1>4 DEF Shadow

\* Every step keeps the type invariant.
LEMMA NextType == TypeInv /\ [Next]_vars => TypeInv'
<1> SUFFICES ASSUME TypeInv, [Next]_vars PROVE TypeInv'
  OBVIOUS
<1> USE DEF TypeInv, TypeOK
<1>1. CASE SetShadow
  <2>1. /\ shadow' \in Shadow /\ frames' \in Seq(Shadow)
        /\ written' \in [Versions -> Config \cup {Malformed}]
    BY <1>1, SetShadowType
  <2>2. rebooted' = FALSE /\ UNCHANGED <<channel, link, drops, ram, pc>>
    BY <1>1 DEF SetShadow
  <2> QED BY <2>1, <2>2 DEF ram
<1>2. CASE Drop
  <2>1. drops' \in 0..MaxDrops /\ frames' \in Seq(Shadow)
    BY <1>2, PushAssumption DEF Drop
  <2> QED BY <1>2, <2>1 DEF Drop, platform, ram
<1>3. CASE Accept
  <2>1. frames' \in Seq(Shadow)
    BY <1>3 DEF Accept
  <2> QED BY <1>3, <2>1 DEF Accept, platform, ram
<1>4. CASE Opened
  BY <1>4 DEF Opened, Signal, platform
<1>5. CASE Deliver
  <2>1. Head(frames) \in Shadow /\ frames' \in Seq(Shadow)
    BY <1>5 DEF Deliver
  <2>2. library' \in Shadow \cup {NoDoc}
        /\ (pc \in {"telemetry", "report"} => library' # NoDoc)
    BY <1>5, <2>1, ShadowFacts DEF Deliver, Receive
  <2> QED BY <1>5, <2>1, <2>2 DEF Deliver, Signal, platform
<1>6. CASE Disconnected
  BY <1>6 DEF Disconnected, platform, ram
<1>7. CASE SyncFails
  BY <1>7 DEF SyncFails, platform, connection
<1>8. CASE Fetch
  <2>1. library' \in Shadow
    BY <1>8 DEF Fetch
  <2>2. doc' = VersionsOf(library')
    BY <1>8 DEF Fetch
  <2>3. /\ doc' \in [target_version : Versions, current_version : Versions]
        /\ doc' # NoDoc /\ library' # NoDoc
    BY <2>1, <2>2, VersionsOfType, ShadowFacts
  <2> QED BY <1>8, <2>1, <2>3 DEF Fetch, platform, connection
<1>9. CASE SyncDone \/ RejectConfig \/ Poll
  BY <1>9 DEF SyncDone, RejectConfig, Poll, platform, connection, ram
<1>10. CASE Apply
  <2>1. PICK c \in Copied \ {Malformed} :
          current_config' = Keep(c.interval, current_config) /\ reboot' = c.reboot
    BY <1>10 DEF Apply
  <2>2. c \in Config
    BY <1>10, CopiedType DEF Apply
  <2>3. current_config' \in Intervals /\ reboot' \in BOOLEAN
    BY <2>1, <2>2 DEF Keep, Config
  <2> QED BY <1>10, <2>3 DEF Apply, platform, connection
<1>11. CASE ReportStored
  BY <1>11, ReportType DEF ReportStored, AfterReport, ram
<1>12. CASE ReportLost
  BY <1>12 DEF ReportLost, AfterReport, ram
<1>13. CASE Reboot
  <2>1. frames' \in Seq(Shadow) /\ current_config' \in Intervals
    BY <1>13, PushAssumption DEF Reboot, Boot
  <2> QED BY <1>13, <2>1 DEF Reboot, Boot, platform
<1>14. CASE TakeWakeup
  BY <1>14 DEF TakeWakeup, platform, connection
<1>15. CASE UNCHANGED vars
  BY <1>15 DEF vars, platform, connection, ram
<1> QED
  BY <1>1, <1>2, <1>3, <1>4, <1>5, <1>6, <1>7, <1>8, <1>9, <1>10, <1>11, <1>12, <1>13,
     <1>14, <1>15
  DEF Next, Worker, Sync

\* Either sample keeps its variables typed, its buffer and its frames included.
THEOREM TypeCorrect == Spec => []TypeOK
<1>1. TypeInv => TypeOK
  BY DEF TypeInv
<1> QED BY <1>1, InitType, NextType, PTL DEF Spec

-------------------------------------------------------------------------------
\* What the dashboard wrote stays what it wrote.
LEMMA StaysGenuine ==
    ASSUME TypeInv, [Next]_vars, NEW s \in Shadow, Genuine(s)
    PROVE  /\ s.target_version <= shadow'.target_version
           /\ s.target_config = written'[s.target_version]
<1>0. s.target_version \in Nat /\ s.target_version \in Versions
      /\ shadow.target_version \in Nat
  BY ShadowFacts DEF TypeInv, TypeOK
<1>1. CASE SetShadow
  BY <1>0, <1>1, SetShadowType DEF Genuine, TypeInv, TypeOK
<1>2. CASE ReportStored
  BY <1>0, <1>2, ReportType DEF Genuine, ReportStored, AfterReport
<1>3. CASE ~SetShadow /\ ~ReportStored
  <2>1. UNCHANGED <<shadow, written>>
    BY <1>3 DEF Next, Worker, Sync, Drop, Accept, Opened, Deliver, Disconnected, SyncFails,
         Fetch, SyncDone, RejectConfig, Apply, ReportLost, AfterReport, Reboot, TakeWakeup,
         Poll, vars, platform
  <2> QED BY <2>1 DEF Genuine
<1> QED BY <1>1, <1>2, <1>3

\* How the frames on their way change.
LEMMA FramesStep ==
    ASSUME TypeInv, [Next]_vars
    PROVE  \/ frames' = frames
           \/ frames' = <<>>
           \/ frames' = <<shadow>> /\ shadow' = shadow /\ link = "down"
           \/ /\ frames' = Append(frames, shadow') /\ link' = link
              /\ link \in {"opening", "up"} /\ library' = library
           \/ /\ frames # <<>> /\ frames' = Tail(frames) /\ link = "up" /\ link' = "up"
              /\ library' = IF channel = "mqtt" THEN Head(frames) ELSE library
<1>1. CASE SetShadow \/ ReportStored
  BY <1>1 DEF SetShadow, ReportStored, AfterReport, Converge, Push, ram
<1>2. CASE Drop \/ Reboot
  BY <1>2 DEF Drop, Reboot, Boot
<1>3. CASE Accept
  BY <1>3 DEF Accept, platform
<1>4. CASE Deliver
  BY <1>4 DEF Deliver, Receive
<1>5. CASE ReportLost \/ Opened \/ Disconnected
  BY <1>5 DEF ReportLost, Opened, Disconnected
<1>6. CASE SyncFails \/ Fetch \/ SyncDone \/ RejectConfig \/ Apply \/ TakeWakeup \/ Poll
  BY <1>6 DEF SyncFails, Fetch, SyncDone, RejectConfig, Apply, TakeWakeup, Poll, connection
<1>7. CASE UNCHANGED vars
  BY <1>7 DEF vars, connection
<1> QED BY <1>1, <1>2, <1>3, <1>4, <1>5, <1>6, <1>7 DEF Next, Worker, Sync

\* How the buffer changes.
LEMMA LibraryStep ==
    ASSUME TypeInv, [Next]_vars
    PROVE  \/ library' = library
           \/ library' = NoDoc /\ Reboot
           \/ library' = shadow /\ shadow' = shadow /\ channel = "ws" /\ Fetch
           \/ library' = Head(frames) /\ frames # <<>> /\ channel = "mqtt" /\ Deliver
<1>1. CASE Fetch
  BY <1>1 DEF Fetch, platform
<1>2. CASE Deliver
  BY <1>2 DEF Deliver, Receive
<1>3. CASE Reboot
  BY <1>3 DEF Reboot, Boot
<1>4. CASE ~Fetch /\ ~Deliver /\ ~Reboot
  BY <1>4 DEF Next, Worker, Sync, SetShadow, Drop, Accept, Opened, Disconnected, SyncFails,
       SyncDone, RejectConfig, Apply, ReportStored, ReportLost, AfterReport, TakeWakeup, Poll,
       vars, ram
<1> QED BY <1>1, <1>2, <1>3, <1>4

\* Every document in the system stays one the dashboard wrote.
LEMMA NextGenuine == TypeInv /\ GenuineInv /\ [Next]_vars => GenuineInv'
<1> SUFFICES ASSUME TypeInv, GenuineInv, [Next]_vars PROVE GenuineInv'
  OBVIOUS
<1>0. TypeInv' /\ shadow \in Shadow /\ shadow' \in Shadow /\ frames \in Seq(Shadow)
      /\ shadow.target_version \in Nat /\ shadow.current_version \in Nat
      /\ shadow'.target_version \in Nat /\ shadow'.current_version \in Nat
  BY NextType, ShadowFacts DEF TypeInv, TypeOK
<1>1. Genuine(shadow)'
  <2>1. CASE SetShadow
    <3>1. shadow'.target_version \in Versions
      BY <2>1, SetShadowType
    <3> QED BY <1>0, <2>1, <3>1, SetShadowType DEF Genuine, TypeInv, TypeOK
  <2>2. CASE ReportStored
    BY <1>0, <2>2, ReportType DEF Genuine, GenuineInv, ReportStored, AfterReport
  <2>3. CASE ~SetShadow /\ ~ReportStored
    <3>1. UNCHANGED shadow
      BY <2>3 DEF Next, Worker, Sync, Drop, Accept, Opened, Deliver, Disconnected, SyncFails,
           Fetch, SyncDone, RejectConfig, Apply, ReportLost, AfterReport, Reboot, TakeWakeup,
           Poll, vars, platform
    <3> QED BY <1>0, <3>1, StaysGenuine DEF GenuineInv, Genuine
  <2> QED BY <2>1, <2>2, <2>3
<1>2. \A i \in 1..Len(frames) : frames[i] \in Shadow /\ Genuine(frames[i])
  BY <1>0 DEF GenuineInv
<1>3. \A i \in 1..Len(frames) :
        /\ frames[i].target_version <= shadow'.target_version
        /\ frames[i].target_config = written'[frames[i].target_version]
  BY <1>2, StaysGenuine
<1>4. /\ shadow.target_version <= shadow'.target_version
      /\ shadow.target_config = written'[shadow.target_version]
  BY <1>0, StaysGenuine DEF GenuineInv
<1>5. \A i \in 1..Len(frames') : Genuine(frames[i])'
  <2>1. CASE frames' = frames
    BY <1>3, <2>1 DEF Genuine
  <2>2. CASE frames' = <<>>
    BY <2>2
  <2>3. CASE frames' = <<shadow>> /\ shadow' = shadow
    BY <1>1, <2>3 DEF Genuine
  <2>4. CASE frames' = Append(frames, shadow')
    <3> SUFFICES ASSUME NEW i \in 1..Len(frames') PROVE Genuine(frames[i])'
      OBVIOUS
    <3>1. frames'[i] = shadow' \/ (i \in 1..Len(frames) /\ frames'[i] = frames[i])
      BY <1>0, <2>4
    <3> QED BY <1>1, <1>3, <3>1 DEF Genuine
  <2>5. CASE frames # <<>> /\ frames' = Tail(frames)
    <3> SUFFICES ASSUME NEW i \in 1..Len(frames') PROVE Genuine(frames[i])'
      OBVIOUS
    <3>1. i + 1 \in 1..Len(frames) /\ frames'[i] = frames[i + 1]
      BY <1>0, <2>5
    <3> QED BY <1>3, <3>1 DEF Genuine
  <2> QED BY <2>1, <2>2, <2>3, <2>4, <2>5, FramesStep
<1>6. library' # NoDoc => Genuine(library)'
  <2>1. CASE library' = library /\ library # NoDoc
    <3>1. library \in Shadow /\ Genuine(library)
      BY <2>1 DEF TypeInv, TypeOK, GenuineInv
    <3> QED BY <2>1, <3>1, StaysGenuine DEF Genuine
  <2>2. CASE library' = shadow /\ shadow' = shadow
    BY <1>1, <2>2 DEF Genuine
  <2>3. CASE library' = Head(frames) /\ frames # <<>>
    <3>1. 1 \in 1..Len(frames) /\ library' = frames[1]
      BY <1>0, <2>3
    <3> QED BY <1>3, <3>1 DEF Genuine
  <2> QED BY <2>1, <2>2, <2>3, LibraryStep
<1>7. doc' # NoDoc => doc'.target_version <= shadow'.target_version
  <2>1. CASE Fetch
    <3>1. doc' = VersionsOf(library') /\ library' \in Shadow /\ library' # NoDoc
      BY <1>0, <2>1, ShadowFacts DEF Fetch, TypeInv, TypeOK
    <3> QED BY <1>6, <3>1, VersionsOfType DEF Genuine
  <2>2. CASE Reboot
    BY <2>2 DEF Reboot, Boot
  <2>3. CASE ~Fetch /\ ~Reboot
    <3>1. UNCHANGED doc
      BY <2>3 DEF Next, Worker, Sync, SetShadow, Drop, Accept, Opened, Deliver, Disconnected,
           SyncFails, SyncDone, RejectConfig, Apply, ReportStored, ReportLost, AfterReport,
           TakeWakeup, Poll, vars, ram
    <3>2. doc # NoDoc => doc.target_version \in Nat
      BY VersionsNat DEF TypeInv, TypeOK
    <3> QED BY <1>0, <1>4, <3>1, <3>2 DEF GenuineInv
  <2> QED BY <2>1, <2>2, <2>3
<1>8. shadow'.current_version <= shadow'.target_version
  <2>1. CASE ReportStored
    BY <2>1, ReportType DEF GenuineInv, TypeInv, ReportStored
  <2>2. CASE ~ReportStored
    <3>1. shadow'.current_version = shadow.current_version
      BY <2>2, SetShadowType DEF Next, Worker, Sync, Drop, Accept, Opened, Deliver, Disconnected,
           SyncFails, Fetch, SyncDone, RejectConfig, Apply, ReportLost, AfterReport, Reboot,
           TakeWakeup, Poll, vars, platform
    <3> QED BY <1>0, <1>4, <3>1 DEF GenuineInv
  <2> QED BY <2>1, <2>2
<1> QED BY <1>1, <1>5, <1>6, <1>7, <1>8 DEF GenuineInv

\* Only a delivery takes a frame and fills mqtt's buffer.
LEMMA MqttStep ==
    ASSUME TypeInv, [Next]_vars, channel = "mqtt", ~Deliver
    PROVE  /\ library' = library \/ library' = NoDoc
           /\ \/ frames' = frames
              \/ frames' = <<>>
              \/ frames' = <<shadow>> /\ shadow' = shadow
              \/ frames' = Append(frames, shadow')
<1>1. library' = library \/ library' = NoDoc
  BY LibraryStep
<1>2. CASE SetShadow \/ ReportStored
  BY <1>1, <1>2 DEF SetShadow, ReportStored, AfterReport, Converge, Push, ram
<1>3. CASE Drop \/ Reboot \/ Accept
  BY <1>1, <1>3 DEF Drop, Reboot, Boot, Accept, platform
<1>4. CASE ~SetShadow /\ ~ReportStored /\ ~Drop /\ ~Reboot /\ ~Accept
  <2>1. frames' = frames
    BY <1>4 DEF Next, Worker, Sync, ReportLost, Opened, Disconnected, SyncFails, Fetch, SyncDone,
         RejectConfig, Apply, TakeWakeup, Poll, connection, vars
  <2> QED BY <1>1, <2>1
<1> QED BY <1>2, <1>3, <1>4

\* Documents stay in order.
LEMMA NextOrder == TypeInv /\ GenuineInv /\ OrderInv /\ [Next]_vars => OrderInv'
<1> SUFFICES ASSUME TypeInv, GenuineInv, OrderInv, [Next]_vars PROVE OrderInv'
  OBVIOUS
<1>0. /\ TypeInv' /\ GenuineInv' /\ shadow \in Shadow /\ shadow' \in Shadow
      /\ frames \in Seq(Shadow) /\ shadow.target_version \in Nat
      /\ shadow'.target_version \in Nat
  BY NextType, NextGenuine, ShadowFacts DEF TypeInv, TypeOK
<1>1. channel' = channel
  BY DEF Next, Worker, Sync, SetShadow, Drop, Accept, Opened, Deliver, Disconnected, SyncFails,
       Fetch, SyncDone, RejectConfig, Apply, ReportStored, ReportLost, AfterReport, Reboot,
       TakeWakeup, Poll, vars
<1>2. \A i \in 1..Len(frames) :
        /\ frames[i] \in Shadow /\ frames[i].target_version \in Nat
        /\ frames[i].target_version <= shadow.target_version
  BY <1>0, ShadowFacts DEF GenuineInv, Genuine
<1>3. library # NoDoc => /\ library \in Shadow /\ library.target_version \in Nat
                         /\ library.target_version <= shadow.target_version
  BY ShadowFacts DEF TypeInv, TypeOK, GenuineInv, Genuine
<1>4. shadow.target_version <= shadow'.target_version
  BY <1>0, StaysGenuine DEF GenuineInv
<1>5. ASSUME channel = "mqtt"
      PROVE  /\ \A i, j \in 1..Len(frames') :
                  i <= j => frames'[i].target_version <= frames'[j].target_version
             /\ library' # NoDoc =>
                  \A i \in 1..Len(frames') :
                    library'.target_version <= frames'[i].target_version
  <2>0. /\ \A i, j \in 1..Len(frames) :
             i <= j => frames[i].target_version <= frames[j].target_version
        /\ library # NoDoc =>
             \A i \in 1..Len(frames) : library.target_version <= frames[i].target_version
    BY <1>5 DEF OrderInv
  <2>1. CASE Deliver
    <3>1. /\ frames' = Tail(frames) /\ frames # <<>> /\ library' = frames[1]
          /\ Len(frames) \in Nat \ {0}
      BY <1>0, <1>5, <2>1 DEF Deliver, Receive
    <3>2. \A i \in 1..Len(frames') : i + 1 \in 1..Len(frames) /\ frames'[i] = frames[i + 1]
      BY <1>0, <3>1
    <3> QED BY <2>0, <3>1, <3>2
  <2>2. CASE ~Deliver
    <3>1. library' # NoDoc => library' = library
      BY <1>5, <2>2, MqttStep
    <3>2. CASE frames' = frames
      BY <2>0, <3>1, <3>2
    <3>3. CASE frames' = <<>>
      BY <3>3
    <3>4. CASE frames' = <<shadow>> /\ shadow' = shadow
      BY <1>0, <1>3, <3>1, <3>4
    <3>5. CASE frames' = Append(frames, shadow')
      <4>1. Len(frames') = Len(frames) + 1 /\ Len(frames) \in Nat
        BY <1>0, <3>5
      <4>2. \A i \in 1..Len(frames') : IF i = Len(frames) + 1 THEN frames'[i] = shadow'
                                       ELSE i \in 1..Len(frames) /\ frames'[i] = frames[i]
        BY <1>0, <3>5, <4>1
      <4>3. \A i \in 1..Len(frames) : frames[i].target_version <= shadow'.target_version
        BY <1>0, <1>2, <1>4
      <4>4. library # NoDoc => library.target_version <= shadow'.target_version
        BY <1>0, <1>3, <1>4
      <4>5. \A i, j \in 1..Len(frames') :
              i <= j => frames'[i].target_version <= frames'[j].target_version
        BY <1>0, <2>0, <4>1, <4>2, <4>3
      <4>6. library' # NoDoc =>
              \A i \in 1..Len(frames') : library'.target_version <= frames'[i].target_version
        BY <2>0, <3>1, <4>1, <4>2, <4>4
      <4> QED BY <4>5, <4>6
    <3> QED BY <1>5, <2>2, <3>2, <3>3, <3>4, <3>5, MqttStep
  <2> QED BY <2>1, <2>2
<1>6. ASSUME pc' = "telemetry" PROVE doc'.target_version <= library'.target_version
  <2>1. CASE Fetch
    <3>1. doc' = VersionsOf(library') /\ library' \in Shadow
      BY <1>0, <2>1 DEF Fetch, TypeInv, TypeOK
    <3> QED BY <3>1, ShadowFacts DEF VersionsOf
  <2>2. CASE Deliver
    <3>1. pc = "telemetry" /\ doc' = doc
      BY <1>6, <2>2 DEF Deliver
    <3>2. doc.target_version \in Nat /\ doc.target_version <= library.target_version
          /\ library # NoDoc
      BY <3>1, VersionsNat DEF TypeInv, TypeOK, OrderInv
    <3>3. CASE channel = "mqtt"
      <4>1. library' = frames[1] /\ 1 \in 1..Len(frames)
        BY <1>0, <2>2, <3>3 DEF Deliver, Receive
      <4>2. library.target_version <= library'.target_version
        BY <3>2, <3>3, <4>1 DEF OrderInv
      <4> QED BY <1>2, <1>3, <3>1, <3>2, <4>1, <4>2
    <3>4. CASE channel # "mqtt"
      BY <2>2, <3>1, <3>2, <3>4 DEF Deliver, Receive
    <3> QED BY <3>3, <3>4
  <2>3. CASE ~Fetch /\ ~Deliver
    <3>1. pc = "telemetry" /\ doc' = doc /\ library' = library
      BY <1>6, <2>3 DEF Next, Worker, Sync, SetShadow, Drop, Accept, Opened, Disconnected,
           SyncFails, SyncDone, RejectConfig, Apply, ReportStored, ReportLost, AfterReport,
           Reboot, Boot, TakeWakeup, Poll, vars, ram
    <3> QED BY <3>1 DEF OrderInv
  <2> QED BY <2>1, <2>2, <2>3
<1> QED BY <1>1, <1>5, <1>6 DEF OrderInv

-------------------------------------------------------------------------------
\* The newest target is in the last frame, or in the buffer, and a signal is due for it.
LEMMA NextNotice == TypeInv /\ NoticeInv /\ [Next]_vars => NoticeInv'
<1> SUFFICES ASSUME TypeInv, NoticeInv, [Next]_vars PROVE NoticeInv'
  OBVIOUS
<1>0. /\ shadow \in Shadow /\ frames \in Seq(Shadow) /\ shadow.target_version \in Nat
      /\ TypeInv'
  BY NextType, ShadowFacts DEF TypeInv, TypeOK
<1>1. CASE SetShadow
  <2>1. shadow' \in Shadow
    BY <1>1, SetShadowType
  <2>2. link \in {"opening", "up"} => frames' # <<>> /\ frames'[Len(frames')] = shadow'
    BY <1>0, <1>1, <2>1 DEF SetShadow, Push
  <2> QED BY <1>1, <2>2 DEF SetShadow, NoticeInv
<1>2. CASE Drop
  BY <1>2 DEF Drop, NoticeInv
<1>3. CASE Accept
  BY <1>3 DEF Accept, NoticeInv, platform
<1>4. CASE Opened
  BY <1>4 DEF Opened, Signal, NoticeInv, platform
<1>5. CASE Deliver
  <2>1. /\ frames' = Tail(frames) /\ frames # <<>> /\ shadow_wakeup' = 1
        /\ link = "up" /\ link' = "up" /\ shadow' = shadow /\ channel' = channel
    BY <1>5 DEF Deliver, Signal, platform
  <2>2. ASSUME channel = "mqtt"
        PROVE  IF frames' = <<>>
               THEN library' # NoDoc /\ library'.target_version = shadow'.target_version
               ELSE frames'[Len(frames')].target_version = shadow'.target_version
    <3>1. frames[Len(frames)].target_version = shadow.target_version
      BY <2>1, <2>2 DEF NoticeInv
    <3>2. Head(frames) \in Shadow /\ library' = Head(frames) /\ library' # NoDoc
      BY <1>0, <1>5, <2>1, <2>2, ShadowFacts DEF Deliver, Receive
    <3>3. CASE Len(frames) = 1
      <4>1. frames' = <<>>
        BY <1>0, <2>1, <3>3, HeadTailProperties, EmptySeq
      <4>2. library'.target_version = shadow.target_version
        BY <1>0, <2>1, <3>1, <3>2, <3>3
      <4> QED BY <2>1, <3>2, <4>1, <4>2
    <3>4. CASE Len(frames) # 1
      <4>1. Len(frames) \in Nat \ {0}
        BY <1>0, <2>1, EmptySeq
      <4>2. Len(frames) \in Nat /\ Len(frames) > 1
        BY <3>4, <4>1
      <4>3. Len(Tail(frames)) = Len(frames) - 1
        BY <1>0, <2>1, HeadTailProperties
      <4>4. Len(frames) \in Nat /\ Len(frames) > 1 /\ Len(frames') = Len(frames) - 1
        BY <2>1, <4>2, <4>3
      <4>5. frames' # <<>>
        BY <4>4
      <4>6. frames'[Len(frames) - 1] = frames[Len(frames)]
        BY <1>0, <2>1, <4>4
      <4> QED BY <2>1, <3>1, <4>4, <4>5, <4>6
    <3> QED BY <3>3, <3>4
  <2> QED BY <2>1, <2>2 DEF NoticeInv
<1>6. CASE Disconnected
  BY <1>6 DEF Disconnected, NoticeInv
<1>7. CASE SyncFails
  <2>1. channel \in {"ws", "mqtt"}
    BY PushAssumption DEF TypeInv, TypeOK
  <2> QED BY <1>7, <2>1 DEF SyncFails, NoticeInv, platform, connection
<1>8. CASE Fetch
  <2>1. /\ library' \in Shadow /\ doc' = VersionsOf(library') /\ failed' = FALSE
        /\ channel' = channel /\ UNCHANGED <<platform, connection>>
        /\ library' = IF channel = "ws" THEN shadow ELSE library
    BY <1>0, <1>8 DEF Fetch, TypeInv, TypeOK
  <2>2. doc' # NoDoc /\ doc'.target_version = library'.target_version
    BY <2>1, VersionsOfType
  <2>3. channel \in {"ws", "mqtt"}
    BY PushAssumption DEF TypeInv, TypeOK
  <2> QED BY <2>1, <2>2, <2>3 DEF NoticeInv, platform, connection
<1>9. CASE SyncDone \/ RejectConfig \/ Poll
  BY <1>9 DEF SyncDone, RejectConfig, Poll, NoticeInv, platform, connection, ram
<1>10. CASE Apply
  BY <1>10 DEF Apply, NoticeInv, platform, connection
<1>11. CASE ReportStored
  <2>1. shadow'.target_version = shadow.target_version /\ shadow' \in Shadow
    BY <1>11, ReportType
  <2>2. IF channel = "ws" /\ link \in {"opening", "up"} THEN frames' = Append(frames, shadow')
        ELSE frames' = frames
    BY <1>11 DEF ReportStored, Converge, Push
  <2>3. channel = "ws" /\ link \in {"opening", "up"} => frames' # <<>>
    BY <1>0, <2>1, <2>2
  <2> QED BY <1>11, <2>1, <2>2, <2>3 DEF ReportStored, AfterReport, NoticeInv, ram
<1>12. CASE ReportLost
  BY <1>12 DEF ReportLost, AfterReport, NoticeInv, ram
<1>13. CASE Reboot
  BY <1>13 DEF Reboot, Boot, NoticeInv
<1>14. CASE TakeWakeup
  BY <1>14 DEF TakeWakeup, NoticeInv, platform, connection
<1>15. CASE UNCHANGED vars
  BY <1>15 DEF vars, NoticeInv, platform, connection, ram
<1> QED
  BY <1>1, <1>2, <1>3, <1>4, <1>5, <1>6, <1>7, <1>8, <1>9, <1>10, <1>11, <1>12, <1>13,
     <1>14, <1>15
  DEF Next, Worker, Sync

(* The semaphore loses no push: a device that sleeps on an open connection *)
(* with nothing on its way has seen the newest target, for any number of   *)
(* writes, drops, boots and reports in any order.                          *)
THEOREM NoPushLost == Spec => []PushNotLost
<1>1. Init => NoticeInv
  BY DEF Init, NoticeInv
<1>2. NoticeInv => PushNotLost
  BY DEF NoticeInv, PushNotLost
<1> QED BY <1>1, <1>2, InitType, NextType, NextNotice, PTL DEF Spec

-------------------------------------------------------------------------------
\* ws_init's pass reads what its own fetch left.
LEMMA NextFetched == TypeInv /\ GenuineInv /\ FetchedInv /\ [Next]_vars => FetchedInv'
<1> SUFFICES ASSUME TypeInv, GenuineInv, FetchedInv, [Next]_vars PROVE FetchedInv'
  OBVIOUS
<1>0. channel' = channel
  BY DEF Next, Worker, Sync, SetShadow, Drop, Accept, Opened, Deliver, Disconnected, SyncFails,
       Fetch, SyncDone, RejectConfig, Apply, ReportStored, ReportLost, AfterReport, Reboot,
       TakeWakeup, Poll, vars
<1> SUFFICES ASSUME channel = "ws" PROVE FetchedInv'
  BY <1>0 DEF FetchedInv
<1>1. CASE Fetch
  BY <1>1, VersionsOfType DEF Fetch, FetchedInv, AppliesWhatItReports, TypeInv, TypeOK
<1>2. CASE Apply
  <2>1. /\ pc = "telemetry" /\ doc' = doc /\ library' = library /\ written' = written
        /\ pc' = "report"
    BY <1>2 DEF Apply, platform
  <2>2. library # NoDoc /\ Genuine(library) /\ doc.target_version = library.target_version
    BY <2>1 DEF TypeInv, GenuineInv, FetchedInv
  <2>3. PICK c \in Copied \ {Malformed} :
          current_config' = Keep(c.interval, current_config) /\ reboot' = c.reboot
    BY <1>2 DEF Apply
  <2>4. c = library.target_config /\ c # Malformed
    BY <2>3 DEF Copied
  <2>5. written'[doc'.target_version] = c
    BY <2>1, <2>2, <2>4 DEF Genuine
  <2>6. current_config' = Keep(c.interval, current_config')
    BY <2>3 DEF Keep
  <2> QED BY <2>1, <2>3, <2>4, <2>5, <2>6 DEF FetchedInv, AppliesWhatItReports
<1>3. CASE SetShadow
  <2>1. /\ UNCHANGED <<pc, doc, library, current_config, reboot, channel>>
        /\ written' = [written EXCEPT ![shadow.target_version + 1] = shadow'.target_config]
    BY <1>3, SetShadowType DEF SetShadow, ram
  <2>2. ASSUME pc = "report"
        PROVE  written'[doc.target_version] = written[doc.target_version]
    <3>1. doc.target_version \in Versions /\ doc.target_version <= shadow.target_version
          /\ shadow.target_version \in Nat /\ doc.target_version \in Nat
      BY <2>2, VersionsNat, ShadowFacts DEF TypeInv, TypeOK, GenuineInv
    <3> QED BY <2>1, <3>1 DEF TypeInv, TypeOK
  <2> QED BY <2>1, <2>2 DEF FetchedInv, AppliesWhatItReports
<1>4. CASE ~Fetch /\ ~Apply /\ ~SetShadow
  <2>1. pc' \in {"telemetry", "report"} =>
          UNCHANGED <<pc, doc, current_config, reboot, written>>
    BY <1>4 DEF Next, Worker, Sync, Drop, Accept, Opened, Deliver, Disconnected, SyncFails,
         SyncDone, RejectConfig, ReportStored, ReportLost, AfterReport, Reboot, Boot,
         TakeWakeup, Poll, vars, ram, platform, TypeInv, TypeOK
  <2>2. pc' \in {"telemetry", "report"} => library' = library
    BY <1>4, LibraryStep, PushAssumption DEF Reboot, Boot
  <2> QED BY <2>1, <2>2 DEF FetchedInv, AppliesWhatItReports
<1> QED BY <1>1, <1>2, <1>3, <1>4

\* Init satisfies the invariant about documents.
LEMMA InitGenuine == Init => GenuineInv
<1> SUFFICES ASSUME Init PROVE GenuineInv
  OBVIOUS
<1>1. Genuine(shadow)
  BY VersionsNat DEF Init, Genuine
<1> QED BY <1>1 DEF Init, GenuineInv

(* With ws_init a pass applies the configuration written at the version it *)
(* reports, whatever is pushed while it runs.                              *)
THEOREM WakeupOnly == Spec => []PushIsNoPayload
<1>1. Init => FetchedInv
  BY DEF Init, FetchedInv, AppliesWhatItReports
<1>2. FetchedInv => PushIsNoPayload
  BY DEF FetchedInv, PushIsNoPayload
<1> QED
  BY <1>1, <1>2, InitType, NextType, InitGenuine, NextGenuine, NextFetched, PTL DEF Spec

-------------------------------------------------------------------------------
\* A document about the newest target carries what it asks for.
LEMMA NewestIsWanted ==
    ASSUME TypeInv, GenuineInv, NEW s \in Shadow, Genuine(s),
           s.target_version = shadow.target_version
    PROVE  s.target_config = Wanted
  BY DEF Genuine, GenuineInv, Wanted

(* What a pass about the newest target copies out of the buffer is what    *)
(* that target asks for, even if the next push is landing there: that one  *)
(* can only be about the same target.                                      *)
LEMMA CopiedIsWanted ==
    ASSUME TypeInv, GenuineInv, OrderInv, pc = "telemetry",
           doc.target_version = shadow.target_version,
           NEW c \in Copied \ {Malformed}
    PROVE  c = Wanted
<1>0. /\ shadow \in Shadow /\ library \in Shadow /\ frames \in Seq(Shadow)
      /\ library # NoDoc /\ Genuine(library)
  BY DEF TypeInv, TypeOK, GenuineInv
<1>1. library.target_version \in Nat /\ shadow.target_version \in Nat
  BY <1>0, ShadowFacts
<1>2. library.target_version = shadow.target_version
  BY <1>0, <1>1 DEF OrderInv, Genuine
<1>3. library.target_config = Wanted
  BY <1>0, <1>2, NewestIsWanted
<1>4. CASE channel = "mqtt" /\ link = "up" /\ frames # <<>>
  <2>1. 1 \in 1..Len(frames) /\ Head(frames) = frames[1] /\ frames[1] \in Shadow
    BY <1>0, <1>4
  <2>2. frames[1].target_version = shadow.target_version
    <3>1. frames[1].target_version \in Nat /\ Genuine(frames[1])
      BY <2>1, ShadowFacts DEF GenuineInv
    <3> QED BY <1>0, <1>1, <1>2, <1>4, <2>1, <3>1 DEF OrderInv, Genuine
  <2>3. Head(frames).target_config = Wanted
    BY <2>1, <2>2, NewestIsWanted DEF GenuineInv
  <2>4. c \in Splices(Wanted, Wanted) \ {Malformed}
    BY <1>3, <1>4, <2>3 DEF Copied
  <2>5. c # Wanted => /\ c \in Config /\ Wanted # Malformed
                      /\ c.interval = Wanted.interval /\ c.reboot = Wanted.reboot
    BY <2>4 DEF Splices
  <2>6. Wanted \in Config \cup {Malformed}
    BY <1>0, ShadowFacts DEF Wanted
  <2> QED BY <2>5, <2>6 DEF Config
<1>5. CASE ~(channel = "mqtt" /\ link = "up" /\ frames # <<>>)
  BY <1>3, <1>5 DEF Copied
<1> QED BY <1>4, <1>5

\* A pass about the newest target has applied it when it reports.
LEMMA NextReport == TypeInv /\ GenuineInv /\ OrderInv /\ ReportInv /\ [Next]_vars => ReportInv'
<1> SUFFICES ASSUME TypeInv, GenuineInv, OrderInv, ReportInv, [Next]_vars PROVE ReportInv'
  OBVIOUS
<1>0. /\ shadow \in Shadow /\ shadow.target_version \in Nat /\ shadow.current_version \in Nat
      /\ shadow.current_version <= shadow.target_version
  BY ShadowFacts DEF TypeInv, TypeOK, GenuineInv
<1>1. CASE SetShadow
  <2>1. /\ shadow'.target_version = shadow.target_version + 1
        /\ shadow'.current_version = shadow.current_version
        /\ pc' = pc /\ doc' = doc
    BY <1>1, SetShadowType DEF SetShadow, ram
  <2>2. ~Converged'
    BY <1>0, <2>1 DEF Converged
  <2>3. pc = "report" => doc.target_version # shadow'.target_version
    <3>1. pc = "report" => doc # NoDoc /\ doc.target_version \in Nat
      BY VersionsNat DEF TypeInv, TypeOK
    <3> QED BY <1>0, <2>1, <3>1 DEF GenuineInv
  <2> QED BY <2>1, <2>2, <2>3 DEF ReportInv, ConvergedMeansReported
<1>2. CASE Apply
  <2>1. PICK c \in Copied \ {Malformed} :
          current_config' = Keep(c.interval, current_config) /\ reboot' = c.reboot
    BY <1>2 DEF Apply
  <2>2. shadow' = shadow /\ doc' = doc /\ pc = "telemetry"
    BY <1>2 DEF Apply, platform
  <2>3. doc.target_version = shadow.target_version => c = Wanted /\ c # Malformed
    BY <2>1, <2>2, CopiedIsWanted
  <2>4. current_config' = Keep(c.interval, current_config')
    BY <2>1 DEF Keep
  <2>5. Wanted' = Wanted /\ Converged' = Converged /\ shadow'.current_config = shadow.current_config
    BY <2>2 DEF Wanted, Converged
  <2>6. ConvergedMeansReported'
    BY <2>5 DEF ReportInv, ConvergedMeansReported
  <2>7. ASSUME doc.target_version = shadow.target_version
        PROVE  /\ Wanted # Malformed
               /\ current_config' = Keep(Wanted.interval, current_config')
               /\ reboot' = Wanted.reboot
    BY <2>1, <2>3, <2>4, <2>7, Zenon
  <2> QED BY <2>2, <2>5, <2>6, <2>7 DEF ReportInv
<1>3. CASE ReportStored
  <2>1. /\ pc = "report" /\ pc' # "report"
        /\ shadow'.target_version = shadow.target_version
        /\ shadow'.target_config = shadow.target_config
        /\ shadow'.current_version = doc.target_version
        /\ shadow'.current_config = current_config
    BY <1>3, ReportType DEF ReportStored, AfterReport
  <2> QED BY <2>1 DEF ReportInv, ConvergedMeansReported, Converged, Wanted
<1>4. CASE ~SetShadow /\ ~Apply /\ ~ReportStored
  <2>1. shadow' = shadow /\ (pc' = "report" => UNCHANGED <<pc, doc, current_config, reboot>>)
    BY <1>4 DEF Next, Worker, Sync, Drop, Accept, Opened, Deliver, Disconnected, SyncFails,
         Fetch, SyncDone, RejectConfig, ReportLost, AfterReport, Reboot, Boot, TakeWakeup,
         Poll, vars, platform, ram
  <2> QED BY <2>1 DEF ReportInv, ConvergedMeansReported, Converged, Wanted
<1> QED BY <1>1, <1>2, <1>3, <1>4

(* A converged shadow shows the settings its target asked for, although    *)
(* mqtt's pass reads a buffer that the next push may be written over.      *)
THEOREM ReportedIsWanted == Spec => []ConvergedMeansReported
<1>1. Init => OrderInv /\ ReportInv
  BY DEF Init, OrderInv, ReportInv, ConvergedMeansReported, Wanted, EmptyConfig, Keep
<1>2. ReportInv => ConvergedMeansReported
  BY DEF ReportInv
<1> QED
  BY <1>1, <1>2, InitType, NextType, InitGenuine, NextGenuine, NextOrder, NextReport, PTL
  DEF Spec

-------------------------------------------------------------------------------
(* A pass reports a version at least as new as the last, since mqtt's      *)
(* documents come in order and ws's are fetched.                           *)
LEMMA NextLow == TypeInv /\ GenuineInv /\ OrderInv /\ LowInv /\ [Next]_vars => LowInv'
<1> SUFFICES ASSUME TypeInv, GenuineInv, OrderInv, LowInv, [Next]_vars PROVE LowInv'
  OBVIOUS
<1>0. /\ TypeInv' /\ GenuineInv' /\ shadow \in Shadow /\ shadow' \in Shadow
      /\ frames \in Seq(Shadow)
      /\ shadow.target_version \in Nat /\ shadow.current_version \in Nat
      /\ shadow'.target_version \in Nat /\ shadow'.current_version \in Nat
      /\ shadow.current_version <= shadow.target_version
      /\ shadow'.current_version <= shadow'.target_version
  BY NextType, NextGenuine, ShadowFacts DEF TypeInv, TypeOK, GenuineInv
<1>1. channel' = channel
  BY DEF Next, Worker, Sync, SetShadow, Drop, Accept, Opened, Deliver, Disconnected, SyncFails,
       Fetch, SyncDone, RejectConfig, Apply, ReportStored, ReportLost, AfterReport, Reboot,
       TakeWakeup, Poll, vars
<1>2. /\ \A i \in 1..Len(frames) : frames[i] \in Shadow /\ frames[i].target_version \in Nat
      /\ library # NoDoc => library \in Shadow /\ library.target_version \in Nat
      /\ doc # NoDoc => doc.target_version \in Nat
      /\ pc \in {"telemetry", "report"} => doc # NoDoc /\ library # NoDoc
  BY <1>0, ShadowFacts, VersionsNat DEF TypeInv, TypeOK
<1>3. CASE ReportStored
  <2>1. /\ pc = "report" /\ pc' \notin {"telemetry", "report"}
        /\ shadow'.current_version = doc.target_version
        /\ library' = library
        /\ channel = "mqtt" => frames' = frames
    BY <1>3, ReportType DEF ReportStored, AfterReport, Converge, ram, TypeInv, TypeOK
  <2>2. channel = "mqtt" =>
          \A i \in 1..Len(frames) : library.target_version <= frames[i].target_version
    BY <1>2, <2>1 DEF OrderInv
  <2>3. channel = "mqtt" => doc.target_version <= library.target_version
    BY <2>1 DEF LowInv
  <2>4. channel = "mqtt" =>
          \A i \in 1..Len(frames) : doc.target_version <= frames[i].target_version
    BY <1>2, <2>1, <2>2, <2>3
  <2> QED BY <1>1, <2>1, <2>3, <2>4 DEF LowInv
<1>4. CASE ~ReportStored
  <2>1. shadow'.current_version = shadow.current_version
    BY <1>4, SetShadowType DEF Next, Worker, Sync, Drop, Accept, Opened, Deliver, Disconnected,
       SyncFails, Fetch, SyncDone, RejectConfig, Apply, ReportLost, AfterReport, Reboot,
       TakeWakeup, Poll, vars, platform
  <2>2. channel = "mqtt" =>
          \A i \in 1..Len(frames') : shadow.current_version <= frames'[i].target_version
    <3> SUFFICES ASSUME channel = "mqtt", NEW i \in 1..Len(frames')
                 PROVE  shadow.current_version <= frames'[i].target_version
      OBVIOUS
    <3>0. \A j \in 1..Len(frames) : shadow.current_version <= frames[j].target_version
      BY DEF LowInv
    <3>1. CASE frames' = frames
      BY <3>0, <3>1
    <3>2. CASE frames' = <<>>
      BY <3>2
    <3>3. CASE frames' = <<shadow>>
      BY <1>0, <3>3
    <3>4. CASE frames' = Append(frames, shadow')
      <4>1. frames'[i] = shadow' \/ (i \in 1..Len(frames) /\ frames'[i] = frames[i])
        BY <1>0, <3>4
      <4> QED BY <1>0, <2>1, <3>0, <4>1
    <3>5. CASE frames # <<>> /\ frames' = Tail(frames)
      <4>1. i + 1 \in 1..Len(frames) /\ frames'[i] = frames[i + 1]
        BY <1>0, <3>5
      <4> QED BY <3>0, <4>1
    <3> QED BY <3>1, <3>2, <3>3, <3>4, <3>5, FramesStep
  <2>3. channel = "mqtt" /\ library' # NoDoc =>
          shadow.current_version <= library'.target_version
    <3>1. CASE library' = Head(frames) /\ frames # <<>>
      <4>1. 1 \in 1..Len(frames) /\ library' = frames[1]
        BY <1>0, <3>1
      <4> QED BY <4>1 DEF LowInv
    <3> QED BY <3>1, LibraryStep DEF LowInv
  <2>4. CASE Fetch
    <3>1. /\ doc' = VersionsOf(library') /\ library' \in Shadow /\ library' # NoDoc
          /\ pc' = "telemetry" /\ (channel = "ws" => library' = shadow)
          /\ channel \in {"ws", "mqtt"}
      BY <1>0, <2>4, ShadowFacts, PushAssumption DEF Fetch, TypeInv, TypeOK
    <3>2. shadow.current_version <= doc'.target_version
      BY <1>0, <2>3, <3>1, VersionsOfType
    <3> QED BY <1>1, <2>1, <2>2, <2>3, <3>1, <3>2 DEF LowInv
  <2>5. CASE ~Fetch
    <3>1. pc' \in {"telemetry", "report"} =>
            pc \in {"telemetry", "report"} /\ doc' = doc
      BY <1>4, <2>5 DEF Next, Worker, Sync, SetShadow, Drop, Accept, Opened, Deliver,
         Disconnected, SyncFails, SyncDone, RejectConfig, Apply, ReportLost, AfterReport,
         Reboot, Boot, TakeWakeup, Poll, vars, ram
    <3>2. ASSUME channel = "mqtt", pc' = "report"
          PROVE  doc.target_version <= library'.target_version
      <4>1. CASE Deliver
        <5>1. pc = "report" /\ library' = frames[1] /\ 1 \in 1..Len(frames)
          BY <1>0, <3>2, <4>1 DEF Deliver, Receive
        <5>2. /\ doc.target_version <= library.target_version
              /\ library.target_version <= frames[1].target_version
          BY <1>2, <3>2, <5>1 DEF LowInv, OrderInv
        <5> QED BY <1>2, <5>1, <5>2
      <4>2. CASE ~Deliver
        <5>1. library' = library
          BY <3>2, <4>2, <2>5 DEF Next, Worker, Sync, SetShadow, Drop, Accept, Opened,
             Disconnected, SyncFails, SyncDone, RejectConfig, Apply, ReportStored, ReportLost,
             AfterReport, Reboot, Boot, TakeWakeup, Poll, vars, ram
        <5>2. pc = "report" \/ pc = "telemetry"
          BY <3>1, <3>2
        <5> QED BY <3>2, <5>1, <5>2 DEF LowInv, OrderInv
      <4> QED BY <4>1, <4>2
    <3> QED BY <1>1, <2>1, <2>2, <2>3, <3>1, <3>2 DEF LowInv
  <2> QED BY <2>4, <2>5
<1> QED BY <1>3, <1>4

\* What the promise sees of a stored report.
LEMMA ReportSimulated ==
    ASSUME TypeInv, GenuineInv, ReportInv, LowInv, ReportStored
    PROVE  Promise!Report
<1>0. /\ pc = "report" /\ shadow \in Shadow /\ current_config \in Intervals
      /\ doc # NoDoc /\ doc.target_version \in Nat
      /\ shadow.target_version \in Nat /\ shadow.current_version \in Nat
      /\ shadow.target_config \in Config \cup {Malformed}
  BY ShadowFacts, VersionsNat DEF TypeInv, TypeOK, ReportStored
<1>1. /\ shadow'.target_version = shadow.target_version
      /\ shadow'.target_config = shadow.target_config
      /\ shadow'.current_version = doc.target_version
      /\ shadow'.current_config = current_config
      /\ pc' = IF reboot THEN "reboot" ELSE "wait"
      /\ rebooted' = rebooted
  BY <1>0, ReportType DEF ReportStored, AfterReport
<1>2. doc.target_version \in shadow.current_version..shadow.target_version
  BY <1>0 DEF LowInv, GenuineInv
<1>3. ASSUME doc.target_version = shadow.target_version
      PROVE  /\ <<shadow.target_config, current_config>> \in Agreement
             /\ shadow.target_config \in {c \in Config : c.reboot} => pc' = "reboot"
  BY <1>0, <1>1, <1>3 DEF ReportInv, Agreement, Wanted
<1> QED BY <1>0, <1>1, <1>2, <1>3 DEF Promise!Report

\* Every step of the device, the platform and the connection, seen by the promise.
LEMMA StepSimulated ==
    ASSUME TypeInv, GenuineInv, ReportInv, LowInv, [Next]_vars
    PROVE  [Promise!Next]_(Promise!vars)
<1> USE DEF Promise!vars, Promise!Next
<1>1. CASE SetShadow
  <2>1. PICK c \in Configs :
          shadow' = [shadow EXCEPT !.target_version = @ + 1, !.target_config = c]
    BY <1>1 DEF SetShadow
  <2>2. /\ c \in Config \cup {Malformed}
        /\ shadow'.target_version = shadow.target_version + 1
        /\ shadow'.target_config = c
        /\ shadow'.current_version = shadow.current_version
        /\ shadow'.current_config = shadow.current_config
        /\ rebooted' = FALSE /\ pc' = pc
    BY <1>1, <2>1, PushAssumption DEF SetShadow, TypeInv, TypeOK, Shadow
  <2>3. Promise!Write
    BY <2>2 DEF Promise!Write, TypeInv, TypeOK
  <2> QED BY <2>3
<1>2. CASE ReportStored
  BY <1>2, ReportSimulated
<1>3. CASE Reboot
  BY <1>3 DEF Reboot, Boot, Promise!Restart
<1>4. CASE ReportLost
  BY <1>4 DEF ReportLost, AfterReport, Promise!Restart
<1>5. CASE Drop \/ Worker
  BY <1>5 DEF Drop, Worker, Accept, Opened, Deliver, Disconnected, platform
<1>6. CASE SyncFails \/ Fetch \/ SyncDone \/ RejectConfig \/ Apply \/ TakeWakeup \/ Poll
  BY <1>6 DEF SyncFails, Fetch, SyncDone, RejectConfig, Apply, TakeWakeup, Poll, platform
<1>7. CASE UNCHANGED vars
  BY <1>7 DEF vars, platform
<1> QED BY <1>1, <1>2, <1>3, <1>4, <1>5, <1>6, <1>7 DEF Next, Sync

(* Both pushed samples implement the promise, dropped connections, late    *)
(* pushes and documents that are as old as the last push included.         *)
THEOREM KeepsPromise == Spec => ImplementsPromise
<1>1. Init => OrderInv /\ ReportInv /\ LowInv
  BY DEF Init, OrderInv, ReportInv, LowInv, ConvergedMeansReported, Wanted, EmptyConfig, Keep
<1>2. Init => Promise!Init
  <2> SUFFICES ASSUME Init PROVE Promise!Init
    OBVIOUS
  <2>1. /\ EmptyConfig \in Config /\ EmptyConfig \notin {c \in Config : c.reboot}
        /\ <<EmptyConfig, DefaultInterval>> \in Agreement /\ DefaultInterval \in Intervals
    BY PushAssumption DEF EmptyConfig, Config, Agreement, Keep
  <2> QED BY <2>1 DEF Init, Promise!Init, Promise!Kept, Promise!Converged
<1>3. TypeInv /\ GenuineInv /\ OrderInv /\ ReportInv /\ LowInv /\ [Next]_vars
        => (TypeInv /\ GenuineInv /\ OrderInv /\ ReportInv /\ LowInv)'
  BY NextType, NextGenuine, NextOrder, NextReport, NextLow
<1>4. TypeInv /\ GenuineInv /\ ReportInv /\ LowInv /\ [Next]_vars
        => [Promise!Next]_(Promise!vars)
  BY StepSimulated
<1> QED
  BY <1>1, <1>2, <1>3, <1>4, InitType, InitGenuine, PTL DEF Spec, ImplementsPromise, Promise!Spec

\* What was reported is behind what was written, and only what is kept is level with it.
KeptInv ==
    /\ shadow.target_version \in Nat
    /\ shadow.current_version \in 0..shadow.target_version
    /\ Promise!Kept

(* Whenever the platform shows equal versions, the interval it shows is    *)
(* the target's, however many pushes were late, and a reboot it asks for   *)
(* has happened or is under way.                                           *)
THEOREM PromiseIsKept == Spec => []Promise!Kept
<1>1. Promise!Init => KeptInv
  BY DEF Promise!Init, KeptInv
<1>2. KeptInv /\ [Promise!Next]_(Promise!vars) => KeptInv'
  <2> SUFFICES ASSUME KeptInv, [Promise!Next]_(Promise!vars) PROVE KeptInv'
    OBVIOUS
  <2> USE DEF KeptInv, Promise!Kept, Promise!Converged
  <2>1. CASE Promise!Write
    BY <2>1 DEF Promise!Write
  <2>2. CASE Promise!Report
    BY <2>2 DEF Promise!Report
  <2>3. CASE Promise!Restart
    BY <2>3 DEF Promise!Restart
  <2>4. CASE UNCHANGED Promise!vars
    BY <2>4 DEF Promise!vars
  <2> QED BY <2>1, <2>2, <2>3, <2>4 DEF Promise!Next
<1>3. KeptInv => Promise!Kept
  BY DEF KeptInv
<1> QED BY <1>1, <1>2, <1>3, KeepsPromise, PTL DEF ImplementsPromise, Promise!Spec
===============================================================================
