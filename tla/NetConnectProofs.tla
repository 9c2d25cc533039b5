--------------------------- MODULE NetConnectProofs ---------------------------
(***************************************************************************)
(* Theorems about NetConnect, for any builds, rounds and power cuts.       *)
(***************************************************************************)
EXTENDS NetConnect, TLAPS

\* Another power-off is only tried while some are left.
TypeInv ==
    /\ TypeOK
    /\ pc = "poweroff" => tries < MaxTries

\* A semaphore given once net_connect() has armed was given by this call's connect.
ArmedInv == pc \in {"request", "wait", "backoff"} /\ network_connection_sem = 1 => landed

Install0 == {"prepare", "unprovisioned"}

\* Past the write, or past finding it there, the tag's CA is the platform's.
CaInv ==
    /\ ~Lte => pc \notin {"identity", "psk", "ca"}
    /\ pc \notin Install0 \cup {"identity", "psk", "ca", "write"} => store.ca = Ours

\* How far the store is, step by step of net_install_ca(); a RAM store starts clean.
StoreInv ==
    /\ ~Lte => ~store.psk /\ ~store.identity /\ pc \notin {"identity", "psk", "ca"}
    /\ pc \notin Install0 \cup {"identity"} => ~store.identity
    /\ pc \notin Install0 \cup {"identity", "psk"} => ~store.psk
    /\ pc \notin Install0 \cup {"identity", "psk", "ca", "write"} => store.ca = Ours

-------------------------------------------------------------------------------
\* Init satisfies the type invariant.
LEMMA InitType == Init => TypeInv
<1> SUFFICES ASSUME Init PROVE TypeInv
  OBVIOUS
<1>1. store \in [ca : {Ours, Other, NoCert}, psk : BOOLEAN, identity : BOOLEAN]
  <2>1. CASE Lte
    BY <2>1 DEF Init
  <2>2. CASE ~Lte
    <3>1. store = [ca |-> NoCert, psk |-> FALSE, identity |-> FALSE]
      BY <2>2 DEF Init, EmptyStore
    <3> QED BY <3>1
  <2> QED BY <2>1, <2>2
<1>2. round \in 1..MaxRounds /\ tries \in 0..MaxTries /\ cuts \in 0..MaxCuts
  BY NetAssumption DEF Init
<1> QED BY <1>1, <1>2 DEF Init, TypeInv, TypeOK, Places

\* A boot leaves everything typed.
LEMMA BootType ==
    ASSUME TypeInv, Boot, UNCHANGED build, cuts' \in 0..MaxCuts
    PROVE  TypeInv'
<1>1. store' \in [ca : {Ours, Other, NoCert}, psk : BOOLEAN, identity : BOOLEAN]
  BY DEF Boot, EmptyStore, TypeInv, TypeOK
<1>2. round' \in 1..MaxRounds /\ tries' \in 0..MaxTries
  BY NetAssumption DEF Boot
<1> QED BY <1>1, <1>2 DEF Boot, TypeInv, TypeOK, Places

\* Every step keeps the type invariant.
LEMMA NextType == TypeInv /\ [Next]_vars => TypeInv'
<1> SUFFICES ASSUME TypeInv, [Next]_vars PROVE TypeInv'
  OBVIOUS
<1>1. CASE Install
  <2>1. pc' \in Places /\ pc' # "poweroff"
    BY <1>1 DEF Install, InstallFails, Prepare, DeleteIdentity, DeletePsk, CaProvisioned,
         DeleteCa, WriteCa, Places
  <2>2. store' \in [ca : {Ours, Other, NoCert}, psk : BOOLEAN, identity : BOOLEAN]
    BY <1>1 DEF Install, InstallFails, Prepare, DeleteIdentity, DeletePsk, CaProvisioned,
         DeleteCa, WriteCa, TypeInv, TypeOK
  <2>3. Installing
    BY <1>1 DEF Install, InstallFails, Prepare, DeleteIdentity, DeletePsk, CaProvisioned,
         DeleteCa, WriteCa
  <2> QED BY <2>1, <2>2, <2>3 DEF Installing, net, TypeInv, TypeOK
<1>2. CASE Begin \/ RequestFails \/ JoinFails \/ Request
  <2>1. CASE Begin
    BY <2>1 DEF Begin, Arm, net, TypeInv, TypeOK, Places
  <2>2. CASE RequestFails
    BY <2>2 DEF RequestFails, net, TypeInv, TypeOK, Places
  <2>3. CASE JoinFails
    BY <2>3 DEF JoinFails, net, TypeInv, TypeOK, Places
  <2>4. CASE Request
    BY <2>4 DEF Request, net, TypeInv, TypeOK, Places
  <2> QED BY <1>2, <2>1, <2>2, <2>3, <2>4
<1>3. CASE Connect \/ JoinAgain \/ Leave
  BY <1>3 DEF Connect, JoinAgain, Leave, net, TypeInv, TypeOK, Places
<1>4. CASE TimesOut
  BY <1>4 DEF TimesOut, AfterTimeout, net, TypeInv, TypeOK, Places
<1>5. CASE Disconnect
  BY <1>5, NetAssumption DEF Disconnect, TypeInv, TypeOK, Places
<1>6. CASE PowerOff
  BY <1>6 DEF PowerOff, TypeInv, TypeOK, Places
<1>7. CASE PowerOffFails
  <2>1. tries' \in 0..MaxTries
    BY <1>7, NetAssumption DEF PowerOffFails, TypeInv, TypeOK
  <2> QED BY <1>7, <2>1 DEF PowerOffFails, TryAgain, net, TypeInv, TypeOK, Places
<1>8. CASE RoundFails
  <2>1. round' \in 1..MaxRounds
    BY <1>8, NetAssumption DEF RoundFails, TypeInv, TypeOK
  <2> QED BY <1>8, <2>1 DEF RoundFails, GiveUp, net, TypeInv, TypeOK, Places
<1>9. CASE L4Connected \/ L4Disconnected
  BY <1>9 DEF L4Connected, L4Disconnected, TypeInv, TypeOK
<1>10. CASE Reboot
  BY <1>10, BootType DEF Reboot, TypeInv, TypeOK
<1>11. CASE PowerCut
  <2>1. cuts' \in 0..MaxCuts
    BY <1>11, NetAssumption DEF PowerCut, TypeInv, TypeOK
  <2> QED BY <1>11, <2>1, BootType DEF PowerCut
<1>12. CASE UNCHANGED vars
  BY <1>12 DEF vars, net, TypeInv, TypeOK
<1> QED
  BY <1>1, <1>2, <1>3, <1>4, <1>5, <1>6, <1>7, <1>8, <1>9, <1>10, <1>11, <1>12 DEF Next, Main

\* Every variable stays typed, whatever fails in whatever order.
THEOREM TypeCorrect == Spec => []TypeOK
<1>1. TypeInv => TypeOK
  BY DEF TypeInv
<1> QED BY <1>1, InitType, NextType, PTL DEF Spec

-------------------------------------------------------------------------------
\* A pending connect is of this call.
LEMMA NextArmed == TypeInv /\ ArmedInv /\ [Next]_vars => ArmedInv'
<1> SUFFICES ASSUME TypeInv, ArmedInv, [Next]_vars PROVE ArmedInv'
  OBVIOUS
<1>1. CASE Install
  <2>1. pc' \notin {"request", "wait", "backoff"}
    BY <1>1 DEF Install, InstallFails, Prepare, DeleteIdentity, DeletePsk, CaProvisioned,
         DeleteCa, WriteCa
  <2> QED BY <2>1 DEF ArmedInv
<1>2. CASE Begin \/ Request \/ Connect
  BY <1>2 DEF Begin, Arm, Request, Connect, ArmedInv
<1>3. CASE RequestFails \/ JoinFails \/ TimesOut \/ JoinAgain \/ RoundFails \/ Leave
  BY <1>3 DEF RequestFails, JoinFails, TimesOut, JoinAgain, RoundFails, GiveUp, Leave, net,
       ArmedInv
<1>4. CASE Disconnect \/ PowerOff \/ PowerOffFails
  BY <1>4 DEF Disconnect, PowerOff, PowerOffFails, net, ArmedInv, TypeInv, TypeOK
<1>5. CASE L4Connected \/ L4Disconnected
  BY <1>5 DEF L4Connected, L4Disconnected, ArmedInv
<1>6. CASE Reboot \/ PowerCut
  BY <1>6 DEF Reboot, PowerCut, Boot, ArmedInv
<1>7. CASE UNCHANGED vars
  BY <1>7 DEF vars, net, ArmedInv
<1> QED BY <1>1, <1>2, <1>3, <1>4, <1>5, <1>6, <1>7 DEF Next, Main

(* net_connect() never returns success for a connect of an earlier call,   *)
(* however late it lands and however the calls before ended.               *)
THEOREM ConnectIsFresh == Spec => ConnectedInThisCall
<1>1. Init => ArmedInv
  BY DEF Init, ArmedInv
<1>2. ArmedInv /\ [Next]_vars => [Connects => landed]_vars
  <2> SUFFICES ASSUME ArmedInv, [Next]_vars, Connects PROVE landed
    OBVIOUS
  <2>1. network_connection_sem = 1
    BY DEF Connects, Next, Main, Install, InstallFails, Prepare, DeleteIdentity, DeletePsk,
         CaProvisioned, DeleteCa, WriteCa, Begin, RequestFails, JoinFails, Request, Connect,
         TimesOut, AfterTimeout, JoinAgain, Disconnect, PowerOff, PowerOffFails, RoundFails,
         Reboot, Boot, Leave, L4Connected, L4Disconnected, PowerCut, vars
  <2> QED BY <2>1 DEF Connects, ArmedInv
<1> QED BY <1>1, <1>2, InitType, NextType, NextArmed, PTL DEF Spec, ConnectedInThisCall

-------------------------------------------------------------------------------
\* After a wait that timed out only net_disconnect() leads on.
LEMMA NextPoweredOff == TypeInv /\ PoweredOffNotReset /\ [Next]_vars => PoweredOffNotReset'
<1> SUFFICES ASSUME TypeInv, PoweredOffNotReset, [Next]_vars PROVE PoweredOffNotReset'
  OBVIOUS
<1>1. CASE Install
  <2>1. pc' \notin {"failed", "reboot", "stopped"}
    BY <1>1 DEF Install, InstallFails, Prepare, DeleteIdentity, DeletePsk, CaProvisioned,
         DeleteCa, WriteCa
  <2> QED BY <2>1 DEF PoweredOffNotReset
<1>2. CASE Begin \/ JoinFails \/ Request \/ Connect \/ JoinAgain \/ Leave
  BY <1>2 DEF Begin, JoinFails, Request, Connect, JoinAgain, Leave, PoweredOffNotReset
<1>3. CASE RequestFails
  BY <1>3 DEF RequestFails, PoweredOffNotReset
<1>4. CASE TimesOut \/ Disconnect
  BY <1>4 DEF TimesOut, AfterTimeout, Disconnect, Lte, PoweredOffNotReset
<1>5. CASE PowerOff
  BY <1>5 DEF PowerOff, PoweredOffNotReset
<1>6. CASE PowerOffFails
  BY <1>6, NetAssumption DEF PowerOffFails, TryAgain, PoweredOffNotReset, TypeInv, TypeOK
<1>7. CASE RoundFails
  BY <1>7 DEF RoundFails, PoweredOffNotReset, Lte
<1>8. CASE L4Connected \/ L4Disconnected
  BY <1>8 DEF L4Connected, L4Disconnected, PoweredOffNotReset, Lte
<1>9. CASE Reboot \/ PowerCut
  BY <1>9 DEF Reboot, PowerCut, Boot, PoweredOffNotReset
<1>10. CASE UNCHANGED vars
  BY <1>10 DEF vars, PoweredOffNotReset, Lte
<1> QED
  BY <1>1, <1>2, <1>3, <1>4, <1>5, <1>6, <1>7, <1>8, <1>9, <1>10 DEF Next, Main

(* A modem that was asked to attach is never reset or asked again without  *)
(* the graceful power-off, as often as the code tries it.                  *)
THEOREM ModemPoweredOff == Spec => []PoweredOffNotReset
<1>1. Init => PoweredOffNotReset
  BY DEF Init, PoweredOffNotReset
<1> QED BY <1>1, InitType, NextType, NextPoweredOff, PTL DEF Spec

-------------------------------------------------------------------------------
\* The store is as far as the installation, if deletes do what they say.
LEMMA NextStore ==
    ASSUME ~DeleteMayFail
    PROVE  TypeInv /\ StoreInv /\ [Next]_vars => StoreInv'
<1> SUFFICES ASSUME TypeInv, StoreInv, [Next]_vars PROVE StoreInv'
  OBVIOUS
<1>0. store \in [ca : {Ours, Other, NoCert}, psk : BOOLEAN, identity : BOOLEAN]
  BY DEF TypeInv, TypeOK
<1>1. CASE Install
  <2>1. build' = build
    BY <1>1 DEF Install, InstallFails, Prepare, DeleteIdentity, DeletePsk, CaProvisioned,
         DeleteCa, WriteCa, Installing
  <2>2. CASE InstallFails \/ Prepare
    BY <2>1, <2>2 DEF InstallFails, Prepare, StoreInv, Install0, Lte
  <2>3. CASE DeleteIdentity
    BY <1>0, <2>1, <2>3 DEF DeleteIdentity, StoreInv, Install0, Lte
  <2>4. CASE DeletePsk
    BY <1>0, <2>1, <2>4 DEF DeletePsk, StoreInv, Install0, Lte
  <2>5. CASE CaProvisioned
    BY <2>1, <2>5 DEF CaProvisioned, Provisioned, StoreInv, Install0, Lte
  <2>6. CASE DeleteCa
    BY <1>0, <2>1, <2>6 DEF DeleteCa, StoreInv, Install0, Lte
  <2>7. CASE WriteCa
    BY <1>0, <2>1, <2>7 DEF WriteCa, StoreInv, Install0, Lte
  <2> QED BY <1>1, <2>2, <2>3, <2>4, <2>5, <2>6, <2>7 DEF Install
<1>2. CASE Begin \/ RequestFails \/ JoinFails \/ Request \/ Connect \/ TimesOut \/ JoinAgain
           \/ Disconnect \/ RoundFails \/ Leave
  BY <1>2 DEF Begin, RequestFails, JoinFails, Request, Connect, TimesOut, AfterTimeout,
       JoinAgain, Disconnect, RoundFails, GiveUp, Leave, StoreInv, Install0, Lte, TypeInv,
       TypeOK
<1>3. CASE PowerOff \/ PowerOffFails
  BY <1>3 DEF PowerOff, PowerOffFails, StoreInv, Install0, Lte, TypeInv, TypeOK
<1>4. CASE L4Connected \/ L4Disconnected
  BY <1>4 DEF L4Connected, L4Disconnected, StoreInv, Lte
<1>5. CASE Reboot \/ PowerCut
  <2>1. Boot /\ build' = build
    BY <1>5 DEF Reboot, PowerCut
  <2> QED BY <2>1 DEF Boot, EmptyStore, StoreInv, Install0, Lte
<1>6. CASE UNCHANGED vars
  BY <1>6 DEF vars, StoreInv, Lte
<1> QED BY <1>1, <1>2, <1>3, <1>4, <1>5, <1>6 DEF Next, Main

(* Provisioning is safe against power cuts in the middle of it: what goes  *)
(* online has exactly the platform's CA, if deletes do not fail silently.  *)
THEOREM CredentialsReady == ASSUME ~DeleteMayFail PROVE Spec => []CredentialReady
<1>1. Init => StoreInv
  BY DEF Init, EmptyStore, StoreInv, Install0
<1>2. TypeInv /\ StoreInv => CredentialReady
  BY DEF StoreInv, CredentialReady, Install0, TypeInv, TypeOK
<1> QED BY <1>1, <1>2, InitType, NextType, NextStore, PTL DEF Spec

(* delete_if_present() drops its errors (lte.c:43-50): a stale PSK or      *)
(* identity may stay, but the CA of a device that goes online is the       *)
(* platform's all the same, whichever deletes failed.                      *)
THEOREM CaIsOurs == Spec => [](pc \in {"begin", "request", "wait", "online"} => store.ca = Ours)
<1>1. Init => CaInv
  BY DEF Init, CaInv, Install0
<1>2. TypeInv /\ CaInv /\ [Next]_vars => CaInv'
  <2> SUFFICES ASSUME TypeInv, CaInv, [Next]_vars PROVE CaInv'
    OBVIOUS
  <2>0. store \in [ca : {Ours, Other, NoCert}, psk : BOOLEAN, identity : BOOLEAN]
    BY DEF TypeInv, TypeOK
  <2> USE DEF CaInv, Install0, Lte
  <2>1. CASE Install
    <3>1. build' = build
      BY <2>1 DEF Install, InstallFails, Prepare, DeleteIdentity, DeletePsk, CaProvisioned,
           DeleteCa, WriteCa, Installing
    <3>2. CASE InstallFails \/ Prepare \/ CaProvisioned
      BY <3>1, <3>2 DEF InstallFails, Prepare, CaProvisioned, Provisioned
    <3>3. CASE DeleteIdentity \/ DeletePsk \/ DeleteCa
      BY <3>1, <3>3 DEF DeleteIdentity, DeletePsk, DeleteCa
    <3>4. CASE WriteCa
      BY <2>0, <3>1, <3>4 DEF WriteCa
    <3> QED BY <2>1, <3>2, <3>3, <3>4 DEF Install
  <2>2. CASE Begin \/ RequestFails \/ JoinFails \/ Request \/ Connect \/ TimesOut \/ JoinAgain
             \/ Disconnect \/ RoundFails \/ Leave
    BY <2>2 DEF Begin, RequestFails, JoinFails, Request, Connect, TimesOut, AfterTimeout,
         JoinAgain, Disconnect, RoundFails, GiveUp, Leave, TypeInv, TypeOK
  <2>3. CASE PowerOff \/ PowerOffFails
    BY <2>3 DEF PowerOff, PowerOffFails, TypeInv, TypeOK
  <2>4. CASE L4Connected \/ L4Disconnected
    BY <2>4 DEF L4Connected, L4Disconnected
  <2>5. CASE Reboot \/ PowerCut
    BY <2>5 DEF Reboot, PowerCut, Boot
  <2>6. CASE UNCHANGED vars
    BY <2>6 DEF vars
  <2> QED BY <2>1, <2>2, <2>3, <2>4, <2>5, <2>6 DEF Next, Main
<1>3. CaInv => (pc \in {"begin", "request", "wait", "online"} => store.ca = Ours)
  BY DEF CaInv, Install0
<1> QED BY <1>1, <1>2, <1>3, InitType, NextType, PTL DEF Spec
===============================================================================
