------------------------------ MODULE NetConnect ------------------------------
(***************************************************************************)
(* samples/common/net and the bring-up of main(): a boot installs the root *)
(* CA, brings the network up, and from there on may take it down again.    *)
(* One thread runs main(); the connection manager's L4 events come from    *)
(* another and give a semaphore.  lte.c gives up after one wait and powers *)
(* the modem off, wifi.c retries for ever, native_sim.c returns the error, *)
(* and asset_tracker wraps net_connect() in rounds that end in a reboot.   *)
(* How long the waits are is left out: a wait ends at any time.            *)
(***************************************************************************)
EXTENDS Integers

CONSTANTS
    Ours, Other, NoCert,  \* what a credential store holds as the CA
    Builds,               \* the builds looked at
    MaxRounds,            \* CONFIG_ASSET_TRACKER_CONNECT_MAX_ROUNDS
    MaxTries,             \* lte_lc_power_off() attempts
    DeleteMayFail,        \* deleting a stale credential can fail
    MaxCuts               \* bound: power cuts

Build == [board : {"lte", "wifi", "native_sim"}, retries : BOOLEAN]

ASSUME NetAssumption ==
    /\ Builds \subseteq Build
    /\ MaxRounds \in Nat \ {0} /\ MaxTries \in Nat \ {0}
    /\ DeleteMayFail \in BOOLEAN
    /\ MaxCuts \in Nat

VARIABLES
    build,
    store,   \* the credentials under this security tag; the modem's persists
    pc,      \* main()'s thread
    then,    \* where net_disconnect() returns to
    round,   \* connect_with_retry()'s round
    tries,   \* power-off attempts of this net_disconnect()
    modem,   \* "off" is CFUN=0; "down" on boards without one
    asked,   \* connectivity was requested of the connection manager
    l4,      \* L4 connectivity, as the connection manager sees it
    network_connection_sem,
    landed,  \* history: a connect landed since net_connect() was called
    joined,  \* history: a connect landed since this attempt was requested
    early,   \* history: the last round failed before it asked for connectivity
    cuts     \* history: power cuts so far

net == <<asked, l4, network_connection_sem, landed, joined>>
vars == <<build, store, pc, then, round, tries, modem, net, early, cuts>>

Lte == build.board = "lte"

EmptyStore == [ca |-> NoCert, psk |-> FALSE, identity |-> FALSE]

\* Power-on: only the modem keeps its store.
Boot ==
    /\ store' = IF Lte THEN store ELSE EmptyStore
    /\ pc' = "prepare"
    /\ then' = "failed"
    /\ round' = 1
    /\ tries' = 0
    /\ modem' = "off"
    /\ asked' = FALSE /\ l4' = FALSE
    /\ network_connection_sem' = 0
    /\ landed' = FALSE /\ joined' = FALSE
    /\ early' = FALSE

Init ==
    /\ build \in Builds
    /\ store \in IF Lte THEN [ca : {Ours, Other, NoCert}, psk : BOOLEAN, identity : BOOLEAN]
                 ELSE {EmptyStore}
    /\ pc = "prepare"
    /\ then = "failed"
    /\ round = 1
    /\ tries = 0
    /\ modem = "off"
    /\ asked = FALSE /\ l4 = FALSE
    /\ network_connection_sem = 0
    /\ landed = FALSE /\ joined = FALSE
    /\ early = FALSE
    /\ cuts = 0

-------------------------------------------------------------------------------
\* net_prepare() and net_install_ca(), before anything is connected.

Installing == UNCHANGED <<build, then, round, tries, modem, net, early, cuts>>

\* An error of nrf_modem_lib_init() or of the credential store: main() returns.
InstallFails ==
    /\ \/ pc = "prepare" /\ Lte
       \/ pc \in {"ca", "write"}
    /\ pc' = "unprovisioned"
    /\ UNCHANGED store
    /\ Installing

Prepare ==
    /\ pc = "prepare"
    /\ pc' = IF Lte THEN "identity" ELSE "write"
    /\ UNCHANGED store
    /\ Installing

\* delete_if_present(), whose errors nobody looks at.
DeleteIdentity ==
    /\ pc = "identity"
    /\ \E kept \in IF DeleteMayFail THEN BOOLEAN ELSE {FALSE} :
         store' = [store EXCEPT !.identity = @ /\ kept]
    /\ pc' = "psk"
    /\ Installing

DeletePsk ==
    /\ pc = "psk"
    /\ \E kept \in IF DeleteMayFail THEN BOOLEAN ELSE {FALSE} :
         store' = [store EXCEPT !.psk = @ /\ kept]
    /\ pc' = "ca"
    /\ Installing

\* Fault: any certificate will do.
ProvisionedAny == store.ca # NoCert

\* modem_key_mgmt_exists() and modem_key_mgmt_cmp()
Provisioned == store.ca = Ours

CaProvisioned ==
    /\ pc = "ca"
    /\ Provisioned
    /\ pc' = "begin"
    /\ UNCHANGED store
    /\ Installing

\* A delete that fails is a warning.
DeleteCa ==
    /\ pc = "ca"
    /\ ~Provisioned
    /\ \E ca \in {NoCert, store.ca} : store' = [store EXCEPT !.ca = ca]
    /\ pc' = "write"
    /\ Installing

\* modem_key_mgmt_write(), tls_credential_add()
WriteCa ==
    /\ pc = "write"
    /\ store' = [store EXCEPT !.ca = Ours]
    /\ pc' = "begin"
    /\ Installing

-------------------------------------------------------------------------------
\* The connection manager's thread: l4_event_handler().

\* NET_EVENT_L4_CONNECTED
L4Connected ==
    /\ asked /\ ~l4
    /\ l4' = TRUE
    /\ network_connection_sem' = 1
    /\ landed' = TRUE /\ joined' = TRUE
    /\ UNCHANGED <<build, store, pc, then, round, tries, modem, asked, early, cuts>>

\* NET_EVENT_L4_DISCONNECTED: logged.
L4Disconnected ==
    /\ l4
    /\ l4' = FALSE
    /\ UNCHANGED <<build, store, pc, then, round, tries, modem, asked, network_connection_sem,
                   landed, joined, early, cuts>>

-------------------------------------------------------------------------------
\* net_connect()

\* Fault: a connect that is pending stays pending.
ArmKeepsPending == UNCHANGED network_connection_sem

Arm == network_connection_sem' = 0

\* net_events_arm(); a connect between this and the interface coming up counts.
Begin ==
    /\ pc = "begin"
    /\ Arm
    /\ landed' = FALSE /\ joined' = FALSE
    /\ early' = FALSE
    /\ pc' = "request"
    /\ UNCHANGED <<build, store, then, round, tries, modem, asked, l4, cuts>>

(* The interface or the request is refused: an error before there is       *)
(* anything to wait for.  An interface that came up has turned the modem   *)
(* on, and it is left on.                                                  *)
RequestFails ==
    /\ pc = "request"
    /\ pc' = "failed"
    /\ modem' \in IF Lte THEN {modem, "on"} ELSE {modem}
    /\ early' = TRUE
    /\ UNCHANGED <<build, store, then, round, tries, net, cuts>>

\* wifi.c: NET_REQUEST_WIFI_CONNECT_STORED is refused and the loop goes round.
JoinFails ==
    /\ pc = "request"
    /\ build.board = "wifi"
    /\ pc' = "backoff"
    /\ UNCHANGED <<build, store, then, round, tries, modem, net, early, cuts>>

(* Connectivity is asked for.  native_sim's interface may be up already,   *)
(* and its status is sent again.                                           *)
Request ==
    /\ pc = "request"
    /\ asked' = TRUE
    /\ modem' = IF Lte THEN "on" ELSE modem
    /\ joined' = FALSE
    /\ IF build.board = "native_sim" /\ l4
       THEN network_connection_sem' = 1 /\ landed' = TRUE
       ELSE UNCHANGED <<network_connection_sem, landed>>
    /\ pc' = "wait"
    /\ UNCHANGED <<build, store, then, round, tries, l4, early, cuts>>

\* k_sem_take() returned 0.
Connect ==
    /\ pc = "wait"
    /\ network_connection_sem = 1
    /\ network_connection_sem' = 0
    /\ pc' = "online"
    /\ UNCHANGED <<build, store, then, round, tries, modem, asked, l4, landed, joined, early,
                   cuts>>

\* Fault: the modem is left as it is after the wait.
AfterTimeoutReturns == IF build.board = "wifi" THEN "backoff" ELSE "failed"

\* The error path of each board.
AfterTimeout ==
    CASE Lte -> "disconnect"
      [] build.board = "wifi" -> "backoff"
      [] OTHER -> "failed"

\* k_sem_take() timed out.
TimesOut ==
    /\ pc = "wait"
    /\ network_connection_sem = 0
    /\ pc' = AfterTimeout
    /\ then' = "failed"
    /\ UNCHANGED <<build, store, round, tries, modem, net, early, cuts>>

\* wifi.c's backoff is over: the next attempt, in the same call.
JoinAgain ==
    /\ pc = "backoff"
    /\ pc' = "request"
    /\ UNCHANGED <<build, store, then, round, tries, modem, net, early, cuts>>

-------------------------------------------------------------------------------
\* net_disconnect()

\* Interface down; an error is logged, and what was connected stays.
Disconnect ==
    /\ pc = "disconnect"
    /\ \E stays \in BOOLEAN : asked' = (asked /\ stays) /\ l4' = (l4 /\ stays)
    /\ tries' = 0
    /\ pc' = IF Lte THEN "poweroff" ELSE then
    /\ UNCHANGED <<build, store, then, round, modem, network_connection_sem, landed, joined,
                   early, cuts>>

PowerOff ==
    /\ pc = "poweroff"
    /\ modem' = "off"
    /\ asked' = FALSE /\ l4' = FALSE
    /\ pc' = then
    /\ UNCHANGED <<build, store, then, round, tries, network_connection_sem, landed, joined,
                   early, cuts>>

TryAgain == tries' < MaxTries

PowerOffFails ==
    /\ pc = "poweroff"
    /\ tries' = tries + 1
    /\ pc' = IF TryAgain THEN "poweroff" ELSE then
    /\ UNCHANGED <<build, store, then, round, modem, net, early, cuts>>

-------------------------------------------------------------------------------
\* main() around it

\* Fault: an asset that cannot connect stops.
GiveUpStops == "stopped"

\* The rounds are over: a fresh boot.
GiveUp == IF build.retries THEN "reboot" ELSE "stopped"

RoundFails ==
    /\ pc = "failed"
    /\ IF build.retries /\ round < MaxRounds
       THEN round' = round + 1 /\ pc' = "begin"
       ELSE round' = round /\ pc' = GiveUp
    /\ UNCHANGED <<build, store, then, tries, modem, net, early, cuts>>

\* Online: pigeon_init() fails and main() returns, or the shadow commands a reboot.
Leave ==
    /\ pc = "online"
    /\ then' \in {"stopped", "reboot"}
    /\ pc' = "disconnect"
    /\ UNCHANGED <<build, store, round, tries, modem, net, early, cuts>>

\* pigeon_reboot()
Reboot ==
    /\ pc = "reboot"
    /\ Boot
    /\ UNCHANGED <<build, cuts>>

PowerCut ==
    /\ cuts < MaxCuts
    /\ Boot
    /\ cuts' = cuts + 1
    /\ UNCHANGED build

Install ==
    \/ InstallFails
    \/ Prepare
    \/ DeleteIdentity
    \/ DeletePsk
    \/ CaProvisioned
    \/ DeleteCa
    \/ WriteCa

Main ==
    \/ Install
    \/ Begin
    \/ RequestFails
    \/ JoinFails
    \/ Request
    \/ Connect
    \/ TimesOut
    \/ JoinAgain
    \/ Disconnect
    \/ PowerOff
    \/ PowerOffFails
    \/ RoundFails
    \/ Reboot

Next == Main \/ Leave \/ L4Connected \/ L4Disconnected \/ PowerCut

Spec == Init /\ [][Next]_vars

(* main()'s thread runs on.  Of the network only that a request made again *)
(* and again is granted, and a connect lands within a wait, in the end.    *)
FairSpec ==
    /\ Spec
    /\ WF_vars(Main)
    /\ SF_vars(Request)
    /\ SF_vars(pc = "wait" /\ L4Connected)

-------------------------------------------------------------------------------
\* Properties.

Places ==
    {"prepare", "identity", "psk", "ca", "write", "begin", "request", "wait", "backoff",
     "disconnect", "poweroff", "failed", "online", "reboot", "stopped", "unprovisioned"}

\* The variables hold what the declarations above say.
TypeOK ==
    /\ build \in Builds
    /\ store \in [ca : {Ours, Other, NoCert}, psk : BOOLEAN, identity : BOOLEAN]
    /\ pc \in Places
    /\ then \in {"failed", "stopped", "reboot"}
    /\ round \in 1..MaxRounds
    /\ tries \in 0..MaxTries
    /\ modem \in {"off", "on"}
    /\ asked \in BOOLEAN /\ l4 \in BOOLEAN
    /\ network_connection_sem \in {0, 1}
    /\ landed \in BOOLEAN /\ joined \in BOOLEAN
    /\ early \in BOOLEAN
    /\ cuts \in 0..MaxCuts

Connects == pc = "wait" /\ pc' = "online"

(* net_connect.h: net_connect() blocks until there is connectivity.  It    *)
(* returns success only for a connect that landed in this call, never for  *)
(* one that came after an earlier call timed out (net_events.c:45-46).     *)
ConnectedInThisCall == [][Connects => landed]_vars

(* lte.c:17-18: before a retry or a reset a modem that was asked to attach *)
(* is powered off, or that was tried as often as the code tries it.        *)
PoweredOffNotReset ==
    Lte /\ pc \in {"failed", "reboot", "stopped"} /\ ~early =>
        modem = "off" \/ tries = MaxTries

(* lte.c:56-58: a device that goes online, after any power cuts in the     *)
(* middle of provisioning, has the platform's CA under its tag, and no     *)
(* other credential that would fail every handshake.                       *)
CredentialReady ==
    pc \in {"begin", "request", "wait", "online"} =>
        store = [ca |-> Ours, psk |-> FALSE, identity |-> FALSE]

(* main.c:22-24: an asset that does not reach the network is recovered.    *)
(* Whatever timed out, was refused or was cut off, it comes online, unless *)
(* its CA cannot be installed.  Not so on WiFi: see the README.            *)
ComesOnline ==
    build.retries /\ build.board # "wifi" => <>(pc \in {"online", "unprovisioned"})

-------------------------------------------------------------------------------
(* net_events.c:45-46: a connect that lands after the previous attempt     *)
(* timed out does not satisfy this one over a link that is gone.           *)
ConnectedInThisAttempt == [][Connects => joined \/ l4]_vars
===============================================================================
