------------------------------- MODULE NiddProbe -------------------------------
(***************************************************************************)
(* nidd_probe: main() attaches over NB-IoT, brings a Non-IP PDN up, opens  *)
(* a raw socket on it and prints what comes down; meanwhile the shell, a   *)
(* thread of its own, sends frames on the same handle and opens a TLS      *)
(* socket beside it; and the modem's events give the two semaphores main() *)
(* waits on.  Whatever ends the bring-up, the modem is powered off.        *)
(***************************************************************************)
EXTENDS NiddFrame

CONSTANTS
    Builds,        \* values of CONFIG_NIDD_PROBE_DEDICATED_CID
    Fds,           \* descriptors
    Byte,          \* what a downlink is made of
    Frames,        \* downlinks
    NoFrame        \* none in hand

ASSUME ProbeAssumption ==
    /\ Builds \subseteq BOOLEAN
    /\ Fds \subseteq Nat
    /\ Frames \subseteq Seq(Byte)

VARIABLES
    dedicated,        \* this build
    pc,               \* main()
    err,              \* main()'s local: a descriptor it is opening or closing
    nidd_cid, nidd_fd,
    registered, pdn_up, \* semaphores
    radio,            \* the modem
    sockets,          \* what each descriptor stands for
    shell, shell_fd,  \* the command that runs, and the descriptor it has read
    rx_buf,           \* the downlink in hand
    uplink,           \* history: the kinds of socket a command was carried out on
    served,           \* history: the events that came, of registration and of our PDN
    refused           \* history: the modem would not power off

console == <<shell, shell_fd, uplink>>
signals == <<registered, pdn_up, served>>
setup == <<dedicated, nidd_cid>>
link == <<radio, refused>>
handles == <<err, nidd_fd, sockets>>
vars == <<pc, console, signals, setup, rx_buf, link, handles>>

Init ==
    /\ dedicated \in Builds
    /\ pc = "start" /\ err = -1
    /\ nidd_cid = 0 /\ nidd_fd = -1
    /\ registered = 0 /\ pdn_up = 0
    /\ radio = "off"
    /\ sockets = [f \in Fds |-> "free"]
    /\ shell = "idle" /\ shell_fd = -1
    /\ rx_buf = NoFrame
    /\ uplink = {} /\ served = {} /\ refused = FALSE

-------------------------------------------------------------------------------
\* lte_handler(), in the modem library's thread.  The semaphores' limit is one.

NetworkRegisters ==
    /\ radio = "on"
    /\ registered' = 1
    /\ served' = served \cup {"registered"}
    /\ UNCHANGED <<pdn_up, pc, console, setup, rx_buf, link, handles>>

\* Fault: any context will do.
AnyContext(cid) == TRUE

Ours(cid) == cid = nidd_cid

\* A context comes up; one that was created not before it is being activated.
PdnComesUp ==
    \E cid \in {0, 1} :
        /\ radio = "on"
        /\ cid = 1 => dedicated /\ pc # "register"
        /\ pdn_up' = IF Ours(cid) THEN 1 ELSE pdn_up
        /\ served' = IF cid = nidd_cid THEN served \cup {"pdn"} ELSE served
        /\ UNCHANGED <<registered, pc, console, setup, rx_buf, link, handles>>

-------------------------------------------------------------------------------
\* main()

Goto(from, to) == pc = from /\ pc' = to

Proceed(from, to) ==
    /\ Goto(from, to)
    /\ UNCHANGED <<console, signals, setup, rx_buf, link, handles>>

InitFails == Proceed("start", "ended")

\* A context is created, or the default one is used.
SetUp ==
    /\ Goto("start", "connect")
    /\ nidd_cid' = IF dedicated THEN 1 ELSE 0
    /\ UNCHANGED <<dedicated, console, signals, rx_buf, link, handles>>

SetUpFails ==
    /\ Goto("start", "stop")
    /\ nidd_cid' \in IF dedicated THEN {0, 1} ELSE {0}
    /\ UNCHANGED <<dedicated, console, signals, rx_buf, link, handles>>

Connect ==
    /\ Goto("connect", "register")
    /\ radio' = "on"
    /\ UNCHANGED <<refused, console, signals, setup, rx_buf, handles>>

\* The modem may be on or not after a connect that failed.
ConnectFails ==
    /\ Goto("connect", "stop")
    /\ radio' \in {"on", "off"}
    /\ UNCHANGED <<refused, console, signals, setup, rx_buf, handles>>

TakeRegistered ==
    /\ Goto("register", IF dedicated THEN "activate" ELSE "pdn")
    /\ registered = 1
    /\ registered' = 0
    /\ UNCHANGED <<pdn_up, served, console, setup, rx_buf, link, handles>>

\* Fault: the wait has no limit.
RegisterNeverTimesOut == FALSE

\* REGISTER_TIMEOUT_MIN are over.
RegisterTimesOut == Proceed("register", "stop") /\ registered = 0

\* Fault: the semaphore is cleared for the wait that follows.
ActivateClears ==
    /\ Goto("activate", "pdn")
    /\ pdn_up' = 0
    /\ UNCHANGED <<registered, served, console, setup, rx_buf, link, handles>>

\* The event may come before this call returns, or after.
Activate == Proceed("activate", "pdn")

ActivateFails == Proceed("activate", "stop")

TakePdnUp ==
    /\ Goto("pdn", "open")
    /\ pdn_up = 1
    /\ pdn_up' = 0
    /\ UNCHANGED <<registered, served, console, setup, rx_buf, link, handles>>

\* Fault: this error does not go by way of stop.
PdnTimesOutReturns == Proceed("pdn", "ended") /\ pdn_up = 0

\* PDN_TIMEOUT_SEC are over.
PdnTimesOut == Proceed("pdn", "stop") /\ pdn_up = 0

\* socket_open(): an unbound raw socket rides the default PDN.
OpenSocket ==
    /\ Goto("open", "bind")
    /\ \E f \in Fds :
        /\ sockets[f] = "free"
        /\ err' = f
        /\ sockets' = [sockets EXCEPT ![f] = IF dedicated THEN "default" ELSE "nonip"]
    /\ UNCHANGED <<nidd_fd, console, signals, setup, rx_buf, link>>

\* No PDN ID, or no socket.
OpenSocketFails == Proceed("open", "stop")

Bind ==
    /\ Goto("bind", "receive")
    /\ sockets' = [sockets EXCEPT ![err] = "nonip"]
    /\ nidd_fd' = err
    /\ UNCHANGED <<err, console, signals, setup, rx_buf, link>>

\* Fault: the socket is used although it could not be bound.
BindFailsUnnoticed ==
    /\ Goto("bind", "receive")
    /\ dedicated
    /\ nidd_fd' = err
    /\ UNCHANGED <<err, sockets, console, signals, setup, rx_buf, link>>

BindFails ==
    /\ Goto("bind", "stop")
    /\ dedicated
    /\ sockets' = [sockets EXCEPT ![err] = "free"]
    /\ UNCHANGED <<err, nidd_fd, console, signals, setup, rx_buf, link>>

Receive ==
    /\ Goto("receive", "print")
    /\ rx_buf' \in Frames
    /\ UNCHANGED <<console, signals, setup, link, handles>>

\* downlink_log(); nothing looks at the buffer again.
PrintDownlink ==
    /\ Goto("print", "receive")
    /\ rx_buf' = NoFrame
    /\ UNCHANGED <<console, signals, setup, link, handles>>

ReceiveFails ==
    /\ Goto("receive", "close")
    /\ err' = nidd_fd
    /\ nidd_fd' = -1
    /\ UNCHANGED <<sockets, console, signals, setup, rx_buf, link>>

Close ==
    /\ Goto("close", "stop")
    /\ sockets' = [sockets EXCEPT ![err] = "free"]
    /\ UNCHANGED <<err, nidd_fd, console, signals, setup, rx_buf, link>>

\* Its error is dropped.
PowerOff ==
    /\ Goto("stop", "ended")
    /\ \/ radio' = "off" /\ UNCHANGED refused
       \/ refused' = TRUE /\ UNCHANGED radio
    /\ UNCHANGED <<console, signals, setup, rx_buf, handles>>

-------------------------------------------------------------------------------
\* The shell: one command at a time.

\* cmd_raw(), cmd_hello(), cmd_telemetry(), cmd_report() and cmd_rai(), up to the check.
Command ==
    /\ shell = "idle"
    /\ nidd_fd >= 0
    /\ shell' = "send"
    /\ shell_fd' = nidd_fd
    /\ UNCHANGED <<uplink, pc, signals, setup, rx_buf, link, handles>>

(* The handle is read a second time for the call, unless the compiler kept *)
(* it; a descriptor that is -1 or closed makes the call fail.              *)
CommandRuns ==
    \E f \in {shell_fd, nidd_fd} :
        /\ shell = "send"
        /\ uplink' = IF f >= 0 /\ sockets[f] # "free" THEN uplink \cup {sockets[f]} ELSE uplink
        /\ shell' = "idle"
        /\ shell_fd' = -1
        /\ UNCHANGED <<pc, signals, setup, rx_buf, link, handles>>

\* cmd_https(): getaddrinfo() and a socket of its own.
HttpsOpens ==
    /\ shell = "idle"
    /\ radio = "on"
    /\ \E f \in Fds :
        /\ sockets[f] = "free"
        /\ shell_fd' = f
        /\ sockets' = [sockets EXCEPT ![f] = "tls"]
    /\ shell' = "https"
    /\ UNCHANGED <<uplink, pc, signals, setup, rx_buf, link, err, nidd_fd>>

\* Every way through it ends at out.
HttpsEnds ==
    /\ shell = "https"
    /\ sockets' = [sockets EXCEPT ![shell_fd] = "free"]
    /\ shell' = "idle"
    /\ shell_fd' = -1
    /\ UNCHANGED <<uplink, pc, signals, setup, rx_buf, link, err, nidd_fd>>

-------------------------------------------------------------------------------
BringUp ==
    \/ SetUp \/ SetUpFails \/ InitFails
    \/ Connect \/ ConnectFails
    \/ TakeRegistered \/ RegisterTimesOut
    \/ Activate \/ ActivateFails
    \/ TakePdnUp \/ PdnTimesOut
    \/ OpenSocket \/ OpenSocketFails \/ Bind \/ BindFails

WindDown == ReceiveFails \/ Close \/ PowerOff

Shell == Command \/ CommandRuns \/ HttpsOpens \/ HttpsEnds

Next == NetworkRegisters \/ PdnComesUp \/ BringUp \/ Receive \/ PrintDownlink \/ WindDown \/ Shell

Spec == Init /\ [][Next]_vars

\* main() runs; a downlink, a failure of the link and an event may never come.
FairSpec ==
    /\ Spec
    /\ WF_vars(BringUp) /\ WF_vars(PrintDownlink \/ Close \/ PowerOff)

-------------------------------------------------------------------------------
\* Properties.

Kinds == {"free", "default", "nonip", "tls"}

\* The variables hold what the declarations above say.
TypeOK ==
    /\ dedicated \in BOOLEAN
    /\ pc \in {"start", "connect", "register", "activate", "pdn", "open", "bind", "receive",
               "print", "close", "stop", "ended"}
    /\ err \in Fds \cup {-1}
    /\ nidd_cid \in {0, 1}
    /\ nidd_fd \in Fds \cup {-1}
    /\ registered \in {0, 1} /\ pdn_up \in {0, 1}
    /\ radio \in {"on", "off"}
    /\ sockets \in [Fds -> Kinds]
    /\ shell \in {"idle", "send", "https"}
    /\ shell_fd \in Fds \cup {-1}
    /\ rx_buf \in Frames \cup {NoFrame}
    /\ uplink \subseteq Kinds
    /\ served \subseteq {"registered", "pdn"}
    /\ refused \in BOOLEAN

(* The handle the shell sees is that of a socket on our Non-IP PDN, from   *)
(* the step that sets it to the one that clears it.                        *)
HandleLive == nidd_fd # -1 => sockets[nidd_fd] = "nonip"

(* The shell checks the handle and uses it while main() closes it: still,  *)
(* no frame, and so no claim key, goes out over the default PDN or a TLS   *)
(* socket that got the same number.                                        *)
NonIpOnly == uplink \subseteq {"nonip"}

(* However main() ends, its sockets are closed, the handle is cleared and  *)
(* the modem was told to power off (main.c:48-49).                         *)
EndsClean ==
    pc = "ended" =>
        /\ nidd_fd = -1
        /\ \A f \in Fds : sockets[f] \notin {"default", "nonip"}
        /\ radio = "off" \/ refused

\* The socket is opened for our context's event, whatever other contexts do.
OpensOnOwnPdn == nidd_fd # -1 => "pdn" \in served

\* A wait times out only if the event did not come, before the wait began either.
TimeoutsAreReal ==
    [][/\ RegisterTimesOut => "registered" \notin served
       /\ PdnTimesOut => "pdn" \notin served]_vars

\* What downlink_log() prints is what the frame says, and the tag is no part of it.
PrintsTrue == pc = "print" => ReadRight(rx_buf)

\* main() is always on its way to receiving or to having powered off.
Concludes == []<>(pc \in {"receive", "ended"})
===============================================================================
