---------------------------- MODULE NiddProbeProofs ----------------------------
(***************************************************************************)
(* Theorems about NiddProbe, for either build, any descriptors and any     *)
(* downlinks.                                                              *)
(***************************************************************************)
EXTENDS NiddProbe, WellFoundedInduction, TLAPS

Receiving == pc \in {"receive", "print"}

(* Who owns which descriptor.  Raw sockets are main()'s, by its local or   *)
(* by the handle; TLS sockets are the command's that runs; and a command   *)
(* that holds the handle began when main() had opened it for good.         *)
OwnInv ==
    /\ pc \in {"bind", "close"} => err \in Fds
    /\ pc = "bind" => sockets[err] \in {"default", "nonip"}
    /\ pc = "close" => sockets[err] = "nonip"
    /\ nidd_fd # -1 <=> Receiving
    /\ nidd_fd # -1 => sockets[nidd_fd] = "nonip"
    /\ \A f \in Fds :
        /\ sockets[f] = "default" => pc = "bind" /\ f = err
        /\ sockets[f] = "nonip" =>
             (pc \in {"bind", "close"} /\ f = err) \/ (Receiving /\ f = nidd_fd)
        /\ sockets[f] = "tls" <=> shell = "https" /\ f = shell_fd
    /\ shell # "idle" => shell_fd \in Fds
    /\ shell = "send" => Receiving \/ pc \in {"close", "stop", "ended"}

\* An event that came is in the semaphore until main() has taken it.
ServedInv ==
    /\ pdn_up = 1 => "pdn" \in served
    /\ Receiving \/ pc \in {"open", "bind"} => "pdn" \in served
    /\ pc = "register" /\ "registered" \in served => registered = 1
    /\ pc \in {"register", "activate", "pdn"} /\ "pdn" \in served => pdn_up = 1

\* The modem is on only between a connect and a power-off that worked.
RadioInv ==
    /\ pc \in {"start", "connect"} => radio = "off" /\ served = {}
    /\ pc = "ended" => radio = "off" \/ refused

-------------------------------------------------------------------------------
\* Types.

\* A socket changes its kind.
LEMMA KindChanges ==
    ASSUME NEW socks \in [Fds -> Kinds], NEW fd, NEW kind \in Kinds
    PROVE  [socks EXCEPT ![fd] = kind] \in [Fds -> Kinds]
OBVIOUS

\* Every step keeps the types.
LEMMA NextType == TypeOK /\ [Next]_vars => TypeOK'
<1> SUFFICES ASSUME TypeOK, [Next]_vars PROVE TypeOK'
  OBVIOUS
<1>0. {"free", "default", "nonip", "tls"} \subseteq Kinds
  BY DEF Kinds
<1> USE DEF TypeOK, console, signals, setup, link, handles, Goto, Proceed
<1>1. CASE NetworkRegisters
  BY <1>1 DEF NetworkRegisters
<1>2. CASE PdnComesUp
  <2>1. pdn_up' \in {0, 1} /\ served' \subseteq {"registered", "pdn"}
    BY <1>2 DEF PdnComesUp
  <2> QED BY <1>2, <2>1 DEF PdnComesUp
<1>3. CASE SetUp \/ SetUpFails \/ InitFails \/ Connect \/ ConnectFails
  <2>1. CASE SetUp
    BY <2>1 DEF SetUp
  <2>2. CASE SetUpFails
    BY <2>2 DEF SetUpFails
  <2>3. CASE InitFails
    BY <2>3 DEF InitFails
  <2>4. CASE Connect
    BY <2>4 DEF Connect
  <2>5. CASE ConnectFails
    BY <2>5 DEF ConnectFails
  <2> QED BY <1>3, <2>1, <2>2, <2>3, <2>4, <2>5
<1>4. CASE TakeRegistered \/ RegisterTimesOut \/ Activate \/ ActivateFails \/ TakePdnUp
  <2>1. CASE TakeRegistered
    BY <2>1 DEF TakeRegistered
  <2>2. CASE RegisterTimesOut
    BY <2>2 DEF RegisterTimesOut
  <2>3. CASE Activate
    BY <2>3 DEF Activate
  <2>4. CASE ActivateFails
    BY <2>4 DEF ActivateFails
  <2>5. CASE TakePdnUp
    BY <2>5 DEF TakePdnUp
  <2> QED BY <1>4, <2>1, <2>2, <2>3, <2>4, <2>5
<1>5. CASE PdnTimesOut \/ OpenSocketFails \/ Receive \/ PrintDownlink
  <2>1. CASE PdnTimesOut
    BY <2>1 DEF PdnTimesOut
  <2>2. CASE OpenSocketFails
    BY <2>2 DEF OpenSocketFails
  <2>3. CASE Receive
    BY <2>3 DEF Receive
  <2>4. CASE PrintDownlink
    BY <2>4 DEF PrintDownlink
  <2> QED BY <1>5, <2>1, <2>2, <2>3, <2>4
<1>6. CASE ReceiveFails
  BY <1>6 DEF ReceiveFails
<1>7. CASE PowerOff
  <2>1. \/ radio' = "off" /\ refused' = refused
        \/ refused' = TRUE /\ radio' = radio
    BY <1>7 DEF PowerOff
  <2>2. radio' \in {"on", "off"} /\ refused' \in BOOLEAN
    BY <2>1
  <2> QED BY <1>7, <2>2 DEF PowerOff
<1>8. CASE OpenSocket
  BY <1>8 DEF OpenSocket, Kinds
<1>9. CASE Bind \/ BindFails \/ Close
  <2>1. sockets' \in [Fds -> Kinds]
    <3>1. PICK kind \in {"nonip", "free"} : sockets' = [sockets EXCEPT ![err] = kind]
      BY <1>9 DEF Bind, BindFails, Close
    <3> QED BY <1>0, <3>1, KindChanges
  <2>2. CASE Bind
    BY <2>1, <2>2 DEF Bind
  <2>3. CASE BindFails
    BY <2>1, <2>3 DEF BindFails
  <2>4. CASE Close
    BY <2>1, <2>4 DEF Close
  <2> QED BY <1>9, <2>2, <2>3, <2>4
<1>10. CASE Command
  BY <1>10 DEF Command
<1>11. CASE CommandRuns
  <2>1. PICK f \in {shell_fd, nidd_fd} :
          uplink' = IF f >= 0 /\ sockets[f] # "free" THEN uplink \cup {sockets[f]} ELSE uplink
    BY <1>11 DEF CommandRuns
  <2>2. f \in Fds \cup {-1}
    OBVIOUS
  <2>3. f >= 0 => sockets[f] \in Kinds
    BY <2>2
  <2>4. uplink' \subseteq Kinds
    BY <2>1, <2>3
  <2> QED BY <1>11, <2>4 DEF CommandRuns
<1>12. CASE HttpsOpens
  BY <1>12 DEF HttpsOpens, Kinds
<1>13. CASE HttpsEnds
  <2>1. sockets' \in [Fds -> Kinds]
    BY <1>13 DEF HttpsEnds, Kinds
  <2> QED BY <1>13, <2>1 DEF HttpsEnds
<1>14. CASE UNCHANGED vars
  BY <1>14 DEF vars
<1> QED
  BY <1>1, <1>2, <1>3, <1>4, <1>5, <1>6, <1>7, <1>8, <1>9, <1>10, <1>11, <1>12, <1>13,
     <1>14
  DEF Next, BringUp, WindDown, Shell

\* The initial states are typed and have every invariant below.
LEMMA InitInv == Init => TypeOK /\ OwnInv /\ ServedInv /\ RadioInv /\ NonIpOnly
<1> SUFFICES ASSUME Init PROVE TypeOK /\ OwnInv /\ ServedInv /\ RadioInv /\ NonIpOnly
  OBVIOUS
<1>1. -1 \notin Fds /\ Builds \subseteq BOOLEAN
  BY ProbeAssumption
<1>2. TypeOK
  BY <1>1 DEF Init, TypeOK, Kinds
<1>3. OwnInv
  BY <1>1 DEF Init, OwnInv, Receiving
<1> QED BY <1>2, <1>3 DEF Init, ServedInv, RadioInv, NonIpOnly, Receiving

\* Every reachable state is typed.
THEOREM TypeCorrect == Spec => []TypeOK
<1> QED BY InitInv, NextType, PTL DEF Spec

-------------------------------------------------------------------------------
\* Descriptors.

\* Every step leaves each descriptor with its owner.
LEMMA NextOwn == TypeOK /\ OwnInv /\ [Next]_vars => OwnInv'
<1> SUFFICES ASSUME TypeOK, OwnInv, [Next]_vars PROVE OwnInv'
  OBVIOUS
<1>0. -1 \notin Fds
  BY ProbeAssumption
<1> USE DEF TypeOK, console, signals, setup, link, handles, Goto, Proceed
<1>1. CASE NetworkRegisters \/ PdnComesUp \/ PowerOff
  BY <1>1 DEF NetworkRegisters, PdnComesUp, PowerOff, OwnInv, Receiving
<1>2. CASE SetUp \/ SetUpFails \/ InitFails \/ Connect \/ ConnectFails
  BY <1>2 DEF SetUp, SetUpFails, InitFails, Connect, ConnectFails, OwnInv, Receiving
<1>3. CASE TakeRegistered \/ RegisterTimesOut \/ Activate \/ ActivateFails \/ TakePdnUp
  BY <1>3
  DEF TakeRegistered, RegisterTimesOut, Activate, ActivateFails, TakePdnUp, OwnInv, Receiving
<1>4. CASE PdnTimesOut \/ OpenSocketFails \/ Receive \/ PrintDownlink
  BY <1>4 DEF PdnTimesOut, OpenSocketFails, Receive, PrintDownlink, OwnInv, Receiving
<1>5. CASE OpenSocket
  BY <1>0, <1>5 DEF OpenSocket, OwnInv, Receiving
<1>6. CASE Bind \/ BindFails
  BY <1>0, <1>6 DEF Bind, BindFails, OwnInv, Receiving
<1>7. CASE ReceiveFails
  BY <1>0, <1>7 DEF ReceiveFails, OwnInv, Receiving
<1>8. CASE Close
  BY <1>0, <1>8 DEF Close, OwnInv, Receiving
<1>9. CASE Command
  BY <1>0, <1>9 DEF Command, OwnInv, Receiving
<1>10. CASE CommandRuns
  BY <1>0, <1>10 DEF CommandRuns, OwnInv, Receiving
<1>11. CASE HttpsOpens
  BY <1>0, <1>11 DEF HttpsOpens, OwnInv, Receiving
<1>12. CASE HttpsEnds
  BY <1>0, <1>12 DEF HttpsEnds, OwnInv, Receiving
<1>13. CASE UNCHANGED vars
  BY <1>13 DEF vars, OwnInv, Receiving
<1> QED
  BY <1>1, <1>2, <1>3, <1>4, <1>5, <1>6, <1>7, <1>8, <1>9, <1>10, <1>11, <1>12, <1>13
  DEF Next, BringUp, WindDown, Shell

(* At every step of main() and of the shell the handle is a live socket on *)
(* the Non-IP PDN, or none.                                                *)
THEOREM HandleIsLive == Spec => []HandleLive
<1>1. OwnInv => HandleLive
  BY DEF OwnInv, HandleLive
<1> QED BY <1>1, InitInv, NextType, NextOwn, PTL DEF Spec

\* A command that holds the handle reaches the Non-IP socket or none.
LEMMA NextUplink == TypeOK /\ OwnInv /\ NonIpOnly /\ [Next]_vars => NonIpOnly'
<1> SUFFICES ASSUME TypeOK, OwnInv, NonIpOnly, [Next]_vars PROVE NonIpOnly'
  OBVIOUS
<1>1. CASE CommandRuns
  <2>1. PICK f \in {shell_fd, nidd_fd} :
          uplink' = IF f >= 0 /\ sockets[f] # "free" THEN uplink \cup {sockets[f]} ELSE uplink
    BY <1>1 DEF CommandRuns
  <2>2. CASE f \in Fds /\ sockets[f] # "free"
    <3>1. sockets[f] \in Kinds /\ sockets[f] # "tls" /\ sockets[f] # "default"
      BY <1>1, <2>2 DEF CommandRuns, TypeOK, OwnInv, Receiving
    <3>2. sockets[f] = "nonip"
      BY <2>2, <3>1 DEF Kinds
    <3> QED BY <2>1, <3>2 DEF NonIpOnly
  <2>3. CASE f = -1
    BY <2>1, <2>3 DEF NonIpOnly
  <2>4. CASE sockets[f] = "free"
    BY <2>1, <2>4 DEF NonIpOnly
  <2> QED BY <2>2, <2>3, <2>4 DEF TypeOK
<1>2. CASE UNCHANGED uplink
  BY <1>2 DEF NonIpOnly
<1>3. CommandRuns \/ UNCHANGED uplink
  BY DEF Next, BringUp, WindDown, Shell, vars, console, Proceed, NetworkRegisters, PdnComesUp,
     SetUp, SetUpFails, InitFails, Connect, ConnectFails, TakeRegistered, RegisterTimesOut,
     Activate, ActivateFails, TakePdnUp, PdnTimesOut, OpenSocket, OpenSocketFails, Bind,
     BindFails, Receive, PrintDownlink, ReceiveFails, Close, PowerOff, Command, HttpsOpens,
     HttpsEnds
<1> QED BY <1>1, <1>2, <1>3

(* The check of the handle and its use are two steps, main() may close the *)
(* socket between them, and the number may be given away again: even so no *)
(* frame leaves by another socket.                                         *)
THEOREM FramesStayNonIp == Spec => []NonIpOnly
<1> QED BY InitInv, NextType, NextOwn, NextUplink, PTL DEF Spec

-------------------------------------------------------------------------------
\* Events and the end.

\* Every step keeps what the semaphores say of the events.
LEMMA NextServed == TypeOK /\ RadioInv /\ ServedInv /\ [Next]_vars => (RadioInv /\ ServedInv)'
<1> SUFFICES ASSUME TypeOK, RadioInv, ServedInv, [Next]_vars PROVE (RadioInv /\ ServedInv)'
  OBVIOUS
<1> USE DEF TypeOK, console, signals, setup, link, handles, Goto, Proceed, RadioInv,
            ServedInv, Receiving
<1>1. CASE NetworkRegisters
  BY <1>1 DEF NetworkRegisters
<1>2. CASE PdnComesUp
  BY <1>2 DEF PdnComesUp, Ours
<1>3. CASE SetUp \/ SetUpFails \/ InitFails
  BY <1>3 DEF SetUp, SetUpFails, InitFails
<1>4. CASE Connect \/ ConnectFails
  BY <1>4 DEF Connect, ConnectFails
<1>5. CASE TakeRegistered \/ RegisterTimesOut
  BY <1>5 DEF TakeRegistered, RegisterTimesOut
<1>6. CASE Activate \/ ActivateFails \/ TakePdnUp \/ PdnTimesOut
  BY <1>6 DEF Activate, ActivateFails, TakePdnUp, PdnTimesOut
<1>7. CASE OpenSocket \/ OpenSocketFails \/ Bind \/ BindFails
  BY <1>7 DEF OpenSocket, OpenSocketFails, Bind, BindFails
<1>8. CASE Receive \/ PrintDownlink \/ ReceiveFails \/ Close \/ PowerOff
  BY <1>8 DEF Receive, PrintDownlink, ReceiveFails, Close, PowerOff
<1>9. CASE Command \/ CommandRuns \/ HttpsOpens \/ HttpsEnds
  BY <1>9 DEF Command, CommandRuns, HttpsOpens, HttpsEnds
<1>10. CASE UNCHANGED vars
  BY <1>10 DEF vars
<1> QED
  BY <1>1, <1>2, <1>3, <1>4, <1>5, <1>6, <1>7, <1>8, <1>9, <1>10
  DEF Next, BringUp, WindDown, Shell

\* All of them hold throughout.
LEMMA InvHolds == Spec => [](TypeOK /\ OwnInv /\ RadioInv /\ ServedInv)
<1> QED BY InitInv, NextType, NextOwn, NextServed, PTL DEF Spec

\* The socket is there only once our own context was reported up.
THEOREM OpensOwn == Spec => []OpensOnOwnPdn
<1>1. OwnInv /\ ServedInv => OpensOnOwnPdn
  BY DEF OwnInv, ServedInv, OpensOnOwnPdn, Receiving
<1> QED BY <1>1, InvHolds, PTL

\* Every error path of main() closes what it opened and reaches the power-off.
THEOREM AlwaysEndsClean == Spec => []EndsClean
<1>1. OwnInv /\ RadioInv => EndsClean
  BY DEF OwnInv, RadioInv, EndsClean, Receiving
<1> QED BY <1>1, InvHolds, PTL

(* An event that comes while main() waits for another, or for a call to    *)
(* return, is not missed.                                                  *)
THEOREM RealTimeouts == Spec => TimeoutsAreReal
<1>1. ServedInv => [/\ RegisterTimesOut => "registered" \notin served
                    /\ PdnTimesOut => "pdn" \notin served]_vars
  BY DEF ServedInv, RegisterTimesOut, PdnTimesOut, Proceed, Goto
<1> QED BY <1>1, InvHolds, PTL DEF TimeoutsAreReal
-------------------------------------------------------------------------------
(***************************************************************************)
(* The header.  A number is a recursion over its digits, and its digits    *)
(* are found by looking for the first byte that is none; both are proved   *)
(* by taking the least place where the statement would fail.               *)
(***************************************************************************)

\* Every set of numbers has a least one: what induction is made of here.
LEMMA LeastOf ==
    ASSUME NEW S \in SUBSET Nat, S # {}
    PROVE  \E m \in S : \A k \in S : m <= k
<1> DEFINE R == {p \in Nat \X Nat : p[1] < p[2]}
<1>1. IsWellFoundedOn(R, Nat)
  BY NatLessThanWellFounded DEF OpToRel
<1>2. \A k, m \in S : <<k, m>> \notin R <=> ~(k < m)
  OBVIOUS
<1> HIDE DEF R
<1>3. PICK m \in S : \A k \in S : <<k, m>> \notin R
  BY <1>1, WFMin
<1>4. \A k \in S : ~(k < m)
  BY <1>2, <1>3
<1> QED BY <1>4

\* The next value of header_number()'s loop.
LoopValue(f, frame, at, i) == IF i = 0 THEN 0 ELSE f[i - 1] * Base + frame[at + i - 1]

\* The recursion has a solution, so that a number is what the loop computes.
LEMMA NumberIsLoop ==
    ASSUME NEW frame, NEW at, NEW d \in Nat
    PROVE  \E f : /\ f = [i \in 0..d |-> LoopValue(f, frame, at, i)]
                  /\ Number(frame, at, d) = f[d]
<1> DEFINE Solves(f, m) == f = [i \in 0..m |-> LoopValue(f, frame, at, i)]
           Unsolved == {m \in Nat : ~ \E f : Solves(f, m)}
<1>1. Unsolved = {}
  <2> SUFFICES ASSUME Unsolved # {} PROVE FALSE
    OBVIOUS
  <2>1. PICK m \in Unsolved : \A k \in Unsolved : m <= k
    BY LeastOf
  <2>2. CASE m = 0
    <3>1. Solves([i \in 0..0 |-> 0], 0)
      BY DEF LoopValue
    <3> QED BY <2>2, <3>1
  <2>3. CASE m # 0
    <3>1. m - 1 \in Nat /\ m - 1 \notin Unsolved
      BY <2>1, <2>3
    <3>2. PICK g : Solves(g, m - 1)
      BY <3>1
    <3> DEFINE h == [i \in 0..m |-> IF i = m THEN LoopValue(g, frame, at, m) ELSE g[i]]
    <3>3. ASSUME NEW i \in 0..m PROVE h[i] = LoopValue(h, frame, at, i)
      <4>1. CASE i = m
        BY <4>1, <2>3, <3>1 DEF LoopValue
      <4>2. CASE i # m
        <5>1. i \in 0..(m - 1) /\ h[i] = g[i]
          BY <4>2, <3>1
        <5>2. g[i] = LoopValue(g, frame, at, i)
          BY <5>1, <3>2
        <5>3. i # 0 => i - 1 \in 0..m /\ i - 1 # m
          BY <5>1
        <5>4. i # 0 => h[i - 1] = g[i - 1]
          BY <5>3
        <5> HIDE DEF h
        <5> QED BY <5>1, <5>2, <5>4 DEF LoopValue
      <4> QED BY <4>1, <4>2
    <3>4. Solves(h, m)
      <4>1. h = [i \in 0..m |-> h[i]]
        OBVIOUS
      <4> HIDE DEF h
      <4> QED BY <3>3, <4>1
    <3> QED BY <3>4, <2>1
  <2> QED BY <2>2, <2>3
<1> DEFINE number == CHOOSE f : Solves(f, d)
<1>2. Solves(number, d)
  BY <1>1
<1>3. Number(frame, at, d) = number[d]
  BY DEF Number, LoopValue
<1> HIDE DEF number
<1> QED BY <1>2, <1>3

\* Taking the last digit off a number, and putting it back.
LEMMA LastDigit ==
    ASSUME NEW n \in Nat, NEW m \in Nat, NEW d \in Digit
    PROVE  /\ n \div Base \in 0..n /\ n % Base \in Digit
           /\ n = m * Base + d <=> m = n \div Base /\ d = n % Base
<1>1. Base \in Nat /\ Base > 0 /\ d \in 0..(Base - 1)
  BY FrameAssumption DEF Digit
<1>2. PICK q \in Int, r \in Int : q = n \div Base /\ r = n % Base
  BY <1>1
<1>3. n = Base * q + r /\ r \in 0..(Base - 1)
  BY <1>1, <1>2
<1>4. q \in 0..n
  <2>1. CASE q < 0
    <3>1. Base * q <= -Base
      BY <1>1, <2>1
    <3> QED BY <3>1, <1>1, <1>3
  <2>2. CASE q >= 0
    <3>1. q <= Base * q
      BY <1>1, <2>2
    <3> QED BY <3>1, <2>2, <1>1, <1>3
  <2> QED BY <2>1, <2>2
<1>5. ASSUME n = m * Base + d PROVE m = q /\ d = r
  BY <1>1, <1>2, <1>5
<1>6. ASSUME m = q, d = r PROVE n = m * Base + d
  BY <1>1, <1>3, <1>6
<1>7. r \in Digit
  BY <1>3 DEF Digit
<1> QED BY <1>2, <1>4, <1>5, <1>6, <1>7

\* The i bytes at a position are the digits n is printed with.
Reads(frame, at, i, n) ==
    \E rest \in [0..i -> 0..n] :
        /\ rest[0] = 0 /\ rest[i] = n
        /\ \A k \in 1..i : /\ frame[at + k - 1] = rest[k] % Base
                           /\ rest[k - 1] = rest[k] \div Base

\* The loop reads the one number whose digits stand there.
LEMMA NumberRight ==
    ASSUME NEW frame, NEW at \in Nat, NEW i \in Nat,
           \A k \in 1..i : frame[at + k - 1] \in Digit
    PROVE  /\ Number(frame, at, i) \in Nat
           /\ \A n \in Nat : Reads(frame, at, i, n) <=> n = Number(frame, at, i)
<1>1. PICK f : /\ f = [k \in 0..i |-> LoopValue(f, frame, at, k)]
               /\ Number(frame, at, i) = f[i]
  BY NumberIsLoop
<1>2. f[0] = 0
  BY <1>1 DEF LoopValue
<1>3. ASSUME NEW k \in 1..i PROVE f[k] = f[k - 1] * Base + frame[at + k - 1]
  <2>1. k \in 0..i /\ k # 0
    OBVIOUS
  <2>2. f[k] = LoopValue(f, frame, at, k)
    BY <1>1, <2>1
  <2> QED BY <2>1, <2>2 DEF LoopValue
<1>4. \A k \in 0..i : f[k] \in Nat
  <2> DEFINE Odd == {k \in 0..i : f[k] \notin Nat}
  <2> SUFFICES ASSUME Odd # {} PROVE FALSE
    OBVIOUS
  <2>1. PICK k \in Odd : \A j \in Odd : k <= j
    <3> Odd \in SUBSET Nat
      OBVIOUS
    <3> HIDE DEF Odd
    <3> QED BY LeastOf
  <2>2. k \in 1..i /\ k - 1 \in 0..i /\ k - 1 \notin Odd
    BY <1>2, <2>1
  <2>3. f[k - 1] \in Nat /\ frame[at + k - 1] \in Digit
    BY <2>2
  <2>4. f[k] = f[k - 1] * Base + frame[at + k - 1]
    BY <2>2, <1>3
  <2>5. f[k] \in Nat
    BY <2>3, <2>4, FrameAssumption DEF Digit
  <2> QED BY <2>1, <2>5
<1>5. ASSUME NEW k \in 1..i
      PROVE  /\ f[k - 1] = f[k] \div Base
             /\ frame[at + k - 1] = f[k] % Base
             /\ f[k - 1] <= f[k]
  <2>1. f[k] \in Nat /\ f[k - 1] \in Nat /\ frame[at + k - 1] \in Digit
    BY <1>4
  <2>2. f[k] = f[k - 1] * Base + frame[at + k - 1]
    BY <1>3
  <2>3. f[k - 1] = f[k] \div Base /\ frame[at + k - 1] = f[k] % Base
    BY <2>1, <2>2, LastDigit
  <2>4. f[k] \div Base <= f[k]
    BY <2>1, LastDigit
  <2> QED BY <2>3, <2>4
\* No digit makes the number smaller.
<1>6. \A k \in 0..i : f[k] <= f[i]
  <2> DEFINE Above == {j \in 0..i : f[i - j] > f[i]}
  <2>1. Above = {}
    <3> SUFFICES ASSUME Above # {} PROVE FALSE
      OBVIOUS
    <3>1. PICK j \in Above : \A m \in Above : j <= m
      <4> Above \in SUBSET Nat
        OBVIOUS
      <4> HIDE DEF Above
      <4> QED BY LeastOf
    <3>2. j \in 1..i /\ j - 1 \in 0..i /\ j - 1 \notin Above /\ i - j + 1 \in 1..i
      BY <1>4, <3>1
    <3>3. f[i - (j - 1)] <= f[i]
      BY <1>4, <3>2
    <3>4. f[(i - j + 1) - 1] <= f[i - j + 1]
      BY <1>5, <3>2
    <3>5. i - (j - 1) = i - j + 1 /\ (i - j + 1) - 1 = i - j
      BY <3>2
    <3>6. f[i - j] \in Nat /\ f[i - j + 1] \in Nat /\ f[i] \in Nat
      BY <1>4, <3>2
    <3> QED BY <3>1, <3>3, <3>4, <3>5, <3>6
  <2> SUFFICES ASSUME NEW k \in 0..i PROVE f[k] <= f[i]
    OBVIOUS
  <2>2. i - k \in 0..i /\ i - (i - k) = k
    OBVIOUS
  <2>3. i - k \notin Above
    BY <2>1
  <2> QED BY <1>4, <2>2, <2>3
<1>7. Reads(frame, at, i, f[i])
  <2>1. f \in [0..i -> 0..f[i]]
    BY <1>1, <1>4, <1>6
  <2> QED BY <2>1, <1>2, <1>5 DEF Reads
<1>8. ASSUME NEW n \in Nat, Reads(frame, at, i, n) PROVE n = f[i]
  <2>1. PICK rest \in [0..i -> 0..n] :
            /\ rest[0] = 0 /\ rest[i] = n
            /\ \A k \in 1..i : /\ frame[at + k - 1] = rest[k] % Base
                               /\ rest[k - 1] = rest[k] \div Base
    BY <1>8 DEF Reads
  <2> DEFINE Differ == {k \in 0..i : rest[k] # f[k]}
  <2>2. Differ = {}
    <3> SUFFICES ASSUME Differ # {} PROVE FALSE
      OBVIOUS
    <3>1. PICK k \in Differ : \A j \in Differ : k <= j
      <4> Differ \in SUBSET Nat
        OBVIOUS
      <4> HIDE DEF Differ
      <4> QED BY LeastOf
    <3>2. k \in 1..i /\ k - 1 \in 0..i /\ k - 1 \notin Differ
      BY <1>2, <2>1, <3>1
    <3>3. rest[k - 1] = f[k - 1]
      BY <3>2
    <3>4. rest[k] \in Nat /\ rest[k - 1] \in Nat /\ frame[at + k - 1] \in Digit
      BY <2>1, <3>2
    <3>5. rest[k] = rest[k - 1] * Base + frame[at + k - 1]
      BY <2>1, <3>2, <3>4, LastDigit
    <3>6. rest[k] = f[k]
      BY <1>3, <3>2, <3>3, <3>5
    <3> QED BY <3>1, <3>6
  <2>3. i \in 0..i /\ i \notin Differ
    BY <2>2
  <2> QED BY <2>1, <2>3
<1>9. f[i] \in Nat
  BY <1>4
<1> QED BY <1>1, <1>7, <1>8, <1>9

\* Where a run of digits ends.
IsRun(frame, at, len, i) ==
    /\ i \in 0..HEADER_DIGITS_MAX
    /\ i <= len
    /\ \A k \in at..(at + i - 1) : frame[k] \in Digit
    /\ i = len \/ i = HEADER_DIGITS_MAX \/ frame[at + i] \notin Digit

\* The run the loop goes through is the only one.
LEMMA DigitsRight ==
    ASSUME NEW frame, NEW at \in Nat, NEW len \in Nat
    PROVE  /\ IsRun(frame, at, len, Digits(frame, at, len))
           /\ \A i : IsRun(frame, at, len, i) => i = Digits(frame, at, len)
<1> HEADER_DIGITS_MAX \in Nat
  BY FrameAssumption
<1>1. \E i : IsRun(frame, at, len, i)
  <2> DEFINE Stop == {i \in 0..HEADER_DIGITS_MAX :
                        i <= len /\ (i = len \/ i = HEADER_DIGITS_MAX \/ frame[at + i] \notin Digit)}
  <2>1. Stop \in SUBSET Nat /\ Stop # {}
    <3>1. CASE len <= HEADER_DIGITS_MAX
      BY <3>1
    <3>2. CASE HEADER_DIGITS_MAX < len
      BY <3>2
    <3> QED BY <3>1, <3>2
  <2>2. PICK i \in Stop : \A j \in Stop : i <= j
    <3> HIDE DEF Stop
    <3> QED BY <2>1, LeastOf
  <2>3. ASSUME NEW k \in at..(at + i - 1) PROVE frame[k] \in Digit
    <3>1. k - at \in 0..HEADER_DIGITS_MAX /\ k - at < i /\ at + (k - at) = k
      BY <2>2
    <3>2. k - at \notin Stop
      BY <2>2, <3>1
    <3> QED BY <2>2, <3>1, <3>2
  <2>4. IsRun(frame, at, len, i)
    BY <2>2, <2>3 DEF IsRun
  <2> QED BY <2>4
<1>2. ASSUME NEW i, NEW j, IsRun(frame, at, len, i), IsRun(frame, at, len, j)
      PROVE  ~(i < j)
  <2> SUFFICES ASSUME i < j PROVE FALSE
    OBVIOUS
  <2>1. i \in Nat /\ j \in Nat /\ i # len /\ i # HEADER_DIGITS_MAX
    BY <1>2 DEF IsRun
  <2>2. frame[at + i] \notin Digit /\ at + i \in at..(at + j - 1)
    BY <1>2, <2>1 DEF IsRun
  <2> QED BY <1>2, <2>2 DEF IsRun
<1>3. ASSUME NEW i, NEW j, IsRun(frame, at, len, i), IsRun(frame, at, len, j)
      PROVE  i = j
  <2>1. i \in Nat /\ j \in Nat
    BY <1>3 DEF IsRun
  <2> QED BY <1>2, <1>3, <2>1
<1>4. Digits(frame, at, len) = CHOOSE i \in 0..HEADER_DIGITS_MAX : IsRun(frame, at, len, i)
  BY DEF Digits, IsRun
<1>5. IsRun(frame, at, len, Digits(frame, at, len))
  <2>1. \E i \in 0..HEADER_DIGITS_MAX : IsRun(frame, at, len, i)
    BY <1>1 DEF IsRun
  <2> QED BY <1>4, <2>1
<1> QED BY <1>3, <1>5

\* A text opens with u bytes that are the digits of n and their end.
OpensWith(frame, at, len, end, u, n) ==
    /\ u \in 1..len
    /\ u - 1 \in 1..HEADER_DIGITS_MAX
    /\ Reads(frame, at, u - 1, n)
    /\ frame[at + u - 1] = end

\* What a number is printed with is digits.
LEMMA ReadsDigits ==
    ASSUME NEW frame, NEW at \in Nat, NEW i \in Nat, NEW n \in Nat, Reads(frame, at, i, n)
    PROVE  \A k \in 1..i : frame[at + k - 1] \in Digit
<1>1. PICK rest \in [0..i -> 0..n] :
          \A k \in 1..i : frame[at + k - 1] = rest[k] % Base
  BY DEF Reads
<1>2. ASSUME NEW k \in 1..i PROVE rest[k] % Base \in Digit
  <2>1. rest[k] \in Nat /\ 0 \in Digit
    BY FrameAssumption DEF Digit
  <2> QED BY <2>1, LastDigit
<1> QED BY <1>1, <1>2

\* What header_number() returns is what the text opens with, and nothing if it does not.
LEMMA HeaderNumberRight ==
    ASSUME NEW frame, NEW at \in Nat, NEW len \in Nat, NEW end, end \notin Digit
    PROVE  LET h == header_number(frame, at, len, end)
           IN  /\ h.used \in 0..len
               /\ h.value \in 0..UINT32_MAX
               /\ \A u \in Nat \ {0}, n \in 0..UINT32_MAX :
                    h.used = u /\ h.value = n <=> OpensWith(frame, at, len, end, u, n)
<1> DEFINE h == header_number(frame, at, len, end)
           i == Digits(frame, at, len)
           number == Number(frame, at, i)
           Fails == i = 0 \/ i = len \/ frame[at + i] # end \/ number > UINT32_MAX
<1>1. IsRun(frame, at, len, i) /\ \A j : IsRun(frame, at, len, j) => j = i
  BY DigitsRight
<1>2. h = IF Fails THEN [used |-> 0, value |-> 0] ELSE [used |-> i + 1, value |-> number]
  BY DEF header_number
<1> HIDE DEF h, i, number
<1>3. i \in 0..HEADER_DIGITS_MAX /\ i <= len /\ HEADER_DIGITS_MAX \in Nat /\ UINT32_MAX \in Nat
  BY <1>1, FrameAssumption DEF IsRun
<1>4. \A k \in 1..i : frame[at + k - 1] \in Digit
  <2> SUFFICES ASSUME NEW k \in 1..i PROVE frame[at + k - 1] \in Digit
    OBVIOUS
  <2>1. at + k - 1 \in at..(at + i - 1)
    BY <1>3
  <2> QED BY <1>1, <2>1 DEF IsRun
<1>5. number \in Nat /\ \A n \in Nat : Reads(frame, at, i, n) <=> n = number
  <2>1. i \in Nat
    BY <1>3
  <2>2. /\ Number(frame, at, i) \in Nat
        /\ \A n \in Nat : Reads(frame, at, i, n) <=> n = Number(frame, at, i)
    BY <2>1, <1>4, NumberRight
  <2> QED BY <2>2 DEF number
<1>6. h.used \in 0..len /\ h.value \in 0..UINT32_MAX
  BY <1>2, <1>3, <1>5
<1>7. ASSUME NEW u \in Nat \ {0}, NEW n \in 0..UINT32_MAX, h.used = u, h.value = n
      PROVE  OpensWith(frame, at, len, end, u, n)
  <2>1. ~Fails /\ u = i + 1 /\ n = number
    BY <1>2, <1>7
  <2>2. u - 1 = i /\ at + u - 1 = at + i /\ u \in 1..len /\ i \in 1..HEADER_DIGITS_MAX
    BY <2>1, <1>3
  <2>3. Reads(frame, at, i, n)
    BY <1>5, <2>1
  <2> QED BY <2>1, <2>2, <2>3 DEF OpensWith
<1>8. ASSUME NEW u \in Nat \ {0}, NEW n \in 0..UINT32_MAX, OpensWith(frame, at, len, end, u, n)
      PROVE  h.used = u /\ h.value = n
  <2>1. /\ u - 1 \in 1..HEADER_DIGITS_MAX /\ u \in 1..len
        /\ Reads(frame, at, u - 1, n) /\ frame[at + (u - 1)] = end
    BY <1>8 DEF OpensWith
  <2>2. \A k \in 1..(u - 1) : frame[at + k - 1] \in Digit
    BY <2>1, <1>3, ReadsDigits
  <2>3. \A k \in at..(at + (u - 1) - 1) : frame[k] \in Digit
    <3> SUFFICES ASSUME NEW k \in at..(at + (u - 1) - 1) PROVE frame[k] \in Digit
      OBVIOUS
    <3>1. k - at + 1 \in 1..(u - 1) /\ at + (k - at + 1) - 1 = k
      OBVIOUS
    <3> QED BY <2>2, <3>1
  <2>4. IsRun(frame, at, len, u - 1)
    BY <2>1, <2>3, <1>3 DEF IsRun
  <2>5. u - 1 = i
    BY <1>1, <2>4
  <2>6. n = number
    BY <1>5, <2>1, <2>5
  <2>7. ~Fails
    BY <2>1, <2>5, <2>6, <1>3
  <2> QED BY <1>2, <2>5, <2>6, <2>7
<1> QED BY <1>6, <1>7, <1>8 DEF h

\* A piece of the body spells a number if the frame reads it there.
LEMMA SpellsIsReads ==
    ASSUME NEW frame \in Seq(Byte), NEW body \in Seq(Byte),
           \A k \in 1..Len(body) : body[k] = frame[k + 1],
           NEW a \in Nat \ {0}, NEW b \in 0..Len(body), NEW n \in Nat
    PROVE  Spells(SubSeq(body, a, b), n) <=>
             b - a + 1 \in 1..HEADER_DIGITS_MAX /\ Reads(frame, a + 1, b - a + 1, n)
<1> DEFINE text == SubSeq(body, a, b)
<1> HEADER_DIGITS_MAX \in Nat
  BY FrameAssumption
<1>1. CASE a > b
  <2>1. Len(text) = 0
    BY <1>1
  <2>2. 0 \notin 1..HEADER_DIGITS_MAX /\ b - a + 1 \notin 1..HEADER_DIGITS_MAX
    BY <1>1
  <2> QED BY <2>1, <2>2 DEF Spells
<1>2. CASE a <= b
  <2>1. Len(text) = b - a + 1
    BY <1>2
  <2>2. ASSUME NEW k \in 1..(b - a + 1) PROVE text[k] = frame[(a + 1) + k - 1]
    <3>1. text[k] = body[a + k - 1] /\ a + k - 1 \in 1..Len(body)
      BY <1>2
    <3>2. (a + k - 1) + 1 = (a + 1) + k - 1
      OBVIOUS
    <3> QED BY <3>1, <3>2
  <2> HIDE DEF text
  <2> DEFINE i == b - a + 1
             at == a + 1
             Steps(rest, c, k) == c = rest[k] % Base /\ rest[k - 1] = rest[k] \div Base
  <2>3. Len(text) = i /\ \A k \in 1..i : text[k] = frame[at + k - 1]
    BY <2>1, <2>2
  <2> HIDE DEF text, i, at
  <2>4. ASSUME NEW rest
        PROVE  (\A k \in 1..i : Steps(rest, text[k], k)) <=>
                 (\A k \in 1..i : Steps(rest, frame[at + k - 1], k))
    <3> HIDE DEF Steps
    <3> QED BY <2>3
  <2>5. Spells(text, n) <=>
          /\ i \in 1..HEADER_DIGITS_MAX
          /\ \E rest \in [0..i -> 0..n] : rest[0] = 0 /\ rest[i] = n
                                      /\ \A k \in 1..i : Steps(rest, text[k], k)
    BY <2>3, Zenon DEF Spells
  <2>6. Spells(text, n) <=> i \in 1..HEADER_DIGITS_MAX /\ Reads(frame, at, i, n)
    <3>1. Reads(frame, at, i, n) <=>
            \E rest \in [0..i -> 0..n] : rest[0] = 0 /\ rest[i] = n
                                      /\ \A k \in 1..i : Steps(rest, frame[at + k - 1], k)
      BY Zenon DEF Reads
    <3> HIDE DEF Steps
    <3> QED BY <2>4, <2>5, <3>1, Zenon
  <2> QED BY <2>6 DEF text, i, at
<1> QED BY <1>1, <1>2

\* A body opens with a header exactly if the two calls of header_number() find one.
LEMMA HeaderIsTwoNumbers ==
    ASSUME NEW frame \in Seq(Byte), NEW body \in Seq(Byte),
           \A k \in 1..Len(body) : body[k] = frame[k + 1],
           NEW n \in Nat, NEW x \in 0..UINT32_MAX, NEW y \in 0..UINT32_MAX
    PROVE  IsHeader(body, n, x, y) <=>
             \E i, j \in Nat \ {0} :
               /\ i + j = n
               /\ OpensWith(frame, 2, Len(body), Space, i, x)
               /\ OpensWith(frame, 2 + i, Len(body) - i, Newline, j, y)
<1> x \in Nat /\ y \in Nat /\ Len(body) \in Nat /\ HEADER_DIGITS_MAX \in Nat
  BY FrameAssumption
<1>0. \A a \in Nat \ {0}, b \in 0..Len(body), m \in Nat :
        Spells(SubSeq(body, a, b), m) <=>
          b - a + 1 \in 1..HEADER_DIGITS_MAX /\ Reads(frame, a + 1, b - a + 1, m)
  BY SpellsIsReads
<1>1. ASSUME IsHeader(body, n, x, y)
      PROVE  \E i, j \in Nat \ {0} :
               /\ i + j = n
               /\ OpensWith(frame, 2, Len(body), Space, i, x)
               /\ OpensWith(frame, 2 + i, Len(body) - i, Newline, j, y)
  <2>1. PICK i \in 1..n :
          /\ Spells(SubSeq(body, 1, i - 1), x) /\ body[i] = Space
          /\ Spells(SubSeq(body, i + 1, n - 1), y) /\ body[n] = Newline
    BY <1>1 DEF IsHeader
  <2>2. n <= Len(body)
    BY <1>1 DEF IsHeader
  <2>3. i - 1 \in 1..HEADER_DIGITS_MAX /\ Reads(frame, 2, i - 1, x)
    <3>1. 1 \in Nat \ {0} /\ i - 1 \in 0..Len(body) /\ (i - 1) - 1 + 1 = i - 1 /\ 1 + 1 = 2
      BY <2>2
    <3>2. (i - 1) - 1 + 1 \in 1..HEADER_DIGITS_MAX /\ Reads(frame, 1 + 1, (i - 1) - 1 + 1, x)
      BY <1>0, <2>1, <3>1, Zenon
    <3> QED BY <3>1, <3>2
  <2> DEFINE j == n - i
  <2>4. j - 1 \in 1..HEADER_DIGITS_MAX /\ Reads(frame, 2 + i, j - 1, y)
    <3>1. n - 1 \in 0..Len(body) /\ i + 1 \in Nat \ {0} /\ (n - 1) - (i + 1) + 1 = j - 1
          /\ (i + 1) + 1 = 2 + i
      BY <2>2
    <3>2. /\ (n - 1) - (i + 1) + 1 \in 1..HEADER_DIGITS_MAX
          /\ Reads(frame, (i + 1) + 1, (n - 1) - (i + 1) + 1, y)
      BY <1>0, <2>1, <3>1, Zenon
    <3> QED BY <3>1, <3>2
  <2>5. frame[2 + i - 1] = Space /\ frame[2 + i + j - 1] = Newline
    <3>1. i \in 1..Len(body) /\ n \in 1..Len(body)
          /\ i + 1 = 2 + i - 1 /\ n + 1 = 2 + i + j - 1
      BY <2>2
    <3>2. body[i] = frame[i + 1] /\ body[n] = frame[n + 1]
      BY <3>1
    <3> QED BY <2>1, <3>1, <3>2
  <2>6. i \in 1..Len(body) /\ j \in 1..(Len(body) - i) /\ i + j = n
    BY <2>2, <2>4
  <2>7. /\ OpensWith(frame, 2, Len(body), Space, i, x)
        /\ OpensWith(frame, 2 + i, Len(body) - i, Newline, j, y)
    BY <2>3, <2>4, <2>5, <2>6 DEF OpensWith
  <2> QED BY <2>6, <2>7
<1>2. ASSUME NEW i \in Nat \ {0}, NEW j \in Nat \ {0}, i + j = n,
             OpensWith(frame, 2, Len(body), Space, i, x),
             OpensWith(frame, 2 + i, Len(body) - i, Newline, j, y)
      PROVE  IsHeader(body, n, x, y)
  <2>1. /\ i \in 1..Len(body) /\ i - 1 \in 1..HEADER_DIGITS_MAX
        /\ Reads(frame, 2, i - 1, x) /\ frame[2 + i - 1] = Space
    BY <1>2 DEF OpensWith
  <2>2. /\ j \in 1..(Len(body) - i) /\ j - 1 \in 1..HEADER_DIGITS_MAX
        /\ Reads(frame, 2 + i, j - 1, y) /\ frame[2 + i + j - 1] = Newline
    BY <1>2 DEF OpensWith
  <2>3. n <= Len(body) /\ i \in 1..n
    BY <1>2, <2>1, <2>2
  <2>4. Spells(SubSeq(body, 1, i - 1), x)
    <3>1. 1 \in Nat \ {0} /\ i - 1 \in 0..Len(body) /\ (i - 1) - 1 + 1 = i - 1 /\ 1 + 1 = 2
      BY <2>1
    <3>2. Spells(SubSeq(body, 1, i - 1), x) <=>
            (i - 1) - 1 + 1 \in 1..HEADER_DIGITS_MAX /\ Reads(frame, 1 + 1, (i - 1) - 1 + 1, x)
      BY <1>0, <3>1, Zenon
    <3> QED BY <2>1, <3>1, <3>2
  <2>5. Spells(SubSeq(body, i + 1, n - 1), y)
    <3>1. n - 1 \in 0..Len(body) /\ i + 1 \in Nat \ {0} /\ (n - 1) - (i + 1) + 1 = j - 1
          /\ (i + 1) + 1 = 2 + i
      BY <1>2, <2>3
    <3>2. Spells(SubSeq(body, i + 1, n - 1), y) <=>
            /\ (n - 1) - (i + 1) + 1 \in 1..HEADER_DIGITS_MAX
            /\ Reads(frame, (i + 1) + 1, (n - 1) - (i + 1) + 1, y)
      BY <1>0, <3>1, Zenon
    <3> QED BY <2>2, <3>1, <3>2
  <2>6. body[i] = Space /\ body[n] = Newline
    <3>1. i \in 1..Len(body) /\ n \in 1..Len(body)
          /\ i + 1 = 2 + i - 1 /\ n + 1 = 2 + i + j - 1
      <4>1. i + j = n
        BY <1>2
      <4> QED BY <4>1, <2>3
    <3>2. body[i] = frame[i + 1] /\ body[n] = frame[n + 1]
      BY <3>1
    <3> QED BY <2>1, <2>2, <3>1, <3>2
  <2> QED BY <2>3, <2>4, <2>5, <2>6 DEF IsHeader
<1> QED BY <1>1, <1>2

(* For a platform frame the two calls find the header, its end and its     *)
(* numbers, whatever the frame is made of.                                 *)
LEMMA HeaderRight ==
    ASSUME NEW frame \in Seq(Byte), NEW body \in Seq(Byte),
           \A k \in 1..Len(body) : body[k] = frame[k + 1]
    PROVE  LET first == header_number(frame, 2, Len(body), Space)
               second == header_number(frame, 2 + first.used, Len(body) - first.used, Newline)
               header == IF first.used > 0 /\ second.used > 0
                         THEN first.used + second.used ELSE 0
           IN  /\ header \in 0..Len(body)
               /\ first.value \in 0..UINT32_MAX /\ second.value \in 0..UINT32_MAX
               /\ \A n \in Nat, x, y \in 0..UINT32_MAX :
                    IsHeader(body, n, x, y) <=>
                      header = n /\ n # 0 /\ first.value = x /\ second.value = y
<1> DEFINE L == Len(body)
           first == header_number(frame, 2, L, Space)
           second == header_number(frame, 2 + first.used, L - first.used, Newline)
           header == IF first.used > 0 /\ second.used > 0 THEN first.used + second.used ELSE 0
<1> L \in Nat /\ UINT32_MAX \in Nat /\ Space \notin Digit /\ Newline \notin Digit
  BY FrameAssumption
<1>1. /\ first.used \in 0..L /\ first.value \in 0..UINT32_MAX
      /\ \A u \in Nat \ {0}, n \in 0..UINT32_MAX :
           first.used = u /\ first.value = n <=> OpensWith(frame, 2, L, Space, u, n)
  <2> HIDE DEF L
  <2> QED BY HeaderNumberRight
<1> HIDE DEF first
<1>2. 2 + first.used \in Nat /\ L - first.used \in Nat
  BY <1>1
<1>3. /\ second.used \in 0..(L - first.used) /\ second.value \in 0..UINT32_MAX
      /\ \A u \in Nat \ {0}, n \in 0..UINT32_MAX :
           second.used = u /\ second.value = n <=>
             OpensWith(frame, 2 + first.used, L - first.used, Newline, u, n)
  <2> DEFINE at == 2 + first.used
             len == L - first.used
  <2>1. at \in Nat /\ len \in Nat
    BY <1>2
  <2> HIDE DEF at, len
  <2>2. LET h == header_number(frame, at, len, Newline)
        IN  /\ h.used \in 0..len /\ h.value \in 0..UINT32_MAX
            /\ \A u \in Nat \ {0}, n \in 0..UINT32_MAX :
                 h.used = u /\ h.value = n <=> OpensWith(frame, at, len, Newline, u, n)
    BY <2>1, HeaderNumberRight
  <2> QED BY <2>2 DEF at, len
<1> HIDE DEF second
<1>4. header \in 0..L
  BY <1>1, <1>3
<1>5. ASSUME NEW n \in Nat, NEW x \in 0..UINT32_MAX, NEW y \in 0..UINT32_MAX,
             IsHeader(body, n, x, y)
      PROVE  header = n /\ n # 0 /\ first.value = x /\ second.value = y
  <2>1. PICK i \in Nat \ {0}, j \in Nat \ {0} :
          /\ i + j = n
          /\ OpensWith(frame, 2, L, Space, i, x)
          /\ OpensWith(frame, 2 + i, L - i, Newline, j, y)
    BY <1>5, HeaderIsTwoNumbers
  <2>2. first.used = i /\ first.value = x
    BY <1>1, <2>1
  <2>3. second.used = j /\ second.value = y
    BY <1>3, <2>1, <2>2
  <2> QED BY <2>1, <2>2, <2>3
<1>6. ASSUME NEW n \in Nat, NEW x \in 0..UINT32_MAX, NEW y \in 0..UINT32_MAX,
             header = n, n # 0, first.value = x, second.value = y
      PROVE  IsHeader(body, n, x, y)
  <2>1. first.used \in Nat \ {0} /\ second.used \in Nat \ {0} /\ first.used + second.used = n
    BY <1>1, <1>3, <1>6
  <2>2. /\ OpensWith(frame, 2, L, Space, first.used, x)
        /\ OpensWith(frame, 2 + first.used, L - first.used, Newline, second.used, y)
    BY <1>1, <1>3, <1>6, <2>1
  <2> QED BY <2>1, <2>2, HeaderIsTwoNumbers
<1>7. /\ header \in 0..L
      /\ first.value \in 0..UINT32_MAX /\ second.value \in 0..UINT32_MAX
      /\ \A n \in Nat, x, y \in 0..UINT32_MAX :
           IsHeader(body, n, x, y) <=>
             header = n /\ n # 0 /\ first.value = x /\ second.value = y
  BY <1>1, <1>3, <1>4, <1>5, <1>6
<1> QED BY <1>7 DEF first, second

\* downlink_log() says of any frame what it is.
LEMMA LogIsRight ==
    ASSUME NEW frame \in Seq(Byte)
    PROVE  ReadRight(frame)
<1> DEFINE body == SubSeq(frame, 2, Len(frame) - TAG_CHARS)
           L == Len(frame) - 1 - TAG_CHARS
           Has(type) == Len(frame) > TAG_CHARS /\ frame[1] = type
           line == downlink_log(frame)
<1> Len(frame) \in Nat /\ TAG_CHARS \in Nat /\ UINT32_MAX \in Nat
  BY FrameAssumption
<1> SUFFICES ASSUME NEW x \in 0..UINT32_MAX, NEW y \in 0..UINT32_MAX, NEW n \in 0..Len(frame)
             PROVE  /\ line = <<"SHADOW", x, y, Len(body) - n>>
                         <=> Has(FRAME_SHADOW) /\ IsHeader(body, n, x, y)
                    /\ line = <<"STATUS", x, y>>
                         <=> Has(FRAME_STATUS) /\ IsHeader(body, Len(body), x, y)
  BY DEF ReadRight
<1>1. CASE Len(frame) < 1 + TAG_CHARS \/ frame[1] \notin FromPlatform
  <2>1. line = <<"not a platform frame">>
    BY <1>1 DEF downlink_log
  <2>2. ~Has(FRAME_SHADOW) /\ ~Has(FRAME_STATUS)
    BY <1>1, FrameAssumption
  <2> HIDE DEF line
  <2>3. line # <<"SHADOW", x, y, Len(body) - n>> /\ line # <<"STATUS", x, y>>
    BY <2>1
  <2> QED BY <2>2, <2>3
<1>2. CASE Len(frame) >= 1 + TAG_CHARS /\ frame[1] \in FromPlatform
  <2>1. body \in Seq(Byte) /\ Len(body) = L /\ L \in Nat
        /\ \A k \in 1..Len(body) : body[k] = frame[k + 1]
    <3>1. 2 + L - 1 = Len(frame) - TAG_CHARS /\ L \in Nat
      BY <1>2
    <3>2. \A k \in 2..(Len(frame) - TAG_CHARS) : frame[k] \in Byte
      OBVIOUS
    <3>3. body \in Seq(Byte)
      BY <3>2
    <3>4. Len(body) = L
      <4> DEFINE last == Len(frame) - TAG_CHARS
      <4>1. last \in Int /\ last <= Len(frame) /\ L = last - 1 /\ last >= 1
        BY <1>2, FrameAssumption
      <4> HIDE DEF last, L
      <4>2. Len(SubSeq(frame, 2, last)) = IF 2 <= last THEN last - 1 ELSE 0
        BY <4>1
      <4>3. Len(SubSeq(frame, 2, last)) = L
        BY <4>1, <4>2
      <4> QED BY <4>3 DEF last
    <3>5. ASSUME NEW k \in 1..L PROVE body[k] = frame[k + 1]
      <4>1. body[k] = frame[2 + k - 1]
        BY <3>1
      <4> QED BY <4>1
    <3> HIDE DEF body
    <3> QED BY <3>1, <3>3, <3>4, <3>5
  <2> HIDE DEF body
  <2> DEFINE first == header_number(frame, 2, L, Space)
             second == header_number(frame, 2 + first.used, L - first.used, Newline)
             header == IF first.used > 0 /\ second.used > 0 THEN first.used + second.used ELSE 0
  <2>2. /\ header \in 0..L
        /\ first.value \in 0..UINT32_MAX /\ second.value \in 0..UINT32_MAX
        /\ \A m \in Nat, p, q \in 0..UINT32_MAX :
             IsHeader(body, m, p, q) <=>
               header = m /\ m # 0 /\ first.value = p /\ second.value = q
    <3>1. /\ body \in Seq(Byte) /\ \A k \in 1..Len(body) : body[k] = frame[k + 1]
          /\ L = Len(body)
      BY <2>1
    <3> HIDE DEF L
    <3>2. LET one == header_number(frame, 2, Len(body), Space)
              two == header_number(frame, 2 + one.used, Len(body) - one.used, Newline)
              both == IF one.used > 0 /\ two.used > 0 THEN one.used + two.used ELSE 0
          IN  /\ both \in 0..Len(body)
              /\ one.value \in 0..UINT32_MAX /\ two.value \in 0..UINT32_MAX
              /\ \A m \in Nat, p, q \in 0..UINT32_MAX :
                   IsHeader(body, m, p, q) <=>
                     both = m /\ m # 0 /\ one.value = p /\ two.value = q
      BY <3>1, HeaderRight
    <3> QED BY <3>1, <3>2
  <2>3. line = IF header = 0 THEN <<"no header">>
               ELSE IF frame[1] = FRAME_SHADOW
               THEN <<"SHADOW", first.value, second.value, L - header>>
               ELSE IF frame[1] = FRAME_STATUS /\ header = L
               THEN <<"STATUS", first.value, second.value>>
               ELSE <<"unknown">>
    <3>1. ~(Len(frame) < 1 + TAG_CHARS \/ frame[1] \notin FromPlatform)
      BY <1>2
    <3> QED BY <3>1, Zenon DEF downlink_log
  <2> HIDE DEF line, first, second, header, L
  <2>4. L \in Nat /\ Len(body) = L
    BY <2>1
  <2>5. Has(FRAME_SHADOW) <=> frame[1] = FRAME_SHADOW
    BY <1>2
  <2>6. Has(FRAME_STATUS) <=> frame[1] = FRAME_STATUS
    BY <1>2
  <2>7. FRAME_SHADOW # FRAME_STATUS
    BY FrameAssumption
  <2>8. line = <<"SHADOW", x, y, L - n>>
          <=> frame[1] = FRAME_SHADOW /\ header # 0 /\ first.value = x /\ second.value = y
              /\ header = n
    <3>1. CASE header = 0 \/ frame[1] # FRAME_SHADOW
      BY <3>1, <2>3
    <3>2. CASE header # 0 /\ frame[1] = FRAME_SHADOW
      <4>1. line = <<"SHADOW", first.value, second.value, L - header>>
        BY <3>2, <2>3
      <4>2. L - header = L - n <=> header = n
        BY <2>2, <2>4
      <4> QED BY <3>2, <4>1, <4>2
    <3> QED BY <3>1, <3>2
  <2>9. line = <<"STATUS", x, y>>
          <=> frame[1] = FRAME_STATUS /\ header # 0 /\ first.value = x /\ second.value = y
              /\ header = L
    BY <2>2, <2>3, <2>4, <2>7
  <2> QED BY <2>2, <2>4, <2>5, <2>6, <2>8, <2>9
<1> QED BY <1>1, <1>2

\* main() prints only frames it has received.
FrameInv == pc = "print" => rx_buf \in Frames

(* What downlink_log() prints is what the frame says, for every frame of   *)
(* every length, any base, any number of digits and any largest number     *)
(* (main.c:289-352).                                                       *)
THEOREM PrintsRight == Spec => []PrintsTrue
<1>1. Init => FrameInv
  BY DEF Init, FrameInv
<1>2. FrameInv /\ [Next]_vars => FrameInv'
  <2> SUFFICES ASSUME FrameInv, [Next]_vars PROVE FrameInv'
    OBVIOUS
  <2> USE DEF FrameInv, setup, link, Goto, Proceed
  <2>1. CASE NetworkRegisters \/ PdnComesUp
    BY <2>1 DEF NetworkRegisters, PdnComesUp
  <2>2. CASE BringUp
    <3>1. CASE SetUp \/ SetUpFails \/ InitFails \/ Connect \/ ConnectFails
      BY <3>1 DEF SetUp, SetUpFails, InitFails, Connect, ConnectFails
    <3>2. CASE TakeRegistered \/ RegisterTimesOut \/ Activate \/ ActivateFails
      BY <3>2 DEF TakeRegistered, RegisterTimesOut, Activate, ActivateFails
    <3>3. CASE TakePdnUp \/ PdnTimesOut \/ OpenSocket \/ OpenSocketFails \/ Bind \/ BindFails
      BY <3>3 DEF TakePdnUp, PdnTimesOut, OpenSocket, OpenSocketFails, Bind, BindFails
    <3> QED BY <2>2, <3>1, <3>2, <3>3 DEF BringUp
  <2>3. CASE Receive
    BY <2>3 DEF Receive
  <2>4. CASE PrintDownlink \/ WindDown
    BY <2>4 DEF PrintDownlink, WindDown, ReceiveFails, Close, PowerOff
  <2>5. CASE Shell
    BY <2>5 DEF Shell, Command, CommandRuns, HttpsOpens, HttpsEnds
  <2>6. CASE UNCHANGED vars
    BY <2>6 DEF vars
  <2> QED BY <2>1, <2>2, <2>3, <2>4, <2>5, <2>6 DEF Next
<1>3. FrameInv => PrintsTrue
  BY LogIsRight, ProbeAssumption DEF FrameInv, PrintsTrue
<1> QED BY <1>1, <1>2, <1>3, PTL DEF Spec

===============================================================================
