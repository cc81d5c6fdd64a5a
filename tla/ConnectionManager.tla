-------------------------- MODULE ConnectionManager --------------------------
(***************************************************************************)
(* CConnectionManager (ConnectionManager.h/.cpp) driven by one script: the *)
(* connection's state machine, its queues, and Update, the frame handler   *)
(* that polls the socket.  The program is single-threaded, but the kernel  *)
(* and the peer move between any two system calls of Update, so every      *)
(* system call of Update is a step of its own (pc).                        *)
(*                                                                         *)
(* A message is transferred in Units pieces; sendList holds what is left   *)
(* of each message and recvList what has arrived of each message.  The     *)
(* bytes themselves are the subject of the modules FrameReader and Framing.*)
(***************************************************************************)
EXTENDS Integers, Sequences

CONSTANTS
  Units,      \* pieces of a message
  Ports,      \* ports scripts connect to
  Timeout,    \* CONNECT_TIMEOUT
  Dts,        \* frame times passed to Update
  OutCap,     \* pieces the kernel's send buffer holds
  MaxSend,    \* bound: length of sendList
  MaxIn,      \* bound: messages in recvList and pieces about to be received
  MaxLost     \* bound: descriptors abandoned by the address loop

ASSUME UnitsAssumption == Units \in Nat \ {0}
ASSUME PortsAssumption == Ports \subseteq Nat
ASSUME TimeoutAssumption == Timeout \in Nat \ {0}
ASSUME DtsAssumption == Dts \subseteq Nat
ASSUME OutCapAssumption == OutCap \in Nat \ {0}
ASSUME BoundsAssumption == MaxSend \in Nat /\ MaxIn \in Nat /\ MaxLost \in Nat

VARIABLES
  netState,   \* m_netState
  port,       \* m_port, -1 when no server was named yet
  sock,       \* m_pSocket: "null" or "open"
  flags,      \* which of the read and write flag of *m_pSocket are set
  timer,      \* m_tOutTimer
  sendList,   \* m_sendList: pieces left to send of each message
  recvList,   \* m_recvList: pieces received of each message
  pc,         \* where Update stands between two system calls
  kst,        \* kernel: state of the TCP connection behind the descriptor
  kin,        \* kernel: pieces that have arrived
  kout,       \* kernel: pieces waiting to be sent
  kexc,       \* kernel: what select() reports as an exception
  fds,        \* descriptors the process has open
  lost,       \* history: descriptors abandoned by DoConnect's address loop
  elapsed,    \* history: frame time since the connection attempt began
  seen,       \* history: since connect(), "urgent": the peer sent out-of-band
              \* data, "failed": a select() on the socket returned -1
  txOff,      \* history: pieces of an unfinished frame put on this connection
  rxOff       \* history: pieces of an unfinished frame taken from it

api == <<port, lost>>
kernel == <<kst, kin, kout, kexc>>
link == <<netState, sock, flags, kernel, fds>>
clock == <<timer, elapsed>>
offs == <<txOff, rxOff>>
vars == <<netState, port, sock, flags, timer, sendList, recvList, pc,
          kst, kin, kout, kexc, fds, lost, elapsed, seen, txOff, rxOff>>

NetStates == {"Connecting", "ConnectTimeOut", "ConnectError", "Connected",
              "Disconnected"}
KernelStates == {"none", "syn", "refused", "est", "fin", "rst"}

StatesOK ==
  /\ netState \in NetStates
  /\ port \in Ports \cup {-1}
  /\ sock \in {"null", "open"}
  /\ flags \subseteq {"read", "write"}
  /\ pc \in {"idle", "send", "sendsel", "recv", "recvsel", "crashed"}
  /\ kst \in KernelStates
  /\ kexc \subseteq {"refused", "urgent"}
  /\ seen \subseteq {"urgent", "failed"}

NumbersOK ==
  /\ timer \in Int
  /\ kin \in Nat /\ kout \in 0 .. OutCap
  /\ fds \in Int /\ lost \in Nat /\ elapsed \in Nat
  /\ txOff \in 0 .. Units - 1 /\ rxOff \in 0 .. Units - 1

ListsOK ==
  /\ sendList \in Seq(1 .. Units)
  /\ recvList \in Seq(0 .. Units)

\* No finished message stays in m_sendList; counters and offsets are in range.
TypeOK == StatesOK /\ NumbersOK /\ ListsOK

Init ==
  /\ netState = "Disconnected" /\ port = -1 /\ sock = "null"
  /\ flags = {} /\ timer = -1
  /\ sendList = <<>> /\ recvList = <<>>
  /\ pc = "idle"
  /\ kst = "none" /\ kin = 0 /\ kout = 0 /\ kexc = {}
  /\ fds = 0 /\ lost = 0 /\ elapsed = 0 /\ seen = {}
  /\ txOff = 0 /\ rxOff = 0

-----------------------------------------------------------------------------
(* The socket as select() sees it *)

Readable(st, in) == in > 0 \/ st \in {"refused", "fin", "rst"}

Writable(st, out) ==
  \/ st \in {"refused", "rst"}
  \/ st \in {"est", "fin"} /\ out < OutCap

SelectFlags(st, in, out) ==
  (IF Readable(st, in) THEN {"read"} ELSE {})
    \cup (IF Writable(st, out) THEN {"write"} ELSE {})

-----------------------------------------------------------------------------
(* Closing *)

NoKernelSocket == kst' = "none" /\ kin' = 0 /\ kout' = 0 /\ kexc' = {}

\* Mutant: the socket object is deleted, its descriptor stays open.
FdsKept == fds

FdsAfterClose == IF sock = "open" THEN fds - 1 ELSE fds

\* Close(), followed by the caller's own assignment of m_netState.
CloseTo(state) ==
  /\ netState' = state
  /\ sock' = "null" /\ flags' = {} /\ NoKernelSocket
  /\ fds' = FdsAfterClose

\* Close() alone leaves m_netState when there is no socket.
Close == CloseTo(IF sock = "open" THEN "Disconnected" ELSE netState)

OnError == CloseTo("ConnectError")

OnTimeOut == CloseTo("ConnectTimeOut") /\ timer' = -1

(***************************************************************************)
(* The first branch of CheckState: select() reports an exception, or fails *)
(* and returns -1, as it may at any call (a signal, no memory).            *)
(***************************************************************************)
SelectError ==
  /\ OnError
  /\ \/ kexc # {} /\ UNCHANGED seen
     \/ seen' = seen \cup {"failed"}

\* Its other branch: both flags are set to what select() has found.
SelectOK ==
  /\ kexc = {} /\ flags' = SelectFlags(kst, kin, kout)
  /\ UNCHANGED <<sock, kernel, fds, seen>>

\* Mutant: only the send queue is cleared.
ClearSendListOnly == sendList' = <<>> /\ UNCHANGED recvList

ClearCached == sendList' = <<>> /\ recvList' = <<>>

-----------------------------------------------------------------------------
(* Connecting *)

\* Every address failed, or there was none: OnError.
ConnectFails(openFds) ==
  /\ netState' = "ConnectError"
  /\ sock' = "null" /\ flags' = {} /\ NoKernelSocket /\ fds' = openFds
  /\ UNCHANGED <<clock, offs>>

\* Mutant: the timer keeps its old value.
TimerNotStarted == timer' = timer /\ elapsed' = 0

StartTimer == timer' = Timeout /\ elapsed' = 0

(***************************************************************************)
(* connect() is under way and the first CheckState() looks at the socket.  *)
(* A connection refused at once is an exception to Winsock's select(), and *)
(* then OnError follows, as it does when select() itself fails; to a POSIX *)
(* select() the refused connection is merely ready.                        *)
(***************************************************************************)
ConnectPending(openFds) ==
  /\ \/ /\ netState' = "ConnectError"
        /\ sock' = "null" /\ flags' = {} /\ NoKernelSocket
        /\ fds' = openFds
     \/ /\ netState' = "Connecting"
        /\ sock' = "open" /\ fds' = openFds + 1
        /\ kst' \in {"syn", "est", "refused"}
        /\ kin' = 0 /\ kout' = 0 /\ kexc' = {}
        /\ flags' = SelectFlags(kst', 0, 0)
  /\ StartTimer
  /\ txOff' = 0 /\ rxOff' = 0

(***************************************************************************)
(* DoConnect with openFds descriptors open.  The loop over the addresses   *)
(* abandons made sockets whose connect() failed: it makes the next one     *)
(* without closing them.  Name resolution fails for the port -1.           *)
(***************************************************************************)
DoConnect(p, openFds) ==
  /\ port' = p /\ seen' = {}
  /\ \/ lost' = lost /\ ConnectFails(openFds)
     \/ \E made \in 0 .. MaxLost :
          /\ p # -1
          /\ lost + made <= MaxLost /\ lost' = lost + made
          /\ ConnectFails(openFds + made) \/ ConnectPending(openFds + made)

Connect(p) ==
  /\ pc = "idle"
  /\ IF port = -1
     THEN DoConnect(p, fds) /\ UNCHANGED <<sendList, recvList>>
     ELSE DoConnect(p, FdsAfterClose) /\ ClearCached
  /\ UNCHANGED pc

\* Close and ClearCached here, and once more, without effect, in Connect.
ReConnect ==
  /\ pc = "idle" /\ port # -1
  /\ DoConnect(port, FdsAfterClose) /\ ClearCached
  /\ UNCHANGED pc

CloseConnection ==
  /\ pc = "idle"
  /\ Close /\ ClearCached
  /\ UNCHANGED <<api, clock, offs, pc, seen>>

\* SocketObject::Restart: the manager is destroyed and made anew.
Restart ==
  /\ pc = "idle"
  /\ CloseTo("Disconnected") /\ ClearCached
  /\ port' = -1 /\ timer' = -1
  /\ UNCHANGED <<lost, elapsed, offs, pc, seen>>

-----------------------------------------------------------------------------
(* Messages of the script *)

SendMsg ==
  /\ pc = "idle" /\ Len(sendList) < MaxSend
  /\ sendList' = Append(sendList, Units)
  /\ UNCHANGED <<api, link, clock, offs, recvList, pc, seen>>

HasPendingMsg == recvList # <<>> /\ Head(recvList) = Units

\* if HasPendingMsg() then LoadMsg(): getMsg and RemoveMsg of the front.
LoadMsg ==
  /\ pc = "idle" /\ HasPendingMsg
  /\ recvList' = Tail(recvList)
  /\ UNCHANGED <<api, link, clock, offs, sendList, pc, seen>>

-----------------------------------------------------------------------------
(* Update *)

UpdateEnabled ==
  pc = "idle" /\ sock = "open" /\ netState \in {"Connecting", "Connected"}

\* The first CheckState() fails; Update returns.
UpdateSelectError(dt) ==
  /\ UpdateEnabled /\ SelectError
  /\ UNCHANGED <<api, clock, offs, sendList, recvList, pc>>

\* Seen writable on the first frame already: success waits for the next one.
UpdateFirstFrame(dt) ==
  /\ UpdateEnabled /\ SelectOK /\ netState = "Connecting"
  /\ Writable(kst, kout) /\ timer = Timeout
  /\ timer' = timer - dt /\ elapsed' = elapsed + dt
  /\ UNCHANGED <<api, offs, netState, sendList, recvList, pc>>

UpdateOnSuccess(dt) ==
  /\ UpdateEnabled /\ SelectOK /\ netState = "Connecting"
  /\ Writable(kst, kout) /\ timer # Timeout
  /\ netState' = "Connected" /\ timer' = -1 /\ elapsed' = elapsed + dt
  /\ UNCHANGED <<api, offs, sendList, recvList, pc>>

\* Mutant: the frame time is not taken off the timer.
UpdateWaitingForever(dt) ==
  /\ UpdateEnabled /\ SelectOK /\ netState = "Connecting" /\ ~Writable(kst, kout)
  /\ UNCHANGED <<api, offs, clock, netState, sendList, recvList, pc>>

UpdateWaiting(dt) ==
  /\ UpdateEnabled /\ kexc = {} /\ netState = "Connecting" /\ ~Writable(kst, kout)
  /\ elapsed' = elapsed + dt
  /\ IF timer - dt <= 0
     THEN OnTimeOut /\ UNCHANGED seen
     ELSE SelectOK /\ timer' = timer - dt /\ UNCHANGED netState
  /\ UNCHANGED <<api, offs, sendList, recvList, pc>>

\* Mutant: the send loop is skipped.
UpdateReceivesOnly(dt) ==
  /\ UpdateEnabled /\ SelectOK /\ netState = "Connected"
  /\ pc' = "recv"
  /\ UNCHANGED <<api, offs, clock, netState, sendList, recvList>>

UpdateConnected(dt) ==
  /\ UpdateEnabled /\ SelectOK /\ netState = "Connected"
  /\ pc' = "send"
  /\ UNCHANGED <<api, offs, clock, netState, sendList, recvList>>

Update(dt) ==
  \/ UpdateSelectError(dt) \/ UpdateFirstFrame(dt) \/ UpdateOnSuccess(dt)
  \/ UpdateWaiting(dt) \/ UpdateConnected(dt)

-----------------------------------------------------------------------------
(* The two loops of Update *)

\* m_pSocket is dereferenced at the head of both loops.
NullDereference ==
  /\ pc \in {"send", "recv"} /\ sock = "null"
  /\ pc' = "crashed"
  /\ UNCHANGED <<api, link, clock, offs, sendList, recvList, seen>>

\* CheckState() at the end of a turn, back to the head of the loop.
CheckState(from, to) ==
  /\ pc = from /\ pc' = to
  /\ SelectError \/ (SelectOK /\ UNCHANGED netState)
  /\ UNCHANGED <<api, clock, offs, sendList, recvList>>

SendLoopDone ==
  /\ pc = "send" /\ sock = "open" /\ ("write" \notin flags \/ sendList = <<>>)
  /\ pc' = "recv"
  /\ UNCHANGED <<api, link, clock, offs, sendList, recvList, seen>>

Sending == pc = "send" /\ sock = "open" /\ "write" \in flags /\ sendList # <<>>

\* Position in a stream of frames after n more pieces.
Advance(off, n) == IF off + n < Units THEN off + n ELSE 0

\* send() takes n pieces; a message that is finished is popped and deleted.
SendSome(n) ==
  /\ Sending /\ kst \in {"est", "fin"}
  /\ n <= Head(sendList) /\ kout + n <= OutCap
  /\ kout' = kout + n /\ UNCHANGED <<kst, kin, kexc>>
  /\ IF n = Head(sendList)
     THEN sendList' = Tail(sendList) /\ pc' = "sendsel"
     ELSE sendList' = [sendList EXCEPT ![1] = @ - n] /\ pc' = pc
  /\ txOff' = Advance(txOff, n)
  /\ UNCHANGED <<api, clock, rxOff, netState, sock, flags, fds, recvList, seen>>

\* Mutant: Update goes on after the error.
SendErrorWithoutReturn ==
  /\ Sending
  /\ kst \in {"refused", "rst"} \/ kout = OutCap
  /\ OnError /\ pc' = "recv"
  /\ UNCHANGED <<api, clock, offs, sendList, recvList, seen>>

(***************************************************************************)
(* send() returns -1: the connection is gone, or the kernel's buffer is    *)
(* full in the middle of a message.  Update returns.                       *)
(***************************************************************************)
SendError ==
  /\ Sending
  /\ kst \in {"refused", "rst"} \/ kout = OutCap
  /\ OnError /\ pc' = "idle"
  /\ UNCHANGED <<api, clock, offs, sendList, recvList, seen>>

RecvLoopDone ==
  /\ pc = "recv" /\ sock = "open" /\ "read" \notin flags
  /\ pc' = "idle"
  /\ UNCHANGED <<api, link, clock, offs, sendList, recvList, seen>>

\* Mutant: every recv() starts a message of its own.
ReceivingAlwaysNew == Append(recvList, 0)

\* recvList with an unfinished message at the back.
Receiving ==
  IF recvList # <<>> /\ recvList[Len(recvList)] < Units THEN recvList
  ELSE Append(recvList, 0)

\* recv() returns n pieces; reading may take the stream past urgent data.
RecvSome(n) ==
  /\ pc = "recv" /\ sock = "open" /\ "read" \in flags
  /\ n <= kin /\ n <= Units - Receiving[Len(Receiving)]
  /\ recvList' = [Receiving EXCEPT ![Len(Receiving)] = @ + n]
  /\ kin' = kin - n /\ kexc' \in {kexc, {}} /\ UNCHANGED <<kst, kout>>
  /\ pc' = "recvsel"
  /\ rxOff' = Advance(rxOff, n)
  /\ UNCHANGED <<api, clock, txOff, netState, sock, flags, fds, sendList, seen>>

\* Mutant: the error also drops the messages that arrived whole.
RecvErrorDropsList ==
  /\ pc = "recv" /\ sock = "open" /\ "read" \in flags /\ kin = 0
  /\ recvList' = <<>>
  /\ OnError /\ pc' = "idle"
  /\ UNCHANGED <<api, clock, offs, sendList, seen>>

\* Mutant: a recv() of 0 bytes is not an error.
RecvErrorIgnoresEof ==
  /\ pc = "recv" /\ sock = "open" /\ "read" \in flags /\ kin = 0
  /\ recvList' = Receiving /\ pc' = "idle"
  /\ IF kst = "fin" THEN UNCHANGED link ELSE OnError
  /\ UNCHANGED <<api, clock, offs, sendList, seen>>

\* recv() returns 0 or -1; the message made for it stays in the list.
RecvError ==
  /\ pc = "recv" /\ sock = "open" /\ "read" \in flags /\ kin = 0
  /\ recvList' = Receiving
  /\ OnError /\ pc' = "idle"
  /\ UNCHANGED <<api, clock, offs, sendList, seen>>

Loops ==
  \/ NullDereference
  \/ CheckState("sendsel", "send") \/ CheckState("recvsel", "recv")
  \/ SendLoopDone \/ SendError \/ RecvLoopDone \/ RecvError
  \/ \E n \in 1 .. Units : SendSome(n) \/ RecvSome(n)

-----------------------------------------------------------------------------
(* Kernel and peer *)

PeerActs ==
  /\ pc # "crashed" /\ sock = "open"
  /\ UNCHANGED <<api, clock, offs, netState, sock, flags, fds, sendList, recvList, pc>>

\* Winsock reports a refused connection as an exception, POSIX does not.
Handshake ==
  /\ PeerActs /\ kst = "syn"
  /\ \/ kst' = "est" /\ UNCHANGED kexc
     \/ kst' = "refused" /\ kexc' \in {{}, {"refused"}}
  /\ UNCHANGED <<kin, kout, seen>>

PeerSend ==
  /\ PeerActs /\ kst = "est"
  /\ Len(recvList) + kin < MaxIn
  /\ kin' = kin + 1
  /\ UNCHANGED <<kst, kout, kexc, seen>>

PeerRead ==
  /\ PeerActs /\ kst \in {"est", "fin"}
  /\ kout > 0 /\ kout' = kout - 1
  /\ UNCHANGED <<kst, kin, kexc, seen>>

PeerUrgent ==
  /\ PeerActs /\ kst = "est"
  /\ kexc' = {"urgent"} /\ seen' = seen \cup {"urgent"}
  /\ UNCHANGED <<kst, kin, kout>>

PeerClose ==
  /\ PeerActs /\ kst = "est" /\ kst' = "fin"
  /\ UNCHANGED <<kin, kout, kexc, seen>>

\* A reset may discard what was not yet read.
PeerReset ==
  /\ PeerActs /\ kst \in {"est", "fin"} /\ kst' = "rst"
  /\ kin' \in {kin, 0}
  /\ UNCHANGED <<kout, kexc, seen>>

Environment ==
  Handshake \/ PeerSend \/ PeerRead \/ PeerUrgent \/ PeerClose \/ PeerReset

-----------------------------------------------------------------------------

Next ==
  \/ \E p \in Ports \cup {-1} : Connect(p)
  \/ ReConnect \/ CloseConnection \/ Restart
  \/ SendMsg \/ LoadMsg
  \/ \E dt \in Dts : Update(dt)
  \/ Loops
  \/ Environment

Spec == Init /\ [][Next]_vars

(***************************************************************************)
(* The game loop calls updateNetMsg in every frame, time passes between    *)
(* frames, and an Update that was called runs to its end.  Nothing is      *)
(* assumed of the network, and no select() has to fail: a failure adds to  *)
(* seen and takes the socket, so a step that leaves seen is what remains.  *)
(***************************************************************************)
Fairness ==
  /\ WF_vars(\E dt \in Dts \ {0} : Update(dt) /\ UNCHANGED seen)
  /\ WF_vars(Loops /\ UNCHANGED seen)

FairSpec == Spec /\ Fairness

-----------------------------------------------------------------------------

(***************************************************************************)
(* A socket object exists exactly while the state says Connecting or       *)
(* Connected: the script is never told of a connection that has no socket, *)
(* and no state change forgets an open one (Close, OnError, OnTimeOut,     *)
(* DoConnect).                                                             *)
(***************************************************************************)
SocketMatchesState == sock = "open" <=> netState \in {"Connecting", "Connected"}

\* Pieces received of the message at the back of recvList.
Fragment == IF recvList = <<>> THEN 0 ELSE recvList[Len(recvList)]

(***************************************************************************)
(* No connection continues a frame that an earlier connection began: what  *)
(* is left of the front of m_sendList and what has arrived of the back of  *)
(* m_recvList agree with how far this connection's byte streams are inside *)
(* a frame.  OnError leaves both lists as they are; ClearCached in Connect *)
(* and ReConnect must drop the fragments.                                  *)
(***************************************************************************)
StreamsAligned ==
  sock = "open" =>
    /\ txOff = IF sendList = <<>> THEN 0 ELSE Units - Head(sendList)
    /\ rxOff = IF Fragment = Units THEN 0 ELSE Fragment

(***************************************************************************)
(* Only the back of m_recvList is ever incomplete, and of m_sendList only  *)
(* the front is ever partly sent, so that HasPendingMsg sees every message *)
(* that has arrived and no message is sent from its middle.                *)
(***************************************************************************)
ListShape ==
  /\ \A i \in 1 .. Len(recvList) - 1 : recvList[i] = Units
  /\ \A i \in 2 .. Len(sendList) : sendList[i] = Units

(***************************************************************************)
(* Every open descriptor is the current socket's or one that DoConnect's   *)
(* loop over the addresses abandoned: reconnecting, restarting, errors and *)
(* time-outs leak none and close none twice.                               *)
(***************************************************************************)
FdsAccounted == fds = lost + (IF sock = "open" THEN 1 ELSE 0)

(***************************************************************************)
(* m_pSocket is dereferenced while NULL only on a connection on which the  *)
(* peer sent out-of-band data or a select() failed: both loops go on after *)
(* a CheckState that deleted the socket.  No reset, end of file, refused   *)
(* connection, full send buffer or time-out leads there, since every other *)
(* caller of OnError leaves Update.                                        *)
(***************************************************************************)
NullOnlyAfterSelectError == pc = "crashed" => seen # {}

\* A time-out is reported only after CONNECT_TIMEOUT of frame time.
NoEarlyTimeout == netState = "ConnectTimeOut" => elapsed >= Timeout

\* Messages that have arrived whole.
Pending ==
  Len(recvList) - (IF recvList # <<>> /\ recvList[Len(recvList)] < Units THEN 1 ELSE 0)

LinkState ==
  IF netState = "Connecting" THEN "opening"
  ELSE IF netState = "Connected" THEN "up" ELSE "down"

Server == IF port = -1 THEN "none" ELSE "named"

Promise == INSTANCE Session WITH
  link <- LinkState, server <- Server,
  outbox <- Len(sendList), inbox <- Pending

(***************************************************************************)
(* The manager implements the session it promises, piecewise transfers and *)
(* all errors included.                                                    *)
(***************************************************************************)
SessionSpec == Promise!Spec

-----------------------------------------------------------------------------
(* Liveness *)

(***************************************************************************)
(* A connection attempt ends, in success, an error or a time-out, unless   *)
(* the script itself keeps starting it over before it can end.             *)
(***************************************************************************)
ConnectingEnds ==
  <>[](netState = "Connecting") => []<><<elapsed' < elapsed>>_vars

(***************************************************************************)
(* A connection whose other side is gone is noticed, also one that was     *)
(* refused and yet reported as Connected because its socket was writable.  *)
(***************************************************************************)
DeadPeerNoticed ==
  (netState = "Connected" /\ kst \in {"refused", "fin", "rst"})
    ~> (netState # "Connected" \/ pc = "crashed")

(***************************************************************************)
(* While a connection lasts and the kernel's buffer does not stay full,    *)
(* queued messages keep leaving.                                           *)
(***************************************************************************)
QueueDrains ==
  <>[](netState = "Connected" /\ sendList # <<>> /\ pc # "crashed")
    => \/ []<><<Len(sendList') < Len(sendList)>>_vars
       \/ <>[](kout = OutCap)
=============================================================================
