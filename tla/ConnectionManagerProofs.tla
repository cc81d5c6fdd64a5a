----------------------- MODULE ConnectionManagerProofs -----------------------
(***************************************************************************)
(* Proofs about ConnectionManager, for every message length, time-out,     *)
(* kernel buffer, set of ports and frame times, and every bound.           *)
(*                                                                         *)
(* The safety properties are not inductive by themselves.  The inductive   *)
(* invariant IInv adds where Update may stand in which state (PcInv), what *)
(* can raise an exception on the socket (KernelInv), that the lists hold   *)
(* no fragment before a first server is named (PortInv), and that the      *)
(* timer is the frame time still to go (TimerInv).  It has three parts     *)
(* which are preserved one after the other: the control state, the         *)
(* counters, and the lists.                                                *)
(***************************************************************************)
EXTENDS ConnectionManager, TLAPS

USE UnitsAssumption, PortsAssumption, TimeoutAssumption, DtsAssumption,
    OutCapAssumption, BoundsAssumption

\* Where Update stands tells what the state and the socket are.
PcInv ==
  /\ pc \in {"sendsel", "recvsel"} => netState = "Connected"
  /\ pc \in {"send", "recv"} /\ sock = "open" => netState = "Connected"
  /\ pc \in {"send", "recv", "crashed"} /\ sock = "null" => seen # {}
  /\ pc = "crashed" => sock = "null"

\* After the handshake only out-of-band data makes select() report an exception.
KernelInv ==
  netState = "Connected" => kst # "syn" /\ (kexc # {} => "urgent" \in seen)

\* Without a server there was no connection, hence no fragment.
PortInv ==
  port = -1 => /\ sock = "null" /\ recvList = <<>>
               /\ sendList # <<>> => Head(sendList) = Units

TimerInv == netState = "Connecting" => timer = Timeout - elapsed

ControlInv == StatesOK /\ SocketMatchesState /\ PcInv /\ KernelInv
CountInv == NumbersOK /\ TimerInv /\ FdsAccounted /\ NoEarlyTimeout
ListInv == ListsOK /\ PortInv /\ ListShape /\ StreamsAligned

IInv == ControlInv /\ CountInv /\ ListInv

-----------------------------------------------------------------------------

\* The constructor establishes the invariant.
LEMMA InitIInv == Init => IInv
  BY DEF Init, IInv, ControlInv, CountInv, ListInv, StatesOK, NumbersOK, ListsOK,
         SocketMatchesState, PcInv, KernelInv, PortInv, TimerInv, StreamsAligned,
         Fragment, ListShape, FdsAccounted, NoEarlyTimeout, NetStates, KernelStates

-----------------------------------------------------------------------------
(* The control state *)

\* Every step of the manager, the kernel and the peer keeps the control state.
LEMMA ControlStep == ControlInv /\ [Next]_vars => ControlInv'
<1> SUFFICES ASSUME ControlInv, [Next]_vars PROVE ControlInv'
  OBVIOUS
<1> USE DEF ControlInv, StatesOK, SocketMatchesState, PcInv, KernelInv, NetStates, KernelStates
<1>1. ASSUME NEW p \in Ports \cup {-1}, Connect(p) PROVE ControlInv'
  BY <1>1 DEF Connect, DoConnect, ConnectFails, ConnectPending, NoKernelSocket, SelectFlags
<1>2. CASE ReConnect
  BY <1>2 DEF ReConnect, DoConnect, ConnectFails, ConnectPending, NoKernelSocket, SelectFlags
<1>3. CASE CloseConnection
  BY <1>3 DEF CloseConnection, Close, CloseTo, NoKernelSocket, api
<1>4. CASE Restart
  BY <1>4 DEF Restart, CloseTo, NoKernelSocket
<1>5. CASE SendMsg \/ LoadMsg
  BY <1>5 DEF SendMsg, LoadMsg, api, link, kernel
<1>6. ASSUME NEW dt \in Dts, UpdateSelectError(dt) PROVE ControlInv'
  BY <1>6 DEF UpdateSelectError, SelectError, SelectOK, UpdateEnabled, OnError, CloseTo,
              NoKernelSocket, api
<1>7. ASSUME NEW dt \in Dts, UpdateFirstFrame(dt) PROVE ControlInv'
  BY <1>7 DEF UpdateFirstFrame, SelectOK, UpdateEnabled, SelectFlags, kernel, api
<1>8. ASSUME NEW dt \in Dts, UpdateOnSuccess(dt) PROVE ControlInv'
  BY <1>8 DEF UpdateOnSuccess, SelectOK, UpdateEnabled, Writable, SelectFlags, kernel, api
<1>9. ASSUME NEW dt \in Dts, UpdateWaiting(dt) PROVE ControlInv'
  BY <1>9 DEF UpdateWaiting, SelectOK, UpdateEnabled, SelectFlags, OnTimeOut, CloseTo,
              NoKernelSocket, kernel, api
<1>10. ASSUME NEW dt \in Dts, UpdateConnected(dt) PROVE ControlInv'
  BY <1>10 DEF UpdateConnected, SelectOK, UpdateEnabled, SelectFlags, kernel, api
<1>11. CASE NullDereference \/ SendLoopDone \/ RecvLoopDone
  BY <1>11 DEF NullDereference, SendLoopDone, RecvLoopDone, api, link, kernel
<1>12. CASE CheckState("sendsel", "send")
  BY <1>12 DEF CheckState, SelectError, SelectOK, SelectFlags, OnError, CloseTo,
               NoKernelSocket, kernel, api
<1>13. CASE CheckState("recvsel", "recv")
  BY <1>13 DEF CheckState, SelectError, SelectOK, SelectFlags, OnError, CloseTo,
               NoKernelSocket, kernel, api
<1>14. CASE SendError \/ RecvError
  BY <1>14 DEF SendError, RecvError, OnError, CloseTo, NoKernelSocket, api
<1>15. ASSUME NEW n \in 1 .. Units, SendSome(n) PROVE ControlInv'
  BY <1>15 DEF SendSome, Sending, api
<1>16. ASSUME NEW n \in 1 .. Units, RecvSome(n) PROVE ControlInv'
  BY <1>16 DEF RecvSome, api
<1>17. CASE Handshake \/ PeerUrgent
  BY <1>17 DEF Handshake, PeerUrgent, PeerActs, api
<1>18. CASE PeerSend \/ PeerRead \/ PeerClose \/ PeerReset
  BY <1>18 DEF PeerSend, PeerRead, PeerClose, PeerReset, PeerActs, api
<1>19. CASE UNCHANGED vars
  BY <1>19 DEF vars
<1>20. QED
  BY <1>1, <1>2, <1>3, <1>4, <1>5, <1>6, <1>7, <1>8, <1>9, <1>10, <1>11, <1>12, <1>13,
     <1>14, <1>15, <1>16, <1>17, <1>18, <1>19 DEF Next, Update, Loops, Environment

-----------------------------------------------------------------------------
(* The counters *)

\* Descriptors, timer and stream offsets stay what they stand for.
LEMMA CountStep == StatesOK /\ PortInv /\ CountInv /\ [Next]_vars => CountInv'
<1> SUFFICES ASSUME StatesOK, PortInv, CountInv, [Next]_vars PROVE CountInv'
  OBVIOUS
<1> USE DEF CountInv, NumbersOK, TimerInv, FdsAccounted, NoEarlyTimeout
<1>1. ASSUME NEW p \in Ports \cup {-1}, Connect(p) PROVE CountInv'
  <2>1. PICK open \in Int : DoConnect(p, open) /\ open = lost
    <3>1. CASE port = -1
      BY <1>1, <3>1 DEF Connect, PortInv
    <3>2. CASE port # -1
      BY <1>1, <3>2 DEF Connect, FdsAfterClose, StatesOK
    <3>3. QED
      BY <3>1, <3>2
  <2>2. QED
    BY <2>1 DEF DoConnect, ConnectFails, ConnectPending, NoKernelSocket, StartTimer, clock, offs
<1>2. CASE ReConnect
  BY <1>2 DEF ReConnect, DoConnect, ConnectFails, ConnectPending, NoKernelSocket, StartTimer,
              FdsAfterClose, StatesOK, clock, offs
<1>3. CASE CloseConnection
  BY <1>3 DEF CloseConnection, Close, CloseTo, NoKernelSocket, FdsAfterClose, StatesOK,
              api, clock, offs
<1>4. CASE Restart
  BY <1>4 DEF Restart, CloseTo, NoKernelSocket, FdsAfterClose, StatesOK, offs
<1>5. CASE SendMsg \/ LoadMsg
  BY <1>5 DEF SendMsg, LoadMsg, api, link, kernel, clock, offs
<1>6. ASSUME NEW dt \in Dts, UpdateSelectError(dt) PROVE CountInv'
  BY <1>6 DEF UpdateSelectError, SelectError, SelectOK, OnError, CloseTo, NoKernelSocket,
              FdsAfterClose, StatesOK, api, clock, offs
<1>7. ASSUME NEW dt \in Dts, UpdateFirstFrame(dt) PROVE CountInv'
  BY <1>7 DEF UpdateFirstFrame, SelectOK, kernel, api, offs
<1>8. ASSUME NEW dt \in Dts, UpdateOnSuccess(dt) PROVE CountInv'
  BY <1>8 DEF UpdateOnSuccess, SelectOK, kernel, api, offs
<1>9. ASSUME NEW dt \in Dts, UpdateWaiting(dt) PROVE CountInv'
  BY <1>9 DEF UpdateWaiting, SelectOK, OnTimeOut, CloseTo, NoKernelSocket, FdsAfterClose,
              StatesOK, kernel, api, offs
<1>10. ASSUME NEW dt \in Dts, UpdateConnected(dt) PROVE CountInv'
  BY <1>10 DEF UpdateConnected, SelectOK, kernel, api, clock, offs
<1>11. CASE NullDereference \/ SendLoopDone \/ RecvLoopDone
  BY <1>11 DEF NullDereference, SendLoopDone, RecvLoopDone, api, link, kernel, clock, offs
<1>12. CASE CheckState("sendsel", "send") \/ CheckState("recvsel", "recv")
  BY <1>12 DEF CheckState, SelectError, SelectOK, OnError, CloseTo, NoKernelSocket,
               FdsAfterClose, StatesOK, kernel, api, clock, offs
<1>13. CASE SendError \/ RecvError
  BY <1>13 DEF SendError, RecvError, OnError, CloseTo, NoKernelSocket, FdsAfterClose,
               StatesOK, api, clock, offs
<1>14. ASSUME NEW n \in 1 .. Units, SendSome(n) PROVE CountInv'
  BY <1>14 DEF SendSome, Sending, Advance, api, clock
<1>15. ASSUME NEW n \in 1 .. Units, RecvSome(n) PROVE CountInv'
  BY <1>15 DEF RecvSome, Advance, api, clock
<1>16. CASE Environment
  <2>1. UNCHANGED <<netState, sock, timer, fds, lost, elapsed, txOff, rxOff>>
    BY <1>16 DEF Environment, Handshake, PeerSend, PeerRead, PeerUrgent, PeerClose, PeerReset,
                 PeerActs, api, clock, offs
  <2>2. kin' \in Nat /\ kout' \in 0 .. OutCap
    BY <1>16 DEF Environment, Handshake, PeerSend, PeerRead, PeerUrgent, PeerClose, PeerReset
  <2>3. QED
    BY <2>1, <2>2
<1>17. CASE UNCHANGED vars
  BY <1>17 DEF vars
<1>18. QED
  BY <1>1, <1>2, <1>3, <1>4, <1>5, <1>6, <1>7, <1>8, <1>9, <1>10, <1>11, <1>12, <1>13,
     <1>14, <1>15, <1>16, <1>17 DEF Next, Update, Loops
-----------------------------------------------------------------------------
(* The lists *)

(***************************************************************************)
(* What Update receives into: the back of m_recvList if that is unfinished *)
(* and otherwise a new message behind messages that are all complete.      *)
(***************************************************************************)
LEMMA ReceivingFacts ==
  ASSUME ListsOK, ListShape
  PROVE  /\ Receiving \in Seq(0 .. Units) /\ Len(Receiving) \in Nat \ {0}
         /\ \A i \in 1 .. Len(Receiving) - 1 : Receiving[i] = Units
         /\ Receiving[Len(Receiving)] \in 0 .. Units - 1
         /\ Receiving[Len(Receiving)] = IF Fragment = Units THEN 0 ELSE Fragment
<1>1. CASE recvList # <<>> /\ recvList[Len(recvList)] < Units
  BY <1>1 DEF Receiving, ListsOK, ListShape, Fragment
<1>2. CASE recvList = <<>>
  BY <1>2 DEF Receiving, ListsOK, Fragment
<1>3. CASE recvList # <<>> /\ recvList[Len(recvList)] = Units
  <2>1. Receiving = Append(recvList, 0)
    BY <1>3 DEF Receiving
  <2>2. \A i \in 1 .. Len(recvList) : recvList[i] = Units
    BY <1>3 DEF ListsOK, ListShape
  <2>3. QED
    BY <1>3, <2>1, <2>2 DEF ListsOK, Fragment
<1>4. QED
  BY <1>1, <1>2, <1>3 DEF ListsOK

\* recv() of n pieces into the last message of a list.
LEMMA LastAdvances ==
  ASSUME NEW R \in Seq(0 .. Units), Len(R) \in Nat \ {0},
         \A i \in 1 .. Len(R) - 1 : R[i] = Units,
         NEW n \in 1 .. Units, n <= Units - R[Len(R)],
         NEW Q, Q = [R EXCEPT ![Len(R)] = @ + n]
  PROVE  /\ Q \in Seq(0 .. Units) /\ Len(Q) = Len(R)
         /\ Q[Len(R)] = R[Len(R)] + n
         /\ \A i \in 1 .. Len(R) - 1 : Q[i] = Units
<1>1. R[Len(R)] + n \in 0 .. Units
  OBVIOUS
<1>2. Q \in Seq(0 .. Units) /\ Len(Q) = Len(R)
  BY <1>1
<1>3. Q[Len(R)] = R[Len(R)] + n
  OBVIOUS
<1>4. \A i \in 1 .. Len(R) - 1 : Q[i] = R[i]
  OBVIOUS
<1>5. QED
  BY <1>2, <1>3, <1>4

\* The lists are cleared by every step that begins or ends a connection on
\* purpose, and otherwise grow, shrink and advance along the byte streams.
LEMMA ListStep == StatesOK /\ NumbersOK /\ ListInv /\ [Next]_vars => ListInv'
<1> SUFFICES ASSUME StatesOK, NumbersOK, ListInv, [Next]_vars PROVE ListInv'
  OBVIOUS
<1> USE DEF ListInv
<1>1. ASSUME NEW p \in Ports \cup {-1}, Connect(p) PROVE ListInv'
  <2>1. CASE port = -1
    <3>1. UNCHANGED <<sendList, recvList>> /\ (sock' = "open" => txOff' = 0 /\ rxOff' = 0)
      BY <1>1, <2>1 DEF Connect, DoConnect, ConnectFails, ConnectPending
    <3>2. ListsOK' /\ ListShape'
      BY <3>1 DEF ListsOK, ListShape
    <3>3. port' = -1 => sock' = "null"
      BY <1>1, <2>1 DEF Connect, DoConnect, ConnectFails
    <3>4. PortInv' /\ StreamsAligned'
      BY <2>1, <3>1, <3>3 DEF PortInv, StreamsAligned, Fragment, ListsOK
    <3>5. QED
      BY <3>2, <3>4
  <2>2. CASE port # -1
    BY <1>1, <2>2 DEF Connect, DoConnect, ConnectFails, ConnectPending, ClearCached, ListsOK,
                      PortInv, ListShape, StreamsAligned, Fragment
  <2>3. QED
    BY <2>1, <2>2
<1>2. CASE ReConnect
  BY <1>2 DEF ReConnect, DoConnect, ConnectFails, ConnectPending, ClearCached, ListsOK,
              PortInv, ListShape, StreamsAligned, Fragment
<1>3. CASE CloseConnection \/ Restart
  <2>1. sock' = "null" /\ sendList' = <<>> /\ recvList' = <<>>
    BY <1>3 DEF CloseConnection, Restart, Close, CloseTo, ClearCached
  <2>2. QED
    BY <2>1 DEF ListsOK, PortInv, ListShape, StreamsAligned
<1>4. CASE SendMsg
  <2>1. /\ sendList' = Append(sendList, Units)
        /\ UNCHANGED <<port, sock, recvList, txOff, rxOff>>
    BY <1>4 DEF SendMsg, api, link, offs
  <2>2. ListsOK' /\ ListShape'
    BY <2>1 DEF ListsOK, ListShape
  <2>3. sendList' # <<>> /\ Head(sendList') = IF sendList = <<>> THEN Units ELSE Head(sendList)
    BY <2>1 DEF ListsOK
  <2>4. PortInv' /\ StreamsAligned'
    <3> HIDE <2>1 DEF ListInv
    <3>1. UNCHANGED <<port, sock, recvList, txOff, rxOff>>
      BY <2>1
    <3>2. PortInv /\ StreamsAligned
      BY DEF ListInv
    <3>3. QED
      BY <2>3, <3>1, <3>2 DEF PortInv, StreamsAligned, Fragment
  <2>5. QED
    BY <2>2, <2>4
<1>5. CASE LoadMsg
  <2>1. /\ recvList # <<>> /\ recvList[1] = Units /\ recvList' = Tail(recvList)
        /\ UNCHANGED <<port, sock, sendList, txOff, rxOff>>
    BY <1>5 DEF LoadMsg, HasPendingMsg, api, link, offs, ListsOK
  <2>2. /\ recvList' \in Seq(0 .. Units) /\ Len(recvList') = Len(recvList) - 1
        /\ \A i \in 1 .. Len(recvList') : recvList'[i] = recvList[i + 1]
    BY <2>1 DEF ListsOK
  <2>3. ListsOK' /\ ListShape' /\ PortInv'
    BY <2>1, <2>2 DEF ListsOK, ListShape, PortInv
  <2>4. (IF Fragment' = Units THEN 0 ELSE Fragment') = IF Fragment = Units THEN 0 ELSE Fragment
    <3>1. CASE recvList' = <<>>
      <4>1. Len(recvList) = 1
        <5>1. Len(recvList') = 0
          BY <3>1
        <5>2. Len(recvList') = Len(recvList) - 1
          BY <2>2
        <5>3. Len(recvList) \in Nat
          BY DEF ListsOK
        <5>4. QED
          BY <5>1, <5>2, <5>3
      <4>2. QED
        BY <2>1, <3>1, <4>1 DEF Fragment
    <3>2. CASE recvList' # <<>>
      <4>1. recvList'[Len(recvList')] = recvList[Len(recvList)]
        BY <2>1, <2>2, <3>2 DEF ListsOK
      <4>2. QED
        BY <2>1, <3>2, <4>1 DEF Fragment
    <3>3. QED
      BY <3>1, <3>2
  <2>5. StreamsAligned'
    BY <2>1, <2>4 DEF StreamsAligned
  <2>6. QED
    BY <2>3, <2>5
<1>6. ASSUME NEW dt \in Dts, Update(dt) PROVE ListInv'
  <2>1. UNCHANGED <<port, sendList, recvList, txOff, rxOff>> /\ sock' \in {sock, "null"}
    BY <1>6 DEF Update, UpdateSelectError, SelectError, SelectOK, UpdateFirstFrame,
                UpdateOnSuccess, UpdateWaiting, UpdateConnected, OnError, OnTimeOut,
                CloseTo, api, offs
  <2>2. ListsOK' /\ ListShape'
    BY <2>1 DEF ListsOK, ListShape
  <2>3. PortInv'
    BY <2>1 DEF PortInv
  <2>4. StreamsAligned'
    BY <2>1 DEF StreamsAligned, Fragment
  <2>5. QED
    BY <2>2, <2>3, <2>4
<1>7. CASE NullDereference \/ SendLoopDone \/ RecvLoopDone
  <2>1. UNCHANGED <<port, sock, sendList, recvList, txOff, rxOff>>
    BY <1>7 DEF NullDereference, SendLoopDone, RecvLoopDone, api, link, offs
  <2>2. ListsOK' /\ ListShape'
    BY <2>1 DEF ListsOK, ListShape
  <2>3. PortInv'
    BY <2>1 DEF PortInv
  <2>4. StreamsAligned'
    BY <2>1 DEF StreamsAligned, Fragment
  <2>5. QED
    BY <2>2, <2>3, <2>4
<1>8. CASE CheckState("sendsel", "send") \/ CheckState("recvsel", "recv") \/ SendError
  <2>1. UNCHANGED <<port, sendList, recvList, txOff, rxOff>> /\ sock' \in {sock, "null"}
    BY <1>8 DEF CheckState, SelectError, SelectOK, SendError, OnError, CloseTo, api, offs
  <2>2. ListsOK' /\ ListShape'
    BY <2>1 DEF ListsOK, ListShape
  <2>3. PortInv'
    BY <2>1 DEF PortInv
  <2>4. StreamsAligned'
    BY <2>1 DEF StreamsAligned, Fragment
  <2>5. QED
    BY <2>2, <2>3, <2>4
<1>9. CASE RecvError
  <2>1. recvList' = Receiving /\ sock = "open" /\ sock' = "null" /\ UNCHANGED <<port, sendList>>
    BY <1>9 DEF RecvError, OnError, CloseTo, api
  <2>2. ListsOK' /\ ListShape'
    BY <2>1, ReceivingFacts DEF ListsOK, ListShape
  <2>3. PortInv' /\ StreamsAligned'
    BY <2>1 DEF PortInv, StreamsAligned
  <2>4. QED
    BY <2>2, <2>3
<1>10. ASSUME NEW n \in 1 .. Units, SendSome(n) PROVE ListInv'
  <2>1. /\ sock = "open" /\ UNCHANGED <<port, sock, recvList, rxOff>>
        /\ sendList # <<>> /\ n <= sendList[1] /\ txOff' = Advance(txOff, n)
    BY <1>10 DEF SendSome, Sending, api, ListsOK
  <2>2. txOff = Units - sendList[1] /\ sendList[1] \in 1 .. Units
    BY <2>1 DEF StreamsAligned, ListsOK
  <2>3. PortInv'
    BY <2>1 DEF PortInv
  <2>4. CASE n = sendList[1]
    <3>1. sendList' = Tail(sendList)
      BY <1>10, <2>4 DEF SendSome, ListsOK
    <3>2. /\ sendList' \in Seq(1 .. Units) /\ Len(sendList') = Len(sendList) - 1
          /\ \A i \in 1 .. Len(sendList') : sendList'[i] = sendList[i + 1]
      BY <2>1, <3>1 DEF ListsOK
    <3>3. ListsOK' /\ ListShape'
      <4>1. ListsOK'
        BY <2>1, <3>2 DEF ListsOK
      <4>2. Len(sendList) \in Nat /\ \A i \in 2 .. Len(sendList) : sendList[i] = Units
        BY DEF ListsOK, ListShape
      <4>3. \A i \in 1 .. Len(sendList') : sendList'[i] = Units
        BY <3>2, <4>2
      <4>4. ListShape'
        BY <2>1, <4>3 DEF ListShape
      <4>5. QED
        BY <4>1, <4>4
    <3>4. txOff' = 0
      BY <2>1, <2>2, <2>4 DEF Advance
    <3>5. sendList' = <<>> \/ Head(sendList') = Units
      BY <3>2 DEF ListShape, ListsOK
    <3>6. StreamsAligned'
      BY <2>1, <3>4, <3>5 DEF StreamsAligned, Fragment
    <3>7. QED
      BY <2>3, <3>3, <3>6
  <2>5. CASE n < sendList[1]
    <3>1. sendList' = [sendList EXCEPT ![1] = @ - n]
      BY <1>10, <2>5 DEF SendSome, ListsOK
    <3>2. /\ sendList' \in Seq(1 .. Units) /\ Len(sendList') = Len(sendList)
          /\ sendList'[1] = sendList[1] - n
          /\ \A i \in 2 .. Len(sendList') : sendList'[i] = sendList[i]
      BY <2>1, <2>2, <2>5, <3>1 DEF ListsOK
    <3>3. ListsOK' /\ ListShape'
      BY <2>1, <3>2 DEF ListsOK, ListShape
    <3>4. txOff' = Units - sendList'[1]
      BY <2>1, <2>2, <2>5, <3>2 DEF Advance
    <3>5. StreamsAligned'
      BY <2>1, <3>2, <3>4 DEF StreamsAligned, Fragment, ListsOK
    <3>6. QED
      BY <2>3, <3>3, <3>5
  <2>6. QED
    BY <2>1, <2>2, <2>4, <2>5
<1>11. ASSUME NEW n \in 1 .. Units, RecvSome(n) PROVE ListInv'
  <2> DEFINE last == Len(Receiving)
  <2>1. /\ sock = "open" /\ UNCHANGED <<port, sock, sendList, txOff>>
        /\ n <= Units - Receiving[last] /\ rxOff' = Advance(rxOff, n)
        /\ recvList' = [Receiving EXCEPT ![last] = @ + n]
    BY <1>11 DEF RecvSome, api
  <2>2. rxOff = Receiving[last] /\ Receiving[last] \in 0 .. Units - 1
    BY <2>1, ReceivingFacts DEF StreamsAligned
  <2>3. /\ recvList' \in Seq(0 .. Units) /\ Len(recvList') = last /\ last \in Nat \ {0}
        /\ recvList'[last] = Receiving[last] + n
        /\ \A i \in 1 .. last - 1 : recvList'[i] = Units
    <3>1. /\ Receiving \in Seq(0 .. Units) /\ last \in Nat \ {0}
          /\ \A i \in 1 .. last - 1 : Receiving[i] = Units
      BY ReceivingFacts
    <3>2. QED
      BY <2>1, <3>1, LastAdvances
  <2>4. ListsOK' /\ ListShape'
    BY <2>1, <2>3 DEF ListsOK, ListShape
  <2>5. PortInv'
    BY <2>1 DEF PortInv
  <2>6. Advance(rxOff, n) = IF rxOff + n = Units THEN 0 ELSE rxOff + n
    BY <2>1, <2>2 DEF Advance
  <2>7. StreamsAligned'
    <3>1. recvList' # <<>> /\ Fragment' = rxOff + n
      BY <2>2, <2>3 DEF Fragment
    <3>2. QED
      BY <2>1, <2>6, <3>1 DEF StreamsAligned
  <2>8. QED
    BY <2>4, <2>5, <2>7
<1>12. CASE Environment
  BY <1>12 DEF Environment, Handshake, PeerSend, PeerRead, PeerUrgent, PeerClose, PeerReset,
               PeerActs, api, offs, ListsOK, PortInv, ListShape, StreamsAligned, Fragment
<1>13. CASE UNCHANGED vars
  BY <1>13 DEF vars, ListsOK, PortInv, ListShape, StreamsAligned, Fragment
<1>14. QED
  BY <1>1, <1>2, <1>3, <1>4, <1>5, <1>6, <1>7, <1>8, <1>9, <1>10, <1>11, <1>12, <1>13
     DEF Next, Loops

-----------------------------------------------------------------------------
(* The theorems *)

\* IInv holds in every reachable state.
THEOREM Invariance == Spec => []IInv
<1>1. IInv /\ [Next]_vars => IInv'
  BY ControlStep, CountStep, ListStep DEF IInv, ControlInv, CountInv, ListInv
<1>2. QED
  BY InitIInv, <1>1, PTL DEF Spec

\* Every variable keeps its type; in particular no message is ever over-sent.
THEOREM TypeCorrectness == Spec => []TypeOK
<1>1. IInv => TypeOK
  BY DEF IInv, ControlInv, CountInv, ListInv, TypeOK
<1>2. QED
  BY Invariance, <1>1, PTL

(***************************************************************************)
(* Close, OnError, OnTimeOut, DoConnect and Update keep m_pSocket and      *)
(* m_netState in step, in the middle of Update too.                        *)
(***************************************************************************)
THEOREM SocketAndState == Spec => []SocketMatchesState
<1>1. IInv => SocketMatchesState
  BY DEF IInv, ControlInv
<1>2. QED
  BY Invariance, <1>1, PTL

(***************************************************************************)
(* No fragment of a frame crosses from one connection to the next, however *)
(* errors, time-outs, reconnects and restarts follow each other.           *)
(***************************************************************************)
THEOREM Alignment == Spec => []StreamsAligned
<1>1. IInv => StreamsAligned
  BY DEF IInv, ListInv
<1>2. QED
  BY Invariance, <1>1, PTL

\* Complete messages in front, at most one fragment, at the right end.
THEOREM Shape == Spec => []ListShape
<1>1. IInv => ListShape
  BY DEF IInv, ListInv
<1>2. QED
  BY Invariance, <1>1, PTL

\* Descriptors are lost only by DoConnect's loop over the addresses.
THEOREM Descriptors == Spec => []FdsAccounted
<1>1. IInv => FdsAccounted
  BY DEF IInv, CountInv
<1>2. QED
  BY Invariance, <1>1, PTL

(***************************************************************************)
(* Update dereferences a null m_pSocket only on a connection on which the  *)
(* peer sent out-of-band data or a select() returned -1: whatever else     *)
(* goes wrong between two system calls is survived.                        *)
(***************************************************************************)
THEOREM NullSafety == Spec => []NullOnlyAfterSelectError
<1>1. IInv => NullOnlyAfterSelectError
  BY DEF IInv, ControlInv, PcInv, NullOnlyAfterSelectError
<1>2. QED
  BY Invariance, <1>1, PTL

\* A time-out takes CONNECT_TIMEOUT of frame time since the attempt began.
THEOREM TimeoutIsDue == Spec => []NoEarlyTimeout
<1>1. IInv => NoEarlyTimeout
  BY DEF IInv, CountInv
<1>2. QED
  BY Invariance, <1>1, PTL

-----------------------------------------------------------------------------
(* The refinement *)

\* Everything in front of the message Update receives into is complete.
LEMMA PendingIsReceived ==
  ASSUME ListsOK
  PROVE  Pending = Len(Receiving) - 1 /\ Pending \in Nat
<1>1. CASE recvList # <<>> /\ recvList[Len(recvList)] < Units
  BY <1>1 DEF Pending, Receiving, ListsOK
<1>2. CASE ~(recvList # <<>> /\ recvList[Len(recvList)] < Units)
  <2>1. Receiving = Append(recvList, 0) /\ Pending = Len(recvList) - 0
    BY <1>2 DEF Pending, Receiving
  <2>2. QED
    BY <2>1 DEF ListsOK
<1>3. QED
  BY <1>1, <1>2

\* A step that changes none of these is a stuttering step of the session.
LEMMA Stutter ==
  ASSUME UNCHANGED <<netState, port, sendList, recvList>>
  PROVE  UNCHANGED <<LinkState, Server, Len(sendList), Pending>>
  BY DEF LinkState, Server, Pending

\* An error or a time-out of a live connection is the session's Break.
LEMMA Breaks ==
  ASSUME netState \in {"Connecting", "Connected"},
         netState' \in {"ConnectError", "ConnectTimeOut"},
         UNCHANGED <<port, sendList>>, Pending' = Pending
  PROVE  Promise!Break
  BY DEF Promise!Break, LinkState, Server

\* Every step of the manager is a step of the session or stutters.
LEMMA SessionStep ==
  IInv /\ [Next]_vars => [Promise!Next]_<<LinkState, Server, Len(sendList), Pending>>
<1> SUFFICES ASSUME IInv, [Next]_vars
             PROVE  Promise!Next \/ UNCHANGED <<LinkState, Server, Len(sendList), Pending>>
  OBVIOUS
<1> DEFINE Done == Promise!Next \/ UNCHANGED <<LinkState, Server, Len(sendList), Pending>>
<1> USE DEF IInv, ControlInv, CountInv, ListInv
<1>1. ASSUME NEW p \in Ports \cup {-1}, Connect(p) PROVE Promise!Open
  <2>1. netState' \in {"ConnectError", "Connecting"} /\ recvList' = <<>>
    BY <1>1 DEF Connect, DoConnect, ConnectFails, ConnectPending, ClearCached, PortInv
  <2>2. LinkState' \in {"opening", "down"} /\ Pending' = 0 /\ Server' \in {"none", "named"}
    BY <2>1 DEF LinkState, Pending, Server
  <2>3. Len(sendList') = IF Server = "named" THEN 0 ELSE Len(sendList)
    BY <1>1 DEF Connect, ClearCached, Server
  <2>4. QED
    BY <2>2, <2>3 DEF Promise!Open
<1>2. CASE ReConnect
  <2>1. /\ netState' \in {"ConnectError", "Connecting"}
        /\ recvList' = <<>> /\ sendList' = <<>> /\ port # -1
    BY <1>2 DEF ReConnect, DoConnect, ConnectFails, ConnectPending, ClearCached
  <2>2. QED
    BY <2>1 DEF Promise!Next, Promise!Open, LinkState, Pending, Server
<1>3. CASE CloseConnection \/ Restart
  <2>1. /\ netState' \notin {"Connecting", "Connected"} /\ port' \in {port, -1}
        /\ recvList' = <<>> /\ sendList' = <<>>
    BY <1>3 DEF CloseConnection, Restart, Close, CloseTo, ClearCached, api, StatesOK,
                SocketMatchesState
  <2>2. QED
    BY <2>1 DEF Promise!Next, Promise!Shut, LinkState, Pending, Server
<1>4. CASE SendMsg
  <2>1. Len(sendList') = Len(sendList) + 1 /\ UNCHANGED <<netState, port, recvList>>
    BY <1>4 DEF SendMsg, api, link, ListsOK
  <2>2. QED
    BY <2>1 DEF Promise!Next, Promise!Enqueue, LinkState, Pending, Server
<1>5. CASE LoadMsg
  <2>1. /\ recvList # <<>> /\ recvList[1] = Units /\ recvList' = Tail(recvList)
        /\ UNCHANGED <<netState, port, sendList>>
    BY <1>5 DEF LoadMsg, HasPendingMsg, api, link, ListsOK
  <2>2. /\ Len(recvList) \in Nat /\ Len(recvList) >= 1 /\ Len(recvList') = Len(recvList) - 1
        /\ recvList' # <<>> => recvList'[Len(recvList')] = recvList[Len(recvList)]
    BY <2>1 DEF ListsOK
  <2>3. Pending' = Pending - 1 /\ Pending > 0
    <3>1. CASE recvList' = <<>>
      <4>1. Len(recvList) = 1
        BY <2>2, <3>1
      <4>2. QED
        BY <2>1, <2>2, <3>1, <4>1 DEF Pending
    <3>2. CASE recvList' # <<>>
      <4>1. Len(recvList) >= 2
        BY <2>1, <2>2, <3>2 DEF ListsOK
      <4>2. QED
        BY <2>1, <2>2, <3>2, <4>1 DEF Pending
    <3>3. QED
      BY <3>1, <3>2
  <2>4. QED
    BY <2>1, <2>3 DEF Promise!Next, Promise!Load, LinkState, Server
<1>6. ASSUME NEW dt \in Dts, Update(dt) PROVE Done
  <2>1. UNCHANGED <<port, sendList, recvList>>
    BY <1>6 DEF Update, UpdateSelectError, SelectError, SelectOK, UpdateFirstFrame,
                UpdateOnSuccess, UpdateWaiting, UpdateConnected, api
  <2>2. Pending' = Pending
    BY <2>1 DEF Pending
  <2>3. \/ netState' = netState
        \/ netState = "Connecting" /\ netState' = "Connected"
        \/ /\ netState \in {"Connecting", "Connected"}
           /\ netState' \in {"ConnectError", "ConnectTimeOut"}
    BY <1>6 DEF Update, UpdateSelectError, SelectError, SelectOK, UpdateFirstFrame,
                UpdateOnSuccess, UpdateWaiting, UpdateConnected, UpdateEnabled, OnError,
                OnTimeOut, CloseTo
  <2>4. CASE netState = "Connecting" /\ netState' = "Connected"
    BY <2>1, <2>2, <2>4 DEF Promise!Next, Promise!Establish, LinkState, Server
  <2>5. QED
    BY <2>1, <2>2, <2>3, <2>4, Stutter, Breaks DEF Promise!Next
<1>7. CASE NullDereference \/ SendLoopDone \/ RecvLoopDone
  BY <1>7, Stutter DEF NullDereference, SendLoopDone, RecvLoopDone, api, link
<1>8. CASE CheckState("sendsel", "send") \/ CheckState("recvsel", "recv") \/ SendError
  <2>1. /\ UNCHANGED <<port, sendList, recvList>> /\ netState = "Connected"
        /\ netState' \in {netState, "ConnectError"}
    BY <1>8 DEF CheckState, SelectError, SelectOK, SendError, Sending, OnError, CloseTo,
                PcInv, api
  <2>2. Pending' = Pending
    BY <2>1 DEF Pending
  <2>3. QED
    BY <2>1, <2>2, Stutter, Breaks DEF Promise!Next
<1>9. CASE RecvError
  <2>1. /\ UNCHANGED <<port, sendList>> /\ recvList' = Receiving
        /\ netState = "Connected" /\ netState' = "ConnectError"
    BY <1>9 DEF RecvError, OnError, CloseTo, PcInv, api
  <2>2. Pending' = Pending
    <3>1. Receiving # <<>> /\ Receiving[Len(Receiving)] < Units
      BY ReceivingFacts
    <3>2. Pending' = Len(Receiving) - 1
      BY <2>1, <3>1 DEF Pending
    <3>3. QED
      BY <3>2, PendingIsReceived
  <2>3. QED
    BY <2>1, <2>2, Breaks DEF Promise!Next
<1>10. ASSUME NEW n \in 1 .. Units, SendSome(n) PROVE Done
  <2>1. /\ sendList # <<>> /\ netState = "Connected" /\ UNCHANGED <<netState, port, recvList>>
        /\ sendList' \in {Tail(sendList), [sendList EXCEPT ![1] = @ - n]}
    BY <1>10 DEF SendSome, Sending, PcInv, api
  <2>2. Len(sendList) \in Nat /\ Len(sendList) > 0
    BY <2>1 DEF ListsOK
  <2>3. CASE sendList' = Tail(sendList)
    <3>1. Len(sendList') = Len(sendList) - 1
      BY <2>1, <2>3 DEF ListsOK
    <3>2. QED
      BY <2>1, <2>2, <3>1 DEF Promise!Next, Promise!Transmit, LinkState, Server, Pending
  <2>4. CASE sendList' = [sendList EXCEPT ![1] = @ - n]
    <3>1. Len(sendList') = Len(sendList)
      BY <2>1, <2>4 DEF ListsOK
    <3>2. QED
      BY <2>1, <3>1 DEF LinkState, Server, Pending
  <2>5. QED
    BY <2>1, <2>3, <2>4
<1>11. ASSUME NEW n \in 1 .. Units, RecvSome(n) PROVE Done
  <2> DEFINE last == Len(Receiving)
  <2>1. /\ netState = "Connected" /\ UNCHANGED <<netState, port, sendList>>
        /\ n <= Units - Receiving[last]
        /\ recvList' = [Receiving EXCEPT ![last] = @ + n]
    BY <1>11 DEF RecvSome, PcInv, api
  <2>2. /\ Receiving \in Seq(0 .. Units) /\ last \in Nat \ {0}
        /\ \A i \in 1 .. last - 1 : Receiving[i] = Units
    BY ReceivingFacts
  <2>3. Len(recvList') = last /\ recvList' # <<>>
    BY <2>1, <2>2, LastAdvances
  <2>4. Pending = last - 1 /\ Pending' = last - (IF recvList'[last] < Units THEN 1 ELSE 0)
    BY <2>3, PendingIsReceived DEF Pending
  <2>5. Pending' \in {Pending, Pending + 1}
    BY <2>2, <2>4
  <2>6. QED
    BY <2>1, <2>5 DEF Promise!Next, Promise!Deliver, LinkState, Server
<1>12. CASE Environment
  BY <1>12, Stutter DEF Environment, Handshake, PeerSend, PeerRead, PeerUrgent, PeerClose,
                        PeerReset, PeerActs, api
<1>13. CASE UNCHANGED vars
  BY <1>13, Stutter DEF vars
<1>14. QED
  BY <1>1, <1>2, <1>3, <1>4, <1>5, <1>6, <1>7, <1>8, <1>9, <1>10, <1>11, <1>12, <1>13
     DEF Next, Loops, Promise!Next

(***************************************************************************)
(* The connection manager implements the session: whatever the kernel and  *)
(* the peer do, messages move whole, only while the link is up, and none   *)
(* that has arrived or waits to leave is lost by an error or a time-out.   *)
(***************************************************************************)
THEOREM Refinement == Spec => SessionSpec
<1>1. Init => Promise!Init
  BY DEF Init, Promise!Init, LinkState, Server, Pending
<1>2. QED
  BY <1>1, SessionStep, Invariance, PTL DEF Spec, SessionSpec, Promise!Spec
=============================================================================
