------------------------------- MODULE Framing -------------------------------
(***************************************************************************)
(* One direction of a connection between two programs built from this      *)
(* repository.  The sending script writes a message (CLuaMsg), SendMsg     *)
(* queues it, Update cuts it into send() calls; TCP carries the bytes in   *)
(* order; the receiving Update rebuilds NetMessages from whatever recv()   *)
(* returns and the other script loads them.  Bytes are explicit here.      *)
(***************************************************************************)
EXTENDS NetMessage, SequencesExt

CONSTANTS
  Payload,           \* byte sequences the script may write
  MaxMsgs,           \* bound: messages sent in one behaviour
  SockBuf,           \* bytes the kernel holds between send() and recv()
  ShortHeaderReads   \* TRUE: recv() may return part of a frame header

\* A script that writes what the heap has no room for never returns from WriteRaw.
ASSUME PayloadAssumption ==
  /\ Payload \subseteq Seq(Byte)
  /\ \A p \in Payload : checkBufSize(DefaultSize, Len(p) + 6) # 0
ASSUME SockBufAssumption == SockBuf \in Nat \ {0}
ASSUME MaxMsgsAssumption == MaxMsgs \in Nat
ASSUME ShortHeaderReadsAssumption == ShortHeaderReads \in BOOLEAN

VARIABLES
  sendList,   \* m_sendList of the sender:   NetMessages with their contents
  wire,       \* bytes in flight
  recvList,   \* m_recvList of the receiver
  up,         \* FALSE once either end called OnError and closed the socket
  sent,       \* payloads passed to SendMsg, in order
  loaded      \* payloads read after LoadMsg, in order

vars == <<sendList, wire, recvList, up, sent, loaded>>

Init ==
  /\ sendList = <<>> /\ wire = <<>> /\ recvList = <<>>
  /\ up = TRUE
  /\ sent = <<>> /\ loaded = <<>>

-----------------------------------------------------------------------------
(* Sender *)

\* The reserved bytes are whatever the pool buffer held before.
Stale == [i \in 1 .. Reserved |-> 0]

\* CreateNewMessage, BeginForWrite, WriteRaw(p), EndForWrite of a CLuaMsg.
Written(p) ==
  LET m == endForWrite(wRaw(beginForWrite(NewMessage(DefaultSize)), Len(p)))
  IN [m |-> m, buf |-> memcpy(Stale \o p, m.start, HeaderBytes(m.size))]

SendMsg(p) ==
  LET w == Written(p)
  IN /\ Len(sent) < MaxMsgs
     /\ sendList' = Append(sendList, [w EXCEPT !.m = ResetForSend(w.m)])
     /\ sent' = Append(sent, p)
     /\ UNCHANGED <<wire, recvList, up, loaded>>

\* One send() of the loop over the front message, accepted for n bytes.
Send(n) ==
  LET f == Head(sendList)
      m == onSend(f.m, n)
  IN /\ up /\ sendList # <<>>
     /\ n <= getSendCap(f.m) /\ Len(wire) + n <= SockBuf
     /\ wire' = wire \o SubSeq(f.buf, f.m.cur + 1, f.m.cur + n)
     /\ sendList' = IF isEnd(m) THEN Tail(sendList)
                    ELSE [sendList EXCEPT ![1].m = m]
     /\ UNCHANGED <<recvList, up, sent, loaded>>

(***************************************************************************)
(* The loop does not wait for the socket to become writable again inside a *)
(* message: send() on a full buffer returns -1 and OnError closes.         *)
(***************************************************************************)
SendBlocked ==
  /\ up /\ sendList # <<>> /\ Len(wire) = SockBuf
  /\ Head(sendList).m.cur > Head(sendList).m.start
  /\ up' = FALSE
  /\ UNCHANGED <<sendList, wire, recvList, sent, loaded>>

-----------------------------------------------------------------------------
(* Receiver *)

\* m_recvList with an incomplete message at the back to receive into.
Receiving ==
  IF recvList # <<>> /\ ~isEnd(Last(recvList).m) THEN recvList
  ELSE Append(recvList, [m |-> NewMessage(DefaultSize), buf |-> <<>>])

\* One turn of the receive loop, recv() returning n bytes.
Recv(n) ==
  LET b == Last(Receiving)
      buf == memcpy(b.buf, b.m.cur, SubSeq(wire, 1, n))
  IN /\ up
     /\ n <= Len(wire) /\ n <= getReadCap(b.m)
     /\ b.m.size < 0 /\ ~ShortHeaderReads => n = getReadCap(b.m)
     /\ wire' = SubSeq(wire, n + 1, Len(wire))
     /\ recvList' = Front(Receiving) \o <<[m |-> onReceive(b.m, n, buf), buf |-> buf]>>
     /\ UNCHANGED <<sendList, up, sent, loaded>>

\* The script's if HasPendingMsg() then LoadMsg(); ReadRaw(GetSize()) end.
LoadMsg ==
  /\ recvList # <<>> /\ isEnd(Head(recvList).m)
  /\ LET f == [Head(recvList) EXCEPT !.m = ResetForRead(@)]
     IN loaded' = Append(loaded, SubSeq(f.buf, f.m.cur + 1, f.m.cur + f.m.size))
  /\ recvList' = Tail(recvList)
  /\ UNCHANGED <<sendList, wire, up, sent>>

\* The connection breaks: OnError at either end (EOF, reset, select error).
LinkError ==
  /\ up /\ up' = FALSE
  /\ UNCHANGED <<sendList, wire, recvList, sent, loaded>>

-----------------------------------------------------------------------------

SendSome == \E n \in 1 .. SockBuf : Send(n)
RecvSome == \E n \in 1 .. SockBuf : Recv(n)

Next ==
  \/ \E p \in Payload : SendMsg(p)
  \/ SendSome \/ SendBlocked
  \/ RecvSome \/ LoadMsg
  \/ LinkError

Spec == Init /\ [][Next]_vars

(***************************************************************************)
(* Both scripts call updateNetMsg in every frame of their game loop and    *)
(* load whatever is pending.                                               *)
(***************************************************************************)
FairSpec == Spec /\ WF_vars(SendSome) /\ WF_vars(RecvSome) /\ WF_vars(LoadMsg)

-----------------------------------------------------------------------------

(***************************************************************************)
(* Framing, sending in pieces, receiving in pieces and the choice of the   *)
(* header format together implement the message channel: whatever send()   *)
(* and recv() return, scripts load exactly what was sent, in order.        *)
(***************************************************************************)
Channel == INSTANCE MsgChannel
ChannelSpec == Channel!Spec

(***************************************************************************)
(* No byte is written or read outside a buffer, at either end: cursors and *)
(* frames stay inside what checkBufSize made room for.                     *)
(***************************************************************************)
CursorsInBuffer ==
  \A q \in {sendList, recvList} : \A i \in DOMAIN q :
    LET m == q[i].m
    IN m.cur <= m.cap /\ (m.size >= 0 => m.start + m.head + m.size <= m.cap)

(***************************************************************************)
(* A message that was queued is loaded by the other script in the end,     *)
(* unless the connection breaks: the receive loop never waits for bytes    *)
(* beyond the end of a frame and the send loop never stops inside one.     *)
(***************************************************************************)
EventuallyLoaded ==
  \A i \in 1 .. MaxMsgs : (Len(sent) >= i) ~> (Len(loaded) >= i \/ ~up)

(***************************************************************************)
(* The comment "need recv another 4 byte" (NetMessage.cpp, line 248): once *)
(* the 0xFFFF mark was seen, four more bytes are received before the       *)
(* length is looked at.                                                    *)
(***************************************************************************)
FourLengthBytes ==
  \A i \in DOMAIN recvList :
    recvList[i].m.size = -2 => recvList[i].m.cur + getReadCap(recvList[i].m) = 4
=============================================================================
