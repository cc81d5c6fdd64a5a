----------------------------- MODULE FrameReader -----------------------------
(***************************************************************************)
(* The receive half of CConnectionManager::Update on one connection, seen  *)
(* from the buffer: recv() hands over any non-empty part of what was asked *)
(* for, the peer may announce any length, and NetMessage must keep every   *)
(* byte inside its buffer.  Only the first four bytes of the buffer steer  *)
(* the control flow, so only they are kept (hdr); len is the length the    *)
(* peer announced, -1 before the length field is complete.                 *)
(***************************************************************************)
EXTENDS NetMessage

CONSTANT PoolSizes   \* lengths of the buffers CMessageBufPool hands out

ASSUME PoolSizesAssumption == PoolSizes \subseteq DefaultSize .. HeapMax

VARIABLES m, hdr, len, status

vars == <<m, hdr, len, status>>

\* The cursors NetMessage keeps while receiving; the header has 2 or 4 bytes.
TypeOK ==
  /\ m \in [size : Int, head : {2, 4}, cur : Nat, start : {0}, cap : Nat]
  /\ hdr \in [1 .. 4 -> Byte]
  /\ len \in Nat \cup {-1}
  /\ status \in {"ok", "hung", "overrun"}

Init ==
  /\ m \in {NewMessage(c) : c \in PoolSizes}
  /\ hdr = [i \in 1 .. 4 |-> 0]
  /\ len = -1
  /\ status = "ok"

(***************************************************************************)
(* One turn of the receive loop: recv(getReadBuf(), getReadCap()) returns  *)
(* n bytes and onReceive(n) is called.  A write past the buffer is         *)
(* undefined behaviour and ends the run (overrun), and so does a           *)
(* checkBufSize that never returns (hung).                                 *)
(***************************************************************************)
Recv(n) ==
  LET next == onReceive(m, n, hdr')
      atHead == m.cur + n = m.head
  IN /\ status = "ok" /\ ~isEnd(m)
     /\ n <= getReadCap(m)
     /\ hdr' \in IF m.size >= 0 THEN {hdr}
                 ELSE {h \in [1 .. 4 -> Byte] :
                         \A i \in 1 .. 4 : i \notin m.cur + 1 .. m.cur + n => h[i] = hdr[i]}
     /\ m' = next
     /\ len' = CASE m.size = -1 /\ atHead /\ next.size # -2 -> ShortAt0(hdr')
                 [] m.size = -2 /\ atHead -> UIntAt0(hdr')
                 [] OTHER -> len
     /\ status' = IF m.cur + n > m.cap THEN "overrun"
                  ELSE IF next.cap = 0 THEN "hung" ELSE "ok"

\* The back of m_recvList is complete: Update starts a new NetMessage.
NextMessage ==
  /\ status = "ok" /\ isEnd(m)
  /\ m' \in {NewMessage(c) : c \in PoolSizes}
  /\ hdr' = [i \in 1 .. 4 |-> 0]
  /\ len' = -1
  /\ UNCHANGED status

Next == (\E n \in 1 .. UIntMod : Recv(n)) \/ NextMessage

Spec == Init /\ [][Next]_vars

-----------------------------------------------------------------------------

\* The cursor stepped over the end of the header, so it is never parsed.
HeaderMissed == m.size < 0 /\ m.cur > m.head

(***************************************************************************)
(* recv() never writes outside the message's buffer, as long as the header *)
(* was not missed (a recv that split the header and then ran past it) and  *)
(* the announced length leaves room for the header in an int.  Behaviour   *)
(* of Update's receive loop, getReadCap, onReceive and checkBufSize.       *)
(***************************************************************************)
BufferSafe == status = "overrun" => HeaderMissed \/ len > IntMax - 4

(***************************************************************************)
(* checkBufSize spins for ever only for a length that needs more than half *)
(* of the largest allocation: the doubling never gives up too early.       *)
(***************************************************************************)
HangsOnlyOnHugeLength == status = "hung" => len + 4 > HeapMax \div 2
=============================================================================
