----------------------------- MODULE NetMessage -----------------------------
(***************************************************************************)
(* The class NetMessage of NetMessage.h/.cpp: one length-prefixed frame,   *)
(* either being received, being written by the application, or being sent. *)
(*                                                                         *)
(* A message is the record of its cursors                                  *)
(*   size   m_size          -1 unknown, -2 four length bytes follow,       *)
(*                          otherwise the number of payload bytes          *)
(*   head   m_headSize      bytes of the frame header                      *)
(*   cur    m_curPos        read/write position                            *)
(*   start  m_bufStartPos   where the frame starts in the buffer           *)
(*   cap    m_buffer->m_size, 0 once checkBufSize can never succeed        *)
(* and the buffer's contents are passed separately, as the sequence buf    *)
(* with buf[p + 1] the byte at position p.                                 *)
(*                                                                         *)
(* Widths are parameters: Base is the number of values of a byte (256 in   *)
(* the code), so 0xFFFF is ShortMark and a C int has UIntMod values.       *)
(* HeapMax is the largest realloc that succeeds.                           *)
(***************************************************************************)
EXTENDS Integers, Sequences, FiniteSetsExt

CONSTANTS Base, DefaultSize, HeapMax

Byte == 0 .. Base - 1
ShortMark == Base * Base - 1
UIntMod == Base * Base * Base * Base
IntMax == UIntMod \div 2 - 1

(***************************************************************************)
(* DefaultSize is the 512 of NetMessage(int size = 512): a pool buffer     *)
(* always has room for the six reserved header bytes.  A buffer length is  *)
(* an int, so no realloc above IntMax can be asked for.                    *)
(***************************************************************************)
ASSUME BaseAssumption == Base \in Nat /\ Base >= 2
ASSUME DefaultSizeAssumption == DefaultSize \in Nat /\ DefaultSize >= 6
ASSUME HeapMaxAssumption == HeapMax \in DefaultSize .. IntMax

\* Conversion of an unsigned or overflowed value to a C int.
ToInt(x) == IF x > IntMax THEN x - UIntMod ELSE x

-----------------------------------------------------------------------------
(* Buffer growth *)

\* Mutant: each step makes the buffer eight times as long.
enlargeEightfold(cap) == IF 8 * cap > HeapMax THEN 0 ELSE 8 * cap

\* MemBuffer::enlarge() doubles a buffer; a failed realloc sets m_size to 0.
enlarge(cap) == IF 2 * cap > HeapMax THEN 0 ELSE 2 * cap

(***************************************************************************)
(* The loop of checkBufSize enlarges the buffer until need fits.  Since    *)
(* 0 * 2 = 0, it never ends after a failed realloc, which the result 0     *)
(* stands for.                                                             *)
(***************************************************************************)
checkBufSize(cap, need) ==
  LET grown[c \in 0 .. HeapMax] ==
        IF need <= c \/ c = 0 THEN c ELSE grown[enlarge(c)]
  IN grown[cap]

-----------------------------------------------------------------------------
(* Big-endian fields *)

wUShort(v) == <<(v \div Base) % Base, v % Base>>

wUInt(v) == <<(v \div (Base * Base * Base)) % Base, (v \div (Base * Base)) % Base,
              (v \div Base) % Base, v % Base>>

ShortAt0(buf) == buf[1] * Base + buf[2]

UIntAt0(buf) ==
  ((buf[1] * Base + buf[2]) * Base + buf[3]) * Base + buf[4]

\* Writing bytes bs at position pos of a buffer.
memcpy(buf, pos, bs) ==
  [i \in 1 .. Max({Len(buf), pos + Len(bs)}) |->
     IF i \in pos + 1 .. pos + Len(bs) THEN bs[i - pos] ELSE buf[i]]

-----------------------------------------------------------------------------
(* Receiving *)

NewMessage(cap) == [size |-> -1, head |-> 2, cur |-> 0, start |-> 0, cap |-> cap]

\* Mutant: the header is not counted.
ReadCapWithoutHead(m) ==
  IF m.size >= 0 THEN m.size - m.cur
  ELSE IF m.size = -1 THEN 2 ELSE 4

getReadCap(m) ==
  IF m.size >= 0 THEN m.size - m.cur + m.head
  ELSE IF m.size = -1 THEN 2 ELSE 4

isEnd(m) == m.size >= 0 /\ m.cur = ToInt(m.size + m.head + m.start)

\* Mutant: room is made for the payload only.
SizeKnownWithoutHead(m, len, head) ==
  [m EXCEPT !.size = ToInt(len), !.head = head, !.cur = head, !.start = 0,
            !.cap = checkBufSize(m.cap, ToInt(len))]

\* A length field holding len was completed: the payload starts at head.
SizeKnown(m, len, head) ==
  [m EXCEPT !.size = ToInt(len), !.head = head, !.cur = head, !.start = 0,
            !.cap = checkBufSize(m.cap, ToInt(head + ToInt(len)))]

\* The mark was received: it is dropped and four length bytes follow.
MarkSeen(m) == [m EXCEPT !.cur = 0, !.size = -2, !.head = 4]

(***************************************************************************)
(* onReceive(n), buf being the contents after the n bytes arrived.  The    *)
(* header is looked at only when the cursor is exactly at its end.         *)
(***************************************************************************)
onReceive(m, n, buf) ==
  LET cur == m.cur + n
  IN CASE m.size = -1 /\ cur = m.head /\ ShortAt0(buf) = ShortMark ->
            MarkSeen(m)
       [] m.size = -1 /\ cur = m.head /\ ShortAt0(buf) # ShortMark ->
            SizeKnown(m, ShortAt0(buf), 2)
       [] m.size = -2 /\ cur = m.head -> SizeKnown(m, UIntAt0(buf), m.head)
       [] OTHER -> [m EXCEPT !.cur = cur]

ResetForRead(m) == [m EXCEPT !.cur = m.start + m.head]

-----------------------------------------------------------------------------
(* Writing and sending *)

\* The six bytes of the longest header are reserved in front of the payload.
Reserved == 6

beginForWrite(m) == [m EXCEPT !.cur = Reserved]

\* Mutant: the buffer is not grown.
WriteWithoutGrowing(m, n) == [m EXCEPT !.cur = @ + n]

wRaw(m, n) ==
  [m EXCEPT !.cap = checkBufSize(m.cap, ToInt(m.cur + n)), !.cur = @ + n]

(***************************************************************************)
(* endForWrite: a long frame starts at 0 with the mark and four length     *)
(* bytes; a short one skips the first four reserved bytes.                 *)
(***************************************************************************)
endForWrite(m) ==
  LET long == m.cur - Reserved >= ShortMark
  IN [m EXCEPT !.size = m.cur - Reserved,
               !.head = IF long THEN 6 ELSE 2,
               !.start = IF long THEN 0 ELSE 4,
               !.cur = IF long THEN 0 ELSE 4]

\* Mutant: a payload of 0xFFFF bytes gets a short header.
HeaderBytesOffByOne(size) ==
  IF size > ShortMark THEN wUShort(ShortMark) \o wUInt(size) ELSE wUShort(size)

\* The header bytes endForWrite stores at the start of a frame of that size.
HeaderBytes(size) ==
  IF size >= ShortMark THEN wUShort(ShortMark) \o wUInt(size) ELSE wUShort(size)

ResetForSend(m) == [m EXCEPT !.cur = m.start]

getSendCap(m) == m.size - m.cur + m.start + m.head

onSend(m, n) == [m EXCEPT !.cur = @ + n]

=============================================================================
