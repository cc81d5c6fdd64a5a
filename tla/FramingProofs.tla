---------------------------- MODULE FramingProofs ----------------------------
(***************************************************************************)
(* Proofs about Framing, for every width of a byte, all payloads that fit  *)
(* the heap, every socket buffer and every number of messages, as long as  *)
(* recv() does not split a header.                                         *)
(*                                                                         *)
(* Both ends are described by their position in the stream of all frames:  *)
(* off[i] is where the frame of the i-th message begins, r how far the     *)
(* receiver has read.  What is between r and the sender's position is on   *)
(* the wire, and each NetMessage holds the part of its frame that the      *)
(* positions say.                                                          *)
(***************************************************************************)
EXTENDS Framing, TLAPS

\* The bytes of a frame, as they are sent.
HeadLen(p) == IF Len(p) >= ShortMark THEN 6 ELSE 2
FrameLen(p) == HeadLen(p) + Len(p)
Frame(p) == HeaderBytes(Len(p)) \o p

Cursors == [size : Int, head : Nat, cur : Nat, start : Nat, cap : Nat]
Entry == [m : Cursors, buf : Seq(Byte)]

\* A message of m_sendList holds the frame of p, and part of it may be sent.
Queued(e, p) ==
  LET start == 6 - HeadLen(p)
  IN /\ e.m \in Cursors /\ e.buf \in Seq(Byte)
     /\ e.m.size = Len(p) /\ e.m.head = HeadLen(p) /\ e.m.start = start
     /\ e.m.cur \in start .. start + FrameLen(p) - 1
     /\ start + FrameLen(p) <= e.m.cap /\ Len(e.buf) = start + FrameLen(p)
     /\ \A k \in 1 .. FrameLen(p) : e.buf[start + k] = Frame(p)[k]

\* A message of m_recvList: new, behind the mark, or with part of its payload.
Fresh(e) == e.m.size = -1 /\ e.m.head = 2 /\ e.m.cur = 0 /\ e.m.cap = DefaultSize /\ e.buf = <<>>
Marked(e, p) ==
  /\ e.m.size = -2 /\ e.m.head = 4 /\ e.m.cur = 0 /\ e.m.cap = DefaultSize
  /\ Len(e.buf) = 2 /\ Len(p) >= ShortMark
Filling(e, p) ==
  /\ e.m.size = Len(p) /\ e.m.head = (IF Len(p) >= ShortMark THEN 4 ELSE 2)
  /\ e.m.cur \in e.m.head .. e.m.head + Len(p) /\ e.m.head + Len(p) <= e.m.cap
  /\ Len(e.buf) = e.m.cur
  /\ \A k \in 1 .. e.m.cur - e.m.head : e.buf[e.m.head + k] = p[k]
Arriving(e, p) ==
  /\ e.m \in Cursors /\ e.m.start = 0 /\ e.buf \in Seq(Byte)
  /\ Fresh(e) \/ Marked(e, p) \/ Filling(e, p)

\* How many bytes of the frame have arrived.
Arrived(e, p) ==
  IF e.m.size = -1 THEN 0 ELSE IF e.m.size = -2 THEN 2 ELSE FrameLen(p) - (e.m.size + e.m.head - e.m.cur)

-----------------------------------------------------------------------------
(* The invariant *)

Offsets(off, s) ==
  /\ off \in [1 .. Len(s) + 1 -> Nat]
  /\ \A i \in 1 .. Len(s) : off[i + 1] = off[i] + FrameLen(s[i])
  /\ \A i \in 1 .. Len(s) : \A j \in 1 .. Len(s) + 1 : i < j => off[i] + FrameLen(s[i]) <= off[j]

\* The sender, w being its position.
Sending(off, w, q, s) ==
  /\ Len(q) <= Len(s)
  /\ \A i \in 1 .. Len(q) : /\ Queued(q[i], s[Len(s) - Len(q) + i])
                            /\ i > 1 => q[i].m.cur = q[i].m.start
  /\ w = off[Len(s) - Len(q) + 1] + (IF q = <<>> THEN 0 ELSE q[1].m.cur - q[1].m.start)

\* The wire, r being the position of its first byte.
Carrying(off, r, wr, s) ==
  \A i \in 1 .. Len(s) : \A k \in 1 .. FrameLen(s[i]) :
    off[i] + k - r \in 1 .. Len(wr) => wr[off[i] + k - r] = Frame(s[i])[k]

\* The receiver, l messages having been loaded.
Receives(off, r, q, l, s) ==
  /\ l + Len(q) <= Len(s)
  /\ \A i \in 1 .. Len(q) : Arriving(q[i], s[l + i]) /\ (i < Len(q) => isEnd(q[i].m))
  /\ r = IF q = <<>> THEN off[l + 1] ELSE off[l + Len(q)] + Arrived(q[Len(q)], s[l + Len(q)])

TypeOK ==
  /\ sendList \in Seq(Entry) /\ recvList \in Seq(Entry)
  /\ wire \in Seq(Byte) /\ sent \in Seq(Payload) /\ loaded \in Seq(Seq(Byte))

At(off, r) ==
  /\ Offsets(off, sent)
  /\ Sending(off, r + Len(wire), sendList, sent)
  /\ Carrying(off, r, wire, sent)
  /\ Receives(off, r, recvList, Len(loaded), sent)

IInv == TypeOK /\ \E off \in [1 .. Len(sent) + 1 -> Nat], r \in Nat : At(off, r)

-----------------------------------------------------------------------------
(* Arithmetic *)

USE BaseAssumption, DefaultSizeAssumption, HeapMaxAssumption

\* The lemmas about NetMessage of FrameReaderProofs; its variables play no part in them.
Reader ==
  INSTANCE FrameReaderProofs WITH PoolSizes <- {}, m <- NewMessage(DefaultSize), hdr <- wire, len <- 0, status <- "ok"

\* A C int has room for every short length and its header.
LEMMA Widths ==
  /\ ShortMark \in Nat /\ UIntMod \in Nat /\ IntMax \in Nat /\ HeapMax \in Nat
  /\ ShortMark + 3 <= IntMax /\ IntMax < UIntMod /\ DefaultSize <= HeapMax /\ HeapMax <= IntMax
<1>1. Reader!IntMax = IntMax /\ Reader!UIntMod = UIntMod /\ Reader!ShortMark = ShortMark
  BY DEF Reader!IntMax, Reader!UIntMod, Reader!ShortMark, IntMax, UIntMod, ShortMark
<1> QED BY <1>1, Reader!Widths

\* What checkBufSize promises a message with a buffer of the default size.
LEMMA Room ==
  ASSUME NEW p \in Payload, NEW need \in Int, need <= Len(p) + 6
  PROVE  /\ Len(p) \in Nat /\ Len(p) + 6 <= HeapMax
         /\ checkBufSize(DefaultSize, need) \in 1 .. HeapMax /\ checkBufSize(DefaultSize, need) >= need
<1>1. Reader!IntMax = IntMax
  BY DEF Reader!IntMax, Reader!UIntMod, IntMax, UIntMod
<1>2. \A c, n : Reader!checkBufSize(c, n) = checkBufSize(c, n)
  BY DEF Reader!checkBufSize, checkBufSize, Reader!enlarge, enlarge
<1>3. Len(p) \in Nat /\ Len(p) + 6 \in Int /\ checkBufSize(DefaultSize, Len(p) + 6) # 0
  BY PayloadAssumption
<1>4. DefaultSize \in 1 .. HeapMax /\ DefaultSize \in 0 .. HeapMax
  BY Widths
<1>5. checkBufSize(DefaultSize, need) # 0
  BY <1>1, <1>2, <1>3, <1>4, Reader!LessIsMet
<1>6. \A n \in Int : Reader!Result(DefaultSize, n)
  BY <1>1, <1>4, Reader!RoomIsMade
<1>7. \A n \in Int : LET r == checkBufSize(DefaultSize, n) IN r \in 0 .. HeapMax /\ (r # 0 => r >= n)
  BY <1>2, <1>6 DEF Reader!Result
<1>8. checkBufSize(DefaultSize, Len(p) + 6) \in 0 .. HeapMax /\ checkBufSize(DefaultSize, Len(p) + 6) >= Len(p) + 6
  BY <1>3, <1>7
<1>9. checkBufSize(DefaultSize, need) \in 0 .. HeapMax /\ checkBufSize(DefaultSize, need) >= need
  BY <1>5, <1>7
<1> HIDE DEF checkBufSize
<1> QED BY <1>3, <1>5, <1>8, <1>9, Widths

\* A quotient is determined by its remainder.
LEMMA DivUnique ==
  ASSUME NEW v \in Nat, NEW d \in Nat, d >= 1, NEW t \in Nat, NEW x \in 0 .. d - 1, v = t * d + x
  PROVE  v \div d = t
<1> DEFINE u == v \div d
           z == v % d
<1>1. u \in Nat /\ z \in 0 .. d - 1 /\ v = u * d + z OBVIOUS
<1> HIDE DEF u, z
<1>2. ASSUME t < u PROVE FALSE
  <2>1. (t + 1) * d <= u * d BY <1>1, <1>2
  <2> QED BY <1>1, <2>1
<1>3. ASSUME u < t PROVE FALSE
  <2>1. (u + 1) * d <= t * d BY <1>1, <1>3
  <2> QED BY <1>1, <2>1
<1>4. u = t BY <1>1, <1>2, <1>3
<1> QED BY <1>4 DEF u

\* Dividing twice is dividing by the product.
LEMMA DivDiv ==
  ASSUME NEW v \in Nat, NEW b \in Nat, b >= 1, NEW c \in Nat, c >= 1
  PROVE  v \div (b * c) = (v \div b) \div c
<1> DEFINE q == v \div b
           x == v % b
           t == q \div c
           y == q % c
<1>1. q \in Nat /\ x \in 0 .. b - 1 /\ v = q * b + x OBVIOUS
<1>2. t \in Nat /\ y \in 0 .. c - 1 /\ q = t * c + y BY <1>1
<1> HIDE DEF q, x, t, y
<1>3. v = t * (b * c) + (y * b + x) BY <1>1, <1>2
<1>4. y * b + x \in 0 .. b * c - 1
  <2>1. (y + 1) * b <= c * b BY <1>1, <1>2
  <2>2. y * b \in Nat /\ (y + 1) * b = y * b + b /\ c * b = b * c BY <1>1, <1>2
  <2> QED BY <1>1, <2>1, <2>2
<1>5. b * c \in Nat /\ b * c >= 1 OBVIOUS
<1>6. v \div (b * c) = t
  <2> DEFINE d == b * c
             z == y * b + x
  <2> HIDE DEF d, z
  <2>1. d \in Nat /\ d >= 1 /\ z \in 0 .. d - 1 /\ v = t * d + z BY <1>3, <1>4, <1>5 DEF d, z
  <2>2. v \div d = t BY <1>2, <2>1, DivUnique
  <2> QED BY <2>2 DEF d
<1> QED BY <1>6 DEF t, q

\* A quotient is as small as the bound of what is divided.
LEMMA DivLess ==
  ASSUME NEW v \in Nat, NEW d \in Nat, d >= 1, NEW t \in Nat, v < t * d
  PROVE  v \div d \in Nat /\ v \div d < t
<1> DEFINE u == v \div d
           z == v % d
<1>1. u \in Nat /\ z \in 0 .. d - 1 /\ v = u * d + z OBVIOUS
<1> HIDE DEF u, z
<1>2. ASSUME t <= u PROVE FALSE
  <2>1. t * d <= u * d BY <1>1, <1>2
  <2> QED BY <1>1, <2>1
<1>3. u \in Nat /\ u < t BY <1>1, <1>2
<1> QED BY <1>3 DEF u

-----------------------------------------------------------------------------
(* Headers *)

\* Two bytes hold a short length.
LEMMA ShortDigits ==
  ASSUME NEW v \in Nat, v <= ShortMark
  PROVE  /\ wUShort(v) \in Seq(Byte) /\ Len(wUShort(v)) = 2
         /\ wUShort(v)[1] * Base + wUShort(v)[2] = v
<1> DEFINE q == v \div Base
           d == v % Base
<1>1. q \in Nat /\ d \in Byte /\ v = q * Base + d BY DEF Byte
<1>2. v < Base * Base BY DEF ShortMark
<1>3. q < Base BY ONLY BaseAssumption, v \in Nat, <1>2, DivLess
<1> HIDE DEF q
<1>4. q % Base = q /\ q \in Byte BY <1>1, <1>3 DEF Byte
<1>5. wUShort(v) = <<q, d>> BY <1>4 DEF wUShort, q
<1> HIDE DEF d
<1>6. <<q, d>> \in Seq(Byte) /\ Len(<<q, d>>) = 2 BY ONLY <1>1, <1>4
<1>7. wUShort(v)[1] = q /\ wUShort(v)[2] = d BY <1>5
<1> QED BY <1>1, <1>5, <1>6, <1>7

\* Four bytes hold an int.
LEMMA LongDigits ==
  ASSUME NEW v \in Nat, v < UIntMod
  PROVE  /\ wUInt(v) \in Seq(Byte) /\ Len(wUInt(v)) = 4
         /\ UIntAt0(wUInt(v)) = v
<1> DEFINE q1 == v \div Base
           q2 == q1 \div Base
           q3 == q2 \div Base
           d1 == v % Base
           d2 == q1 % Base
           d3 == q2 % Base
           c2 == Base * Base
           c3 == c2 * Base
<1>1. q1 \in Nat /\ d1 \in Byte /\ v = q1 * Base + d1 BY DEF Byte
<1>2. q2 \in Nat /\ d2 \in Byte /\ q1 = q2 * Base + d2 BY <1>1 DEF Byte
<1>3. q3 \in Nat /\ d3 \in Byte /\ q2 = q3 * Base + d3 BY <1>2 DEF Byte
<1>4. c2 \in Nat /\ c2 >= 1 /\ c3 \in Nat OBVIOUS
<1>5. v < c3 * Base BY DEF UIntMod
<1> DEFINE Twice(b, c) == v \div (b * c) = (v \div b) \div c
<1> HIDE DEF Twice
<1>a. \A b, c \in Nat : b >= 1 /\ c >= 1 => Twice(b, c) BY DivDiv DEF Twice
<1>6. v \div c2 = q2
  <2>1. Twice(Base, Base) BY <1>a
  <2> QED BY <2>1 DEF Twice
<1>7. v \div c3 = (v \div c2) \div Base
  <2> HIDE DEF c2
  <2>1. Twice(c2, Base) BY <1>4, <1>a
  <2> QED BY <2>1 DEF Twice
<1>8. v \div c3 = q3 BY <1>6, <1>7
<1>9. q1 < c3
  <2> HIDE DEF c3, c2
  <2> QED BY <1>4, <1>5, DivLess
<1>10. q2 < c2
  <2> HIDE DEF c2, q1
  <2> QED BY <1>1, <1>4, <1>9, DivLess
<1>11. q3 < Base
  <2> HIDE DEF q2
  <2> QED BY <1>2, <1>10, DivLess
<1>12. wUInt(v) = <<q3 % Base, d3, d2, d1>>
  BY <1>6, <1>8 DEF wUInt
<1> HIDE DEF q1, q2, q3, d1, d2, d3
<1>13. q3 % Base = q3 /\ q3 \in Byte BY <1>3, <1>11 DEF Byte
<1>14. wUInt(v) = <<q3, d3, d2, d1>> BY <1>12, <1>13
<1>15. UIntAt0(wUInt(v)) = ((q3 * Base + d3) * Base + d2) * Base + d1 BY <1>14 DEF UIntAt0
<1>16. UIntAt0(wUInt(v)) = v BY <1>1, <1>2, <1>3, <1>15
<1>17. <<q3, d3, d2, d1>> \in Seq(Byte) /\ Len(<<q3, d3, d2, d1>>) = 4 BY ONLY <1>1, <1>2, <1>3, <1>13
<1> QED BY <1>14, <1>16, <1>17

\* Joining two sequences of bytes.
LEMMA Joined ==
  ASSUME NEW a \in Seq(Byte), NEW b \in Seq(Byte)
  PROVE  /\ a \o b \in Seq(Byte) /\ Len(a \o b) = Len(a) + Len(b)
         /\ \A k \in 1 .. Len(a) : (a \o b)[k] = a[k]
         /\ \A k \in 1 .. Len(b) : (a \o b)[Len(a) + k] = b[k]
OBVIOUS

\* What the header endForWrite stores says about the payload behind it.
HeaderOf(h, len) ==
  /\ h \in Seq(Byte) /\ Len(h) = (IF len >= ShortMark THEN 6 ELSE 2)
  /\ ShortAt0(h) = (IF len >= ShortMark THEN ShortMark ELSE len)
  /\ len >= ShortMark => ((h[3] * Base + h[4]) * Base + h[5]) * Base + h[6] = len

\* The header of a length that fits an int.
LEMMA Header ==
  ASSUME NEW len \in Nat, len <= IntMax
  PROVE  HeaderOf(HeaderBytes(len), len)
<1>1. CASE len < ShortMark
  <2>1. HeaderBytes(len) = wUShort(len) /\ ~(len >= ShortMark) BY <1>1, Widths DEF HeaderBytes
  <2>2. len <= ShortMark BY <1>1, Widths
  <2> HIDE DEF wUShort
  <2> QED BY <2>1, <2>2, ShortDigits DEF HeaderOf, ShortAt0
<1>2. CASE len >= ShortMark
  <2> DEFINE a == wUShort(ShortMark)
             b == wUInt(len)
  <2>1. HeaderBytes(len) = a \o b BY <1>2 DEF HeaderBytes
  <2>2. a \in Seq(Byte) /\ Len(a) = 2 /\ a[1] * Base + a[2] = ShortMark BY ShortDigits, Widths
  <2>3. b \in Seq(Byte) /\ Len(b) = 4 /\ UIntAt0(b) = len BY LongDigits, Widths
  <2> HIDE DEF a, b
  <2>4. /\ a \o b \in Seq(Byte) /\ Len(a \o b) = 6 /\ (a \o b)[1] = a[1] /\ (a \o b)[2] = a[2]
        /\ (a \o b)[3] = b[1] /\ (a \o b)[4] = b[2] /\ (a \o b)[5] = b[3] /\ (a \o b)[6] = b[4]
    <3>1. 1 \in 1 .. Len(a) /\ 2 \in 1 .. Len(a) /\ 1 \in 1 .. Len(b) /\ 2 \in 1 .. Len(b) /\ 3 \in 1 .. Len(b) /\ 4 \in 1 .. Len(b)
      BY <2>2, <2>3
    <3>2. Len(a) + 1 = 3 /\ Len(a) + 2 = 4 /\ Len(a) + 3 = 5 /\ Len(a) + 4 = 6
      BY <2>2
    <3> DEFINE c == a \o b
    <3>3. /\ c \in Seq(Byte) /\ Len(c) = Len(a) + Len(b)
          /\ \A k \in 1 .. Len(a) : c[k] = a[k]
          /\ \A k \in 1 .. Len(b) : c[Len(a) + k] = b[k]
      BY <2>2, <2>3, Joined
    <3> HIDE DEF c
    <3>4. c \in Seq(Byte) /\ Len(c) = 6 BY <2>2, <2>3, <3>3
    <3>5. c[1] = a[1] /\ c[2] = a[2] BY <3>1, <3>3
    <3>6. c[3] = b[1] /\ c[4] = b[2] /\ c[5] = b[3] /\ c[6] = b[4] BY <3>1, <3>2, <3>3
    <3> QED BY <3>4, <3>5, <3>6 DEF c
  <2> QED BY <1>2, <2>1, <2>2, <2>3, <2>4 DEF HeaderOf, ShortAt0, UIntAt0
<1> QED BY <1>1, <1>2, Widths

\* A frame is its header and its payload.
LEMMA Frames ==
  ASSUME NEW p \in Payload
  PROVE  /\ Frame(p) \in Seq(Byte) /\ Len(Frame(p)) = FrameLen(p)
         /\ \A k \in 1 .. Len(p) : Frame(p)[HeadLen(p) + k] = p[k]
         /\ ShortAt0(Frame(p)) = (IF Len(p) >= ShortMark THEN ShortMark ELSE Len(p))
         /\ Len(p) >= ShortMark =>
              ((Frame(p)[3] * Base + Frame(p)[4]) * Base + Frame(p)[5]) * Base + Frame(p)[6] = Len(p)
         /\ \A k \in 1 .. HeadLen(p) : Frame(p)[k] = HeaderBytes(Len(p))[k]
         /\ HeaderBytes(Len(p)) \in Seq(Byte) /\ Len(HeaderBytes(Len(p))) = HeadLen(p)
<1> DEFINE h == HeaderBytes(Len(p))
<1>1. p \in Seq(Byte) /\ Len(p) \in Nat /\ Len(p) + 6 <= HeapMax
  <2>1. Len(p) \in Nat /\ Len(p) + 6 \in Int BY PayloadAssumption
  <2>2. \A n \in Int : n <= Len(p) + 6 => Len(p) + 6 <= HeapMax BY Room
  <2> QED BY <2>1, <2>2, PayloadAssumption
<1>2. Len(p) <= IntMax BY <1>1, Widths
<1>3. HeaderOf(h, Len(p)) BY <1>1, <1>2, Header
<1>4. Frame(p) = h \o p BY DEF Frame
<1> HIDE DEF h
<1>5. h \in Seq(Byte) /\ Len(h) = HeadLen(p) BY <1>3 DEF HeaderOf, HeadLen
<1>6. /\ Frame(p) \in Seq(Byte) /\ Len(Frame(p)) = HeadLen(p) + Len(p)
      /\ \A k \in 1 .. HeadLen(p) : Frame(p)[k] = h[k]
      /\ \A k \in 1 .. Len(p) : Frame(p)[HeadLen(p) + k] = p[k]
  <2> DEFINE c == h \o p
  <2>1. /\ c \in Seq(Byte) /\ Len(c) = Len(h) + Len(p)
        /\ \A k \in 1 .. Len(h) : c[k] = h[k]
        /\ \A k \in 1 .. Len(p) : c[Len(h) + k] = p[k]
    BY <1>1, <1>5, Joined
  <2> HIDE DEF c
  <2> QED BY <1>4, <1>5, <2>1 DEF c
<1>7. HeadLen(p) \in Nat /\ 1 \in 1 .. HeadLen(p) /\ 2 \in 1 .. HeadLen(p) BY DEF HeadLen
<1>8. Len(p) >= ShortMark => 3 \in 1 .. HeadLen(p) /\ 4 \in 1 .. HeadLen(p) /\ 5 \in 1 .. HeadLen(p) /\ 6 \in 1 .. HeadLen(p)
  BY DEF HeadLen
<1>9. ShortAt0(Frame(p)) = ShortAt0(h) BY <1>6, <1>7 DEF ShortAt0
<1>10. Len(p) >= ShortMark => Frame(p)[3] = h[3] /\ Frame(p)[4] = h[4] /\ Frame(p)[5] = h[5] /\ Frame(p)[6] = h[6]
  BY <1>6, <1>8
<1> QED BY <1>3, <1>5, <1>6, <1>9, <1>10 DEF HeaderOf, FrameLen, h

\* What memcpy writes over part of a buffer and past its end.
LEMMA Copied ==
  ASSUME NEW buf \in Seq(Byte), NEW bs \in Seq(Byte), NEW pos \in 0 .. Len(buf)
  PROVE  /\ memcpy(buf, pos, bs) \in Seq(Byte)
         /\ Len(memcpy(buf, pos, bs)) = (IF Len(buf) >= pos + Len(bs) THEN Len(buf) ELSE pos + Len(bs))
         /\ \A k \in 1 .. Len(bs) : memcpy(buf, pos, bs)[pos + k] = bs[k]
         /\ \A k \in 1 .. Len(buf) : k \notin pos + 1 .. pos + Len(bs) => memcpy(buf, pos, bs)[k] = buf[k]
<1> DEFINE l == IF Len(buf) >= pos + Len(bs) THEN Len(buf) ELSE pos + Len(bs)
           S == {Len(buf), pos + Len(bs)}
<1>1. Max(S) = l
  <2>1. l \in S /\ \A y \in S : l >= y OBVIOUS
  <2>2. Max(S) \in S /\ \A y \in S : Max(S) >= y BY <2>1 DEF Max
  <2> QED BY <2>1, <2>2
<1> DEFINE M == [i \in 1 .. l |-> IF i \in pos + 1 .. pos + Len(bs) THEN bs[i - pos] ELSE buf[i]]
<1>2. memcpy(buf, pos, bs) = M BY <1>1 DEF memcpy
<1>3. l \in Nat OBVIOUS
<1>4. \A i \in 1 .. l : M[i] \in Byte OBVIOUS
<1>5. M \in [1 .. l -> Byte] BY <1>4
<1>6. M \in Seq(Byte) /\ Len(M) = l
  <2> HIDE DEF M, l
  <2> QED BY <1>3, <1>5
<1>7. \A k \in 1 .. Len(bs) : M[pos + k] = bs[k] OBVIOUS
<1>8. \A k \in 1 .. Len(buf) : k \notin pos + 1 .. pos + Len(bs) => M[k] = buf[k] OBVIOUS
<1> HIDE DEF M
<1> QED BY <1>2, <1>6, <1>7, <1>8

-----------------------------------------------------------------------------
(* One message at the sender *)

USE DEF Entry

\* The lengths of a payload and its frame, in numbers only.
LEMMA Lengths ==
  ASSUME NEW p \in Payload
  PROVE  /\ Len(p) \in Nat /\ Len(p) + 6 <= IntMax
         /\ HeadLen(p) \in Nat /\ HeadLen(p) = (IF Len(p) >= ShortMark THEN 6 ELSE 2)
         /\ FrameLen(p) = HeadLen(p) + Len(p) /\ FrameLen(p) \in Nat
         /\ \A x \in Int : x <= Len(p) + 6 => ToInt(x) = x
<1>1. Len(p) \in Nat BY PayloadAssumption
<1>2. \A n \in Int : n <= Len(p) + 6 => Len(p) + 6 <= HeapMax BY Room
<1>3. Len(p) + 6 <= IntMax BY <1>1, <1>2, Widths
<1>4. \A x \in Int : x <= Len(p) + 6 => ToInt(x) = x BY <1>1, <1>3, Widths DEF ToInt
<1> QED BY <1>1, <1>3, <1>4 DEF HeadLen, FrameLen

\* EndForWrite leaves the frame of the payload in the buffer.
LEMMA WrittenIsQueued ==
  ASSUME NEW p \in Payload, NEW e, e = [Written(p) EXCEPT !.m = ResetForSend(Written(p).m)]
  PROVE  Queued(e, p) /\ e.m.cur = e.m.start /\ e \in Entry
<1> DEFINE l == Len(p)
           start == 6 - HeadLen(p)
           cap == checkBufSize(DefaultSize, ToInt(6 + l))
           hb == HeaderBytes(l)
           st == Stale \o p
<1>1. /\ l \in Nat /\ HeadLen(p) \in Nat /\ HeadLen(p) = (IF l >= ShortMark THEN 6 ELSE 2)
      /\ FrameLen(p) = HeadLen(p) + l /\ FrameLen(p) \in Nat /\ ToInt(6 + l) = l + 6
      /\ start = (IF l >= ShortMark THEN 0 ELSE 4) /\ start \in Nat /\ start + HeadLen(p) = 6
  BY Lengths
<1>2. cap \in Nat /\ cap >= l + 6 /\ p \in Seq(Byte)
  <2>1. l + 6 \in Int /\ l + 6 <= Len(p) + 6 BY <1>1
  <2>2. checkBufSize(DefaultSize, l + 6) \in 1 .. HeapMax /\ checkBufSize(DefaultSize, l + 6) >= l + 6
    <3> HIDE DEF l
    <3> QED BY <2>1, Room
  <2> HIDE DEF checkBufSize
  <2> QED BY <1>1, <2>2, PayloadAssumption, Widths
<1> HIDE DEF cap
<1>3. e.m = [size |-> l, head |-> HeadLen(p), cur |-> start, start |-> start, cap |-> cap]
  <2> DEFINE m0 == wRaw(beginForWrite(NewMessage(DefaultSize)), l)
  <2>1. m0 = [size |-> -1, head |-> 2, cur |-> 6 + l, start |-> 0, cap |-> cap]
    <3> DEFINE b == beginForWrite(NewMessage(DefaultSize))
    <3>1. b = [size |-> -1, head |-> 2, cur |-> 6, start |-> 0, cap |-> DefaultSize]
      BY DEF beginForWrite, NewMessage, Reserved
    <3>2. m0 = [b EXCEPT !.cap = checkBufSize(b.cap, ToInt(b.cur + l)), !.cur = b.cur + l] BY DEF wRaw
    <3> HIDE DEF b, m0, checkBufSize, l
    <3>3. checkBufSize(b.cap, ToInt(b.cur + l)) = cap BY <3>1 DEF cap
    <3> QED BY <3>1, <3>2, <3>3
  <2> HIDE DEF m0, l, start
  <2>2. m0.cur - Reserved = l BY <1>1, <2>1 DEF Reserved
  <2>3. endForWrite(m0) = [size |-> l, head |-> HeadLen(p), cur |-> start, start |-> start, cap |-> cap]
    <3> DEFINE long == l >= ShortMark
    <3>1. endForWrite(m0) = [m0 EXCEPT !.size = l, !.head = IF long THEN 6 ELSE 2,
                                       !.start = IF long THEN 0 ELSE 4, !.cur = IF long THEN 0 ELSE 4]
      BY <2>2 DEF endForWrite
    <3> QED BY <1>1, <2>1, <3>1
  <2>4. Written(p).m = endForWrite(m0) BY DEF Written, m0, l
  <2>5. Written(p) = [m |-> Written(p).m, buf |-> Written(p).buf] BY DEF Written
  <2>6. e.m = ResetForSend(Written(p).m) BY <2>5
  <2> QED BY <2>3, <2>4, <2>6 DEF ResetForSend
<1>4. e.buf = memcpy(st, start, hb) /\ e = [m |-> e.m, buf |-> e.buf]
  <2> DEFINE w == Written(p).m
  <2>1. w.start = start /\ w.size = l
    <3>1. e.m = ResetForSend(w) /\ w = [size |-> w.size, head |-> w.head, cur |-> w.cur, start |-> w.start, cap |-> w.cap]
      BY DEF Written, endForWrite, wRaw, beginForWrite, NewMessage
    <3> HIDE DEF w
    <3> QED BY <1>3, <3>1 DEF ResetForSend
  <2>2. Written(p).buf = memcpy(st, w.start, HeaderBytes(w.size)) BY DEF Written
  <2>3. Written(p) = [m |-> w, buf |-> Written(p).buf] BY DEF Written
  <2> HIDE DEF w
  <2> QED BY <2>1, <2>2, <2>3
<1>5. /\ st \in Seq(Byte) /\ Len(st) = 6 + l /\ \A k \in 1 .. l : st[6 + k] = p[k]
  <2>1. Stale \in Seq(Byte) /\ Len(Stale) = 6 BY DEF Stale, Reserved, Byte
  <2>2. Len(Stale) + l = 6 + l /\ \A k \in 1 .. l : Len(Stale) + k = 6 + k BY <2>1
  <2>3. p \in Seq(Byte) /\ l = Len(p) BY <1>2
  <2>4. /\ st \in Seq(Byte) /\ Len(st) = Len(Stale) + l
        /\ \A k \in 1 .. l : st[Len(Stale) + k] = p[k]
    BY <2>1, <2>3, Joined
  <2> HIDE DEF st, l
  <2> QED BY <2>2, <2>4
<1>6. /\ hb \in Seq(Byte) /\ Len(hb) = HeadLen(p)
      /\ \A k \in 1 .. HeadLen(p) : Frame(p)[k] = hb[k]
      /\ \A k \in 1 .. l : Frame(p)[HeadLen(p) + k] = p[k]
  BY Frames
<1> HIDE DEF st, hb, start, l
<1>7. start \in 0 .. Len(st) BY <1>1, <1>5
<1>8. /\ e.buf \in Seq(Byte) /\ Len(e.buf) = 6 + l
      /\ \A k \in 1 .. HeadLen(p) : e.buf[start + k] = hb[k]
      /\ \A k \in 1 .. 6 + l : k \notin start + 1 .. start + HeadLen(p) => e.buf[k] = st[k]
  <2>1. Len(st) >= start + Len(hb) BY <1>1, <1>5, <1>6
  <2> DEFINE mc == memcpy(st, start, hb)
  <2>2. /\ mc \in Seq(Byte) /\ Len(mc) = Len(st)
        /\ \A k \in 1 .. Len(hb) : mc[start + k] = hb[k]
        /\ \A k \in 1 .. Len(st) : k \notin start + 1 .. start + Len(hb) => mc[k] = st[k]
    BY <1>5, <1>6, <1>7, <2>1, Copied
  <2>3. e.buf = mc BY <1>4
  <2> HIDE DEF mc
  <2> QED BY <1>5, <1>6, <2>2, <2>3
<1>9. ASSUME NEW k \in 1 .. FrameLen(p) PROVE e.buf[start + k] = Frame(p)[k]
  <2>1. CASE k <= HeadLen(p)
    BY <1>1, <1>6, <1>8, <2>1
  <2>2. CASE k > HeadLen(p)
    <3> DEFINE j == k - HeadLen(p)
    <3>1. j \in 1 .. l /\ start + k = 6 + j /\ k = HeadLen(p) + j BY <1>1, <2>2
    <3> HIDE DEF j
    <3>2. 6 + j \in 1 .. 6 + l /\ 6 + j \notin start + 1 .. start + HeadLen(p) BY <1>1, <3>1
    <3>3. e.buf[6 + j] = st[6 + j] BY <1>8, <3>2
    <3> QED BY <1>5, <1>6, <3>1, <3>3
  <2> QED BY <1>1, <2>1, <2>2
<1>10. e.m \in Cursors BY <1>1, <1>2, <1>3 DEF Cursors
<1>11. FrameLen(p) >= 2 /\ start + FrameLen(p) = 6 + l BY <1>1
<1>12. /\ e.m.size = l /\ e.m.head = HeadLen(p) /\ e.m.start = start /\ e.m.cur = start /\ e.m.cap = cap BY <1>3
<1>13. start \in start .. start + FrameLen(p) - 1 /\ start + FrameLen(p) <= cap BY <1>1, <1>2, <1>11
<1> HIDE DEF start
<1>14. Queued(e, p)
  <2>1. l = Len(p) /\ start = 6 - HeadLen(p) BY DEF l, start
  <2> QED BY <1>8, <1>9, <1>10, <1>11, <1>12, <1>13, <2>1 DEF Queued
<1>15. e \in Entry BY <1>4, <1>8, <1>10
<1> QED BY <1>12, <1>14, <1>15

\* One send() of n bytes from a message of which g have been sent.
Sends(e, p, n) ==
  LET g == e.m.cur - e.m.start
      c == SubSeq(e.buf, e.m.cur + 1, e.m.cur + n)
      f == [e EXCEPT !.m = onSend(e.m, n)]
  IN /\ g \in Nat /\ g + n <= FrameLen(p)
     /\ c \in Seq(Byte) /\ Len(c) = n /\ \A k \in 1 .. n : c[k] = Frame(p)[g + k]
     /\ isEnd(onSend(e.m, n)) <=> g + n = FrameLen(p)
     /\ g + n # FrameLen(p) => Queued(f, p) /\ f.m.cur - f.m.start = g + n
                               /\ f \in Entry

\* A send() of at most getSendCap() bytes sends the next bytes of the frame.
LEMMA SendOne ==
  ASSUME NEW p \in Payload, NEW e \in Entry, Queued(e, p),
         NEW n \in Nat, n >= 1, n <= getSendCap(e.m)
  PROVE  Sends(e, p, n)
<1> DEFINE m == e.m
           start == 6 - HeadLen(p)
           g == m.cur - start
           c == SubSeq(e.buf, m.cur + 1, m.cur + n)
           f == [e EXCEPT !.m = onSend(e.m, n)]
<1>1. /\ Len(p) \in Nat /\ HeadLen(p) \in Nat /\ FrameLen(p) = HeadLen(p) + Len(p) /\ FrameLen(p) \in Nat
      /\ ToInt(Len(p) + HeadLen(p) + start) = Len(p) + 6
      /\ start \in Nat /\ start + HeadLen(p) = 6
  <2>1. Len(p) \in Nat /\ HeadLen(p) \in Nat /\ start \in Nat BY Lengths
  <2>2. Len(p) + HeadLen(p) + start \in Int /\ Len(p) + HeadLen(p) + start = Len(p) + 6 BY <2>1
  <2>3. Len(p) + 6 \in Int /\ Len(p) + 6 <= Len(p) + 6 BY <2>1
  <2>4. ToInt(Len(p) + 6) = Len(p) + 6 BY <2>3, Lengths
  <2> QED BY <2>2, <2>4, Lengths
<1>2. /\ m.size = Len(p) /\ m.head = HeadLen(p) /\ m.start = start /\ m.cur \in start .. start + FrameLen(p) - 1
      /\ start + FrameLen(p) <= m.cap /\ Len(e.buf) = start + FrameLen(p) /\ m.cap \in Nat
      /\ \A k \in 1 .. FrameLen(p) : e.buf[start + k] = Frame(p)[k]
      /\ e = [m |-> m, buf |-> e.buf] /\ e.buf \in Seq(Byte) /\ m \in Cursors
  BY DEF Queued, Cursors
<1>a. n <= m.size - m.cur + m.start + m.head BY DEF getSendCap
<1> HIDE DEF m, start
<1>b. m.cur \in Int /\ m.cur >= start /\ n <= Len(p) - m.cur + start + HeadLen(p)
  <2>1. m.size = Len(p) /\ m.head = HeadLen(p) /\ m.start = start /\ m.cur \in start .. start + FrameLen(p) - 1
    BY <1>2
  <2> QED BY ONLY <1>1, <1>a, <2>1
<1>3. g \in Nat /\ g + n <= FrameLen(p) /\ m.cur = start + g
  <2> DEFINE cur == m.cur
  <2>1. cur \in Int /\ cur >= start /\ n <= Len(p) - cur + start + HeadLen(p) BY <1>b
  <2> HIDE DEF cur
  <2>2. cur - start \in Nat /\ cur - start + n <= FrameLen(p) /\ cur = start + (cur - start) BY ONLY <1>1, <2>1, n \in Nat
  <2> QED BY <2>2 DEF cur
<1> DEFINE x == onSend(m, n)
<1>4. /\ x \in Cursors /\ x.size = Len(p) /\ x.head = HeadLen(p) /\ x.start = start
      /\ x.cur = start + g + n /\ x.cap = m.cap
  <2>1. x = [m EXCEPT !.cur = m.cur + n] /\ m \in Cursors BY <1>2 DEF onSend
  <2> HIDE DEF x, g
  <2>2. m.cur + n \in Nat /\ m.cur + n = start + g + n BY <1>1, <1>3
  <2> QED BY <1>2, <2>1, <2>2 DEF Cursors
<1> HIDE DEF g
<1>5. c \in Seq(Byte) /\ Len(c) = n /\ \A k \in 1 .. n : c[k] = Frame(p)[g + k]
  <2>2. c \in Seq(Byte) /\ Len(c) = n /\ \A k \in 1 .. n : c[k] = e.buf[m.cur + k]
    <3> DEFINE a == m.cur
    <3>0. Len(e.buf) = start + FrameLen(p) /\ e.buf \in Seq(Byte) BY <1>2
    <3>1. a \in Nat /\ a + n <= Len(e.buf)
      <4>1. a = start + g BY <1>3
      <4> HIDE DEF a
      <4> QED BY ONLY <1>1, <1>3, <3>0, <4>1, n \in Nat
    <3> HIDE DEF a
    <3>2. /\ SubSeq(e.buf, a + 1, a + n) \in Seq(Byte) /\ Len(SubSeq(e.buf, a + 1, a + n)) = n
          /\ \A k \in 1 .. n : SubSeq(e.buf, a + 1, a + n)[k] = e.buf[a + k]
      BY <3>0, <3>1
    <3> QED BY <3>2 DEF a
  <2>3. \A k \in 1 .. n : e.buf[m.cur + k] = Frame(p)[g + k]
    <3> TAKE k \in 1 .. n
    <3>1. g + k \in 1 .. FrameLen(p) /\ m.cur + k = start + (g + k) BY <1>1, <1>3
    <3> QED BY <1>2, <3>1
  <2> QED BY <2>2, <2>3
<1>6. isEnd(x) <=> g + n = FrameLen(p)
  <2> HIDE DEF x
  <2>1. isEnd(x) <=> start + g + n = Len(p) + 6 BY <1>1, <1>4 DEF isEnd
  <2>2. start + g + n = Len(p) + 6 <=> g + n = FrameLen(p) BY ONLY <1>1, <1>3, n \in Nat
  <2> QED BY <2>1, <2>2
<1>7. ASSUME g + n # FrameLen(p)
      PROVE  Queued(f, p) /\ f.m.cur - f.m.start = g + n /\ f \in Entry
  <2>1. f = [m |-> x, buf |-> e.buf] BY <1>2 DEF m
  <2> HIDE DEF f, x
  <2>2. f.m = x /\ f.buf = e.buf BY <2>1
  <2>3. start + g + n \in start .. start + FrameLen(p) - 1 BY ONLY <1>1, <1>3, <1>7, n \in Nat
  <2>4. f.m.cur - f.m.start = g + n BY <1>1, <1>3, <1>4, <2>2
  <2>5. start = 6 - HeadLen(p) BY DEF start
  <2> QED BY <1>2, <1>4, <2>1, <2>2, <2>3, <2>4, <2>5 DEF Queued
<1>8. m.cur - m.start = g BY <1>2 DEF g
<1> HIDE DEF x, c, f
<1> QED BY <1>3, <1>5, <1>6, <1>7, <1>8 DEF Sends, m, x, c, f

-----------------------------------------------------------------------------
(* One message at the receiver *)

\* A message that is being received is complete when its frame has arrived.
LEMMA EndIsArrived ==
  ASSUME NEW p \in Payload, NEW e, Arriving(e, p)
  PROVE  /\ Arrived(e, p) \in 0 .. FrameLen(p)
         /\ isEnd(e.m) <=> Arrived(e, p) = FrameLen(p)
         /\ isEnd(e.m) <=> e.m.size >= 0 /\ e.m.cur = e.m.head + Len(p)
         /\ isEnd(e.m) => Filling(e, p)
<1> DEFINE l == Len(p)
           fl == FrameLen(p)
<1>1. /\ l \in Nat /\ HeadLen(p) \in Nat /\ fl = HeadLen(p) + l /\ fl \in Nat
      /\ HeadLen(p) = (IF l >= ShortMark THEN 6 ELSE 2)
      /\ \A x \in Int : x <= l + 6 => ToInt(x) = x
  BY Lengths
<1> HIDE DEF l, fl
<1>2. CASE Fresh(e)
  BY <1>1, <1>2 DEF Fresh, isEnd, Arrived, fl
<1>3. CASE Marked(e, p)
  BY <1>1, <1>3 DEF Marked, isEnd, Arrived, fl, l
<1>4. CASE Filling(e, p)
  <2> DEFINE h == e.m.head
             cur == e.m.cur
  <2>1. /\ e.m.size = l /\ h = (IF l >= ShortMark THEN 4 ELSE 2) /\ cur \in h .. h + l /\ e.m.start = 0
    BY <1>4 DEF Filling, Arriving, l
  <2> HIDE DEF h, cur
  <2>2. h \in Nat /\ cur \in Nat /\ cur >= h /\ cur <= h + l /\ h <= HeadLen(p) /\ h <= 4 BY <1>1, <2>1
  <2>3. ToInt(l + h + 0) = l + h BY <1>1, <2>2
  <2>4. isEnd(e.m) <=> cur = l + h BY <1>1, <2>1, <2>3 DEF isEnd, h, cur
  <2>5. Arrived(e, p) = fl - (l + h - cur) BY <1>1, <2>1 DEF Arrived, h, cur, fl
  <2>6. fl - (l + h - cur) \in 0 .. fl /\ (cur = l + h <=> fl - (l + h - cur) = fl) /\ l + h = h + l
    BY ONLY <1>1, <2>2
  <2>7. e.m.size >= 0 BY <1>1, <2>1
  <2> QED BY <1>4, <2>4, <2>5, <2>6, <2>7 DEF h, cur, fl, l
<1> QED BY <1>2, <1>3, <1>4 DEF Arriving

\* The message e after recv() returned bs.
Received(e, bs) ==
  LET buf == memcpy(e.buf, e.m.cur, bs)
  IN [m |-> onReceive(e.m, Len(bs), buf), buf |-> buf]

\* The first two bytes of a frame tell which header it has.
LEMMA RecvFresh ==
  ASSUME NEW p \in Payload, NEW e \in Entry, Arriving(e, p), Fresh(e),
         NEW bs \in Seq(Byte), Len(bs) = 2, \A k \in 1 .. 2 : bs[k] = Frame(p)[k]
  PROVE  LET f == Received(e, bs)
         IN f \in Entry /\ Arriving(f, p) /\ Arrived(f, p) = 2 /\ 2 <= FrameLen(p)
<1> DEFINE l == Len(p)
           buf == memcpy(<<>>, 0, bs)
           f == Received(e, bs)
<1>1. /\ l \in Nat /\ FrameLen(p) = HeadLen(p) + l /\ HeadLen(p) = (IF l >= ShortMark THEN 6 ELSE 2)
      /\ \A x \in Int : x <= l + 6 => ToInt(x) = x
  BY Lengths
<1>2. e.m.start = 0 /\ e.m.size = -1 /\ e.m.head = 2 /\ e.m.cur = 0 /\ e.m.cap = DefaultSize /\ e.buf = <<>>
      /\ e.m \in Cursors
  BY DEF Arriving, Fresh
<1>3. buf \in Seq(Byte) /\ Len(buf) = 2 /\ buf[1] = bs[1] /\ buf[2] = bs[2]
  <2>1. <<>> \in Seq(Byte) /\ 0 \in 0 .. Len(<<>>) /\ ~(Len(<<>>) >= 0 + Len(bs)) /\ 0 + Len(bs) = 2 OBVIOUS
  <2>2. /\ buf \in Seq(Byte) /\ Len(buf) = 0 + Len(bs) /\ \A k \in 1 .. Len(bs) : buf[0 + k] = bs[k]
    BY <2>1, Copied
  <2> HIDE DEF buf
  <2> QED BY <2>1, <2>2
<1>4. ShortAt0(buf) = (IF l >= ShortMark THEN ShortMark ELSE l)
  <2>1. ShortAt0(buf) = ShortAt0(Frame(p)) BY <1>3 DEF ShortAt0
  <2> HIDE DEF buf
  <2> QED BY <2>1, Frames
<1>5. f = [m |-> onReceive(e.m, 2, buf), buf |-> buf] BY <1>2 DEF Received
<1> HIDE DEF buf, f
<1>6. CASE l >= ShortMark
  <2>1. onReceive(e.m, 2, buf) = MarkSeen(e.m) BY <1>2, <1>4, <1>6 DEF onReceive
  <2> DEFINE m == MarkSeen(e.m)
  <2>2. m \in Cursors /\ m.start = 0 /\ m.size = -2 /\ m.head = 4 /\ m.cur = 0 /\ m.cap = DefaultSize
    <3>1. e.m = [size |-> -1, head |-> 2, cur |-> 0, start |-> 0, cap |-> DefaultSize] BY <1>2 DEF Cursors
    <3>2. m = [size |-> -2, head |-> 4, cur |-> 0, start |-> 0, cap |-> DefaultSize] 
      <4> DEFINE x == e.m
      <4>1. x = [size |-> -1, head |-> 2, cur |-> 0, start |-> 0, cap |-> DefaultSize] BY <3>1
      <4>2. m = [x EXCEPT !.cur = 0, !.size = -2, !.head = 4] BY DEF MarkSeen
      <4> HIDE DEF x, m
      <4> QED BY <4>1, <4>2
    <3> HIDE DEF m
    <3> QED BY <3>2 DEF Cursors
  <2> HIDE DEF m
  <2>3. f.m = m /\ f.buf = buf /\ f \in Entry BY <1>3, <1>5, <2>1, <2>2 DEF m
  <2>4. Marked(f, p) BY <1>3, <1>6, <2>2, <2>3 DEF Marked
  <2>5. Arriving(f, p) BY <1>3, <2>2, <2>3, <2>4 DEF Arriving
  <2>6. Arrived(f, p) = 2 BY <2>2, <2>3 DEF Arrived
  <2>7. 2 <= FrameLen(p) BY <1>1, <1>6
  <2> QED BY <2>3, <2>5, <2>6, <2>7 DEF f
<1>7. CASE l < ShortMark
  <2>0. ~(l >= ShortMark) BY <1>1, <1>7, Widths
  <2>1. l # ShortMark /\ ShortAt0(buf) = l BY <1>1, <1>4, <1>7, <2>0, Widths
  <2>2. onReceive(e.m, 2, buf) = SizeKnown(e.m, l, 2)
    <3> HIDE DEF l
    <3> QED BY <1>2, <2>1 DEF onReceive
  <2> DEFINE m == SizeKnown(e.m, l, 2)
  <2>3. ToInt(l) = l /\ ToInt(2 + l) = 2 + l BY <1>1
  <2>4. checkBufSize(DefaultSize, 2 + l) \in Nat /\ checkBufSize(DefaultSize, 2 + l) >= 2 + l
    <3>1. 2 + l \in Int /\ 2 + l <= Len(p) + 6 BY <1>1
    <3>2. checkBufSize(DefaultSize, 2 + l) \in 1 .. HeapMax /\ checkBufSize(DefaultSize, 2 + l) >= 2 + l
      <4> HIDE DEF l
      <4> QED BY <3>1, Room
    <3> HIDE DEF checkBufSize
    <3> QED BY <3>2, Widths
  <2> HIDE DEF l, checkBufSize
  <2>5. m \in Cursors /\ m.start = 0 /\ m.size = l /\ m.head = 2 /\ m.cur = 2 /\ m.cap >= 2 + l
    <3>1. e.m = [size |-> -1, head |-> 2, cur |-> 0, start |-> 0, cap |-> DefaultSize] BY <1>2 DEF Cursors
    <3>2. m = [size |-> l, head |-> 2, cur |-> 2, start |-> 0, cap |-> checkBufSize(DefaultSize, 2 + l)]
      <4> DEFINE x == e.m
                 c == checkBufSize(DefaultSize, 2 + l)
      <4>1. x = [size |-> -1, head |-> 2, cur |-> 0, start |-> 0, cap |-> DefaultSize] BY <3>1
      <4>2. m = [x EXCEPT !.size = l, !.head = 2, !.cur = 2, !.start = 0, !.cap = c] BY <1>2, <2>3 DEF SizeKnown
      <4> HIDE DEF x, m, c
      <4>3. m = [size |-> l, head |-> 2, cur |-> 2, start |-> 0, cap |-> c] BY <4>1, <4>2
      <4> QED BY <4>3 DEF c
    <3> HIDE DEF m
    <3> QED BY <1>1, <2>4, <3>2 DEF Cursors
  <2> HIDE DEF m
  <2>6. f.m = m /\ f.buf = buf /\ f \in Entry BY <1>3, <1>5, <2>2, <2>5 DEF m
  <2>7. Filling(f, p)
    <3>1. 2 \in 2 .. 2 + l /\ \A k : k \notin 1 .. 2 - 2 BY <1>1
    <3> QED BY <1>3, <2>0, <2>5, <2>6, <3>1 DEF Filling, l
  <2>8. Arriving(f, p) BY <1>3, <2>5, <2>6, <2>7 DEF Arriving
  <2>9. Arrived(f, p) = 2 /\ 2 <= FrameLen(p)
    <3>1. Arrived(f, p) = FrameLen(p) - (l + 2 - 2) BY <1>1, <2>5, <2>6 DEF Arrived
    <3> QED BY <1>1, <2>0, <3>1
  <2> QED BY <2>6, <2>8, <2>9 DEF f
<1> QED BY <1>1, <1>6, <1>7, Widths

\* The four bytes behind the mark are the length.
LEMMA RecvMarked ==
  ASSUME NEW p \in Payload, NEW e \in Entry, Arriving(e, p), Marked(e, p),
         NEW bs \in Seq(Byte), Len(bs) = 4, \A k \in 1 .. 4 : bs[k] = Frame(p)[2 + k]
  PROVE  LET f == Received(e, bs)
         IN f \in Entry /\ Arriving(f, p) /\ Arrived(f, p) = 6 /\ 6 <= FrameLen(p)
<1> DEFINE l == Len(p)
           buf == memcpy(e.buf, 0, bs)
           f == Received(e, bs)
<1>1. /\ l \in Nat /\ FrameLen(p) = HeadLen(p) + l /\ HeadLen(p) = 6 /\ l >= ShortMark
      /\ \A x \in Int : x <= l + 6 => ToInt(x) = x
  BY Lengths DEF Marked
<1>2. e.m.start = 0 /\ e.m.size = -2 /\ e.m.head = 4 /\ e.m.cur = 0 /\ e.m.cap = DefaultSize
      /\ e.m \in Cursors /\ e.buf \in Seq(Byte) /\ Len(e.buf) = 2
  BY DEF Arriving, Marked
<1>3. buf \in Seq(Byte) /\ Len(buf) = 4 /\ buf[1] = bs[1] /\ buf[2] = bs[2] /\ buf[3] = bs[3] /\ buf[4] = bs[4]
  <2>1. 0 \in 0 .. Len(e.buf) /\ ~(Len(e.buf) >= 0 + Len(bs)) BY <1>2
  <2>2. /\ buf \in Seq(Byte) /\ Len(buf) = 0 + Len(bs) /\ \A k \in 1 .. Len(bs) : buf[0 + k] = bs[k]
    BY <1>2, <2>1, Copied
  <2> HIDE DEF buf
  <2> QED BY <2>2
<1> HIDE DEF buf
<1>4. UIntAt0(buf) = l
  <2>1. 2 + 1 = 3 /\ 2 + 2 = 4 /\ 2 + 3 = 5 /\ 2 + 4 = 6 OBVIOUS
  <2>2. bs[1] = Frame(p)[3] /\ bs[2] = Frame(p)[4] /\ bs[3] = Frame(p)[5] /\ bs[4] = Frame(p)[6]
    <3>1. 1 \in 1 .. 4 /\ 2 \in 1 .. 4 /\ 3 \in 1 .. 4 /\ 4 \in 1 .. 4 OBVIOUS
    <3>2. bs[1] = Frame(p)[2 + 1] /\ bs[2] = Frame(p)[2 + 2] /\ bs[3] = Frame(p)[2 + 3] /\ bs[4] = Frame(p)[2 + 4]
      BY <3>1
    <3> QED BY <2>1, <3>2
  <2>3. UIntAt0(buf) = ((Frame(p)[3] * Base + Frame(p)[4]) * Base + Frame(p)[5]) * Base + Frame(p)[6]
    BY <1>3, <2>2 DEF UIntAt0
  <2> QED BY <1>1, <2>3, Frames
<1>5. f = [m |-> onReceive(e.m, 4, buf), buf |-> buf] BY <1>2 DEF Received, buf
<1> HIDE DEF f
<1>6. onReceive(e.m, 4, buf) = SizeKnown(e.m, l, 4)
  <2> HIDE DEF l
  <2> QED BY <1>2, <1>4 DEF onReceive
<1> DEFINE m == SizeKnown(e.m, l, 4)
<1>7. ToInt(l) = l /\ ToInt(4 + l) = 4 + l BY <1>1
<1>8. checkBufSize(DefaultSize, 4 + l) \in Nat /\ checkBufSize(DefaultSize, 4 + l) >= 4 + l
  <2>1. 4 + l \in Int /\ 4 + l <= Len(p) + 6 BY <1>1
  <2>2. checkBufSize(DefaultSize, 4 + l) \in 1 .. HeapMax /\ checkBufSize(DefaultSize, 4 + l) >= 4 + l
    <3> HIDE DEF l
    <3> QED BY <2>1, Room
  <2> HIDE DEF checkBufSize
  <2> QED BY <2>2, Widths
<1> HIDE DEF l, checkBufSize
<1>9. m \in Cursors /\ m.start = 0 /\ m.size = l /\ m.head = 4 /\ m.cur = 4 /\ m.cap >= 4 + l
  <2>1. e.m = [size |-> -2, head |-> 4, cur |-> 0, start |-> 0, cap |-> DefaultSize] BY <1>2 DEF Cursors
  <2>2. m = [size |-> l, head |-> 4, cur |-> 4, start |-> 0, cap |-> checkBufSize(DefaultSize, 4 + l)]
    <3> DEFINE x == e.m
               c == checkBufSize(DefaultSize, 4 + l)
    <3>1. x = [size |-> -2, head |-> 4, cur |-> 0, start |-> 0, cap |-> DefaultSize] BY <2>1
    <3>2. m = [x EXCEPT !.size = l, !.head = 4, !.cur = 4, !.start = 0, !.cap = c] BY <1>2, <1>7 DEF SizeKnown
    <3> HIDE DEF x, m, c
    <3>3. m = [size |-> l, head |-> 4, cur |-> 4, start |-> 0, cap |-> c] BY <3>1, <3>2
    <3> QED BY <3>3 DEF c
  <2> HIDE DEF m
  <2> QED BY <1>1, <1>8, <2>2 DEF Cursors
<1> HIDE DEF m
<1>10. f.m = m /\ f.buf = buf /\ f \in Entry BY <1>3, <1>5, <1>6, <1>9 DEF m
<1>11. Filling(f, p)
  <2>1. 4 \in 4 .. 4 + l /\ \A k : k \notin 1 .. 4 - 4 BY <1>1
  <2> QED BY <1>1, <1>3, <1>9, <1>10, <2>1 DEF Filling, l
<1>12. Arriving(f, p) BY <1>3, <1>9, <1>10, <1>11 DEF Arriving
<1>13. Arrived(f, p) = 6 /\ 6 <= FrameLen(p)
  <2>1. Arrived(f, p) = FrameLen(p) - (l + 4 - 4) BY <1>1, <1>9, <1>10 DEF Arrived
  <2> QED BY <1>1, <2>1
<1> QED BY <1>10, <1>12, <1>13 DEF f

\* Payload bytes are appended to what has arrived.
LEMMA RecvFilling ==
  ASSUME NEW p \in Payload, NEW e \in Entry, Arriving(e, p), Filling(e, p),
         NEW bs \in Seq(Byte), Len(bs) <= Len(p) - e.m.cur + e.m.head,
         \A k \in 1 .. Len(bs) : bs[k] = Frame(p)[Arrived(e, p) + k]
  PROVE  LET f == Received(e, bs)
         IN /\ f \in Entry /\ Arriving(f, p)
            /\ Arrived(f, p) = Arrived(e, p) + Len(bs) /\ Arrived(e, p) + Len(bs) <= FrameLen(p)
<1> DEFINE l == Len(p)
           n == Len(bs)
           h == e.m.head
           cur == e.m.cur
           eb == e.buf
           buf == memcpy(eb, cur, bs)
           f == Received(e, bs)
           g == Arrived(e, p)
           hl == HeadLen(p)
           m == onReceive(e.m, n, buf)
<1>1. /\ l \in Nat /\ FrameLen(p) = hl + l /\ hl \in Nat /\ n \in Nat BY Lengths
<1>2. /\ e.m.size = l /\ h = (IF l >= ShortMark THEN 4 ELSE 2) /\ cur \in h .. h + l /\ e.m.start = 0
      /\ h + l <= e.m.cap /\ eb \in Seq(Byte) /\ Len(eb) = cur /\ e.m \in Cursors
      /\ \A k \in 1 .. cur - h : eb[h + k] = p[k]
  BY DEF Filling, Arriving
<1>3. h \in Nat /\ cur \in Nat /\ h <= cur /\ n <= l - cur + h /\ e.m.cap \in Nat
  BY <1>1, <1>2 DEF Cursors
<1>4. g = hl + l - (l + h - cur) BY <1>1, <1>2 DEF Arrived
<1>5. f = [m |-> m, buf |-> buf] BY DEF Received
<1>6. /\ buf \in Seq(Byte) /\ Len(buf) = (IF Len(eb) >= cur + n THEN Len(eb) ELSE cur + n)
      /\ \A k \in 1 .. n : buf[cur + k] = bs[k]
      /\ \A k \in 1 .. Len(eb) : k \notin cur + 1 .. cur + n => buf[k] = eb[k]
  <2>1. cur \in 0 .. Len(eb) /\ eb \in Seq(Byte) BY <1>2, <1>3
  <2> HIDE DEF eb, cur
  <2> QED BY <2>1, Copied
<1>7. m = [e.m EXCEPT !.cur = cur + n]
  <2> HIDE DEF buf
  <2>1. e.m.size # -1 /\ e.m.size # -2 BY <1>1, <1>2
  <2> QED BY <2>1 DEF onReceive
<1>8. \A k \in 1 .. n : bs[k] = Frame(p)[g + k] OBVIOUS
<1>9. \A k \in 1 .. l : Frame(p)[hl + k] = p[k] BY Frames
<1> HIDE DEF l, h, cur, eb, buf, f, g, hl, n
<1>10. cur + n \in h .. h + l /\ cur + n \in Nat /\ g = hl + (cur - h) BY ONLY <1>1, <1>3, <1>4
<1>11. /\ m \in Cursors /\ m.size = l /\ m.head = h /\ m.cur = cur + n /\ m.start = 0 /\ m.cap = e.m.cap
  <2> DEFINE x == e.m
  <2>1. x \in Cursors /\ x.size = l /\ x.head = h /\ x.start = 0 BY <1>2 DEF h
  <2>2. m = [x EXCEPT !.cur = cur + n] BY <1>7
  <2>3. e.m.cap = x.cap OBVIOUS
  <2> HIDE DEF x, m
  <2> QED BY <1>10, <2>1, <2>2, <2>3 DEF Cursors
<1> HIDE DEF m
<1>12. f.m = m /\ f.buf = buf /\ f \in Entry BY <1>5, <1>6, <1>11
<1>13. ASSUME NEW k \in 1 .. cur + n - h PROVE buf[h + k] = p[k]
  <2>1. CASE k <= cur - h
    <3>1. k \in 1 .. cur - h /\ h + k \in 1 .. Len(eb) /\ h + k \notin cur + 1 .. cur + n
      BY <1>1, <1>2, <1>3, <2>1
    <3> QED BY <1>2, <1>6, <3>1
  <2>2. CASE k > cur - h
    <3> DEFINE j == k - (cur - h)
    <3>1. j \in 1 .. n /\ h + k = cur + j /\ g + j = hl + k /\ k \in 1 .. l BY ONLY <1>1, <1>3, <1>4, <2>2, k \in 1 .. cur + n - h
    <3> HIDE DEF j
    <3>2. buf[cur + j] = bs[j] /\ bs[j] = Frame(p)[g + j] /\ Frame(p)[hl + k] = p[k] BY <1>6, <1>8, <1>9, <3>1
    <3> QED BY <3>1, <3>2
  <2> QED BY <1>1, <1>3, <2>1, <2>2
<1>14. Len(buf) = cur + n BY <1>1, <1>2, <1>3, <1>6
<1>a. /\ f.m.size = l /\ f.m.head = h /\ f.m.cur = cur + n /\ f.m.cap = e.m.cap /\ f.buf = buf BY <1>11, <1>12
<1>15. Filling(f, p)
  <2>1. l = Len(p) BY DEF l
  <2>3. h = (IF l >= ShortMark THEN 4 ELSE 2) /\ h + l <= e.m.cap BY <1>2
  <2>4. cur + n \in h .. h + l BY <1>10
  <2>5. \A k \in 1 .. f.m.cur - f.m.head : f.buf[f.m.head + k] = p[k]
    <3>1. \A k \in 1 .. cur + n - h : buf[h + k] = p[k] BY <1>13
    <3> QED BY ONLY <1>1, <1>3, <1>a, <3>1
  <2>6. f.m.size = Len(p) /\ f.m.head = (IF Len(p) >= ShortMark THEN 4 ELSE 2) BY <1>a, <2>1, <2>3
  <2>7. f.m.cur \in f.m.head .. f.m.head + Len(p) /\ f.m.head + Len(p) <= f.m.cap BY <1>a, <2>1, <2>3, <2>4
  <2>8. Len(f.buf) = f.m.cur BY <1>14, <1>a
  <2> QED BY <2>5, <2>6, <2>7, <2>8 DEF Filling
<1>16. Arriving(f, p) BY <1>6, <1>11, <1>12, <1>15 DEF Arriving
<1>17. Arrived(f, p) = g + n /\ g + n <= FrameLen(p)
  <2>1. Arrived(f, p) = hl + l - (l + h - (cur + n)) /\ FrameLen(p) = hl + l 
    <3>1. l # -1 /\ l # -2 BY <1>1
    <3>2. Arrived(f, p) = FrameLen(p) - (l + h - (cur + n)) BY ONLY <1>a, <3>1 DEF Arrived
    <3> QED BY ONLY <1>1, <1>3, <3>2
  <2>2. hl + l - (l + h - (cur + n)) = g + n /\ g + n <= hl + l BY ONLY <1>1, <1>3, <1>4
  <2> QED BY ONLY <2>1, <2>2
<1> QED BY <1>12, <1>16, <1>17 DEF f, g, n

\* recv() of bytes of the frame, no header being split.
LEMMA RecvOne ==
  ASSUME NEW p \in Payload, NEW e \in Entry, Arriving(e, p),
         NEW bs \in Seq(Byte), Len(bs) >= 1, Len(bs) <= getReadCap(e.m), e.m.size < 0 => Len(bs) = getReadCap(e.m),
         \A k \in 1 .. Len(bs) : Arrived(e, p) + k <= FrameLen(p) => bs[k] = Frame(p)[Arrived(e, p) + k]
  PROVE  LET f == Received(e, bs)
         IN /\ f \in Entry /\ Arriving(f, p)
            /\ Arrived(f, p) = Arrived(e, p) + Len(bs) /\ Arrived(e, p) + Len(bs) <= FrameLen(p)
<1>1. /\ Len(p) \in Nat /\ FrameLen(p) = HeadLen(p) + Len(p) /\ HeadLen(p) \in Nat
      /\ HeadLen(p) = (IF Len(p) >= ShortMark THEN 6 ELSE 2)
  BY Lengths
<1>2. CASE Fresh(e)
  <2>1. Arrived(e, p) = 0 /\ Len(bs) = 2 BY <1>2 DEF Fresh, Arrived, getReadCap
  <2>2. \A k \in 1 .. 2 : bs[k] = Frame(p)[k]
    <3> TAKE k \in 1 .. 2
    <3>1. 0 + k = k /\ 0 + k <= FrameLen(p) BY <1>1
    <3> QED BY <2>1, <3>1
  <2>3. LET f == Received(e, bs)
        IN f \in Entry /\ Arriving(f, p) /\ Arrived(f, p) = 2 /\ 2 <= FrameLen(p)
    BY <1>2, <2>1, <2>2, RecvFresh
  <2> QED BY <2>1, <2>3
<1>3. CASE Marked(e, p)
  <2>1. Arrived(e, p) = 2 /\ Len(bs) = 4 /\ Len(p) >= ShortMark BY <1>3 DEF Marked, Arrived, getReadCap
  <2>2. \A k \in 1 .. 4 : bs[k] = Frame(p)[2 + k]
    <3> TAKE k \in 1 .. 4
    <3>1. 2 + k <= FrameLen(p) BY <1>1, <2>1
    <3> QED BY <2>1, <3>1
  <2>3. LET f == Received(e, bs)
        IN f \in Entry /\ Arriving(f, p) /\ Arrived(f, p) = 6 /\ 6 <= FrameLen(p)
    BY <1>3, <2>1, <2>2, RecvMarked
  <2> QED BY <2>1, <2>3
<1>4. CASE Filling(e, p)
  <2> DEFINE h == e.m.head
             cur == e.m.cur
             n == Len(bs)
             g == Arrived(e, p)
  <2>1. e.m.size = Len(p) /\ h = (IF Len(p) >= ShortMark THEN 4 ELSE 2) /\ cur \in h .. h + Len(p) BY <1>4 DEF Filling
  <2>2. n <= Len(p) - cur + h BY <1>1, <2>1 DEF getReadCap
  <2>3. g = FrameLen(p) - (Len(p) + h - cur) BY <1>1, <2>1 DEF Arrived
  <2>4. \A k \in 1 .. n : g + k <= FrameLen(p) => bs[k] = Frame(p)[g + k] OBVIOUS
  <2>5. n \in Nat OBVIOUS
  <2> HIDE DEF h, cur, g, n
  <2>a. h \in Nat /\ cur \in Nat BY <1>1, <2>1
  <2>6. g + n <= FrameLen(p) /\ g \in Int BY ONLY <1>1, <2>2, <2>3, <2>5, <2>a
  <2>7. \A k \in 1 .. n : bs[k] = Frame(p)[g + k] BY <1>1, <2>4, <2>5, <2>6
  <2> QED BY <1>4, <2>2, <2>7, RecvFilling DEF g, n, h, cur
<1> QED BY <1>2, <1>3, <1>4 DEF Arriving

-----------------------------------------------------------------------------
(* Positions in the stream *)

HIDE DEF Entry

\* No byte of the stream belongs to two frames.
LEMMA OnePlace ==
  ASSUME NEW s \in Seq(Payload), NEW off, Offsets(off, s),
         NEW i \in 1 .. Len(s), NEW j \in 1 .. Len(s),
         NEW k \in 1 .. FrameLen(s[i]), NEW l \in 1 .. FrameLen(s[j]), off[i] + k = off[j] + l
  PROVE  i = j /\ k = l
<1>1. FrameLen(s[i]) \in Nat /\ FrameLen(s[j]) \in Nat /\ off[i] \in Nat /\ off[j] \in Nat
  <2>1. s[i] \in Payload /\ s[j] \in Payload OBVIOUS
  <2>2. i \in 1 .. Len(s) + 1 /\ j \in 1 .. Len(s) + 1 OBVIOUS
  <2>3. off[i] \in Nat /\ off[j] \in Nat BY <2>2 DEF Offsets
  <2> QED BY <2>1, <2>3, Lengths
<1>2. i \in 1 .. Len(s) + 1 /\ j \in 1 .. Len(s) + 1 OBVIOUS
<1>3. i < j => off[i] + FrameLen(s[i]) <= off[j] BY <1>2 DEF Offsets
<1>4. j < i => off[j] + FrameLen(s[j]) <= off[i] BY <1>2 DEF Offsets
<1>5. ~(i < j) BY <1>1, <1>3
<1>6. ~(j < i) BY <1>1, <1>4
<1>7. i = j BY <1>5, <1>6
<1> QED BY <1>1, <1>7

\* A new message begins where the last one ends.
Extended(off, s, p) == [i \in 1 .. Len(s) + 2 |-> IF i = Len(s) + 2 THEN off[Len(s) + 1] + FrameLen(p) ELSE off[i]]

\* The positions of the frames after one more message was queued.
LEMMA OffExtends ==
  ASSUME NEW s \in Seq(Payload), NEW off, Offsets(off, s), NEW p \in Payload
  PROVE  /\ Offsets(Extended(off, s, p), Append(s, p))
         /\ \A i \in 1 .. Len(s) + 1 : Extended(off, s, p)[i] = off[i]
<1> DEFINE n == Len(s)
           t == Append(s, p)
           o == Extended(off, s, p)
<1>1. /\ n \in Nat /\ Len(t) = n + 1 /\ t[n + 1] = p /\ \A i \in 1 .. n : t[i] = s[i] /\ s[i] \in Payload
  OBVIOUS
<1>2. /\ off \in [1 .. n + 1 -> Nat]
      /\ \A i \in 1 .. n : off[i + 1] = off[i] + FrameLen(s[i])
      /\ \A i \in 1 .. n : \A j \in 1 .. n + 1 : i < j => off[i] + FrameLen(s[i]) <= off[j]
  BY DEF Offsets
<1>3. FrameLen(p) \in Nat /\ \A i \in 1 .. n : FrameLen(s[i]) \in Nat BY <1>1, Lengths
<1>4. o = [i \in 1 .. n + 2 |-> IF i = n + 2 THEN off[n + 1] + FrameLen(p) ELSE off[i]] BY DEF Extended
<1> HIDE DEF n, t, o
<1>5. /\ o[n + 2] = off[n + 1] + FrameLen(p) /\ \A i \in 1 .. n + 1 : o[i] = off[i]
  BY <1>1, <1>4
<1>6. o \in [1 .. n + 2 -> Nat] BY <1>1, <1>2, <1>3, <1>4
<1>7. ASSUME NEW i \in 1 .. n + 1 PROVE o[i + 1] = o[i] + FrameLen(t[i])
  <2>1. CASE i = n + 1 BY <1>1, <1>5, <2>1
  <2>2. CASE i # n + 1
    <3>1. i \in 1 .. n /\ i + 1 \in 1 .. n + 1 BY <1>1, <2>2
    <3> QED BY <1>1, <1>2, <1>5, <3>1
  <2> QED BY <2>1, <2>2
<1>8. ASSUME NEW i \in 1 .. n + 1, NEW j \in 1 .. n + 2, i < j PROVE o[i] + FrameLen(t[i]) <= o[j]
  <2>1. CASE i = n + 1
    <3>1. j = n + 2 BY <1>1, <1>8, <2>1
    <3> QED BY <1>1, <1>2, <1>3, <1>5, <2>1, <3>1
  <2>2. CASE i # n + 1
    <3>1. i \in 1 .. n /\ i < n + 1 /\ n + 1 \in 1 .. n + 1 BY <1>1, <2>2
    <3>2. o[i] = off[i] /\ t[i] = s[i] BY <1>1, <1>5, <3>1
    <3>3. CASE j = n + 2
      <4>1. off[i] + FrameLen(s[i]) <= off[n + 1] BY <1>2, <3>1
      <4>2. off[i] \in Nat /\ off[n + 1] \in Nat /\ FrameLen(s[i]) \in Nat BY <1>1, <1>2, <1>3, <3>1
      <4> QED BY <1>3, <1>5, <3>2, <3>3, <4>1, <4>2
    <3>4. CASE j # n + 2
      <4>1. j \in 1 .. n + 1 BY <1>1, <3>4
      <4> QED BY <1>2, <1>5, <1>8, <3>1, <3>2, <4>1
    <3> QED BY <3>3, <3>4
  <2> QED BY <2>1, <2>2
<1>9. Len(t) + 1 = n + 2 BY <1>1
<1>10. Offsets(o, t) BY <1>1, <1>6, <1>7, <1>8, <1>9 DEF Offsets
<1> QED BY <1>5, <1>10 DEF n, t, o

\* The sender is inside the stream.
LEMMA PosBound ==
  ASSUME NEW s \in Seq(Payload), NEW off, Offsets(off, s), NEW q \in Seq(Entry), NEW w, Sending(off, w, q, s)
  PROVE  w \in Nat /\ w <= off[Len(s) + 1]
<1> DEFINE n == Len(s)
           a == n - Len(q)
<1>1. n \in Nat /\ Len(q) \in Nat /\ a \in 0 .. n /\ off \in [1 .. n + 1 -> Nat]
  BY DEF Offsets, Sending
<1>2. CASE q = <<>>
  <2>1. w = off[n + 1] + 0 BY <1>2 DEF Sending
  <2> QED BY <1>1, <2>1
<1>3. CASE q # <<>>
  <2>1. 1 \in 1 .. Len(q) /\ a + 1 \in 1 .. n /\ n + 1 \in 1 .. n + 1 /\ a + 1 < n + 1 BY <1>1, <1>3
  <2>2. Queued(q[1], s[a + 1]) /\ w = off[a + 1] + (q[1].m.cur - q[1].m.start) BY <1>3, <2>1 DEF Sending
  <2>3. off[a + 1] + FrameLen(s[a + 1]) <= off[n + 1] BY <2>1 DEF Offsets
  <2>4. s[a + 1] \in Payload BY <2>1
  <2> DEFINE c == q[1].m.cur
             st == 6 - HeadLen(s[a + 1])
             fl == FrameLen(s[a + 1])
  <2>5. q[1].m.start = st /\ c \in st .. st + fl - 1 BY <2>2 DEF Queued
  <2>6. fl \in Nat /\ HeadLen(s[a + 1]) \in Nat BY <2>4, Lengths
  <2>7. off[a + 1] \in Nat /\ off[n + 1] \in Nat
    <3> DEFINE x == a + 1
    <3>1. x \in 1 .. n + 1 BY <1>1, <2>1
    <3> HIDE DEF x, n
    <3>2. off[x] \in Nat /\ off[n + 1] \in Nat BY <1>1, <2>1, <3>1
    <3> QED BY <3>2 DEF x
  <2> HIDE DEF a, n, fl, c
  <2>8. st \in Int BY <2>6
  <2> HIDE DEF st
  <2>9. c - st \in 0 .. fl BY <2>5, <2>6, <2>8
  <2>10. w = off[a + 1] + (c - st) /\ off[a + 1] + fl <= off[n + 1] BY <2>2, <2>3, <2>5 DEF c, fl
  <2>11. w \in Nat /\ w <= off[n + 1] BY ONLY <2>6, <2>7, <2>9, <2>10
  <2> QED BY <2>11 DEF n
<1> QED BY <1>2, <1>3

-----------------------------------------------------------------------------
(* The sender's steps *)

\* A message that was queued is one more frame behind the others.
LEMMA QueueStep ==
  ASSUME NEW s \in Seq(Payload), NEW off, Offsets(off, s), NEW q \in Seq(Entry), NEW w, Sending(off, w, q, s),
         NEW p \in Payload, NEW e \in Entry, Queued(e, p), e.m.cur = e.m.start
  PROVE  Sending(Extended(off, s, p), w, Append(q, e), Append(s, p))
<1> DEFINE n == Len(s)
           a == n - Len(q)
           t == Append(s, p)
           o == Extended(off, s, p)
           u == Append(q, e)
<1>1. /\ n \in Nat /\ Len(q) \in Nat /\ Len(q) <= n /\ off \in [1 .. n + 1 -> Nat]
  BY DEF Offsets, Sending
<1>2. /\ Len(t) = n + 1 /\ t[n + 1] = p /\ \A i \in 1 .. n : t[i] = s[i] OBVIOUS
<1>3. /\ Len(u) = Len(q) + 1 /\ u[Len(q) + 1] = e /\ \A i \in 1 .. Len(q) : u[i] = q[i] OBVIOUS
<1>4. \A i \in 1 .. n + 1 : o[i] = off[i] BY OffExtends
<1>5. /\ \A i \in 1 .. Len(q) : /\ Queued(q[i], s[a + i])
                                /\ i > 1 => q[i].m.cur = q[i].m.start
      /\ w = off[a + 1] + (IF q = <<>> THEN 0 ELSE q[1].m.cur - q[1].m.start)
  BY DEF Sending
<1>6. u # <<>> /\ (q = <<>> <=> Len(q) = 0) OBVIOUS
<1>7. e.m.cur \in Nat BY DEF Entry, Cursors
<1> HIDE DEF n, t, o, u
<1>8. Len(t) - Len(u) = a /\ a \in 0 .. n /\ a + 1 \in 1 .. n + 1 BY <1>1, <1>2, <1>3
<1>9. ASSUME NEW i \in 1 .. Len(u) PROVE Queued(u[i], t[a + i]) /\ (i > 1 => u[i].m.cur = u[i].m.start)
  <2>1. CASE i = Len(q) + 1
    <3>1. a + i = n + 1 BY <1>1, <2>1
    <3> QED BY <1>2, <1>3, <2>1, <3>1
  <2>2. CASE i # Len(q) + 1
    <3>1. i \in 1 .. Len(q) /\ a + i \in 1 .. n BY <1>1, <1>3, <2>2
    <3>2. u[i] = q[i] /\ t[a + i] = s[a + i] BY <1>2, <1>3, <3>1
    <3> QED BY <1>5, <3>1, <3>2
  <2> QED BY <2>1, <2>2
<1>10. w = o[a + 1] + (u[1].m.cur - u[1].m.start)
  <2>1. o[a + 1] = off[a + 1] /\ off[a + 1] \in Nat BY <1>1, <1>4, <1>8
  <2>2. CASE q = <<>>
    <3>1. u[1] = e BY <1>3, <1>6, <2>2
    <3> QED BY <1>5, <1>7, <2>1, <2>2, <3>1
  <2>3. CASE q # <<>>
    <3>1. u[1] = q[1] BY <1>1, <1>3, <1>6, <2>3
    <3> QED BY <1>5, <2>1, <2>3, <3>1
  <2> QED BY <2>2, <2>3
<1>11. Len(u) <= Len(t) BY <1>1, <1>2, <1>3
<1>12. Sending(o, w, u, t) BY <1>6, <1>8, <1>9, <1>10, <1>11 DEF Sending
<1> QED BY <1>12 DEF o, u, t

\* The bytes on the wire are not those of the new message.
LEMMA QueueCarries ==
  ASSUME NEW s \in Seq(Payload), NEW off, Offsets(off, s), NEW p \in Payload,
         NEW r \in Nat, NEW wr \in Seq(Byte), r + Len(wr) <= off[Len(s) + 1], Carrying(off, r, wr, s)
  PROVE  Carrying(Extended(off, s, p), r, wr, Append(s, p))
<1> DEFINE n == Len(s)
           t == Append(s, p)
           o == Extended(off, s, p)
<1>1. /\ n \in Nat /\ Len(t) = n + 1 /\ t[n + 1] = p /\ \A i \in 1 .. n : t[i] = s[i] OBVIOUS
<1>2. off \in [1 .. n + 1 -> Nat] /\ \A i \in 1 .. n + 1 : o[i] = off[i] BY OffExtends DEF Offsets
<1>3. r + Len(wr) <= off[n + 1] /\ Len(wr) \in Nat OBVIOUS
<1>4. FrameLen(p) \in Nat BY Lengths
<1>5. \A i \in 1 .. n : \A k \in 1 .. FrameLen(s[i]) : off[i] + k - r \in 1 .. Len(wr) => wr[off[i] + k - r] = Frame(s[i])[k]
  BY DEF Carrying
<1> HIDE DEF n, t, o
<1>6. ASSUME NEW i \in 1 .. n + 1, NEW k \in 1 .. FrameLen(t[i]), o[i] + k - r \in 1 .. Len(wr)
      PROVE  wr[o[i] + k - r] = Frame(t[i])[k]
  <2>1. CASE i = n + 1
    <3>1. o[i] = off[n + 1] /\ off[n + 1] \in Nat /\ k \in 1 .. FrameLen(p) BY <1>1, <1>2, <2>1
    <3>2. off[n + 1] + k - r > Len(wr) BY <1>3, <1>4, <3>1
    <3> QED BY <1>3, <1>4, <1>6, <3>1, <3>2
  <2>2. CASE i # n + 1
    <3>1. i \in 1 .. n /\ o[i] = off[i] /\ t[i] = s[i] BY <1>1, <1>2, <2>2
    <3> QED BY <1>5, <1>6, <3>1
  <2> QED BY <2>1, <2>2
<1>7. Carrying(o, r, wr, t) BY <1>1, <1>6 DEF Carrying
<1> QED BY <1>7 DEF o, t

\* The receiver does not see it.
LEMMA QueueReceives ==
  ASSUME NEW s \in Seq(Payload), NEW off, Offsets(off, s), NEW p \in Payload,
         NEW r, NEW q \in Seq(Entry), NEW l \in Nat, Receives(off, r, q, l, s)
  PROVE  Receives(Extended(off, s, p), r, q, l, Append(s, p))
<1> DEFINE n == Len(s)
           t == Append(s, p)
           o == Extended(off, s, p)
<1>1. /\ n \in Nat /\ Len(t) = n + 1 /\ \A i \in 1 .. n : t[i] = s[i] OBVIOUS
<1>2. \A i \in 1 .. n + 1 : o[i] = off[i] BY OffExtends
<1>3. /\ l + Len(q) <= n
      /\ \A i \in 1 .. Len(q) : Arriving(q[i], s[l + i]) /\ (i < Len(q) => isEnd(q[i].m))
      /\ r = IF q = <<>> THEN off[l + 1] ELSE off[l + Len(q)] + Arrived(q[Len(q)], s[l + Len(q)])
  BY DEF Receives
<1>4. Len(q) \in Nat /\ (q = <<>> <=> Len(q) = 0) OBVIOUS
<1> HIDE DEF n, t, o
<1>5. \A i \in 1 .. Len(q) : t[l + i] = s[l + i]
  <2> TAKE i \in 1 .. Len(q)
  <2>1. l + i \in 1 .. n BY <1>1, <1>3, <1>4
  <2> QED BY <1>1, <2>1
<1>6. r = IF q = <<>> THEN o[l + 1] ELSE o[l + Len(q)] + Arrived(q[Len(q)], t[l + Len(q)])
  <2>1. l + 1 \in 1 .. n + 1 BY <1>1, <1>3, <1>4
  <2>2. q # <<>> => l + Len(q) \in 1 .. n + 1 /\ Len(q) \in 1 .. Len(q) BY <1>1, <1>3, <1>4
  <2> QED BY <1>2, <1>3, <1>5, <2>1, <2>2
<1>7. l + Len(q) <= Len(t) BY <1>1, <1>3, <1>4
<1>8. Receives(o, r, q, l, t) BY <1>3, <1>5, <1>6, <1>7 DEF Receives
<1> QED BY <1>8 DEF o, t

\* m_sendList after one send() of n bytes from its front message.
AfterSend(q, n) ==
  IF isEnd(onSend(q[1].m, n)) THEN Tail(q) ELSE [q EXCEPT ![1] = [q[1] EXCEPT !.m = onSend(q[1].m, n)]]

\* What is sent of the front message, or the front message leaves the list.
LEMMA SendStep ==
  ASSUME NEW s \in Seq(Payload), NEW off, Offsets(off, s), NEW q \in Seq(Entry), NEW w, Sending(off, w, q, s),
         q # <<>>, NEW n \in Nat, n >= 1, n <= getSendCap(q[1].m)
  PROVE  /\ AfterSend(q, n) \in Seq(Entry) /\ Sending(off, w + n, AfterSend(q, n), s)
         /\ Len(s) - Len(q) + 1 \in 1 .. Len(s) /\ Sends(q[1], s[Len(s) - Len(q) + 1], n)
         /\ w = off[Len(s) - Len(q) + 1] + (q[1].m.cur - q[1].m.start)
<1> DEFINE N == Len(s)
           L == Len(q)
           a == N - L
           e == q[1]
           p == s[a + 1]
           g == e.m.cur - e.m.start
           fl == FrameLen(p)
           u == AfterSend(q, n)
           x == onSend(e.m, n)
           f == [e EXCEPT !.m = x]
<1>1. N \in Nat /\ L \in Nat /\ L >= 1 /\ L <= N /\ off \in [1 .. N + 1 -> Nat] BY DEF Offsets, Sending
<1>2. a \in 0 .. N - 1 /\ a + 1 \in 1 .. N /\ 1 \in 1 .. L BY <1>1
<1>3. e \in Entry /\ p \in Payload
  <2>1. e \in Entry BY <1>2
  <2> HIDE DEF a, e
  <2> QED BY <1>2, <2>1
<1>4. /\ \A i \in 1 .. L : Queued(q[i], s[a + i]) /\ (i > 1 => q[i].m.cur = q[i].m.start)
      /\ w = off[a + 1] + (IF q = <<>> THEN 0 ELSE g)
  BY DEF Sending
<1>5. Queued(e, p) BY <1>2, <1>4
<1>6. Sends(e, p, n)
  <2> HIDE DEF e, p
  <2>1. n <= getSendCap(e.m) BY DEF e
  <2> QED BY <1>3, <1>5, <2>1, SendOne
<1>7. /\ g \in Nat /\ g + n <= fl /\ (isEnd(x) <=> g + n = fl)
      /\ g + n # fl => Queued(f, p) /\ f.m.cur - f.m.start = g + n /\ f \in Entry
  <2> HIDE DEF e, p
  <2> QED BY <1>6 DEF Sends
<1>8. w = off[a + 1] + g BY <1>4
<1>9. fl \in Nat BY <1>3, Lengths
<1>10. off[a + 1] \in Nat /\ off[a + 2] = off[a + 1] + fl
  <2> DEFINE b == a + 1
  <2>1. b \in 1 .. N /\ b \in 1 .. N + 1 /\ b + 1 = a + 2 BY <1>1, <1>2
  <2> HIDE DEF b
  <2>2. off[b] \in Nat /\ off[b + 1] = off[b] + FrameLen(s[b]) BY <1>1, <2>1 DEF Offsets
  <2> QED BY <2>1, <2>2 DEF b
<1>11. u = IF isEnd(x) THEN Tail(q) ELSE [q EXCEPT ![1] = f] BY DEF AfterSend
<1>12. CASE isEnd(x)
  <2>1. u = Tail(q) /\ u \in Seq(Entry) /\ Len(u) = L - 1 /\ \A i \in 1 .. L - 1 : u[i] = q[i + 1]
    <3>1. u = Tail(q) BY <1>11, <1>12
    <3> HIDE DEF u
    <3> QED BY <1>1, <3>1
  <2>2. g + n = fl BY <1>7, <1>12
  <2> HIDE DEF u, g, fl, e, p, x, f, N, L
  <2>3. (u = <<>> <=> Len(u) = 0) /\ Len(u) \in Nat
    <3>1. u \in Seq(Entry) BY <2>1
    <3> QED BY ONLY <3>1
  <2>4. N - Len(u) = a + 1 /\ Len(u) <= N /\ a + 1 + 1 = a + 2
    <3>1. Len(u) = L - 1 BY <2>1
    <3> QED BY ONLY <1>1, <3>1
  <2>5. ASSUME NEW i \in 1 .. Len(u) PROVE Queued(u[i], s[a + 1 + i]) /\ u[i].m.cur = u[i].m.start
    <3>1. i + 1 \in 1 .. L /\ i + 1 > 1 /\ a + (i + 1) = a + 1 + i BY <1>1, <1>2, <2>1
    <3>2. u[i] = q[i + 1] BY <2>1, <2>5
    <3> QED BY <1>4, <3>1, <3>2
  <2>6. w + n = off[a + 2] BY <1>7, <1>8, <1>9, <1>10, <2>2
  <2>7. w + n = off[a + 1 + 1] + (IF u = <<>> THEN 0 ELSE u[1].m.cur - u[1].m.start)
    <3>1. off[a + 2] \in Nat BY <1>9, <1>10
    <3>2. CASE u = <<>> BY <2>4, <2>6, <3>1, <3>2
    <3>3. CASE u # <<>>
      <4>1. 1 \in 1 .. Len(u) BY <2>3, <3>3
      <4>2. u[1] \in Entry BY <2>1, <4>1
      <4>3. u[1].m.cur = u[1].m.start /\ u[1].m.cur \in Nat BY <2>5, <4>1, <4>2 DEF Entry, Cursors
      <4> QED BY <2>4, <2>6, <3>1, <3>3, <4>3
    <3> QED BY <3>2, <3>3
  <2> HIDE DEF a
  <2>8. Sending(off, w + n, u, s) BY <2>4, <2>5, <2>7 DEF Sending, N
  <2> QED BY <1>2, <1>6, <1>8, <2>1, <2>8 DEF u, g, e, p, a, N, L
<1>13. CASE ~isEnd(x)
  <2>1. u = [q EXCEPT ![1] = f] /\ f \in Entry /\ Queued(f, p) /\ f.m.cur - f.m.start = g + n
    BY <1>7, <1>11, <1>13
  <2> HIDE DEF u, f, g, fl, e, x
  <2>2. u \in Seq(Entry) /\ Len(u) = L /\ u[1] = f /\ \A i \in 1 .. L : i # 1 => u[i] = q[i] BY <1>1, <2>1
  <2>3. u # <<>> BY <1>1, <2>2
  <2>4. ASSUME NEW i \in 1 .. L PROVE Queued(u[i], s[a + i]) /\ (i > 1 => u[i].m.cur = u[i].m.start)
    <3>1. CASE i = 1 BY <2>1, <2>2, <3>1
    <3>2. CASE i # 1
      <4>1. u[i] = q[i] BY <2>2, <3>2
      <4> QED BY <1>4, <4>1
    <3> QED BY <3>1, <3>2
  <2>5. w + n = off[a + 1] + (u[1].m.cur - u[1].m.start)
    <3>1. w + n = off[a + 1] + (g + n) BY <1>7, <1>8, <1>10
    <3> QED BY <2>1, <2>2, <3>1
  <2> HIDE DEF p, L
  <2>6. N - Len(u) = a /\ Len(u) <= N BY <1>1, <2>2
  <2> HIDE DEF a
  <2>7. Sending(off, w + n, u, s) BY <2>2, <2>3, <2>4, <2>5, <2>6 DEF Sending, N
  <2> QED BY <1>2, <1>6, <1>8, <2>2, <2>7 DEF u, g, e, p, a, N, L
<1> QED BY <1>12, <1>13

\* c is the piece of the frame of p behind its first g bytes.
Piece(c, p, g) ==
  c \in Seq(Byte) /\ g + Len(c) <= FrameLen(p) /\ \A k \in 1 .. Len(c) : c[k] = Frame(p)[g + k]

\* The byte behind the wire is the one behind the first g of the b-th frame.
EndsAt(off, r, wr, b, g) == r + Len(wr) = off[b] + g

\* Adding c to the wire is right.
Carries(off, r, wr, c, s) ==
  wr \o c \in Seq(Byte) /\ Len(wr \o c) = Len(wr) + Len(c) /\ Carrying(off, r, wr \o c, s)

\* The wire carries the bytes sent behind those that were on it.
LEMMA SendCarries ==
  ASSUME NEW s \in Seq(Payload), NEW off, Offsets(off, s), NEW r \in Nat, NEW wr \in Seq(Byte), Carrying(off, r, wr, s),
         NEW b \in 1 .. Len(s), NEW g \in Nat, EndsAt(off, r, wr, b, g), NEW c, Piece(c, s[b], g)
  PROVE  Carries(off, r, wr, c, s)
<1> DEFINE v == wr \o c
           z == Len(wr)
           n == Len(c)
           fl == FrameLen(s[b])
<1>0. /\ c \in Seq(Byte) /\ n \in Nat /\ g + n <= fl /\ \A k \in 1 .. n : c[k] = Frame(s[b])[g + k]
  BY DEF Piece
<1>1. /\ v \in Seq(Byte) /\ Len(v) = z + n /\ z \in Nat
      /\ \A k \in 1 .. z : v[k] = wr[k]
      /\ \A k \in 1 .. n : v[z + k] = c[k]
  <2>1. /\ v \in Seq(Byte) /\ Len(v) = Len(wr) + Len(c)
        /\ \A k \in 1 .. Len(wr) : v[k] = wr[k]
        /\ \A k \in 1 .. Len(c) : v[Len(wr) + k] = c[k]
    BY <1>0, Joined
  <2> HIDE DEF v
  <2> QED BY <2>1
<1>2. \A i \in 1 .. Len(s) : s[i] \in Payload /\ FrameLen(s[i]) \in Nat
  <2> TAKE i \in 1 .. Len(s)
  <2>1. s[i] \in Payload OBVIOUS
  <2> QED BY <2>1, Lengths
<1>3. off \in [1 .. Len(s) + 1 -> Nat] BY DEF Offsets
<1>4. Len(s) \in Nat /\ b \in Nat OBVIOUS
<1>5. \A i \in 1 .. Len(s) : off[i] \in Nat
  <2> TAKE i \in 1 .. Len(s)
  <2>1. i \in 1 .. Len(s) + 1 BY <1>4
  <2> QED BY <1>3, <2>1
<1>6. \A i \in 1 .. Len(s) : \A k \in 1 .. FrameLen(s[i]) : off[i] + k - r \in 1 .. z => wr[off[i] + k - r] = Frame(s[i])[k]
  BY DEF Carrying
<1>7. r + z = off[b] + g BY DEF EndsAt
<1> HIDE DEF v, z, n
<1>8. ASSUME NEW i \in 1 .. Len(s), NEW k \in 1 .. FrameLen(s[i]), off[i] + k - r \in 1 .. z + n
      PROVE  v[off[i] + k - r] = Frame(s[i])[k]
  <2> DEFINE x == off[i] + k - r
  <2>0. off[i] \in Nat /\ off[b] \in Nat /\ FrameLen(s[i]) \in Nat /\ fl \in Nat BY <1>2, <1>5
  <2>1. CASE x <= z
    <3>1. x \in 1 .. z BY <1>1, <1>8, <2>0, <2>1
    <3>2. v[x] = wr[x] BY <1>1, <3>1
    <3>3. wr[x] = Frame(s[i])[k] BY <1>6, <3>1
    <3> QED BY <3>2, <3>3
  <2>2. CASE x > z
    <3> DEFINE j == x - z
    <3> HIDE DEF fl
    <3>1. j \in 1 .. n /\ x = z + j /\ g + j \in 1 .. fl /\ off[i] + k = off[b] + (g + j)
      <4>1. g + n <= fl /\ n \in Nat BY <1>0
      <4>2. k \in Nat BY <2>0
      <4>3. x \in 1 .. z + n BY <1>8
      <4> DEFINE oi == off[i]
                 ob == off[b]
      <4>4. oi \in Nat /\ ob \in Nat /\ r + z = ob + g /\ x = oi + k - r BY <1>7, <2>0
      <4> HIDE DEF oi, ob, x
      <4>5. j \in 1 .. n /\ x = z + j /\ g + j \in 1 .. fl /\ oi + k = ob + (g + j)
        BY ONLY <1>1, <2>0, <2>2, <4>1, <4>2, <4>3, <4>4, g \in Nat, r \in Nat
      <4> QED BY <4>5 DEF oi, ob
    <3> HIDE DEF j, x
    <3>2. i = b /\ k = g + j BY <3>1, OnePlace DEF fl
    <3>3. v[z + j] = c[j] /\ c[j] = Frame(s[b])[g + j] BY <1>0, <1>1, <3>1
    <3>4. v[x] = Frame(s[i])[k] BY <3>1, <3>2, <3>3
    <3> QED BY <3>4 DEF x
  <2>3. x \in Int /\ z \in Int
    <3> DEFINE oi == off[i]
    <3>1. k \in Nat /\ oi \in Nat /\ x = oi + k - r BY <2>0
    <3> HIDE DEF oi, x
    <3> QED BY <1>1, <3>1
  <2> QED BY <2>1, <2>2, <2>3
<1>9. Carrying(off, r, v, s) BY <1>1, <1>8 DEF Carrying
<1> QED BY <1>1, <1>9 DEF v, z, n, Carries

-----------------------------------------------------------------------------
(* The receiver's steps *)

\* m_recvList with a message to receive into.
Opened(q) ==
  IF q # <<>> /\ ~isEnd(q[Len(q)].m) THEN q ELSE Append(q, [m |-> NewMessage(DefaultSize), buf |-> <<>>])

\* While there are bytes to come, a new NetMessage is for the next frame.
LEMMA OpenStep ==
  ASSUME NEW s \in Seq(Payload), NEW off, Offsets(off, s), NEW r \in Nat, NEW q \in Seq(Entry), NEW l \in Nat,
         Receives(off, r, q, l, s), r < off[Len(s) + 1]
  PROVE  Opened(q) \in Seq(Entry) /\ Opened(q) # <<>> /\ Receives(off, r, Opened(q), l, s)
<1> DEFINE n == Len(s)
           L == Len(q)
           e == [m |-> NewMessage(DefaultSize), buf |-> <<>>]
           u == Append(q, e)
<1>1. /\ l + L <= n
      /\ \A i \in 1 .. L : Arriving(q[i], s[l + i]) /\ (i < L => isEnd(q[i].m))
      /\ r = IF q = <<>> THEN off[l + 1] ELSE off[l + L] + Arrived(q[L], s[l + L])
  BY DEF Receives
<1>2. n \in Nat /\ L \in Nat /\ (q = <<>> <=> L = 0) /\ off \in [1 .. n + 1 -> Nat] BY DEF Offsets
<1>3. CASE q # <<>> /\ ~isEnd(q[L].m)
  BY <1>3 DEF Opened
<1>4. CASE ~(q # <<>> /\ ~isEnd(q[L].m))
  <2>1. Opened(q) = u BY <1>4 DEF Opened
  <2>2. e \in Entry /\ Fresh(e) /\ \A p : Arriving(e, p)
    <3>1. <<>> \in Seq(Byte) OBVIOUS
    <3>2. NewMessage(DefaultSize) \in Cursors BY DEF NewMessage, Cursors
    <3>3. Fresh(e) BY DEF Fresh, NewMessage
    <3>4. e.m.start = 0 BY DEF NewMessage
    <3>5. e.m \in Cursors /\ e.buf \in Seq(Byte) /\ e \in Entry BY <3>1, <3>2 DEF Entry
    <3> HIDE DEF e
    <3> QED BY <3>3, <3>4, <3>5 DEF Arriving
  <2> HIDE DEF e
  <2>3. u \in Seq(Entry) /\ Len(u) = L + 1 /\ u[L + 1] = e /\ (\A i \in 1 .. L : u[i] = q[i]) /\ u # <<>> BY <2>2
  <2> HIDE DEF u, L, n
  <2>4. r = off[l + L + 1]
    <3>1. CASE q = <<>>
      <4>1. l + 1 = l + L + 1 BY <1>2, <3>1
      <4> QED BY <1>1, <3>1, <4>1
    <3>2. CASE q # <<>>
      <4> DEFINE b == l + L
      <4>1. isEnd(q[L].m) /\ L \in 1 .. L BY <1>2, <1>4, <3>2
      <4>2. b \in 1 .. n /\ s[b] \in Payload
        <5>1. b \in 1 .. n BY <1>1, <1>2, <3>2
        <5> HIDE DEF b
        <5> QED BY <5>1 DEF n
      <4>3. Arriving(q[L], s[b]) BY <1>1, <4>1
      <4> HIDE DEF b
      <4>4. Arrived(q[L], s[b]) = FrameLen(s[b]) BY <4>1, <4>2, <4>3, EndIsArrived
      <4>5. off[b + 1] = off[b] + FrameLen(s[b]) BY <4>2 DEF Offsets, n
      <4>6. r = off[b] + Arrived(q[L], s[b]) BY <1>1, <3>2 DEF b
      <4>7. r = off[b + 1] BY <4>4, <4>5, <4>6
      <4> QED BY <4>7 DEF b
    <3> QED BY <3>1, <3>2
  <2>5. l + L + 1 <= n
    <3>1. CASE l + L = n BY <2>4, <3>1 DEF n
    <3> QED BY <1>1, <1>2, <3>1
  <2>6. ASSUME NEW i \in 1 .. L + 1 PROVE Arriving(u[i], s[l + i]) /\ (i < L + 1 => isEnd(u[i].m))
    <3>1. CASE i = L + 1 BY <1>2, <2>2, <2>3, <3>1
    <3>2. CASE i # L + 1
      <4>1. i \in 1 .. L /\ u[i] = q[i] BY <1>2, <2>3, <3>2
      <4>2. isEnd(q[i].m)
        <5>1. CASE i = L BY <1>2, <1>4, <4>1, <5>1
        <5>2. CASE i # L BY <1>1, <1>2, <4>1, <5>2
        <5> QED BY <5>1, <5>2
      <4> QED BY <1>1, <4>1, <4>2
    <3> QED BY <3>1, <3>2
  <2>7. off[l + L + 1] \in Nat BY <2>4
  <2>8. \A p : Arrived(e, p) = 0 BY <2>2 DEF Fresh, Arrived
  <2>9. Len(u) = L + 1 /\ l + Len(u) <= n /\ l + (L + 1) = l + L + 1 BY <1>2, <2>3, <2>5
  <2>10. r = off[l + Len(u)] + Arrived(u[Len(u)], s[l + Len(u)]) BY <2>3, <2>4, <2>7, <2>8, <2>9
  <2>11. Receives(off, r, u, l, s) BY <2>3, <2>6, <2>9, <2>10 DEF Receives, n
  <2> QED BY <2>1, <2>3, <2>11
<1> QED BY <1>3, <1>4

\* The bytes that arrive are the next ones of the frame that is being received.
LEMMA RecvStep ==
  ASSUME NEW s \in Seq(Payload), NEW off, Offsets(off, s), NEW r \in Nat, NEW q \in Seq(Entry), q # <<>>, NEW l \in Nat,
         Receives(off, r, q, l, s), NEW wr \in Seq(Byte), Carrying(off, r, wr, s),
         NEW n \in Nat, n >= 1, n <= Len(wr), n <= getReadCap(q[Len(q)].m),
         q[Len(q)].m.size < 0 => n = getReadCap(q[Len(q)].m),
         NEW u, u = Front(q) \o <<Received(q[Len(q)], SubSeq(wr, 1, n))>>
  PROVE  u \in Seq(Entry) /\ Receives(off, r + n, u, l, s)
<1> DEFINE L == Len(q)
           b == l + L
           e == q[L]
           p == s[b]
           bs == SubSeq(wr, 1, n)
           f == Received(e, bs)
           g == Arrived(e, p)
           fl == FrameLen(p)
<1>1. /\ l + L <= Len(s)
      /\ \A i \in 1 .. L : Arriving(q[i], s[l + i]) /\ (i < L => isEnd(q[i].m))
      /\ r = off[b] + g
  BY DEF Receives
<1>2. L \in Nat /\ L >= 1 /\ L \in 1 .. L /\ e \in Entry OBVIOUS
<1>3. b \in 1 .. Len(s) /\ p \in Payload
  <2>1. b \in 1 .. Len(s) BY <1>1, <1>2
  <2> HIDE DEF b
  <2> QED BY <2>1
<1>4. bs \in Seq(Byte) /\ Len(bs) = n /\ \A k \in 1 .. n : bs[k] = wr[k] OBVIOUS
<1>5. Arriving(e, p) BY <1>1, <1>2
<1>6. off[b] \in Nat
  <2>1. b \in 1 .. Len(s) + 1 BY <1>3
  <2> HIDE DEF b
  <2> QED BY <2>1 DEF Offsets
<1>a. n <= getReadCap(e.m) /\ (e.m.size < 0 => n = getReadCap(e.m)) OBVIOUS
<1>b. u = Front(q) \o <<f>> OBVIOUS
<1>c. \A k \in 1 .. fl : off[b] + k - r \in 1 .. Len(wr) => wr[off[b] + k - r] = Frame(p)[k]
  <2>1. b \in 1 .. Len(s) BY <1>3
  <2> HIDE DEF b
  <2> QED BY <2>1 DEF Carrying
<1> HIDE DEF p, e, bs, f, b, g, fl
<1>7. g \in 0 .. fl /\ fl \in Nat BY <1>3, <1>5, EndIsArrived, Lengths DEF g, fl
<1>8. ASSUME NEW k \in 1 .. n, g + k <= fl PROVE bs[k] = Frame(p)[g + k]
  <2>1. g + k \in 1 .. fl /\ off[b] + (g + k) - r = k /\ k \in 1 .. Len(wr)
    <3> DEFINE ob == off[b]
               z == Len(wr)
    <3>1. ob \in Nat /\ r = ob + g /\ z \in Nat /\ n <= z BY <1>1, <1>6
    <3> HIDE DEF ob, z
    <3>2. g + k \in 1 .. fl /\ ob + (g + k) - r = k /\ k \in 1 .. z
      BY ONLY <1>7, <1>8, <3>1, k \in 1 .. n, n \in Nat
    <3> QED BY <3>2 DEF ob, z
  <2>2. wr[k] = Frame(p)[g + k] BY <1>c, <2>1
  <2> QED BY <1>4, <2>2
<1>9. f \in Entry /\ Arriving(f, p) /\ Arrived(f, p) = g + n /\ g + n <= fl
  <2>1. Len(bs) >= 1 /\ Len(bs) <= getReadCap(e.m) /\ (e.m.size < 0 => Len(bs) = getReadCap(e.m)) BY <1>4, <1>a
  <2>2. \A k \in 1 .. Len(bs) : Arrived(e, p) + k <= FrameLen(p) => bs[k] = Frame(p)[Arrived(e, p) + k]
    BY <1>4, <1>8 DEF g, fl
  <2>3. /\ f \in Entry /\ Arriving(f, p)
        /\ Arrived(f, p) = Arrived(e, p) + Len(bs) /\ Arrived(e, p) + Len(bs) <= FrameLen(p)
    BY <1>2, <1>3, <1>4, <1>5, <2>1, <2>2, RecvOne DEF f
  <2> QED BY <1>4, <2>3 DEF g, fl
<1>10. u \in Seq(Entry) /\ Len(u) = L /\ u[L] = f /\ \A i \in 1 .. L : i < L => u[i] = q[i]
  BY <1>2, <1>9, <1>b DEF Front
<1>11. u # <<>> BY <1>2, <1>10
<1>12. ASSUME NEW i \in 1 .. L PROVE Arriving(u[i], s[l + i]) /\ (i < L => isEnd(u[i].m))
  <2>1. CASE i = L BY <1>2, <1>9, <1>10, <2>1 DEF p, b
  <2>2. CASE i # L
    <3>1. u[i] = q[i] /\ i < L BY <1>2, <1>10, <2>2
    <3> QED BY <1>1, <3>1
  <2> QED BY <2>1, <2>2
<1>13. r + n = off[b] + (g + n) BY <1>1, <1>6, <1>7
<1>14. r + n = off[l + Len(u)] + Arrived(u[Len(u)], s[l + Len(u)]) BY <1>9, <1>10, <1>13 DEF b, p
<1>15. l + Len(u) <= Len(s) BY <1>1, <1>10
<1> HIDE DEF L
<1> QED BY <1>10, <1>11, <1>12, <1>14, <1>15 DEF Receives

\* What recv() leaves on the wire has moved by n.
LEMMA RecvCarries ==
  ASSUME NEW s \in Seq(Payload), NEW off, Offsets(off, s), NEW r \in Nat, NEW wr \in Seq(Byte), Carrying(off, r, wr, s),
         NEW n \in Nat, n <= Len(wr)
  PROVE  LET v == SubSeq(wr, n + 1, Len(wr))
         IN v \in Seq(Byte) /\ r + n + Len(v) = r + Len(wr) /\ Carrying(off, r + n, v, s)
<1> DEFINE v == SubSeq(wr, n + 1, Len(wr))
           z == Len(wr)
<1>1. v \in Seq(Byte) /\ Len(v) = z - n /\ z \in Nat /\ \A x \in 1 .. z - n : v[x] = wr[x + n] OBVIOUS
<1>2. \A i \in 1 .. Len(s) : off[i] \in Nat /\ FrameLen(s[i]) \in Nat
  <2> TAKE i \in 1 .. Len(s)
  <2>1. i \in 1 .. Len(s) + 1 /\ s[i] \in Payload OBVIOUS
  <2>2. off[i] \in Nat BY <2>1 DEF Offsets
  <2> QED BY <2>1, <2>2, Lengths
<1>3. n <= z OBVIOUS
<1>4. \A i \in 1 .. Len(s) : \A k \in 1 .. FrameLen(s[i]) : off[i] + k - r \in 1 .. z => wr[off[i] + k - r] = Frame(s[i])[k]
  BY DEF Carrying
<1> HIDE DEF v, z
<1>5. ASSUME NEW i \in 1 .. Len(s), NEW k \in 1 .. FrameLen(s[i]), off[i] + k - (r + n) \in 1 .. z - n
      PROVE  v[off[i] + k - (r + n)] = Frame(s[i])[k]
  <2> DEFINE o == off[i]
  <2>1. o \in Nat /\ k \in Nat /\ o + k - (r + n) \in 1 .. z - n BY <1>2, <1>5
  <2> HIDE DEF o
  <2>2. o + k - r \in 1 .. z /\ o + k - (r + n) + n = o + k - r BY <1>1, <1>3, <2>1
  <2>3. v[o + k - (r + n)] = wr[o + k - r] BY <1>1, <2>1, <2>2
  <2>4. wr[o + k - r] = Frame(s[i])[k] BY <1>4, <2>2 DEF o
  <2> QED BY <2>3, <2>4 DEF o
<1>6. Carrying(off, r + n, v, s) BY <1>1, <1>5 DEF Carrying
<1>7. r + n + Len(v) = r + z BY <1>1
<1> QED BY <1>1, <1>6, <1>7 DEF v, z

\* What ReadRaw(GetSize()) returns after ResetForRead.
Contents(e) == SubSeq(e.buf, e.m.start + e.m.head + 1, e.m.start + e.m.head + e.m.size)

\* The front message is the next one to load, and it leaves the list.
Loads(off, r, q, l, s) ==
  /\ l + 1 \in 1 .. Len(s) /\ Contents(q[1]) = s[l + 1]
  /\ Tail(q) \in Seq(Entry) /\ Receives(off, r, Tail(q), l + 1, s)

\* The front message is loaded as it was sent.
LEMMA LoadStep ==
  ASSUME NEW s \in Seq(Payload), NEW off, Offsets(off, s), NEW r, NEW q \in Seq(Entry), q # <<>>, NEW l \in Nat,
         Receives(off, r, q, l, s), isEnd(q[1].m)
  PROVE  Loads(off, r, q, l, s)
<1> DEFINE L == Len(q)
           e == q[1]
           p == s[l + 1]
           u == Tail(q)
<1>1. /\ l + L <= Len(s)
      /\ \A i \in 1 .. L : Arriving(q[i], s[l + i]) /\ (i < L => isEnd(q[i].m))
      /\ r = off[l + L] + Arrived(q[L], s[l + L])
  BY DEF Receives
<1>2. L \in Nat /\ L >= 1 /\ 1 \in 1 .. L /\ e \in Entry OBVIOUS
<1>3. l + 1 \in 1 .. Len(s) /\ p \in Payload
  <2>1. l + 1 \in 1 .. Len(s) BY <1>1, <1>2
  <2> QED BY <2>1
<1>4. Arriving(e, p) /\ isEnd(e.m) BY <1>1, <1>2
<1>5. u \in Seq(Entry) /\ Len(u) = L - 1 /\ (\A i \in 1 .. L - 1 : u[i] = q[i + 1]) /\ (u = <<>> <=> L = 1)
  <2>1. u \in Seq(Entry) /\ Len(u) = L - 1 /\ (\A i \in 1 .. L - 1 : u[i] = q[i + 1]) OBVIOUS
  <2> HIDE DEF u
  <2>2. u = <<>> <=> Len(u) = 0 BY ONLY <2>1
  <2> QED BY <1>2, <2>1, <2>2
<1> HIDE DEF e, p, u, L
<1>6. Filling(e, p) /\ e.m.cur = e.m.head + Len(p) /\ Arrived(e, p) = FrameLen(p) BY <1>3, <1>4, EndIsArrived
<1>7. Contents(e) = p
  <2> DEFINE h == e.m.head
             n == Len(p)
             eb == e.buf
  <2>1. p \in Seq(Byte) /\ n \in Nat BY <1>3, PayloadAssumption
  <2>2. /\ h \in Nat /\ e.m.start = 0 /\ e.m.size = n /\ eb \in Seq(Byte) /\ Len(eb) = h + n
        /\ \A k \in 1 .. e.m.cur - h : eb[h + k] = p[k]
    BY <1>4, <1>6 DEF Filling, Arriving, Cursors
  <2>3. e.m.cur = h + n BY <1>6
  <2> HIDE DEF h, eb, n
  <2>4. \A k \in 1 .. n : eb[h + k] = p[k]
    <3>1. e.m.cur - h = n BY <2>1, <2>2, <2>3
    <3> QED BY <2>2, <3>1
  <2> DEFINE v == SubSeq(eb, h + 1, h + n)
  <2>5. v \in Seq(Byte) /\ Len(v) = n /\ \A k \in 1 .. n : v[k] = eb[h + k] BY <2>1, <2>2
  <2> HIDE DEF v
  <2>6. v = p
    <3>1. Len(v) = Len(p) /\ \A k \in 1 .. Len(p) : v[k] = p[k] BY <2>4, <2>5 DEF n
    <3> QED BY ONLY <2>1, <2>5, <3>1
  <2>7. e.m.start + e.m.head + 1 = h + 1 /\ e.m.start + e.m.head + e.m.size = h + n BY <2>1, <2>2 DEF h
  <2> QED BY <2>6, <2>7 DEF v, eb, Contents
<1>8. ASSUME NEW i \in 1 .. L - 1 PROVE Arriving(u[i], s[l + 1 + i]) /\ (i < L - 1 => isEnd(u[i].m))
  <2>1. i + 1 \in 1 .. L /\ l + (i + 1) = l + 1 + i /\ (i < L - 1 => i + 1 < L) BY <1>2
  <2> QED BY <1>1, <1>5, <1>8, <2>1
<1>9. r = IF u = <<>> THEN off[l + 1 + 1] ELSE off[l + 1 + Len(u)] + Arrived(u[Len(u)], s[l + 1 + Len(u)])
  <2>1. CASE L = 1
    <3>1. r = off[l + 1] + FrameLen(p) BY <1>1, <1>6, <2>1 DEF e, p
    <3>2. off[l + 1 + 1] = off[l + 1] + FrameLen(p) BY <1>3 DEF Offsets, p
    <3> QED BY <1>5, <2>1, <3>1, <3>2
  <2>2. CASE L # 1
    <3>1. L - 1 \in 1 .. L - 1 /\ L - 1 + 1 = L /\ l + 1 + (L - 1) = l + L BY <1>2, <2>2
    <3>2. u[L - 1] = q[L] BY <1>5, <3>1
    <3> QED BY <1>1, <1>5, <2>2, <3>1, <3>2
  <2> QED BY <2>1, <2>2
<1>10. l + 1 + Len(u) <= Len(s) BY <1>1, <1>2, <1>5
<1>11. Receives(off, r, u, l + 1, s) BY <1>5, <1>8, <1>9, <1>10 DEF Receives
<1> QED BY <1>3, <1>5, <1>7, <1>11 DEF e, p, u, Loads

-----------------------------------------------------------------------------
(* The invariant is kept *)

\* Before the first message all positions are 0.
LEMMA InitIInv == Init => IInv
<1> SUFFICES ASSUME Init PROVE IInv
  OBVIOUS
<1> DEFINE off == [i \in 1 .. 1 |-> 0]
<1>1. sendList = <<>> /\ wire = <<>> /\ recvList = <<>> /\ sent = <<>> /\ loaded = <<>> BY DEF Init
<1>2. Len(<<>>) = 0 /\ 1 .. 0 = {} /\ 0 + 1 = 1 OBVIOUS
<1>3. TypeOK BY <1>1 DEF TypeOK
<1>4. off \in [1 .. 1 -> Nat] /\ off[1] = 0 OBVIOUS
<1> HIDE DEF off
<1>5. Offsets(off, <<>>) BY <1>2, <1>4 DEF Offsets
<1>6. Sending(off, 0, <<>>, <<>>) BY <1>2, <1>4 DEF Sending
<1>7. Carrying(off, 0, <<>>, <<>>) BY <1>2 DEF Carrying
<1>8. Receives(off, 0, <<>>, 0, <<>>) BY <1>2, <1>4 DEF Receives
<1>9. At(off, 0) BY <1>1, <1>2, <1>5, <1>6, <1>7, <1>8 DEF At
<1>10. off \in [1 .. Len(sent) + 1 -> Nat] /\ 0 \in Nat BY <1>1, <1>2, <1>4
<1> QED BY <1>3, <1>9, <1>10 DEF IInv

\* SendMsg adds a frame to the stream.
LEMMA SendMsgIInv ==
  ASSUME IInv, NEW p \in Payload, SendMsg(p)
  PROVE  IInv'
<1>1. PICK off \in [1 .. Len(sent) + 1 -> Nat], r \in Nat : At(off, r) BY DEF IInv
<1>2. /\ sendList \in Seq(Entry) /\ recvList \in Seq(Entry) /\ wire \in Seq(Byte)
      /\ sent \in Seq(Payload) /\ loaded \in Seq(Seq(Byte))
  BY DEF IInv, TypeOK
<1> DEFINE e == [Written(p) EXCEPT !.m = ResetForSend(Written(p).m)]
<1>a. PICK o : o = Extended(off, sent, p) OBVIOUS
<1>3. /\ sendList' = Append(sendList, e) /\ sent' = Append(sent, p)
      /\ wire' = wire /\ recvList' = recvList /\ loaded' = loaded
  BY DEF SendMsg
<1>4. Queued(e, p) /\ e.m.cur = e.m.start /\ e \in Entry BY WrittenIsQueued
<1> HIDE DEF e
<1>5. TypeOK' BY <1>2, <1>3, <1>4 DEF TypeOK
<1>6. /\ Offsets(off, sent) /\ Sending(off, r + Len(wire), sendList, sent)
      /\ Carrying(off, r, wire, sent) /\ Receives(off, r, recvList, Len(loaded), sent)
  BY <1>1 DEF At
<1>7. Len(loaded) \in Nat BY <1>2
<1>8. r + Len(wire) <= off[Len(sent) + 1] BY <1>2, <1>6, PosBound
<1>9. Offsets(o, Append(sent, p)) BY <1>2, <1>a, <1>6, OffExtends
<1>10. Sending(o, r + Len(wire), Append(sendList, e), Append(sent, p)) BY <1>2, <1>a, <1>4, <1>6, QueueStep
<1>11. Carrying(o, r, wire, Append(sent, p)) BY <1>2, <1>a, <1>6, <1>8, QueueCarries
<1>12. Receives(o, r, recvList, Len(loaded), Append(sent, p)) BY <1>2, <1>a, <1>6, <1>7, QueueReceives
<1>13. At(o, r)' BY <1>3, <1>9, <1>10, <1>11, <1>12 DEF At
<1>14. o \in [1 .. Len(sent') + 1 -> Nat] BY <1>3, <1>9 DEF Offsets
<1> QED BY <1>5, <1>13, <1>14 DEF IInv

\* send() moves the next bytes of the stream to the wire.
LEMMA SendIInv ==
  ASSUME IInv, NEW n \in Nat, n >= 1, Send(n)
  PROVE  IInv'
<1>1. PICK off \in [1 .. Len(sent) + 1 -> Nat], r \in Nat : At(off, r) BY DEF IInv
<1>2. /\ sendList \in Seq(Entry) /\ recvList \in Seq(Entry) /\ wire \in Seq(Byte)
      /\ sent \in Seq(Payload) /\ loaded \in Seq(Seq(Byte))
  BY DEF IInv, TypeOK
<1> DEFINE e == sendList[1]
           b == Len(sent) - Len(sendList) + 1
           c == SubSeq(e.buf, e.m.cur + 1, e.m.cur + n)
           g == e.m.cur - e.m.start
           w == r + Len(wire)
<1>3. sendList # <<>> /\ Head(sendList) = e BY <1>2 DEF Send
<1>4. /\ n <= getSendCap(e.m) /\ wire' = wire \o c
      /\ recvList' = recvList /\ sent' = sent /\ loaded' = loaded
  BY <1>3 DEF Send
<1>5. sendList' = AfterSend(sendList, n)
  <2>1. sendList' = IF isEnd(onSend(e.m, n)) THEN Tail(sendList) ELSE [sendList EXCEPT ![1].m = onSend(e.m, n)]
    BY <1>3 DEF Send
  <2> QED BY <1>2, <1>3, <2>1 DEF AfterSend
<1>6. /\ Offsets(off, sent) /\ Sending(off, w, sendList, sent)
      /\ Carrying(off, r, wire, sent) /\ Receives(off, r, recvList, Len(loaded), sent)
  BY <1>1 DEF At
<1>7. /\ AfterSend(sendList, n) \in Seq(Entry) /\ Sending(off, w + n, AfterSend(sendList, n), sent)
      /\ b \in 1 .. Len(sent) /\ Sends(e, sent[b], n) /\ w = off[b] + g
  <2> HIDE DEF w
  <2> QED BY <1>2, <1>3, <1>4, <1>6, SendStep
<1>8. /\ g \in Nat /\ g + n <= FrameLen(sent[b]) /\ c \in Seq(Byte) /\ Len(c) = n
      /\ \A k \in 1 .. n : c[k] = Frame(sent[b])[g + k]
  <2> HIDE DEF e, b
  <2> QED BY <1>7 DEF Sends
<1> HIDE DEF e, b, c, g
<1>9. wire \o c \in Seq(Byte) /\ Len(wire \o c) = Len(wire) + n /\ Carrying(off, r, wire \o c, sent)
  <2>1. EndsAt(off, r, wire, b, g) BY <1>7 DEF EndsAt
  <2>2. Offsets(off, sent) /\ Carrying(off, r, wire, sent) /\ b \in 1 .. Len(sent) BY <1>6, <1>7
  <2>3. wire \in Seq(Byte) /\ sent \in Seq(Payload) BY <1>2
  <2>4. Piece(c, sent[b], g) /\ Len(c) = n /\ g \in Nat BY <1>8 DEF Piece
  <2>5. Carries(off, r, wire, c, sent) BY <2>1, <2>2, <2>3, <2>4, SendCarries
  <2> QED BY <2>4, <2>5 DEF Carries
<1>10. r + Len(wire') = w + n
  <2>1. Len(wire') = Len(wire) + n /\ Len(wire) \in Nat BY <1>2, <1>4, <1>9
  <2> QED BY <2>1
<1> HIDE DEF w
<1>11. TypeOK' BY <1>2, <1>4, <1>5, <1>7, <1>9 DEF TypeOK
<1>12. At(off, r)'
  <2>1. Sending(off, r + Len(wire'), sendList', sent') BY <1>4, <1>5, <1>7, <1>10
  <2>2. Carrying(off, r, wire', sent') BY <1>4, <1>9
  <2>3. Offsets(off, sent') /\ Receives(off, r, recvList', Len(loaded'), sent') BY <1>4, <1>6
  <2> QED BY <2>1, <2>2, <2>3 DEF At
<1>13. off \in [1 .. Len(sent') + 1 -> Nat] BY <1>4, <1>6 DEF Offsets
<1> QED BY <1>11, <1>12, <1>13 DEF IInv

\* recv() takes the next bytes of the stream from the wire.
LEMMA RecvIInv ==
  ASSUME ~ShortHeaderReads, IInv, NEW n \in Nat, n >= 1, Recv(n)
  PROVE  IInv'
<1>1. PICK off \in [1 .. Len(sent) + 1 -> Nat], r \in Nat : At(off, r) BY DEF IInv
<1>2. /\ sendList \in Seq(Entry) /\ recvList \in Seq(Entry) /\ wire \in Seq(Byte)
      /\ sent \in Seq(Payload) /\ loaded \in Seq(Seq(Byte))
  BY DEF IInv, TypeOK
<1> DEFINE q == Opened(recvList)
           e == q[Len(q)]
           bs == SubSeq(wire, 1, n)
           u == Front(q) \o <<Received(e, bs)>>
           v == SubSeq(wire, n + 1, Len(wire))
<1>3. Receiving = q BY DEF Receiving, Opened, Last
<1>4. Last(Receiving) = e BY <1>3 DEF Last
<1> HIDE DEF q
<1>5. /\ n <= Len(wire) /\ n <= getReadCap(e.m) /\ (e.m.size < 0 => n = getReadCap(e.m))
      /\ wire' = v /\ sendList' = sendList /\ sent' = sent /\ loaded' = loaded
  BY <1>4 DEF Recv
<1>6. Len(bs) = n BY <1>2, <1>5
<1>7. recvList' = u
  <2> DEFINE buf == memcpy(e.buf, e.m.cur, bs)
  <2>1. recvList' = Front(q) \o <<[m |-> onReceive(e.m, n, buf), buf |-> buf]>> BY <1>3, <1>4 DEF Recv
  <2>2. Received(e, bs) = [m |-> onReceive(e.m, n, buf), buf |-> buf]
    <3> HIDE DEF e, bs
    <3> QED BY <1>6 DEF Received
  <2> QED BY <2>1, <2>2
<1>8. /\ Offsets(off, sent) /\ Sending(off, r + Len(wire), sendList, sent)
      /\ Carrying(off, r, wire, sent) /\ Receives(off, r, recvList, Len(loaded), sent)
  BY <1>1 DEF At
<1>9. Len(loaded) \in Nat /\ Len(wire) \in Nat /\ Len(sent) \in Nat BY <1>2
<1>10. r < off[Len(sent) + 1]
  <2>1. r + Len(wire) <= off[Len(sent) + 1] BY <1>2, <1>8, PosBound
  <2>2. off[Len(sent) + 1] \in Nat BY <1>8, <1>9 DEF Offsets
  <2> QED BY <1>5, <1>9, <2>1, <2>2
<1>11. q \in Seq(Entry) /\ q # <<>> /\ Receives(off, r, q, Len(loaded), sent)
  BY <1>2, <1>8, <1>9, <1>10, OpenStep DEF q
<1>12. u \in Seq(Entry) /\ Receives(off, r + n, u, Len(loaded), sent)
  BY <1>2, <1>5, <1>8, <1>9, <1>11, RecvStep
<1>13. v \in Seq(Byte) /\ r + n + Len(v) = r + Len(wire) /\ Carrying(off, r + n, v, sent)
  BY <1>2, <1>5, <1>8, RecvCarries
<1> HIDE DEF u, v
<1>14. TypeOK' BY <1>2, <1>5, <1>7, <1>12, <1>13 DEF TypeOK
<1>15. At(off, r + n)'
  <2>1. Sending(off, r + n + Len(wire'), sendList', sent') BY <1>5, <1>8, <1>13
  <2>2. Carrying(off, r + n, wire', sent') /\ Offsets(off, sent') BY <1>5, <1>8, <1>13
  <2>3. Receives(off, r + n, recvList', Len(loaded'), sent') BY <1>5, <1>7, <1>12
  <2> QED BY <2>1, <2>2, <2>3 DEF At
<1>16. off \in [1 .. Len(sent') + 1 -> Nat] /\ r + n \in Nat BY <1>5, <1>8 DEF Offsets
<1> QED BY <1>14, <1>15, <1>16 DEF IInv

\* LoadMsg hands over the payload that was sent.
LEMMA LoadMsgIInv ==
  ASSUME IInv, LoadMsg
  PROVE  IInv' /\ Channel!Load
<1>1. PICK off \in [1 .. Len(sent) + 1 -> Nat], r \in Nat : At(off, r) BY DEF IInv
<1>2. /\ sendList \in Seq(Entry) /\ recvList \in Seq(Entry) /\ wire \in Seq(Byte)
      /\ sent \in Seq(Payload) /\ loaded \in Seq(Seq(Byte))
  BY DEF IInv, TypeOK
<1> DEFINE e == recvList[1]
           l == Len(loaded)
<1>3. recvList # <<>> /\ Head(recvList) = e /\ isEnd(e.m) BY <1>2 DEF LoadMsg
<1>4. e \in Entry BY <1>2, <1>3
<1>5. /\ recvList' = Tail(recvList) /\ sendList' = sendList /\ wire' = wire /\ sent' = sent
      /\ loaded' = Append(loaded, Contents(e))
  <2> DEFINE f == [e EXCEPT !.m = ResetForRead(e.m)]
  <2>1. loaded' = Append(loaded, SubSeq(f.buf, f.m.cur + 1, f.m.cur + f.m.size)) BY <1>3 DEF LoadMsg
  <2>2. f.buf = e.buf /\ f.m.cur = e.m.start + e.m.head /\ f.m.size = e.m.size
    <3> HIDE DEF e
    <3> QED BY <1>4 DEF ResetForRead, Entry, Cursors
  <2> QED BY <2>1, <2>2 DEF LoadMsg, Contents
<1>6. /\ Offsets(off, sent) /\ Sending(off, r + Len(wire), sendList, sent)
      /\ Carrying(off, r, wire, sent) /\ Receives(off, r, recvList, l, sent)
  BY <1>1 DEF At
<1>7. l \in Nat /\ Len(sent) \in Nat BY <1>2
<1>8. /\ l + 1 \in 1 .. Len(sent) /\ Tail(recvList) \in Seq(Entry)
      /\ Receives(off, r, Tail(recvList), l + 1, sent) /\ Contents(e) = sent[l + 1]
  <2>1. Loads(off, r, recvList, Len(loaded), sent)
    BY <1>2, <1>3, <1>6, <1>7, LoadStep
  <2> HIDE DEF l
  <2> QED BY <2>1 DEF Loads, l, e
<1> HIDE DEF e
<1>9. loaded' = Append(loaded, sent[l + 1]) BY <1>5, <1>8
<1>10. sent[l + 1] \in Payload /\ sent[l + 1] \in Seq(Byte) BY <1>2, <1>8, PayloadAssumption
<1>11. loaded' \in Seq(Seq(Byte)) /\ Len(loaded') = l + 1 BY <1>2, <1>9, <1>10
<1>12. TypeOK' BY <1>2, <1>5, <1>8, <1>11 DEF TypeOK
<1>13. At(off, r)' BY <1>5, <1>6, <1>8, <1>11 DEF At
<1>14. off \in [1 .. Len(sent') + 1 -> Nat] BY <1>5, <1>6 DEF Offsets
<1>15. l < Len(sent) BY <1>7, <1>8
<1>16. Channel!Load BY <1>5, <1>9, <1>15 DEF Channel!Load
<1> QED BY <1>12, <1>13, <1>14, <1>16 DEF IInv

\* Every step of the connection keeps it.
LEMMA NextIInv ==
  ASSUME ~ShortHeaderReads, IInv, [Next]_vars
  PROVE  IInv'
<1>1. CASE UNCHANGED <<sendList, wire, recvList, sent, loaded>>
  BY <1>1 DEF IInv, TypeOK, At
<1>2. ASSUME NEW p \in Payload, SendMsg(p) PROVE IInv'
  BY <1>2, SendMsgIInv
<1>3. CASE SendSome
  <2>1. PICK n \in 1 .. SockBuf : Send(n) BY <1>3 DEF SendSome
  <2>2. n \in Nat /\ n >= 1 BY SockBufAssumption
  <2> QED BY <2>1, <2>2, SendIInv
<1>4. CASE SendBlocked \/ LinkError BY <1>1, <1>4 DEF SendBlocked, LinkError
<1>5. CASE RecvSome
  <2>1. PICK n \in 1 .. SockBuf : Recv(n) BY <1>5 DEF RecvSome
  <2>2. n \in Nat /\ n >= 1 BY SockBufAssumption
  <2> QED BY <2>1, <2>2, RecvIInv
<1>6. CASE LoadMsg BY <1>6, LoadMsgIInv
<1>7. CASE UNCHANGED vars BY <1>1, <1>7 DEF vars
<1> QED BY <1>2, <1>3, <1>4, <1>5, <1>6, <1>7 DEF Next

-----------------------------------------------------------------------------
(* Results *)

(***************************************************************************)
(* What is queued, in flight and being rebuilt are consecutive pieces of   *)
(* the stream of frames, as long as recv() does not split a header.        *)
(***************************************************************************)
THEOREM Invariance == ASSUME ~ShortHeaderReads PROVE Spec => []IInv
<1>1. IInv /\ [Next]_vars => IInv' BY NextIInv
<1> QED BY InitIInv, <1>1, PTL DEF Spec

(***************************************************************************)
(* No send(), recv(), header or payload reaches past a NetMessage's        *)
(* buffer, at either end.                                                  *)
(***************************************************************************)
THEOREM CursorSafety == ASSUME ~ShortHeaderReads PROVE Spec => []CursorsInBuffer
<1>1. IInv => CursorsInBuffer
  <2> SUFFICES ASSUME IInv PROVE CursorsInBuffer
    OBVIOUS
  <2>1. PICK off \in [1 .. Len(sent) + 1 -> Nat], r \in Nat : At(off, r) BY DEF IInv
  <2>2. sendList \in Seq(Entry) /\ recvList \in Seq(Entry) /\ sent \in Seq(Payload) /\ loaded \in Seq(Seq(Byte)) BY DEF IInv, TypeOK
  <2> DEFINE Inside(m) == m.cur <= m.cap /\ (m.size >= 0 => m.start + m.head + m.size <= m.cap)
  <2>3. ASSUME NEW i \in 1 .. Len(sendList) PROVE Inside(sendList[i].m)
    <3> DEFINE b == Len(sent) - Len(sendList) + i
               e == sendList[i]
               p == sent[b]
    <3>1. Queued(e, p) /\ Len(sendList) <= Len(sent) BY <2>1 DEF At, Sending
    <3>2. p \in Payload
      <4>1. b \in 1 .. Len(sent) BY <2>2, <3>1
      <4> HIDE DEF b
      <4> QED BY <2>2, <4>1
    <3> HIDE DEF e, p
    <3>3. Len(p) \in Nat /\ HeadLen(p) \in Nat /\ HeadLen(p) <= 6 /\ FrameLen(p) = HeadLen(p) + Len(p) BY <3>2, Lengths
    <3>4. /\ e.m.cap \in Nat /\ e.m.size = Len(p) /\ e.m.head = HeadLen(p) /\ e.m.start = 6 - HeadLen(p)
          /\ e.m.cur \in 6 - HeadLen(p) .. 6 - HeadLen(p) + FrameLen(p) - 1
          /\ 6 - HeadLen(p) + FrameLen(p) <= e.m.cap
      BY <3>1 DEF Queued, Cursors
    <3>5. e.m.cur <= e.m.cap /\ e.m.start + e.m.head + e.m.size <= e.m.cap
      <4> DEFINE h == HeadLen(p)
                 n == Len(p)
                 st == 6 - h
      <4>1. h \in Nat /\ n \in Nat /\ FrameLen(p) = h + n /\ st \in Int /\ st + h = 6 BY <3>3
      <4>2. /\ e.m.cap \in Nat /\ e.m.size = n /\ e.m.head = h /\ e.m.start = st
            /\ e.m.cur \in st .. st + (h + n) - 1 /\ st + (h + n) <= e.m.cap
        BY <3>4, <4>1
      <4> HIDE DEF h, n, st
      <4> QED BY ONLY <4>1, <4>2
    <3> QED BY <3>5 DEF e
  <2>4. ASSUME NEW i \in 1 .. Len(recvList) PROVE Inside(recvList[i].m)
    <3> DEFINE b == Len(loaded) + i
               e == recvList[i]
               p == sent[b]
    <3>1. Arriving(e, p) /\ Len(loaded) + Len(recvList) <= Len(sent) BY <2>1 DEF At, Receives
    <3>2. p \in Payload
      <4>1. b \in 1 .. Len(sent) BY <2>2, <3>1
      <4> HIDE DEF b
      <4> QED BY <2>2, <4>1
    <3> HIDE DEF e, p
    <3>3. Len(p) \in Nat BY <3>2, Lengths
    <3>4. e.m.cap \in Nat /\ e.m.head \in Nat /\ e.m.start = 0 BY <3>1 DEF Arriving, Cursors
    <3>5. CASE Fresh(e) BY <3>4, <3>5 DEF Fresh, e
    <3>6. CASE Marked(e, p) BY <3>4, <3>6 DEF Marked, e
    <3>7. CASE Filling(e, p)
      <4>1. /\ e.m.size = Len(p) /\ e.m.cur \in e.m.head .. e.m.head + Len(p) /\ e.m.head + Len(p) <= e.m.cap
        BY <3>7 DEF Filling
      <4>2. e.m.cur <= e.m.cap /\ e.m.start + e.m.head + e.m.size <= e.m.cap BY <3>3, <3>4, <4>1
      <4> QED BY <4>2 DEF e
    <3> QED BY <3>1, <3>5, <3>6, <3>7 DEF Arriving
  <2>5. DOMAIN sendList = 1 .. Len(sendList) /\ DOMAIN recvList = 1 .. Len(recvList) BY <2>2
  <2> QED BY <2>3, <2>4, <2>5 DEF CursorsInBuffer
<1> QED BY Invariance, <1>1, PTL

(***************************************************************************)
(* Framing implements the message channel: whatever send() and recv()      *)
(* return, scripts load exactly what was sent, in order, each message once *)
(* and whole.                                                              *)
(***************************************************************************)
THEOREM Refinement == ASSUME ~ShortHeaderReads PROVE Spec => ChannelSpec
<1>1. Init => Channel!Init BY DEF Init, Channel!Init
<1>2. ASSUME IInv, [Next]_vars PROVE [Channel!Next]_<<sent, loaded>>
  <2>1. ASSUME NEW p \in Payload, SendMsg(p) PROVE Channel!Send(p) BY <2>1 DEF SendMsg, Channel!Send
  <2>2. CASE SendSome \/ SendBlocked \/ RecvSome \/ LinkError \/ UNCHANGED vars
    BY <2>2 DEF SendSome, Send, SendBlocked, RecvSome, Recv, LinkError, vars
  <2>3. CASE LoadMsg BY <1>2, <2>3, LoadMsgIInv DEF Channel!Next
  <2>4. ASSUME NEW p \in Payload, SendMsg(p) PROVE Channel!Next BY <2>1, <2>4 DEF Channel!Next
  <2> QED BY <1>2, <2>2, <2>3, <2>4 DEF Next
<1> QED BY Invariance, <1>1, <1>2, PTL DEF Spec, ChannelSpec, Channel!Spec
=============================================================================
