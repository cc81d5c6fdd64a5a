-------------------------- MODULE FrameReaderProofs --------------------------
(***************************************************************************)
(* Proofs about FrameReader, for every width of a byte, every pool and     *)
(* every limit of the heap.                                                *)
(*                                                                         *)
(* BufferSafe speaks of the state in which a write went wrong.  What keeps *)
(* writes inside the buffer is where the cursor stands before each recv(): *)
(* inside the two or four header bytes, or inside a payload for which      *)
(* checkBufSize has made room; and that once the header was missed, or the *)
(* length is too large for an int, the header is never parsed again.       *)
(***************************************************************************)
EXTENDS FrameReader, TLAPS, WellFoundedInduction

USE BaseAssumption, DefaultSizeAssumption, HeapMaxAssumption, PoolSizesAssumption

\* Inside the short header.
InShortHeader == m.size = -1 /\ m.head = 2 /\ m.cur < 2 /\ len = -1

\* Inside the four length bytes that follow the mark.
InLongHeader == m.size = -2 /\ m.head = 4 /\ m.cur < 4 /\ len = -1

\* Inside a payload that fits the buffer.
InPayload ==
  /\ m.size = len /\ len \in 0 .. IntMax - 4
  /\ m.head <= m.cur /\ m.cur <= len + m.head /\ len + m.head <= m.cap

\* The length and its header do not fit an int; nothing is parsed any more.
HugeLength == len > IntMax - 4 /\ (m.size < 0 => m.cur >= m.head)

IInv ==
  /\ TypeOK
  /\ status = "ok" =>
       /\ m.cap \in 6 .. HeapMax
       /\ InShortHeader \/ InLongHeader \/ InPayload \/ HeaderMissed \/ HugeLength
  /\ BufferSafe /\ HangsOnlyOnHugeLength

-----------------------------------------------------------------------------
(* Arithmetic *)

\* Two digits, of bases b and c, make a number below b * c.
LEMMA TwoDigits ==
  ASSUME NEW b \in Nat, b >= 1, NEW c \in Nat, c >= 1,
         NEW x \in 0 .. b - 1, NEW y \in 0 .. c - 1
  PROVE  x * c + y \in 0 .. b * c - 1
<1>1. (x + 1) * c <= b * c
  OBVIOUS
<1>2. (x + 1) * c = x * c + c /\ x * c \in Nat
  OBVIOUS
<1>3. QED
  BY <1>1, <1>2

\* A C int has room for every short length and its header.
LEMMA Widths ==
  /\ ShortMark \in Nat /\ UIntMod \in Nat /\ IntMax \in Nat
  /\ ShortMark + 3 <= IntMax /\ IntMax < UIntMod
<1> DEFINE q == Base * Base
<1>1. q \in Nat /\ q >= 4
  OBVIOUS
<1>2. UIntMod = q * q
  BY DEF UIntMod
<1> HIDE DEF q
<1>3. q * q \in Nat /\ q * q >= 4 * q
  BY <1>1
<1>4. (q * q) \div 2 \in Nat /\ (q * q) \div 2 >= 2 * q /\ (q * q) \div 2 <= q * q
  BY <1>1, <1>3
<1>5. ShortMark = q - 1
  BY DEF ShortMark, q
<1>6. QED
  BY <1>1, <1>2, <1>3, <1>4, <1>5 DEF IntMax

\* What the two length fields can hold.
LEMMA Fields ==
  ASSUME NEW h \in [1 .. 4 -> Byte]
  PROVE  ShortAt0(h) \in 0 .. ShortMark /\ UIntAt0(h) \in 0 .. UIntMod - 1
<1>1. /\ h[1] \in 0 .. Base - 1 /\ h[2] \in 0 .. Base - 1
      /\ h[3] \in 0 .. Base - 1 /\ h[4] \in 0 .. Base - 1
  BY DEF Byte
<1> DEFINE s1 == h[1] * Base + h[2]
           s2 == s1 * Base + h[3]
           s3 == s2 * Base + h[4]
<1>2. s1 \in 0 .. Base * Base - 1
  BY <1>1, TwoDigits
<1>3. Base * Base \in Nat /\ Base * Base >= 1
  OBVIOUS
<1>4. s2 \in 0 .. Base * Base * Base - 1
  <2> HIDE DEF s1
  <2> QED BY <1>1, <1>2, <1>3, TwoDigits
<1>5. Base * Base * Base \in Nat /\ Base * Base * Base >= 1
  BY <1>3
<1>6. s3 \in 0 .. Base * Base * Base * Base - 1
  <2> HIDE DEF s2
  <2> QED BY <1>1, <1>4, <1>5, TwoDigits
<1>7. QED
  BY <1>2, <1>6 DEF ShortAt0, UIntAt0, ShortMark, UIntMod

\* The loop of checkBufSize for one need, by its equation.
Loop(g, need) == g = [c \in 0 .. HeapMax |-> IF need <= c \/ c = 0 THEN c ELSE g[enlarge(c)]]
Grown(need) == CHOOSE g : Loop(g, need)

\* checkBufSize is this function.
LEMMA CheckIsGrown ==
  ASSUME NEW cap, NEW need
  PROVE  checkBufSize(cap, need) = Grown(need)[cap]
BY DEF checkBufSize, Grown, Loop

\* The loop on lengths from b on.
LoopFrom(g, need, b) ==
  /\ g \in [0 .. HeapMax -> 0 .. HeapMax]
  /\ \A c \in 0 .. HeapMax : c >= b \/ c = 0 => g[c] = IF need <= c \/ c = 0 THEN c ELSE g[enlarge(c)]

\* The equation has a solution: it is built from the longest buffer down.
LEMMA LoopExists ==
  ASSUME NEW need \in Int
  PROVE  \E g : Loop(g, need)
<1>0. HeapMax \in Nat BY Widths
<1> DEFINE T == {k \in 0 .. HeapMax + 1 : \E g : LoopFrom(g, need, k)}
<1>1. HeapMax + 1 \in T
  <2> DEFINE g == [c \in 0 .. HeapMax |-> c]
  <2>1. LoopFrom(g, need, HeapMax + 1) BY <1>0 DEF LoopFrom
  <2> QED BY <2>1, <1>0
<1>2. PICK y \in T : \A z \in T : ~(<<z, y>> \in OpToRel(<, Nat))
  <2>1. T \subseteq Nat BY <1>0
  <2> QED BY <1>1, <2>1, NatLessThanWellFounded, WFMin
<1>3. y = 0
  <2> SUFFICES ASSUME y # 0 PROVE FALSE OBVIOUS
  <2>1. y \in 1 .. HeapMax + 1 BY <1>0
  <2>2. PICK g : LoopFrom(g, need, y) OBVIOUS
  <2> DEFINE b == y - 1
             h == [g EXCEPT ![b] = IF need <= b \/ b = 0 THEN b ELSE g[enlarge(b)]]
  <2>3. b \in 0 .. HeapMax /\ y = b + 1 BY <1>0, <2>1
  <2> HIDE DEF b
  <2>4. g \in [0 .. HeapMax -> 0 .. HeapMax] /\ h \in [0 .. HeapMax -> 0 .. HeapMax]
    <3>1. enlarge(b) \in 0 .. HeapMax BY <1>0, <2>3 DEF enlarge
    <3> QED BY <2>2, <2>3, <3>1 DEF LoopFrom
  <2>5. ASSUME NEW c \in 0 .. HeapMax, c >= b \/ c = 0 PROVE h[c] = IF need <= c \/ c = 0 THEN c ELSE h[enlarge(c)]
    <3>1. enlarge(c) \in 0 .. HeapMax /\ (c # 0 => enlarge(c) = 0 \/ enlarge(c) > c) BY <1>0 DEF enlarge
    <3>2. CASE c = b
      <4>1. c # 0 => enlarge(c) # b BY <3>1, <3>2, <1>0
      <4> QED BY <3>1, <3>2, <4>1, <2>4
    <3>3. CASE c # b
      <4>0. c >= y \/ c = 0 BY <2>3, <2>5, <3>3, <1>0
      <4>1. g[c] = IF need <= c \/ c = 0 THEN c ELSE g[enlarge(c)] BY <2>2, <4>0 DEF LoopFrom
      <4>2. h[c] = g[c] BY <3>3, <2>4
      <4>3. CASE need <= c \/ c = 0 BY <4>1, <4>2, <4>3
      <4>4. CASE ~(need <= c \/ c = 0)
        <5>1. enlarge(c) # b \/ (enlarge(c) = b /\ b = 0) BY <3>1, <4>4, <2>5, <2>3, <1>0
        <5>2. b = 0 => g[0] = 0 /\ h[0] = 0 BY <2>2, <2>4, <1>0 DEF LoopFrom
        <5>3. h[enlarge(c)] = g[enlarge(c)] BY <5>1, <5>2, <3>1, <2>4
        <5> QED BY <4>1, <4>2, <4>4, <5>3
      <4> QED BY <4>3, <4>4
    <3> QED BY <3>2, <3>3
  <2>6. LoopFrom(h, need, b) BY <2>4, <2>5 DEF LoopFrom
  <2>7. b \in T BY <2>6, <2>3, <1>0
  <2>8. <<b, y>> \in OpToRel(<, Nat) BY <2>3, <1>0 DEF OpToRel
  <2> QED BY <1>2, <2>7, <2>8
<1>4. PICK g : LoopFrom(g, need, 0) BY <1>3
<1>5. g = [c \in 0 .. HeapMax |-> g[c]] BY <1>4 DEF LoopFrom
<1>6. \A c \in 0 .. HeapMax : g[c] = IF need <= c \/ c = 0 THEN c ELSE g[enlarge(c)] BY <1>4 DEF LoopFrom
<1>7. g = [c \in 0 .. HeapMax |-> IF need <= c \/ c = 0 THEN c ELSE g[enlarge(c)]] BY <1>5, <1>6
<1> QED BY <1>7 DEF Loop

\* What the loop returns.
LEMMA LoopEquation ==
  ASSUME NEW need \in Int, NEW c \in 0 .. HeapMax
  PROVE  checkBufSize(c, need) = IF need <= c \/ c = 0 THEN c ELSE checkBufSize(enlarge(c), need)
<1>1. Loop(Grown(need), need) BY LoopExists DEF Grown
<1>2. Grown(need)[c] = IF need <= c \/ c = 0 THEN c ELSE Grown(need)[enlarge(c)] BY <1>1 DEF Loop
<1> QED BY <1>2, CheckIsGrown

\* What checkBufSize promises.
Result(c, need) ==
  LET r == checkBufSize(c, need)
  IN /\ r \in 0 .. HeapMax
     /\ r # 0 => r >= need /\ r >= c
     /\ r = 0 /\ c > 0 => 2 * need > HeapMax

\* If the loop returns there is room; if not, half the heap is too little.
LEMMA RoomIsMade ==
  ASSUME NEW need \in Int, NEW cap \in 0 .. HeapMax
  PROVE  Result(cap, need)
<1>0. HeapMax \in Nat BY Widths
<1> DEFINE T == {k \in 0 .. HeapMax : ~Result(HeapMax - k, need)}
<1> SUFFICES ASSUME T # {} PROVE FALSE
  <2>1. HeapMax - (HeapMax - cap) = cap /\ HeapMax - cap \in 0 .. HeapMax BY <1>0
  <2> QED BY <2>1
<1>1. PICK y \in T : \A z \in T : ~(<<z, y>> \in OpToRel(<, Nat))
  <2>1. T \subseteq Nat BY <1>0
  <2> QED BY <2>1, NatLessThanWellFounded, WFMin
<1> DEFINE c == HeapMax - y
<1>2. c \in 0 .. HeapMax /\ y = HeapMax - c BY <1>0
<1>3. ~Result(c, need) OBVIOUS
<1> HIDE DEF c
<1>4. checkBufSize(c, need) = IF need <= c \/ c = 0 THEN c ELSE checkBufSize(enlarge(c), need) BY <1>2, LoopEquation
<1>5. CASE need <= c \/ c = 0 BY <1>0, <1>2, <1>3, <1>4, <1>5 DEF Result
<1>6. CASE ~(need <= c \/ c = 0)
  <2> DEFINE d == enlarge(c)
  <2>1. d \in 0 .. HeapMax /\ (d # 0 => d = 2 * c) /\ (d = 0 => 2 * c > HeapMax) BY <1>0, <1>2, <1>6 DEF enlarge
  <2>2. checkBufSize(c, need) = checkBufSize(d, need) BY <1>4, <1>6
  <2> HIDE DEF d
  <2>3. CASE d = 0
    <3>1. checkBufSize(d, need) = 0 BY <2>1, <2>3, LoopEquation
    <3> QED BY <1>0, <1>2, <1>3, <1>6, <2>1, <2>2, <2>3, <3>1 DEF Result
  <2>4. CASE d # 0
    <3> DEFINE z == HeapMax - d
    <3>1. z \in 0 .. HeapMax /\ z < y /\ HeapMax - z = d /\ y \in Nat BY <1>0, <1>2, <1>6, <2>1, <2>4
    <3> HIDE DEF z
    <3>2. <<z, y>> \in OpToRel(<, Nat) BY <3>1, <1>0 DEF OpToRel
    <3>3. Result(d, need) BY <1>1, <3>1, <3>2
    <3> QED BY <1>0, <1>2, <1>3, <1>6, <2>1, <2>2, <2>4, <3>3 DEF Result
  <2> QED BY <2>3, <2>4
<1> QED BY <1>5, <1>6

\* A smaller need is met when a larger one is.
LEMMA LessIsMet ==
  ASSUME NEW need \in Int, NEW less \in Int, less <= need, NEW cap \in 1 .. HeapMax, checkBufSize(cap, need) # 0
  PROVE  checkBufSize(cap, less) # 0
<1>0. HeapMax \in Nat BY Widths
<1> DEFINE Bad(c) == checkBufSize(c, need) # 0 /\ checkBufSize(c, less) = 0
<1> DEFINE T == {k \in 0 .. HeapMax - 1 : Bad(HeapMax - k)}
<1> SUFFICES ASSUME T # {} PROVE FALSE
  <2>1. HeapMax - (HeapMax - cap) = cap /\ HeapMax - cap \in 0 .. HeapMax - 1 BY <1>0
  <2> QED BY <2>1
<1>1. PICK y \in T : \A z \in T : ~(<<z, y>> \in OpToRel(<, Nat))
  <2>1. T \subseteq Nat BY <1>0
  <2> QED BY <2>1, NatLessThanWellFounded, WFMin
<1> DEFINE c == HeapMax - y
<1>2. c \in 1 .. HeapMax /\ y = HeapMax - c BY <1>0
<1>3. Bad(c) OBVIOUS
<1> HIDE DEF c
<1>4. checkBufSize(c, need) = IF need <= c \/ c = 0 THEN c ELSE checkBufSize(enlarge(c), need) BY <1>2, <1>0, LoopEquation
<1>5. checkBufSize(c, less) = IF less <= c \/ c = 0 THEN c ELSE checkBufSize(enlarge(c), less) BY <1>2, <1>0, LoopEquation
<1>6. ~(less <= c) /\ ~(need <= c) BY <1>0, <1>2, <1>3, <1>5
<1> DEFINE d == enlarge(c)
<1>7. d \in 0 .. HeapMax /\ (d # 0 => d = 2 * c) BY <1>0, <1>2 DEF enlarge
<1>8. Bad(d) BY <1>2, <1>3, <1>4, <1>5, <1>6
<1> HIDE DEF d
<1>9. d # 0
  <2> SUFFICES ASSUME d = 0 PROVE FALSE OBVIOUS
  <2>1. checkBufSize(d, need) = 0 BY <1>7, LoopEquation
  <2> QED BY <1>8, <2>1
<1> DEFINE z == HeapMax - d
<1>10. z \in 0 .. HeapMax - 1 /\ z < y /\ HeapMax - z = d /\ y \in Nat BY <1>0, <1>2, <1>7, <1>9
<1> HIDE DEF z
<1>11. <<z, y>> \in OpToRel(<, Nat) BY <1>10, <1>0 DEF OpToRel
<1>12. z \in T BY <1>8, <1>10
<1> QED BY <1>1, <1>11, <1>12

-----------------------------------------------------------------------------
(* The invariant is inductive *)

\* A new NetMessage satisfies the invariant.
LEMMA InitIInv == Init => IInv
<1> SUFFICES ASSUME Init PROVE IInv
  OBVIOUS
<1>1. PICK c \in PoolSizes : m = NewMessage(c)
  BY DEF Init
<1>2. m = [size |-> -1, head |-> 2, cur |-> 0, start |-> 0, cap |-> c]
  BY <1>1 DEF NewMessage
<1>3. c \in Nat /\ c \in 6 .. HeapMax
  BY Widths
<1>4. hdr \in [1 .. 4 -> Byte] /\ len = -1 /\ status = "ok"
  BY DEF Init, Byte
<1>5. TypeOK
  BY <1>2, <1>3, <1>4 DEF TypeOK
<1>6. QED
  BY <1>2, <1>3, <1>4, <1>5 DEF IInv, InShortHeader, BufferSafe, HangsOnlyOnHugeLength

\* The two-byte field was completed and holds the mark.
MarkStep(n) ==
  /\ m.size = -1 /\ m.cur + n = m.head
  /\ m' = [size |-> -2, head |-> 4, cur |-> 0, start |-> 0, cap |-> m.cap]
  /\ len' = len

\* A length l was completed behind a header of the given size.
LengthStep(n, l, head, need) ==
  /\ m.cur + n = m.head
  /\ m' = [size |-> ToInt(l), head |-> head, cur |-> head, start |-> 0,
           cap |-> checkBufSize(m.cap, need)]
  /\ len' = l

\* No field was completed.
CursorStep(n) ==
  /\ m.size \in {-1, -2} => m.cur + n # m.head
  /\ m' = [size |-> m.size, head |-> m.head, cur |-> m.cur + n, start |-> 0,
           cap |-> m.cap]
  /\ len' = len

\* What one recv() does, in terms of the cursors alone.
LEMMA RecvCases ==
  ASSUME TypeOK, NEW n \in 1 .. UIntMod, Recv(n)
  PROVE  /\ hdr' \in [1 .. 4 -> Byte]
         /\ \/ MarkStep(n)
            \/ m.size = -1 /\ \E l \in 0 .. ShortMark - 1 : LengthStep(n, l, 2, l + 2)
            \/ m.size = -2 /\ \E l \in 0 .. UIntMod - 1 :
                 LengthStep(n, l, m.head, ToInt(m.head + ToInt(l)))
            \/ CursorStep(n)
<1>1. hdr' \in [1 .. 4 -> Byte]
  <2>1. hdr' \in IF m.size >= 0 THEN {hdr}
                 ELSE {h \in [1 .. 4 -> Byte] :
                         \A i \in 1 .. 4 : i \notin m.cur + 1 .. m.cur + n => h[i] = hdr[i]}
    BY DEF Recv
  <2>2. hdr \in [1 .. 4 -> Byte]
    BY DEF TypeOK
  <2>3. QED
    BY <2>1, <2>2
<1>2. m' = onReceive(m, n, hdr')
  BY DEF Recv
<1>3. len' = CASE m.size = -1 /\ m.cur + n = m.head /\ m'.size # -2 -> ShortAt0(hdr')
               [] m.size = -2 /\ m.cur + n = m.head -> UIntAt0(hdr')
               [] OTHER -> len
  BY DEF Recv
<1>4. m \in [size : Int, head : {2, 4}, cur : Nat, start : {0}, cap : Nat]
  BY DEF TypeOK
<1>5. ShortAt0(hdr') \in 0 .. ShortMark /\ UIntAt0(hdr') \in 0 .. UIntMod - 1
  BY <1>1, Fields
<1>6. CASE m.size = -1 /\ m.cur + n = m.head /\ ShortAt0(hdr') = ShortMark
  <2>1. m' = [m EXCEPT !.cur = 0, !.size = -2, !.head = 4]
    BY <1>2, <1>6 DEF onReceive, MarkSeen
  <2>2. m' = [size |-> -2, head |-> 4, cur |-> 0, start |-> 0, cap |-> m.cap]
    BY <2>1, <1>4
  <2>3. len' = len
    BY <1>3, <1>6, <2>2
  <2>4. MarkStep(n)
    BY <1>6, <2>2, <2>3 DEF MarkStep
  <2>5. QED
    BY <1>1, <2>4
<1>7. CASE m.size = -1 /\ m.cur + n = m.head /\ ShortAt0(hdr') # ShortMark
  <2> DEFINE l == ShortAt0(hdr')
  <2>1. m' = SizeKnown(m, l, 2)
    BY <1>2, <1>7 DEF onReceive
  <2>2. l \in 0 .. ShortMark - 1
    BY <1>5, <1>7, Widths
  <2> HIDE DEF l
  <2>3. ToInt(l) = l /\ ToInt(2 + l) = l + 2
    BY <2>2, Widths DEF ToInt
  <2>4. m' = [m EXCEPT !.size = ToInt(l), !.head = 2, !.cur = 2, !.start = 0,
                       !.cap = checkBufSize(m.cap, l + 2)]
    BY <2>1, <2>3 DEF SizeKnown
  <2>5. m' = [size |-> ToInt(l), head |-> 2, cur |-> 2, start |-> 0,
              cap |-> checkBufSize(m.cap, l + 2)]
    BY <2>4, <1>4
  <2>6. m'.size = l /\ l # -2
    BY <2>5, <2>3, <2>2
  <2>7. len' = l
    BY <1>3, <1>7, <2>6 DEF l
  <2>8. LengthStep(n, l, 2, l + 2)
    BY <1>7, <2>5, <2>7 DEF LengthStep
  <2>9. QED
    BY <1>1, <1>7, <2>2, <2>8
<1>8. CASE m.size = -2 /\ m.cur + n = m.head
  <2> DEFINE l == UIntAt0(hdr')
  <2>1. m' = SizeKnown(m, l, m.head)
    BY <1>2, <1>8 DEF onReceive
  <2>2. l \in 0 .. UIntMod - 1
    BY <1>5
  <2>3. len' = l
    BY <1>3, <1>8
  <2> HIDE DEF l
  <2>4. m' = [m EXCEPT !.size = ToInt(l), !.head = m.head, !.cur = m.head, !.start = 0,
                       !.cap = checkBufSize(m.cap, ToInt(m.head + ToInt(l)))]
    BY <2>1 DEF SizeKnown
  <2>5. m' = [size |-> ToInt(l), head |-> m.head, cur |-> m.head, start |-> 0,
              cap |-> checkBufSize(m.cap, ToInt(m.head + ToInt(l)))]
    BY <2>4, <1>4
  <2>6. LengthStep(n, l, m.head, ToInt(m.head + ToInt(l)))
    BY <1>8, <2>3, <2>5 DEF LengthStep
  <2>7. QED
    BY <1>1, <1>8, <2>2, <2>6
<1>9. CASE ~(m.size \in {-1, -2} /\ m.cur + n = m.head)
  <2>1. m' = [m EXCEPT !.cur = m.cur + n]
    BY <1>2, <1>9 DEF onReceive
  <2>2. m' = [size |-> m.size, head |-> m.head, cur |-> m.cur + n, start |-> 0,
              cap |-> m.cap]
    BY <2>1, <1>4
  <2>3. len' = len
    BY <1>3, <1>9
  <2>4. CursorStep(n)
    BY <1>9, <2>2, <2>3 DEF CursorStep
  <2>5. QED
    BY <1>1, <2>4
<1>10. QED
  BY <1>6, <1>7, <1>8, <1>9

\* A turn of the receive loop keeps the invariant.
LEMMA RecvIInv ==
  ASSUME IInv, NEW n \in 1 .. UIntMod, Recv(n)
  PROVE  IInv'
<1> DEFINE Place == InShortHeader \/ InLongHeader \/ InPayload \/ HeaderMissed \/ HugeLength
<1>1. TypeOK /\ m.cap \in 6 .. HeapMax /\ HeapMax \in Nat /\ Place
  BY Widths DEF IInv, Recv
<1>2. /\ m.size \in Int /\ m.head \in {2, 4} /\ m.cur \in Nat /\ m.cap \in Nat
      /\ len \in Nat \cup {-1} /\ n \in Nat /\ n >= 1
  BY <1>1, Widths DEF TypeOK
<1>3. n <= getReadCap(m)
  BY DEF Recv
<1>4. status' = IF m.cur + n > m.cap THEN "overrun"
                ELSE IF m'.cap = 0 THEN "hung" ELSE "ok"
  BY DEF Recv
<1>5. hdr' \in [1 .. 4 -> Byte] /\ status' \in {"ok", "hung", "overrun"}
  BY <1>1, <1>4, RecvCases
<1>6. CASE MarkStep(n)
  <2>1. m.size = -1 /\ m.cur + n = m.head /\ len' = len
        /\ m' = [size |-> -2, head |-> 4, cur |-> 0, start |-> 0, cap |-> m.cap]
    BY <1>6 DEF MarkStep
  <2>2. len = -1 /\ m.head = 2
    BY <1>1, <1>2, <2>1 DEF InShortHeader, InLongHeader, InPayload, HeaderMissed, HugeLength
  <2>3. status' = "ok"
    BY <1>1, <1>2, <1>4, <2>1, <2>2
  <2>4. TypeOK'
    BY <1>2, <1>5, <2>1, <2>2 DEF TypeOK
  <2>5. InLongHeader'
    BY <2>1, <2>2 DEF InLongHeader
  <2>6. QED
    BY <1>1, <2>1, <2>3, <2>4, <2>5 DEF IInv, BufferSafe, HangsOnlyOnHugeLength
<1>7. ASSUME m.size = -1, NEW l \in 0 .. ShortMark - 1, LengthStep(n, l, 2, l + 2)
      PROVE  IInv'
  <2> DEFINE cap == checkBufSize(m.cap, l + 2)
  <2>1. m.cur + n = m.head /\ len' = l
        /\ m' = [size |-> l, head |-> 2, cur |-> 2, start |-> 0, cap |-> cap]
    BY <1>7, Widths DEF LengthStep, ToInt
  <2>2. l \in Nat /\ l <= IntMax - 4 /\ IntMax \in Nat
    BY Widths
  <2>3. /\ cap \in 0 .. HeapMax /\ (cap # 0 => cap >= l + 2 /\ cap >= m.cap)
        /\ cap = 0 => 2 * (l + 2) > HeapMax
    <3>1. l + 2 \in Int /\ m.cap \in 0 .. HeapMax /\ m.cap > 0
      BY <1>1, <2>2
    <3>2. QED
      BY <3>1, RoomIsMade DEF Result
  <2> HIDE DEF cap
  <2>4. status' # "overrun" /\ (status' = "ok" => cap # 0)
    BY <1>1, <1>2, <1>4, <2>1
  <2>5. TypeOK'
    BY <1>5, <2>1, <2>2, <2>3 DEF TypeOK
  <2>6. cap # 0 => m'.cap \in 6 .. HeapMax /\ InPayload'
    BY <1>1, <1>2, <2>1, <2>2, <2>3 DEF InPayload
  <2>7. HangsOnlyOnHugeLength'
    BY <1>1, <1>2, <1>4, <2>1, <2>2, <2>3 DEF HangsOnlyOnHugeLength
  <2>8. QED
    BY <2>4, <2>5, <2>6, <2>7 DEF IInv, BufferSafe, HangsOnlyOnHugeLength
<1>8. ASSUME m.size = -2, NEW l \in 0 .. UIntMod - 1,
             LengthStep(n, l, m.head, ToInt(m.head + ToInt(l)))
      PROVE  IInv'
  <2> DEFINE need == ToInt(m.head + ToInt(l))
             cap == checkBufSize(m.cap, need)
  <2>1. m.cur + n = m.head /\ len' = l
        /\ m' = [size |-> ToInt(l), head |-> m.head, cur |-> m.head, start |-> 0, cap |-> cap]
    BY <1>8 DEF LengthStep
  <2>2. m.head = 4
    BY <1>1, <1>2, <1>8, <2>1 DEF InShortHeader, InLongHeader, InPayload, HeaderMissed, HugeLength
  <2>3. l \in Nat /\ IntMax \in Nat /\ UIntMod \in Nat /\ ToInt(l) \in Int
    BY Widths DEF ToInt
  <2>4. need \in Int
    <3> HIDE DEF need
    <3>1. need = ToInt(4 + ToInt(l))
      BY <2>2 DEF need
    <3>2. QED
      BY <2>3, <3>1 DEF ToInt
  <2>5. l <= IntMax - 4 => ToInt(l) = l /\ need = l + 4
    BY <2>2, <2>3 DEF ToInt
  <2> HIDE DEF need
  <2>6. /\ cap \in 0 .. HeapMax /\ (cap # 0 => cap >= need /\ cap >= m.cap)
        /\ cap = 0 => 2 * need > HeapMax
    <3>1. m.cap \in 0 .. HeapMax /\ m.cap > 0
      BY <1>1
    <3>2. QED
      BY <2>4, <3>1, RoomIsMade DEF Result
  <2> HIDE DEF cap
  <2>7. status' # "overrun" /\ (status' = "ok" => cap # 0)
    BY <1>1, <1>2, <1>4, <2>1, <2>2
  <2>8. TypeOK'
    BY <1>5, <2>1, <2>2, <2>3, <2>6 DEF TypeOK
  <2>9. cap # 0 => m'.cap \in 6 .. HeapMax
    BY <1>1, <1>2, <2>1, <2>6
  <2>10. cap # 0 => InPayload' \/ HugeLength'
    <3>1. CASE l <= IntMax - 4
      BY <2>1, <2>2, <2>3, <2>5, <2>6, <3>1 DEF InPayload
    <3>2. CASE ~(l <= IntMax - 4)
      BY <2>1, <2>2, <2>3, <3>2 DEF HugeLength
    <3>3. QED
      BY <3>1, <3>2
  <2>11. HangsOnlyOnHugeLength'
    <3>1. HeapMax <= IntMax
      BY <2>3
    <3>2. QED
      BY <1>1, <1>2, <1>4, <2>1, <2>3, <2>5, <2>6, <3>1 DEF HangsOnlyOnHugeLength
  <2>12. QED
    BY <2>7, <2>8, <2>9, <2>10, <2>11 DEF IInv, BufferSafe, HangsOnlyOnHugeLength
<1>9. CASE CursorStep(n)
  <2>1. len' = len /\ (m.size \in {-1, -2} => m.cur + n # m.head)
        /\ m' = [size |-> m.size, head |-> m.head, cur |-> m.cur + n, start |-> 0, cap |-> m.cap]
    BY <1>9 DEF CursorStep
  <2>2. m'.size = m.size /\ m'.head = m.head /\ m'.cur = m.cur + n /\ m'.cap = m.cap
    BY <2>1
  <2>3. TypeOK'
    BY <1>2, <1>5, <2>1 DEF TypeOK
  <2>4. m'.cap \in 6 .. HeapMax /\ HangsOnlyOnHugeLength'
    BY <1>1, <1>4, <2>2 DEF HangsOnlyOnHugeLength
  <2>5. CASE InShortHeader
    <3>1. m.size = -1 /\ m.head = 2 /\ m.cur < 2 /\ len = -1 /\ n <= 2
      BY <1>3, <2>5 DEF InShortHeader, getReadCap
    <3>2. InShortHeader' \/ HeaderMissed'
      BY <1>2, <2>1, <2>2, <3>1 DEF InShortHeader, HeaderMissed
    <3>3. status' # "overrun"
      BY <1>1, <1>2, <1>4, <3>1
    <3>4. QED
      BY <2>3, <2>4, <3>2, <3>3 DEF IInv, BufferSafe, HangsOnlyOnHugeLength
  <2>6. CASE InLongHeader
    <3>1. m.size = -2 /\ m.head = 4 /\ m.cur < 4 /\ len = -1 /\ n <= 4
      BY <1>3, <2>6 DEF InLongHeader, getReadCap
    <3>2. InLongHeader' \/ HeaderMissed'
      BY <1>2, <2>1, <2>2, <3>1 DEF InLongHeader, HeaderMissed
    <3>3. status' = "overrun" => HeaderMissed'
      BY <1>1, <1>2, <1>4, <2>2, <3>1 DEF HeaderMissed
    <3>4. QED
      BY <2>3, <2>4, <3>2, <3>3 DEF IInv, BufferSafe, HangsOnlyOnHugeLength
  <2>7. CASE InPayload
    <3>1. /\ m.size = len /\ len \in 0 .. IntMax - 4
          /\ m.head <= m.cur /\ m.cur <= len + m.head /\ len + m.head <= m.cap
      BY <2>7 DEF InPayload
    <3>2. IntMax \in Nat
      BY Widths
    <3>3. n <= len - m.cur + m.head
      BY <1>3, <3>1, <3>2 DEF getReadCap
    <3>4. InPayload'
      BY <1>2, <2>1, <2>2, <3>1, <3>2, <3>3 DEF InPayload
    <3>5. status' # "overrun"
      BY <1>2, <1>4, <3>1, <3>2, <3>3
    <3>6. QED
      BY <2>3, <2>4, <3>4, <3>5 DEF IInv, BufferSafe, HangsOnlyOnHugeLength
  <2>8. CASE HeaderMissed
    <3>1. HeaderMissed'
      BY <1>2, <2>2, <2>8 DEF HeaderMissed
    <3>2. QED
      BY <2>3, <2>4, <3>1 DEF IInv, BufferSafe, HangsOnlyOnHugeLength
  <2>9. CASE HugeLength
    <3>1. HugeLength'
      BY <1>2, <2>1, <2>2, <2>9 DEF HugeLength
    <3>2. BufferSafe'
      BY <3>1 DEF BufferSafe, HugeLength
    <3>3. QED
      BY <2>3, <2>4, <3>1, <3>2 DEF IInv
  <2>10. QED
    BY <1>1, <2>5, <2>6, <2>7, <2>8, <2>9
<1>10. QED
  BY <1>1, <1>6, <1>7, <1>8, <1>9, RecvCases

\* So does the message that follows a complete one.
LEMMA NextMessageIInv == NextMessage => IInv'
<1> SUFFICES ASSUME NextMessage PROVE IInv'
  OBVIOUS
<1>1. PICK c \in PoolSizes : m' = NewMessage(c)
  BY DEF NextMessage
<1>2. m' = [size |-> -1, head |-> 2, cur |-> 0, start |-> 0, cap |-> c]
  BY <1>1 DEF NewMessage
<1>3. c \in Nat /\ c \in 6 .. HeapMax
  BY Widths
<1>4. hdr' \in [1 .. 4 -> Byte] /\ len' = -1 /\ status' = "ok"
  BY DEF NextMessage, Byte
<1>5. TypeOK'
  BY <1>2, <1>3, <1>4 DEF TypeOK
<1>6. QED
  BY <1>2, <1>3, <1>4, <1>5 DEF IInv, InShortHeader, BufferSafe, HangsOnlyOnHugeLength

(***************************************************************************)
(* The receive loop keeps the cursor where IInv says, whatever the peer    *)
(* announces and however recv() splits the stream.                         *)
(***************************************************************************)
THEOREM Invariance == Spec => []IInv
<1>1. IInv /\ UNCHANGED vars => IInv'
  BY DEF IInv, TypeOK, BufferSafe, HangsOnlyOnHugeLength, HeaderMissed, InShortHeader, InLongHeader,
         InPayload, HugeLength, vars
<1>2. IInv /\ [Next]_vars => IInv'
  BY <1>1, RecvIInv, NextMessageIInv DEF Next
<1>3. QED
  BY InitIInv, <1>2, PTL DEF Spec

\* The cursors of a message being received keep their types.
THEOREM TypeCorrectness == Spec => []TypeOK
<1>1. IInv => TypeOK
  BY DEF IInv
<1>2. QED
  BY <1>1, Invariance, PTL

(***************************************************************************)
(* No recv() writes outside the buffer unless the header was missed or the *)
(* announced length does not fit an int, for every width of a byte, every  *)
(* pool of buffers and every limit of the heap.                            *)
(***************************************************************************)
THEOREM Safety == Spec => []BufferSafe
<1>1. IInv => BufferSafe
  BY DEF IInv
<1>2. QED
  BY <1>1, Invariance, PTL

(***************************************************************************)
(* checkBufSize spins for ever only for a length that needs more than half *)
(* of the largest allocation, however many doublings it takes.             *)
(***************************************************************************)
THEOREM HangsOnlyWhenHuge == Spec => []HangsOnlyOnHugeLength
<1>1. IInv => HangsOnlyOnHugeLength
  BY DEF IInv
<1>2. QED
  BY <1>1, Invariance, PTL
=============================================================================
