-------------------------------- MODULE Codec --------------------------------
(***************************************************************************)
(* The typed fields of a NetMessage (NetMessage.cpp): an application       *)
(* writes fields one after the other and the peer reads them in the same   *)
(* order.  A byte has Base values.  A float is the integer with its bits,  *)
(* a double its eight bytes in memory, a string its bytes.                 *)
(***************************************************************************)
EXTENDS NetMessage, SequencesExt

CONSTANTS
  Values(_),   \* the values written for a kind of field
  MaxFields    \* bound: fields of a message

Kinds == {"Int8", "UInt8", "Boolean", "Short", "UShort", "Int", "UInt", "Float", "Int64", "Double", "String", "Raw"}

VARIABLES
  buf,      \* the bytes written so far
  cur,      \* m_curPos
  cap,      \* m_buffer->m_size
  fields,   \* history: what was written, <<kind, value>>
  got,      \* history: what was read
  reading   \* ResetForRead has been called

vars == <<buf, cur, cap, fields, got, reading>>

-----------------------------------------------------------------------------
(* Writers: the bytes of a value, the most significant first.              *)

Bytes(v, w) == [i \in 1 .. w |-> ((v % Base^w) \div Base^(w - i)) % Base]

wInt64(v) == Bytes(v, 8)
wShort(v) == Bytes(v, 2)
wInt8(v) == Bytes(v, 1)
wUInt8(v) == Bytes(v, 1)
wBoolean(v) == IF v THEN <<1>> ELSE <<0>>
wInt(v) == Bytes(v, 4)
wFloat(v) == Bytes(v, 4)
wDouble(v) == Reverse(v)
wString(v) == wInt(Len(v)) \o v

write(k, v) ==
  CASE k = "Int64" -> wInt64(v) [] k = "UShort" -> wUShort(v) [] k = "Short" -> wShort(v)
    [] k = "Int8" -> wInt8(v) [] k = "UInt8" -> wUInt8(v) [] k = "Boolean" -> wBoolean(v)
    [] k = "Int" -> wInt(v) [] k = "UInt" -> wUInt(v) [] k = "Float" -> wFloat(v)
    [] k = "Double" -> wDouble(v) [] k = "String" -> wString(v) [] k = "Raw" -> v

-----------------------------------------------------------------------------
(* Readers: a value and the bytes it took.                                 *)

Unsigned(b, p, w) == FoldLeft(LAMBDA x, i : x * Base + b[p + i], 0, [i \in 1 .. w |-> i])
Signed(b, p, w) ==
  LET v == Unsigned(b, p, w) IN IF v >= Base^w \div 2 THEN v - Base^w ELSE v
Got(v, n) == [v |-> v, n |-> n]

rInt64(b, p) == Got(Signed(b, p, 8), 8)
rUShort(b, p) == Got(Unsigned(b, p, 2), 2)
rShort(b, p) == Got(Signed(b, p, 2), 2)
\* Mutant: the byte is not converted to a signed char.
rInt8Unsigned(b, p) == Got(Unsigned(b, p, 1), 1)

rInt8(b, p) == Got(Signed(b, p, 1), 1)
rUInt8(b, p) == Got(Unsigned(b, p, 1), 1)
rBoolean(b, p) == Got(b[p + 1] # 0, 1)
rInt(b, p) == Got(Signed(b, p, 4), 4)
rUInt(b, p) == Got(Unsigned(b, p, 4), 4)
rFloat(b, p) == Got(Signed(b, p, 4), 4)
rDouble(b, p) == Got(Reverse(SubSeq(b, p + 1, p + 8)), 8)
rString(b, p) ==
  LET size == rInt(b, p).v
  IN IF size <= 0 THEN Got(<<>>, 4) ELSE Got(SubSeq(b, p + 5, p + 4 + size), 4 + size)
\* The reader of raw bytes knows how many they are.
rRaw(b, p, sz) == IF sz <= 0 THEN Got(<<>>, 0) ELSE Got(SubSeq(b, p + 1, p + sz), sz)

read(k, v, b, p) ==
  CASE k = "Int64" -> rInt64(b, p) [] k = "UShort" -> rUShort(b, p) [] k = "Short" -> rShort(b, p)
    [] k = "Int8" -> rInt8(b, p) [] k = "UInt8" -> rUInt8(b, p) [] k = "Boolean" -> rBoolean(b, p)
    [] k = "Int" -> rInt(b, p) [] k = "UInt" -> rUInt(b, p) [] k = "Float" -> rFloat(b, p)
    [] k = "Double" -> rDouble(b, p) [] k = "String" -> rString(b, p) [] k = "Raw" -> rRaw(b, p, Len(v))

-----------------------------------------------------------------------------
\* beginForWrite: six bytes are reserved for the header.
Init ==
  /\ buf = [i \in 1 .. 6 |-> 0] /\ cur = 6 /\ cap = DefaultSize
  /\ fields = <<>> /\ got = <<>> /\ reading = FALSE

\* The room a writer asks checkBufSize for.
Room(k, v, bytes) == Len(bytes)

Put(k, v, bytes) ==
  /\ ~reading /\ Len(fields) < MaxFields
  /\ cap' = checkBufSize(cap, cur + Room(k, v, bytes))
  /\ buf' = memcpy(buf, cur, bytes) /\ cur' = cur + Len(bytes)
  /\ fields' = Append(fields, <<k, v>>)
  /\ UNCHANGED <<got, reading>>
Write(k, v) == Put(k, v, write(k, v))

\* ResetForRead, once the message is sent and loaded: the cursor is behind the header.
Rewind == ~reading /\ reading' = TRUE /\ cur' = 6 /\ UNCHANGED <<buf, cap, fields, got>>

Take(k, r) ==
  /\ cur' = cur + r.n /\ got' = Append(got, <<k, r.v>>)
  /\ UNCHANGED <<buf, cap, fields, reading>>
Read ==
  /\ reading /\ Len(got) < Len(fields)
  /\ LET f == fields[Len(got) + 1] IN Take(f[1], read(f[1], f[2], buf, cur))

Next == (\E k \in Kinds : \E v \in Values(k) : Write(k, v)) \/ Rewind \/ Read

Spec == Init /\ [][Next]_vars

-----------------------------------------------------------------------------
(* Properties.                                                             *)

\* Reading the fields in the order they were written gives their values, sign and all.
RoundTrip == IsPrefix(got, fields)

\* No writer and no reader goes past the bytes of the buffer: every writer makes room first.
StaysInBuffer == cap > 0 => Len(buf) <= cap /\ cur <= Len(buf)

\* The reader ends where the writer ended.
ReaderEndsAtEnd == reading /\ Len(got) = Len(fields) => cur = Len(buf)
=============================================================================
