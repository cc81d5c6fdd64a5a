----------------------------- MODULE MCMessages ------------------------------
(***************************************************************************)
(* One run for what a message is made of: receiving it into its buffer     *)
(* (FrameReader), its fields (Codec) and the pool the buffers come from    *)
(* (MsgBufPool).  part says which of them a behaviour is of; the others    *)
(* stay in an initial state.  A byte has two bits: 0xFFFF is 15, an int    *)
(* has eight bits, and the 512 and 1024 byte buffers are 8 and 16 long.    *)
(***************************************************************************)
EXTENDS FrameReader, MsgBufPoolState

VARIABLES part, buf, cur, cap, fields, got, reading

MCPoolSizes == {8, 16}

-----------------------------------------------------------------------------
(* Fields of a byte in full, the others at the ends of their ranges.       *)
Ends(w) == {-(Base^w \div 2), -1, 0, Base^w \div 2 - 1}
MCValues(k) ==
  CASE k = "Int8" -> -(Base \div 2) .. Base \div 2 - 1 [] k = "UInt8" -> 0 .. Base - 1 [] k = "Boolean" -> BOOLEAN
    [] k = "Short" -> Ends(2) [] k = "UShort" -> {0, 1, ShortMark} [] k \in {"Int", "Float"} -> Ends(4)
    [] k = "UInt" -> {0, UIntMod - 1} [] k = "Int64" -> Ends(8)
    [] k = "Double" -> {<<0, 1, 2, 3, 3, 2, 1, 1>>} [] OTHER -> {<<>>, <<3>>, <<1, 2, 0>>}
Fields == INSTANCE Codec WITH Values <- MCValues, MaxFields <- 2

(* Lengths in units of 256 bytes.  Init makes one buffer of each kind, so  *)
(* that a few messages empty the pool and it is filled again; requests are *)
(* 0 (any buffer), the 512 bytes of NetMessage's default, and longer ones  *)
(* that the pool may not have.                                             *)
Pool == INSTANCE MsgBufPool WITH InitSizes <- <<2, 4>>, Requests <- {0, 2, 5}, MaxBufs <- 5, MaxLen <- 8
ASSUME Pool!PoolConstants

-----------------------------------------------------------------------------
(* The run.                                                                *)
fieldVars == <<buf, cur, cap, fields, got, reading>>
suiteVars == <<part, fieldVars, poolVars, vars>>

SuiteInit ==
  /\ part \in {"frames", "fields", "pool"}
  /\ Init /\ (part # "frames" => m = NewMessage(DefaultSize))
  /\ Fields!Init /\ Pool!Init
SuiteNext ==
  \/ part = "frames" /\ Next /\ UNCHANGED <<part, fieldVars, poolVars>>
  \/ part = "fields" /\ Fields!Next /\ UNCHANGED <<part, poolVars, vars>>
  \/ part = "pool" /\ Pool!Next /\ UNCHANGED <<part, fieldVars, vars>>
SuiteSpec == SuiteInit /\ [][SuiteNext]_suiteVars

(***************************************************************************)
(* The fields of a message are read as they were written, sign and all,    *)
(* no writer and no reader goes past the buffer, and the reader ends where *)
(* the writer did.                                                         *)
(***************************************************************************)
FieldsSurvive == Fields!RoundTrip /\ Fields!StaysInBuffer /\ Fields!ReaderEndsAtEnd
=============================================================================
