------------------------------ MODULE LuaCheck ------------------------------
(***************************************************************************)
(* The code checker and symbolic execution of ldebug.c, over the opcode    *)
(* table of lopcodes.c.  The run-time error messages use the same symbolic *)
(* execution to find the name of a value.                                  *)
(***************************************************************************)
EXTENDS LuaCode, FiniteSetsExt

(***************************************************************************)
(* luaP_opmodes: whether the instruction is a test (t) and changes R(A)    *)
(* (a), the modes of B and C and the format.                               *)
(***************************************************************************)
Mode(t, a, b, c, m) == [t |-> t = 1, a |-> a = 1, b |-> b, c |-> c, m |-> m]
luaP_opmodes(o) ==
  CASE o \in {"MOVE", "LOADNIL", "UNM", "NOT", "LEN"} -> Mode(0, 1, "R", "N", "ABC")
    [] o \in {"LOADK", "GETGLOBAL"} -> Mode(0, 1, "K", "N", "ABx")
    [] o \in {"LOADBOOL", "NEWTABLE", "CALL", "TAILCALL"} -> Mode(0, 1, "U", "U", "ABC")
    [] o \in {"GETUPVAL", "VARARG"} -> Mode(0, 1, "U", "N", "ABC")
    [] o \in {"GETTABLE", "SELF"} -> Mode(0, 1, "R", "K", "ABC")
    [] o = "SETGLOBAL" -> Mode(0, 0, "K", "N", "ABx")
    [] o \in {"SETUPVAL", "RETURN"} -> Mode(0, 0, "U", "N", "ABC")
    [] o = "SETTABLE" -> Mode(0, 0, "K", "K", "ABC")
    [] o \in {"ADD", "SUB", "MUL", "DIV", "MOD", "POW"} -> Mode(0, 1, "K", "K", "ABC")
    [] o = "CONCAT" -> Mode(0, 1, "R", "R", "ABC")
    [] o = "JMP" -> Mode(0, 0, "R", "N", "AsBx")
    [] o \in {"EQ", "LT", "LE"} -> Mode(1, 0, "K", "K", "ABC")
    [] o \in {"TEST", "TESTSET"} -> Mode(1, 1, "R", "U", "ABC")
    [] o \in {"FORLOOP", "FORPREP"} -> Mode(0, 1, "R", "N", "AsBx")
    [] o = "TFORLOOP" -> Mode(1, 0, "N", "U", "ABC")
    [] o = "SETLIST" -> Mode(0, 0, "U", "U", "ABC")
    [] o = "CLOSE" -> Mode(0, 0, "N", "N", "ABC")
    [] o = "CLOSURE" -> Mode(0, 1, "U", "N", "ABx")

sizecode(pt) == Len(pt.code)
InstrAt(pt, i) == pt.code[i + 1]
checkreg(pt, reg) == reg < pt.maxstack

precheck(pt) ==
  /\ pt.maxstack <= MAXSTACK
  /\ pt.numparams + (IF "HASARG" \in pt.vararg THEN 1 ELSE 0) <= pt.maxstack
  /\ "NEEDSARG" \in pt.vararg => "HASARG" \in pt.vararg
  /\ Len(pt.upvalues) <= pt.nups
  /\ sizecode(pt) > 0 /\ Last(pt.code).o = "RETURN"

luaG_checkopenop(i) == i.o \in {"CALL", "TAILCALL", "RETURN", "SETLIST"} /\ i.b = 0

checkArgMode(pt, r, mode) ==
  CASE mode = "N" -> r = 0
    [] mode = "U" -> TRUE
    [] mode = "R" -> checkreg(pt, r)
    [] mode = "K" -> IF ISK(r) THEN r - BITRK < Len(pt.k) ELSE checkreg(pt, r)

IsOpenSetlist(pt, j) == InstrAt(pt, j).o = "SETLIST" /\ InstrAt(pt, j).c = 0

\* The destination is not the data word that follows a SETLIST.
checkdest(pt, dest) ==
  /\ 0 <= dest /\ dest < sizecode(pt)
  /\ LET run == {j \in 0 .. dest : \A n \in dest - j .. dest - 1 : IsOpenSetlist(pt, n)}
     IN Max(run) % 2 = 0

checkargs(pt, i, at) ==
  LET md == luaP_opmodes(i.o)
  IN CASE md.m = "ABC" -> checkArgMode(pt, i.b, md.b) /\ checkArgMode(pt, i.c, md.c)
       [] md.m = "ABx" -> md.b = "K" => i.b < Len(pt.k)
       [] md.m = "AsBx" -> checkdest(pt, at + 1 + i.b)

\* The switch of symbexec: what each instruction requires.
checkop(pt, i, at) ==
  CASE i.o = "LOADBOOL" -> i.c = 1 => at + 2 < sizecode(pt) /\ ~IsOpenSetlist(pt, at + 1)
    [] i.o \in {"GETUPVAL", "SETUPVAL"} -> i.b < pt.nups
    [] i.o \in {"GETGLOBAL", "SETGLOBAL"} -> pt.k[i.b + 1][1] = "str"
    [] i.o = "SELF" -> checkreg(pt, i.a + 1)
    [] i.o = "CONCAT" -> i.b < i.c
    [] i.o = "TFORLOOP" -> i.c >= 1 /\ checkreg(pt, i.a + 2 + i.c)
    [] i.o \in {"FORLOOP", "FORPREP"} -> checkreg(pt, i.a + 3)
    [] i.o \in {"CALL", "TAILCALL"} ->
         /\ i.b # 0 => checkreg(pt, i.a + i.b - 1)
         /\ i.c = 0 => luaG_checkopenop(InstrAt(pt, at + 1))
         /\ i.c > 1 => checkreg(pt, i.a + i.c - 2)
    [] i.o = "RETURN" -> i.b > 1 => checkreg(pt, i.a + i.b - 2)
    [] i.o = "SETLIST" ->
         (i.b > 0 => checkreg(pt, i.a + i.b)) /\ (i.c = 0 => at + 1 < sizecode(pt) - 1)
    [] i.o = "CLOSURE" ->
         /\ i.b < Len(pt.p)
         /\ at + pt.p[i.b + 1].nups < sizecode(pt)
         /\ \A j \in 1 .. pt.p[i.b + 1].nups : InstrAt(pt, at + j).o \in {"GETUPVAL", "MOVE"}
    [] i.o = "VARARG" ->
         /\ "ISVARARG" \in pt.vararg /\ "NEEDSARG" \notin pt.vararg
         /\ i.b = 0 => luaG_checkopenop(InstrAt(pt, at + 1))
         /\ checkreg(pt, i.a + i.b - 2)
    [] OTHER -> TRUE

\* Whether the instruction changes register reg.
changes(i, reg) ==
  \/ luaP_opmodes(i.o).a /\ i.a = reg
  \/ i.o = "LOADNIL" /\ i.a <= reg /\ reg <= i.b
  \/ i.o = "SELF" /\ reg = i.a + 1
  \/ i.o = "TFORLOOP" /\ reg >= i.a + 2
  \/ i.o \in {"CALL", "TAILCALL"} /\ reg >= i.a

\* Mutant: jumps are not followed.
followNoJump(pt, i, at, lastpc, reg) ==
  CASE i.o = "SETLIST" /\ i.c = 0 -> at + 2
    [] i.o = "CLOSURE" /\ reg # NO_REG -> at + 1 + pt.p[i.b + 1].nups
    [] OTHER -> at + 1

\* Where symbolic execution goes on after the instruction at `at'.
follow(pt, i, at, lastpc, reg) ==
  LET dest == at + 1 + i.b
  IN CASE i.o \in {"FORLOOP", "FORPREP", "JMP"} /\ reg # NO_REG /\ at < dest /\ dest <= lastpc -> dest
       [] i.o = "SETLIST" /\ i.c = 0 -> at + 2
       [] i.o = "CLOSURE" /\ reg # NO_REG -> at + 1 + pt.p[i.b + 1].nups
       [] OTHER -> at + 1

(***************************************************************************)
(* Position of the last instruction before lastpc that changed reg (the    *)
(* final RETURN if none did), -1 if a check fails.                         *)
(***************************************************************************)
RECURSIVE symbexecFrom(_, _, _, _, _)
symbexecFrom(pt, at, lastpc, reg, last) ==
  LET i == InstrAt(pt, at)
  IN IF at >= lastpc THEN last
     ELSE IF /\ checkreg(pt, i.a) /\ checkargs(pt, i, at)
             /\ luaP_opmodes(i.o).t => at + 2 < sizecode(pt) /\ InstrAt(pt, at + 1).o = "JMP"
             /\ checkop(pt, i, at)
     THEN symbexecFrom(pt, follow(pt, i, at, lastpc, reg), lastpc, reg,
                       IF changes(i, reg) THEN at ELSE last)
     ELSE -1

symbexec(pt, lastpc, reg) ==
  IF precheck(pt) THEN symbexecFrom(pt, 0, lastpc, reg, sizecode(pt) - 1) ELSE -1

luaG_checkcode(pt) == symbexec(pt, sizecode(pt), NO_REG) # -1

-----------------------------------------------------------------------------
(* Names for error messages.                                               *)

kname(pt, c) ==
  IF ISK(c) /\ pt.k[c - BITRK + 1][1] = "str" THEN pt.k[c - BITRK + 1][2] ELSE <<"?">>

NoName == [kind |-> "none", name |-> <<>>]

\* The name of the n-th variable that is active at position at, <<>> if none.
luaF_getlocalname(pt, n, at) ==
  LET upto == Max({i \in 0 .. Len(pt.locvars) : \A j \in 1 .. i : pt.locvars[j].startpc <= at})
      active == SelectSeq(SubSeq(pt.locvars, 1, upto), LAMBDA v : at < v.endpc)
  IN IF n <= Len(active) THEN active[n].name ELSE <<>>

\* What the instruction that loaded register reg says about its value.
RECURSIVE getobjname(_, _, _)
LoadedBy(pt, at, i) ==
  CASE i.o = "GETGLOBAL" -> [kind |-> "global", name |-> pt.k[i.b + 1][2]]
    [] i.o = "MOVE" /\ i.b < i.a -> getobjname(pt, at, i.b)
    [] i.o = "GETTABLE" -> [kind |-> "field", name |-> kname(pt, i.c)]
    [] i.o = "GETUPVAL" -> [kind |-> "upvalue", name |-> pt.upvalues[i.b + 1]]
    [] i.o = "SELF" -> [kind |-> "method", name |-> kname(pt, i.c)]
    [] OTHER -> NoName

getobjname(pt, at, reg) ==
  LET loc == luaF_getlocalname(pt, reg + 1, at)
      sx == symbexec(pt, at, reg)
  IN IF loc # <<>> THEN [kind |-> "local", name |-> loc]
     ELSE IF sx = -1 THEN NoName ELSE LoadedBy(pt, at, InstrAt(pt, sx))
=============================================================================
