------------------------------- MODULE LuaCode -------------------------------
(***************************************************************************)
(* lcode.c and lopcodes.h: the code generator of the Lua compiler.  Every  *)
(* operator takes and returns the compiler state S, a record with          *)
(*   fs    the FuncState of the function being compiled,                   *)
(*   e     the expdesc the operation works on (nval is kept in info),      *)
(*   r     the int the C function returns,                                 *)
(*   err   the first error thrown, "" if none,                             *)
(*   bad   the first lua_assert that failed, "" if none.                   *)
(* luaX_throw unwinds the C stack; here the rest of the input is dropped   *)
(* (see Throw) and whatever is compiled after it is never used.            *)
(* An instruction is a record with the fields o (opcode), a, b, c; Bx and  *)
(* sBx are in b.  Positions in the code count from 0 as in the source.     *)
(***************************************************************************)
EXTENDS Integers, SequencesExt

CONSTANTS
  MAXSTACK,           \* 250
  MAXINDEXRK,         \* 255: largest constant index an RK operand can hold
  MAXARG_C,           \* 511
  MAXARG_sBx,         \* 131071
  LFIELDS_PER_FLUSH   \* 50

ASSUME LimitsAssumption ==
  /\ MAXSTACK \in 3 .. 250 /\ MAXINDEXRK \in 0 .. 255
  /\ MAXARG_C \in 1 .. 511 /\ MAXARG_sBx \in 1 .. 131071
  /\ LFIELDS_PER_FLUSH \in 1 .. 50

NO_JUMP == -1
NO_REG == 255
BITRK == 256
ISK(x) == x >= BITRK
RKASK(x) == x + BITRK
TModeOps == {"EQ", "LT", "LE", "TEST", "TESTSET", "TFORLOOP"}

ABC(o, a, b, c) == [o |-> o, a |-> a, b |-> b, c |-> c]

init_exp(k, i) == [k |-> k, info |-> i, aux |-> 0, t |-> NO_JUMP, f |-> NO_JUMP]
hasjumps(e) == e.t # e.f
isnumeral(e) == e.k = "VKNUM" /\ e.t = NO_JUMP /\ e.f = NO_JUMP

On(S, e) == [S EXCEPT !.e = e]
Ret(S, n) == [S EXCEPT !.r = n]
pc(S) == Len(S.fs.code)
At(S, i) == S.fs.code[i + 1]

Throw(S, msg) ==
  [S EXCEPT !.err = IF @ = "" THEN msg ELSE @, !.at = Len(S.toks) + 1]

lua_assert(S, cond, what) ==
  IF cond \/ S.err # "" \/ S.bad # "" THEN S ELSE [S EXCEPT !.bad = what]

-----------------------------------------------------------------------------
(* Jump lists: a list of pending jumps is threaded through their sBx.      *)

luaK_getlabel(S) == [S EXCEPT !.fs.lasttarget = pc(S), !.r = pc(S)]

getjump(S, i) == IF At(S, i).b = NO_JUMP THEN NO_JUMP ELSE i + 1 + At(S, i).b

fixjump(S, i, dest) ==
  LET offset == dest - (i + 1)
      s == lua_assert(S, dest # NO_JUMP, "fixjump")
  IN IF offset > MAXARG_sBx \/ -offset > MAXARG_sBx
     THEN Throw(s, "control structure too long")
     ELSE [s EXCEPT !.fs.code[i + 1].b = offset]

\* Position of the instruction that controls the jump at i.
getjumpcontrol(S, i) ==
  IF i >= 1 /\ At(S, i - 1).o \in TModeOps THEN i - 1 ELSE i

RECURSIVE need_value(_, _)
need_value(S, list) ==
  /\ list # NO_JUMP /\ S.err = ""
  /\ At(S, getjumpcontrol(S, list)).o # "TESTSET" \/ need_value(S, getjump(S, list))

\* r tells whether the instruction was a TESTSET.
patchtestreg(S, node, reg) ==
  LET at == getjumpcontrol(S, node)
      i == At(S, at)
  IN CASE i.o # "TESTSET" -> Ret(S, 0)
       [] i.o = "TESTSET" /\ reg # NO_REG /\ reg # i.b ->
            [S EXCEPT !.fs.code[at + 1].a = reg, !.r = 1]
       [] OTHER -> [S EXCEPT !.fs.code[at + 1] = ABC("TEST", i.b, 0, i.c), !.r = 1]

RECURSIVE removevalues(_, _)
removevalues(S, list) ==
  IF list = NO_JUMP \/ S.err # "" THEN S
  ELSE removevalues(patchtestreg(S, list, NO_REG), getjump(S, list))

RECURSIVE patchlistaux(_, _, _, _, _)
patchlistaux(S, list, vtarget, reg, dtarget) ==
  IF list = NO_JUMP \/ S.err # "" THEN S
  ELSE LET s == patchtestreg(S, list, reg)
       IN patchlistaux(fixjump(s, list, IF s.r = 1 THEN vtarget ELSE dtarget),
                       getjump(S, list), vtarget, reg, dtarget)

dischargejpc(S) ==
  [patchlistaux(S, S.fs.jpc, pc(S), NO_REG, pc(S)) EXCEPT !.fs.jpc = NO_JUMP]

RECURSIVE LastJump(_, _)
LastJump(S, list) ==
  IF getjump(S, list) = NO_JUMP \/ S.err # "" THEN list ELSE LastJump(S, getjump(S, list))

\* r is the joined list.
luaK_concat(S, l1, l2) ==
  IF l2 = NO_JUMP THEN Ret(S, l1)
  ELSE IF l1 = NO_JUMP THEN Ret(S, l2)
  ELSE Ret(fixjump(S, LastJump(S, l1), l2), l1)

luaK_patchtohere(S, list) ==
  LET s == luaK_concat(luaK_getlabel(S), S.fs.jpc, list)
  IN [s EXCEPT !.fs.jpc = s.r]

luaK_patchlist(S, list, target) ==
  IF target = pc(S) THEN luaK_patchtohere(S, list)
  ELSE patchlistaux(lua_assert(S, target < pc(S), "patchlist"), list, target, NO_REG, target)

-----------------------------------------------------------------------------
(* Emitting instructions, registers and constants.                         *)

luaK_code(S, i) ==
  LET s == dischargejpc(S)
  IN [s EXCEPT !.fs.code = Append(@, i), !.r = pc(S)]

luaK_codeABC(S, o, a, b, c) == luaK_code(S, ABC(o, a, b, c))
luaK_codeABx(S, o, a, bx) == luaK_code(S, ABC(o, a, bx, 0))

luaK_jump(S) ==
  LET s == luaK_codeABx([S EXCEPT !.fs.jpc = NO_JUMP], "JMP", 0, NO_JUMP)
  IN luaK_concat(s, s.r, S.fs.jpc)

luaK_ret(S, first, nret) == luaK_codeABC(S, "RETURN", first, nret + 1, 0)

condjump(S, o, a, b, c) == luaK_jump(luaK_codeABC(S, o, a, b, c))

luaK_nil(S, from, n) ==
  LET clean == pc(S) > S.fs.lasttarget
      prev == At(S, pc(S) - 1)
  IN CASE clean /\ pc(S) = 0 /\ from >= S.fs.nactvar -> S
       [] clean /\ pc(S) > 0 /\ prev.o = "LOADNIL" /\ prev.a <= from /\ from <= prev.b + 1 ->
            IF from + n - 1 > prev.b THEN [S EXCEPT !.fs.code[pc(S)].b = from + n - 1] ELSE S
       [] OTHER -> luaK_codeABC(S, "LOADNIL", from, from + n - 1, 0)

luaK_checkstack(S, n) ==
  LET newstack == S.fs.freereg + n
  IN IF newstack <= S.fs.maxstack THEN S
     ELSE IF newstack >= MAXSTACK THEN Throw(S, "function or expression too complex")
     ELSE [S EXCEPT !.fs.maxstack = newstack]

luaK_reserveregs(S, n) == [luaK_checkstack(S, n) EXCEPT !.fs.freereg = @ + n]

freereg(S, reg) ==
  IF ISK(reg) \/ reg < S.fs.nactvar THEN S
  ELSE lua_assert([S EXCEPT !.fs.freereg = @ - 1], reg = S.fs.freereg - 1, "freereg")

freeexp(S, e) == IF e.k = "VNONRELOC" THEN freereg(S, e.info) ELSE S

\* r is the index of the constant v; fs->h maps each constant to its index.
addk(S, v) ==
  LET at == SelectInSeq(S.fs.k, LAMBDA x : x = v)
  IN IF at # 0 THEN Ret(S, at - 1)
     ELSE [S EXCEPT !.fs.k = Append(@, v), !.r = Len(S.fs.k)]

luaK_stringK(S, s) == addk(S, <<"str", s>>)
luaK_numberK(S, n) == addk(S, <<"num", n>>)
boolK(S, b) == addk(S, <<"bool", b>>)
nilK(S) == addk(S, <<"nil">>)

-----------------------------------------------------------------------------
(* Expressions.  S.e is the expdesc, and is left discharged as the name    *)
(* says.                                                                   *)

luaK_setreturns(S, e, nresults) ==
  CASE e.k = "VCALL" -> [S EXCEPT !.fs.code[e.info + 1].c = nresults + 1]
    [] e.k = "VVARARG" ->
         luaK_reserveregs([S EXCEPT !.fs.code[e.info + 1].b = nresults + 1,
                                    !.fs.code[e.info + 1].a = S.fs.freereg], 1)
    [] OTHER -> S

luaK_setoneret(S) ==
  CASE S.e.k = "VCALL" ->
         [S EXCEPT !.e.k = "VNONRELOC", !.e.info = At(S, S.e.info).a]
    [] S.e.k = "VVARARG" ->
         [S EXCEPT !.fs.code[S.e.info + 1].b = 2, !.e.k = "VRELOCABLE"]
    [] OTHER -> S

Relocable(S) == [S EXCEPT !.e.k = "VRELOCABLE", !.e.info = S.r]

luaK_dischargevars(S) ==
  LET e == S.e
  IN CASE e.k = "VLOCAL" -> [S EXCEPT !.e.k = "VNONRELOC"]
       [] e.k = "VUPVAL" -> Relocable(luaK_codeABC(S, "GETUPVAL", 0, e.info, 0))
       [] e.k = "VGLOBAL" -> Relocable(luaK_codeABx(S, "GETGLOBAL", 0, e.info))
       [] e.k = "VINDEXED" ->
            Relocable(luaK_codeABC(freereg(freereg(S, e.aux), e.info),
                                   "GETTABLE", 0, e.info, e.aux))
       [] OTHER -> luaK_setoneret(S)

code_label(S, a, b, jump) == luaK_codeABC(luaK_getlabel(S), "LOADBOOL", a, b, jump)

discharge2reg(S, reg) ==
  LET s == luaK_dischargevars(S)
      e == s.e
      k == luaK_numberK(s, e.info)
      put == CASE e.k = "VNIL" -> luaK_nil(s, reg, 1)
               [] e.k = "VFALSE" -> luaK_codeABC(s, "LOADBOOL", reg, 0, 0)
               [] e.k = "VTRUE" -> luaK_codeABC(s, "LOADBOOL", reg, 1, 0)
               [] e.k = "VK" -> luaK_codeABx(s, "LOADK", reg, e.info)
               [] e.k = "VKNUM" -> luaK_codeABx(k, "LOADK", reg, k.r)
               [] e.k = "VRELOCABLE" -> [s EXCEPT !.fs.code[e.info + 1].a = reg]
               [] e.k = "VNONRELOC" ->
                    IF reg = e.info THEN s ELSE luaK_codeABC(s, "MOVE", reg, e.info, 0)
  IN IF e.k \in {"VVOID", "VJMP"} THEN s
     ELSE [put EXCEPT !.e.info = reg, !.e.k = "VNONRELOC"]

discharge2anyreg(S) ==
  IF S.e.k = "VNONRELOC" THEN S
  ELSE LET s == luaK_reserveregs(S, 1) IN discharge2reg(s, s.fs.freereg - 1)

\* Mutant: the loads of true and false come in the wrong order.
exp2regSwapped(S, reg) ==
  LET s0 == discharge2reg(S, reg)
      s1 == luaK_concat(s0, s0.e.t, IF s0.e.k = "VJMP" THEN s0.e.info ELSE NO_JUMP)
      t == s1.r
      f == s1.e.f
      need == need_value(s1, t) \/ need_value(s1, f)
      s2 == IF s1.e.k = "VJMP" THEN Ret(s1, NO_JUMP) ELSE luaK_jump(s1)
      s3 == code_label(s2, reg, 1, 1)
      s4 == code_label(s3, reg, 0, 0)
      s5 == luaK_getlabel(IF need THEN luaK_patchtohere(s4, s2.r) ELSE s1)
      s6 == patchlistaux(s5, f, pc(s5), reg, IF need THEN s3.r ELSE NO_JUMP)
      s7 == patchlistaux(s6, t, pc(s5), reg, IF need THEN s4.r ELSE NO_JUMP)
  IN On(IF t # f THEN s7 ELSE s1, init_exp("VNONRELOC", reg))

\* Where some jump does not carry a value, LOADBOOLs for false and true follow.
exp2reg(S, reg) ==
  LET s0 == discharge2reg(S, reg)
      s1 == luaK_concat(s0, s0.e.t, IF s0.e.k = "VJMP" THEN s0.e.info ELSE NO_JUMP)
      t == s1.r
      f == s1.e.f
      need == need_value(s1, t) \/ need_value(s1, f)
      s2 == IF s1.e.k = "VJMP" THEN Ret(s1, NO_JUMP) ELSE luaK_jump(s1)
      s3 == code_label(s2, reg, 0, 1)
      s4 == code_label(s3, reg, 1, 0)
      s5 == luaK_getlabel(IF need THEN luaK_patchtohere(s4, s2.r) ELSE s1)
      s6 == patchlistaux(s5, f, pc(s5), reg, IF need THEN s3.r ELSE NO_JUMP)
      s7 == patchlistaux(s6, t, pc(s5), reg, IF need THEN s4.r ELSE NO_JUMP)
  IN On(IF t # f THEN s7 ELSE s1, init_exp("VNONRELOC", reg))

luaK_exp2nextreg(S) ==
  LET d == luaK_dischargevars(S)
      s == luaK_reserveregs(freeexp(d, d.e), 1)
  IN exp2reg(s, s.fs.freereg - 1)

luaK_exp2anyreg(S) ==
  LET s == luaK_dischargevars(S)
      placed == CASE s.e.k = "VNONRELOC" /\ ~hasjumps(s.e) -> s
                  [] s.e.k = "VNONRELOC" /\ hasjumps(s.e) /\ s.e.info >= s.fs.nactvar ->
                       exp2reg(s, s.e.info)
                  [] OTHER -> luaK_exp2nextreg(s)
  IN Ret(placed, placed.e.info)

luaK_exp2val(S) == IF hasjumps(S.e) THEN luaK_exp2anyreg(S) ELSE luaK_dischargevars(S)

\* Mutant: one constant too many is an operand.
FitsRKLate(i) == i <= MAXINDEXRK + 1

FitsRK(i) == i <= MAXINDEXRK

\* r is the RK operand.
luaK_exp2RK(S) ==
  LET s == luaK_exp2val(S)
      c == CASE s.e.k = "VNIL" -> nilK(s)
             [] s.e.k = "VKNUM" -> luaK_numberK(s, s.e.info)
             [] OTHER -> boolK(s, s.e.k = "VTRUE")
  IN CASE s.e.k \in {"VKNUM", "VTRUE", "VFALSE", "VNIL"} /\ FitsRK(Len(s.fs.k)) ->
            [c EXCEPT !.e.k = "VK", !.e.info = c.r, !.r = RKASK(c.r)]
       [] s.e.k = "VK" /\ FitsRK(s.e.info) -> Ret(s, RKASK(s.e.info))
       [] OTHER -> luaK_exp2anyreg(s)

luaK_storevar(S, var) ==
  LET any == luaK_exp2anyreg(S)
      rk == luaK_exp2RK(S)
      s == CASE var.k = "VUPVAL" -> luaK_codeABC(any, "SETUPVAL", any.r, var.info, 0)
             [] var.k = "VGLOBAL" -> luaK_codeABx(any, "SETGLOBAL", any.r, var.info)
             [] var.k = "VINDEXED" -> luaK_codeABC(rk, "SETTABLE", var.info, var.aux, rk.r)
             [] OTHER -> lua_assert(S, FALSE, "storevar")
  IN IF var.k = "VLOCAL" THEN exp2reg(freeexp(S, S.e), var.info)
     ELSE freeexp(s, s.e)

\* S.e is the object, key the method's name.
luaK_self(S, key) ==
  LET s1 == luaK_exp2anyreg(S)
      s2 == freeexp(s1, s1.e)
      func == s2.fs.freereg
      s3 == luaK_exp2RK(On(luaK_reserveregs(s2, 2), key))
      s4 == luaK_codeABC(s3, "SELF", func, s1.e.info, s3.r)
      s5 == freeexp(s4, s3.e)
  IN On(s5, [s1.e EXCEPT !.k = "VNONRELOC", !.info = func])

-----------------------------------------------------------------------------
(* Conditions.                                                             *)

invertjump(S) ==
  LET at == getjumpcontrol(S, S.e.info)
      s == lua_assert(S, At(S, at).o \in TModeOps \ {"TESTSET", "TEST"}, "invertjump")
  IN [s EXCEPT !.fs.code[at + 1].a = 1 - @]

jumponcond(S, cond) ==
  LET i == At(S, S.e.info)
      s1 == discharge2anyreg(S)
      s2 == freeexp(s1, s1.e)
  IN IF S.e.k = "VRELOCABLE" /\ i.o = "NOT"
     THEN condjump([S EXCEPT !.fs.code = Front(@)], "TEST", i.b, 0, 1 - cond)
     ELSE condjump(s2, "TESTSET", NO_REG, s1.e.info, cond)

luaK_goiftrue(S) ==
  LET d == luaK_dischargevars(S)
      k == d.e.k
      s == CASE k \in {"VK", "VKNUM", "VTRUE"} -> Ret(d, NO_JUMP)
             [] k = "VFALSE" -> luaK_jump(d)
             [] k = "VJMP" -> Ret(invertjump(d), d.e.info)
             [] OTHER -> jumponcond(d, 0)
      c == luaK_concat(s, s.e.f, s.r)
  IN [luaK_patchtohere(c, c.e.t) EXCEPT !.e.f = c.r, !.e.t = NO_JUMP]

luaK_goiffalse(S) ==
  LET d == luaK_dischargevars(S)
      k == d.e.k
      s == CASE k \in {"VNIL", "VFALSE"} -> Ret(d, NO_JUMP)
             [] k = "VTRUE" -> luaK_jump(d)
             [] k = "VJMP" -> Ret(d, d.e.info)
             [] OTHER -> jumponcond(d, 1)
      c == luaK_concat(s, s.e.t, s.r)
  IN [luaK_patchtohere(c, c.e.f) EXCEPT !.e.t = c.r, !.e.f = NO_JUMP]

codenot(S) ==
  LET d == luaK_dischargevars(S)
      k == d.e.k
      s1 == discharge2anyreg(d)
      s2 == luaK_codeABC(freeexp(s1, s1.e), "NOT", 0, s1.e.info, 0)
      s == CASE k \in {"VNIL", "VFALSE"} -> [d EXCEPT !.e.k = "VTRUE"]
             [] k \in {"VK", "VKNUM", "VTRUE"} -> [d EXCEPT !.e.k = "VFALSE"]
             [] k = "VJMP" -> invertjump(d)
             [] k \in {"VRELOCABLE", "VNONRELOC"} -> Relocable(s2)
             [] OTHER -> lua_assert(d, FALSE, "codenot")
  IN removevalues(removevalues([s EXCEPT !.e.f = s.e.t, !.e.t = s.e.f], s.e.t), s.e.f)

-----------------------------------------------------------------------------
(* Operators.                                                              *)

\* S.e is the key; the result describes t[key].
luaK_indexed(S, t) ==
  LET s == luaK_exp2RK(S) IN On(s, [t EXCEPT !.aux = s.r, !.k = "VINDEXED"])

\* luai_num*.  Numbers are integers here, and chunks divide exactly; the result
\* of a division by zero is one more number.
NotFinite == 1000000
numarith(o, x, y) ==
  CASE o \in {"DIV", "MOD"} /\ y = 0 -> NotFinite
    [] o = "ADD" -> x + y
    [] o = "SUB" -> x - y
    [] o = "MUL" -> x * y
    [] o = "DIV" -> IF y > 0 THEN x \div y ELSE (-x) \div (-y)
    [] o = "MOD" -> IF y > 0 THEN x % y ELSE -((-x) % (-y))
    [] o = "POW" -> x ^ y
    [] o = "UNM" -> -x

Folds(o, e1, e2) ==
  /\ isnumeral(e1) /\ isnumeral(e2)
  /\ o \in {"ADD", "SUB", "MUL", "POW", "UNM"} \/ (o \in {"DIV", "MOD"} /\ e2.info # 0)

\* S.e is the second operand, e1 the first; the result describes e1 o e2.
codearith(S, o, e1) ==
  LET e2 == S.e
      s2 == IF o \in {"UNM", "LEN"} THEN Ret(S, 0) ELSE luaK_exp2RK(S)
      s1 == luaK_exp2RK(On(s2, e1))
      freed == IF s1.r > s2.r THEN freeexp(freeexp(s1, s1.e), s2.e)
               ELSE freeexp(freeexp(s1, s2.e), s1.e)
  IN IF Folds(o, e1, e2) THEN On(S, [e1 EXCEPT !.info = numarith(o, e1.info, e2.info)])
     ELSE Relocable(luaK_codeABC(freed, o, 0, s1.r, s2.r))

codecomp(S, o, cond, e1) ==
  LET s1 == luaK_exp2RK(On(S, e1))
      s2 == luaK_exp2RK(On(s1, S.e))
      freed == On(freeexp(freeexp(s2, s2.e), s1.e), s1.e)
      s == IF cond = 0 /\ o # "EQ" THEN condjump(freed, o, 1, s2.r, s1.r)
           ELSE condjump(freed, o, cond, s1.r, s2.r)
  IN [s EXCEPT !.e.k = "VJMP", !.e.info = s.r]

luaK_prefix(S, op) ==
  LET zero == init_exp("VKNUM", 0)
      arg == IF op = "-" /\ isnumeral(S.e) THEN S ELSE luaK_exp2anyreg(S)
  IN IF op = "not" THEN codenot(S)
     ELSE codearith(On(arg, zero), IF op = "-" THEN "UNM" ELSE "LEN", arg.e)

ArithOp == [op \in {"+", "-", "*", "/", "%", "^"} |->
  CASE op = "+" -> "ADD" [] op = "-" -> "SUB" [] op = "*" -> "MUL"
    [] op = "/" -> "DIV" [] op = "%" -> "MOD" [] op = "^" -> "POW"]

luaK_infix(S, op) ==
  CASE op = "and" -> luaK_goiftrue(S)
    [] op = "or" -> luaK_goiffalse(S)
    [] op = ".." -> luaK_exp2nextreg(S)
    [] op \in DOMAIN ArithOp /\ isnumeral(S.e) -> S
    [] OTHER -> luaK_exp2RK(S)

\* S.e is the second operand.
luaK_posfix(S, op, e1) ==
  LET d == luaK_dischargevars(S)
      andlist == luaK_concat(lua_assert(d, e1.t = NO_JUMP, "posfix and"), d.e.f, e1.f)
      orlist == luaK_concat(lua_assert(d, e1.f = NO_JUMP, "posfix or"), d.e.t, e1.t)
      v == luaK_exp2val(S)
      chained == v.e.k = "VRELOCABLE" /\ At(v, v.e.info).o = "CONCAT"
      joined == freeexp(lua_assert(v, e1.info = At(v, v.e.info).b - 1, "posfix concat"), e1)
  IN CASE op = "and" -> [andlist EXCEPT !.e.f = andlist.r]
       [] op = "or" -> [orlist EXCEPT !.e.t = orlist.r]
       [] op = ".." /\ chained ->
            On([joined EXCEPT !.fs.code[v.e.info + 1].b = e1.info],
               [e1 EXCEPT !.k = "VRELOCABLE", !.info = v.e.info])
       [] op = ".." /\ ~chained -> codearith(luaK_exp2nextreg(v), "CONCAT", e1)
       [] op \in DOMAIN ArithOp -> codearith(S, ArithOp[op], e1)
       [] op = "==" -> codecomp(S, "EQ", 1, e1)
       [] op = "~=" -> codecomp(S, "EQ", 0, e1)
       [] op = "<" -> codecomp(S, "LT", 1, e1)
       [] op = "<=" -> codecomp(S, "LE", 1, e1)
       [] op = ">" -> codecomp(S, "LT", 0, e1)
       [] op = ">=" -> codecomp(S, "LE", 0, e1)

\* tostore = -1 is LUA_MULTRET.  A batch number too large for C follows as data.
luaK_setlist(S, base, nelems, tostore) ==
  LET c == (nelems - 1) \div LFIELDS_PER_FLUSH + 1
      b == IF tostore = -1 THEN 0 ELSE tostore
      s == lua_assert(S, tostore # 0, "setlist")
      coded == IF c <= MAXARG_C THEN luaK_codeABC(s, "SETLIST", base, b, c)
               ELSE luaK_code(luaK_codeABC(s, "SETLIST", base, b, 0), ABC("DATA", c, 0, 0))
  IN [coded EXCEPT !.fs.freereg = base + 1]
=============================================================================
