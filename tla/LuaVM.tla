-------------------------------- MODULE LuaVM --------------------------------
(***************************************************************************)
(* lvm.c, the calls of ldo.c and the upvalues of lfunc.c: a chunk is       *)
(* compiled and executed, one action per opcode.  Values are <<"nil">>,    *)
(* <<"bool", b>>, <<"num", n>>, <<"str", pieces>>, <<"tab", id>>,          *)
(* <<"fun", id>> and <<"cfun", name>>.  Stack positions count from 0.      *)
(* Garbage collection, hooks, the growth of the stack and coroutines are   *)
(* in other modules or left out.                                           *)
(***************************************************************************)
EXTENDS LuaParser, TLC

CONSTANTS
  Sources,      \* the chunks
  Compile(_),   \* what luaY_parser makes of a chunk
  MAXTAGLOOP,   \* 100
  Alphabet      \* the pieces of strings, in the order of strcoll

ASSUME VMAssumption == MAXTAGLOOP \in Nat \ {0}

VARIABLES
  src,      \* the chunk
  comp,     \* the state of the compiler after luaY_parser
  L,        \* lua_State and the heap it reaches
  status    \* "source", "compiled", "run", "done" or "error"

vars == <<src, comp, L, status>>

Nil == <<"nil">>
Num(n) == <<"num", n>>
Bool(b) == <<"bool", b>>
Str(s) == <<"str", <<s>>>>
isnum(v) == v[1] = "num"
isstr(v) == v[1] = "str"
isfun(v) == v[1] \in {"fun", "cfun"}
l_isfalse(v) == v \in {Nil, Bool(FALSE)}

NullState ==
  [stack |-> <<>>, top |-> 0, ci |-> <<>>, tabs |-> <<>>, fns |-> <<>>, uvs |-> <<>>,
   nCcalls |-> 0, msg |-> <<>>]

Init == src \in Sources /\ comp = <<>> /\ L = NullState /\ status = "source"

-----------------------------------------------------------------------------
(* The current frame.  A CallInfo has func, base, top, nres (nresults), pc *)
(* (savedpc), cl (the closure) and then (what the caller does when the     *)
(* function returns: continue luaV_execute, or the C code that called it). *)

ci(l) == Last(l.ci)
ProtoOf(f) == FoldLeft(LAMBDA p, i : p.p[i], Proto(comp.fs), f.path)
pt(l) == ProtoOf(l.fns[ci(l).cl])
Instr(l) == InstrAt(pt(l), ci(l).pc)
Get(l, i) == l.stack[i + 1]
R(l, r) == Get(l, ci(l).base + r)
K(l, k) == pt(l).k[k + 1]
RK(l, x) == IF ISK(x) THEN K(l, x - BITRK) ELSE R(l, x)

\* stack[i] := v, the stack being extended to reach i.
Set(l, i, v) ==
  LET gap == i + 1 - Len(l.stack)
      st == IF gap > 0 THEN l.stack \o [j \in 1 .. gap |-> Nil] ELSE l.stack
  IN [l EXCEPT !.stack = [st EXCEPT ![i + 1] = v]]
SetAll(l, i, vs) == FoldLeft(LAMBDA x, j : Set(x, i + j - 1, vs[j]), l, [j \in DOMAIN vs |-> j])
SetR(l, r, v) == Set(l, ci(l).base + r, v)
Values(l, i, j) == [n \in 1 .. (IF j > i THEN j - i ELSE 0) |-> Get(l, i + n - 1)]
Jump(l, n) == [l EXCEPT !.ci[Len(l.ci)].pc = @ + n]
Top(l, t) == [l EXCEPT !.top = t]
Fail(l, msg) == [l EXCEPT !.msg = msg]

-----------------------------------------------------------------------------
(* Upvalues (lfunc.c).  openupval is the set of open ones; a list ordered  *)
(* by level in the code.                                                   *)

upvalue(l, u) == IF l.uvs[u].open THEN Get(l, l.uvs[u].at) ELSE l.uvs[u].v

luaF_findupval(l, level) ==
  LET found == SelectInSeq(l.uvs, LAMBDA u : u.open /\ u.at = level)
  IN IF found # 0 THEN [l |-> l, u |-> found]
     ELSE [l |-> [l EXCEPT !.uvs = Append(@, [open |-> TRUE, at |-> level, v |-> Nil])],
           u |-> Len(l.uvs) + 1]

\* Mutant: the upvalue at the level itself stays open.
luaF_closeAbove(l, level) ==
  [l EXCEPT !.uvs = [u \in DOMAIN @ |->
     IF @[u].open /\ @[u].at > level THEN [open |-> FALSE, at |-> 0, v |-> Get(l, @[u].at)] ELSE @[u]]]

luaF_close(l, level) ==
  [l EXCEPT !.uvs = [u \in DOMAIN @ |->
     IF @[u].open /\ @[u].at >= level THEN [open |-> FALSE, at |-> 0, v |-> Get(l, @[u].at)] ELSE @[u]]]

-----------------------------------------------------------------------------
(* Tables and metamethods.                                                 *)

NewTable(l, h) == [l EXCEPT !.tabs = Append(@, [h |-> h, meta |-> 0])]
rawget(l, t, k) == LET h == l.tabs[t].h IN IF k \in DOMAIN h THEN h[k] ELSE Nil
rawset(l, t, k, v) ==
  [l EXCEPT !.tabs[t].h =
     IF v = Nil THEN [x \in DOMAIN @ \ {k} |-> @[x]] ELSE (k :> v) @@ @]

\* luaT_gettmbyobj; the strings and numbers have no metatable here.
tm(l, v, event) ==
  IF v[1] # "tab" \/ l.tabs[v[2]].meta = 0 THEN Nil
  ELSE rawget(l, l.tabs[v[2]].meta, Str(event))

luaH_getn(l, t) == CHOOSE n \in 0 .. Cardinality(DOMAIN l.tabs[t].h) :
  /\ rawget(l, t, Num(n + 1)) = Nil
  /\ \A i \in 1 .. n : rawget(l, t, Num(i)) # Nil

\* A typeerror about the value in register reg, or about no register if it is -1.
luaG_typeerror(l, op, reg) ==
  Fail(l, <<op, IF reg >= 0 THEN getobjname(pt(l), ci(l).pc - 1, reg) ELSE NoName>>)

\* luaD_poscall: the results, from first to the top, replace the function.
luaD_poscall(l, first) ==
  LET c == ci(l)
      got == Values(l, first, l.top)
      n == IF c.nres = LUA_MULTRET THEN Len(got) ELSE c.nres
      res == [j \in 1 .. n |-> IF j <= Len(got) THEN got[j] ELSE Nil]
  IN [SetAll(l, c.func, res) EXCEPT !.ci = Front(@), !.top = c.func + n]

RECURSIVE luaV_concat(_, _, _), Finish(_, _), luaD_precall(_, _, _, _), luaD_call(_, _, _, _)

\* What EQ, LT, LE do with the outcome; pc is past the comparison.
CondJump(l, b) ==
  LET i == InstrAt(pt(l), ci(l).pc - 1)
      jmp == Instr(l).b
  IN Jump(l, IF b = (i.a = 1) THEN jmp + 1 ELSE 1)

TForTest(l) ==
  LET i == InstrAt(pt(l), ci(l).pc - 1)
      l1 == Top(l, ci(l).top)
  IN IF R(l1, i.a + 3) # Nil THEN Jump(SetR(l1, i.a + 2, R(l1, i.a + 3)), Instr(l).b + 1)
     ELSE Jump(l1, 1)

(***************************************************************************)
(* What follows a call once luaD_poscall has moved the results: `call' is  *)
(* OP_CALL itself; the others are C code that called luaD_call.            *)
(***************************************************************************)
Finish(l, then) ==
  LET popped == Top(l, l.top - 1)
      v == Get(l, l.top - 1)
      back == [popped EXCEPT !.nCcalls = @ - 1]
  IN CASE then.k = "call" -> IF then.nres = LUA_MULTRET THEN l ELSE Top(l, ci(l).top)
       [] then.k = "res" -> Set(back, then.to, v)
       [] then.k = "none" -> [l EXCEPT !.nCcalls = @ - 1]
       [] then.k = "cmp" -> CondJump(back, then.neg # ~l_isfalse(v))
       [] then.k = "tfor" -> TForTest([l EXCEPT !.nCcalls = @ - 1])
       [] then.k = "concat" -> luaV_concat(Set(back, then.to, v), then.total, then.last)
       [] then.k = "end" -> [l EXCEPT !.nCcalls = @ - 1]

\* setmetatable, the C function the chunks may call.
CallC(l, func) ==
  LET t == Get(l, func + 1)
      m == Get(l, func + 2)
  IN Top(Set([l EXCEPT !.tabs[t[2]].meta = m[2]], l.top, t), l.top + 1)

\* Missing parameters are nil.
FillParams(l, p, func) ==
  LET missing == func + 1 + p.numparams - l.top
  IN IF missing <= 0 THEN l
     ELSE Top(SetAll(l, l.top, [j \in 1 .. missing |-> Nil]), func + 1 + p.numparams)

\* The table `arg', pushed last if the function needs it.
PushArg(l, needed, extra) ==
  IF ~needed THEN l
  ELSE Top(Set(NewTable(l, (Str("n") :> Num(Len(extra))) @@ [j \in {Num(x) : x \in DOMAIN extra} |-> extra[j[2]]]),
               l.top, <<"tab", Len(l.tabs) + 1>>), l.top + 1)

\* Fixed parameters move above the extra arguments, which stay below the base.
MoveParams(l, n, func) ==
  Top(SetAll(SetAll(l, l.top, Values(l, func + 1, func + 1 + n)), func + 1, [j \in 1 .. n |-> Nil]), l.top + n)

adjust_varargs(l, p, func) ==
  PushArg(MoveParams(l, p.numparams, func), "NEEDSARG" \in p.vararg, Values(l, func + 1 + p.numparams, l.top))

tryfuncTM(l, func, f) ==
  IF isfun(f) THEN Top(SetAll(l, func, <<f>> \o Values(l, func, l.top)), l.top + 1)
  ELSE luaG_typeerror(l, "call", IF func >= ci(l).base /\ func < ci(l).top THEN func - ci(l).base ELSE -1)

\* A new frame for a Lua function, whose arguments are in place.
Enter(l, frame) ==
  Top([SetAll(l, l.top, [j \in 1 .. frame.top - l.top |-> Nil]) EXCEPT !.ci = Append(@, frame)], frame.top)

Frame(func, base, top, nres, cl, then) ==
  [func |-> func, base |-> base, top |-> top, nres |-> nres, pc |-> 0, cl |-> cl, then |-> then]

CallVararg(l, p, func, nres, cl, then) ==
  Enter(adjust_varargs(l, p, func), Frame(func, l.top, l.top + p.maxstack, nres, cl, then))

CallLua(l, p, func, nres, cl, then) ==
  IF p.vararg # {} THEN CallVararg(FillParams(l, p, func), p, func, nres, cl, then)
  ELSE Enter(IF l.top > func + 1 + p.numparams THEN Top(l, func + 1 + p.numparams) ELSE l,
             Frame(func, func + 1, func + 1 + p.maxstack, nres, cl, then))

Returned(l, then) == Finish(luaD_poscall(l, l.top - 1), then)

CallFunction(l, func, nres, then) ==
  CASE l.msg # <<>> -> l
    [] l.msg = <<>> /\ Get(l, func)[1] = "cfun" ->
         Returned(CallC([l EXCEPT !.ci = Append(@, Frame(func, func + 1, l.top, nres, 0, then))], func), then)
    [] OTHER -> CallLua(l, ProtoOf(l.fns[Get(l, func)[2]]), func, nres, Get(l, func)[2], then)

luaD_precall(l, func, nres, then) ==
  CallFunction(IF isfun(Get(l, func)) THEN l ELSE tryfuncTM(l, func, tm(l, Get(l, func), "__call")),
               func, nres, then)

luaD_call(l, func, nres, then) ==
  IF l.nCcalls + 1 >= LUAI_MAXCCALLS THEN Fail(l, <<"C stack overflow">>)
  ELSE luaD_precall([l EXCEPT !.nCcalls = @ + 1], func, nres, then)

\* callTMres and callTM: f and its arguments are pushed and f is called.
callTM(l, f, args, nres, then) ==
  luaD_call(Top(SetAll(l, l.top, <<f>> \o args), l.top + 1 + Len(args)), l.top, nres, then)

callTMres(l, to, f, p1, p2) == callTM(l, f, <<p1, p2>>, 1, [k |-> "res", to |-> to])

RECURSIVE luaV_gettable(_, _, _, _, _, _)
luaV_gettable(l, t, key, to, reg, loop) ==
  LET istab == t[1] = "tab"
      res == rawget(l, t[2], key)
      h == tm(l, t, "__index")
  IN CASE loop = MAXTAGLOOP -> Fail(l, <<"loop in gettable">>)
       [] istab /\ (res # Nil \/ h = Nil) -> Set(l, to, res)
       [] ~istab /\ h = Nil -> luaG_typeerror(l, "index", reg)
       [] isfun(h) -> callTMres(l, to, h, t, key)
       [] OTHER -> luaV_gettable(l, h, key, to, -1, loop + 1)

RECURSIVE luaV_settable(_, _, _, _, _, _)
luaV_settable(l, t, key, val, reg, loop) ==
  LET istab == t[1] = "tab"
      h == tm(l, t, "__newindex")
  IN CASE loop = MAXTAGLOOP -> Fail(l, <<"loop in settable">>)
       [] istab /\ key = Nil -> Fail(l, <<"table index is nil">>)   \* luaH_set
       [] istab /\ (rawget(l, t[2], key) # Nil \/ h = Nil) ->
            rawset(l, t[2], key, val)
       [] ~istab /\ h = Nil -> luaG_typeerror(l, "index", reg)
       [] isfun(h) -> callTM(l, h, <<t, key, val>>, 0, [k |-> "none"])
       [] OTHER -> luaV_settable(l, h, key, val, -1, loop + 1)

\* Strings that are numerals convert to numbers and back.
Numerals == 0 .. 9
luaV_tonumber(v) ==
  LET n == {x \in Numerals : v = Str(ToString(x))}
  IN IF isstr(v) /\ n # {} THEN Num(CHOOSE x \in n : TRUE) ELSE IF isnum(v) THEN v ELSE Nil
luaV_tostring(v) == IF isnum(v) THEN Str(ToString(v[2])) ELSE v

Event(o) == CASE o = "ADD" -> "__add" [] o = "SUB" -> "__sub" [] o = "MUL" -> "__mul"
              [] o = "DIV" -> "__div" [] o = "MOD" -> "__mod" [] o = "POW" -> "__pow"
              [] o = "UNM" -> "__unm" [] o = "LEN" -> "__len" [] o = "CONCAT" -> "__concat"

\* The metamethod call_binTM finds.
binTM(l, p1, p2, event) == IF tm(l, p1, event) # Nil THEN tm(l, p1, event) ELSE tm(l, p2, event)

RegOf(x) == IF ISK(x) THEN -1 ELSE x

\* Arith, for operands x and y (register or constant) with values v and w.
Arith(l, o, to, v, w, x, y) ==
  LET b == luaV_tonumber(v)
      c == luaV_tonumber(w)
      f == binTM(l, v, w, Event(o))
  IN CASE b # Nil /\ c # Nil -> Set(l, to, Num(numarith(o, b[2], c[2])))
       [] (b = Nil \/ c = Nil) /\ f # Nil -> callTMres(l, to, f, v, w)
       [] OTHER -> luaG_typeerror(l, "perform arithmetic on", IF b = Nil THEN RegOf(x) ELSE RegOf(y))

\* l_strcmp: by pieces, in the order of Alphabet.
RECURSIVE strless(_, _)
strless(s, t) ==
  LET rank(x) == SelectInSeq(Alphabet, LAMBDA y : y = x)
  IN t # <<>> /\ (s = <<>> \/ rank(Head(s)) < rank(Head(t)) \/ (Head(s) = Head(t) /\ strless(Tail(s), Tail(t))))

\* call_orderTM: both operands must have the same metamethod.
orderTM(l, v, w, event) == IF tm(l, v, event) = tm(l, w, event) THEN tm(l, v, event) ELSE Nil

luaV_lessthan(l, v, w) ==
  LET f == orderTM(l, v, w, "__lt")
  IN CASE v[1] # w[1] -> Fail(l, <<"compare">>)
       [] isnum(v) /\ isnum(w) -> CondJump(l, v[2] < w[2])
       [] isstr(v) /\ isstr(w) -> CondJump(l, strless(v[2], w[2]))
       [] v[1] = w[1] /\ v[1] \notin {"num", "str"} /\ f # Nil ->
            callTM(l, f, <<v, w>>, 1, [k |-> "cmp", neg |-> FALSE])
       [] OTHER -> Fail(l, <<"compare">>)

lessequal(l, v, w) ==
  LET le == orderTM(l, v, w, "__le")
      lt == orderTM(l, w, v, "__lt")
  IN CASE v[1] # w[1] -> Fail(l, <<"compare">>)
       [] isnum(v) /\ isnum(w) -> CondJump(l, v[2] <= w[2])
       [] isstr(v) /\ isstr(w) -> CondJump(l, ~strless(w[2], v[2]))
       [] v[1] = w[1] /\ v[1] \notin {"num", "str"} /\ le # Nil ->
            callTM(l, le, <<v, w>>, 1, [k |-> "cmp", neg |-> FALSE])
       [] v[1] = w[1] /\ v[1] \notin {"num", "str"} /\ le = Nil /\ lt # Nil ->
            callTM(l, lt, <<w, v>>, 1, [k |-> "cmp", neg |-> TRUE])
       [] OTHER -> Fail(l, <<"compare">>)

\* get_compTM: the __eq that both tables share.
luaV_equalval(l, v, w) ==
  LET f == orderTM(l, v, w, "__eq")
  IN IF v # w /\ v[1] = "tab" /\ w[1] = "tab" /\ f # Nil
     THEN callTM(l, f, <<v, w>>, 1, [k |-> "cmp", neg |-> FALSE])
     ELSE CondJump(l, v = w)

\* Concatenates the registers up to last, as many strings at a time as there are.
luaV_concat(l, total, last) ==
  LET base == ci(l).base
      text(j) == Get(l, base + last - j)[1] \in {"str", "num"}
      p1 == R(l, last - 1)
      p2 == R(l, last)
      f == binTM(l, p1, p2, "__concat")
      empty == luaV_tostring(p2)[2] = <<>>
      n == Max({j \in 2 .. total : \A i \in 0 .. j - 1 : text(i)})
      joined == FlattenSeq([j \in 1 .. n |-> luaV_tostring(R(l, last - n + j))[2]])
      i == InstrAt(pt(l), ci(l).pc - 1)
  IN CASE total = 1 -> SetR(l, i.a, R(l, i.b))
       [] total # 1 /\ ~(text(0) /\ text(1)) /\ f # Nil ->
            callTM(l, f, <<p1, p2>>, 1, [k |-> "concat", to |-> base + last - 1,
                                          total |-> total - 1, last |-> last - 1])
       [] total # 1 /\ ~(text(0) /\ text(1)) /\ f = Nil ->
            luaG_typeerror(l, "concatenate", IF text(1) THEN last ELSE last - 1)
       [] total # 1 /\ text(0) /\ text(1) /\ empty ->
            luaV_concat(SetR(l, last - 1, luaV_tostring(p1)), total - 1, last - 1)
       [] OTHER -> luaV_concat(SetR(l, last - n + 1, <<"str", joined>>), total - n + 1, last - n + 1)

-----------------------------------------------------------------------------
(* luaV_execute: one action for each opcode.                               *)

\* lua_load: the compiler's error, or the main function as a closure.
Load(compiled) ==
  /\ status = "source"
  /\ comp' = compiled
  /\ UNCHANGED src
  /\ IF comp'.err # "" THEN status' = "error" /\ L' = [NullState EXCEPT !.msg = <<comp'.err>>]
     ELSE /\ status' = "compiled"
          /\ L' = [NullState EXCEPT
                     !.tabs = <<[h |-> Str("setmetatable") :> <<"cfun", "setmetatable">>, meta |-> 0]>>,
                     !.fns = <<[path |-> <<>>, ups |-> <<>>]>>]

\* lua_call(L, 0, LUA_MULTRET); the frame of the host is below.
Start ==
  /\ status = "compiled" /\ status' = "run"
  /\ LET host == [func |-> 0, base |-> 1, top |-> 1, nres |-> 0, pc |-> 0, cl |-> 0, then |-> [k |-> "end"]]
         l == [L EXCEPT !.stack = <<Nil, <<"fun", 1>>>>, !.top = 2, !.ci = <<host>>]
     IN L' = luaD_call(l, 1, LUA_MULTRET, [k |-> "end"])
  /\ UNCHANGED <<src, comp>>

\* The instruction at the program counter, and the state with pc past it.
Op(o) == status = "run" /\ Instr(L).o = o
Cur == Instr(L)
Past == Jump(L, 1)
RA == ci(L).base + Cur.a

\* The state after the instruction, which may have ended the chunk.
Become(l) ==
  /\ L' = l
  /\ status' = CASE l.msg # <<>> -> "error" [] Len(l.ci) = 1 -> "done" [] OTHER -> "run"
  /\ UNCHANGED <<src, comp>>

MOVE == Op("MOVE") /\ Become(SetR(Past, Cur.a, R(L, Cur.b)))
LOADK == Op("LOADK") /\ Become(SetR(Past, Cur.a, K(L, Cur.b)))
LOADBOOL == Op("LOADBOOL") /\ Become(SetR(Jump(L, IF Cur.c = 1 THEN 2 ELSE 1), Cur.a, Bool(Cur.b = 1)))
LOADNIL == Op("LOADNIL") /\ Become(SetAll(Past, RA, [j \in 1 .. Cur.b - Cur.a + 1 |-> Nil]))
GETUPVAL == Op("GETUPVAL") /\ Become(SetR(Past, Cur.a, upvalue(L, L.fns[ci(L).cl].ups[Cur.b + 1])))
GETGLOBAL == Op("GETGLOBAL") /\ Become(luaV_gettable(Past, <<"tab", 1>>, K(L, Cur.b), RA, -1, 0))
GETTABLE == Op("GETTABLE") /\ Become(luaV_gettable(Past, R(L, Cur.b), RK(L, Cur.c), RA, Cur.b, 0))
SETGLOBAL == Op("SETGLOBAL") /\ Become(luaV_settable(Past, <<"tab", 1>>, K(L, Cur.b), R(L, Cur.a), -1, 0))
SETUPVAL ==
  LET u == L.fns[ci(L).cl].ups[Cur.b + 1]
  IN /\ Op("SETUPVAL")
     /\ Become(IF L.uvs[u].open THEN Set(Past, L.uvs[u].at, R(L, Cur.a))
               ELSE [Past EXCEPT !.uvs[u].v = R(L, Cur.a)])
SETTABLE == Op("SETTABLE") /\ Become(luaV_settable(Past, R(L, Cur.a), RK(L, Cur.b), RK(L, Cur.c), Cur.a, 0))
NEWTABLE == Op("NEWTABLE") /\ Become(SetR(NewTable(Past, <<>>), Cur.a, <<"tab", Len(L.tabs) + 1>>))
SELF ==
  /\ Op("SELF")
  /\ Become(luaV_gettable(SetR(Past, Cur.a + 1, R(L, Cur.b)), R(L, Cur.b), RK(L, Cur.c), RA, Cur.b, 0))
ARITH ==
  /\ status = "run" /\ Cur.o \in {"ADD", "SUB", "MUL", "DIV", "MOD", "POW"}
  /\ Become(Arith(Past, Cur.o, RA, RK(L, Cur.b), RK(L, Cur.c), Cur.b, Cur.c))
UNM == Op("UNM") /\ Become(Arith(Past, "UNM", RA, R(L, Cur.b), R(L, Cur.b), Cur.b, Cur.b))
NOT == Op("NOT") /\ Become(SetR(Past, Cur.a, Bool(l_isfalse(R(L, Cur.b)))))
LEN ==
  LET v == R(L, Cur.b)
  IN /\ Op("LEN")
     /\ Become(CASE v[1] = "tab" -> SetR(Past, Cur.a, Num(luaH_getn(L, v[2])))
                 [] v[1] = "str" -> SetR(Past, Cur.a, Num(Len(v[2])))
                 [] OTHER -> luaG_typeerror(Past, "get length of", Cur.b))
CONCAT == Op("CONCAT") /\ Become(luaV_concat(Past, Cur.c - Cur.b + 1, Cur.c))
JMP == Op("JMP") /\ Become(Jump(L, 1 + Cur.b))
EQ == Op("EQ") /\ Become(luaV_equalval(Past, RK(L, Cur.b), RK(L, Cur.c)))
LT == Op("LT") /\ Become(luaV_lessthan(Past, RK(L, Cur.b), RK(L, Cur.c)))
LE == Op("LE") /\ Become(lessequal(Past, RK(L, Cur.b), RK(L, Cur.c)))
TEST ==
  /\ Op("TEST")
  /\ Become(IF l_isfalse(R(L, Cur.a)) # (Cur.c = 1) THEN Jump(Past, Instr(Past).b + 1) ELSE Jump(Past, 1))
TESTSET ==
  /\ Op("TESTSET")
  /\ Become(IF l_isfalse(R(L, Cur.b)) # (Cur.c = 1)
            THEN SetR(Jump(Past, Instr(Past).b + 1), Cur.a, R(L, Cur.b)) ELSE Jump(Past, 1))

Args == IF Cur.b # 0 THEN Top(Past, RA + Cur.b) ELSE Past
CALL == Op("CALL") /\ Become(luaD_precall(Args, RA, Cur.c - 1, [k |-> "call", nres |-> Cur.c - 1]))

\* A Lua function takes the frame of its caller: the new frame and its values move down.
MoveDown(l, old, new, vals) ==
  [SetAll(luaF_close(l, old.base), old.func, vals) EXCEPT
     !.ci = Append(Front(L.ci), [new EXCEPT !.func = old.func, !.base = @ - (new.func - old.func),
                                            !.top = old.func + Len(vals), !.nres = old.nres, !.then = old.then]),
     !.top = old.func + Len(vals)]
Replace(l) ==
  IF l.msg # <<>> \/ Len(l.ci) = Len(L.ci) THEN l
  ELSE MoveDown(l, ci(L), ci(l), Values(l, ci(l).func, l.top))
TAILCALL ==
  /\ Op("TAILCALL")
  /\ Become(Replace(luaD_precall(Args, RA, LUA_MULTRET, [k |-> "call", nres |-> LUA_MULTRET])))

RETURN ==
  LET l == luaF_close(IF Cur.b # 0 THEN Top(Past, RA + Cur.b - 1) ELSE Past, ci(L).base)
  IN Op("RETURN") /\ Become(Finish(luaD_poscall(l, RA), ci(L).then))

FORLOOP ==
  LET step == R(L, Cur.a + 2)[2]
      idx == R(L, Cur.a)[2] + step
      limit == R(L, Cur.a + 1)[2]
  IN /\ Op("FORLOOP")
     /\ Become(IF IF 0 < step THEN idx <= limit ELSE limit <= idx
               THEN SetR(SetR(Jump(Past, Cur.b), Cur.a, Num(idx)), Cur.a + 3, Num(idx)) ELSE Past)
FORPREP ==
  LET n(j) == luaV_tonumber(R(L, Cur.a + j))
      bad == {j \in 0 .. 2 : n(j) = Nil}
      l == SetR(SetR(Past, Cur.a + 1, n(1)), Cur.a + 2, n(2))
  IN /\ Op("FORPREP")
     /\ Become(IF bad # {} THEN Fail(Past, <<"for", Min(bad)>>)
               ELSE SetR(Jump(l, Cur.b), Cur.a, Num(n(0)[2] - n(2)[2])))
TFORLOOP ==
  LET cb == RA + 3
      l == Top(SetAll(Past, cb, <<R(L, Cur.a), R(L, Cur.a + 1), R(L, Cur.a + 2)>>), cb + 3)
  IN Op("TFORLOOP") /\ Become(luaD_call(l, cb, Cur.c, [k |-> "tfor"]))
SETLIST ==
  LET n == IF Cur.b = 0 THEN L.top - RA - 1 ELSE Cur.b
      c == IF Cur.c = 0 THEN Instr(Past).a ELSE Cur.c
      first == (c - 1) * LFIELDS_PER_FLUSH
      l == Jump(IF Cur.b = 0 THEN Top(Past, ci(L).top) ELSE Past, IF Cur.c = 0 THEN 1 ELSE 0)
      t == R(L, Cur.a)[2]
  IN /\ Op("SETLIST")
     /\ Become(FoldLeft(LAMBDA x, j : rawset(x, t, Num(first + j), R(L, Cur.a + j)), l, [j \in 1 .. n |-> j]))
CLOSE == Op("CLOSE") /\ Become(luaF_close(Past, RA))
CLOSURE ==
  LET f == L.fns[ci(L).cl]
      p == pt(L).p[Cur.b + 1]
      capture(x, j) ==
        LET ps == InstrAt(pt(L), ci(L).pc + j)
            found == luaF_findupval(x.l, ci(L).base + ps.b)
        IN IF ps.o = "GETUPVAL" THEN [l |-> x.l, ups |-> Append(x.ups, f.ups[ps.b + 1])]
           ELSE [l |-> found.l, ups |-> Append(x.ups, found.u)]
      done == FoldLeft(capture, [l |-> Jump(Past, p.nups), ups |-> <<>>], [j \in 1 .. p.nups |-> j])
  IN /\ Op("CLOSURE")
     /\ Become(SetR([done.l EXCEPT !.fns = Append(@, [path |-> Append(f.path, Cur.b + 1), ups |-> done.ups])],
                    Cur.a, <<"fun", Len(L.fns) + 1>>))
VARARG ==
  LET c == ci(L)
      n == c.base - c.func - pt(L).numparams - 1
      want == IF Cur.b = 0 THEN n ELSE Cur.b - 1
      vals == [j \in 1 .. want |-> IF j <= n THEN Get(L, c.base - n + j - 1) ELSE Nil]
      l == SetAll(Past, RA, vals)
  IN Op("VARARG") /\ Become(IF Cur.b = 0 THEN Top(l, RA + n) ELSE l)

Next ==
  \/ Load(Compile(src)) \/ Start
  \/ MOVE \/ LOADK \/ LOADBOOL \/ LOADNIL \/ GETUPVAL \/ GETGLOBAL \/ GETTABLE \/ SETGLOBAL
  \/ SETUPVAL \/ SETTABLE \/ NEWTABLE \/ SELF \/ ARITH \/ UNM \/ NOT \/ LEN \/ CONCAT \/ JMP
  \/ EQ \/ LT \/ LE \/ TEST \/ TESTSET \/ CALL \/ TAILCALL \/ RETURN \/ FORLOOP \/ FORPREP
  \/ TFORLOOP \/ SETLIST \/ CLOSE \/ CLOSURE \/ VARARG

Spec == Init /\ [][Next]_vars

-----------------------------------------------------------------------------
(* Properties.                                                             *)

\* No lua_assert of the compiler fails: registers are freed in stack order,
\* blocks end with the registers they began with, and the function
\* close_func emits passes the checker of ldebug.c.
NoAssertFails == status # "source" => comp.bad = ""

\* The operands of one instruction, and of a function with those inside it.
Fits(p, i) ==
  /\ i.o # "DATA" => i.a < p.maxstack
  /\ i.o # "DATA" /\ luaP_opmodes(i.o).m = "ABC" =>
       \A x \in {i.b, i.c} : ISK(x) => x - BITRK <= MAXINDEXRK
  /\ i.o = "SETLIST" => i.c <= MAXARG_C
  /\ i.o \in {"JMP", "FORLOOP", "FORPREP"} => i.b \in -MAXARG_sBx .. MAXARG_sBx
RECURSIVE AllFit(_)
AllFit(p) ==
  /\ p.maxstack < MAXSTACK /\ p.nups <= LUAI_MAXUPVALUES
  /\ \A j \in DOMAIN p.code : Fits(p, p.code[j])
  /\ \A j \in DOMAIN p.p : AllFit(p.p[j])

\* Every operand the compiler emits fits its field and its limit: RK
\* constants MAXINDEXRK, the batch of a SETLIST MAXARG_C, jumps MAXARG_sBx,
\* registers the stack of the function.
OperandsFit == status = "compiled" => AllFit(Proto(comp.fs))

(***************************************************************************)
(* Whatever the source, also where it is not Lua or exceeds a limit, no    *)
(* lua_assert of the compiler fails and the code it emits can be executed: *)
(* every operand fits its field.                                           *)
(***************************************************************************)
CodeIsSound == NoAssertFails /\ OperandsFit

\* The asserts at the head of luaV_execute's loop: the top of the stack is
\* that of the frame, except before an instruction that takes an open list
\* of values; and no live frame lies above it.
TopDiscipline ==
  status = "run" =>
    /\ ci(L).base <= L.top
    /\ L.top = ci(L).top \/ luaG_checkopenop(Instr(L))
    /\ \A i \in 2 .. Len(L.ci) - 1 : L.ci[i].base <= L.ci[i + 1].func

\* Open upvalues point into live frames and no two of them to the same
\* variable, so that closures share it; luaF_close leaves none behind.
UpvaluesLive ==
  LET open == {u \in DOMAIN L.uvs : status # "error" /\ L.uvs[u].open}
  IN /\ \A u \in open : status = "run" /\ L.uvs[u].at < ci(L).top
     /\ \A u, v \in open : L.uvs[u].at = L.uvs[v].at => u = v
     /\ \A u \in open : \E i \in 2 .. Len(L.ci) :
          L.ci[i].base <= L.uvs[u].at /\ L.uvs[u].at < L.ci[i].top

\* nCcalls counts the calls that C code made and that have not returned.
CallsCounted ==
  status \in {"run", "done"} =>
    L.nCcalls = Cardinality({i \in 2 .. Len(L.ci) : L.ci[i].then.k # "call"})

(***************************************************************************)
(* What luaV_execute relies on between two instructions: the top of the    *)
(* stack, the calls nested in C and the open upvalues agree with the       *)
(* frames, through calls, tail calls, metamethods and loops left early.    *)
(***************************************************************************)
StackIsSound == TopDiscipline /\ UpvaluesLive /\ CallsCounted
=============================================================================
