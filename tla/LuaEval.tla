------------------------------- MODULE LuaEval -------------------------------
(***************************************************************************)
(* What a chunk means, by structural recursion over its syntax tree and    *)
(* without registers, jumps or upvalues: variables are cells of a store,   *)
(* functions close over an environment.  The compiler and the virtual      *)
(* machine are checked against this definition (it models no code).        *)
(*                                                                         *)
(* Expressions: <<"nil">>, <<"true">>, <<"false">>, <<"num", n>>,          *)
(*   <<"str", s>>, <<"...">>, <<"name", x>>, <<"idx", e, e>>,              *)
(*   <<"call", e, args>>, <<"meth", e, x, args>>, <<"fn", f>>,             *)
(*   <<"un", op, e>>, <<"bin", op, e, e>>, <<"par", e>>, <<"tab", fields>> *)
(*   where a field is <<"pos", e>> or <<"rec", e, e>> and a function f is  *)
(*   [ps |-> names, va |-> "", "dots" or "arg", b |-> block].              *)
(* Statements: <<"local", names, exps>>, <<"set", targets, exps>>,         *)
(*   <<"do", b>>, <<"if", e, b, b>>, <<"while", e, b>>, <<"repeat", b, e>>,*)
(*   <<"for", x, exps, b>>, <<"in", names, exps, b>>, <<"lfn", x, f>>,     *)
(*   <<"func", x, f>>, <<"exp", call>>, <<"return", exps>>, <<"break">>.   *)
(***************************************************************************)
EXTENDS LuaVM

CONSTANT Means(_)   \* the Meaning of a chunk

-----------------------------------------------------------------------------
(* The tokens of a tree, with parentheses where the priorities need them.  *)

Prec(e) ==
  CASE e[1] = "bin" -> (CASE e[2] = "or" -> 1 [] e[2] = "and" -> 2
                         [] e[2] \in {"<", ">", "<=", ">=", "~=", "=="} -> 3 [] e[2] = ".." -> 4
                         [] e[2] \in {"+", "-"} -> 5 [] e[2] \in {"*", "/", "%"} -> 6 [] e[2] = "^" -> 8)
    [] e[1] = "un" -> 7
    [] OTHER -> 9

RECURSIVE Toks(_), BlockToks(_), StatToks(_)
RECURSIVE Sep(_, _)
Sep(tss, sep) ==
  IF tss = <<>> THEN <<>> ELSE IF Len(tss) = 1 THEN tss[1] ELSE tss[1] \o <<<<sep>>>> \o Sep(Tail(tss), sep)
\* The token sequences f(x), for x in the list, with separators.
Each(f(_), xs) == [i \in DOMAIN xs |-> f(xs[i])] \o <<>>
List(es) == Sep(Each(Toks, es), ",")
Names(xs) == Sep(Each(LAMBDA x : <<<<"name", x>>>>, xs), ",")
Paren(ts) == <<<<"(">>>> \o ts \o <<<<")">>>>
Operand(e, p) == IF Prec(e) < p THEN Paren(Toks(e)) ELSE Toks(e)
Prefix(e) == IF e[1] \in {"name", "idx", "call", "meth", "par"} THEN Toks(e) ELSE Paren(Toks(e))
FuncToks(f) ==
  Paren(Names(f.ps) \o (IF f.va = "" THEN <<>> ELSE IF f.ps = <<>> THEN <<<<"...">>>> ELSE <<<<",">>, <<"...">>>>))
  \o BlockToks(f.b) \o <<<<"end">>>>
FieldToks(f) ==
  IF f[1] = "pos" THEN Toks(f[2])
  ELSE IF f[2][1] = "str" THEN <<<<"name", f[2][2]>>, <<"=">>>> \o Toks(f[3])
  ELSE <<<<"[">>>> \o Toks(f[2]) \o <<<<"]">>, <<"=">>>> \o Toks(f[3])

Toks(e) ==
  CASE e[1] = "idx" -> IF e[3][1] = "str" THEN Prefix(e[2]) \o <<<<".">>, <<"name", e[3][2]>>>>
                       ELSE Prefix(e[2]) \o <<<<"[">>>> \o Toks(e[3]) \o <<<<"]">>>>
    [] e[1] = "call" -> Prefix(e[2]) \o Paren(List(e[3]))
    [] e[1] = "meth" -> Prefix(e[2]) \o <<<<":">>, <<"name", e[3]>>>> \o Paren(List(e[4]))
    [] e[1] = "fn" -> <<<<"function">>>> \o FuncToks(e[2])
    [] e[1] = "par" -> Paren(Toks(e[2]))
    [] e[1] = "un" -> <<<<e[2]>>>> \o Operand(e[3], 7)
    [] e[1] = "bin" -> LET rt == e[2] \in {"..", "^"}
                       IN Operand(e[3], IF rt THEN Prec(e) + 1 ELSE Prec(e)) \o <<<<e[2]>>>>
                          \o Operand(e[4], IF rt THEN Prec(e) ELSE Prec(e) + 1)
    [] e[1] = "tab" -> <<<<"{">>>> \o Sep(Each(FieldToks, e[2]), ",") \o <<<<"}">>>>
    [] OTHER -> <<e>>

StatToks(s) ==
  CASE s[1] = "local" -> <<<<"local">>>> \o Names(s[2]) \o (IF s[3] = <<>> THEN <<>> ELSE <<<<"=">>>> \o List(s[3]))
    [] s[1] = "set" -> List(s[2]) \o <<<<"=">>>> \o List(s[3])
    [] s[1] = "do" -> <<<<"do">>>> \o BlockToks(s[2]) \o <<<<"end">>>>
    [] s[1] = "if" -> <<<<"if">>>> \o Toks(s[2]) \o <<<<"then">>>> \o BlockToks(s[3])
                      \o (IF s[4] = <<>> THEN <<>>
                          ELSE IF Len(s[4]) = 1 /\ s[4][1][1] = "if" THEN <<<<"elseif">>>> \o Tail(Front(StatToks(s[4][1])))
                          ELSE <<<<"else">>>> \o BlockToks(s[4])) \o <<<<"end">>>>
    [] s[1] = "while" -> <<<<"while">>>> \o Toks(s[2]) \o <<<<"do">>>> \o BlockToks(s[3]) \o <<<<"end">>>>
    [] s[1] = "repeat" -> <<<<"repeat">>>> \o BlockToks(s[2]) \o <<<<"until">>>> \o Toks(s[3])
    [] s[1] = "for" -> <<<<"for">>, <<"name", s[2]>>, <<"=">>>> \o List(s[3]) \o <<<<"do">>>> \o BlockToks(s[4]) \o <<<<"end">>>>
    [] s[1] = "in" -> <<<<"for">>>> \o Names(s[2]) \o <<<<"in">>>> \o List(s[3]) \o <<<<"do">>>> \o BlockToks(s[4]) \o <<<<"end">>>>
    [] s[1] = "lfn" -> <<<<"local">>, <<"function">>, <<"name", s[2]>>>> \o FuncToks(s[3])
    [] s[1] = "func" -> <<<<"function">>, <<"name", s[2]>>>> \o FuncToks(s[3])
    [] s[1] = "exp" -> Toks(s[2])
    [] s[1] = "return" -> <<<<"return">>>> \o List(s[2])
    [] s[1] = "break" -> <<<<"break">>>>
BlockToks(b) == Sep(Each(StatToks, b), ";")

-----------------------------------------------------------------------------
(* Evaluation.  The store m has cells, tabs (as in L), fns and err; an     *)
(* expression yields [v |-> values, m |-> store].  env maps names to cells *)
(* and va holds the extra arguments.                                       *)

RECURSIVE Eval(_, _, _), EvalList(_, _, _), Exec(_, _, _), Loop(_, _, _, _), Call(_, _, _, _),
          Index(_, _, _, _), SetIndex(_, _, _, _, _), ForLoop(_, _, _, _, _, _), InLoop(_, _, _, _, _, _)

\* The operation failed on the value of a variable that who describes.
Err(m, op, who) == [v |-> <<Nil>>, m |-> [m EXCEPT !.err = IF @ = <<>> THEN <<op, who>> ELSE @]]
Kinds(ks, name) == {[kind |-> x, name |-> name] : x \in ks}
Describe(e, env) ==
  CASE e[1] = "name" -> Kinds(IF e[2] \in DOMAIN env.names THEN {"local", "upvalue"} ELSE {"global"}, e[2])
    [] e[1] = "idx" -> Kinds({"field"}, IF e[3][1] = "str" THEN e[3][2] ELSE <<"?">>)
    [] OTHER -> {}
Val(v, m) == [v |-> <<v>>, m |-> m]
First(r) == IF r.v = <<>> THEN Nil ELSE r.v[1]
\* env with the names xs bound to new cells that hold vs.
Bind(env, m, xs, vs) ==
  [env |-> [env EXCEPT !.names = FoldLeft(LAMBDA e, i : (xs[i] :> Len(m.cells) + i) @@ e, @, [i \in DOMAIN xs |-> i])],
   m |-> [m EXCEPT !.cells = @ \o [i \in DOMAIN xs |-> IF i <= Len(vs) THEN vs[i] ELSE Nil]]]

CallOr(m, f, args, op, who) == IF f # Nil THEN Call(f, args, m, {}) ELSE Err(m, op, who)

Index(v, k, m, who) ==
  LET h == tm(m, v, "__index")
  IN CASE v[1] = "tab" /\ (rawget(m, v[2], k) # Nil \/ h = Nil) -> Val(rawget(m, v[2], k), m)
       [] v[1] # "tab" -> Err(m, "index", who)
       [] isfun(h) -> LET r == Call(h, <<v, k>>, m, {}) IN Val(First(r), r.m)
       [] OTHER -> Index(h, k, m, {})

SetIndex(v, k, x, m, who) ==
  LET h == tm(m, v, "__newindex")
  IN CASE v[1] # "tab" -> Err(m, "index", who).m
       [] v[1] = "tab" /\ k = Nil /\ h = Nil -> Err(m, "table index is nil", {}).m
       [] v[1] = "tab" /\ (rawget(m, v[2], k) # Nil \/ h = Nil) -> rawset(m, v[2], k, x)
       [] isfun(h) -> Call(h, <<v, k, x>>, m, {}).m
       [] OTHER -> SetIndex(h, k, x, m, {})

Binary(op, v, w, m, nv, nw) ==
  LET n == luaV_tonumber(v)
      p == luaV_tonumber(w)
      text(x) == x[1] \in {"num", "str"}
      one(r) == Val(First(r), r.m)
      truth(r, b) == Val(Bool(l_isfalse(First(r)) # b), r.m)
      order(less, event) ==
        CASE v[1] # w[1] -> Err(m, "compare", {})
          [] isnum(v) \/ isstr(v) -> Val(Bool(less), m)
          [] OTHER -> LET f == orderTM(m, v, w, event)
                          g == orderTM(m, w, v, "__lt")
                      IN IF f # Nil THEN truth(Call(f, <<v, w>>, m, {}), TRUE)
                         ELSE IF event = "__le" /\ g # Nil THEN truth(Call(g, <<w, v>>, m, {}), FALSE)
                         ELSE Err(m, "compare", {})
  IN CASE op \in DOMAIN ArithOp ->
            IF n # Nil /\ p # Nil THEN Val(Num(numarith(ArithOp[op], n[2], p[2])), m)
            ELSE one(CallOr(m, binTM(m, v, w, Event(ArithOp[op])), <<v, w>>, "perform arithmetic on", IF n = Nil THEN nv ELSE nw))
       [] op = ".." -> IF text(v) /\ text(w) THEN Val(<<"str", luaV_tostring(v)[2] \o luaV_tostring(w)[2]>>, m)
                       ELSE one(CallOr(m, binTM(m, v, w, "__concat"), <<v, w>>, "concatenate", IF text(v) THEN nw ELSE nv))
       [] op = "<" -> order(IF isnum(v) THEN v[2] < w[2] ELSE strless(v[2], w[2]), "__lt")
       [] op = "<=" -> order(IF isnum(v) THEN v[2] <= w[2] ELSE ~strless(w[2], v[2]), "__le")
       [] op = "==" -> IF v[1] = "tab" /\ w[1] = "tab" /\ v # w /\ orderTM(m, v, w, "__eq") # Nil
                       THEN truth(Call(orderTM(m, v, w, "__eq"), <<v, w>>, m, {}), TRUE)
                       ELSE Val(Bool(v = w), m)

\* A vararg function that does not use ... has its extra arguments in the table arg.
ArgTable(extra) ==
  (Str("n") :> Num(Len(extra))) @@ [j \in {Num(x) : x \in DOMAIN extra} |-> extra[j[2]]]

Call(f, args, m, who) ==
  LET c == m.fns[f[2]]
      extra == SubSeq(args, Len(c.f.ps) + 1, Len(args))
      fixed == Bind([c.env EXCEPT !.va = extra], m, c.f.ps, args)
      t == NewTable(fixed.m, ArgTable(extra))
      bound == IF c.f.va # "arg" THEN fixed
               ELSE Bind(fixed.env, t, <<<<"arg">>>>, <<<<"tab", Len(t.tabs)>>>>)
      r == Exec(c.f.b, bound.env, bound.m)
  IN CASE m.err # <<>> -> [v |-> <<>>, m |-> m]
       [] f[1] = "cfun" -> Val(args[1], [m EXCEPT !.tabs[args[1][2]].meta = args[2][2]])
       [] f[1] = "fun" -> [v |-> r.v, m |-> r.m]
       [] OTHER -> CallOr(m, tm(m, f, "__call"), <<f>> \o args, "call", who)

\* Every expression yields one value, the last one all of its values.
EvalList(es, env, m) ==
  IF es = <<>> THEN [v |-> <<>>, m |-> m]
  ELSE LET r == Eval(es[1], env, m)
           rest == EvalList(Tail(es), env, r.m)
       IN IF Len(es) = 1 THEN r ELSE [v |-> <<First(r)>> \o rest.v, m |-> rest.m]

Closure(f, env, m) ==
  [v |-> <<<<"fun", Len(m.fns) + 1>>>>, m |-> [m EXCEPT !.fns = Append(@, [f |-> f, env |-> env])]]

Fields(fs, env, m, t) ==
  LET last(i) == i = Len(fs)
      step(x, i) ==
        LET f == fs[i]
            a == Eval(f[2], env, x.m)
            b == Eval(f[3], env, a.m)
            vs == IF last(i) THEN a.v ELSE <<First(a)>>
        IN IF f[1] = "pos"
           THEN [n |-> x.n + Len(vs),
                 m |-> FoldLeft(LAMBDA y, j : rawset(y, t, Num(x.n + j), vs[j]), a.m, [j \in DOMAIN vs |-> j])]
           ELSE [n |-> x.n, m |-> rawset(b.m, t, First(a), First(b))]
  IN FoldLeft(step, [n |-> 0, m |-> m], [i \in DOMAIN fs |-> i]).m

Eval(e, env, m) ==
  LET a == Eval(e[2], env, m)
      l == Eval(e[3], env, m)
      r == Eval(e[4], env, l.m)
      k == Eval(e[3], env, a.m)
      as == EvalList(e[3], env, a.m)
      f == Index(First(a), <<"str", e[3]>>, a.m, Describe(e[2], env))
      ms == EvalList(e[4], env, f.m)
      n == luaV_tonumber(First(l))
  IN CASE m.err # <<>> -> [v |-> <<Nil>>, m |-> m]
       [] e[1] \in {"nil", "num", "str"} -> Val(e, m)
       [] e[1] \in {"true", "false"} -> Val(Bool(e[1] = "true"), m)
       [] e[1] = "..." -> [v |-> env.va, m |-> m]
       [] e[1] = "name" -> IF e[2] \in DOMAIN env.names THEN Val(m.cells[env.names[e[2]]], m)
                           ELSE Index(<<"tab", 1>>, <<"str", e[2]>>, m, {})
       [] e[1] = "par" -> Val(First(a), a.m)
       [] e[1] = "idx" -> Index(First(a), First(k), k.m, Describe(e[2], env))
       [] e[1] = "call" -> Call(First(a), as.v, as.m, Describe(e[2], env))
       [] e[1] = "meth" -> Call(First(f), <<First(a)>> \o ms.v, ms.m, Kinds({"method"}, e[3]))
       [] e[1] = "fn" -> Closure(e[2], env, m)
       [] e[1] = "tab" -> LET t == NewTable(m, <<>>)
                          IN Val(<<"tab", Len(t.tabs)>>, Fields(e[2], env, t, Len(t.tabs)))
       [] e[1] = "un" /\ e[2] = "not" -> Val(Bool(l_isfalse(First(l))), l.m)
       [] e[1] = "un" /\ e[2] = "-" ->
            IF n # Nil THEN Val(Num(-n[2]), l.m)
            ELSE LET c == CallOr(l.m, tm(l.m, First(l), "__unm"), <<First(l), First(l)>>, "perform arithmetic on", Describe(e[3], env)) IN Val(First(c), c.m)
       [] e[1] = "un" /\ e[2] = "#" ->
            IF First(l)[1] = "tab" THEN Val(Num(luaH_getn(l.m, First(l)[2])), l.m)
            ELSE IF First(l)[1] = "str" THEN Val(Num(Len(First(l)[2])), l.m) ELSE Err(l.m, "get length of", Describe(e[3], env))
       [] e[1] = "bin" /\ e[2] = "and" -> IF l_isfalse(First(l)) THEN Val(First(l), l.m) ELSE Val(First(r), r.m)
       [] e[1] = "bin" /\ e[2] = "or" -> IF l_isfalse(First(l)) THEN Val(First(r), r.m) ELSE Val(First(l), l.m)
       [] e[1] = "bin" /\ e[2] = "~=" ->
            LET q == Binary("==", First(l), First(r), r.m, {}, {}) IN Val(Bool(l_isfalse(First(q))), q.m)
       [] e[1] = "bin" /\ e[2] = ">" -> Binary("<", First(r), First(l), r.m, {}, {})
       [] e[1] = "bin" /\ e[2] = ">=" -> Binary("<=", First(r), First(l), r.m, {}, {})
       [] OTHER -> Binary(e[2], First(l), First(r), r.m, Describe(e[3], env), Describe(e[4], env))

-----------------------------------------------------------------------------
(* Statements.  sig is "next", "break" or "return".                        *)

Done(sig, v, env, m) == [sig |-> sig, v |-> v, env |-> env, m |-> m]

\* The targets ts, their tables and keys evaluated into ks, receive the values vs.
Targets(ts, env, m) ==
  FoldLeft(LAMBDA x, t : IF t[1] # "idx" THEN [x EXCEPT !.ks = Append(@, <<>>)]
                         ELSE LET a == Eval(t[2], env, x.m)
                                  k == Eval(t[3], env, a.m)
                              IN [ks |-> Append(x.ks, <<First(a), First(k)>>), m |-> k.m],
           [ks |-> <<>>, m |-> m], ts)
Assign(ts, ks, vs, env, m) ==
  FoldRight(LAMBDA i, x :
      LET v == IF i <= Len(vs) THEN vs[i] ELSE Nil
      IN CASE ts[i][1] = "idx" -> SetIndex(ks[i][1], ks[i][2], v, x, Describe(ts[i][2], env))
           [] ts[i][1] = "name" /\ ts[i][2] \in DOMAIN env.names -> [x EXCEPT !.cells[env.names[ts[i][2]]] = v]
           [] OTHER -> SetIndex(<<"tab", 1>>, <<"str", ts[i][2]>>, v, x, {}),
    [i \in DOMAIN ts |-> i], m)

\* A while loop (until = FALSE) or a repeat loop, whose condition sees the body's locals.
Loop(b, c, env, m) ==
  LET t == Eval(c, env, m)
      r == Exec(b, env, t.m)
  IN CASE m.err # <<>> \/ t.m.err # <<>> -> Done("next", <<>>, env, t.m)
       [] l_isfalse(First(t)) -> Done("next", <<>>, env, t.m)
       [] ~l_isfalse(First(t)) /\ r.sig = "next" -> Loop(b, c, env, r.m)
       [] OTHER -> Done(IF r.sig = "break" THEN "next" ELSE r.sig, r.v, env, r.m)

RECURSIVE Repeat(_, _, _, _)
Repeat(b, c, env, m) ==
  LET r == Exec(b, env, m)
      t == Eval(c, r.env, r.m)
  IN CASE r.m.err # <<>> -> Done("next", <<>>, env, r.m)
       [] r.sig # "next" -> Done(IF r.sig = "break" THEN "next" ELSE r.sig, r.v, env, r.m)
       [] t.m.err # <<>> \/ ~l_isfalse(First(t)) -> Done("next", <<>>, env, t.m)
       [] OTHER -> Repeat(b, c, env, t.m)

ForLoop(x, n, vs, b, env, m) ==
  LET e == Bind(env, m, <<x>>, <<Num(n)>>)
      r == Exec(b, e.env, e.m)
      limit == vs[2][2]
      step == vs[3][2]
  IN CASE m.err # <<>> \/ ~(IF step > 0 THEN n <= limit ELSE n >= limit) -> Done("next", <<>>, env, m)
       [] r.sig = "next" -> ForLoop(x, n + step, vs, b, env, r.m)
       [] OTHER -> Done(IF r.sig = "break" THEN "next" ELSE r.sig, r.v, env, r.m)

InLoop(xs, vs, ctl, b, env, m) ==
  LET c == Call(vs[1], <<vs[2], ctl>>, m, {})
      e == Bind(env, c.m, xs, c.v)
      r == Exec(b, e.env, e.m)
  IN CASE c.m.err # <<>> \/ First(c) = Nil -> Done("next", <<>>, env, c.m)
       [] r.sig = "next" -> InLoop(xs, vs, First(c), b, env, r.m)
       [] OTHER -> Done(IF r.sig = "break" THEN "next" ELSE r.sig, r.v, env, r.m)

Scoped(r, env) == [r EXCEPT !.env = env]

Stat(s, env, m) ==
  LET vs == EvalList(s[3], env, m)
      b == Bind(env, vs.m, s[2], vs.v)
      ts == Targets(s[2], env, m)
      rhs == EvalList(s[3], env, ts.m)
      c == Eval(s[2], env, m)
      nums == [i \in 1 .. 3 |-> IF i <= Len(vs.v) THEN luaV_tonumber(vs.v[i]) ELSE IF i = 3 THEN Num(1) ELSE Nil]
      fn == Bind(env, m, <<s[2]>>, <<Nil>>)
      cl == Closure(s[3], fn.env, fn.m)
      g == Closure(s[3], env, m)
      rv == EvalList(s[2], env, m)
  IN CASE s[1] = "local" -> Done("next", <<>>, b.env, b.m)
       [] s[1] = "set" -> Done("next", <<>>, env, IF rhs.m.err = <<>> THEN Assign(s[2], ts.ks, rhs.v, env, rhs.m) ELSE rhs.m)
       [] s[1] = "do" -> Scoped(Exec(s[2], env, m), env)
       [] s[1] = "if" -> Scoped(Exec(IF l_isfalse(First(c)) THEN s[4] ELSE s[3], env, c.m), env)
       [] s[1] = "while" -> Loop(s[3], s[2], env, m)
       [] s[1] = "repeat" -> Repeat(s[2], s[3], env, m)
       [] s[1] = "for" -> IF Nil \in ToSet(nums) THEN Done("next", <<>>, env, Err(vs.m, "for", {}).m)
                          ELSE ForLoop(s[2], nums[1][2], nums, s[4], env, vs.m)
       [] s[1] = "in" -> InLoop(s[2], vs.v \o <<Nil, Nil>>, IF Len(vs.v) >= 3 THEN vs.v[3] ELSE Nil, s[4], env, vs.m)
       [] s[1] = "lfn" -> Done("next", <<>>, fn.env, [cl.m EXCEPT !.cells[fn.env.names[s[2]]] = cl.v[1]])
       [] s[1] = "func" -> Done("next", <<>>, env, Assign(<<<<"name", s[2]>>>>, <<<<>>>>, g.v, env, g.m))
       [] s[1] = "exp" -> Done("next", <<>>, env, c.m)
       [] s[1] = "return" -> Done("return", rv.v, env, rv.m)
       [] s[1] = "break" -> Done("break", <<>>, env, m)

Follow(r, rest) == IF r.sig = "next" THEN Exec(rest, r.env, r.m) ELSE r

Exec(b, env, m) ==
  IF b = <<>> \/ m.err # <<>> THEN Done("next", <<>>, env, m) ELSE Follow(Stat(b[1], env, m), Tail(b))

\* The values a chunk returns, or how it fails.
Outcome(r) == IF r.m.err # <<>> THEN [ok |-> FALSE, v |-> r.m.err] ELSE [ok |-> TRUE, v |-> r.v]

Meaning(b) ==
  Outcome(Exec(b, [names |-> <<>>, va |-> <<>>],
               [cells |-> <<>>, fns |-> <<>>, err |-> <<>>,
                tabs |-> <<[h |-> Str("setmetatable") :> <<"cfun", "setmetatable">>, meta |-> 0]>>]))

-----------------------------------------------------------------------------
(* Properties.                                                             *)

(***************************************************************************)
(* Compiling and executing a chunk gives the values it means: the registers*)
(* and jumps the code generator chooses, the order in which the targets of *)
(* an assignment are stored, upvalues closed when their block ends, open   *)
(* lists of values and metamethods do what the manual says.                *)
(***************************************************************************)
ResultAgrees == status = "done" => Means(src) = [ok |-> TRUE, v |-> Values(L, 1, L.top)]

\* The limits on metamethod chains and C calls are the implementation's own.
LimitErrors == {"loop in gettable", "loop in settable", "C stack overflow"}

(***************************************************************************)
(* A chunk fails where it means to fail, and if luaG_typeerror names a     *)
(* variable, it is the one that holds the offending value.  Errors that    *)
(* report a limit of the implementation are set apart.                     *)
(***************************************************************************)
ErrorAgrees ==
  status = "error" /\ comp.err = "" /\ L.msg[1] \notin LimitErrors =>
    LET want == Means(src)
        blames == Len(L.msg) = 2 /\ L.msg[1] # "for" /\ L.msg[2].name \notin {NoName.name, <<"?">>}
    IN ~want.ok /\ want.v[1] = L.msg[1] /\ (blames => L.msg[2] \in want.v[2])
=============================================================================
