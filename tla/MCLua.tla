-------------------------------- MODULE MCLua --------------------------------
(***************************************************************************)
(* The chunks LuaVM is checked on, as syntax trees: families of programs,  *)
(* each a set of parameters and the tree they stand for.                   *)
(***************************************************************************)
EXTENDS LuaEval

n(x) == <<"name", <<x>>>>
k(v) == <<"num", v>>
s(x) == <<"str", <<x>>>>
bin(op, a, b) == <<"bin", op, a, b>>
un(op, a) == <<"un", op, a>>
call(f, as) == <<"call", n(f), as>>
idx(t, x) == <<"idx", t, x>>
local(x, e) == <<"local", <<<<x>>>>, <<e>>>>
locals(xs, es) == <<"local", [i \in DOMAIN xs |-> <<xs[i]>>], es>>
set(t, e) == <<"set", <<t>>, <<e>>>>
ret(es) == <<"return", es>>
func(ps, va, b) == [ps |-> [i \in DOMAIN ps |-> <<ps[i]>>], va |-> va, b |-> b]
fn(ps, b) == <<"fn", func(ps, "", b)>>
lfn(x, f) == <<"lfn", <<x>>, f>>
list(es) == <<"tab", [i \in DOMAIN es |-> <<"pos", es[i]>>]>>
rec(x, e) == <<"rec", s(x), e>>

(* Conditions: every kind of operand in every position of the logical      *)
(* operators, where a value, a register or a jump is needed.               *)
Leaves == {<<"nil">>, <<"true">>, k(1), n("x"), n("g")}
Logic == {bin(op, a, b) : op \in {"and", "or", "=="}, a \in Leaves, b \in Leaves}
         \cup {un("not", a) : a \in Leaves}
Conds == Logic \cup {bin(op, a, b) : op \in {"and", "or"}, a \in Logic, b \in Leaves}
         \cup {bin(op, b, a) : op \in {"and", "or"}, a \in Logic, b \in Leaves}
         \cup {un("not", a) : a \in Logic}
CondUse(e, u) ==
  CASE u = "value" -> <<local("x", <<"true">>), ret(<<e>>)>>
    [] u = "store" -> <<local("x", <<"false">>), local("y", k(3)), set(n("y"), e), ret(<<n("y")>>)>>
    [] u = "jump" -> <<local("x", k(2)), <<"if", e, <<ret(<<k(1)>>)>>, <<ret(<<k(2)>>)>>>>>>
    [] u = "while" -> <<local("x", k(2)), <<"while", e, <<ret(<<k(1)>>)>>>>, ret(<<n("x")>>)>>
CondSources == {"cond"} \X Conds \X {"value", "store", "jump", "while"}

(* Multiple assignment, with targets that use the variables assigned.      *)
Targets2 == {n("x"), n("y"), n("g"), idx(n("t"), n("x")), idx(n("t"), n("y"))}
Exps2 == {n("x"), n("y"), idx(n("t"), n("x")), k(3), call("two", <<>>)}
AssignTree(c) ==
  <<lfn("two", func(<<>>, "", <<ret(<<k(8), k(9)>>)>>)), locals(<<"x", "y">>, <<k(1), k(2)>>),
    local("t", list(<<k(5), k(6), k(7)>>)),
    <<"set", c[2], c[3]>>,
    ret(<<n("x"), n("y"), n("g"), idx(n("t"), k(1)), idx(n("t"), k(2)), idx(n("t"), k(3))>>)>>
AssignSources ==
  {"assign"} \X {<<a, b>> : a \in Targets2, b \in Targets2}
             \X ({<<a>> : a \in Exps2} \cup {<<a, b>> : a \in Exps2, b \in Exps2})

(* Closures that capture the variables of a loop; the loop may be left by  *)
(* break.                                                                  *)
LoopTree(c) ==
  LET counter(v) == set(idx(n("fs"), n("i")), fn(<<>>, <<set(n(v), bin("+", n(v), k(1))), ret(<<n(v)>>)>>))
      inner == <<local("v", n("i")), counter(c[3])>>
               \o (IF c[4] THEN <<<<"if", bin("==", n("i"), k(2)), <<<<"break">>>>, <<>>>>>> ELSE <<>>)
      step == set(n("j"), bin("+", n("j"), k(1)))
      copy == local("i", n("j"))
      loop == CASE c[2] = "for" -> <<<<"for", <<"i">>, <<k(1), k(3)>>, inner>>>>
                [] c[2] = "while" -> <<local("j", k(1)), <<"while", bin("<=", n("j"), k(3)), <<copy, step>> \o inner>>>>
                [] c[2] = "repeat" -> <<local("j", k(1)), <<"repeat", <<copy, step>> \o inner, bin(">=", n("i"), k(3))>>>>
                [] c[2] = "in" -> <<<<"in", <<<<"i">>>>, <<fn(<<"a", "b">>, <<<<"if", bin("<", n("b"), k(3)), <<ret(<<bin("+", n("b"), k(1))>>)>>, <<>>>>>>), <<"nil">>, k(0)>>, inner>>>>
      at(i) == idx(n("fs"), k(i))
  IN <<local("fs", <<"tab", <<>>>>)>> \o loop
     \o <<<<"if", at(3), <<ret(<<<<"call", at(1), <<>>>>, <<"call", at(1), <<>>>>, <<"call", at(3), <<>>>>>>)>>, <<>>>>,
          ret(<<<<"call", at(2), <<>>>>, <<"call", at(1), <<>>>>, <<"call", at(1), <<>>>>>>)>>
LoopSources == {"loop"} \X {"for", "while", "repeat", "in"} \X {"i", "v"} \X BOOLEAN

(* Calls: parameters, extra arguments, what is returned and how it is used.*)
CallTree(c) ==
  LET ps == SubSeq(<<"a", "b">>, 1, c[2])
      vals == CASE c[3] = "dots" -> <<n("a"), <<"...">>>>
                [] c[3] = "arg" -> <<idx(n("arg"), s("n")), idx(n("arg"), k(1))>>
                [] OTHER -> <<n("a"), n("b")>>
      f == [ps |-> [i \in DOMAIN ps |-> <<ps[i]>>], va |-> c[3], b |-> <<ret(vals)>>]
      args == CASE c[4] = "multi" -> <<k(4), call("two", <<>>)>>
                [] c[4] = "one" -> <<k(4)>>
                [] c[4] = "three" -> <<k(4), k(5), k(6)>>
      e == call("f", args)
      use == CASE c[5] = "tail" -> <<ret(<<e>>)>>
               [] c[5] = "par" -> <<ret(<<<<"par", e>>, k(3)>>)>>
               [] c[5] = "adjust" -> <<locals(<<"p", "q", "r">>, <<e>>), ret(<<n("p"), n("q"), n("r")>>)>>
               [] c[5] = "table" -> <<local("t", list(<<k(1), e>>)), ret(<<un("#", n("t")), idx(n("t"), k(2)), idx(n("t"), k(4))>>)>>
               [] c[5] = "last" -> <<ret(<<k(1), e>>)>>
               [] c[5] = "nested" -> <<ret(<<call("f", <<k(2), e>>)>>)>>
               [] c[5] = "statement" -> <<<<"exp", e>>, ret(<<k(1)>>)>>
  IN <<lfn("two", func(<<>>, "", <<ret(<<k(8), k(9)>>)>>)), lfn("f", f)>> \o use
CallSources == {"call"} \X (0 .. 2) \X {"", "dots", "arg"} \X {"multi", "one", "three"}
               \X {"tail", "par", "adjust", "table", "last", "nested", "statement"}

(* Constructors longer than a batch, with an open last item or records.    *)
ItemTree(c) ==
  LET items == [i \in 1 .. c[2] |-> <<"pos", k(i)>>]
      more == CASE c[3] = "none" -> <<>> [] c[3] = "two" -> <<<<"pos", call("two", <<>>)>>>>
                [] c[3] = "zero" -> <<<<"pos", call("zero", <<>>)>>>>
                [] c[3] = "rec" -> <<rec("a", k(9)), <<"pos", k(7)>>, <<"rec", k(9), s("b")>>>>
                [] c[3] = "dots" -> <<<<"pos", <<"...">>>>>>
      at(i) == idx(n("t"), k(i))
  IN <<lfn("two", func(<<>>, "", <<ret(<<k(8), k(9)>>)>>)), lfn("zero", func(<<>>, "", <<>>)),
       lfn("mk", func(<<>>, "dots", <<local("t", <<"tab", items \o more>>),
                                      ret(<<un("#", n("t")), at(1), at(3), at(5), at(6), idx(n("t"), s("a")), at(9)>>)>>)),
       ret(<<call("mk", <<k(6), k(7)>>)>>)>>
ItemSources == {"item"} \X (0 .. 5) \X {"none", "two", "zero", "rec", "dots"}

(* Numeric for.                                                            *)
Nums == {k(0), k(1), k(3), s("2"), <<"nil">>}
ForTree(c) ==
  <<local("r", k(5)), <<"for", <<"i">>, <<c[2], c[3]>> \o c[4], <<set(n("r"), bin("+", bin("*", n("r"), k(2)), n("i")))>>>>, ret(<<n("r")>>)>>
ForSources == {"for"} \X Nums \X Nums \X {<<>>, <<k(2)>>, <<un("-", k(1))>>, <<s("1")>>, <<n("g")>>}

(* Operators on numbers, numerals, strings, nil and tables with and        *)
(* without metamethods.                                                    *)
Operands == {k(1), n("z"), s("2"), s("a"), n("g"), n("m"), n("t")}
Event1(e, v) == rec(e, fn(<<"a", "b">>, <<ret(<<v>>)>>))
Meta(le) ==
  <<"tab", <<Event1("__add", k(7)), Event1("__sub", <<"nil">>), Event1("__concat", s("c")), Event1("__lt", <<"nil">>),
             Event1("__eq", k(0)), Event1("__unm", k(5))>>
           \o (IF le THEN <<Event1("__le", <<"true">>)>> ELSE <<>>)>>
OpTree(c) ==
  <<local("z", k(2)), local("mt", Meta(c[5])), local("m", call("setmetatable", <<<<"tab", <<>>>>, n("mt")>>)),
    local("t", call("setmetatable", <<<<"tab", <<>>>>, n("mt")>>)),
    ret(<<bin(c[2], c[3], c[4])>>)>>
Ops == {"+", "-", "*", "/", "%", "^", "..", "<", "<=", ">", ">=", "==", "~="}
OpSources == {"op"} \X Ops \X Operands \X Operands \X BOOLEAN

(* Chains of concatenations.                                               *)
Pieces == {k(1), s("a"), <<"str", <<>>>>, n("m"), n("g")}
ConcatTree(c) ==
  <<local("m", call("setmetatable", <<<<"tab", <<>>>>, Meta(TRUE)>>)),
    ret(<<bin("..", c[2], bin("..", c[3], c[4]))>>)>>
ConcatSources == {"concat"} \X Pieces \X Pieces \X Pieces

(* Operations on a value that is nil, reached in the ways a name can be    *)
(* given to it.                                                            *)
Nils == {n("v"), n("u"), n("g"), idx(n("t"), s("f")), idx(n("t"), n("w")), bin("or", n("v"), n("g")),
         bin("and", n("w"), n("g")), call("id", <<n("v")>>), idx(idx(n("t"), s("s")), s("f"))}
Misuse(e, op) ==
  CASE op = "index" -> <<ret(<<idx(e, s("y"))>>)>>
    [] op = "call" -> <<<<"exp", <<"call", e, <<k(1)>>>>>>>>
    [] op = "method" -> <<<<"exp", <<"meth", e, <<"y">>, <<>>>>>>>>
    [] op = "nomethod" -> <<local("x", <<"tab", <<rec("k", e)>>>>), <<"exp", <<"meth", n("x"), <<"y">>, <<e>>>>>>>>
    [] op = "left" -> <<local("x", bin("+", e, n("w")))>>
    [] op = "right" -> <<local("x", bin("*", n("w"), e))>>
    [] op = "len" -> <<ret(<<un("#", e)>>)>>
    [] op = "unm" -> <<ret(<<k(1), un("-", e)>>)>>
    [] op = "concat" -> <<ret(<<bin("..", n("w"), bin("..", e, k(1)))>>)>>
    [] op = "store" -> <<set(idx(e, k(1)), k(1))>>
    [] op = "key" -> <<set(idx(n("t"), e), k(1))>>
    [] op = "in" -> <<<<"in", <<<<"i">>>>, <<e>>, <<>>>>>>
    [] op = "second" -> <<ret(<<idx(n("t"), s("s")), call("id", <<idx(e, n("w"))>>)>>)>>
BlameTree(c) ==
  LET inside == <<locals(<<"v", "w">>, <<<<"nil">>, k(2)>>), local("t", <<"tab", <<rec("s", <<"tab", <<>>>>)>>>>)>>
              \o Misuse(c[2], c[3])
  IN <<local("u", <<"nil">>), lfn("id", func(<<"a">>, "", <<ret(<<n("a")>>)>>)),
       lfn("f", func(<<>>, "", inside)), <<"exp", call("f", <<>>)>>, ret(<<call("f", <<>>)>>)>>
BlameSources == {"blame"} \X Nils \X {"index", "call", "method", "nomethod", "left", "right", "len", "unm",
                                      "concat", "store", "key", "in", "second"}

(* Whole programs: recursion, shared upvalues, inheritance, chains of      *)
(* metatables, metamethods called from C.                                  *)
fact == <<lfn("f", func(<<"a">>, "", <<<<"if", bin("<=", n("a"), k(1)), <<ret(<<k(1)>>)>>, <<>>>>,
                                       ret(<<bin("*", n("a"), call("f", <<bin("-", n("a"), k(1))>>))>>)>>)),
          ret(<<call("f", <<k(4)>>)>>)>>
tailcalls == <<<<"func", <<"f">>, func(<<"a", "b">>, "", <<<<"if", bin("==", n("a"), k(0)), <<ret(<<n("b")>>)>>, <<>>>>,
                  ret(<<call("f", <<bin("-", n("a"), k(1)), bin("+", n("b"), n("a"))>>)>>)>>)>>,
               ret(<<call("f", <<k(3), k(0)>>)>>)>>
shared == <<local("x", k(1)),
            lfn("mk", func(<<"a">>, "", <<ret(<<fn(<<>>, <<set(n("x"), bin("+", n("x"), n("a"))),
               ret(<<fn(<<>>, <<set(n("a"), bin("+", n("a"), n("x"))), ret(<<n("a")>>)>>)>>)>>)>>)>>)),
            local("p", call("mk", <<k(2)>>)), local("q", call("p", <<>>)), local("r", call("p", <<>>)),
            ret(<<call("q", <<>>), call("r", <<>>), n("x")>>)>>
inherit == <<local("base", <<"tab", <<rec("get", fn(<<"self">>, <<ret(<<idx(n("self"), s("v"))>>)>>))>>>>),
             local("mid", call("setmetatable", <<<<"tab", <<>>>>, <<"tab", <<rec("__index", n("base"))>>>>>>)),
             local("o", call("setmetatable", <<<<"tab", <<rec("v", k(6))>>>>, <<"tab", <<rec("__index", n("mid"))>>>>>>)),
             ret(<<<<"meth", n("o"), <<"get">>, <<>>>>, idx(n("o"), s("none"))>>)>>
indexer == <<local("log", k(0)),
             local("o", call("setmetatable", <<<<"tab", <<>>>>, <<"tab",
               <<rec("__index", fn(<<"t", "x">>, <<ret(<<bin("..", n("x"), s("b")), k(1)>>)>>)),
                 rec("__newindex", fn(<<"t", "x", "v">>, <<set(n("log"), bin("+", n("log"), n("v")))>>)),
                 rec("__call", fn(<<"self", "a">>, <<ret(<<n("a"), n("log")>>)>>))>>>>>>)),
             set(idx(n("o"), s("p")), k(3)), set(idx(n("o"), s("q")), k(4)),
             ret(<<idx(n("o"), s("a")), call("o", <<k(2)>>)>>)>>
forward == <<local("store", <<"tab", <<>>>>),
             local("o", call("setmetatable", <<<<"tab", <<>>>>, <<"tab", <<rec("__newindex", n("store"))>>>>>>)),
             set(idx(n("o"), s("p")), k(3)), ret(<<idx(n("o"), s("p")), idx(n("store"), s("p"))>>)>>
indexloop == <<local("m", <<"tab", <<>>>>), local("o", call("setmetatable", <<n("m"), n("m")>>)),
               set(idx(n("m"), s("__index")), n("m")), ret(<<idx(n("o"), s("x"))>>)>>
storeloop == <<local("m", <<"tab", <<>>>>), local("o", call("setmetatable", <<n("m"), n("m")>>)),
               set(idx(n("m"), s("__newindex")), n("m")), set(idx(n("o"), s("x")), k(1)), ret(<<>>)>>
deepindex == <<local("o", call("setmetatable", <<<<"tab", <<>>>>, <<"tab",
                 <<rec("__index", fn(<<"t", "x">>, <<ret(<<idx(n("t"), n("x"))>>)>>))>>>>>>)),
               ret(<<idx(n("o"), s("x"))>>)>>
scopes == <<local("x", k(1)), <<"do", <<local("x", k(2)), set(n("g"), fn(<<>>, <<set(n("x"), bin("+", n("x"), k(1))), ret(<<n("x")>>)>>))>>>>,
            local("y", k(5)), ret(<<call("g", <<>>), call("g", <<>>), n("x"), n("y")>>)>>
classes == <<local("c", <<"tab", <<>>>>), <<"if", n("g"), <<set(n("c"), k(1))>>, <<<<"if", n("c"), <<set(n("g"), k(4))>>, <<>>>>>>>>,
             set(idx(n("c"), s("m")), fn(<<"self", "d">>, <<ret(<<bin("+", idx(n("self"), s("v")), n("d"))>>)>>)),
             set(idx(n("c"), s("v")), n("g")), ret(<<<<"meth", n("c"), <<"m">>, <<k(3)>>>>>>)>>
nils == <<locals(<<"a", "b", "c">>, <<>>), local("d", k(1)), <<"repeat", <<locals(<<"p", "q">>, <<>>), set(n("d"), bin("+", n("d"), k(1)))>>,
          un("not", n("p"))>>, ret(<<n("a"), n("c"), n("d")>>)>>
Programs == {"fact", "tailcalls", "shared", "inherit", "indexer", "forward", "indexloop", "storeloop",
             "deepindex", "scopes", "classes", "nils"}
ProgramTree(p) ==
  CASE p = "fact" -> fact [] p = "tailcalls" -> tailcalls [] p = "shared" -> shared [] p = "inherit" -> inherit
    [] p = "indexer" -> indexer [] p = "forward" -> forward [] p = "indexloop" -> indexloop
    [] p = "storeloop" -> storeloop [] p = "deepindex" -> deepindex [] p = "scopes" -> scopes
    [] p = "classes" -> classes [] p = "nils" -> nils

(* Chunks that grow up to each limit of the compiler and beyond it: local  *)
(* variables, upvalues, registers, nesting, RK constants, jumps.           *)
Vars == <<"a", "b", "c", "d", "e", "f", "g", "h", "i", "j", "k", "l">>
RECURSIVE InParens(_)
InParens(i) == IF i = 0 THEN k(7) ELSE <<"par", InParens(i - 1)>>
LimitTree(c) ==
  LET m == c[3]
      xs == SubSeq(Vars, 1, m)
      each(f(_)) == [i \in 1 .. m |-> f(i)]
      decls == <<locals(xs, each(LAMBDA i : k(i)))>>
      uses == each(LAMBDA i : n(xs[i]))
      grow == each(LAMBDA i : set(n("x"), bin("+", n("x"), k(1))))
  IN CASE c[2] = "vars" -> decls \o <<ret(<<n(xs[m])>>)>>
       [] c[2] = "ups" -> decls \o <<ret(<<<<"call", <<"par", fn(<<>>, <<ret(uses)>>)>>, <<>>>>>>)>>
       [] c[2] = "args" -> <<lfn("p", func(<<"x">>, "dots", <<ret(<<<<"...">>>>)>>)), ret(<<call("p", each(LAMBDA i : k(i)))>>)>>
       [] c[2] = "nest" -> <<ret(<<InParens(m)>>)>>
       [] c[2] = "consts" -> <<local("x", k(0))>> \o each(LAMBDA i : set(n("x"), bin("+", k(10 + i), n("x")))) \o <<ret(<<n("x")>>)>>
       [] c[2] = "jump" -> <<local("x", k(0)), <<"while", bin("<", n("x"), k(2)), grow>>, ret(<<n("x")>>)>>
LimitSources == {"limit"} \X {"vars", "ups", "args", "nest", "consts", "jump"} \X (1 .. 12)

(* Three logical operators, nested to the left, of constants and a local.  *)
Three == {"and", "or"} \X {"and", "or"} \X {"and", "or"}
Simple == {<<"true">>, <<"false">>, k(1), n("x")}
LogicTree(c) ==
  <<local("x", <<"true">>),
    ret(<<bin(c[2][3], bin(c[2][2], bin(c[2][1], c[3][1], c[3][2]), c[3][3]), c[3][4])>>)>>
LogicSources == {"logic"} \X Three \X (Simple \X Simple \X Simple \X Simple)

Tree(c) ==
  CASE c[1] = "cond" -> CondUse(c[2], c[3]) [] c[1] = "assign" -> AssignTree(c) [] c[1] = "loop" -> LoopTree(c)
    [] c[1] = "call" -> CallTree(c) [] c[1] = "item" -> ItemTree(c) [] c[1] = "for" -> ForTree(c)
    [] c[1] = "op" -> OpTree(c) [] c[1] = "concat" -> ConcatTree(c) [] c[1] = "blame" -> BlameTree(c)
    [] c[1] = "program" -> ProgramTree(c[2]) [] c[1] = "logic" -> LogicTree(c)
    [] c[1] = "limit" -> LimitTree(c)
MCAlphabet == <<"1", "2", "a", "b", "c">>

(* Chunks with a bracket or a keyword missing: none of them is Lua.        *)
CutBases == ({"program"} \X Programs) \cup LoopSources \cup {<<"item", 3, "rec">>, <<"call", 2, "dots", "multi", "adjust">>}
Brackets == {"(", ")", "[", "]", "{", "}", "function", "if", "then", "do", "in", "repeat", "until", "end"}
Cut(toks, i) ==
  LET at == {j \in DOMAIN toks : toks[j][1] \in Brackets}
      upto == {j \in at : Cardinality({h \in at : h <= j}) <= i}
  IN RemoveAt(toks, CHOOSE j \in upto : \A h \in upto : h <= j)
CutSources == {"cut"} \X CutBases \X (1 .. 60)

RunSources == LoopSources \cup ({"program"} \X Programs) \cup ItemSources \cup CallSources \cup BlameSources
              \cup ConcatSources \cup OpSources \cup ForSources \cup AssignSources \cup CondSources
              \cup LimitSources \cup CutSources

MCCompile(c) ==
  LET toks == IF c[1] = "cut" THEN Cut(BlockToks(Tree(c[2])), c[3]) ELSE BlockToks(Tree(c))
  IN luaY_parser(toks)
NotLua == <<<<"exp", call("error", <<>>)>>>>
MCMeans(c) == LET b == IF c[1] = "cut" THEN NotLua ELSE Tree(c) IN Meaning(b)
=============================================================================
