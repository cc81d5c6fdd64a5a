------------------------------ MODULE LuaParser ------------------------------
(***************************************************************************)
(* lparser.c: the recursive-descent compiler.  The state S of LuaCode also *)
(* holds                                                                   *)
(*   toks, at   the tokens of the source and the position of the current   *)
(*              one; a token is <<kind>>, <<"name", s>>, <<"num", v>> or   *)
(*              <<"str", s>>, where the string s is a sequence of pieces   *)
(*              and a name a single piece,                                 *)
(*   prev       the FuncStates of the enclosing functions, innermost last, *)
(*   level      L->nCcalls, the depth of syntactic nesting.                *)
(* The source is on one line: line numbers, and with them lineinfo and the *)
(* "ambiguous syntax" check, are left out.                                 *)
(***************************************************************************)
EXTENDS LuaCheck

CONSTANTS
  LUAI_MAXVARS,       \* 200
  LUAI_MAXUPVALUES,   \* 60
  LUAI_MAXCCALLS      \* 200

ASSUME ParserLimitsAssumption ==
  LUAI_MAXVARS \in 3 .. 200 /\ LUAI_MAXUPVALUES \in 1 .. 60 /\ LUAI_MAXCCALLS \in 3 .. 200

LUA_MULTRET == -1
hasmultret(k) == k \in {"VCALL", "VVARARG"}
luaK_setmultret(S, e) == luaK_setreturns(S, e, LUA_MULTRET)

tok(S) == IF S.at > Len(S.toks) THEN <<"eos">> ELSE S.toks[S.at]
T(S) == tok(S)[1]
luaX_next(S) == [S EXCEPT !.at = @ + 1]
luaX_lookahead(S) == IF S.at + 1 > Len(S.toks) THEN "eos" ELSE S.toks[S.at + 1][1]

check(S, c) == IF T(S) = c THEN S ELSE Throw(S, "expected")
checknext(S, c) == luaX_next(check(S, c))
testnext(S, c) == IF T(S) = c THEN luaX_next(S) ELSE S
check_match(S, what) == checknext(S, what)

luaY_checklimit(S, v, limit, what) == IF v > limit THEN Throw(S, what) ELSE S

\* The name at the current token, which str_checkname skips.
NameOf(S) == IF T(S) = "name" THEN tok(S)[2] ELSE <<"?">>
str_checkname(S) == checknext(S, "name")

codestring(S, s) == LET k == luaK_stringK(S, s) IN On(k, init_exp("VK", k.r))
checkname(S) == codestring(str_checkname(S), NameOf(S))

enterlevel(S) ==
  LET s == [S EXCEPT !.level = @ + 1]
  IN IF s.level > LUAI_MAXCCALLS THEN Throw(s, "too many syntax levels") ELSE s
leavelevel(S) == [S EXCEPT !.level = @ - 1]

-----------------------------------------------------------------------------
(* Variables, upvalues and blocks.  locvars is the debug information about *)
(* every local; actvar holds the positions in it of the declared ones, of  *)
(* which the first nactvar are active.                                     *)

new_localvar(S, name, n) ==
  LET s == luaY_checklimit(S, S.fs.nactvar + n + 1, LUAI_MAXVARS, "local variables")
  IN [s EXCEPT !.fs.locvars = Append(@, [name |-> name, startpc |-> 0, endpc |-> 0]),
               !.fs.actvar = Append(SubSeq(@, 1, S.fs.nactvar + n), Len(S.fs.locvars) + 1)]

\* Mark(S, vs, f, at) sets field f of the variables vs (positions in actvar).
Mark(S, vs, f, at) ==
  LET marked == {S.fs.actvar[i] : i \in vs}
  IN [S EXCEPT !.fs.locvars = [i \in DOMAIN @ |-> IF i \in marked THEN [@[i] EXCEPT ![f] = at] ELSE @[i]]]

adjustlocalvars(S, nvars) ==
  LET s == [S EXCEPT !.fs.nactvar = @ + nvars]
  IN Mark(s, S.fs.nactvar + 1 .. s.fs.nactvar, "startpc", pc(S))

removevars(S, tolevel) ==
  [Mark(S, tolevel + 1 .. S.fs.nactvar, "endpc", pc(S)) EXCEPT
     !.fs.nactvar = IF @ > tolevel THEN tolevel ELSE @]

\* Index of the innermost active variable of that name, -1 if there is none.
searchvar(fs, n) ==
  Max({i - 1 : i \in {j \in 1 .. fs.nactvar : fs.locvars[fs.actvar[j]].name = n}} \cup {-1})

markupval(fs, lvl) ==
  LET at == {i \in DOMAIN fs.bl : fs.bl[i].nactvar <= lvl}
  IN IF at = {} THEN fs ELSE [fs EXCEPT !.bl[Max(at)].upval = TRUE]

\* Position of the upvalue in fs, one past the last when it is a new one.
indexupvalue(fs, k, info) ==
  LET at == SelectInSeq(fs.upvalues, LAMBDA u : u.k = k /\ u.info = info)
  IN IF at = 0 THEN Len(fs.upvalues) ELSE at - 1

(***************************************************************************)
(* Looks a name up in the functions fss[1..i], innermost last; the outer   *)
(* ones record what the inner ones capture.                                *)
(***************************************************************************)
RECURSIVE singlevaraux(_, _, _, _)
singlevaraux(fss, i, n, base) ==
  IF i = 0 THEN [fss |-> fss, k |-> "VGLOBAL", info |-> NO_REG, over |-> FALSE]
  ELSE LET v == searchvar(fss[i], n)
           marked == IF base THEN fss ELSE [fss EXCEPT ![i] = markupval(@, v)]
           outer == singlevaraux(fss, i - 1, n, FALSE)
           idx == indexupvalue(fss[i], outer.k, outer.info)
           isnew == idx = Len(fss[i].upvalues)
       IN CASE v >= 0 -> [fss |-> marked, k |-> "VLOCAL", info |-> v, over |-> FALSE]
            [] v < 0 /\ outer.k = "VGLOBAL" -> outer
            [] OTHER ->
                 [fss |-> IF ~isnew THEN outer.fss
                          ELSE [outer.fss EXCEPT ![i].upvalues =
                                  Append(@, [k |-> outer.k, info |-> outer.info, name |-> n])],
                  k |-> "VUPVAL", info |-> idx,
                  over |-> outer.over \/ (isnew /\ idx + 1 > LUAI_MAXUPVALUES)]

singlevar(S) ==
  LET v == singlevaraux(Append(S.prev, S.fs), Len(S.prev) + 1, NameOf(S), TRUE)
      s == [str_checkname(S) EXCEPT !.fs = Last(v.fss), !.prev = Front(v.fss)]
      g == luaK_stringK(s, NameOf(S))
  IN CASE v.over -> On(Throw(s, "upvalues"), init_exp(v.k, v.info))
       [] v.k = "VGLOBAL" -> On(g, init_exp("VGLOBAL", g.r))
       [] OTHER -> On(s, init_exp(v.k, v.info))

adjust_assign(S, nvars, nexps) ==
  LET extra == nvars - nexps
      more == IF extra + 1 < 0 THEN 0 ELSE extra + 1
      multi == luaK_setreturns(S, S.e, more)
      single == IF S.e.k = "VVOID" THEN S ELSE luaK_exp2nextreg(S)
  IN CASE hasmultret(S.e.k) -> IF more > 1 THEN luaK_reserveregs(multi, more - 1) ELSE multi
       [] ~hasmultret(S.e.k) /\ extra > 0 ->
            luaK_nil(luaK_reserveregs(single, extra), single.fs.freereg, extra)
       [] OTHER -> single

enterblock(S, isbreakable) ==
  lua_assert([S EXCEPT !.fs.bl = Append(@, [breaklist |-> NO_JUMP, nactvar |-> S.fs.nactvar,
                                            upval |-> FALSE, isbreakable |-> isbreakable])],
             S.fs.freereg = S.fs.nactvar, "enterblock")

leaveblock(S) ==
  LET bl == Last(S.fs.bl)
      s1 == removevars([S EXCEPT !.fs.bl = Front(@)], bl.nactvar)
      s2 == IF bl.upval THEN luaK_codeABC(s1, "CLOSE", bl.nactvar, 0, 0) ELSE s1
      s3 == lua_assert(s2, ~(bl.isbreakable /\ bl.upval) /\ bl.nactvar = s2.fs.nactvar, "leaveblock")
  IN luaK_patchtohere([s3 EXCEPT !.fs.freereg = s3.fs.nactvar], bl.breaklist)

-----------------------------------------------------------------------------
(* Functions.                                                              *)

NewFuncState ==
  [code |-> <<>>, k |-> <<>>, p |-> <<>>, upvalues |-> <<>>, locvars |-> <<>>, actvar |-> <<>>, bl |-> <<>>,
   lasttarget |-> -1, jpc |-> NO_JUMP, freereg |-> 0, nactvar |-> 0, maxstack |-> 2,
   numparams |-> 0, vararg |-> {}]

open_func(S) == [S EXCEPT !.prev = Append(@, S.fs), !.fs = NewFuncState]

Proto(fs) ==
  [code |-> fs.code, k |-> fs.k, p |-> fs.p, nups |-> Len(fs.upvalues), maxstack |-> fs.maxstack,
   numparams |-> fs.numparams, vararg |-> fs.vararg, locvars |-> fs.locvars,
   upvalues |-> [i \in DOMAIN fs.upvalues |-> fs.upvalues[i].name]]

\* The function state is complete; the enclosing one becomes current again.
close_func(S) ==
  LET s == luaK_ret(removevars(S, 0), 0, 0)
  IN lua_assert(lua_assert(s, luaG_checkcode(Proto(s.fs)), "checkcode"), s.fs.bl = <<>>, "close_func")

\* CLOSURE, and one pseudo-instruction for each captured variable.
pushclosure(S, func) ==
  LET s1 == [S EXCEPT !.fs = Last(S.prev), !.prev = Front(@)]
      s2 == luaK_codeABx([s1 EXCEPT !.fs.p = Append(@, Proto(func))], "CLOSURE", 0, Len(s1.fs.p))
      capture(s, u) == luaK_codeABC(s, IF u.k = "VLOCAL" THEN "MOVE" ELSE "GETUPVAL", 0, u.info, 0)
  IN On(FoldLeft(capture, s2, func.upvalues), init_exp("VRELOCABLE", s2.r))

RECURSIVE expr(_), subexpr(_, _), chunk(_), primaryexp(_), constructor(_), funcargs(_, _),
          assignment(_, _, _)

\* explist1 leaves the last expression in S.e and the number of them in r.
RECURSIVE moreexps(_, _)
moreexps(S, n) ==
  IF T(S) = "," THEN moreexps(expr(luaX_next(luaK_exp2nextreg(S))), n + 1) ELSE Ret(S, n)
explist1(S) == moreexps(expr(S), 1)

RECURSIVE params(_, _)
params(S, n) ==
  LET named == new_localvar(str_checkname(S), NameOf(S), n)
      dots == [new_localvar(luaX_next(S), <<"arg">>, n) EXCEPT
                 !.fs.vararg = {"HASARG", "NEEDSARG", "ISVARARG"}]
  IN CASE T(S) = "name" /\ T(named) = "," -> params(luaX_next(named), n + 1)
       [] T(S) = "name" /\ T(named) # "," -> Ret(named, n + 1)
       [] T(S) = "..." -> Ret(dots, n + 1)
       [] OTHER -> Ret(Throw(S, "<name> or ... expected"), n)

parlist(S) ==
  LET s1 == IF T(S) = ")" THEN Ret(S, 0) ELSE params(S, 0)
      s2 == adjustlocalvars(s1, s1.r)
      hasarg == IF "HASARG" \in s2.fs.vararg THEN 1 ELSE 0
  IN luaK_reserveregs([s2 EXCEPT !.fs.numparams = s2.fs.nactvar - hasarg], s2.fs.nactvar)

body(S, needself) ==
  LET s1 == checknext(open_func(S), "(")
      s2 == IF needself THEN adjustlocalvars(new_localvar(s1, <<"self">>, 0), 1) ELSE s1
      s3 == chunk(checknext(parlist(s2), ")"))
      s4 == close_func(check_match(s3, "end"))
  IN pushclosure(s4, s4.fs)

-----------------------------------------------------------------------------
(* Expressions.                                                            *)

field(S) ==
  LET t == luaK_exp2anyreg(S)
  IN luaK_indexed(checkname(luaX_next(t)), t.e)

yindex(S) == checknext(luaK_exp2val(expr(luaX_next(S))), "]")

(***************************************************************************)
(* Table constructors.  cc is the ConsControl: v the item read last, t the *)
(* register of the table, na and nh the items counted, tostore those that  *)
(* wait in registers.                                                      *)
(***************************************************************************)
recfield(S, cc) ==
  LET key == IF T(S) = "name" THEN checkname(S) ELSE yindex(S)
      rk == luaK_exp2RK(checknext(key, "="))
      val == luaK_exp2RK(expr(rk))
      s == luaK_codeABC(val, "SETTABLE", cc.t, rk.r, val.r)
  IN [s |-> [s EXCEPT !.fs.freereg = S.fs.freereg], cc |-> [cc EXCEPT !.nh = @ + 1]]

listfield(S, cc) ==
  LET s == expr(S)
  IN [s |-> s, cc |-> [cc EXCEPT !.v = s.e, !.na = @ + 1, !.tostore = @ + 1]]

closelistfield(S, cc) ==
  LET s == luaK_exp2nextreg(On(S, cc.v))
      full == cc.tostore = LFIELDS_PER_FLUSH
  IN IF cc.v.k = "VVOID" THEN [s |-> S, cc |-> cc]
     ELSE [s |-> IF full THEN luaK_setlist(s, cc.t, cc.na, cc.tostore) ELSE s,
           cc |-> [cc EXCEPT !.v.k = "VVOID", !.tostore = IF full THEN 0 ELSE @]]

\* r is the number of array items that are known, for the size hint.
lastlistfield(S, cc) ==
  LET multi == luaK_setmultret(S, cc.v)
      single == IF cc.v.k = "VVOID" THEN S ELSE luaK_exp2nextreg(On(S, cc.v))
  IN CASE cc.tostore = 0 -> Ret(S, cc.na)
       [] cc.tostore # 0 /\ hasmultret(cc.v.k) ->
            Ret(luaK_setlist(multi, cc.t, cc.na, LUA_MULTRET), cc.na - 1)
       [] OTHER -> Ret(luaK_setlist(single, cc.t, cc.na, cc.tostore), cc.na)

RECURSIVE fieldlist(_, _)
fieldlist(S, cc) ==
  LET s0 == lua_assert(S, cc.v.k = "VVOID" \/ cc.tostore > 0, "constructor")
      c == closelistfield(s0, cc)
      isrec == T(S) = "[" \/ (T(S) = "name" /\ luaX_lookahead(S) = "=")
      x == IF isrec THEN recfield(c.s, c.cc) ELSE listfield(c.s, c.cc)
  IN CASE T(S) = "}" -> [s |-> s0, cc |-> cc]
       [] T(S) # "}" /\ T(x.s) \in {",", ";"} -> fieldlist(luaX_next(x.s), x.cc)
       [] OTHER -> x

constructor(S) ==
  LET s1 == luaK_codeABC(S, "NEWTABLE", 0, 0, 0)
      s2 == luaK_exp2nextreg(On(s1, init_exp("VRELOCABLE", s1.r)))
      x == fieldlist(checknext(s2, "{"),
                     [v |-> init_exp("VVOID", 0), t |-> s2.e.info, nh |-> 0, na |-> 0, tostore |-> 0])
      s3 == lastlistfield(check_match(x.s, "}"), x.cc)
  IN On([s3 EXCEPT !.fs.code[s1.r + 1].b = s3.r, !.fs.code[s1.r + 1].c = x.cc.nh], s2.e)

\* f is the called expression, in a register.
funcargs(S, f) ==
  LET none == On(luaX_next(S), init_exp("VVOID", 0))
      list == LET l == explist1(luaX_next(S)) IN luaK_setmultret(l, l.e)
      args == CASE T(S) = "(" -> check_match(IF T(none) = ")" THEN none ELSE list, ")")
                [] T(S) = "{" -> constructor(S)
                [] T(S) = "str" -> luaX_next(codestring(S, tok(S)[2]))
                [] OTHER -> Throw(S, "function arguments expected")
      s == lua_assert(args, f.k = "VNONRELOC", "funcargs")
      closed == IF args.e.k = "VVOID" THEN s ELSE luaK_exp2nextreg(s)
      call == IF hasmultret(args.e.k) THEN luaK_codeABC(s, "CALL", f.info, LUA_MULTRET + 1, 2)
              ELSE luaK_codeABC(closed, "CALL", f.info, closed.fs.freereg - f.info, 2)
  IN IF args.err # "" THEN args
     ELSE On([call EXCEPT !.fs.freereg = f.info + 1], init_exp("VCALL", call.r))

prefixexp(S) ==
  CASE T(S) = "(" -> luaK_dischargevars(check_match(expr(luaX_next(S)), ")"))
    [] T(S) = "name" -> singlevar(S)
    [] OTHER -> Throw(S, "unexpected symbol")

RECURSIVE suffixes(_)
suffixes(S) ==
  LET t == luaK_exp2anyreg(S)
      name == checkname(luaX_next(S))
      method == luaK_self(On(name, S.e), name.e)
      func == luaK_exp2nextreg(S)
  IN CASE T(S) = "." -> suffixes(field(S))
       [] T(S) = "[" -> suffixes(luaK_indexed(yindex(t), t.e))
       [] T(S) = ":" -> suffixes(funcargs(method, method.e))
       [] T(S) \in {"(", "str", "{"} -> suffixes(funcargs(func, func.e))
       [] OTHER -> S
primaryexp(S) == suffixes(prefixexp(S))

simpleexp(S) ==
  LET dots == luaK_codeABC([S EXCEPT !.fs.vararg = @ \ {"NEEDSARG"}], "VARARG", 0, 1, 0)
  IN CASE T(S) = "num" -> luaX_next(On(S, init_exp("VKNUM", tok(S)[2])))
       [] T(S) = "str" -> luaX_next(codestring(S, tok(S)[2]))
       [] T(S) = "nil" -> luaX_next(On(S, init_exp("VNIL", 0)))
       [] T(S) = "true" -> luaX_next(On(S, init_exp("VTRUE", 0)))
       [] T(S) = "false" -> luaX_next(On(S, init_exp("VFALSE", 0)))
       [] T(S) = "..." /\ S.fs.vararg = {} -> Throw(S, "cannot use ... outside a vararg function")
       [] T(S) = "..." /\ S.fs.vararg # {} -> luaX_next(On(dots, init_exp("VVARARG", dots.r)))
       [] T(S) = "{" -> constructor(S)
       [] T(S) = "function" -> body(luaX_next(S), FALSE)
       [] OTHER -> primaryexp(S)

UNARY_PRIORITY == 8
left(op) ==
  CASE op = "or" -> 1 [] op = "and" -> 2
    [] op \in {"==", "~=", "<", "<=", ">", ">="} -> 3
    [] op = ".." -> 5 [] op \in {"+", "-"} -> 6 [] op \in {"*", "/", "%"} -> 7 [] op = "^" -> 10
    [] OTHER -> 0   \* not a binary operator

right(op) == IF op \in {"..", "^"} THEN left(op) - 1 ELSE left(op)

RECURSIVE binops(_, _)
binops(S, limit) ==
  LET op == T(S)
      v == luaK_infix(luaX_next(S), op)
  IN IF left(op) > limit THEN binops(luaK_posfix(subexpr(v, right(op)), op, v.e), limit)
     ELSE S

subexpr(S, limit) ==
  LET s == enterlevel(S)
      first == IF T(s) \in {"not", "-", "#"}
               THEN luaK_prefix(subexpr(luaX_next(s), UNARY_PRIORITY), T(s))
               ELSE simpleexp(s)
  IN leavelevel(binops(first, limit))

expr(S) == subexpr(S, 0)

-----------------------------------------------------------------------------
(* Statements.                                                             *)

block_follow(t) == t \in {"else", "elseif", "end", "until", "eos"}

block(S) ==
  LET s == chunk(enterblock(S, FALSE))
  IN leaveblock(lua_assert(s, Last(s.fs.bl).breaklist = NO_JUMP, "block"))

\* The earlier targets lhs use a copy of the local v that is assigned too.
check_conflict(S, lhs, v) ==
  LET extra == S.fs.freereg
      hit(x) == x.k = "VINDEXED" /\ v.info \in {x.info, x.aux}
      safe(x) == IF hit(x) THEN [x EXCEPT !.info = IF @ = v.info THEN extra ELSE @,
                                          !.aux = IF @ = v.info THEN extra ELSE @]
                 ELSE x
      conflict == \E i \in DOMAIN lhs : hit(lhs[i])
  IN [s |-> IF conflict THEN luaK_reserveregs(luaK_codeABC(S, "MOVE", extra, v.info, 0), 1) ELSE S,
      lhs |-> [i \in DOMAIN lhs |-> safe(lhs[i])]]

(***************************************************************************)
(* lhs holds the targets read so far, the last of them read last.  r is    *)
(* not used; the targets are stored from the last to the first, by the     *)
(* returns of the recursive calls.                                         *)
(***************************************************************************)
StoreTop(S, var) == luaK_storevar(On(S, init_exp("VNONRELOC", S.fs.freereg - 1)), var)

assignment(S, lhs, nvars) ==
  LET s0 == IF Last(lhs).k \in {"VLOCAL", "VUPVAL", "VGLOBAL", "VINDEXED"} THEN S
            ELSE Throw(S, "syntax error")
      nv == primaryexp(luaX_next(s0))
      cf == IF nv.e.k = "VLOCAL" THEN check_conflict(nv, lhs, nv.e) ELSE [s |-> nv, lhs |-> lhs]
      lim == luaY_checklimit(cf.s, nvars, LUAI_MAXCCALLS - cf.s.level, "variables in assignment")
      rest == assignment(lim, Append(cf.lhs, nv.e), nvars + 1)
      e == explist1(checknext(s0, "="))
      adj == adjust_assign(e, nvars, e.r)
      cut == IF e.r > nvars THEN [adj EXCEPT !.fs.freereg = @ - (e.r - nvars)] ELSE adj
      var == rest.lhs[Len(lhs)]
  IN CASE T(s0) = "," -> [s |-> StoreTop(rest.s, var), lhs |-> rest.lhs]
       [] T(s0) # "," /\ e.r = nvars -> [s |-> luaK_storevar(luaK_setoneret(e), Last(lhs)), lhs |-> lhs]
       [] OTHER -> [s |-> StoreTop(cut, Last(lhs)), lhs |-> lhs]

\* r is the list of jumps taken when the condition is false.
cond(S) ==
  LET s == expr(S)
      g == luaK_goiftrue(IF s.e.k = "VNIL" THEN [s EXCEPT !.e.k = "VFALSE"] ELSE s)
  IN Ret(g, g.e.f)

breakstat(S) ==
  LET loops == {i \in DOMAIN S.fs.bl : S.fs.bl[i].isbreakable}
      at == Max(loops)
      upval == \E i \in at + 1 .. Len(S.fs.bl) : S.fs.bl[i].upval
      s1 == IF upval THEN luaK_codeABC(S, "CLOSE", S.fs.bl[at].nactvar, 0, 0) ELSE S
      s2 == luaK_jump(s1)
      s3 == luaK_concat(s2, s2.fs.bl[at].breaklist, s2.r)
  IN IF loops = {} THEN Throw(S, "no loop to break")
     ELSE [s3 EXCEPT !.fs.bl[at].breaklist = s3.r]

JumpBack(S, target) == LET s == luaK_jump(S) IN luaK_patchlist(s, s.r, target)

whilestat(S) ==
  LET init == luaK_getlabel(luaX_next(S))
      c == cond(init)
      s1 == block(checknext(enterblock(c, TRUE), "do"))
      s2 == leaveblock(check_match(JumpBack(s1, init.r), "end"))
  IN luaK_patchtohere(s2, c.r)

repeatstat(S) ==
  LET init == luaK_getlabel(S)
      s1 == chunk(luaX_next(enterblock(enterblock(init, TRUE), FALSE)))
      c == cond(check_match(s1, "until"))
      plain == luaK_patchlist(leaveblock(c), c.r, init.r)
      closing == JumpBack(leaveblock(luaK_patchtohere(breakstat(c), c.r)), init.r)
  IN leaveblock(IF Last(c.fs.bl).upval THEN closing ELSE plain)

exp1(S) == luaK_exp2nextreg(expr(S))

forbody(S, base, nvars, isnum) ==
  LET s1 == checknext(adjustlocalvars(S, 3), "do")
      prep == IF isnum THEN luaK_codeABx(s1, "FORPREP", base, NO_JUMP) ELSE luaK_jump(s1)
      s2 == luaK_reserveregs(adjustlocalvars(enterblock(prep, FALSE), nvars), nvars)
      s3 == luaK_patchtohere(leaveblock(block(s2)), prep.r)
      endfor == IF isnum THEN luaK_codeABx(s3, "FORLOOP", base, NO_JUMP)
                ELSE luaK_jump(luaK_codeABC(s3, "TFORLOOP", base, 0, nvars))
  IN luaK_patchlist(endfor, endfor.r, prep.r + 1)

fornum(S, varname) ==
  LET s1 == new_localvar(new_localvar(new_localvar(S, <<"(for index)">>, 0), <<"(for limit)">>, 1), <<"(for step)">>, 2)
      s2 == exp1(checknext(new_localvar(s1, varname, 3), "="))
      s3 == exp1(checknext(s2, ","))
      one == luaK_numberK(s3, 1)
      s4 == IF T(s3) = "," THEN exp1(luaX_next(s3))
            ELSE luaK_reserveregs(luaK_codeABx(one, "LOADK", one.fs.freereg, one.r), 1)
  IN forbody(s4, S.fs.freereg, 1, TRUE)

RECURSIVE names(_, _)
names(S, n) ==
  IF T(S) = "," THEN names(new_localvar(str_checkname(luaX_next(S)), NameOf(luaX_next(S)), n), n + 1)
  ELSE Ret(S, n)

forlist(S, indexname) ==
  LET s1 == new_localvar(new_localvar(new_localvar(S, <<"(for generator)">>, 0), <<"(for state)">>, 1), <<"(for control)">>, 2)
      s2 == names(new_localvar(s1, indexname, 3), 4)
      s3 == explist1(checknext(s2, "in"))
      s4 == luaK_checkstack(adjust_assign(s3, 3, s3.r), 3)
  IN forbody(s4, S.fs.freereg, s2.r - 3, FALSE)

forstat(S) ==
  LET s1 == luaX_next(enterblock(S, TRUE))
      s2 == str_checkname(s1)
      s3 == CASE T(s2) = "=" -> fornum(s2, NameOf(s1))
              [] T(s2) \in {",", "in"} -> forlist(s2, NameOf(s1))
              [] OTHER -> Throw(s2, "= or in expected")
  IN leaveblock(check_match(s3, "end"))

test_then_block(S) ==
  LET c == cond(luaX_next(S)) IN Ret(block(checknext(c, "then")), c.r)

RECURSIVE elseparts(_, _)
elseparts(S, escapelist) ==
  LET j == luaK_jump(S)
      esc == luaK_concat(j, escapelist, j.r)
      next == luaK_patchtohere(esc, S.r)
      last == luaK_concat(S, escapelist, S.r)
  IN CASE T(S) = "elseif" -> elseparts(test_then_block(next), esc.r)
       [] T(S) = "else" -> Ret(block(luaX_next(next)), esc.r)
       [] OTHER -> last

ifstat(S) ==
  LET s == elseparts(test_then_block(S), NO_JUMP)
  IN check_match(luaK_patchtohere(s, s.r), "end")

localfunc(S) ==
  LET s == new_localvar(str_checkname(S), NameOf(S), 0)
      v == init_exp("VLOCAL", s.fs.freereg)
      f == luaK_storevar(body(adjustlocalvars(luaK_reserveregs(s, 1), 1), FALSE), v)
  IN Mark(f, {f.fs.nactvar}, "startpc", pc(f))

localstat(S) ==
  LET s1 == names(new_localvar(str_checkname(S), NameOf(S), 0), 1)
      s2 == IF T(s1) = "=" THEN explist1(luaX_next(s1))
            ELSE Ret(On(s1, init_exp("VVOID", 0)), 0)
  IN adjustlocalvars(adjust_assign(s2, s1.r, s2.r), s1.r)

RECURSIVE dotted(_)
dotted(S) == IF T(S) = "." THEN dotted(field(S)) ELSE S

funcstat(S) ==
  LET s == dotted(singlevar(luaX_next(S)))
      name == IF T(s) = ":" THEN field(s) ELSE s
  IN luaK_storevar(body(name, T(s) = ":"), name.e)

exprstat(S) ==
  LET s == primaryexp(S)
  IN IF s.e.k = "VCALL" THEN [s EXCEPT !.fs.code[s.e.info + 1].c = 1]
     ELSE assignment(s, <<s.e>>, 1).s

retstat(S) ==
  LET s0 == luaX_next(S)
      s == explist1(s0)
      multi == luaK_setmultret(s, s.e)
      tail == lua_assert([multi EXCEPT !.fs.code[s.e.info + 1].o = "TAILCALL"],
                         At(multi, s.e.info).a = s.fs.nactvar, "retstat tail")
      any == luaK_exp2anyreg(s)
      next == luaK_exp2nextreg(s)
  IN CASE block_follow(T(s0)) \/ T(s0) = ";" -> luaK_ret(s0, 0, 0)
       [] s.e.k = "VCALL" /\ s.r = 1 -> luaK_ret(tail, s.fs.nactvar, LUA_MULTRET)
       [] hasmultret(s.e.k) /\ ~(s.e.k = "VCALL" /\ s.r = 1) ->
            luaK_ret(multi, s.fs.nactvar, LUA_MULTRET)
       [] ~hasmultret(s.e.k) /\ s.r = 1 -> luaK_ret(any, any.r, 1)
       [] OTHER -> luaK_ret(lua_assert(next, s.r = next.fs.freereg - s.fs.nactvar, "retstat"),
                            s.fs.nactvar, s.r)

\* statement(S).r = 1 after a statement that must be the last of its block.
statement(S) ==
  CASE T(S) = "if" -> Ret(ifstat(S), 0)
    [] T(S) = "while" -> Ret(whilestat(S), 0)
    [] T(S) = "do" -> Ret(check_match(block(luaX_next(S)), "end"), 0)
    [] T(S) = "for" -> Ret(forstat(S), 0)
    [] T(S) = "repeat" -> Ret(repeatstat(S), 0)
    [] T(S) = "function" -> Ret(funcstat(S), 0)
    [] T(S) = "local" -> Ret(IF T(luaX_next(S)) = "function" THEN localfunc(luaX_next(luaX_next(S)))
                             ELSE localstat(luaX_next(S)), 0)
    [] T(S) = "return" -> Ret(retstat(S), 1)
    [] T(S) = "break" -> Ret(breakstat(luaX_next(S)), 1)
    [] OTHER -> Ret(exprstat(S), 0)

RECURSIVE statements(_)
statements(S) ==
  LET s1 == statement(S)
      s2 == testnext(s1, ";")
      s3 == lua_assert(s2, s2.fs.maxstack >= s2.fs.freereg /\ s2.fs.freereg >= s2.fs.nactvar, "chunk")
      s4 == [s3 EXCEPT !.fs.freereg = s3.fs.nactvar]
  IN IF block_follow(T(S)) THEN S
     ELSE IF s1.r = 1 THEN s4 ELSE statements(s4)

chunk(S) == leavelevel(statements(enterlevel(S)))

\* The main function is always vararg.
luaY_parser(toks) ==
  LET fs == [NewFuncState EXCEPT !.vararg = {"ISVARARG"}]
      s == chunk([fs |-> fs, e |-> init_exp("VVOID", 0), r |-> 0, err |-> "", bad |-> "",
                  toks |-> toks, at |-> 1, prev |-> <<>>, level |-> 0])
  IN close_func(check(s, "eos"))
=============================================================================
