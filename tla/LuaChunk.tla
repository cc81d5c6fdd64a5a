------------------------------ MODULE LuaChunk ------------------------------
(***************************************************************************)
(* Precompiled chunks: ldump.c writes a function, block by block, with a   *)
(* writer that may fail, and lundump.c reads it back through the buffered  *)
(* stream of lzio.c, whose reader hands out pieces of any length.  A unit  *)
(* stands for an int, a size, a number, an instruction or a character; the *)
(* header is one unit.  luaG_checkcode is LuaCheck's, here a parameter.    *)
(***************************************************************************)
EXTENDS Integers, Sequences, SequencesExt, FiniteSetsExt

CONSTANTS
  Protos,         \* the functions that are dumped
  checkcode(_),       \* luaG_checkcode on the instructions of a function
  Damage,             \* what may become of an instruction on its way
  LUAI_MAXCCALLS,
  Blocks(_, _),       \* DumpFunction for a main function
  Parsed(_)           \* f_parser

VARIABLES
  f,         \* the function
  strip,     \* without its debug information
  left,      \* history: the blocks luaU_dump has still to write
  status,    \* what the writer answered last
  file,      \* what was written
  z,         \* the pieces the reader will hand out
  S          \* the state of luaU_undump

vars == <<f, strip, left, status, file, z, S>>

\* Every unit is a number; characters are above 0.
EOZ == -1
NULL == <<0>>
luaU_header == 1000
Unknown == <<61, 63>>
LUA_TNIL == 0
LUA_TBOOLEAN == 1
LUA_TNUMBER == 3
LUA_TSTRING == 4

-----------------------------------------------------------------------------
(* ldump.c: the blocks given to the writer.                                *)

DumpInt(n) == <<<<n>>>>
DumpVector(v) == <<<<Len(v)>>, v>>
DumpString(s) == IF s = NULL THEN DumpInt(0) ELSE <<<<Len(s) + 1>>, Append(s, 0)>>

DumpConstant(o) ==
  <<<<o.t>>>> \o CASE o.t = LUA_TNIL -> <<>>
                   [] o.t \in {LUA_TBOOLEAN, LUA_TNUMBER} -> DumpInt(o.v)
                   [] o.t = LUA_TSTRING -> DumpString(o.v)

DumpLocvar(v) == DumpString(v.varname) \o DumpInt(v.startpc) \o DumpInt(v.endpc)
DumpList(v, Op(_)) == DumpInt(Len(v)) \o FlattenSeq([i \in DOMAIN v |-> Op(v[i])])

DumpDebug(g, stripped) ==
  LET kept(v) == IF stripped THEN <<>> ELSE v
  IN DumpVector(kept(g.lineinfo)) \o DumpList(kept(g.locvars), DumpLocvar) \o DumpList(kept(g.upvalues), DumpString)

RECURSIVE DumpFunction(_, _, _)
DumpFunction(g, p, stripped) ==
  LET inner(h) == DumpFunction(h, g.source, stripped)
  IN DumpString(IF g.source = p \/ stripped THEN NULL ELSE g.source)
     \o DumpInt(g.linedefined) \o DumpInt(g.nups) \o DumpInt(g.numparams) \o DumpInt(g.maxstacksize)
     \o DumpVector(g.code)
     \o DumpList(g.k, DumpConstant) \o DumpList(g.p, inner)
     \o DumpDebug(g, stripped)

Init ==
  /\ f \in Protos /\ strip \in BOOLEAN
  /\ left = <<<<luaU_header>>>> \o Blocks(f, strip)
  /\ status = 0 /\ file = <<>> /\ z = <<>> /\ S = [v |-> NULL, err |-> "no chunk", nCcalls |-> 0]

\* The writer is no longer called once it has failed.
DumpBlock ==
  /\ left # <<>> /\ left' = Tail(left) /\ UNCHANGED <<f, strip, z, S>>
  /\ \/ status = 0 /\ status' = 0 /\ file' = file \o Head(left)
     \/ status = 0 /\ status' = 1 /\ UNCHANGED file
     \/ status = 1 /\ UNCHANGED <<status, file>>

-----------------------------------------------------------------------------
(* lzio.c.  The first piece is the one being read.                         *)

luaZ_lookahead(y) == IF y = <<>> \/ Head(y) = <<>> THEN EOZ ELSE Head(Head(y))

\* What is read, what is left and how many units were missing.
RECURSIVE luaZ_read(_, _)
luaZ_read(y, n) ==
  IF n = 0 \/ luaZ_lookahead(y) = EOZ THEN [z |-> y, got |-> <<>>, missing |-> n]
  ELSE LET m == Min({n, Len(Head(y))})
           then == IF m = Len(Head(y)) THEN Tail(y) ELSE <<SubSeq(Head(y), m + 1, Len(Head(y)))>> \o Tail(y)
           rest == luaZ_read(then, n - m)
       IN [rest EXCEPT !.got = SubSeq(Head(y), 1, m) \o @]

-----------------------------------------------------------------------------
(* lundump.c.  s is the load state, its v what was read last; after an     *)
(* error nothing more happens.                                             *)

error(s, why) == IF s.err = "" THEN [s EXCEPT !.err = why, !.v = NULL] ELSE s
Value(s, v) == IF s.err = "" THEN [s EXCEPT !.v = v] ELSE s

\* Mutant: what is missing goes unnoticed.
LoadBlockShort(s, n) ==
  LET r == luaZ_read(s.z, n)
  IN IF s.err # "" THEN s
     ELSE [s EXCEPT !.z = r.z, !.v = r.got \o [i \in 1 .. r.missing |-> 0]]

LoadBlock(s, n) ==
  LET r == luaZ_read(s.z, n)
  IN IF s.err # "" THEN s
     ELSE IF r.missing > 0 THEN error(s, "unexpected end")
     ELSE [s EXCEPT !.z = r.z, !.v = r.got]

LoadInt(s) == LET t == LoadBlock(s, 1) IN IF t.err # "" THEN t ELSE Value(t, t.v[1])
LoadVector(s) == LET t == LoadInt(s) IN IF t.err # "" THEN t ELSE LoadBlock(t, t.v)

LoadString(s) ==
  LET t == LoadInt(s)
      u == LoadBlock(t, t.v)
  IN IF t.err # "" THEN t ELSE IF t.v = 0 THEN Value(t, NULL) ELSE Value(u, Front(u.v))

\* A count, and that many items read by Op.
LoadList(s, Op(_)) ==
  LET t == LoadInt(s)
      item(acc, i) == LET u == Op(acc.s) IN [s |-> u, got |-> Append(acc.got, u.v)]
      all == FoldLeft(item, [s |-> t, got |-> <<>>], [i \in 1 .. t.v |-> i])
  IN IF t.err # "" THEN t ELSE Value(all.s, all.got)

LoadConstant(s) ==
  LET t == LoadInt(s)
      const(u) == Value(u, [t |-> t.v, v |-> u.v])
  IN CASE t.err # "" -> t
       [] t.v = LUA_TNIL -> const(Value(t, 0))
       [] t.v \in {LUA_TBOOLEAN, LUA_TNUMBER} -> const(LoadInt(t))
       [] t.v = LUA_TSTRING -> const(LoadString(t))
       [] OTHER -> error(t, "bad constant")

LoadLocvar(s) ==
  LET a == LoadString(s)
      b == LoadInt(a)
      c == LoadInt(b)
  IN Value(c, [varname |-> a.v, startpc |-> b.v, endpc |-> c.v])

Checked(s, g) == checkcode(g.code)

Source(own, p) == IF own = NULL THEN p ELSE own

RECURSIVE LoadFunction(_, _)
LoadFunction(s0, p) ==
  LET s == [s0 EXCEPT !.nCcalls = @ + 1]
      source == LoadString(s)
      src == Source(source.v, p)
      inner(t) == LoadFunction(t, src)
      linedefined == LoadInt(source)
      nups == LoadInt(linedefined)
      numparams == LoadInt(nups)
      maxstacksize == LoadInt(numparams)
      code == LoadVector(maxstacksize)
      k == LoadList(code, LoadConstant)
      fs == LoadList(k, inner)
      lineinfo == LoadVector(fs)
      locvars == LoadList(lineinfo, LoadLocvar)
      upvalues == LoadList(locvars, LoadString)
      g == [source |-> src, linedefined |-> linedefined.v, nups |-> nups.v, numparams |-> numparams.v,
            maxstacksize |-> maxstacksize.v, code |-> code.v, k |-> k.v, p |-> fs.v,
            lineinfo |-> lineinfo.v, locvars |-> locvars.v, upvalues |-> upvalues.v]
  IN IF s.nCcalls > LUAI_MAXCCALLS THEN error(s, "code too deep")
     ELSE IF upvalues.err # "" THEN upvalues
     ELSE IF ~Checked(s, g) THEN error(upvalues, "bad code")
     ELSE [upvalues EXCEPT !.v = g, !.nCcalls = @ - 1]

luaU_undump(s) ==
  LET t == LoadBlock(s, 1)
  IN IF t.err = "" /\ t.v # <<luaU_header>> THEN error(t, "bad header")
     ELSE IF t.err # "" THEN t ELSE LoadFunction(t, Unknown)

\* A chunk that does not begin with the signature is source text.
f_parser(y) ==
  LET s == [z |-> y, v |-> NULL, err |-> "", nCcalls |-> 0]
  IN IF luaZ_lookahead(y) # luaU_header THEN error(s, "source text") ELSE luaU_undump(s)

-----------------------------------------------------------------------------
(* The reader hands out the file in up to three pieces; it may break off   *)
(* early and an instruction may have been damaged on the way.              *)

Pieces(w) ==
  UNION {{<<SubSeq(w, 1, a), SubSeq(w, a + 1, b), SubSeq(w, b + 1, Len(w))>> : a \in 1 .. b} :
           b \in {c \in 1 .. Len(w) : c % 8 = 0}}

Instructions == UNION {Range(g.code) : g \in Protos}

Deliver ==
  /\ left = <<>> /\ z = <<>> /\ file # <<>> /\ UNCHANGED <<f, strip, left, status, file, S>>
  /\ \/ z' \in Pieces(file)
     \/ \E n \in 0 .. Len(file) - 1 : status = 0 /\ z' = <<SubSeq(file, 1, n)>>
     \/ \E i \in DOMAIN file, d \in Damage : file[i] \in Instructions /\ z' = <<[file EXCEPT ![i] = d]>>

Load ==
  /\ z # <<>> /\ S.err = "no chunk"
  /\ LET s == Parsed(z) IN S' = [v |-> s.v, err |-> s.err, nCcalls |-> s.nCcalls]
  /\ UNCHANGED <<f, strip, left, status, file, z>>

Next == DumpBlock \/ Deliver \/ Load

Spec == Init /\ [][Next]_vars

-----------------------------------------------------------------------------
(* Properties.                                                             *)

\* What remains of a function without its debug information.
RECURSIVE Stripped(_)
Stripped(g) ==
  [g EXCEPT !.source = Unknown, !.lineinfo = <<>>, !.locvars = <<>>, !.upvalues = <<>>,
            !.p = [i \in DOMAIN @ |-> Stripped(@[i])]]

RECURSIVE Depth(_)
Depth(g) == 1 + Max({0} \cup {Depth(g.p[i]) : i \in DOMAIN g.p})

RECURSIVE AllChecked(_)
AllChecked(g) == checkcode(g.code) /\ \A i \in DOMAIN g.p : AllChecked(g.p[i])

Loaded == S.err # "no chunk"
\* The reader's stream, which an empty piece ends.
Stream == FlattenSeq(SubSeq(z, 1, Max({n \in 0 .. Len(z) : \A i \in 1 .. n : z[i] # <<>>})))

\* A dump that luaU_dump reports as written loads, whatever pieces the reader
\* makes of it, as the function it was made from; a stripped one lacks its
\* debug information and nothing else.  The levels LoadFunction counts are
\* given back.
RoundTrip ==
  Loaded /\ Stream = file /\ status = 0 =>
    IF Depth(f) > LUAI_MAXCCALLS THEN S.err = "code too deep"
    ELSE S.err = "" /\ S.nCcalls = 0 /\ S.v = IF strip THEN Stripped(f) ELSE f

\* A chunk that breaks off, in the reader or because the writer failed, is
\* never taken for a function.
TruncationNoticed ==
  Loaded /\ (Len(Stream) < Len(file) \/ status # 0) => S.err # ""

\* Every function that comes out of luaU_undump, the inner ones too, has
\* passed the code checker.
OnlyCheckedCode == Loaded /\ S.err = "" => AllChecked(S.v)

=============================================================================
