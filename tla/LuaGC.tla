-------------------------------- MODULE LuaGC --------------------------------
(***************************************************************************)
(* The incremental collector of lgc.c with the upvalues of lfunc.c and the *)
(* interned strings of lstring.c, interleaved with the program that        *)
(* allocates, stores and forgets objects.                                  *)
(*                                                                         *)
(* Objects have a kind k and a mark, and by kind                           *)
(*   table    h, a set of <<key, value>>, and mode, a subset of "k", "v"   *)
(*   closure  v, its upvalue                                               *)
(*   upval    own and at, the stack slot it is open on; own = 0 and the    *)
(*            value v when it is closed                                    *)
(*   udata    v, its metatable (which has __gc), fin (FINALIZEDBIT)        *)
(*   thread   st, its stack                                                *)
(*   string   all of the same contents, so that there is one at most       *)
(* 0 is nil.  The lists of objects are sets: their order is open.          *)
(***************************************************************************)
EXTENDS Naturals, Sequences, SequencesExt, FiniteSetsExt

CONSTANTS
  Plans,    \* the sequences of kinds that are allocated
  Slots,    \* the slots of the main stack, 1 .. n
  CoSlots   \* those of a coroutine's

VARIABLES
  g,        \* global_State: heap, gray, grayagain, weak, white, gcstate, sweep, tmudata
  plan,     \* the kinds still to be allocated
  full,     \* inside luaC_fullgc
  called    \* history: how often each finalizer was called

vars == <<g, plan, full, called>>

Main == 1
Free == [k |-> "free"]
Object(k) ==
  [k |-> k, mark |-> g.white, h |-> {}, mode |-> {}, v |-> 0, own |-> 0, at |-> 0, fin |-> FALSE,
   st |-> IF k = "thread" THEN [s \in CoSlots |-> 0] ELSE <<>>]

Init ==
  /\ g = [heap |-> <<[k |-> "thread", mark |-> "w0", h |-> {}, mode |-> {}, v |-> 0, own |-> 0, at |-> 0,
                      fin |-> FALSE, st |-> [s \in Slots |-> 0]]>>,
          gray |-> {}, grayagain |-> {}, weak |-> {}, white |-> "w0", gcstate |-> "pause", sweep |-> {}, tmudata |-> <<>>]
  /\ plan \in Plans /\ full = FALSE /\ called = <<>>

-----------------------------------------------------------------------------
(* Colours.                                                                *)

otherwhite(G) == IF G.white = "w0" THEN "w1" ELSE "w0"
iswhite(hp, o) == hp[o].mark \in {"w0", "w1"}
isdead(G, o) == G.heap[o].mark = otherwhite(G)
Objects(G) == {o \in DOMAIN G.heap : G.heap[o].k # "free"}
Value(hp, u) == IF hp[u].own # 0 THEN hp[hp[u].own].st[hp[u].at] ELSE hp[u].v
Open(G, th) == {u \in Objects(G) : G.heap[u].k = "upval" /\ G.heap[u].own = th}
Colour(G, S, c) == [G EXCEPT !.heap = [o \in DOMAIN @ |-> IF o \in S THEN [@[o] EXCEPT !.mark = c] ELSE @[o]]]
makewhite(G, S) == Colour(G, S, G.white)

\* What marking a white object marks at once: the metatable of a udata, the value of an upvalue.
Through(hp, o) ==
  (CASE hp[o].k = "udata" -> {hp[o].v} [] hp[o].k = "upval" -> {Value(hp, o)} [] OTHER -> {}) \ {0}
Spread(hp, S) == S \cup UNION {Through(hp, o) : o \in {x \in S : iswhite(hp, x)}}

\* markvalue and markobject of the members of S.
reallymarkobject(G, S) ==
  LET hp == G.heap
      T == {o \in Spread(hp, Spread(hp, Spread(hp, S \ {0}))) : iswhite(hp, o)}
      black == {o \in T : hp[o].k = "udata" \/ (hp[o].k = "upval" /\ hp[o].own = 0)}
  IN [Colour(Colour(G, T, "gray"), black, "black") EXCEPT
        !.gray = @ \cup {o \in T : hp[o].k \in {"table", "closure", "thread"}}]

-----------------------------------------------------------------------------
(* Traversal.                                                              *)

Keys(t) == {e[1] : e \in t.h}
Vals(t) == {e[2] : e \in t.h}
Strong(t) == (IF "k" \in t.mode THEN {} ELSE Keys(t)) \cup (IF "v" \in t.mode THEN {} ELSE Vals(t))

\* A weak table stays gray, to be cleared.
traversetable(G, o) ==
  LET t == G.heap[o]
  IN reallymarkobject(IF t.mode = {} THEN Colour(G, {o}, "black") ELSE [G EXCEPT !.weak = @ \cup {o}], Strong(t))

traverseclosure(G, o) == reallymarkobject(Colour(G, {o}, "black"), {G.heap[o].v})

\* Stacks change without barriers: a thread is traversed again at the end.
traversestack(G, o) ==
  reallymarkobject([G EXCEPT !.grayagain = @ \cup {o}], Range(G.heap[o].st))

propagatemark(G, o) ==
  LET taken == [G EXCEPT !.gray = @ \ {o}]
  IN CASE G.heap[o].k = "table" -> traversetable(taken, o)
       [] G.heap[o].k = "closure" -> traverseclosure(taken, o)
       [] G.heap[o].k = "thread" -> traversestack(taken, o)

propagateall(G) ==
  FoldLeft(LAMBDA x, i : IF x.gray = {} THEN x ELSE propagatemark(x, Min(x.gray)), G,
           [i \in 1 .. 2 * Len(G.heap) |-> i])

-----------------------------------------------------------------------------
(* The end of the mark phase.                                              *)

\* A gray open upvalue may belong to a thread that is dead: its value lives.
remarkupvals(G) ==
  reallymarkobject(G, {Value(G.heap, u) : u \in {x \in Objects(G) : G.heap[x].k = "upval" /\ G.heap[x].own # 0
                                                                   /\ G.heap[x].mark = "gray"}})

\* Unmarked udata that have not been finalized; those with __gc wait for it.
luaC_separateudata(G, all) ==
  LET dead == {o \in Objects(G) : G.heap[o].k = "udata" /\ ~G.heap[o].fin /\ (all \/ iswhite(G.heap, o))}
      due == {o \in dead : G.heap[o].v # 0}
  IN [G EXCEPT !.heap = [o \in DOMAIN @ |-> IF o \in dead THEN [@[o] EXCEPT !.fin = TRUE] ELSE @[o]],
               !.tmudata = @ \o Reverse(SetToSortSeq(due, <))]

marktmu(G) == reallymarkobject(makewhite(G, ToSet(G.tmudata)), ToSet(G.tmudata))

\* Mutant: a udata that awaits its finalizer stays as a value.
isclearedKept(G, o, iskey) == o # 0 /\ G.heap[o].k # "string" /\ iswhite(G.heap, o)

\* Strings are values; a udata being finalized is kept as a key only.
iscleared(G, o, iskey) ==
  /\ o # 0 /\ G.heap[o].k # "string"
  /\ iswhite(G.heap, o) \/ (G.heap[o].k = "udata" /\ ~iskey /\ G.heap[o].fin)

cleartable(G) ==
  LET kept(t) == {e \in G.heap[t].h : ~iscleared(G, e[1], TRUE) /\ ~iscleared(G, e[2], FALSE)}
      texts == {o \in UNION {{e[1], e[2]} : e \in UNION {kept(t) : t \in G.weak}} \ {0} : G.heap[o].k = "string"}
      cleared == [G EXCEPT !.heap = [o \in DOMAIN @ |-> IF o \in G.weak THEN [@[o] EXCEPT !.h = kept(o)] ELSE @[o]]]
  IN Colour(cleared, {o \in texts : iswhite(G.heap, o)}, "gray")

\* The objects of rootgc and of the string table: open upvalues and tmudata are elsewhere.
Linked(G) == {o \in Objects(G) : G.heap[o].own = 0 /\ o \notin ToSet(G.tmudata)}

atomicMark(G) ==
  LET g1 == propagateall(remarkupvals(G))
      g2 == propagateall(reallymarkobject([g1 EXCEPT !.gray = g1.weak, !.weak = {}], {Main}))
      g3 == propagateall([g2 EXCEPT !.gray = g2.grayagain, !.grayagain = {}])
  IN cleartable(propagateall(marktmu(luaC_separateudata(g3, FALSE))))

atomic(G) == [G EXCEPT !.white = otherwhite(G), !.gcstate = "sweepstring", !.sweep = Linked(G)]

-----------------------------------------------------------------------------
(* Upvalues and barriers.                                                  *)

FreeAll(G, S) == [G EXCEPT !.heap = [o \in DOMAIN @ |-> IF o \in S THEN Free ELSE @[o]], !.sweep = @ \ S]

\* A black object that is not a table was made to point to a white one.
luaC_barrierf(G, o, v) ==
  IF v # 0 /\ iswhite(G.heap, v) /\ G.heap[o].mark = "black"
  THEN IF G.gcstate = "propagate" THEN reallymarkobject(G, {v}) ELSE makewhite(G, {o})
  ELSE G

\* Mutant: the table stays black.
luaC_barrierbackNot(G, t, v) == G

luaC_barrierback(G, t, v) ==
  IF v # 0 /\ iswhite(G.heap, v) /\ G.heap[t].mark = "black"
  THEN [Colour(G, {t}, "gray") EXCEPT !.grayagain = @ \cup {t}] ELSE G

\* A closed upvalue joins rootgc; it is in front of the sweep.
luaC_linkupval(G, u) ==
  IF G.heap[u].mark # "gray" THEN G
  ELSE IF G.gcstate = "propagate" THEN luaC_barrierf(Colour(G, {u}, "black"), u, G.heap[u].v)
  ELSE makewhite(G, {u})

CloseUpval(G, u) ==
  luaC_linkupval([G EXCEPT !.heap[u] = [@ EXCEPT !.v = Value(G.heap, u), !.own = 0, !.at = 0]], u)

\* Mutant: every upvalue is freed, whether a closure still uses it or not.
luaF_closeFrees(G, th, level) == FreeAll(G, {u \in Open(G, th) : G.heap[u].at >= level})

\* Dead upvalues are freed, the others closed.
luaF_close(G, th, level) ==
  LET here == {u \in Open(G, th) : G.heap[u].at >= level}
      dead == {u \in here : isdead(G, u)}
  IN FoldLeft(CloseUpval, FreeAll(G, dead), SetToSeq(here \ dead))

\* The upvalue that is open on the slot comes back to life if it was found dead.
luaF_findupval(G, th, s) ==
  makewhite(G, {u \in Open(G, th) : G.heap[u].at = s /\ isdead(G, u)})

-----------------------------------------------------------------------------
(* The collector's steps.                                                  *)

markroot ==
  /\ g.gcstate = "pause" \/ (full = TRUE /\ g.gcstate = "finalize")
  /\ g' = reallymarkobject([g EXCEPT !.gray = {}, !.grayagain = {}, !.weak = {}, !.gcstate = "propagate"], {Main})
  /\ full' = (full /\ g.gcstate = "pause")
  /\ UNCHANGED <<plan, called>>

Propagate ==
  /\ g.gcstate = "propagate" /\ \E o \in g.gray : g' = propagatemark(g, o)
  /\ UNCHANGED <<plan, full, called>>

Atomic ==
  /\ g.gcstate = "propagate" /\ g.gray = {}
  /\ g' = atomic(atomicMark(g)) /\ UNCHANGED <<plan, full, called>>

\* The open upvalues of a thread are swept with it; a dead thread closes the others.
SweepUpvals(G, o) ==
  LET dead == {u \in Open(G, o) : isdead(G, u)}
  IN makewhite(FreeAll(G, dead), Open(G, o) \ dead)

sweepobj(G, o) ==
  LET swept == [G EXCEPT !.sweep = @ \ {o}]
  IN IF ~isdead(G, o) THEN makewhite(swept, {o})
     ELSE FreeAll(IF G.heap[o].k = "thread" THEN luaF_close(swept, o, 1) ELSE swept, {o})

sweeplist ==
  /\ g.gcstate \in {"sweepstring", "sweep"}
  /\ \E o \in g.sweep :
       /\ g.heap[o].k = "string" <=> g.gcstate = "sweepstring"
       /\ g' = sweepobj(IF g.heap[o].k = "thread" THEN SweepUpvals(g, o) ELSE g, o)
  /\ UNCHANGED <<plan, full, called>>

SweepEnds ==
  /\ \/ /\ g.gcstate = "sweepstring" /\ \A o \in g.sweep : g.heap[o].k # "string"
        /\ g' = [g EXCEPT !.gcstate = "sweep"]
     \/ g.gcstate = "sweep" /\ g.sweep = {} /\ g' = [g EXCEPT !.gcstate = "finalize"]
  /\ UNCHANGED <<plan, full, called>>

\* Calls the finalizer, which may leave the udata in slot s of the main stack.
GCTM(s) ==
  /\ g.gcstate = "finalize" /\ ~full /\ g.tmudata # <<>>
  /\ LET o == Head(g.tmudata)
         back == [makewhite(g, {o}) EXCEPT !.tmudata = Tail(@)]
     IN /\ g' = IF s = 0 THEN back ELSE [back EXCEPT !.heap[Main].st[s] = o]
        /\ called' = Append(called, o)
  /\ UNCHANGED <<plan, full>>

CycleEnds ==
  /\ g.gcstate = "finalize" /\ ~full /\ g.tmudata = <<>>
  /\ g' = [g EXCEPT !.gcstate = "pause"] /\ UNCHANGED <<plan, full, called>>

\* lua_gc(LUA_GCCOLLECT): a mark phase is given up, a sweep finished, and a cycle begun.
luaC_fullgc ==
  /\ ~full /\ full' = TRUE /\ UNCHANGED <<plan, called>>
  /\ g' = IF g.gcstate \in {"pause", "propagate"}
          THEN [g EXCEPT !.gray = {}, !.grayagain = {}, !.weak = {}, !.sweep = Linked(g), !.gcstate = "sweepstring"]
          ELSE g

-----------------------------------------------------------------------------
(* The program.                                                            *)

Refs(o) ==
  LET x == g.heap[o]
  IN CASE x.k = "table" -> Keys(x) \cup Vals(x) [] x.k = "thread" -> Range(x.st)
       [] x.k = "upval" -> {Value(g.heap, o)} [] x.k \in {"closure", "udata"} -> {x.v} [] OTHER -> {}
Reach ==
  FoldLeft(LAMBDA S, i : S \cup UNION {Refs(o) \ {0} : o \in S \cap Objects(g)}, {Main}, [i \in DOMAIN g.heap |-> i])
\* What the program can store: upvalues are not values, and nobody holds the main thread.
Values == {o \in Reach \ {Main} : g.heap[o].k # "upval"}
Of(kind) == {o \in Reach : g.heap[o].k = kind}

Program == ~full /\ UNCHANGED <<full, called>>
Store(G, s, o) == [G EXCEPT !.heap[Main].st[s] = o]
New(G, x) == [G EXCEPT !.heap = Append(@, x)]
NewId == Len(g.heap) + 1
Takes(kind) == plan # <<>> /\ Head(plan) = kind /\ plan' = Tail(plan)

NewTable(s, mode) ==
  /\ Program /\ Takes("table") /\ g' = Store(New(g, [Object("table") EXCEPT !.mode = mode]), s, NewId)
NewUdata(s, mt) ==
  /\ Program /\ Takes("udata") /\ g' = Store(New(g, [Object("udata") EXCEPT !.v = mt]), s, NewId)
NewThread(s) == Program /\ Takes("thread") /\ g' = Store(New(g, Object("thread")), s, NewId)

\* luaS_newlstr: a string of the same contents is used again, dead or not.
luaS_newlstr(G, o) == IF isdead(G, o) THEN makewhite(G, {o}) ELSE G

NewString(s) ==
  LET old == {o \in Objects(g) : g.heap[o].k = "string"}
  IN /\ Program /\ Takes("string")
     /\ IF old = {} THEN g' = Store(New(g, Object("string")), s, NewId)
        ELSE \E o \in old : g' = Store(luaS_newlstr(g, o), s, o)

\* OP_CLOSURE over slot at of thread th: a shared upvalue or a new one.
NewClosure(s, th, at) ==
  LET found == {u \in Open(g, th) : g.heap[u].at = at}
      up == [Object("upval") EXCEPT !.own = th, !.at = at]
  IN /\ Program /\ Takes("closure")
     /\ IF found = {}
        THEN g' = Store(New(New(g, up), [Object("closure") EXCEPT !.v = NewId]), s, NewId + 1)
        ELSE \E u \in found :
               g' = Store(New(luaF_findupval(g, th, at), [Object("closure") EXCEPT !.v = u]), s, NewId)

SetStack(th, s, o) ==
  /\ Program /\ g.heap[th].st[s] # o /\ g' = [g EXCEPT !.heap[th].st[s] = o] /\ UNCHANGED plan

\* luaH_set and OP_SETTABLE: barriers for the key and for the value.
SetTable(t, key, val) ==
  /\ Program /\ g.heap[t].h # {<<key, val>>} /\ UNCHANGED plan
  /\ g' = [luaC_barrierback(luaC_barrierback(g, t, key), t, val) EXCEPT !.heap[t].h = {<<key, val>>}]

\* OP_SETUPVAL.
SetUpval(c, o) ==
  LET u == g.heap[c].v
  IN /\ Program /\ UNCHANGED plan
     /\ g' = IF g.heap[u].own # 0 THEN [g EXCEPT !.heap[g.heap[u].own].st[g.heap[u].at] = o]
             ELSE luaC_barrierf([g EXCEPT !.heap[u].v = o], u, o)

\* lua_setmetatable.
SetMetatable(u, t) ==
  /\ Program /\ UNCHANGED plan /\ g' = luaC_barrierf([g EXCEPT !.heap[u].v = t], u, t)

Close(th, level) ==
  /\ Program /\ UNCHANGED plan /\ Open(g, th) # {} /\ g' = luaF_close(g, th, level)

Collector == markroot \/ Propagate \/ Atomic \/ sweeplist \/ SweepEnds \/ (\E s \in Slots \cup {0} : GCTM(s)) \/ CycleEnds

Allocate ==
  \/ \E s \in Slots, mode \in SUBSET {"k", "v"} : NewTable(s, mode)
  \/ \E s \in Slots, mt \in Of("table") : NewUdata(s, mt)
  \/ \E s \in Slots : NewThread(s) \/ NewString(s)
  \/ \E s \in Slots, th \in Of("thread") : \E at \in DOMAIN g.heap[th].st : NewClosure(s, th, at)

Mutate ==
  \/ \E th \in Of("thread"), o \in Values \cup {0} : \E s \in DOMAIN g.heap[th].st : SetStack(th, s, o)
  \/ \E t \in Of("table"), key \in Values \cup {0}, val \in Values : SetTable(t, key, val)
  \/ \E c \in Of("closure"), o \in Values : SetUpval(c, o)
  \/ \E u \in Of("udata"), t \in Of("table") : SetMetatable(u, t)
  \/ \E th \in Of("thread") : \E level \in DOMAIN g.heap[th].st : Close(th, level)

Next == Collector \/ luaC_fullgc \/ Allocate \/ Mutate

Spec == Init /\ [][Next]_vars

-----------------------------------------------------------------------------
(* Properties.                                                             *)

\* Whatever the program can reach has not been freed, nor has what an open
\* upvalue of a thread or a weak table refers to.
NothingReachableFreed == Reach \subseteq Objects(g)

(***************************************************************************)
(* The invariant of the marks: while marking, no black object points to a  *)
(* white one, except udata that await their finalizer since the last cycle,*)
(* which marktmu marks again.                                              *)
(***************************************************************************)
BlackNeverToWhite ==
  g.gcstate = "propagate" =>
    \A o \in Objects(g) \ ToSet(g.tmudata) : g.heap[o].mark = "black" =>
      \A r \in (IF g.heap[o].k = "table" THEN Strong(g.heap[o]) ELSE Refs(o)) \ {0} : ~iswhite(g.heap, r)

\* During the sweep what can be reached is not dead: the dead are garbage.
OnlyGarbageDies == g.gcstate \in {"sweepstring", "sweep"} => \A o \in Reach : ~isdead(g, o)

\* No udata is finalized twice, although a finalizer may bring it back to life.
FinalizedOnce == \A i, j \in DOMAIN called : called[i] = called[j] => i = j

(***************************************************************************)
(* Collecting is safe at every step of the cycle, whatever the program     *)
(* does between them: what it reaches is neither freed nor about to be,    *)
(* and what it reaches no more is finalized once.                          *)
(***************************************************************************)
CollectionIsSafe == NothingReachableFreed /\ OnlyGarbageDies /\ FinalizedOnce

(***************************************************************************)
(* The atomic step leaves no udata that awaits its finalizer as a value of *)
(* a weak table that lives: a cache never hands out a finalized object.    *)
(* As a key it stays, so that its finalizer can still look itself up.      *)
(***************************************************************************)
CachesForgetFinalized ==
  [][Atomic => \A o \in Objects(g) : g.heap[o].k = "table" /\ "v" \in g.heap[o].mode /\ ~isdead(g', o) =>
                 {e[2] : e \in g'.heap[o].h} \cap ToSet(g'.tmudata) = {}]_vars
=============================================================================
