--------------------------- MODULE LuaCallProofs ---------------------------
(***************************************************************************)
(* Proofs about LuaCall, for every set of coroutines and every limit.      *)
(*                                                                         *)
(* That the counts agree with the C stack follows from its shape: the      *)
(* activations of a thread lie together, the first of a coroutine is the   *)
(* one that resumed it, and a thread that waits for a coroutine has ok as  *)
(* its status (Blocks, Counts).  The frames need to know how the levels    *)
(* of the activations grow, and that a thread that waits has the frame of  *)
(* coroutine.resume above all that is saved for it (Frames).  Limit is the *)
(* depth that luaD_call and lua_resume let the C stack reach.              *)
(***************************************************************************)
EXTENDS LuaCall, SequenceTheorems, WellFoundedInduction, TLAPS

ThreadType ==
  [status : {"ok", "yield", "err"}, ci : Nat, size_ci : Nat, nCcalls : Nat, baseCcalls : Nat,
   errfunc : BOOLEAN, fn : BOOLEAN]
Kinds == {"call", "pcall", "handler", "resume", "wrap"}
EntryType ==
  [kind : Kinds, L : Threads, C : BOOLEAN, level : Nat,
   nCcalls : Nat, ci : Nat, errfunc : BOOLEAN]
Raises == {"none", "runerror", "throw"}
StateType ==
  [th : [Threads -> ThreadType], cs : Seq(EntryType), raise : Raises,
   exited : BOOLEAN, panic : SUBSET {"protected", "unprotected"}]

IsResume(e) == e.kind \in {"resume", "wrap"}

\* The shape of a C stack q.
Blocks(q) ==
  /\ \A i \in DOMAIN q : IsResume(q[i]) => /\ i > 1 /\ q[i].L # Main /\ ~q[i].errfunc
                                           /\ \A j \in DOMAIN q : j < i => q[j].L # q[i].L
  /\ \A i \in DOMAIN q : ~IsResume(q[i]) => \/ i = 1 /\ q[i].L = Main
                                            \/ i > 1 /\ q[i - 1].L = q[i].L
  /\ \A i, j, k \in DOMAIN q : i <= k /\ k <= j /\ q[i].L = q[j].L => q[k].L = q[i].L
  /\ \A i \in DOMAIN q : q[i].kind = "pcall" => q[i].nCcalls = i - 1 /\ (i = 1 \/ q[i].C)
  /\ \A i, j \in DOMAIN q : j = i + 1 /\ q[i].L = q[j].L /\ q[i].kind # "pcall" => (q[j].errfunc <=> q[i].errfunc)

\* i is the innermost activation of its thread.
Ends(q, i) == \A j \in DOMAIN q : j = i + 1 => q[j].L # q[i].L

\* The threads th count it.
Counts(q, th) ==
  /\ \A i \in DOMAIN q : th[q[i].L].status = "ok"
  /\ \A i \in DOMAIN q : Ends(q, i) => th[q[i].L].nCcalls = i
  /\ \A i \in DOMAIN q : q[i].L # Main => LET b == th[q[i].L].baseCcalls
                                          IN b \in 1 .. i /\ IsResume(q[b]) /\ q[b].L = q[i].L
  /\ \A i \in DOMAIN q : Ends(q, i) /\ q[i].kind # "pcall" => (th[q[i].L].errfunc <=> q[i].errfunc)
  /\ th[Main].baseCcalls = 0 /\ th[Main].status = "ok"
  /\ q = <<>> => th[Main].nCcalls = 0
  /\ \A L \in Coroutines : th[L].status # "err" /\ (\A i \in DOMAIN q : q[i].L # L) => ~th[L].errfunc

\* Frames and levels.
Roomy(t) == t.ci < t.size_ci /\ t.size_ci <= 2 * LUAI_MAXCALLS
Frames(q, th, raise) ==
  /\ \A L \in Threads : Roomy(th[L]) /\ (th[L].status = "yield" => th[L].ci >= 2)
  /\ \A i \in DOMAIN q : q[i].level <= th[q[i].L].ci /\ q[i].ci <= th[q[i].L].ci
  /\ \A i \in DOMAIN q : q[i].L # q[Len(q)].L => q[i].level < th[q[i].L].ci /\ q[i].ci < th[q[i].L].ci
  /\ \A i, j \in DOMAIN q : i < j /\ q[i].L = q[j].L /\ q[j].level > 0 => q[i].level < q[j].level /\ q[i].ci < q[j].level
  /\ \A i, j \in DOMAIN q : i < j /\ q[i].L = q[j].L /\ q[j].kind = "pcall" => q[i].level < q[j].ci /\ q[i].ci < q[j].ci
  /\ \A j \in DOMAIN q : q[j].kind = "pcall" => (q[j].C => q[j].ci > 0) /\ (q[j].level > 0 => q[j].level = q[j].ci + 1)
  /\ \A j \in DOMAIN q : q[j].kind # "pcall" => q[j].ci = 0
  /\ \A i, j \in DOMAIN q : j = i + 1 /\ q[j].kind # "handler" => q[i].level > 0
  /\ raise = "none" /\ q # <<>> => q[Len(q)].level > 0

Limit(q, raise) ==
  /\ Len(q) <= LUAI_MAXCCALLS + (LUAI_MAXCCALLS \div 8) + 1
  /\ raise # "throw" => Len(q) <= LUAI_MAXCCALLS + (LUAI_MAXCCALLS \div 8)

Good(S) == S \in StateType /\ Blocks(S.cs) /\ Counts(S.cs, S.th) /\ Frames(S.cs, S.th, S.raise) /\ Limit(S.cs, S.raise)
IInv == Good(s)

-----------------------------------------------------------------------------
(* Pushing on the C stack and cutting it.                                  *)

IsPush(p, q, e) ==
  /\ Len(p) = Len(q) + 1 /\ DOMAIN p = 1 .. Len(q) + 1 /\ DOMAIN q = 1 .. Len(q) /\ Len(q) \in Nat
  /\ p[Len(q) + 1] = e /\ \A i \in 1 .. Len(q) : p[i] = q[i]
IsCut(p, q, n) ==
  /\ Len(p) = n /\ DOMAIN p = 1 .. n /\ DOMAIN q = 1 .. Len(q) /\ Len(q) \in Nat /\ n \in 0 .. Len(q)
  /\ \A i \in 1 .. n : p[i] = q[i]

\* Append pushes.
LEMMA AppendPushes ==
  ASSUME NEW T, NEW q \in Seq(T), NEW e \in T
  PROVE  Append(q, e) \in Seq(T) /\ IsPush(Append(q, e), q, e)
BY DEF IsPush

PutAt(q, i, d) == [q EXCEPT ![i] = d]

\* The last element is replaced.
LEMMA ReplaceLast ==
  ASSUME NEW T, NEW q \in Seq(T), NEW e \in T, NEW d \in T
  PROVE  PutAt(Append(q, e), Len(q) + 1, d) = Append(q, d)
<1> DEFINE p == [Append(q, e) EXCEPT ![Len(q) + 1] = d]
<1>1. Append(q, e) \in Seq(T) /\ IsPush(Append(q, e), q, e) BY AppendPushes
<1>2. Append(q, d) \in Seq(T) /\ IsPush(Append(q, d), q, d) BY AppendPushes
<1>3. p \in Seq(T) /\ Len(p) = Len(q) + 1 BY <1>1 DEF IsPush
<1>4. \A i \in 1 .. Len(p) : p[i] = Append(q, d)[i]
  <2> SUFFICES ASSUME NEW i \in 1 .. Len(q) + 1 PROVE p[i] = Append(q, d)[i] BY <1>3
  <2>1. CASE i = Len(q) + 1 BY <1>1, <1>2, <2>1 DEF IsPush
  <2>2. CASE i \in 1 .. Len(q) BY <1>1, <1>2, <2>2 DEF IsPush
  <2> QED BY <2>1, <2>2, <1>1 DEF IsPush
<1>5. Len(Append(q, d)) = Len(q) + 1 OBVIOUS
<1> HIDE DEF p
<1>6. p = Append(q, d) BY <1>2, <1>3, <1>4, <1>5, SeqEqual
<1> QED BY <1>6 DEF p, PutAt

\* SubSeq cuts.
LEMMA SubSeqCuts ==
  ASSUME NEW T, NEW q \in Seq(T), NEW n \in 0 .. Len(q)
  PROVE  SubSeq(q, 1, n) \in Seq(T) /\ IsCut(SubSeq(q, 1, n), q, n)
<1>1. SubSeq(q, 1, n) \in Seq(T) BY \A i \in 1 .. n : q[i] \in T
<1>2. Len(SubSeq(q, 1, n)) = n OBVIOUS
<1>3. \A i \in 1 .. n : SubSeq(q, 1, n)[i] = q[i] OBVIOUS
<1> QED BY <1>1, <1>2, <1>3 DEF IsCut

\* What may be pushed: a call by the running thread, or a coroutine that has no activation.
MayCall(q, e) ==
  /\ ~IsResume(e)
  /\ \/ Len(q) = 0 /\ e.L = Main
     \/ Len(q) > 0 /\ e.L = q[Len(q)].L /\ (q[Len(q)].kind # "pcall" => (e.errfunc <=> q[Len(q)].errfunc))
  /\ e.kind = "pcall" => e.nCcalls = Len(q) /\ (Len(q) = 0 \/ e.C)
MayResume(q, e) ==
  IsResume(e) /\ Len(q) > 0 /\ e.L # Main /\ ~e.errfunc /\ \A j \in DOMAIN q : q[j].L # e.L

\* The shape is kept by a call.
LEMMA BlocksCall ==
  ASSUME NEW q, NEW p, NEW e, IsPush(p, q, e), Blocks(q), MayCall(q, e)
  PROVE  Blocks(p)
<1> USE DEF IsPush
<1>1. \A i \in DOMAIN p : IsResume(p[i]) => /\ i > 1 /\ p[i].L # Main /\ ~p[i].errfunc
                                            /\ \A j \in DOMAIN p : j < i => p[j].L # p[i].L
  BY DEF Blocks, MayCall
<1>2. \A i \in DOMAIN p : ~IsResume(p[i]) => \/ i = 1 /\ p[i].L = Main
                                             \/ i > 1 /\ p[i - 1].L = p[i].L
  BY DEF Blocks, MayCall
<1>3. \A i, j, k \in DOMAIN p : i <= k /\ k <= j /\ p[i].L = p[j].L => p[k].L = p[i].L
  <2> SUFFICES ASSUME NEW i \in DOMAIN p, NEW j \in DOMAIN p, NEW k \in DOMAIN p,
                      i <= k, k <= j, p[i].L = p[j].L
               PROVE  p[k].L = p[i].L
    OBVIOUS
  <2>1. CASE j <= Len(q) BY <2>1 DEF Blocks
  <2>2. CASE j = Len(q) + 1 /\ k = j BY <2>2
  <2>3. CASE j = Len(q) + 1 /\ k <= Len(q)
    <3>1. Len(q) > 0 /\ e.L = q[Len(q)].L BY <2>3 DEF MayCall
    <3>2. p[i].L = q[i].L /\ q[i].L = q[Len(q)].L BY <2>3, <3>1
    <3> QED BY <2>3, <3>1, <3>2 DEF Blocks
  <2> QED BY <2>1, <2>2, <2>3
<1>4. \A i \in DOMAIN p : p[i].kind = "pcall" => p[i].nCcalls = i - 1 /\ (i = 1 \/ p[i].C)
  BY DEF Blocks, MayCall
<1>5. \A i, j \in DOMAIN p : j = i + 1 /\ p[i].L = p[j].L /\ p[i].kind # "pcall" => (p[j].errfunc <=> p[i].errfunc)
  BY DEF Blocks, MayCall
<1> QED BY <1>1, <1>2, <1>3, <1>4, <1>5 DEF Blocks

\* The shape is kept by a resumption.
LEMMA BlocksResume ==
  ASSUME NEW q, NEW p, NEW e, IsPush(p, q, e), Blocks(q), MayResume(q, e)
  PROVE  Blocks(p)
<1> USE DEF IsPush
<1>1. \A i \in DOMAIN p : IsResume(p[i]) => /\ i > 1 /\ p[i].L # Main /\ ~p[i].errfunc
                                            /\ \A j \in DOMAIN p : j < i => p[j].L # p[i].L
  BY DEF Blocks, MayResume
<1>2. \A i \in DOMAIN p : ~IsResume(p[i]) => \/ i = 1 /\ p[i].L = Main
                                             \/ i > 1 /\ p[i - 1].L = p[i].L
  BY DEF Blocks, MayResume
<1>3. \A i, j, k \in DOMAIN p : i <= k /\ k <= j /\ p[i].L = p[j].L => p[k].L = p[i].L
  BY DEF Blocks, MayResume
<1>4. \A i \in DOMAIN p : p[i].kind = "pcall" => p[i].nCcalls = i - 1 /\ (i = 1 \/ p[i].C)
  BY DEF Blocks, MayResume, IsResume
<1>5. \A i, j \in DOMAIN p : j = i + 1 /\ p[i].L = p[j].L /\ p[i].kind # "pcall" => (p[j].errfunc <=> p[i].errfunc)
  BY DEF Blocks, MayResume
<1> QED BY <1>1, <1>2, <1>3, <1>4, <1>5 DEF Blocks

\* The shape is kept by cutting.
LEMMA BlocksCut ==
  ASSUME NEW q, NEW p, NEW n, IsCut(p, q, n), Blocks(q)
  PROVE  Blocks(p)
<1> USE DEF IsCut
<1>1. \A i \in DOMAIN p : IsResume(p[i]) => /\ i > 1 /\ p[i].L # Main /\ ~p[i].errfunc
                                            /\ \A j \in DOMAIN p : j < i => p[j].L # p[i].L
  BY DEF Blocks
<1>2. \A i \in DOMAIN p : ~IsResume(p[i]) => \/ i = 1 /\ p[i].L = Main
                                             \/ i > 1 /\ p[i - 1].L = p[i].L
  BY DEF Blocks
<1>3. \A i, j, k \in DOMAIN p : i <= k /\ k <= j /\ p[i].L = p[j].L => p[k].L = p[i].L
  BY DEF Blocks
<1>4. \A i \in DOMAIN p : p[i].kind = "pcall" => p[i].nCcalls = i - 1 /\ (i = 1 \/ p[i].C)
  BY DEF Blocks
<1>5. \A i, j \in DOMAIN p : j = i + 1 /\ p[i].L = p[j].L /\ p[i].kind # "pcall" => (p[j].errfunc <=> p[i].errfunc)
  BY DEF Blocks
<1> QED BY <1>1, <1>2, <1>3, <1>4, <1>5 DEF Blocks

-----------------------------------------------------------------------------
(* The counts.                                                             *)

\* What the counts depend on is the same in both threads.
SameBook(t, u) ==
  /\ t.status = u.status /\ t.nCcalls = u.nCcalls /\ t.baseCcalls = u.baseCcalls
  /\ t.errfunc <=> u.errfunc

Stacked(q) == \A i \in DOMAIN q : q[i].L \in Threads

\* Frames do not matter to the counts.
LEMMA CountsSame ==
  ASSUME NEW q, NEW th, NEW uh, Counts(q, th), Stacked(q), \A M \in Threads : SameBook(th[M], uh[M])
  PROVE  Counts(q, uh)
BY DEF Counts, Stacked, SameBook, Threads

\* Nor does what a coroutine without activation counts.
LEMMA CountsIdle ==
  ASSUME NEW q, NEW th, NEW uh, Counts(q, th), \A i \in DOMAIN q : uh[q[i].L] = th[q[i].L], uh[Main] = th[Main],
         \A L \in Coroutines : uh[L].status = th[L].status /\ (uh[L].errfunc <=> th[L].errfunc)
  PROVE  Counts(q, uh)
BY DEF Counts

\* Nor does the level of the activations.
SameButLevel(d, e) == d.kind = e.kind /\ d.L = e.L /\ d.C = e.C /\ d.nCcalls = e.nCcalls /\ d.ci = e.ci
                      /\ (d.errfunc <=> e.errfunc)

\* The innermost activation of the thread that runs is the last of the stack.
LEMMA EndIsLast ==
  ASSUME NEW q, DOMAIN q = 1 .. Len(q), Len(q) \in Nat, Blocks(q),
         NEW i \in DOMAIN q, Ends(q, i), q[i].L = q[Len(q)].L
  PROVE  i = Len(q)
<1> SUFFICES ASSUME i < Len(q) PROVE FALSE OBVIOUS
<1>1. i + 1 \in DOMAIN q /\ Len(q) \in DOMAIN q /\ i <= i + 1 /\ i + 1 <= Len(q) OBVIOUS
<1>2. q[i + 1].L = q[i].L BY <1>1 DEF Blocks
<1> QED BY <1>1, <1>2 DEF Ends

\* A call is counted.
LEMMA CountsCall ==
  ASSUME NEW q, NEW p, NEW e, NEW th, NEW uh, IsPush(p, q, e), Blocks(q), Counts(q, th), Stacked(q), MayCall(q, e),
         \A M \in Threads : M # e.L => SameBook(th[M], uh[M]),
         uh[e.L].status = "ok", uh[e.L].nCcalls = Len(q) + 1, uh[e.L].baseCcalls = th[e.L].baseCcalls,
         e.kind # "pcall" => (uh[e.L].errfunc <=> e.errfunc)
  PROVE  Counts(p, uh)
<1> USE DEF IsPush
<1>l. e.L = Main \/ (Len(q) > 0 /\ e.L = q[Len(q)].L) BY DEF MayCall
<1>e. \A i \in 1 .. Len(q) : Ends(p, i) => Ends(q, i) /\ q[i].L # e.L
  <2> SUFFICES ASSUME NEW i \in 1 .. Len(q), Ends(p, i) PROVE Ends(q, i) /\ q[i].L # e.L OBVIOUS
  <2>1. Ends(q, i) BY DEF Ends
  <2>2. Len(q) > 0 /\ e.L = q[Len(q)].L BY DEF MayCall
  <2>3. q[i].L = q[Len(q)].L => i = Len(q) BY <2>1, EndIsLast
  <2>4. i = Len(q) => q[i].L # e.L BY DEF Ends
  <2> QED BY <2>1, <2>2, <2>3, <2>4
<1>1. \A i \in DOMAIN p : uh[p[i].L].status = "ok" BY DEF Counts, SameBook, Stacked
<1>2. \A i \in DOMAIN p : Ends(p, i) => uh[p[i].L].nCcalls = i BY <1>e DEF Counts, SameBook, Stacked
<1>3. \A i \in DOMAIN p : p[i].L # Main => /\ uh[p[i].L].baseCcalls \in 1 .. i
                                           /\ IsResume(p[uh[p[i].L].baseCcalls])
                                           /\ p[uh[p[i].L].baseCcalls].L = p[i].L
  <2>1. \A i \in 1 .. Len(q) : q[i].L # Main => /\ uh[q[i].L].baseCcalls = th[q[i].L].baseCcalls
                                                /\ th[q[i].L].baseCcalls \in 1 .. i
                                                /\ IsResume(q[th[q[i].L].baseCcalls])
                                                /\ q[th[q[i].L].baseCcalls].L = q[i].L
    BY DEF Counts, SameBook, Stacked
  <2> QED BY <2>1, <1>l
<1>4. \A i \in DOMAIN p : Ends(p, i) /\ p[i].kind # "pcall" => (uh[p[i].L].errfunc <=> p[i].errfunc)
  BY <1>e DEF Counts, SameBook, Stacked
<1>5. uh[Main].baseCcalls = 0 /\ uh[Main].status = "ok" BY DEF Counts, SameBook, Threads
<1>6. p # <<>> OBVIOUS
<1>7. \A L \in Coroutines : uh[L].status # "err" /\ (\A i \in DOMAIN p : p[i].L # L) => ~uh[L].errfunc
  BY DEF Counts, SameBook, Threads
<1> QED BY <1>1, <1>2, <1>3, <1>4, <1>5, <1>6, <1>7 DEF Counts

\* A resumption is counted.
LEMMA CountsResume ==
  ASSUME NEW q, NEW p, NEW e, NEW th, NEW uh, IsPush(p, q, e), Blocks(q), Counts(q, th), Stacked(q), MayResume(q, e),
         \A M \in Threads : M # e.L => SameBook(th[M], uh[M]),
         uh[e.L].status = "ok", uh[e.L].nCcalls = Len(q) + 1, uh[e.L].baseCcalls = Len(q) + 1,
         uh[e.L].errfunc <=> e.errfunc
  PROVE  Counts(p, uh)
<1> USE DEF IsPush
<1>e. \A i \in 1 .. Len(q) : (Ends(p, i) => Ends(q, i)) /\ q[i].L # e.L
  BY DEF Ends, MayResume
<1>m. e.L # Main /\ IsResume(e) BY DEF MayResume
<1>1. \A i \in DOMAIN p : uh[p[i].L].status = "ok" BY DEF Counts, SameBook, Stacked
<1>2. \A i \in DOMAIN p : Ends(p, i) => uh[p[i].L].nCcalls = i BY <1>e DEF Counts, SameBook, Stacked
<1>3. \A i \in DOMAIN p : p[i].L # Main => /\ uh[p[i].L].baseCcalls \in 1 .. i
                                           /\ IsResume(p[uh[p[i].L].baseCcalls])
                                           /\ p[uh[p[i].L].baseCcalls].L = p[i].L
  <2>1. \A i \in 1 .. Len(q) : q[i].L # Main => /\ uh[q[i].L].baseCcalls = th[q[i].L].baseCcalls
                                                /\ th[q[i].L].baseCcalls \in 1 .. i
                                                /\ IsResume(q[th[q[i].L].baseCcalls])
                                                /\ q[th[q[i].L].baseCcalls].L = q[i].L
    BY <1>e DEF Counts, SameBook, Stacked
  <2> QED BY <2>1, <1>m
<1>4. \A i \in DOMAIN p : Ends(p, i) /\ p[i].kind # "pcall" => (uh[p[i].L].errfunc <=> p[i].errfunc)
  BY <1>e DEF Counts, SameBook, Stacked
<1>5. uh[Main].baseCcalls = 0 /\ uh[Main].status = "ok" BY <1>m DEF Counts, SameBook, Threads
<1>6. p # <<>> OBVIOUS
<1>7. \A L \in Coroutines : uh[L].status # "err" /\ (\A i \in DOMAIN p : p[i].L # L) => ~uh[L].errfunc
  BY DEF Counts, SameBook, Threads
<1> QED BY <1>1, <1>2, <1>3, <1>4, <1>5, <1>6, <1>7 DEF Counts

\* From position at on, only activations of the running thread are cut off.
IsUnwind(p, q, at) ==
  at \in DOMAIN q /\ IsCut(p, q, at - 1) /\ \A k \in DOMAIN q : k >= at => q[k].L = q[at].L

\* The counts after a call has returned or was left by an error.
LEMMA CountsReturn ==
  ASSUME NEW q, NEW p, NEW at, NEW th, NEW uh,
         IsUnwind(p, q, at), Blocks(q), Counts(q, th), Stacked(q), ~IsResume(q[at]),
         \A M \in Threads : M # q[at].L => SameBook(th[M], uh[M]),
         uh[q[at].L].status = "ok", uh[q[at].L].nCcalls = at - 1, uh[q[at].L].baseCcalls = th[q[at].L].baseCcalls,
         uh[q[at].L].errfunc <=> q[at].errfunc
  PROVE  Counts(p, uh)
<1> DEFINE L == q[at].L
<1> USE DEF IsCut, IsUnwind
<1>l. \/ at = 1 /\ L = Main
      \/ at > 1 /\ at - 1 \in DOMAIN q /\ q[at - 1].L = L
  BY DEF Blocks
<1>n. Len(q) \in DOMAIN q /\ q[Len(q)].L = L OBVIOUS
<1>e. \A i \in DOMAIN p : i < at - 1 /\ Ends(p, i) => Ends(q, i) /\ q[i].L # L
  <2> SUFFICES ASSUME NEW i \in DOMAIN p, i < at - 1, Ends(p, i) PROVE Ends(q, i) /\ q[i].L # L OBVIOUS
  <2>1. Ends(q, i) BY DEF Ends
  <2>2. q[i].L = q[Len(q)].L => i = Len(q) BY <2>1, EndIsLast
  <2> QED BY <2>1, <2>2, <1>n
<1>1. \A i \in DOMAIN p : uh[p[i].L].status = "ok" BY DEF Counts, SameBook, Stacked
<1>2. \A i \in DOMAIN p : Ends(p, i) => uh[p[i].L].nCcalls = i
  <2> SUFFICES ASSUME NEW i \in DOMAIN p, Ends(p, i) PROVE uh[p[i].L].nCcalls = i OBVIOUS
  <2>1. CASE i < at - 1 BY <2>1, <1>e DEF Counts, SameBook, Stacked
  <2>2. CASE i = at - 1 BY <2>2, <1>l
  <2> QED BY <2>1, <2>2
<1>3. \A i \in DOMAIN p : p[i].L # Main => /\ uh[p[i].L].baseCcalls \in 1 .. i
                                           /\ IsResume(p[uh[p[i].L].baseCcalls])
                                           /\ p[uh[p[i].L].baseCcalls].L = p[i].L
  <2>1. \A i \in 1 .. at - 1 : q[i].L # Main => /\ uh[q[i].L].baseCcalls = th[q[i].L].baseCcalls
                                                /\ th[q[i].L].baseCcalls \in 1 .. i
                                                /\ IsResume(q[th[q[i].L].baseCcalls])
                                                /\ q[th[q[i].L].baseCcalls].L = q[i].L
    BY DEF Counts, SameBook, Stacked
  <2> QED BY <2>1
<1>4. \A i \in DOMAIN p : Ends(p, i) /\ p[i].kind # "pcall" => (uh[p[i].L].errfunc <=> p[i].errfunc)
  <2> SUFFICES ASSUME NEW i \in DOMAIN p, Ends(p, i), p[i].kind # "pcall"
               PROVE  uh[p[i].L].errfunc <=> p[i].errfunc
    OBVIOUS
  <2>1. CASE i < at - 1 BY <2>1, <1>e DEF Counts, SameBook, Stacked
  <2>2. CASE i = at - 1 BY <2>2, <1>l DEF Blocks
  <2> QED BY <2>1, <2>2
<1>5. uh[Main].baseCcalls = 0 /\ uh[Main].status = "ok" BY DEF Counts, SameBook, Threads
<1>6. p = <<>> => uh[Main].nCcalls = 0
  <2> SUFFICES ASSUME p = <<>> PROVE uh[Main].nCcalls = 0 OBVIOUS
  <2>1. Len(p) = 0 OBVIOUS
  <2> QED BY <2>1, <1>l
<1>7. \A M \in Coroutines : uh[M].status # "err" /\ (\A i \in DOMAIN p : p[i].L # M) => ~uh[M].errfunc
  <2> SUFFICES ASSUME NEW M \in Coroutines, uh[M].status # "err", \A i \in DOMAIN p : p[i].L # M
               PROVE  ~uh[M].errfunc
    OBVIOUS
  <2>1. M # L BY <1>l, CallAssumption
  <2>2. SameBook(th[M], uh[M]) BY <2>1 DEF Threads
  <2>3. \A i \in DOMAIN q : q[i].L # M BY <2>1
  <2> QED BY <2>2, <2>3 DEF Counts, SameBook
<1> QED BY <1>1, <1>2, <1>3, <1>4, <1>5, <1>6, <1>7 DEF Counts

\* The counts after a coroutine has yielded, returned or died.
LEMMA CountsLeave ==
  ASSUME NEW q, NEW p, NEW at, NEW th, NEW uh,
         IsUnwind(p, q, at), Blocks(q), Counts(q, th), Stacked(q), IsResume(q[at]),
         \A M \in Threads : M # q[at].L => SameBook(th[M], uh[M]),
         uh[q[at].L].status # "err" => ~uh[q[at].L].errfunc
  PROVE  Counts(p, uh)
<1> DEFINE L == q[at].L
<1> USE DEF IsCut, IsUnwind
<1>l. at > 1 /\ L # Main /\ \A j \in DOMAIN p : q[j].L # L BY DEF Blocks
<1>e. \A i \in DOMAIN p : Ends(p, i) => Ends(q, i)
  BY <1>l DEF Ends
<1>s. \A i \in DOMAIN p : p[i] = q[i] /\ SameBook(th[q[i].L], uh[q[i].L]) BY <1>l DEF Stacked
<1>1. \A i \in DOMAIN p : uh[p[i].L].status = "ok" BY <1>s DEF Counts, SameBook
<1>2. \A i \in DOMAIN p : Ends(p, i) => uh[p[i].L].nCcalls = i BY <1>e, <1>s DEF Counts, SameBook
<1>3. \A i \in DOMAIN p : p[i].L # Main => /\ uh[p[i].L].baseCcalls \in 1 .. i
                                           /\ IsResume(p[uh[p[i].L].baseCcalls])
                                           /\ p[uh[p[i].L].baseCcalls].L = p[i].L
  <2>1. \A i \in 1 .. at - 1 : q[i].L # Main => /\ uh[q[i].L].baseCcalls = th[q[i].L].baseCcalls
                                                /\ th[q[i].L].baseCcalls \in 1 .. i
                                                /\ IsResume(q[th[q[i].L].baseCcalls])
                                                /\ q[th[q[i].L].baseCcalls].L = q[i].L
    BY <1>s DEF Counts, SameBook
  <2> QED BY <2>1
<1>4. \A i \in DOMAIN p : Ends(p, i) /\ p[i].kind # "pcall" => (uh[p[i].L].errfunc <=> p[i].errfunc)
  BY <1>e, <1>s DEF Counts, SameBook
<1>5. uh[Main].baseCcalls = 0 /\ uh[Main].status = "ok" BY <1>l DEF Counts, SameBook, Threads
<1>6. p # <<>> BY <1>l
<1>7. \A M \in Coroutines : uh[M].status # "err" /\ (\A i \in DOMAIN p : p[i].L # M) => ~uh[M].errfunc
  <2> SUFFICES ASSUME NEW M \in Coroutines, uh[M].status # "err", \A i \in DOMAIN p : p[i].L # M
               PROVE  ~uh[M].errfunc
    OBVIOUS
  <2>1. CASE M = L BY <2>1
  <2>2. CASE M # L
    <3>1. SameBook(th[M], uh[M]) BY <2>2 DEF Threads
    <3>2. \A i \in DOMAIN q : q[i].L # M BY <2>2
    <3> QED BY <3>1, <3>2 DEF Counts, SameBook
  <2> QED BY <2>1, <2>2
<1> QED BY <1>1, <1>2, <1>3, <1>4, <1>5, <1>6, <1>7 DEF Counts

-----------------------------------------------------------------------------
(* Frames.                                                                 *)

Roomful(th) == \A M \in Threads : Roomy(th[M]) /\ (th[M].status = "yield" => th[M].ci >= 2)
Numeric(th) == \A M \in Threads : th[M].ci \in Nat
Entries(q) == \A i \in DOMAIN q : q[i].level \in Nat /\ q[i].ci \in Nat

\* More frames leave what is saved in place.
LEMMA FramesGrow ==
  ASSUME NEW q, NEW th, NEW uh, NEW r, NEW u, Frames(q, th, r), Stacked(q), Roomful(uh),
         Numeric(th), Numeric(uh), Entries(q),
         \A M \in Threads : th[M].ci <= uh[M].ci, u = "none" => r = "none"
  PROVE  Frames(q, uh, u)
<1> USE DEF Stacked, Numeric, Entries
<1>1. \A i \in DOMAIN q : q[i].level <= uh[q[i].L].ci /\ q[i].ci <= uh[q[i].L].ci BY DEF Frames
<1>2. \A i \in DOMAIN q : q[i].L # q[Len(q)].L => q[i].level < uh[q[i].L].ci /\ q[i].ci < uh[q[i].L].ci BY DEF Frames
<1> QED BY <1>1, <1>2 DEF Frames, Roomful

\* A new activation e: above it all that is saved for its thread.  If it is
\* of another thread, the frame of coroutine.resume is above what is saved for the resumer.
LEMMA FramesPush ==
  ASSUME NEW q, NEW p, NEW e, NEW th, NEW uh, NEW r, NEW u, IsPush(p, q, e), Frames(q, th, r), Stacked(q), Roomful(uh),
         Numeric(th), Numeric(uh), Entries(q), e.L \in Threads, e.level \in Nat, e.ci \in Nat,
         \A M \in Threads : M # e.L => th[M].ci <= uh[M].ci,
         Len(q) > 0 => e.kind = "handler" \/ q[Len(q)].level > 0,
         Len(q) > 0 /\ q[Len(q)].L # e.L => /\ th[q[Len(q)].L].ci < uh[q[Len(q)].L].ci
                                            /\ \A i \in DOMAIN q : q[i].L # e.L,
         Len(q) > 0 /\ q[Len(q)].L = e.L => /\ th[e.L].ci <= uh[e.L].ci
                                            /\ e.level > 0 => th[e.L].ci < e.level
                                            /\ e.kind = "pcall" => th[e.L].ci < e.ci,
         e.kind = "pcall" => (e.C => e.ci > 0) /\ (e.level > 0 => e.level = e.ci + 1), e.kind # "pcall" => e.ci = 0,
         e.level <= uh[e.L].ci, e.ci <= uh[e.L].ci,
         u = "none" => e.level > 0
  PROVE  Frames(p, uh, u)
<1> USE DEF IsPush, Stacked, Numeric, Entries
<1>o. \A i \in 1 .. Len(q) : /\ p[i] = q[i] /\ q[i].L \in Threads /\ Len(q) > 0
                             /\ q[i].level <= th[q[i].L].ci /\ q[i].ci <= th[q[i].L].ci
                             /\ q[i].L # q[Len(q)].L => q[i].level < th[q[i].L].ci /\ q[i].ci < th[q[i].L].ci
                             /\ th[q[i].L].ci \in Nat /\ uh[q[i].L].ci \in Nat
  BY DEF Frames
<1>g. \A i \in 1 .. Len(q) : th[q[i].L].ci <= uh[q[i].L].ci
  <2> SUFFICES ASSUME NEW i \in 1 .. Len(q) PROVE th[q[i].L].ci <= uh[q[i].L].ci OBVIOUS
  <2>1. CASE q[i].L # e.L BY <2>1
  <2>2. CASE q[i].L = e.L
    <3>1. i \in DOMAIN q /\ Len(q) > 0 OBVIOUS
    <3>2. q[Len(q)].L = e.L BY <2>2, <3>1
    <3> QED BY <2>2, <3>1, <3>2
  <2> QED BY <2>1, <2>2
<1>1. \A i \in DOMAIN p : p[i].level <= uh[p[i].L].ci /\ p[i].ci <= uh[p[i].L].ci
  <2> SUFFICES ASSUME NEW i \in DOMAIN p PROVE p[i].level <= uh[p[i].L].ci /\ p[i].ci <= uh[p[i].L].ci OBVIOUS
  <2>1. CASE i \in 1 .. Len(q)
    <3>1. /\ q[i].level \in Nat /\ q[i].ci \in Nat /\ th[q[i].L].ci \in Nat /\ uh[q[i].L].ci \in Nat
          /\ q[i].level <= th[q[i].L].ci /\ q[i].ci <= th[q[i].L].ci /\ th[q[i].L].ci <= uh[q[i].L].ci /\ p[i] = q[i]
      BY <2>1, <1>o, <1>g
    <3> HIDE DEF IsPush, Stacked, Numeric, Entries
    <3> QED BY <3>1
  <2>2. CASE i = Len(q) + 1 BY <2>2
  <2> QED BY <2>1, <2>2
<1>2. \A i \in DOMAIN p : p[i].L # p[Len(p)].L => p[i].level < uh[p[i].L].ci /\ p[i].ci < uh[p[i].L].ci
  <2> SUFFICES ASSUME NEW i \in 1 .. Len(q), q[i].L # e.L
               PROVE  q[i].level < uh[q[i].L].ci /\ q[i].ci < uh[q[i].L].ci
    BY <1>o
  <2>1. /\ q[i].level \in Nat /\ q[i].ci \in Nat /\ th[q[i].L].ci \in Nat /\ uh[q[i].L].ci \in Nat
        /\ q[i].level <= th[q[i].L].ci /\ q[i].ci <= th[q[i].L].ci /\ th[q[i].L].ci <= uh[q[i].L].ci /\ Len(q) > 0
    BY <1>o, <1>g
  <2>2. CASE q[i].L = q[Len(q)].L
    <3>1. th[q[i].L].ci < uh[q[i].L].ci BY <2>1, <2>2
    <3> HIDE DEF IsPush, Stacked, Numeric, Entries
    <3> QED BY <3>1, <2>1
  <2>3. CASE q[i].L # q[Len(q)].L
    <3>1. q[i].level < th[q[i].L].ci /\ q[i].ci < th[q[i].L].ci BY <2>3, <1>o
    <3> HIDE DEF IsPush, Stacked, Numeric, Entries
    <3> QED BY <3>1, <2>1
  <2> QED BY <2>2, <2>3
<1>s. \A i \in 1 .. Len(q) : q[i].L = e.L => /\ q[i].level \in Nat /\ q[i].ci \in Nat /\ th[e.L].ci \in Nat
                                             /\ q[i].level <= th[e.L].ci /\ q[i].ci <= th[e.L].ci
                                             /\ e.level > 0 => th[e.L].ci < e.level
                                             /\ e.kind = "pcall" => th[e.L].ci < e.ci
  <2> SUFFICES ASSUME NEW i \in 1 .. Len(q), q[i].L = e.L
               PROVE  /\ q[i].level \in Nat /\ q[i].ci \in Nat /\ th[e.L].ci \in Nat
                      /\ q[i].level <= th[e.L].ci /\ q[i].ci <= th[e.L].ci
                      /\ e.level > 0 => th[e.L].ci < e.level
                      /\ e.kind = "pcall" => th[e.L].ci < e.ci
    OBVIOUS
  <2>1. Len(q) > 0 /\ i \in DOMAIN q OBVIOUS
  <2>2. q[Len(q)].L = e.L BY <2>1
  <2> QED BY <2>1, <2>2, <1>o
<1>3. \A i, j \in DOMAIN p : i < j /\ p[i].L = p[j].L /\ p[j].level > 0 => p[i].level < p[j].level /\ p[i].ci < p[j].level
  <2> SUFFICES ASSUME NEW i \in DOMAIN p, NEW j \in DOMAIN p, i < j, p[i].L = p[j].L, p[j].level > 0
               PROVE  p[i].level < p[j].level /\ p[i].ci < p[j].level
    OBVIOUS
  <2>1. CASE j <= Len(q) BY SMTT(20), <2>1, <1>o DEF Frames
  <2>2. CASE j = Len(q) + 1
    <3>1. i \in 1 .. Len(q) /\ p[i] = q[i] /\ q[i].L = e.L /\ p[j] = e BY <2>2
    <3> HIDE DEF IsPush, Stacked, Numeric, Entries
    <3> QED BY <3>1, <1>s
  <2> QED BY <2>1, <2>2
<1>4. \A i, j \in DOMAIN p : i < j /\ p[i].L = p[j].L /\ p[j].kind = "pcall" => p[i].level < p[j].ci /\ p[i].ci < p[j].ci
  <2> SUFFICES ASSUME NEW i \in DOMAIN p, NEW j \in DOMAIN p, i < j, p[i].L = p[j].L, p[j].kind = "pcall"
               PROVE  p[i].level < p[j].ci /\ p[i].ci < p[j].ci
    OBVIOUS
  <2>1. CASE j <= Len(q) BY SMTT(20), <2>1, <1>o DEF Frames
  <2>2. CASE j = Len(q) + 1
    <3>1. i \in 1 .. Len(q) /\ p[i] = q[i] /\ q[i].L = e.L /\ p[j] = e BY <2>2
    <3> HIDE DEF IsPush, Stacked, Numeric, Entries
    <3> QED BY <3>1, <1>s
  <2> QED BY <2>1, <2>2
<1>5. \A j \in DOMAIN p : p[j].kind = "pcall" => (p[j].C => p[j].ci > 0) /\ (p[j].level > 0 => p[j].level = p[j].ci + 1)
  BY DEF Frames
<1>6. \A i, j \in DOMAIN p : j = i + 1 /\ p[j].kind # "handler" => p[i].level > 0
  BY DEF Frames
<1>8. \A j \in DOMAIN p : p[j].kind # "pcall" => p[j].ci = 0 BY DEF Frames
<1>7. u = "none" /\ p # <<>> => p[Len(p)].level > 0 OBVIOUS
<1> QED BY <1>1, <1>2, <1>3, <1>4, <1>5, <1>6, <1>7, <1>8 DEF Frames, Roomful

\* After unwinding, what is saved for the threads still fits.
LEMMA FramesUnwind ==
  ASSUME NEW q, NEW p, NEW at, NEW th, NEW uh, NEW r, NEW u, IsUnwind(p, q, at), Frames(q, th, r), Roomful(uh),
         \A i \in DOMAIN p : q[i].level <= uh[q[i].L].ci /\ q[i].ci <= uh[q[i].L].ci,
         \A i \in DOMAIN p : q[i].L # q[at - 1].L => q[i].level < uh[q[i].L].ci /\ q[i].ci < uh[q[i].L].ci,
         u = "none" => q[at].kind # "handler"
  PROVE  Frames(p, uh, u)
<1> USE DEF IsUnwind, IsCut
<1>1. \A i \in DOMAIN p : p[i].level <= uh[p[i].L].ci /\ p[i].ci <= uh[p[i].L].ci OBVIOUS
<1>2. \A i \in DOMAIN p : p[i].L # p[Len(p)].L => p[i].level < uh[p[i].L].ci /\ p[i].ci < uh[p[i].L].ci OBVIOUS
<1>3. \A i, j \in DOMAIN p : i < j /\ p[i].L = p[j].L /\ p[j].level > 0 => p[i].level < p[j].level /\ p[i].ci < p[j].level
  BY DEF Frames
<1>4. \A i, j \in DOMAIN p : i < j /\ p[i].L = p[j].L /\ p[j].kind = "pcall" => p[i].level < p[j].ci /\ p[i].ci < p[j].ci
  BY DEF Frames
<1>5. \A j \in DOMAIN p : p[j].kind = "pcall" => (p[j].C => p[j].ci > 0) /\ (p[j].level > 0 => p[j].level = p[j].ci + 1)
  BY DEF Frames
<1>6. \A i, j \in DOMAIN p : j = i + 1 /\ p[j].kind # "handler" => p[i].level > 0
  BY DEF Frames
<1>8. \A j \in DOMAIN p : p[j].kind # "pcall" => p[j].ci = 0 BY DEF Frames
<1>7. u = "none" /\ p # <<>> => p[Len(p)].level > 0
  <2> SUFFICES ASSUME u = "none", p # <<>> PROVE p[Len(p)].level > 0 OBVIOUS
  <2>1. Len(p) # 0 OBVIOUS
  <2>2. at - 1 \in DOMAIN q /\ at = (at - 1) + 1 BY <2>1
  <2>3. q[at - 1].level > 0 BY <2>2 DEF Frames
  <2> QED BY <2>1, <2>3
<1> QED BY <1>1, <1>2, <1>3, <1>4, <1>5, <1>6, <1>7, <1>8 DEF Frames, Roomful

-----------------------------------------------------------------------------
(* The operators of the frames.                                            *)

\* Of S, only the frames of L and the room for them have changed in U.
Framed(S, U, L) ==
  /\ U \in StateType /\ U.cs = S.cs /\ U.exited = S.exited /\ U.panic = S.panic
  /\ \A M \in Threads : SameBook(S.th[M], U.th[M]) /\ U.th[M].fn = S.th[M].fn
  /\ \A M \in Threads : M # L => U.th[M] = S.th[M]

\* S with another thread L and another raise.
Update(S, L, t, r) == [S EXCEPT !.th = [S.th EXCEPT ![L] = t], !.raise = r]

\* What an update changes.
LEMMA Replaced ==
  ASSUME NEW S \in StateType, NEW L \in Threads, NEW t \in ThreadType, NEW r \in Raises
  PROVE  /\ Update(S, L, t, r) \in StateType /\ Update(S, L, t, r).cs = S.cs
         /\ Update(S, L, t, r).exited = S.exited /\ Update(S, L, t, r).panic = S.panic
         /\ Update(S, L, t, r).raise = r /\ Update(S, L, t, r).th[L] = t
         /\ \A M \in Threads : M # L => Update(S, L, t, r).th[M] = S.th[M]
<1> S.th \in [Threads -> ThreadType] BY DEF StateType
<1> [S.th EXCEPT ![L] = t] \in [Threads -> ThreadType] OBVIOUS
<1> QED BY DEF StateType, Update

\* What a thread has.
LEMMA ThreadFields ==
  ASSUME NEW S \in StateType, NEW L \in Threads
  PROVE  /\ S.th[L] \in ThreadType /\ S.th[L].ci \in Nat /\ S.th[L].size_ci \in Nat /\ S.th[L].nCcalls \in Nat
         /\ S.th[L].baseCcalls \in Nat /\ S.th[L].status \in {"ok", "yield", "err"} /\ S.th[L].errfunc \in BOOLEAN
BY DEF StateType, ThreadType

\* Only the frames of L have changed.
LEMMA ReplacedFrame ==
  ASSUME NEW S \in StateType, NEW L \in Threads, NEW v \in ThreadType, NEW r \in Raises,
         Roomful(S.th), SameBook(S.th[L], v), v.fn = S.th[L].fn, Roomy(v), v.status = "yield" => v.ci >= 2,
         NEW U, U = Update(S, L, v, r)
  PROVE  Framed(S, U, L) /\ Roomful(U.th) /\ U.raise = r /\ U.th[L] = v
<1>1. /\ U \in StateType /\ U.cs = S.cs /\ U.exited = S.exited /\ U.panic = S.panic /\ U.raise = r
      /\ U.th[L] = v /\ \A M \in Threads : M # L => U.th[M] = S.th[M]
  BY Replaced
<1> QED BY <1>1 DEF Framed, Roomful, SameBook

\* A frame is added, for which there is room, or an error is raised.
Added(S, U, L) ==
  /\ Framed(S, U, L) /\ Roomful(U.th)
  /\ \/ U.raise = "none" /\ U.th[L].ci = S.th[L].ci + 1
     \/ U.raise \in {"runerror", "throw"} /\ U.th[L].ci = S.th[L].ci

\* What inc_ci does.
LEMMA IncCi ==
  ASSUME NEW S \in StateType, NEW L \in Threads, Roomful(S.th), S.raise = "none"
  PROVE  Added(S, inc_ci(S, L), L)
<1> DEFINE U == inc_ci(S, L)
           t == S.th[L]
           size == S.th[L].size_ci
<1>t. t \in ThreadType /\ size \in Nat /\ t.ci \in Nat /\ Roomy(t) /\ (t.status = "yield" => t.ci >= 2)
  BY ThreadFields DEF Roomful
<1>1. CASE t.ci # size - 1
  <2> DEFINE v == [t EXCEPT !.ci = t.ci + 1]
  <2>1. U = Update(S, L, v, "none")
    BY <1>1 DEF inc_ci, StateType, Update
  <2>2. v \in ThreadType /\ v.ci = t.ci + 1 /\ Roomy(v) /\ SameBook(t, v) /\ v.fn = t.fn /\ (v.status = "yield" => v.ci >= 2)
    BY <1>t, <1>1 DEF ThreadType, Roomy, SameBook
  <2> HIDE DEF v, U
  <2>3. Framed(S, U, L) /\ Roomful(U.th) /\ U.raise = "none" /\ U.th[L] = v BY <2>1, <2>2, ReplacedFrame DEF Raises
  <2> QED BY <2>2, <2>3 DEF Added, U
<1>2. CASE t.ci = size - 1 /\ size > LUAI_MAXCALLS
  <2>1. U = Update(S, L, t, "throw")
    BY <1>2 DEF inc_ci, growCI, Raise, StateType, Update
  <2> HIDE DEF U
  <2>3. Framed(S, U, L) /\ Roomful(U.th) /\ U.raise = "throw" /\ U.th[L] = t BY <2>1, <1>t, ReplacedFrame DEF SameBook, Raises
  <2> QED BY <2>3 DEF Added, U
<1>3. CASE t.ci = size - 1 /\ size <= LUAI_MAXCALLS /\ 2 * size > LUAI_MAXCALLS
  <2> DEFINE v == [t EXCEPT !.size_ci = 2 * size]
  <2>1. U = Update(S, L, v, "runerror")
    BY <1>3, <1>t, CallAssumption DEF inc_ci, growCI, Raise, StateType, Update
  <2>2. v \in ThreadType /\ v.ci = t.ci /\ Roomy(v) /\ SameBook(t, v) /\ v.fn = t.fn /\ (v.status = "yield" => v.ci >= 2)
    BY <1>t, <1>3, CallAssumption DEF ThreadType, Roomy, SameBook
  <2> HIDE DEF v, U
  <2>3. Framed(S, U, L) /\ Roomful(U.th) /\ U.raise = "runerror" /\ U.th[L] = v BY <2>1, <2>2, ReplacedFrame DEF Raises
  <2> QED BY <2>2, <2>3 DEF Added, U
<1>4. CASE t.ci = size - 1 /\ 2 * size <= LUAI_MAXCALLS
  <2> DEFINE w == [t EXCEPT !.size_ci = 2 * size]
             v == [w EXCEPT !.ci = t.ci + 1]
  <2>0. ~(size > LUAI_MAXCALLS) /\ ~(2 * size > LUAI_MAXCALLS) BY <1>4, <1>t, CallAssumption
  <2>1. U = Update(S, L, v, "none")
    <3>1. U = [S EXCEPT !.th[L].size_ci = 2 * size, !.th[L].ci = @ + 1] BY <1>4, <2>0 DEF inc_ci, growCI
    <3>2. S.th \in [Threads -> ThreadType] BY DEF StateType
    <3>3. [S EXCEPT !.th[L].size_ci = 2 * size, !.th[L].ci = @ + 1] = [S EXCEPT !.th = [S.th EXCEPT ![L] = v]]
      BY <3>2 DEF StateType
    <3> HIDE DEF v
    <3>4. [S EXCEPT !.th = [S.th EXCEPT ![L] = v]] = Update(S, L, v, "none")
      BY <3>2 DEF StateType, Update
    <3> QED BY <3>1, <3>3, <3>4
  <2>2. v \in ThreadType /\ v.ci = t.ci + 1 /\ Roomy(v) /\ SameBook(t, v) /\ v.fn = t.fn /\ (v.status = "yield" => v.ci >= 2)
    <3>0. w \in ThreadType /\ w.ci = t.ci /\ w.size_ci = 2 * size /\ w.status = t.status /\ w.fn = t.fn /\ SameBook(t, w)
      BY <1>t DEF ThreadType, SameBook
    <3> HIDE DEF w
    <3>1. v \in ThreadType /\ v.ci = t.ci + 1 /\ v.size_ci = 2 * size /\ v.status = t.status /\ v.fn = t.fn /\ SameBook(t, v)
      BY <1>t, <3>0 DEF ThreadType, SameBook
    <3> HIDE DEF v
    <3> QED BY <3>1, <1>t, <1>4, CallAssumption DEF Roomy
  <2> HIDE DEF v, U
  <2>3. Framed(S, U, L) /\ Roomful(U.th) /\ U.raise = "none" /\ U.th[L] = v BY <2>1, <2>2, ReplacedFrame DEF Raises
  <2> QED BY <2>2, <2>3 DEF Added, U
<1> QED BY <1>1, <1>2, <1>3, <1>4, <1>t, CallAssumption DEF Roomy

\* A frame is left.
LEMMA Poscall ==
  ASSUME NEW S \in StateType, NEW L \in Threads, Roomful(S.th), S.th[L].ci > 0, S.th[L].status # "yield"
  PROVE  /\ Framed(S, luaD_poscall(S, L), L) /\ Roomful(luaD_poscall(S, L).th)
         /\ luaD_poscall(S, L).raise = S.raise /\ luaD_poscall(S, L).th[L].ci = S.th[L].ci - 1
<1> DEFINE U == luaD_poscall(S, L)
           t == S.th[L]
           v == [t EXCEPT !.ci = t.ci - 1]
<1>t. t \in ThreadType /\ t.size_ci \in Nat /\ t.ci \in Nat /\ Roomy(t) /\ S.raise \in Raises
  BY ThreadFields DEF Roomful, StateType
<1>1. U = Update(S, L, v, S.raise)
  BY DEF luaD_poscall, StateType, Update
<1>2. v \in ThreadType /\ v.ci = t.ci - 1 /\ Roomy(v) /\ SameBook(t, v) /\ v.fn = t.fn /\ v.status # "yield"
  BY <1>t, CallAssumption DEF ThreadType, Roomy, SameBook
<1> HIDE DEF v, U
<1>3. Framed(S, U, L) /\ Roomful(U.th) /\ U.raise = S.raise /\ U.th[L] = v BY <1>1, <1>2, <1>t, ReplacedFrame
<1> QED BY <1>2, <1>3 DEF U

\* The room is given back after an overflow.
LEMMA RestoreLimit ==
  ASSUME NEW S \in StateType, NEW L \in Threads, Roomful(S.th)
  PROVE  /\ Framed(S, restore_stack_limit(S, L), L) /\ Roomful(restore_stack_limit(S, L).th)
         /\ restore_stack_limit(S, L).raise = S.raise /\ restore_stack_limit(S, L).th[L].ci = S.th[L].ci
<1> DEFINE U == restore_stack_limit(S, L)
           t == S.th[L]
           v == [t EXCEPT !.size_ci = LUAI_MAXCALLS]
<1>t. t \in ThreadType /\ t.size_ci \in Nat /\ t.ci \in Nat /\ Roomy(t) /\ S.raise \in Raises /\ (t.status = "yield" => t.ci >= 2)
  BY ThreadFields DEF Roomful, StateType
<1>1. CASE t.size_ci > LUAI_MAXCALLS /\ t.ci + 1 < LUAI_MAXCALLS
  <2>1. U = Update(S, L, v, S.raise)
    BY <1>1 DEF restore_stack_limit, StateType, Update
  <2>2. v \in ThreadType /\ v.ci = t.ci /\ Roomy(v) /\ SameBook(t, v) /\ v.fn = t.fn /\ (v.status = "yield" => v.ci >= 2)
    BY <1>t, <1>1, CallAssumption DEF ThreadType, Roomy, SameBook
  <2> HIDE DEF v, U
  <2>3. Framed(S, U, L) /\ Roomful(U.th) /\ U.raise = S.raise /\ U.th[L] = v BY <2>1, <2>2, <1>t, ReplacedFrame
  <2> QED BY <2>2, <2>3 DEF U
<1>2. CASE ~(t.size_ci > LUAI_MAXCALLS /\ t.ci + 1 < LUAI_MAXCALLS)
  <2>1. U = S BY <1>2 DEF restore_stack_limit
  <2>2. Framed(S, S, L) BY DEF Framed, SameBook
  <2> QED BY <2>1, <2>2
<1> QED BY <1>1, <1>2

\* An error is raised.
LEMMA RaiseFields ==
  ASSUME NEW S \in StateType, NEW r \in Raises
  PROVE  /\ Raise(S, r) \in StateType /\ Raise(S, r).cs = S.cs /\ Raise(S, r).th = S.th /\ Raise(S, r).raise = r
         /\ Raise(S, r).exited = S.exited /\ Raise(S, r).panic = S.panic
BY DEF Raise, StateType

-----------------------------------------------------------------------------
(* The operators of the calls.                                             *)

\* W is S with the activation e on the C stack q, which runs or failed to.
Ran(S, W, q, e) ==
  /\ W \in StateType /\ W.exited = S.exited /\ W.panic = S.panic /\ Roomful(W.th)
  /\ \A M \in Threads : SameBook(S.th[M], W.th[M]) /\ W.th[M].fn = S.th[M].fn
  /\ \A M \in Threads : M # e.L => W.th[M] = S.th[M]
  /\ \E d \in EntryType :
       /\ W.cs = Append(q, d) /\ SameButLevel(d, e)
       /\ \/ /\ W.raise = "none" /\ W.th[e.L].ci = S.th[e.L].ci + 1 /\ d.level = S.th[e.L].ci + 1
          \/ /\ W.raise \in {"runerror", "throw"} /\ W.th[e.L].ci = S.th[e.L].ci /\ d.level = 0

\* A new activation that raises an error at once.
LEMMA RaisesAtOnce ==
  ASSUME NEW S \in StateType, Roomful(S.th), NEW q, NEW e \in EntryType, S.cs = Append(q, e), e.level = 0,
         NEW r \in {"runerror", "throw"}
  PROVE  Ran(S, Raise(S, r), q, e)
<1> DEFINE W == Raise(S, r)
<1>1. /\ W \in StateType /\ W.cs = S.cs /\ W.th = S.th /\ W.raise = r /\ W.exited = S.exited /\ W.panic = S.panic
  BY RaiseFields DEF Raises
<1>2. SameButLevel(e, e) BY DEF SameButLevel
<1> HIDE DEF W
<1>3. Ran(S, W, q, e) BY <1>1, <1>2 DEF Ran, SameBook
<1> QED BY <1>3 DEF W

\* What Runs does.
LEMMA RunsEnters ==
  ASSUME NEW S \in StateType, S.raise = "none", Roomful(S.th),
         NEW q \in Seq(EntryType), NEW e \in EntryType, S.cs = Append(q, e), e.level = 0
  PROVE  Ran(S, Runs(S), q, e)
<1> DEFINE L == e.L
           U == inc_ci(S, L)
           W == Runs(S)
           d == [e EXCEPT !.level = U.th[L].ci]
<1>1. Len(S.cs) = Len(q) + 1 /\ S.cs[Len(q) + 1] = e /\ Last(S.cs).L = L /\ Len(q) \in Nat
  BY DEF Last
<1>2. L \in Threads BY DEF EntryType
<1>3. Added(S, U, L) BY <1>2, IncCi
<1>4. W = IF U.raise = "none" THEN [U EXCEPT !.cs[Len(U.cs)].level = U.th[L].ci] ELSE U
  BY <1>1 DEF Runs
<1> HIDE DEF U, W
<1>5. CASE U.raise = "none"
  <2>1. W = [U EXCEPT !.cs = [S.cs EXCEPT ![Len(q) + 1] = d]]
    BY <1>1, <1>3, <1>4, <1>5 DEF Added, Framed
  <2>2. U.th[L].ci \in Nat /\ d \in EntryType /\ SameButLevel(d, e) /\ d.level = U.th[L].ci
    <3>1. U.th[L].ci \in Nat BY <1>2, <1>3, ThreadFields DEF Added, Framed
    <3> QED BY <3>1 DEF EntryType, SameButLevel
  <2> HIDE DEF d
  <2>4. Append(q, d) \in Seq(EntryType) BY <2>2
  <2>3. [S.cs EXCEPT ![Len(q) + 1] = d] = Append(q, d)
    <3>1. PutAt(Append(q, e), Len(q) + 1, d) = Append(q, d) BY <2>2, ReplaceLast
    <3> QED BY <3>1 DEF PutAt
  <2>5. W \in StateType /\ W.cs = Append(q, d) /\ W.th = U.th /\ W.raise = "none" /\ W.exited = U.exited /\ W.panic = U.panic
    BY <2>1, <2>3, <2>4, <1>3, <1>5 DEF StateType, Added, Framed
  <2>6. U.th[L].ci = S.th[L].ci + 1 BY <1>3, <1>5 DEF Added
  <2> QED BY <2>2, <2>5, <2>6, <1>3 DEF Ran, Added, Framed, W
<1>6. CASE U.raise # "none"
  <2>1. W = U BY <1>4, <1>6
  <2>2. SameButLevel(e, e) BY DEF SameButLevel
  <2> QED BY <2>1, <2>2, <1>3, <1>6 DEF Ran, Added, Framed, W
<1> QED BY <1>5, <1>6

\* W is S with a new activation e, counted as n, which runs or failed to.
Called(S, W, e, n) ==
  /\ W \in StateType /\ W.exited = S.exited /\ W.panic = S.panic /\ Roomful(W.th)
  /\ W.th[e.L].status = S.th[e.L].status /\ W.th[e.L].nCcalls = n
  /\ W.th[e.L].baseCcalls = S.th[e.L].baseCcalls /\ (W.th[e.L].errfunc <=> S.th[e.L].errfunc)
  /\ \A M \in Threads : M # e.L => W.th[M] = S.th[M]
  /\ \E d \in EntryType :
       /\ W.cs = Append(S.cs, d) /\ SameButLevel(d, e)
       /\ \/ /\ W.raise = "none" /\ W.th[e.L].ci = S.th[e.L].ci + 1 /\ d.level = S.th[e.L].ci + 1
          \/ /\ W.raise \in {"runerror", "throw"} /\ W.th[e.L].ci = S.th[e.L].ci /\ d.level = 0
  /\ W.raise # "throw" => n <= LUAI_MAXCCALLS + (LUAI_MAXCCALLS \div 8)

\* What luaD_call does.
LEMMA CallEnters ==
  ASSUME NEW S \in StateType, S.raise = "none", Roomful(S.th), NEW e \in EntryType, e.level = 0
  PROVE  Called(S, luaD_call(S, e), e, S.th[e.L].nCcalls + 1)
<1> DEFINE L == e.L
           t == S.th[L]
           n == t.nCcalls + 1
           v == [t EXCEPT !.nCcalls = n]
           U == [S EXCEPT !.cs = Append(S.cs, e), !.th = [S.th EXCEPT ![L] = v]]
           W == luaD_call(S, e)
<1>1. L \in Threads /\ S.cs \in Seq(EntryType) /\ S.th \in [Threads -> ThreadType] /\ t \in ThreadType /\ n \in Nat
  BY DEF EntryType, StateType, ThreadType
<1>2. /\ v \in ThreadType /\ v.ci = t.ci /\ v.size_ci = t.size_ci /\ v.nCcalls = n /\ v.status = t.status
      /\ v.baseCcalls = t.baseCcalls /\ v.errfunc = t.errfunc
  BY <1>1 DEF ThreadType
<1>3. W = IF n = LUAI_MAXCCALLS THEN Raise(U, "runerror")
          ELSE IF n >= LUAI_MAXCCALLS + (LUAI_MAXCCALLS \div 8) THEN Raise(U, "throw")
          ELSE Runs(U)
  <2>1. [S EXCEPT !.cs = Append(@, e), !.th[e.L].nCcalls = S.th[e.L].nCcalls + 1] = U
    BY <1>1 DEF StateType
  <2> HIDE DEF U
  <2> QED BY <2>1 DEF luaD_call
<1> HIDE DEF v, W
<1>4. [S.th EXCEPT ![L] = v] \in [Threads -> ThreadType] /\ Append(S.cs, e) \in Seq(EntryType) BY <1>1, <1>2
<1>5. /\ U \in StateType /\ U.cs = Append(S.cs, e) /\ U.raise = "none" /\ U.exited = S.exited /\ U.panic = S.panic
      /\ U.th[L] = v /\ \A M \in Threads : M # L => U.th[M] = S.th[M]
  BY <1>1, <1>4 DEF StateType
<1> HIDE DEF U
<1>6. Roomful(U.th) BY <1>2, <1>5 DEF Roomful, Roomy
<1>7. Ran(U, W, S.cs, e) /\ (W.raise # "throw" => n <= LUAI_MAXCCALLS + (LUAI_MAXCCALLS \div 8))
  <2>1. CASE n = LUAI_MAXCCALLS
    <3>1. W = Raise(U, "runerror") BY <2>1, <1>3
    <3>2. Ran(U, W, S.cs, e) BY <3>1, <1>5, <1>6, RaisesAtOnce
    <3> QED BY <3>2, <2>1, CallAssumption
  <2>2. CASE n # LUAI_MAXCCALLS /\ n >= LUAI_MAXCCALLS + (LUAI_MAXCCALLS \div 8)
    <3>1. W = Raise(U, "throw") BY <2>2, <1>3
    <3>2. Ran(U, W, S.cs, e) BY <3>1, <1>5, <1>6, RaisesAtOnce
    <3>3. W.raise = "throw" BY <3>1, <1>5, RaiseFields DEF Raises
    <3> QED BY <3>2, <3>3
  <2>3. CASE n # LUAI_MAXCCALLS /\ ~(n >= LUAI_MAXCCALLS + (LUAI_MAXCCALLS \div 8))
    <3>1. W = Runs(U) BY <2>3, <1>3
    <3>2. Ran(U, W, S.cs, e) BY <3>1, <1>1, <1>5, <1>6, RunsEnters
    <3> QED BY <3>2, <2>3, <1>1, CallAssumption
  <2> QED BY <2>1, <2>2, <2>3
<1>8. Called(S, W, e, n)
  BY <1>1, <1>2, <1>5, <1>7 DEF Ran, Called, SameBook
<1> QED BY <1>8 DEF W

\* The thread that runs a good state.
LEMMA RunningIs ==
  ASSUME NEW S \in StateType
  PROVE  /\ S.cs = <<>> => Running(S) = Main
         /\ S.cs # <<>> => Len(S.cs) > 0 /\ Running(S) = S.cs[Len(S.cs)].L /\ Len(S.cs) \in DOMAIN S.cs
         /\ Running(S) \in Threads
<1>1. S.cs \in Seq(EntryType) BY DEF StateType
<1>4. \A i \in DOMAIN S.cs : S.cs[i] \in EntryType BY <1>1
<1>2. \A i \in DOMAIN S.cs : S.cs[i].L \in Threads BY <1>4 DEF EntryType
<1>3. S.cs # <<>> => Len(S.cs) > 0 /\ Len(S.cs) \in DOMAIN S.cs BY <1>1
<1> QED BY <1>2, <1>3 DEF Running, Last, Threads

\* What the types say of a C stack.
LEMMA StackTypes ==
  ASSUME NEW S \in StateType
  PROVE  /\ S.cs \in Seq(EntryType) /\ Stacked(S.cs) /\ Entries(S.cs) /\ Numeric(S.th)
         /\ DOMAIN S.cs = 1 .. Len(S.cs) /\ Len(S.cs) \in Nat /\ (S.cs = <<>> <=> Len(S.cs) = 0)
<1>1. S.cs \in Seq(EntryType) BY DEF StateType
<1>4. \A i \in DOMAIN S.cs : S.cs[i] \in EntryType BY <1>1
<1>2. Stacked(S.cs) /\ Entries(S.cs) BY <1>4 DEF Stacked, Entries, EntryType
<1>3. Numeric(S.th) BY ThreadFields DEF Numeric
<1> QED BY <1>1, <1>2, <1>3

\* A good state stays one when the running thread calls; between O and S, it
\* may have got frames, and with a protected call another error handler.
LEMMA GoodCall ==
  ASSUME NEW O, Good(O), O.raise # "throw", NEW S \in StateType, S.cs = O.cs, S.raise = "none", Roomful(S.th),
         NEW e \in EntryType, e.level = 0, MayCall(O.cs, e),
         \A M \in Threads : M # e.L => SameBook(O.th[M], S.th[M]),
         S.th[e.L].status = "ok", S.th[e.L].nCcalls = Len(O.cs), S.th[e.L].baseCcalls = O.th[e.L].baseCcalls,
         e.kind # "pcall" => (S.th[e.L].errfunc <=> e.errfunc),
         \A M \in Threads : O.th[M].ci <= S.th[M].ci,
         Len(O.cs) > 0 => e.kind = "handler" \/ O.cs[Len(O.cs)].level > 0,
         e.kind # "pcall" => e.ci = 0,
         e.kind = "pcall" => e.ci = S.th[e.L].ci /\ (Len(O.cs) > 0 => O.th[e.L].ci < e.ci) /\ (e.C => e.ci > 0)
  PROVE  Good(luaD_call(S, e))
<1> DEFINE W == luaD_call(S, e)
           q == O.cs
<1>1. /\ O \in StateType /\ Blocks(q) /\ Counts(q, O.th) /\ Frames(q, O.th, O.raise) /\ Limit(q, O.raise) BY DEF Good
<1>2. /\ q \in Seq(EntryType) /\ Stacked(q) /\ Entries(q) /\ Numeric(O.th) /\ Numeric(S.th)
      /\ DOMAIN q = 1 .. Len(q) /\ Len(q) \in Nat
  BY <1>1, StackTypes
<1>3. Called(S, W, e, Len(q) + 1) BY CallEnters
<1>4. W \in StateType /\ Roomful(W.th) /\ Numeric(W.th) BY <1>3, StackTypes DEF Called
<1>5. PICK d \in EntryType :
       /\ W.cs = Append(q, d) /\ SameButLevel(d, e)
       /\ \/ /\ W.raise = "none" /\ W.th[e.L].ci = S.th[e.L].ci + 1 /\ d.level = S.th[e.L].ci + 1
          \/ /\ W.raise \in {"runerror", "throw"} /\ W.th[e.L].ci = S.th[e.L].ci /\ d.level = 0
  BY <1>3 DEF Called
<1>6. IsPush(W.cs, q, d) BY <1>2, <1>5, AppendPushes
<1>7. MayCall(q, d) BY <1>5 DEF MayCall, SameButLevel, IsResume
<1>8. d.L = e.L /\ d.kind = e.kind /\ d.ci = e.ci /\ (d.C <=> e.C) /\ (d.errfunc <=> e.errfunc) BY <1>5 DEF SameButLevel
<1>t. d.L \in Threads /\ d.level \in Nat /\ d.ci \in Nat BY DEF EntryType
<1> HIDE DEF W
<1>9. Blocks(W.cs) BY <1>1, <1>6, <1>7, BlocksCall
<1>10. Counts(W.cs, W.th)
  <2>1. \A M \in Threads : M # d.L => SameBook(O.th[M], W.th[M]) BY <1>3, <1>8 DEF Called
  <2>2. W.th[d.L].status = "ok" /\ W.th[d.L].nCcalls = Len(q) + 1 /\ W.th[d.L].baseCcalls = O.th[d.L].baseCcalls
    BY <1>3, <1>8 DEF Called
  <2>3. d.kind # "pcall" => (W.th[d.L].errfunc <=> d.errfunc) BY <1>3, <1>8 DEF Called
  <2> QED BY <1>1, <1>2, <1>6, <1>7, <2>1, <2>2, <2>3, CountsCall
<1>11. Frames(W.cs, W.th, W.raise)
  <2> DEFINE L == d.L
  <2>0. O.th[L].ci \in Nat /\ S.th[L].ci \in Nat /\ W.th[L].ci \in Nat /\ O.th[L].ci <= S.th[L].ci
    BY <1>2, <1>4, <1>t DEF Numeric
  <2>1. \A M \in Threads : M # L => O.th[M].ci <= W.th[M].ci BY <1>3, <1>8 DEF Called
  <2>2. Len(q) > 0 => d.kind = "handler" \/ q[Len(q)].level > 0 BY <1>8
  <2>3. Len(q) > 0 => q[Len(q)].L = L BY <1>7 DEF MayCall
  <2>4. O.th[L].ci <= W.th[L].ci BY <1>5, <1>8, <2>0
  <2>5. d.level > 0 => O.th[L].ci < d.level BY <1>5, <1>8, <2>0
  <2>6. d.kind = "pcall" => (Len(q) > 0 => O.th[L].ci < d.ci) BY <1>8
  <2>7. d.kind = "pcall" => (d.C => d.ci > 0) /\ (d.level > 0 => d.level = d.ci + 1) BY <1>5, <1>8
  <2>8. d.level <= W.th[L].ci /\ d.ci <= W.th[L].ci
    <3>1. d.level <= W.th[L].ci BY <1>5, <1>8, <2>0
    <3>2. CASE d.kind = "pcall" BY <1>5, <1>8, <2>0, <3>2
    <3>3. CASE d.kind # "pcall"
      <4>1. d.ci = 0 BY <1>8, <3>3
      <4> HIDE DEF L
      <4> QED BY <3>1, <4>1, <2>0
    <3> QED BY <3>1, <3>2, <3>3
  <2>9. (W.raise = "none" => d.level > 0) /\ (d.kind # "pcall" => d.ci = 0) BY <1>5, <1>8, <2>0
  <2> HIDE DEF L
  <2>10. /\ Len(q) > 0 /\ q[Len(q)].L # d.L => /\ O.th[q[Len(q)].L].ci < W.th[q[Len(q)].L].ci
                                              /\ \A i \in DOMAIN q : q[i].L # d.L
         /\ Len(q) > 0 /\ q[Len(q)].L = d.L => /\ O.th[d.L].ci <= W.th[d.L].ci
                                               /\ d.level > 0 => O.th[d.L].ci < d.level
                                               /\ d.kind = "pcall" => O.th[d.L].ci < d.ci
    BY <2>3, <2>4, <2>5, <2>6 DEF L
  <2> QED BY <1>1, <1>2, <1>4, <1>6, <1>t, <2>1, <2>2, <2>7, <2>8, <2>9, <2>10, FramesPush DEF L
<1>12. Limit(W.cs, W.raise)
  <2>1. Len(W.cs) = Len(q) + 1 BY <1>6 DEF IsPush
  <2>2. Len(q) <= LUAI_MAXCCALLS + (LUAI_MAXCCALLS \div 8) BY <1>1 DEF Limit
  <2>3. W.raise # "throw" => Len(q) + 1 <= LUAI_MAXCCALLS + (LUAI_MAXCCALLS \div 8) BY <1>3 DEF Called
  <2>4. LUAI_MAXCCALLS + (LUAI_MAXCCALLS \div 8) \in Nat BY CallAssumption
  <2> QED BY <2>1, <2>2, <2>3, <2>4, <1>2 DEF Limit
<1>13. Good(W) BY <1>4, <1>9, <1>10, <1>11, <1>12 DEF Good
<1> QED BY <1>13 DEF W

-----------------------------------------------------------------------------
(* The actions.                                                            *)

\* The parts of a good state.
LEMMA GoodParts ==
  ASSUME NEW S, Good(S)
  PROVE  /\ S \in StateType /\ Blocks(S.cs) /\ Counts(S.cs, S.th) /\ Frames(S.cs, S.th, S.raise) /\ Limit(S.cs, S.raise)
         /\ S.cs \in Seq(EntryType) /\ Stacked(S.cs) /\ Entries(S.cs) /\ Numeric(S.th) /\ Roomful(S.th)
         /\ DOMAIN S.cs = 1 .. Len(S.cs) /\ Len(S.cs) \in Nat /\ (S.cs = <<>> <=> Len(S.cs) = 0) /\ S.raise \in Raises
<1>1. S \in StateType BY DEF Good
<1>2. Roomful(S.th) BY DEF Good, Frames, Roomful
<1>3. S.raise \in Raises BY <1>1 DEF StateType
<1> QED BY <1>1, <1>2, <1>3, StackTypes DEF Good

\* Frames that come, and errors that are raised, leave a state good.
LEMMA GoodGrow ==
  ASSUME NEW O, Good(O), NEW U, NEW L \in Threads, Framed(O, U, L), Roomful(U.th), O.th[L].ci <= U.th[L].ci,
         U.raise = "none" => O.raise = "none", U.raise # "throw" => O.raise # "throw"
  PROVE  Good(U)
<1>1. U \in StateType /\ U.cs = O.cs BY DEF Framed
<1>2. Counts(U.cs, U.th) BY <1>1, GoodParts, CountsSame DEF Framed
<1>3. Frames(U.cs, U.th, U.raise)
  <2>1. Numeric(U.th) BY <1>1, StackTypes
  <2>2. \A M \in Threads : O.th[M].ci <= U.th[M].ci BY GoodParts DEF Framed, Numeric
  <2> QED BY <1>1, <2>1, <2>2, GoodParts, FramesGrow
<1>4. Limit(U.cs, U.raise) BY <1>1, GoodParts DEF Limit
<1> QED BY <1>1, <1>2, <1>3, <1>4, GoodParts DEF Good

\* A new frame of any thread.
LEMMA GoodInc ==
  ASSUME NEW O, Good(O), O.raise = "none", NEW L \in Threads
  PROVE  Good(inc_ci(O, L)) /\ Added(O, inc_ci(O, L), L)
<1>1. Added(O, inc_ci(O, L), L) BY GoodParts, IncCi
<1>2. O.th[L].ci \in Nat BY GoodParts, ThreadFields
<1> QED BY <1>1, <1>2, GoodGrow DEF Added

\* An error.
LEMMA GoodRaise ==
  ASSUME NEW O, Good(O), NEW r \in {"runerror", "throw"}, O.raise # "throw"
  PROVE  Good(Raise(O, r))
<1>1. /\ Raise(O, r) \in StateType /\ Raise(O, r).cs = O.cs /\ Raise(O, r).th = O.th /\ Raise(O, r).raise = r
      /\ Raise(O, r).exited = O.exited /\ Raise(O, r).panic = O.panic
  BY GoodParts, RaiseFields DEF Raises
<1>2. Framed(O, Raise(O, r), Main) BY <1>1 DEF Framed, SameBook
<1>3. O.th[Main].ci <= O.th[Main].ci BY GoodParts DEF Numeric, Threads
<1>4. Main \in Threads BY DEF Threads
<1> QED BY <1>1, <1>2, <1>3, <1>4, GoodParts, GoodGrow

\* Initially.
LEMMA InitIInv == Init => IInv
<1> SUFFICES ASSUME Init PROVE Good(s) BY DEF IInv
<1>1. s \in StateType
  BY CallAssumption DEF Init, StateType, ThreadType, Raises
<1>2. s.cs = <<>> /\ s.raise = "none" BY DEF Init
<1>3. DOMAIN s.cs = {} /\ Len(s.cs) = 0 BY <1>2
<1>4. \A L \in Threads : /\ s.th[L].status = "ok" /\ s.th[L].ci = 0 /\ s.th[L].size_ci = BASIC_CI_SIZE /\ s.th[L].nCcalls = 0
                         /\ s.th[L].baseCcalls = 0 /\ ~s.th[L].errfunc
  BY DEF Init
<1>5. Blocks(s.cs) BY <1>3 DEF Blocks
<1>6. Counts(s.cs, s.th) BY <1>3, <1>4 DEF Counts, Threads
<1>7. Frames(s.cs, s.th, s.raise) BY <1>2, <1>3, <1>4, CallAssumption DEF Frames, Roomy
<1>8. Limit(s.cs, s.raise) BY <1>3, CallAssumption DEF Limit
<1> QED BY <1>1, <1>5, <1>6, <1>7, <1>8 DEF Good

\* The thread that runs is counted.
LEMMA RunningCounts ==
  ASSUME NEW S, Good(S), S.cs # <<>>
  PROVE  /\ Running(S) = S.cs[Len(S.cs)].L /\ Len(S.cs) > 0 /\ Running(S) \in Threads /\ Len(S.cs) \in DOMAIN S.cs
         /\ S.th[Running(S)].nCcalls = Len(S.cs) /\ S.th[Running(S)].status = "ok"
         /\ S.cs[Len(S.cs)].kind # "pcall" => (S.th[Running(S)].errfunc <=> S.cs[Len(S.cs)].errfunc)
<1>1. Running(S) = S.cs[Len(S.cs)].L /\ Len(S.cs) > 0 /\ Running(S) \in Threads /\ Len(S.cs) \in DOMAIN S.cs
  BY GoodParts, RunningIs
<1>2. Ends(S.cs, Len(S.cs)) BY GoodParts DEF Ends
<1> QED BY <1>1, <1>2, GoodParts DEF Counts

\* A new activation.
Fresh(e, kind, L, C) ==
  /\ e \in EntryType /\ e.kind = kind /\ e.L = L /\ e.C = C /\ e.level = 0 /\ e.ci = 0
  /\ e.nCcalls = s.th[L].nCcalls /\ e.errfunc = s.th[L].errfunc

\* The activation that an action makes.
LEMMA EntryFields ==
  ASSUME s \in StateType, NEW L \in Threads, NEW C \in BOOLEAN, NEW kind \in Kinds
  PROVE  Fresh(Entry(kind, L, C), kind, L, C)
BY ThreadFields DEF Entry, EntryType, Fresh

\* The running thread may call.
LEMMA MayCallNow ==
  ASSUME Good(s), NEW e \in EntryType, e.kind \in {"call", "pcall", "handler"}, e.L = Running(s),
         e.errfunc <=> s.th[e.L].errfunc, e.nCcalls = s.th[e.L].nCcalls, s.cs = <<>> \/ e.kind # "pcall" \/ e.C
  PROVE  /\ MayCall(s.cs, e) /\ s.th[e.L].nCcalls = Len(s.cs) /\ s.th[e.L].status = "ok"
<1>1. CASE s.cs = <<>>
  <2>1. e.L = Main /\ Len(s.cs) = 0 BY <1>1, GoodParts, RunningIs
  <2>2. s.th[Main].nCcalls = 0 /\ s.th[Main].status = "ok" BY <1>1, GoodParts DEF Counts
  <2> QED BY <2>1, <2>2 DEF MayCall, IsResume
<1>2. CASE s.cs # <<>>
  <2>1. /\ e.L = s.cs[Len(s.cs)].L /\ Len(s.cs) > 0 /\ s.th[e.L].nCcalls = Len(s.cs) /\ s.th[e.L].status = "ok"
        /\ s.cs[Len(s.cs)].kind # "pcall" => (s.th[e.L].errfunc <=> s.cs[Len(s.cs)].errfunc)
    BY <1>2, RunningCounts
  <2> QED BY <2>1, <1>2 DEF MayCall, IsResume
<1> QED BY <1>1, <1>2

\* The activation that runs has a level.
LEMMA RunsAtLevel ==
  ASSUME Good(s), s.raise = "none"
  PROVE  Len(s.cs) > 0 => s.cs[Len(s.cs)].level > 0
BY GoodParts DEF Frames

\* luaD_call by the running thread: a metamethod, the host, or the handler of an error.
LEMMA CallStep ==
  ASSUME Good(s), NEW S, S = s \/ S = [s EXCEPT !.raise = "none"], S.raise = "none", s.raise # "throw",
         NEW kind \in {"call", "handler"}, kind = "handler" \/ s.raise = "none"
  PROVE  Good(luaD_call(S, Entry(kind, Running(s), FALSE)))
<1> DEFINE L == Running(s)
           e == Entry(kind, L, FALSE)
<1>1. s \in StateType /\ L \in Threads /\ kind \in Kinds /\ FALSE \in BOOLEAN BY GoodParts, RunningIs DEF Kinds
<1>e. Fresh(e, kind, L, FALSE) BY <1>1, EntryFields
<1> HIDE DEF e, L
<1>2. /\ e \in EntryType /\ e.kind = kind /\ e.L = L /\ e.level = 0 /\ e.ci = 0
      /\ e.nCcalls = s.th[L].nCcalls /\ e.errfunc = s.th[L].errfunc
  BY <1>e DEF Fresh
<1> USE DEF L
<1>3. /\ MayCall(s.cs, e) /\ s.th[L].nCcalls = Len(s.cs) /\ s.th[L].status = "ok" BY <1>2, MayCallNow
<1>4. S \in StateType /\ S.cs = s.cs /\ S.th = s.th BY <1>1 DEF StateType, Raises
<1>5. \A M \in Threads : SameBook(s.th[M], S.th[M]) /\ s.th[M].ci <= S.th[M].ci
  BY <1>4, GoodParts DEF SameBook, Numeric
<1>6. Roomful(S.th) BY <1>4, GoodParts
<1>7. Len(s.cs) > 0 => e.kind = "handler" \/ s.cs[Len(s.cs)].level > 0 BY <1>2, RunsAtLevel
<1>8. e.kind # "pcall" /\ (S.th[e.L].errfunc <=> e.errfunc) BY <1>2, <1>4
<1>9. Good(luaD_call(S, e)) BY <1>2, <1>3, <1>4, <1>5, <1>6, <1>7, <1>8, GoodCall
<1> QED BY <1>9 DEF e

\* luaD_pcall by the running thread, which has a frame of luaB_pcall, or by the host.
LEMMA PcallStep ==
  ASSUME Good(s), s.raise = "none", NEW U, NEW C \in BOOLEAN, NEW errfunc \in BOOLEAN, U.raise = "none",
         \/ U = s /\ s.cs = <<>> /\ ~C
         \/ U = inc_ci(s, Running(s)) /\ s.cs # <<>> /\ C
  PROVE  Good(luaD_pcall(U, Entry("pcall", Running(s), C), errfunc))
<1> DEFINE L == Running(s)
           d == Entry("pcall", L, C)
           e == [d EXCEPT !.ci = U.th[L].ci]
           v == [U.th[L] EXCEPT !.errfunc = errfunc]
           S == [U EXCEPT !.th = [U.th EXCEPT ![L] = v]]
<1>1. s \in StateType /\ L \in Threads /\ "pcall" \in Kinds BY GoodParts, RunningIs DEF Kinds
<1>d. Fresh(d, "pcall", L, C) BY <1>1, EntryFields
<1>2. /\ d \in EntryType /\ d.kind = "pcall" /\ d.L = L /\ d.C = C /\ d.level = 0 /\ d.ci = 0
      /\ d.nCcalls = s.th[L].nCcalls /\ d.errfunc = s.th[L].errfunc
  BY <1>d DEF Fresh
<1>3. /\ U \in StateType /\ U.cs = s.cs /\ Roomful(U.th) /\ \A M \in Threads : SameBook(s.th[M], U.th[M]) /\ s.th[M].ci <= U.th[M].ci
      /\ s.cs # <<>> => U.th[L].ci = s.th[L].ci + 1
  <2>1. CASE U = s /\ s.cs = <<>>
    <3>1. \A M \in Threads : s.th[M].ci \in Nat BY GoodParts DEF Numeric
    <3> QED BY <2>1, <3>1, GoodParts DEF SameBook
  <2>2. CASE U = inc_ci(s, L) /\ s.cs # <<>>
    <3>1. Added(s, U, L) BY <2>2, <1>1, GoodInc
    <3>2. \A M \in Threads : s.th[M].ci \in Nat BY GoodParts DEF Numeric
    <3> QED BY <3>1, <3>2 DEF Added, Framed
  <2> QED BY <2>1, <2>2
<1>4. U.th[L] \in ThreadType /\ U.th[L].ci \in Nat /\ s.th[L].ci \in Nat BY <1>1, <1>3, ThreadFields
<1> HIDE DEF d
<1>5. luaD_pcall(U, d, errfunc) = luaD_call(S, e)
  <2>1. [U EXCEPT !.th[d.L].errfunc = errfunc] = S BY <1>2, <1>3 DEF StateType
  <2> HIDE DEF S, e
  <2>2. [d EXCEPT !.ci = U.th[d.L].ci] = e BY <1>2 DEF e
  <2> QED BY <2>1, <2>2 DEF luaD_pcall
<1>6. /\ e \in EntryType /\ e.kind = "pcall" /\ e.L = L /\ e.C = C /\ e.level = 0 /\ e.ci = U.th[L].ci
      /\ e.nCcalls = s.th[L].nCcalls /\ e.errfunc = s.th[L].errfunc
  BY <1>2, <1>4 DEF EntryType
<1>7. /\ v \in ThreadType /\ v.ci = U.th[L].ci /\ v.size_ci = U.th[L].size_ci /\ v.status = U.th[L].status
      /\ v.nCcalls = U.th[L].nCcalls /\ v.baseCcalls = U.th[L].baseCcalls
  BY <1>4 DEF ThreadType
<1> HIDE DEF e, v
<1>8. /\ S \in StateType /\ S.cs = s.cs /\ S.raise = "none" /\ S.th[L] = v /\ \A M \in Threads : M # L => S.th[M] = U.th[M]
  <2>1. U.th \in [Threads -> ThreadType] BY <1>3 DEF StateType
  <2>2. [U.th EXCEPT ![L] = v] \in [Threads -> ThreadType] BY <2>1, <1>7
  <2> QED BY <2>1, <2>2, <1>1, <1>3 DEF StateType
<1> HIDE DEF S
<1>9. /\ MayCall(s.cs, e) /\ s.th[L].nCcalls = Len(s.cs) /\ s.th[L].status = "ok" BY <1>6, MayCallNow
<1>10. Roomful(S.th) BY <1>3, <1>7, <1>8 DEF Roomful, Roomy
<1>11. \A M \in Threads : s.th[M].ci <= S.th[M].ci BY <1>3, <1>7, <1>8
<1>12. \A M \in Threads : M # e.L => SameBook(s.th[M], S.th[M]) BY <1>3, <1>6, <1>8
<1>13. S.th[e.L].status = "ok" /\ S.th[e.L].nCcalls = Len(s.cs) /\ S.th[e.L].baseCcalls = s.th[e.L].baseCcalls
  BY <1>1, <1>3, <1>6, <1>7, <1>8, <1>9 DEF SameBook
<1>14. Len(s.cs) > 0 => s.cs[Len(s.cs)].level > 0 BY RunsAtLevel
<1>15. e.ci = S.th[e.L].ci /\ (Len(s.cs) > 0 => s.th[e.L].ci < e.ci) /\ (e.C => e.ci > 0)
  BY <1>3, <1>4, <1>6, <1>7, <1>8, GoodParts
<1>16. Good(luaD_call(S, e)) BY <1>6, <1>8, <1>9, <1>10, <1>11, <1>12, <1>13, <1>14, <1>15, GoodCall
<1> QED BY <1>5, <1>16 DEF d

\* The steps that call, and those that raise an error.
LEMMA CallingSteps ==
  ASSUME Good(s), HostCall \/ HostPcall \/ Call \/ Metamethod \/ Error \/ luaG_errormsg
  PROVE  Good(s')
<1>0. s \in StateType /\ Running(s) \in Threads /\ (s.cs = <<>> => Running(s) = Main) BY GoodParts, RunningIs
<1>1. CASE HostCall
  <2>1. s' = luaD_call(s, Entry("call", Running(s), FALSE)) /\ s.raise = "none"
    BY <1>0, <1>1 DEF HostCall, Idle
  <2> QED BY <2>1, CallStep
<1>2. CASE HostPcall
  <2>1. s' = luaD_pcall(s, Entry("pcall", Running(s), FALSE), FALSE) /\ s.raise = "none" /\ s.cs = <<>>
    BY <1>0, <1>2 DEF HostPcall, Idle
  <2>2. FALSE \in BOOLEAN OBVIOUS
  <2> QED BY <2>1, <2>2, PcallStep
<1>3. CASE Call
  <2>1. s' = inc_ci(s, Running(s)) /\ s.raise = "none" BY <1>3 DEF Call, Runnable, L0
  <2> QED BY <2>1, <1>0, GoodInc
<1>4. CASE Metamethod
  <2>1. s' = luaD_call(s, Entry("call", Running(s), FALSE)) /\ s.raise = "none"
    BY <1>4 DEF Metamethod, Runnable, L0
  <2> QED BY <2>1, CallStep
<1>5. CASE Error
  <2>1. s' = Raise(s, "runerror") /\ s.raise = "none" BY <1>5 DEF Error, Runnable
  <2> QED BY <2>1, GoodRaise
<1>6. CASE luaG_errormsg
  <2> DEFINE S == [s EXCEPT !.raise = "none"]
  <2>1. s.raise = "runerror" /\ s' = IF s.th[Running(s)].errfunc THEN luaD_call(S, Entry("handler", Running(s), FALSE))
                                     ELSE Raise(s, "throw")
    BY <1>6 DEF luaG_errormsg
  <2>2. S.raise = "none" BY <1>0 DEF StateType
  <2> HIDE DEF S
  <2>3. S = [s EXCEPT !.raise = "none"] BY DEF S
  <2>4. Good(luaD_call(S, Entry("handler", Running(s), FALSE))) BY <2>1, <2>2, <2>3, CallStep
  <2>5. Good(Raise(s, "throw")) BY <2>1, GoodRaise
  <2> QED BY <2>1, <2>4, <2>5
<1> QED BY <1>1, <1>2, <1>3, <1>4, <1>5, <1>6

\* pcall and xpcall.
LEMMA PcallKeeps ==
  ASSUME Good(s), NEW errfunc \in BOOLEAN, luaB_pcall(errfunc)
  PROVE  Good(s')
<1> DEFINE U == inc_ci(s, Running(s))
<1>1. /\ s.raise = "none" /\ s.cs # <<>>
      /\ s' = IF U.raise = "none" THEN luaD_pcall(U, Entry("pcall", Running(s), TRUE), errfunc) ELSE U
  BY DEF luaB_pcall, Runnable, L0, Then
<1>2. Good(U) BY <1>1, GoodParts, RunningIs, GoodInc
<1> HIDE DEF U
<1>3. U = inc_ci(s, Running(s)) /\ TRUE \in BOOLEAN BY DEF U
<1>4. CASE U.raise = "none"
  <2>1. Good(luaD_pcall(U, Entry("pcall", Running(s), TRUE), errfunc)) BY <1>1, <1>3, <1>4, PcallStep
  <2> QED BY <2>1, <1>1, <1>4
<1> QED BY <1>1, <1>2, <1>4

\* The collector gives back room.
LEMMA ShrinkKeeps ==
  ASSUME Good(s), NEW L \in Threads, Shrink(L)
  PROVE  Good(s')
<1> DEFINE t == s.th[L]
           v == [t EXCEPT !.size_ci = t.size_ci \div 2]
<1>1. t \in ThreadType /\ t.size_ci \in Nat /\ t.ci \in Nat /\ s \in StateType /\ s.raise \in Raises /\ Roomful(s.th)
  BY GoodParts, ThreadFields
<1>2. t.size_ci <= LUAI_MAXCALLS /\ 4 * t.ci < t.size_ci /\ 2 * BASIC_CI_SIZE < t.size_ci
      /\ s' = [s EXCEPT !.th[L].size_ci = @ \div 2]
  BY DEF Shrink
<1>3. s' = Update(s, L, v, s.raise) BY <1>1, <1>2 DEF StateType, Update
<1>4. v \in ThreadType /\ v.ci = t.ci /\ Roomy(v) /\ SameBook(t, v) /\ v.fn = t.fn /\ (v.status = "yield" => v.ci >= 2)
  <2>1. t.size_ci \div 2 \in Nat /\ t.ci < t.size_ci \div 2 /\ t.size_ci \div 2 <= 2 * LUAI_MAXCALLS
    BY <1>1, <1>2, CallAssumption
  <2>2. t.status = "yield" => t.ci >= 2 BY <1>1 DEF Roomful
  <2> QED BY <1>1, <2>1, <2>2 DEF ThreadType, Roomy, SameBook
<1> HIDE DEF v
<1>5. Framed(s, s', L) /\ Roomful(s'.th) /\ s'.raise = s.raise /\ s'.th[L] = v BY <1>1, <1>3, <1>4, ReplacedFrame
<1>6. s.th[L].ci <= s'.th[L].ci BY <1>1, <1>4, <1>5
<1> QED BY <1>5, <1>6, GoodGrow

-----------------------------------------------------------------------------
(* Coroutines: who is resumed, and how the resumer goes on.                *)

\* The running thread has a frame above all that is saved for it: that of the C function it called.
Spare(S) ==
  /\ S.cs # <<>>
  /\ \A i \in DOMAIN S.cs : S.cs[i].L = Running(S) => S.cs[i].level < S.th[Running(S)].ci /\ S.cs[i].ci < S.th[Running(S)].ci

\* The C function that was called returns.
LEMMA GoodPop ==
  ASSUME NEW S, Good(S), Spare(S)
  PROVE  Good(luaD_poscall(S, Running(S)))
<1> DEFINE L == Running(S)
           U == luaD_poscall(S, L)
           q == S.cs
<1>1. /\ L = q[Len(q)].L /\ Len(q) > 0 /\ L \in Threads /\ Len(q) \in DOMAIN q /\ S.th[L].status = "ok"
  BY RunningCounts DEF Spare
<1>2. S \in StateType /\ Roomful(S.th) /\ S.th[L].ci \in Nat /\ Stacked(q) /\ Entries(q) BY <1>1, GoodParts, ThreadFields
<1>3. S.th[L].ci > 0 BY <1>1, <1>2 DEF Spare, Entries
<1>4. Framed(S, U, L) /\ Roomful(U.th) /\ U.raise = S.raise /\ U.th[L].ci = S.th[L].ci - 1
  BY <1>1, <1>2, <1>3, Poscall
<1> HIDE DEF U
<1>5. U \in StateType /\ U.cs = q BY <1>4 DEF Framed
<1>6. Counts(q, U.th) BY <1>4, GoodParts, CountsSame DEF Framed
<1>7. Frames(q, U.th, U.raise)
  <2>0. \A M \in Threads : M # L => U.th[M] = S.th[M] BY <1>4 DEF Framed
  <2>1. \A i \in DOMAIN q : q[i].level <= U.th[q[i].L].ci /\ q[i].ci <= U.th[q[i].L].ci
    <3> SUFFICES ASSUME NEW i \in DOMAIN q PROVE q[i].level <= U.th[q[i].L].ci /\ q[i].ci <= U.th[q[i].L].ci OBVIOUS
    <3>1. q[i].L \in Threads /\ q[i].level \in Nat /\ q[i].ci \in Nat BY <1>2 DEF Stacked, Entries
    <3>2. CASE q[i].L = L
      <4>1. q[i].level < S.th[L].ci /\ q[i].ci < S.th[L].ci BY <3>2 DEF Spare
      <4> QED BY <3>1, <3>2, <4>1, <1>2, <1>4
    <3>3. CASE q[i].L # L
      <4>1. q[i].level <= S.th[q[i].L].ci /\ q[i].ci <= S.th[q[i].L].ci BY GoodParts DEF Frames
      <4> QED BY <3>1, <3>3, <4>1, <2>0
    <3> QED BY <3>2, <3>3
  <2>2. \A i \in DOMAIN q : q[i].L # q[Len(q)].L => q[i].level < U.th[q[i].L].ci /\ q[i].ci < U.th[q[i].L].ci
    BY <1>1, <1>2, <2>0, GoodParts DEF Frames, Stacked
  <2> QED BY <2>1, <2>2, <1>4, GoodParts DEF Frames, Roomful
<1>8. Limit(q, U.raise) BY <1>4, GoodParts DEF Limit
<1>9. Good(U) BY <1>5, <1>6, <1>7, <1>8, GoodParts DEF Good
<1> QED BY <1>9 DEF U

\* The resumer goes on, or the error is raised again.
LEMMA GoodResumer ==
  ASSUME NEW S, Good(S), Spare(S), S.raise # "throw", NEW kind, NEW failed
  PROVE  Good(Resumer(S, kind, failed))
<1>1. Good(luaD_poscall(S, Running(S))) BY GoodPop
<1>2. Good(Raise(S, "runerror")) BY GoodRaise
<1> QED BY <1>1, <1>2 DEF Resumer

\* What a coroutine without activation counts does not matter.
LEMMA GoodIdle ==
  ASSUME NEW S, Good(S), NEW co \in Coroutines, \A i \in DOMAIN S.cs : S.cs[i].L # co,
         NEW v \in ThreadType, v.status = S.th[co].status, v.errfunc <=> S.th[co].errfunc,
         v.ci = S.th[co].ci, v.size_ci = S.th[co].size_ci, NEW U, U = Update(S, co, v, S.raise)
  PROVE  /\ Good(U) /\ (Spare(S) => Spare(U)) /\ Running(U) = Running(S) /\ U.cs = S.cs /\ U.raise = S.raise
         /\ U.th[co] = v /\ \A M \in Threads : M # co => U.th[M] = S.th[M]
<1>0. S \in StateType /\ S.raise \in Raises /\ co \in Threads /\ co # Main /\ Running(S) \in Threads
  BY GoodParts, RunningIs, CallAssumption DEF Threads
<1>1. /\ U \in StateType /\ U.cs = S.cs /\ U.raise = S.raise /\ U.th[co] = v
      /\ \A M \in Threads : M # co => U.th[M] = S.th[M]
  BY <1>0, Replaced
<1>2. Running(U) = Running(S) BY <1>1 DEF Running
<1>3. Counts(S.cs, U.th)
  <2>1. \A i \in DOMAIN S.cs : U.th[S.cs[i].L] = S.th[S.cs[i].L] BY <1>1, GoodParts DEF Stacked
  <2>2. U.th[Main] = S.th[Main] BY <1>0, <1>1 DEF Threads
  <2>3. \A L \in Coroutines : U.th[L].status = S.th[L].status /\ (U.th[L].errfunc <=> S.th[L].errfunc)
    BY <1>1 DEF Threads
  <2>4. Counts(S.cs, S.th) BY GoodParts
  <2> QED BY <2>1, <2>2, <2>3, <2>4, CountsIdle
<1>4. Frames(S.cs, U.th, S.raise)
  <2>1. \A M \in Threads : U.th[M].status = S.th[M].status /\ U.th[M].ci = S.th[M].ci /\ U.th[M].size_ci = S.th[M].size_ci
    BY <1>1
  <2>2. Roomful(U.th) BY <2>1, GoodParts DEF Roomful, Roomy
  <2>3. \A M \in Threads : S.th[M].ci <= U.th[M].ci BY <2>1, GoodParts DEF Numeric
  <2> QED BY <2>2, <2>3, <1>1, GoodParts, StackTypes, FramesGrow
<1>5. Good(U) BY <1>1, <1>3, <1>4, GoodParts DEF Good
<1>6. Spare(S) => Spare(U)
  <2>1. U.th[Running(S)].ci = S.th[Running(S)].ci BY <1>0, <1>1
  <2> QED BY <1>1, <1>2, <2>1 DEF Spare
<1> QED BY <1>1, <1>2, <1>5, <1>6

\* A good state stays one when the running thread, which has got the frame of
\* coroutine.resume, resumes a coroutine.
LEMMA GoodResume ==
  ASSUME NEW O, Good(O), O.cs # <<>>, O.raise = "none", Len(O.cs) < LUAI_MAXCCALLS,
         NEW d \in EntryType, MayResume(O.cs, d), d.ci = 0,
         NEW W \in StateType, W.cs = Append(O.cs, d), Roomful(W.th),
         \A M \in Threads : M # d.L => SameBook(O.th[M], W.th[M]) /\ O.th[M].ci <= W.th[M].ci,
         O.th[Running(O)].ci < W.th[Running(O)].ci,
         W.th[d.L].status = "ok", W.th[d.L].nCcalls = Len(O.cs) + 1, W.th[d.L].baseCcalls = Len(O.cs) + 1,
         W.th[d.L].errfunc <=> d.errfunc,
         d.level <= W.th[d.L].ci, W.raise = "none" => d.level > 0
  PROVE  Good(W)
<1> DEFINE q == O.cs
<1>1. /\ Blocks(q) /\ Counts(q, O.th) /\ Frames(q, O.th, O.raise) /\ q \in Seq(EntryType) /\ Stacked(q) /\ Entries(q)
      /\ Numeric(O.th) /\ Len(q) \in Nat /\ DOMAIN q = 1 .. Len(q)
  BY GoodParts
<1>2. IsPush(W.cs, q, d) BY <1>1, AppendPushes
<1>3. Blocks(W.cs) BY <1>1, <1>2, BlocksResume
<1>4. Counts(W.cs, W.th) BY <1>1, <1>2, CountsResume
<1>5. Frames(W.cs, W.th, W.raise)
  <2>1. /\ Running(O) = q[Len(q)].L /\ Len(q) \in DOMAIN q /\ Len(q) > 0 BY RunningCounts
  <2>2. \A i \in DOMAIN q : q[i].L # d.L BY DEF MayResume
  <2>3. d.L \in Threads /\ d.level \in Nat /\ d.ci \in Nat BY DEF EntryType
  <2>4. d.kind # "pcall" BY DEF MayResume, IsResume
  <2>5. Numeric(W.th) BY StackTypes
  <2>6. q[Len(q)].level > 0 BY <1>1, <2>1 DEF Frames
  <2>7. d.ci <= W.th[d.L].ci BY <2>3, <2>5 DEF Numeric
  <2>8. \A M \in Threads : M # d.L => O.th[M].ci <= W.th[M].ci OBVIOUS
  <2>9. /\ Len(q) > 0 => d.kind = "handler" \/ q[Len(q)].level > 0
        /\ Len(q) > 0 /\ q[Len(q)].L # d.L => /\ O.th[q[Len(q)].L].ci < W.th[q[Len(q)].L].ci
                                              /\ \A i \in DOMAIN q : q[i].L # d.L
        /\ Len(q) > 0 /\ q[Len(q)].L = d.L => /\ O.th[d.L].ci <= W.th[d.L].ci
                                              /\ d.level > 0 => O.th[d.L].ci < d.level
                                              /\ d.kind = "pcall" => O.th[d.L].ci < d.ci
        /\ d.kind = "pcall" => (d.C => d.ci > 0) /\ (d.level > 0 => d.level = d.ci + 1)
        /\ d.kind # "pcall" => d.ci = 0
    BY <2>1, <2>2, <2>4, <2>6
  <2> QED BY <1>1, <1>2, <2>3, <2>5, <2>7, <2>8, <2>9, FramesPush
<1>6. Limit(W.cs, W.raise)
  <2>1. Len(W.cs) = Len(q) + 1 BY <1>2 DEF IsPush
  <2> QED BY <1>1, <2>1, CallAssumption DEF Limit
<1> QED BY <1>3, <1>4, <1>5, <1>6 DEF Good

\* A coroutine that may be resumed has no activation, and no error handler.
LEMMA ResumableIsIdle ==
  ASSUME NEW S, Good(S), NEW co \in Coroutines, Resumable(S, co)
  PROVE  /\ \A i \in DOMAIN S.cs : S.cs[i].L # co
         /\ S.th[co].status # "err" /\ ~S.th[co].errfunc /\ (S.th[co].status = "yield" \/ S.th[co].ci = 0)
         /\ S.th[co].status = "yield" => S.th[co].ci >= 2
<1>1. /\ Running(S) # co /\ (S.th[co].status = "yield" \/ S.th[co].ci = 0) /\ S.th[co].status # "err"
  <2>1. costatus(S, co) = "suspended" BY DEF Resumable
  <2>2. Running(S) # co BY <2>1 DEF costatus
  <2>3. S.th[co].status # "err" BY <2>1, <2>2 DEF costatus
  <2> QED BY <2>2, <2>3 DEF Resumable
<1>2. \A i \in DOMAIN S.cs : S.cs[i].L # co
  <2> SUFFICES ASSUME NEW i \in DOMAIN S.cs, S.cs[i].L = co PROVE FALSE OBVIOUS
  <2>1. S.th[co].status = "ok" BY GoodParts DEF Counts
  <2>2. S.th[co].ci = 0 BY <2>1, <1>1
  <2>3. S.cs # <<>> OBVIOUS
  <2>4. S.cs[Len(S.cs)].L # co BY <1>1, <2>3, RunningCounts
  <2>5. S.cs[i].level < S.th[co].ci BY <2>4, GoodParts DEF Frames
  <2>6. S.cs[i].level \in Nat BY GoodParts DEF Entries
  <2> QED BY <2>2, <2>5, <2>6
<1>3. ~S.th[co].errfunc BY <1>1, <1>2, GoodParts DEF Counts
<1>4. S.th[co].status = "yield" => S.th[co].ci >= 2 BY GoodParts DEF Roomful, Threads
<1> QED BY <1>1, <1>2, <1>3, <1>4

\* resume, for a coroutine that starts or goes on.
LEMMA ResumeStep ==
  ASSUME Good(s), s.raise = "none", s.cs # <<>>, NEW co \in Coroutines, NEW kind \in {"resume", "wrap"},
         \A i \in DOMAIN s.cs : s.cs[i].L # co, ~s.th[co].errfunc, Len(s.cs) < LUAI_MAXCCALLS,
         NEW S \in StateType, S.cs = s.cs, S.raise = "none", Roomful(S.th),
         \A M \in Threads : M # co => SameBook(s.th[M], S.th[M]) /\ s.th[M].ci <= S.th[M].ci,
         s.th[Running(s)].ci < S.th[Running(s)].ci,
         S.th[co].nCcalls = Len(s.cs), ~S.th[co].errfunc, S.th[co].status = "yield" \/ S.th[co].ci = 0
  PROVE  Good(resume(S, co, kind))
<1> DEFINE t == S.th[co]
           n == S.th[co].nCcalls + 1
           v1 == [t EXCEPT !.nCcalls = n]
           v2 == [v1 EXCEPT !.baseCcalls = n]
           v == [v2 EXCEPT !.status = "ok"]
           e0 == Entry(kind, co, TRUE)
           e == [e0 EXCEPT !.nCcalls = n - 1]
           U == [S EXCEPT !.th = [S.th EXCEPT ![co] = v], !.cs = Append(s.cs, e)]
           W == resume(S, co, kind)
<1>1. /\ s \in StateType /\ co \in Threads /\ kind \in Kinds /\ TRUE \in BOOLEAN /\ Len(s.cs) \in Nat
      /\ s.cs \in Seq(EntryType) /\ t \in ThreadType /\ S.th \in [Threads -> ThreadType] /\ co # Main
      /\ t.ci \in Nat /\ Roomy(t) /\ (t.status = "yield" => t.ci >= 2)
  BY GoodParts, ThreadFields, CallAssumption DEF Kinds, Threads, StateType, Roomful
<1>2. /\ e0 \in EntryType /\ e0.kind = kind /\ e0.L = co /\ e0.C = TRUE /\ e0.level = 0 /\ e0.ci = 0
      /\ e0.errfunc = s.th[co].errfunc
  <2>1. Fresh(e0, kind, co, TRUE) BY <1>1, EntryFields
  <2> QED BY <2>1 DEF Fresh
<1>n. n \in Nat /\ n - 1 \in Nat /\ n = Len(s.cs) + 1 /\ n = S.th[co].nCcalls + 1 BY <1>1
<1> HIDE DEF e0, n
<1>3. /\ e \in EntryType /\ e.kind = kind /\ e.L = co /\ e.C = TRUE /\ e.level = 0 /\ e.ci = 0 /\ ~e.errfunc
  <2>1. /\ e \in EntryType /\ e.kind = kind /\ e.L = co /\ e.C = TRUE /\ e.level = 0 /\ e.ci = 0 /\ e.errfunc = s.th[co].errfunc
    BY <1>n, <1>2 DEF EntryType
  <2> QED BY <2>1
<1>v. /\ v \in ThreadType /\ v.ci = t.ci /\ v.size_ci = t.size_ci /\ v.nCcalls = n /\ v.baseCcalls = n
      /\ v.status = "ok" /\ ~v.errfunc
  <2>1. /\ v1 \in ThreadType /\ v1.ci = t.ci /\ v1.size_ci = t.size_ci /\ v1.nCcalls = n /\ v1.errfunc = t.errfunc
    BY <1>1, <1>n DEF ThreadType
  <2> HIDE DEF v1
  <2>2. /\ v2 \in ThreadType /\ v2.ci = t.ci /\ v2.size_ci = t.size_ci /\ v2.nCcalls = n /\ v2.baseCcalls = n /\ v2.errfunc = t.errfunc
    BY <1>n, <2>1 DEF ThreadType
  <2> HIDE DEF v2
  <2>3. /\ v \in ThreadType /\ v.ci = t.ci /\ v.size_ci = t.size_ci /\ v.nCcalls = n /\ v.baseCcalls = n
        /\ v.status = "ok" /\ v.errfunc = t.errfunc
    BY <1>n, <2>2 DEF ThreadType
  <2> QED BY <2>3
<1>4. Resumed(S, co, kind) = U
  <2>1. [S EXCEPT !.th[co].nCcalls = n, !.th[co].baseCcalls = n, !.cs = Append(@, e), !.th[co].status = "ok"]
        = [S EXCEPT !.th = [S.th EXCEPT ![co] = [t EXCEPT !.nCcalls = n, !.baseCcalls = n, !.status = "ok"]], !.cs = Append(s.cs, e)]
    BY ZenonT(60), <1>1 DEF StateType
  <2>2. [t EXCEPT !.nCcalls = n, !.baseCcalls = n, !.status = "ok"] = v OBVIOUS
  <2> HIDE DEF v, e
  <2>3. [Entry(kind, co, TRUE) EXCEPT !.nCcalls = n - 1] = e BY DEF e, e0
  <2> QED BY <2>1, <2>2, <2>3 DEF Resumed, n
<1> HIDE DEF v, e, W
<1>5. /\ U \in StateType /\ U.cs = Append(s.cs, e) /\ U.th[co] = v /\ U.raise = "none"
      /\ \A M \in Threads : M # co => U.th[M] = S.th[M]
  <2>1. [S.th EXCEPT ![co] = v] \in [Threads -> ThreadType] /\ Append(s.cs, e) \in Seq(EntryType) BY <1>1, <1>3, <1>v
  <2> QED BY <1>1, <2>1 DEF StateType
<1> HIDE DEF U
<1>w. W = IF t.status = "yield" THEN [luaD_poscall(U, co) EXCEPT !.cs[Len(U.cs)].level = 1]
          ELSE Runs([U EXCEPT !.th[co].fn = FALSE])
  BY <1>4 DEF resume, W
<1>6. Roomful(U.th) BY <1>1, <1>5, <1>v DEF Roomful, Roomy
<1>7. Running(s) \in Threads /\ Running(s) # co BY RunningCounts
<1> SUFFICES ASSUME TRUE PROVE Good(W) BY DEF W
<1>8. CASE t.status = "yield"
  <2> DEFINE P == luaD_poscall(U, co)
             d == [e EXCEPT !.level = 1]
  <2>1. /\ Framed(U, P, co) /\ Roomful(P.th) /\ P.raise = "none" /\ P.th[co].ci = t.ci - 1
    BY <1>1, <1>5, <1>6, <1>8, <1>v, Poscall
  <2>2. W = [P EXCEPT !.cs[Len(U.cs)].level = 1] BY <1>w, <1>8
  <2> HIDE DEF P
  <2>3. /\ P \in StateType /\ P.cs = Append(s.cs, e) /\ (\A M \in Threads : SameBook(U.th[M], P.th[M]))
        /\ \A M \in Threads : M # co => P.th[M] = S.th[M]
    BY <2>1, <1>5 DEF Framed
  <2>4. /\ d \in EntryType /\ d.kind = kind /\ d.L = co /\ d.level = 1 /\ d.ci = 0 /\ ~d.errfunc
    BY <1>3 DEF EntryType
  <2>5. W = [P EXCEPT !.cs = [P.cs EXCEPT ![Len(s.cs) + 1] = d]]
    <3>1. Len(U.cs) = Len(s.cs) + 1 /\ P.cs[Len(s.cs) + 1] = e BY <1>1, <1>3, <1>5, <2>3, AppendPushes DEF IsPush
    <3> QED BY <2>2, <3>1
  <2> HIDE DEF d
  <2>6. [P.cs EXCEPT ![Len(s.cs) + 1] = d] = Append(s.cs, d)
    <3>1. e \in EntryType /\ d \in EntryType /\ s.cs \in Seq(EntryType) BY <1>1, <1>3, <2>4
    <3>2. PutAt(Append(s.cs, e), Len(s.cs) + 1, d) = Append(s.cs, d) BY <3>1, ReplaceLast
    <3> QED BY <2>3, <3>2 DEF PutAt
  <2>7. Append(s.cs, d) \in Seq(EntryType) BY <1>1, <2>4
  <2>8. W \in StateType /\ W.cs = Append(s.cs, d) /\ W.th = P.th /\ W.raise = "none"
    BY <2>1, <2>3, <2>5, <2>6, <2>7 DEF StateType
  <2>9. MayResume(s.cs, d) BY <1>1, <2>4, GoodParts DEF MayResume, IsResume
  <2>10. /\ W.th[d.L].status = "ok" /\ W.th[d.L].nCcalls = n /\ W.th[d.L].baseCcalls = n /\ (W.th[d.L].errfunc <=> d.errfunc)
         /\ W.th[d.L].ci = t.ci - 1
    BY <1>1, <1>5, <1>v, <2>1, <2>3, <2>4, <2>8 DEF SameBook
  <2>11. d.level <= W.th[d.L].ci BY <1>1, <1>8, <2>4, <2>10
  <2>12. \A M \in Threads : M # d.L => SameBook(s.th[M], W.th[M]) /\ s.th[M].ci <= W.th[M].ci BY <2>3, <2>4, <2>8
  <2>13. s.th[Running(s)].ci < W.th[Running(s)].ci BY <1>7, <2>3, <2>8
  <2>14. Roomful(W.th) /\ (W.raise = "none" => d.level > 0) BY <2>1, <2>4, <2>8
  <2> QED BY <1>n, <2>4, <2>8, <2>9, <2>10, <2>11, <2>12, <2>13, <2>14, GoodResume
<1>9. CASE t.status # "yield"
  <2> DEFINE w == [v EXCEPT !.fn = FALSE]
             X == [U EXCEPT !.th[co].fn = FALSE]
  <2>1. w \in ThreadType /\ w.ci = t.ci /\ w.size_ci = t.size_ci /\ w.nCcalls = n /\ w.baseCcalls = n
        /\ w.status = "ok" /\ ~w.errfunc
    BY <1>v DEF ThreadType
  <2>2. X = Update(U, co, w, "none") BY <1>5 DEF Update, StateType
  <2>0. U.th[co] = v /\ U.cs = Append(s.cs, e) BY <1>5
  <2>3. W = Runs(X) BY <1>w, <1>9
  <2> HIDE DEF w, X
  <2>4. "none" \in Raises BY DEF Raises
  <2>5. /\ X \in StateType /\ X.cs = Append(s.cs, e) /\ X.raise = "none" /\ X.th[co] = w
        /\ \A M \in Threads : M # co => X.th[M] = S.th[M]
    <3> DEFINE Y == Update(U, co, w, "none")
    <3>1. /\ Y \in StateType /\ Y.cs = U.cs /\ Y.raise = "none" /\ Y.th[co] = w /\ \A M \in Threads : M # co => Y.th[M] = U.th[M]
      BY <1>1, <1>5, <2>1, <2>4, Replaced
    <3> QED BY <3>1, <1>5, <2>2
  <2>6. Roomful(X.th) BY <2>1, <2>5, <1>1 DEF Roomful, Roomy
  <2>7. Ran(X, W, s.cs, e) BY <1>1, <1>3, <2>3, <2>5, <2>6, RunsEnters
  <2>8. PICK d \in EntryType :
       /\ W.cs = Append(s.cs, d) /\ SameButLevel(d, e)
       /\ \/ /\ W.raise = "none" /\ W.th[e.L].ci = X.th[e.L].ci + 1 /\ d.level = X.th[e.L].ci + 1
          \/ /\ W.raise \in {"runerror", "throw"} /\ W.th[e.L].ci = X.th[e.L].ci /\ d.level = 0
    BY <2>7 DEF Ran
  <2>9. d.kind = kind /\ d.L = co /\ d.ci = 0 /\ ~d.errfunc BY <2>8, <1>3 DEF SameButLevel
  <2>10. MayResume(s.cs, d) BY <1>1, <2>9, GoodParts DEF MayResume, IsResume
  <2>11. /\ W.th[d.L].status = "ok" /\ W.th[d.L].nCcalls = n /\ W.th[d.L].baseCcalls = n /\ (W.th[d.L].errfunc <=> d.errfunc)
    BY <1>1, <2>1, <2>5, <2>7, <2>9 DEF SameBook, Ran
  <2>12. d.level <= W.th[d.L].ci /\ (W.raise = "none" => d.level > 0)
    <3>1. X.th[e.L].ci \in Nat BY <1>1, <1>3, <2>1, <2>5
    <3> QED BY <3>1, <2>8, <2>9, <1>3
  <2>13. \A M \in Threads : M # d.L => SameBook(s.th[M], W.th[M]) /\ s.th[M].ci <= W.th[M].ci
    BY <1>3, <2>5, <2>7, <2>9 DEF Ran
  <2>14. s.th[Running(s)].ci < W.th[Running(s)].ci BY <1>3, <1>7, <2>5, <2>7 DEF Ran
  <2>15. W \in StateType /\ Roomful(W.th) BY <2>7 DEF Ran
  <2> QED BY <1>n, <2>8, <2>9, <2>10, <2>11, <2>12, <2>13, <2>14, <2>15, GoodResume
<1> QED BY <1>8, <1>9

\* The C function that the running thread called has a frame of its own.
LEMMA SpareFrame ==
  ASSUME NEW O, Good(O), O.cs # <<>>, O.raise = "none", NEW U, U = inc_ci(O, Running(O)), U.raise = "none"
  PROVE  /\ Good(U) /\ Spare(U) /\ U.cs = O.cs /\ Running(U) = Running(O) /\ U.th[Running(O)].ci = O.th[Running(O)].ci + 1
         /\ \A M \in Threads : SameBook(O.th[M], U.th[M]) /\ O.th[M].ci <= U.th[M].ci
<1> DEFINE L == Running(O)
<1>1. L \in Threads /\ L = O.cs[Len(O.cs)].L BY RunningCounts
<1>2. Good(U) /\ Added(O, U, L) BY SMTT(20), <1>1, GoodInc
<1>3. U.cs = O.cs /\ U.th[L].ci = O.th[L].ci + 1 /\ O.th[L].ci \in Nat BY <1>1, <1>2, GoodParts DEF Added, Framed, Numeric
<1>4. Running(U) = L BY <1>3 DEF Running
<1>5. Spare(U)
  <2>1. \A i \in DOMAIN O.cs : O.cs[i].level <= O.th[O.cs[i].L].ci /\ O.cs[i].ci <= O.th[O.cs[i].L].ci
    BY GoodParts DEF Frames
  <2>2. \A i \in DOMAIN O.cs : O.cs[i].level \in Nat /\ O.cs[i].ci \in Nat BY GoodParts DEF Entries
  <2> HIDE DEF L
  <2> QED BY <1>3, <1>4, <2>1, <2>2 DEF Spare
<1>6. \A M \in Threads : SameBook(O.th[M], U.th[M]) /\ O.th[M].ci <= U.th[M].ci
  BY <1>2, <1>3, GoodParts DEF Added, Framed, Numeric
<1> QED BY <1>2, <1>3, <1>4, <1>5, <1>6

\* coroutine.resume, and a function that coroutine.wrap made.
LEMMA CoresumeKeeps ==
  ASSUME Good(s), NEW co \in Coroutines, NEW kind \in {"resume", "wrap"}, luaB_coresume(co, kind)
  PROVE  Good(s')
<1> DEFINE R == Running(s)
           U == inc_ci(s, R)
           S == lua_setlevel(U, co)
<1>1. /\ s.raise = "none" /\ s.cs # <<>> /\ s' = IF U.raise = "none" THEN auxresume(U, co, kind) ELSE U
  BY DEF luaB_coresume, Runnable, L0, Then
<1>2. Good(U) BY <1>1, GoodParts, RunningIs, GoodInc
<1> HIDE DEF U
<1>3. CASE U.raise # "none" BY <1>1, <1>2, <1>3
<1> SUFFICES ASSUME U.raise = "none" PROVE Good(auxresume(U, co, kind)) BY <1>1, <1>3
<1>4. /\ Spare(U) /\ U.cs = s.cs /\ Running(U) = R /\ U.th[R].ci = s.th[R].ci + 1
      /\ \A M \in Threads : SameBook(s.th[M], U.th[M]) /\ s.th[M].ci <= U.th[M].ci
  BY <1>1, SpareFrame DEF U
<1>5. CASE ~Resumable(U, co)
  <2>1. Good(Resumer(U, kind, TRUE)) BY <1>2, <1>4, GoodResumer
  <2> QED BY <1>5, <2>1 DEF auxresume
<1>6. CASE Resumable(U, co)
  <2> DEFINE t == U.th[co]
             v == [t EXCEPT !.nCcalls = Len(s.cs)]
  <2>1. /\ (\A i \in DOMAIN s.cs : s.cs[i].L # co) /\ ~t.errfunc /\ (t.status = "yield" \/ t.ci = 0)
    BY <1>2, <1>4, <1>6, ResumableIsIdle
  <2>2. /\ co \in Threads /\ t \in ThreadType /\ U \in StateType /\ U.raise \in Raises /\ Len(s.cs) \in Nat /\ R \in Threads /\ R # co
        /\ s.th[R].ci \in Nat
    BY <1>1, <1>2, <2>1, GoodParts, ThreadFields, RunningCounts DEF Threads, Numeric
  <2>3. U.th[Running(U)].nCcalls = Len(s.cs) BY <1>1, <1>2, <1>4, RunningCounts
  <2>4. S = Update(U, co, v, U.raise) BY <2>2, <2>3 DEF lua_setlevel, Update, StateType
  <2>5. /\ v \in ThreadType /\ v.status = t.status /\ v.errfunc = t.errfunc /\ v.ci = t.ci /\ v.size_ci = t.size_ci
        /\ v.nCcalls = Len(s.cs)
    BY <2>2 DEF ThreadType
  <2> HIDE DEF v, S
  <2>6. /\ Good(S) /\ Spare(S) /\ Running(S) = R /\ S.cs = s.cs /\ S.raise = "none" /\ S.th[co] = v
        /\ \A M \in Threads : M # co => S.th[M] = U.th[M]
    BY <1>2, <1>4, <2>1, <2>4, <2>5, GoodIdle
  <2>7. CASE S.th[co].nCcalls >= LUAI_MAXCCALLS
    <3> DEFINE w == [v EXCEPT !.fn = FALSE]
               X == [S EXCEPT !.th[co].fn = FALSE]
    <3>1. X = Update(S, co, w, S.raise) BY <2>6, GoodParts DEF Update, StateType
    <3>2. w \in ThreadType /\ w.status = v.status /\ w.errfunc = v.errfunc /\ w.ci = v.ci /\ w.size_ci = v.size_ci
      BY <2>5 DEF ThreadType
    <3>3. lua_resume(S, co, kind) = Resumer(X, kind, TRUE) BY <2>7 DEF lua_resume, resume_error
    <3> HIDE DEF w, X
    <3>4. Good(X) /\ Spare(X) /\ X.raise = "none" BY <2>1, <2>6, <3>1, <3>2, GoodIdle
    <3>5. Good(Resumer(X, kind, TRUE)) BY <3>4, GoodResumer
    <3> QED BY <1>6, <3>3, <3>5 DEF auxresume, S
  <2>8. CASE ~(S.th[co].nCcalls >= LUAI_MAXCCALLS)
    <3>1. lua_resume(S, co, kind) = resume(S, co, kind) BY <2>8 DEF lua_resume
    <3>2. Len(s.cs) < LUAI_MAXCCALLS BY <2>2, <2>5, <2>6, <2>8, CallAssumption
    <3>3. ~s.th[co].errfunc BY <1>4, <2>1, <2>2 DEF SameBook
    <3>4. S \in StateType /\ Roomful(S.th) BY <2>6, GoodParts
    <3>5. \A M \in Threads : M # co => SameBook(s.th[M], S.th[M]) /\ s.th[M].ci <= S.th[M].ci BY <1>4, <2>6
    <3>6. s.th[R].ci < S.th[R].ci BY <1>4, <2>2, <2>6
    <3>7. S.th[co].nCcalls = Len(s.cs) /\ ~S.th[co].errfunc /\ (S.th[co].status = "yield" \/ S.th[co].ci = 0)
      BY <2>1, <2>5, <2>6
    <3>8. Good(resume(S, co, kind)) BY <1>1, <2>1, <2>6, <3>2, <3>3, <3>4, <3>5, <3>6, <3>7, ResumeStep
    <3> QED BY <1>6, <3>1, <3>8 DEF auxresume, S
  <2> QED BY <2>7, <2>8
<1> QED BY <1>5, <1>6

-----------------------------------------------------------------------------
(* Leaving activations: by a return, an error or a yield.                  *)

\* The C stack is cut at an activation of the running thread.
LEMMA CutsOwn ==
  ASSUME NEW O, Good(O), NEW at \in DOMAIN O.cs, O.cs[at].L = Running(O)
  PROVE  /\ SubSeq(O.cs, 1, at - 1) \in Seq(EntryType) /\ IsUnwind(SubSeq(O.cs, 1, at - 1), O.cs, at)
         /\ O.cs # <<>> /\ O.cs[at] \in EntryType /\ O.cs[at].L \in Threads
<1> DEFINE q == O.cs
<1>1. Blocks(q) /\ q \in Seq(EntryType) /\ DOMAIN q = 1 .. Len(q) /\ Len(q) \in Nat BY GoodParts
<1>2. at - 1 \in 0 .. Len(q) /\ at \in Nat /\ Len(q) \in DOMAIN q /\ q # <<>> BY <1>1
<1>3. q[at].L = q[Len(q)].L BY <1>2, RunningCounts
<1>4. \A k \in DOMAIN q : k >= at => q[k].L = q[at].L
  <2> SUFFICES ASSUME NEW k \in DOMAIN q, k >= at PROVE q[k].L = q[at].L OBVIOUS
  <2>1. at <= k /\ k <= Len(q) BY <1>1
  <2> QED BY <1>1, <1>2, <1>3, <2>1 DEF Blocks
<1>5. SubSeq(q, 1, at - 1) \in Seq(EntryType) /\ IsCut(SubSeq(q, 1, at - 1), q, at - 1) BY <1>1, <1>2, SubSeqCuts
<1>6. q[at] \in EntryType BY <1>1
<1>7. q[at].L \in Threads BY <1>6 DEF EntryType
<1> QED BY <1>2, <1>4, <1>5, <1>6, <1>7 DEF IsUnwind

\* From O, the running thread has left the call e at position at, and those above it.
Left(O, U, at, e) ==
  /\ at \in DOMAIN O.cs /\ O.cs[at] = e /\ e.L = Running(O) /\ ~IsResume(e)
  /\ U \in StateType /\ U.cs = SubSeq(O.cs, 1, at - 1) /\ Roomful(U.th)
  /\ \A M \in Threads : M # e.L => U.th[M] = O.th[M]
  /\ U.th[e.L].status = "ok" /\ U.th[e.L].nCcalls = at - 1 /\ U.th[e.L].baseCcalls = O.th[e.L].baseCcalls
  /\ U.th[e.L].errfunc <=> e.errfunc
  /\ \A i \in DOMAIN O.cs : i < at /\ O.cs[i].L = e.L => O.cs[i].level <= U.th[e.L].ci /\ O.cs[i].ci <= U.th[e.L].ci
  /\ U.raise = "none" => e.kind # "handler"

\* A good state stays one when the running thread leaves a call.
LEMMA GoodReturn ==
  ASSUME NEW O, Good(O), NEW U, NEW at, NEW e, Left(O, U, at, e)
  PROVE  Good(U)
<1> USE DEF Left
<1> DEFINE q == O.cs
           L == q[at].L
           p == U.cs
<1>1. /\ Blocks(q) /\ Counts(q, O.th) /\ Frames(q, O.th, O.raise) /\ Limit(q, O.raise) /\ Stacked(q)
      /\ DOMAIN q = 1 .. Len(q) /\ Len(q) \in Nat
  BY GoodParts
<1>2. IsUnwind(p, q, at) BY CutsOwn
<1>3. IsCut(p, q, at - 1) /\ DOMAIN p = 1 .. at - 1 BY <1>2 DEF IsUnwind, IsCut
<1>4. Blocks(p) BY <1>1, <1>3, BlocksCut
<1>5. Counts(p, U.th)
  <2>1. \A M \in Threads : M # q[at].L => SameBook(O.th[M], U.th[M]) BY DEF SameBook
  <2>2. /\ U.th[q[at].L].status = "ok" /\ U.th[q[at].L].nCcalls = at - 1
        /\ U.th[q[at].L].baseCcalls = O.th[q[at].L].baseCcalls /\ (U.th[q[at].L].errfunc <=> q[at].errfunc) /\ ~IsResume(q[at])
    OBVIOUS
  <2> HIDE DEF q, p
  <2> QED BY <1>1, <1>2, <2>1, <2>2, CountsReturn
<1>6. Frames(p, U.th, U.raise)
  <2>0. q # <<>> BY CutsOwn
  <2>1. q[Len(q)].L = L BY <2>0, RunningCounts
  <2>2. \A i \in DOMAIN p : i \in DOMAIN q /\ i < at /\ q[i].L \in Threads BY <1>1, <1>3 DEF Stacked
  <2>3. \A i \in DOMAIN p : q[i].L # L => q[i].level < U.th[q[i].L].ci /\ q[i].ci < U.th[q[i].L].ci
    <3> SUFFICES ASSUME NEW i \in DOMAIN p, q[i].L # L
                 PROVE  q[i].level < U.th[q[i].L].ci /\ q[i].ci < U.th[q[i].L].ci
      OBVIOUS
    <3>1. q[i].level < O.th[q[i].L].ci /\ q[i].ci < O.th[q[i].L].ci BY <1>1, <2>1, <2>2 DEF Frames
    <3>2. U.th[q[i].L] = O.th[q[i].L] BY <2>2
    <3> QED BY <3>1, <3>2
  <2>4. \A i \in DOMAIN p : q[i].level <= U.th[q[i].L].ci /\ q[i].ci <= U.th[q[i].L].ci
    <3> SUFFICES ASSUME NEW i \in DOMAIN p PROVE q[i].level <= U.th[q[i].L].ci /\ q[i].ci <= U.th[q[i].L].ci OBVIOUS
    <3>1. CASE q[i].L = L BY <3>1, <2>2
    <3>2. CASE q[i].L # L
      <4>1. q[i].level \in Nat /\ q[i].ci \in Nat /\ U.th[q[i].L].ci \in Nat BY <2>2, GoodParts, StackTypes DEF Entries, Numeric
      <4>2. q[i].level < U.th[q[i].L].ci /\ q[i].ci < U.th[q[i].L].ci BY <2>3, <3>2
      <4> HIDE DEF q, L
      <4> QED BY <4>1, <4>2
    <3> QED BY <3>1, <3>2
  <2>5. \A i \in DOMAIN p : q[at - 1].L = L
    <3> SUFFICES ASSUME NEW i \in DOMAIN p PROVE q[at - 1].L = L OBVIOUS
    <3>1. at # 1 BY <1>3
    <3> QED BY <1>1, <3>1 DEF Blocks
  <2>6. \A i \in DOMAIN p : q[i].L # q[at - 1].L => q[i].level < U.th[q[i].L].ci /\ q[i].ci < U.th[q[i].L].ci
    BY <2>3, <2>5
  <2>7. U.raise = "none" => q[at].kind # "handler" OBVIOUS
  <2> HIDE DEF q, p, L
  <2> QED BY <1>1, <1>2, <2>4, <2>6, <2>7, FramesUnwind
<1>7. Limit(p, U.raise)
  <2>1. Len(p) = at - 1 /\ at - 1 < Len(q) BY <1>1, <1>3 DEF IsCut
  <2> QED BY <1>1, <2>1, CallAssumption DEF Limit
<1> QED BY <1>4, <1>5, <1>6, <1>7 DEF Good

\* A good state stays one when a coroutine is left: its resumer has the frame of coroutine.resume.
LEMMA GoodLeave ==
  ASSUME NEW O, Good(O), NEW at \in DOMAIN O.cs, O.cs[at].L = Running(O), IsResume(O.cs[at]),
         NEW U \in StateType, U.cs = SubSeq(O.cs, 1, at - 1), Roomful(U.th),
         \A M \in Threads : M # O.cs[at].L => U.th[M] = O.th[M],
         U.th[O.cs[at].L].status # "err" => ~U.th[O.cs[at].L].errfunc
  PROVE  Good(U) /\ Spare(U)
<1> DEFINE q == O.cs
           L == q[at].L
           p == U.cs
<1>1. /\ Blocks(q) /\ Counts(q, O.th) /\ Frames(q, O.th, O.raise) /\ Limit(q, O.raise) /\ Stacked(q)
      /\ DOMAIN q = 1 .. Len(q) /\ Len(q) \in Nat
  BY GoodParts
<1>2. IsUnwind(p, q, at) /\ p \in Seq(EntryType) BY CutsOwn
<1>3. IsCut(p, q, at - 1) /\ DOMAIN p = 1 .. at - 1 /\ Len(p) = at - 1 /\ \A i \in DOMAIN p : p[i] = q[i]
  BY <1>2 DEF IsUnwind, IsCut
<1>4. Blocks(p) BY <1>1, <1>3, BlocksCut
<1>5. Counts(p, U.th)
  <2>1. \A M \in Threads : M # q[at].L => SameBook(O.th[M], U.th[M]) BY DEF SameBook
  <2> QED BY <1>1, <1>2, <2>1, CountsLeave
<1>f. \A i \in DOMAIN p : q[i].level < U.th[q[i].L].ci /\ q[i].ci < U.th[q[i].L].ci
  <2> SUFFICES ASSUME NEW i \in DOMAIN p PROVE q[i].level < U.th[q[i].L].ci /\ q[i].ci < U.th[q[i].L].ci OBVIOUS
  <2>0. q # <<>> BY CutsOwn
  <2>1. q[Len(q)].L = L BY <2>0, RunningCounts
  <2>2. i \in DOMAIN q /\ q[i].L # L /\ q[i].L \in Threads
    <3>1. i \in DOMAIN q /\ i < at /\ IsResume(q[at]) BY <1>1, <1>3
    <3>2. q[i].L # q[at].L BY <1>1, <3>1 DEF Blocks
    <3> QED BY <1>1, <3>1, <3>2 DEF Stacked
  <2>3. q[i].level < O.th[q[i].L].ci /\ q[i].ci < O.th[q[i].L].ci BY <1>1, <2>1, <2>2 DEF Frames
  <2>4. U.th[q[i].L] = O.th[q[i].L] BY <2>2
  <2> QED BY <2>3, <2>4
<1>6. Frames(p, U.th, U.raise)
  <2>1. \A i \in DOMAIN p : q[i].level <= U.th[q[i].L].ci /\ q[i].ci <= U.th[q[i].L].ci
    <3> SUFFICES ASSUME NEW i \in DOMAIN p PROVE q[i].level <= U.th[q[i].L].ci /\ q[i].ci <= U.th[q[i].L].ci OBVIOUS
    <3>1. i \in DOMAIN q /\ q[i].L \in Threads BY <1>1, <1>3 DEF Stacked
    <3>2. q[i].level \in Nat /\ q[i].ci \in Nat /\ U.th[q[i].L].ci \in Nat BY <3>1, GoodParts, StackTypes DEF Entries, Numeric
    <3>3. q[i].level < U.th[q[i].L].ci /\ q[i].ci < U.th[q[i].L].ci BY <1>f
    <3> HIDE DEF q
    <3> QED BY <3>2, <3>3
  <2>2. q[at].kind # "handler" BY DEF IsResume
  <2> QED BY <1>1, <1>2, <1>f, <2>1, <2>2, FramesUnwind
<1>7. Limit(p, U.raise)
  <2>1. Len(p) = at - 1 /\ at - 1 < Len(q) BY <1>1, <1>3 DEF IsCut
  <2> QED BY <1>1, <2>1, CallAssumption DEF Limit
<1>8. Good(U) BY <1>4, <1>5, <1>6, <1>7 DEF Good
<1>9. Spare(U)
  <2>1. at > 1 BY <1>1 DEF Blocks
  <2>2. p # <<>> BY <1>1, <1>3, <2>1
  <2> QED BY <1>3, <1>f, <2>2 DEF Spare
<1> QED BY <1>8, <1>9

\* S with another C stack p and another thread L.
Cut(S, L, t, p) == [S EXCEPT !.cs = p, !.th = [S.th EXCEPT ![L] = t]]

\* What Cut changes.
LEMMA CutFields ==
  ASSUME NEW S \in StateType, NEW L \in Threads, NEW t \in ThreadType, NEW p \in Seq(EntryType)
  PROVE  /\ Cut(S, L, t, p) \in StateType /\ Cut(S, L, t, p).cs = p /\ Cut(S, L, t, p).raise = S.raise
         /\ Cut(S, L, t, p).th[L] = t /\ \A M \in Threads : M # L => Cut(S, L, t, p).th[M] = S.th[M]
<1> S.th \in [Threads -> ThreadType] BY DEF StateType
<1> [S.th EXCEPT ![L] = t] \in [Threads -> ThreadType] OBVIOUS
<1> QED BY DEF StateType, Cut

\* What is saved for the running thread lies below the level of its activation, or the frame that it called.
LEMMA SavedBelow ==
  ASSUME NEW O, Good(O), O.cs # <<>>, O.raise = "none"
  PROVE  /\ O.cs[Len(O.cs)].level > 0 /\ O.cs[Len(O.cs)].level <= O.th[Running(O)].ci
         /\ O.cs[Len(O.cs)].ci < O.cs[Len(O.cs)].level
         /\ \A i \in DOMAIN O.cs : i < Len(O.cs) /\ O.cs[i].L = Running(O) =>
              O.cs[i].level < O.cs[Len(O.cs)].level /\ O.cs[i].ci < O.cs[Len(O.cs)].level
<1> DEFINE q == O.cs
           n == Len(q)
<1>1. Running(O) = q[n].L /\ n > 0 /\ n \in DOMAIN q BY RunningCounts
<1>2. Frames(q, O.th, O.raise) /\ q[n].level \in Nat /\ q[n].ci \in Nat BY <1>1, GoodParts DEF Entries
<1>3. q[n].level > 0 /\ q[n].level <= O.th[Running(O)].ci BY <1>1, <1>2 DEF Frames
<1>4. q[n].ci < q[n].level
  <2>1. CASE q[n].kind = "pcall"
    <3>1. q[n].level = q[n].ci + 1 BY <1>1, <1>2, <1>3, <2>1 DEF Frames
    <3> QED BY <1>2, <3>1
  <2>2. CASE q[n].kind # "pcall"
    <3>1. q[n].ci = 0 BY <1>1, <1>2, <2>2 DEF Frames
    <3> QED BY <1>3, <3>1
  <2> QED BY <2>1, <2>2
<1>5. \A i \in DOMAIN q : i < n /\ q[i].L = Running(O) => q[i].level < q[n].level /\ q[i].ci < q[n].level
  BY <1>1, <1>2, <1>3 DEF Frames
<1> QED BY <1>3, <1>4, <1>5

\* A Lua function returns to a Lua function.
LEMMA InnerReturn ==
  ASSUME Good(s), s.cs # <<>>, s.raise = "none", s.th[Running(s)].ci # s.cs[Len(s.cs)].level
  PROVE  Good(luaD_poscall(s, Running(s)))
<1> DEFINE q == s.cs
           n == Len(q)
           c == s.th[Running(s)].ci
<1>1. /\ n \in DOMAIN q /\ Running(s) \in Threads /\ Running(s) = q[n].L BY RunningCounts
<1>2. c \in Nat /\ DOMAIN q = 1 .. n /\ n \in Nat /\ \A i \in DOMAIN q : q[i].level \in Nat /\ q[i].ci \in Nat
  BY <1>1, GoodParts DEF Numeric, Entries
<1>3. /\ q[n].level <= c /\ q[n].ci < q[n].level
      /\ \A i \in DOMAIN q : i < n /\ q[i].L = Running(s) => q[i].level < q[n].level /\ q[i].ci < q[n].level
  BY SavedBelow
<1>4. q[n].level < c BY <1>1, <1>2, <1>3
<1>5. \A i \in DOMAIN q : q[i].L = Running(s) => q[i].level < c /\ q[i].ci < c
  <2> SUFFICES ASSUME NEW i \in DOMAIN q, q[i].L = Running(s) PROVE q[i].level < c /\ q[i].ci < c OBVIOUS
  <2>1. q[i].level \in Nat /\ q[i].ci \in Nat /\ q[n].level \in Nat /\ q[n].ci \in Nat BY <1>1, <1>2
  <2>2. CASE i = n BY <1>2, <1>3, <1>4, <2>1, <2>2
  <2>3. CASE i < n
    <3>1. q[i].level < q[n].level /\ q[i].ci < q[n].level BY <1>3, <2>3
    <3> HIDE DEF q, n, c
    <3> QED BY <1>2, <1>4, <2>1, <3>1
  <2> QED BY <1>2, <2>2, <2>3
<1>6. Spare(s) BY <1>5 DEF Spare
<1> QED BY <1>6, GoodPop

\* The C function of a pcall returns.
LEMMA ReturnedFrame ==
  ASSUME NEW S \in StateType, Roomful(S.th), NEW e \in EntryType, S.th[e.L].status # "yield", e.C => S.th[e.L].ci > 0
  PROVE  /\ Framed(S, Returned(S, e), e.L) /\ Roomful(Returned(S, e).th) /\ Returned(S, e).raise = S.raise
         /\ e.C => Returned(S, e).th[e.L].ci = S.th[e.L].ci - 1
         /\ ~e.C => Returned(S, e).th[e.L].ci = S.th[e.L].ci
<1>1. e.L \in Threads BY DEF EntryType
<1>2. CASE e.C
  <2>1. Returned(S, e) = luaD_poscall(S, e.L) BY <1>2 DEF Returned
  <2> QED BY <1>1, <1>2, <2>1, Poscall
<1>3. CASE ~e.C
  <2>1. Returned(S, e) = S BY <1>3 DEF Returned
  <2>2. Framed(S, S, e.L) BY DEF Framed, SameBook
  <2> QED BY <1>3, <2>1, <2>2
<1> QED BY <1>2, <1>3

\* A Lua function returns to C.
LEMMA FinishedKeeps ==
  ASSUME Good(s), s.cs # <<>>, s.raise = "none", NEW e, e = s.cs[Len(s.cs)], s.th[e.L].ci = e.level,
         NEW S, S = luaD_poscall(s, e.L)
  PROVE  Good(Finished(S, e))
<1> DEFINE q == s.cs
           n == Len(q)
           L == e.L
           p == SubSeq(q, 1, n - 1)
           t == S.th[L]
           v == [t EXCEPT !.nCcalls = n - 1]
           U == Cut(S, L, v, p)
<1>1. /\ n \in DOMAIN q /\ L \in Threads /\ L = Running(s) /\ s.th[L].nCcalls = n /\ s.th[L].status = "ok" /\ n > 0
      /\ (e.kind # "pcall" => (s.th[L].errfunc <=> e.errfunc))
  BY RunningCounts
<1>2. /\ s \in StateType /\ Roomful(s.th) /\ n \in Nat /\ s.th[L].ci \in Nat /\ q \in Seq(EntryType) /\ e \in EntryType
  BY <1>1, GoodParts DEF Numeric
<1>3. p \in Seq(EntryType) /\ IsUnwind(p, q, n) BY <1>1, CutsOwn
<1>4. /\ s.th[L].ci > 0 /\ e.level > 0 /\ e.ci < e.level
      /\ \A i \in DOMAIN q : i < n /\ q[i].L = L => q[i].level < e.level /\ q[i].ci < e.level
  BY <1>1, SavedBelow
<1>5. Framed(s, S, L) /\ Roomful(S.th) /\ S.raise = "none" /\ t.ci = s.th[L].ci - 1
  BY <1>1, <1>2, <1>4, Poscall
<1>6. /\ S \in StateType /\ S.cs = q /\ t \in ThreadType /\ t.status = "ok" /\ t.nCcalls = n /\ t.baseCcalls = s.th[L].baseCcalls
      /\ (t.errfunc <=> s.th[L].errfunc) /\ S.th \in [Threads -> ThreadType] /\ \A M \in Threads : M # L => S.th[M] = s.th[M]
  BY <1>1, <1>5, ThreadFields DEF Framed, SameBook, StateType
<1>7. [S EXCEPT !.cs = Front(@), !.th[e.L].nCcalls = @ - 1] = U
  BY <1>6 DEF Front, Cut, StateType
<1>n. n - 1 \in Nat /\ q[n] = e /\ p = SubSeq(q, 1, n - 1) BY <1>1, <1>2
<1> HIDE DEF q, n, p
<1>8. /\ v \in ThreadType /\ v.ci = t.ci /\ v.size_ci = t.size_ci /\ v.status = "ok" /\ v.nCcalls = n - 1
      /\ v.baseCcalls = s.th[L].baseCcalls /\ v.errfunc = t.errfunc
  BY <1>n, <1>6 DEF ThreadType
<1> HIDE DEF v, U
<1>9. /\ U \in StateType /\ U.cs = p /\ U.raise = "none" /\ U.th[L] = v /\ \A M \in Threads : M # L => U.th[M] = s.th[M]
  BY <1>1, <1>3, <1>5, <1>6, <1>8, CutFields DEF U
<1>10. Roomful(U.th)
  <2>1. Roomy(v) /\ v.status # "yield" BY <1>1, <1>5, <1>8 DEF Roomful, Roomy
  <2> QED BY <1>2, <1>9, <2>1 DEF Roomful
<1>11. Finished(S, e) = CASE e.kind = "call" -> U
                          [] e.kind = "pcall" -> Returned([U EXCEPT !.th[e.L].errfunc = e.errfunc], e)
                          [] e.kind = "handler" -> Raise(U, "throw")
                          [] e.kind \in {"resume", "wrap"} -> Resumer(U, e.kind, FALSE)
  BY <1>7 DEF Finished
<1>12. v.ci = e.level - 1 /\ e.level \in Nat BY <1>2, <1>5, <1>8
<1>13. \A i \in DOMAIN q : i < n /\ q[i].L = L => q[i].level <= v.ci /\ q[i].ci <= v.ci
  <2> SUFFICES ASSUME NEW i \in DOMAIN q, i < n, q[i].L = L PROVE q[i].level <= v.ci /\ q[i].ci <= v.ci OBVIOUS
  <2>1. q[i].level \in Nat /\ q[i].ci \in Nat BY GoodParts DEF Entries, q
  <2>2. q[i].level < e.level /\ q[i].ci < e.level BY <1>4
  <2> HIDE DEF L
  <2> QED BY <1>12, <2>1, <2>2
<1>14. CASE e.kind = "call"
  <2>1. Finished(S, e) = U BY <1>11, <1>14
  <2>2. ~IsResume(e) BY <1>14 DEF IsResume
  <2>3. U.th[L].errfunc <=> e.errfunc BY <1>1, <1>6, <1>8, <1>9, <1>14
  <2>4. Left(s, U, n, e) BY <1>1, <1>n, <1>8, <1>9, <1>10, <1>13, <1>14, <2>2, <2>3 DEF q, Left
  <2>5. Good(U) BY <2>4, GoodReturn
  <2> QED BY <2>1, <2>5
<1>15. CASE e.kind = "handler"
  <2> DEFINE W == Raise(U, "throw")
  <2>1. Finished(S, e) = W BY <1>11, <1>15
  <2>2. ~IsResume(e) BY <1>15 DEF IsResume
  <2>3. W \in StateType /\ W.cs = p /\ W.th = U.th /\ W.raise = "throw" BY <1>9, RaiseFields DEF Raises
  <2>4. U.th[L].errfunc <=> e.errfunc BY <1>1, <1>6, <1>8, <1>9, <1>15
  <2> HIDE DEF W
  <2>5. Left(s, W, n, e) BY <1>1, <1>n, <1>8, <1>9, <1>10, <1>13, <2>2, <2>3, <2>4 DEF q, Left
  <2>6. Good(W) BY <2>5, GoodReturn
  <2> QED BY <2>1, <2>6
<1>16. CASE e.kind = "pcall"
  <2> DEFINE w == [v EXCEPT !.errfunc = e.errfunc]
             X == [U EXCEPT !.th[e.L].errfunc = e.errfunc]
             W == Returned(X, e)
  <2>1. Finished(S, e) = W BY <1>11, <1>16
  <2>2. X = Cut(U, L, w, p) BY <1>9 DEF Cut, StateType
  <2>3. /\ w \in ThreadType /\ w.ci = v.ci /\ w.size_ci = v.size_ci /\ w.status = "ok" /\ w.nCcalls = n - 1
        /\ w.baseCcalls = s.th[L].baseCcalls /\ w.errfunc = e.errfunc
    BY <1>2, <1>8 DEF ThreadType, EntryType
  <2> HIDE DEF w
  <2>4. /\ X \in StateType /\ X.cs = p /\ X.raise = "none" /\ X.th[L] = w /\ \A M \in Threads : M # L => X.th[M] = s.th[M]
    <3> DEFINE Y == Cut(U, L, w, p)
    <3>1. /\ Y \in StateType /\ Y.cs = p /\ Y.raise = U.raise /\ Y.th[L] = w /\ \A M \in Threads : M # L => Y.th[M] = U.th[M]
      BY <1>1, <1>3, <1>9, <2>3, CutFields
    <3> HIDE DEF Y, X
    <3> QED BY <1>9, <2>2, <3>1 DEF Y
  <2> HIDE DEF X
  <2>5. Roomful(X.th)
    <3>1. Roomy(w) /\ w.status # "yield" BY <1>1, <1>8, <1>9, <1>10, <2>3 DEF Roomful, Roomy
    <3> QED BY <1>2, <2>4, <3>1 DEF Roomful
  <2>6. e.ci \in Nat /\ w.ci = e.ci /\ (e.C => e.ci > 0)
    /\ \A i \in DOMAIN q : i < n /\ q[i].L = L => q[i].level < e.ci /\ q[i].ci < e.ci
    <3>1. e.level = e.ci + 1 /\ (e.C => e.ci > 0) /\ (\A i \in DOMAIN q : i < n /\ q[i].L = L => q[i].level < e.ci /\ q[i].ci < e.ci)
      <4>1. Frames(q, s.th, s.raise) BY GoodParts DEF q
      <4>2. \A i \in DOMAIN q : i < n /\ q[i].L = L => q[i].level < e.ci /\ q[i].ci < e.ci
        <5> SUFFICES ASSUME NEW i \in DOMAIN q, i < n, q[i].L = L PROVE q[i].level < e.ci /\ q[i].ci < e.ci OBVIOUS
        <5>1. n \in DOMAIN q /\ q[n].kind = "pcall" /\ q[i].L = q[n].L BY <1>1, <1>n, <1>16
        <5>2. q[i].level < q[n].ci /\ q[i].ci < q[n].ci BY <5>1, <4>1 DEF Frames
        <5> QED BY <5>2, <1>n
      <4>3. e.level = e.ci + 1 /\ (e.C => e.ci > 0) BY <1>1, <1>4, <1>n, <1>16, <4>1 DEF Frames
      <4> QED BY <4>2, <4>3
    <3>2. e.ci \in Nat BY <1>2 DEF EntryType
    <3> QED BY <1>12, <2>3, <3>1, <3>2
  <2>7. /\ Framed(X, W, L) /\ Roomful(W.th) /\ W.raise = "none" /\ (e.C => W.th[L].ci = e.ci - 1) /\ (~e.C => W.th[L].ci = e.ci)
    <3>1. X.th[e.L].status # "yield" /\ X.th[e.L].ci = e.ci /\ (e.C => X.th[e.L].ci > 0) BY <2>3, <2>4, <2>6
    <3>2. /\ Framed(X, W, e.L) /\ Roomful(W.th) /\ W.raise = X.raise
          /\ (e.C => W.th[e.L].ci = X.th[e.L].ci - 1) /\ (~e.C => W.th[e.L].ci = X.th[e.L].ci)
      BY <1>2, <2>4, <2>5, <3>1, ReturnedFrame
    <3> HIDE DEF W
    <3> QED BY <2>4, <3>1, <3>2
  <2> HIDE DEF W
  <2>8. /\ W \in StateType /\ W.cs = p /\ W.th[L].status = "ok" /\ W.th[L].nCcalls = n - 1
        /\ W.th[L].baseCcalls = s.th[L].baseCcalls /\ (W.th[L].errfunc <=> e.errfunc) /\ \A M \in Threads : M # L => W.th[M] = s.th[M]
    BY <1>1, <2>3, <2>4, <2>7 DEF Framed, SameBook
  <2>9. \A i \in DOMAIN q : i < n /\ q[i].L = L => q[i].level <= W.th[L].ci /\ q[i].ci <= W.th[L].ci
    <3> SUFFICES ASSUME NEW i \in DOMAIN q, i < n, q[i].L = L PROVE q[i].level <= W.th[L].ci /\ q[i].ci <= W.th[L].ci OBVIOUS
    <3>1. q[i].level \in Nat /\ q[i].ci \in Nat BY GoodParts DEF Entries, q
    <3>2. q[i].level < e.ci /\ q[i].ci < e.ci BY <2>6
    <3>3. W.th[L].ci = e.ci - 1 \/ W.th[L].ci = e.ci BY <2>7
    <3> HIDE DEF L
    <3> QED BY <2>6, <3>1, <3>2, <3>3
  <2>10. ~IsResume(e) BY <1>16 DEF IsResume
  <2>11. Left(s, W, n, e) BY <1>1, <1>n, <1>16, <2>7, <2>8, <2>9, <2>10 DEF q, Left
  <2>12. Good(W) BY <2>11, GoodReturn
  <2> QED BY <2>1, <2>12
<1>17. CASE e.kind \in {"resume", "wrap"}
  <2>1. Finished(S, e) = Resumer(U, e.kind, FALSE) BY <1>11, <1>17
  <2>2. IsResume(e) /\ e.kind # "pcall" BY <1>17 DEF IsResume
  <2>3. ~e.errfunc
    <3>1. Blocks(q) BY GoodParts DEF q
    <3> QED BY <1>1, <1>n, <2>2, <3>1 DEF Blocks
  <2>4. ~U.th[L].errfunc BY <1>1, <1>6, <1>8, <1>9, <2>2, <2>3
  <2>5. Good(U) /\ Spare(U) BY <1>1, <1>n, <1>9, <1>10, <2>2, <2>4, GoodLeave DEF q
  <2>6. Good(Resumer(U, e.kind, FALSE)) BY <1>9, <2>5, GoodResumer
  <2> QED BY <2>1, <2>6
<1>18. e.kind \in Kinds BY <1>2 DEF EntryType
<1> QED BY <1>14, <1>15, <1>16, <1>17, <1>18 DEF Kinds

\* A Lua function returns.
LEMMA ReturnKeeps ==
  ASSUME Good(s), Return
  PROVE  Good(s')
<1> DEFINE e == Last(s.cs)
           S == luaD_poscall(s, e.L)
<1>1. /\ s.cs # <<>> /\ s.raise = "none" /\ s' = IF s.th[e.L].ci = e.level THEN Finished(S, e) ELSE S
  BY DEF Return, Runnable
<1>2. e = s.cs[Len(s.cs)] /\ e.L = Running(s) BY <1>1 DEF Last, Running
<1> HIDE DEF e, S
<1>3. CASE s.th[e.L].ci = e.level
  <2>1. S = luaD_poscall(s, e.L) BY DEF S
  <2>2. Good(Finished(S, e)) BY <1>1, <1>2, <1>3, <2>1, FinishedKeeps
  <2> QED BY <1>1, <1>3, <2>2
<1>4. CASE s.th[e.L].ci # e.level
  <2>1. Good(luaD_poscall(s, Running(s))) BY <1>1, <1>2, <1>4, InnerReturn
  <2> QED BY <1>1, <1>2, <1>4, <2>1 DEF S
<1> QED BY <1>3, <1>4

\* An error is caught by the pcall at position at.
LEMMA CaughtKeeps ==
  ASSUME Good(s), NEW at \in DOMAIN s.cs, NEW e, e = s.cs[at], e.L = Running(s), e.kind = "pcall",
         NEW S \in StateType, S.th = s.th, S.cs = SubSeq(s.cs, 1, at - 1), S.raise = "none"
  PROVE  Good(Caught(S, e))
<1> DEFINE q == s.cs
           L == e.L
           t == S.th[L]
           v1 == [t EXCEPT !.nCcalls = e.nCcalls]
           v2 == [v1 EXCEPT !.ci = e.ci]
           v == [v2 EXCEPT !.errfunc = e.errfunc]
           X == Update(S, L, v, "none")
           Y == restore_stack_limit(X, L)
           W == Returned(Y, e)
<1>1. /\ L \in Threads /\ e \in EntryType /\ q # <<>> BY CutsOwn
<1>2. /\ e.ci \in Nat /\ e.nCcalls \in Nat /\ e.errfunc \in BOOLEAN BY <1>1 DEF EntryType
<1>3. /\ t \in ThreadType /\ t.status = "ok" /\ Roomful(s.th) /\ t.ci \in Nat /\ t.size_ci \in Nat
      /\ S.th \in [Threads -> ThreadType] /\ "none" \in Raises
  BY <1>1, GoodParts, ThreadFields, RunningCounts DEF StateType, Raises
<1>4. e.nCcalls = at - 1 BY GoodParts DEF Blocks
<1>5. /\ e.ci <= t.ci /\ (e.C => e.ci > 0) /\ \A i \in DOMAIN q : i < at /\ q[i].L = L => q[i].level < e.ci /\ q[i].ci < e.ci
  <2>1. Frames(q, s.th, s.raise) BY GoodParts
  <2>2. e.ci <= t.ci /\ (e.C => e.ci > 0) BY <2>1 DEF Frames
  <2>3. \A i \in DOMAIN q : i < at /\ q[i].L = L => q[i].level < e.ci /\ q[i].ci < e.ci
    <3> SUFFICES ASSUME NEW i \in DOMAIN q, i < at, q[i].L = L PROVE q[i].level < e.ci /\ q[i].ci < e.ci OBVIOUS
    <3> QED BY <2>1 DEF Frames
  <2> QED BY <2>2, <2>3
<1>6. /\ v \in ThreadType /\ v.ci = e.ci /\ v.size_ci = t.size_ci /\ v.status = "ok" /\ v.nCcalls = e.nCcalls
      /\ v.baseCcalls = t.baseCcalls /\ v.errfunc = e.errfunc
  <2>1. /\ v1 \in ThreadType /\ v1.ci = t.ci /\ v1.size_ci = t.size_ci /\ v1.status = "ok" /\ v1.nCcalls = e.nCcalls
        /\ v1.baseCcalls = t.baseCcalls
    BY <1>2, <1>3 DEF ThreadType
  <2> HIDE DEF v1
  <2>2. /\ v2 \in ThreadType /\ v2.ci = e.ci /\ v2.size_ci = t.size_ci /\ v2.status = "ok" /\ v2.nCcalls = e.nCcalls
        /\ v2.baseCcalls = t.baseCcalls
    BY <1>2, <2>1 DEF ThreadType
  <2> HIDE DEF v2
  <2> QED BY <1>2, <2>2 DEF ThreadType
<1>7. [S EXCEPT !.th[e.L].nCcalls = e.nCcalls, !.th[e.L].ci = e.ci, !.th[e.L].errfunc = e.errfunc] = X
  <2> DEFINE X1 == Update(S, L, v1, "none")
             X2 == Update(S, L, v2, "none")
  <2>1. [S EXCEPT !.th[e.L].nCcalls = e.nCcalls] = X1 BY <1>1, <1>3 DEF Update, StateType
  <2>2. [X1 EXCEPT !.th[e.L].ci = e.ci] = X2
    <3> HIDE DEF v1
    <3> QED BY ZenonT(60), <1>1, <1>3 DEF Update, StateType
  <2>3. [X2 EXCEPT !.th[e.L].errfunc = e.errfunc] = X
    <3> HIDE DEF v2
    <3> QED BY <1>1, <1>3 DEF Update, StateType
  <2> HIDE DEF X1, X2, X
  <2> QED BY <2>1, <2>2, <2>3
<1> HIDE DEF v, X
<1>8. Caught(S, e) = W BY <1>7 DEF Caught
<1>9. /\ X \in StateType /\ X.cs = S.cs /\ X.raise = "none" /\ X.th[L] = v /\ \A M \in Threads : M # L => X.th[M] = s.th[M]
  BY <1>1, <1>3, <1>6, Replaced DEF X
<1>10. Roomful(X.th)
  <2>1. Roomy(t) BY <1>1, <1>3 DEF Roomful
  <2>2. Roomy(v) /\ v.status # "yield" BY <1>2, <1>3, <1>5, <1>6, <2>1 DEF Roomy
  <2> QED BY <1>3, <1>9, <2>2 DEF Roomful
<1>11. Framed(X, Y, L) /\ Roomful(Y.th) /\ Y.raise = "none" /\ Y.th[L].ci = e.ci
  BY <1>1, <1>6, <1>9, <1>10, RestoreLimit
<1> HIDE DEF Y
<1>12. /\ Y \in StateType /\ Y.cs = S.cs /\ SameBook(v, Y.th[L]) /\ \A M \in Threads : M # L => Y.th[M] = s.th[M]
  BY <1>1, <1>9, <1>11 DEF Framed
<1>13. /\ Framed(Y, W, L) /\ Roomful(W.th) /\ W.raise = "none" /\ (e.C => W.th[L].ci = e.ci - 1) /\ (~e.C => W.th[L].ci = e.ci)
  <2>1. Y.th[e.L].status # "yield" /\ Y.th[e.L].ci = e.ci /\ (e.C => Y.th[e.L].ci > 0) BY <1>5, <1>6, <1>11, <1>12 DEF SameBook
  <2>2. /\ Framed(Y, W, e.L) /\ Roomful(W.th) /\ W.raise = Y.raise
        /\ (e.C => W.th[e.L].ci = Y.th[e.L].ci - 1) /\ (~e.C => W.th[e.L].ci = Y.th[e.L].ci)
    BY <1>1, <1>11, <1>12, <2>1, ReturnedFrame
  <2> HIDE DEF W
  <2> QED BY <1>11, <2>1, <2>2
<1> HIDE DEF W
<1>14. /\ W \in StateType /\ W.cs = S.cs /\ SameBook(v, W.th[L]) /\ \A M \in Threads : M # L => W.th[M] = s.th[M]
  BY <1>1, <1>12, <1>13 DEF Framed, SameBook
<1>15. \A i \in DOMAIN q : i < at /\ q[i].L = L => q[i].level <= W.th[L].ci /\ q[i].ci <= W.th[L].ci
  <2> SUFFICES ASSUME NEW i \in DOMAIN q, i < at, q[i].L = L PROVE q[i].level <= W.th[L].ci /\ q[i].ci <= W.th[L].ci OBVIOUS
  <2>1. q[i].level \in Nat /\ q[i].ci \in Nat BY GoodParts DEF Entries
  <2>2. q[i].level < e.ci /\ q[i].ci < e.ci BY <1>5
  <2>3. W.th[L].ci = e.ci - 1 \/ W.th[L].ci = e.ci BY <1>13
  <2> HIDE DEF q, L
  <2> QED BY <1>2, <2>1, <2>2, <2>3
<1>16. W.th[L].status = "ok" /\ W.th[L].nCcalls = at - 1 /\ W.th[L].baseCcalls = s.th[L].baseCcalls /\ (W.th[L].errfunc <=> e.errfunc)
  BY <1>4, <1>6, <1>14 DEF SameBook
<1>17. ~IsResume(e) BY DEF IsResume
<1>18. Left(s, W, at, e) BY <1>13, <1>14, <1>15, <1>16, <1>17 DEF Left
<1>19. Good(W) BY <1>18, GoodReturn
<1> QED BY <1>8, <1>19

\* An error ends the coroutine that was resumed at position at.
LEMMA DiedKeeps ==
  ASSUME Good(s), NEW at \in DOMAIN s.cs, NEW e, e = s.cs[at], e.L = Running(s), IsResume(e),
         NEW S \in StateType, S.th = s.th, S.cs = SubSeq(s.cs, 1, at - 1), S.raise = "none"
  PROVE  Good(Died(S, e))
<1> DEFINE L == e.L
           t == S.th[L]
           v1 == [t EXCEPT !.status = "err"]
           v == [v1 EXCEPT !.nCcalls = t.nCcalls - 1]
           X == Update(S, L, v, "none")
<1>1. /\ L \in Threads /\ e \in EntryType /\ s.cs # <<>> BY CutsOwn
<1>2. t.nCcalls \in Nat /\ t.nCcalls - 1 \in Nat BY <1>1, RunningCounts, GoodParts
<1>3. /\ t \in ThreadType /\ Roomful(s.th) /\ S.th \in [Threads -> ThreadType] /\ "none" \in Raises
  BY <1>1, GoodParts, ThreadFields DEF StateType, Raises
<1>4. /\ v \in ThreadType /\ v.ci = t.ci /\ v.size_ci = t.size_ci /\ v.status = "err"
  <2>1. /\ v1 \in ThreadType /\ v1.ci = t.ci /\ v1.size_ci = t.size_ci /\ v1.status = "err" BY <1>3 DEF ThreadType
  <2> HIDE DEF v1
  <2> QED BY <1>2, <2>1 DEF ThreadType
<1>5. [S EXCEPT !.th[e.L].status = "err", !.th[e.L].nCcalls = @ - 1] = X
  <2>1. [S EXCEPT !.th[e.L].status = "err", !.th[e.L].nCcalls = @ - 1]
        = [S EXCEPT !.th = [S.th EXCEPT ![L] = [t EXCEPT !.status = "err", !.nCcalls = t.nCcalls - 1]]]
    <3>1. \A M \in Threads :
            [S EXCEPT !.th[M].status = "err", !.th[M].nCcalls = @ - 1]
            = [S EXCEPT !.th = [S.th EXCEPT ![M] = [S.th[M] EXCEPT !.status = "err", !.nCcalls = S.th[M].nCcalls - 1]]]
      BY ZenonT(60), <1>3 DEF StateType, ThreadType
    <3> QED BY <1>1, <3>1
  <2>2. [t EXCEPT !.status = "err", !.nCcalls = t.nCcalls - 1] = v OBVIOUS
  <2> HIDE DEF v
  <2>3. [S EXCEPT !.th = [S.th EXCEPT ![L] = v]] = X BY <1>3 DEF Update, StateType
  <2> QED BY SMTT(20), <2>1, <2>2, <2>3
<1> HIDE DEF v, X
<1>6. Died(S, e) = Resumer(X, e.kind, TRUE) BY <1>5 DEF Died
<1>7. /\ X \in StateType /\ X.cs = S.cs /\ X.raise = "none" /\ X.th[L] = v /\ \A M \in Threads : M # L => X.th[M] = s.th[M]
  BY <1>1, <1>3, <1>4, Replaced DEF X
<1>8. Roomful(X.th)
  <2>1. Roomy(v) /\ v.status # "yield" BY <1>1, <1>3, <1>4 DEF Roomful, Roomy
  <2> QED BY <1>3, <1>7, <2>1 DEF Roomful
<1>9. Good(X) /\ Spare(X) BY <1>4, <1>7, <1>8, GoodLeave
<1>10. Good(Resumer(X, e.kind, TRUE)) BY <1>7, <1>9, GoodResumer
<1> QED BY <1>6, <1>10

\* The greatest of the positions of a stack that has n of them, or 0.
LEMMA MaxPosition ==
  ASSUME NEW n \in Nat, NEW A \in SUBSET (1 .. n)
  PROVE  /\ Max({0} \cup A) \in {0} \cup A
         /\ \A i \in {0} \cup A : Max({0} \cup A) >= i
<1> DEFINE B == {0} \cup A
           C == {n - i : i \in B}
<1>1. B \subseteq 0 .. n /\ 0 \in B OBVIOUS
<1> HIDE DEF B
<1>2. C \subseteq Nat /\ C # {} BY <1>1
<1> HIDE DEF C
<1>3. PICK y \in C : \A z \in C : ~(<<z, y>> \in OpToRel(<, Nat)) BY <1>2, NatLessThanWellFounded, WFMin
<1>4. \A z \in C : ~(z < y) BY <1>2, <1>3 DEF OpToRel
<1>5. PICK x \in B : y = n - x BY DEF C
<1>6. \A i \in B : x >= i
  <2> SUFFICES ASSUME NEW i \in B PROVE x >= i OBVIOUS
  <2>1. n - i \in C /\ i \in 0 .. n /\ x \in 0 .. n BY <1>1 DEF C
  <2>2. ~(n - i < n - x) BY <1>4, <1>5, <2>1
  <2> QED BY <2>1, <2>2
<1>7. Max(B) \in B /\ \A i \in B : Max(B) >= i BY <1>6 DEF Max
<1> QED BY <1>7 DEF B

\* An error unwinds the C stack.
LEMMA ThrowKeeps ==
  ASSUME Good(s), luaD_throw
  PROVE  Good(s')
<1> DEFINE A == {i \in DOMAIN s.cs : Protected(s.cs[i]) /\ s.cs[i].L = Running(s)}
           at == Max({0} \cup A)
           e == s.cs[at]
           S == [s EXCEPT !.cs = SubSeq(@, 1, at - 1), !.raise = "none", !.panic = @ \cup {"protected"}]
<1>1. s' = IF at = 0 THEN [s EXCEPT !.exited = TRUE, !.panic = @ \cup {"unprotected"}]
           ELSE IF e.kind = "pcall" THEN Caught(S, e) ELSE Died(S, e)
  BY DEF luaD_throw
<1>2. at \in {0} \cup A
  <2>1. A \in SUBSET (1 .. Len(s.cs)) /\ Len(s.cs) \in Nat BY GoodParts
  <2> HIDE DEF A
  <2> QED BY <2>1, MaxPosition
<1>p. s \in StateType BY GoodParts
<1> HIDE DEF at
<1>3. CASE at = 0
  <2>1. s' \in StateType /\ s'.cs = s.cs /\ s'.th = s.th /\ s'.raise = s.raise 
    <3>1. s' = [s EXCEPT !.exited = TRUE, !.panic = @ \cup {"unprotected"}] BY <1>1, <1>3
    <3>2. s.panic \cup {"unprotected"} \in SUBSET {"protected", "unprotected"} BY <1>p DEF StateType
    <3> QED BY <3>1, <3>2, <1>p DEF StateType
  <2> QED BY <2>1, GoodParts DEF Good
<1>4. CASE at # 0
  <2>1. at \in DOMAIN s.cs /\ Protected(e) /\ e.L = Running(s) BY <1>2, <1>4
  <2>2. SubSeq(s.cs, 1, at - 1) \in Seq(EntryType) BY <2>1, CutsOwn
  <2>3. S \in StateType /\ S.th = s.th /\ S.cs = SubSeq(s.cs, 1, at - 1) /\ S.raise = "none"
    <3>1. s.panic \cup {"protected"} \in SUBSET {"protected", "unprotected"} BY <1>p DEF StateType
    <3>2. "none" \in Raises BY DEF Raises
    <3> QED BY <1>p, <2>2, <3>1, <3>2 DEF StateType
  <2> HIDE DEF S, e
  <2>4. e = s.cs[at] BY DEF e
  <2>5. CASE e.kind = "pcall"
    <3>1. Good(Caught(S, e)) BY <2>1, <2>3, <2>4, <2>5, CaughtKeeps
    <3> QED BY <1>1, <1>4, <2>5, <3>1
  <2>6. CASE e.kind # "pcall"
    <3>1. IsResume(e) BY <2>1, <2>6 DEF IsResume, Protected
    <3>2. Good(Died(S, e)) BY <2>1, <2>3, <2>4, <3>1, DiedKeeps
    <3> QED BY <1>1, <1>4, <2>6, <3>2
  <2> QED BY <2>5, <2>6
<1> QED BY <1>3, <1>4

\* A coroutine that may yield has no activation above the one that resumed it.
LEMMA YieldsFromResume ==
  ASSUME NEW S, Good(S), S.cs # <<>>, CanYield(S, Running(S))
  PROVE  IsResume(S.cs[Len(S.cs)])
<1> DEFINE q == S.cs
           n == Len(q)
           L == Running(S)
           b == S.th[L].baseCcalls
<1>1. L = q[n].L /\ n > 0 /\ L \in Threads /\ n \in DOMAIN q /\ S.th[L].nCcalls = n /\ n \in Nat BY RunningCounts, GoodParts
<1>2. b \in Nat /\ ~(n > b) BY <1>1, GoodParts, ThreadFields DEF CanYield
<1>3. Counts(q, S.th) BY GoodParts
<1>4. L # Main BY ZenonT(60), <1>1, <1>2, <1>3 DEF Counts
<1>5. b \in 1 .. n /\ IsResume(q[b]) BY <1>1, <1>3, <1>4 DEF Counts
<1>6. b = n
  <2>1. n \in Nat BY <1>1
  <2> HIDE DEF b, n
  <2> QED BY <1>2, <1>5, <2>1
<1> QED BY <1>5, <1>6

\* A coroutine yields.
LEMMA YieldKeeps ==
  ASSUME Good(s), luaB_yield
  PROVE  Good(s')
<1> DEFINE R == Running(s)
           S == inc_ci(s, R)
<1>1. /\ s.raise = "none" /\ s.cs # <<>> /\ s' = IF S.raise = "none" THEN lua_yield(S) ELSE S
  BY DEF luaB_yield, Runnable, L0, Then
<1>2. Good(S) BY <1>1, GoodParts, RunningIs, GoodInc
<1> HIDE DEF S
<1>3. CASE S.raise # "none" BY <1>1, <1>2, <1>3
<1> SUFFICES ASSUME S.raise = "none" PROVE Good(lua_yield(S)) BY <1>1, <1>3
<1>4. S.cs = s.cs /\ Running(S) = R /\ S.th[R].ci = s.th[R].ci + 1
  BY <1>1, SpareFrame DEF S
<1>5. CASE ~CanYield(S, R)
  <2>1. Good(Raise(S, "runerror")) BY <1>2, GoodRaise
  <2> QED BY <1>4, <1>5, <2>1 DEF lua_yield
<1>6. CASE CanYield(S, R)
  <2> DEFINE q == S.cs
             n == Len(q)
             p == SubSeq(q, 1, n - 1)
             t == S.th[R]
             v1 == [t EXCEPT !.status = "yield"]
             v == [v1 EXCEPT !.nCcalls = t.nCcalls - 1]
             U == Cut(S, R, v, p)
  <2>1. IsResume(q[n]) BY <1>1, <1>2, <1>4, <1>6, YieldsFromResume
  <2>2. /\ R = q[n].L /\ n > 0 /\ R \in Threads /\ n \in DOMAIN q /\ t.nCcalls = n /\ n \in Nat
        /\ (q[n].kind # "pcall" => (t.errfunc <=> q[n].errfunc)) /\ Blocks(q) /\ S \in StateType /\ Roomful(S.th)
        /\ t \in ThreadType /\ S.th \in [Threads -> ThreadType]
    BY <1>1, <1>2, <1>4, RunningCounts, GoodParts, ThreadFields DEF StateType
  <2>3. ~t.errfunc
    <3>1. ~q[n].errfunc BY <2>1, <2>2 DEF Blocks
    <3> QED BY <2>1, <2>2, <3>1 DEF IsResume
  <2>4. t.ci \in Nat /\ t.ci >= 2
    <3>1. s.cs[Len(s.cs)].level > 0 /\ s.cs[Len(s.cs)].level <= s.th[R].ci BY <1>1, SavedBelow
    <3>2. s.cs[Len(s.cs)].level \in Nat /\ s.th[R].ci \in Nat BY <1>1, <2>2, RunningCounts, GoodParts DEF Entries, Numeric
    <3> HIDE DEF R
    <3> QED BY <1>4, <3>1, <3>2
  <2>5. p \in Seq(EntryType) BY <1>2, <1>4, <2>2, CutsOwn
  <2>6. [S EXCEPT !.th[R].status = "yield", !.th[R].nCcalls = @ - 1, !.cs = Front(@)] = U
    <3> DEFINE X == Update(S, R, v1, "none")
               Y == Update(S, R, v, "none")
    <3>1. [S EXCEPT !.th[R].status = "yield"] = X BY <2>2 DEF Update, StateType
    <3>2. [X EXCEPT !.th[R].nCcalls = S.th[R].nCcalls - 1] = Y BY <2>2 DEF Update, StateType, ThreadType
    <3>3. [Y EXCEPT !.cs = Front(S.cs)] = U
      <4> HIDE DEF v
      <4> QED BY <2>2 DEF Update, Cut, StateType, Front
    <3> HIDE DEF X, Y, U, R
    <3> QED BY <3>1, <3>2, <3>3
  <2>7. v \in ThreadType /\ v.ci = t.ci /\ v.size_ci = t.size_ci /\ v.status = "yield" /\ v.errfunc = t.errfunc
    <3>1. v1 \in ThreadType /\ v1.ci = t.ci /\ v1.size_ci = t.size_ci /\ v1.status = "yield" /\ v1.errfunc = t.errfunc
      BY <2>2 DEF ThreadType
    <3> HIDE DEF v1
    <3>2. t.nCcalls - 1 \in Nat BY <2>2
    <3> QED BY SMTT(20), <3>1, <3>2 DEF ThreadType
  <2>n. q = S.cs /\ p = SubSeq(q, 1, n - 1) OBVIOUS
  <2> HIDE DEF v, U, p, q, n
  <2>8. /\ U \in StateType /\ U.cs = p /\ U.raise = "none" /\ U.th[R] = v /\ \A M \in Threads : M # R => U.th[M] = S.th[M]
    BY <2>2, <2>5, <2>7, CutFields DEF U
  <2>9. Roomful(U.th)
    <3>1. Roomy(v) /\ v.ci >= 2 BY <2>2, <2>4, <2>7 DEF Roomful, Roomy
    <3> QED BY ZenonT(60), <2>2, <2>8, <3>1 DEF Roomful
  <2>10. Good(U) /\ Spare(U) BY <1>2, <1>4, <2>n, <2>1, <2>2, <2>3, <2>7, <2>8, <2>9, GoodLeave
  <2>11. Good(Resumer(U, "resume", FALSE)) BY <2>8, <2>10, GoodResumer
  <2>12. lua_yield(S) = Resumer(U, "resume", FALSE) BY <1>4, <1>6, <2>6 DEF lua_yield
  <2> QED BY <2>11, <2>12
<1> QED BY <1>5, <1>6

-----------------------------------------------------------------------------
(* The theorems.                                                           *)

\* Every step keeps the invariant.
LEMMA NextIInv == IInv /\ [Next]_s => IInv'
<1> SUFFICES ASSUME Good(s), [Next]_s PROVE Good(s') BY DEF IInv
<1>1. CASE HostCall \/ HostPcall \/ Call \/ Metamethod \/ Error \/ luaG_errormsg BY <1>1, CallingSteps
<1>2. CASE Return BY <1>2, ReturnKeeps
<1>3. CASE luaB_yield BY <1>3, YieldKeeps
<1>4. CASE luaB_pcall(TRUE) \/ luaB_pcall(FALSE)
  <2>1. TRUE \in BOOLEAN /\ FALSE \in BOOLEAN OBVIOUS
  <2> QED BY <1>4, <2>1, PcallKeeps
<1>5. CASE \E co \in Coroutines, kind \in {"resume", "wrap"} : luaB_coresume(co, kind) BY <1>5, CoresumeKeeps
<1>6. CASE luaD_throw BY <1>6, ThrowKeeps
<1>7. CASE \E L \in Threads : Shrink(L) BY <1>7, ShrinkKeeps
<1>8. CASE UNCHANGED s BY <1>8
<1> QED BY <1>1, <1>2, <1>3, <1>4, <1>5, <1>6, <1>7, <1>8 DEF Next

\* The C stack has the shape that the functions of ldo.c rely on, every
\* thread counts it as it is, and frames and levels fit each other.
THEOREM Invariance == Spec => []IInv
BY InitIInv, NextIInv, PTL DEF Spec

\* The deepest activation of a thread is its innermost.
LEMMA DeepestEnds ==
  ASSUME Good(s), NEW L \in Threads
  PROVE  /\ Deepest(L) > 0 => Deepest(L) \in DOMAIN s.cs /\ s.cs[Deepest(L)].L = L /\ Ends(s.cs, Deepest(L))
         /\ Deepest(L) \in Nat
         /\ Deepest(L) = 0 => \A i \in DOMAIN s.cs : s.cs[i].L # L
<1> DEFINE A == {i \in DOMAIN s.cs : s.cs[i].L = L}
           m == Max({0} \cup A)
<1>1. Deepest(L) = m BY DEF Deepest
<1>2. A \in SUBSET (1 .. Len(s.cs)) /\ Len(s.cs) \in Nat /\ DOMAIN s.cs = 1 .. Len(s.cs) BY GoodParts
<1>3. m \in {0} \cup A /\ \A i \in {0} \cup A : m >= i
  <2> HIDE DEF A
  <2> QED BY <1>2, MaxPosition
<1> HIDE DEF m
<1>4. m \in Nat BY <1>2, <1>3
<1>5. ASSUME m > 0 PROVE m \in DOMAIN s.cs /\ s.cs[m].L = L /\ Ends(s.cs, m)
  <2>1. m \in DOMAIN s.cs /\ s.cs[m].L = L BY <1>3, <1>5
  <2>2. ASSUME NEW j \in DOMAIN s.cs, j = m + 1, s.cs[j].L = L PROVE FALSE
    <3>1. m >= j BY <1>3, <2>2
    <3> QED BY <1>4, <2>2, <3>1
  <2> QED BY <2>1, <2>2 DEF Ends
<1>6. ASSUME m = 0, NEW i \in DOMAIN s.cs, s.cs[i].L = L PROVE FALSE
  <2>1. m >= i BY <1>3, <1>6
  <2> QED BY <1>2, <1>6, <2>1
<1> QED BY <1>1, <1>4, <1>5, <1>6

\* Errors, yields and resumptions never make the count of C calls drift: the C stack
\* stays within LUAI_MAXCCALLS and its reserve, frames within their room.
THEOREM CallsBounded == Spec => []StacksBounded
<1>1. IInv => StacksBounded
  <2> SUFFICES ASSUME Good(s) PROVE StacksBounded BY DEF IInv
  <2>1. CCallsCounted
    <3> SUFFICES ASSUME NEW L \in Threads, Deepest(L) > 0 PROVE s.th[L].nCcalls = Deepest(L) BY DEF CCallsCounted
    <3>1. Deepest(L) \in DOMAIN s.cs /\ s.cs[Deepest(L)].L = L /\ Ends(s.cs, Deepest(L)) BY DeepestEnds
    <3> QED BY <3>1, GoodParts DEF Counts
  <2>2. CStackBounded BY GoodParts DEF Limit, CStackBounded
  <2>3. FramesFit
    <3>1. Roomful(s.th) /\ Frames(s.cs, s.th, s.raise) BY GoodParts
    <3> QED BY <3>1 DEF FramesFit, Frames, Roomful, Roomy
  <2> QED BY <2>1, <2>2, <2>3 DEF StacksBounded
<1> QED BY <1>1, Invariance, PTL

\* A coroutine that yields leaves its resumer nothing, is resumed by one thread
\* at a time, and has no error handler when lua_resume asserts it.
THEOREM CoroutineSafety == Spec => []CoroutinesSound
<1>1. IInv => CoroutinesSound
  <2> SUFFICES ASSUME Good(s) PROVE CoroutinesSound BY DEF IInv
  <2>1. YieldLeavesNothing
    <3> SUFFICES ASSUME NEW L \in Threads, s.th[L].status = "yield", Deepest(L) # 0 PROVE FALSE BY DEF YieldLeavesNothing
    <3>1. Deepest(L) > 0 BY DeepestEnds
    <3>2. Deepest(L) \in DOMAIN s.cs /\ s.cs[Deepest(L)].L = L BY <3>1, DeepestEnds
    <3> QED BY <3>2, GoodParts DEF Counts
  <2>2. ResumedOnce
    <3> SUFFICES ASSUME NEW i \in DOMAIN s.cs, NEW j \in DOMAIN s.cs, IsResume(s.cs[i]), IsResume(s.cs[j]),
                        s.cs[i].L = s.cs[j].L
                 PROVE  i = j
      BY DEF ResumedOnce, IsResume
    <3>1. ~(i < j) /\ ~(j < i) BY GoodParts DEF Blocks
    <3>2. i \in Nat /\ j \in Nat BY GoodParts
    <3> QED BY <3>1, <3>2
  <2>3. ResumeAsserts
    <3> SUFFICES ASSUME NEW L \in Coroutines, Deepest(L) = 0, s.th[L].status # "err" PROVE ~s.th[L].errfunc BY DEF ResumeAsserts
    <3>1. \A i \in DOMAIN s.cs : s.cs[i].L # L BY DeepestEnds DEF Threads
    <3> QED BY <3>1, GoodParts DEF Counts
  <2> QED BY <2>1, <2>2, <2>3 DEF CoroutinesSound
<1> QED BY <1>1, Invariance, PTL
=============================================================================
