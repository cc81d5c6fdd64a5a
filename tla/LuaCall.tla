------------------------------- MODULE LuaCall -------------------------------
(***************************************************************************)
(* Calls, protected calls, errors and coroutines: the control of ldo.c,    *)
(* with the functions of lbaselib.c that scripts reach it by.  Values and  *)
(* stacks are left out; what is kept is who is called by whom.             *)
(*                                                                         *)
(* s.th gives for every lua_State its status, the number of frames ci, the *)
(* room for them size_ci, nCcalls and baseCcalls, errfunc (an error        *)
(* handler is set) and fn (its function waits on its stack).  s.cs is the  *)
(* C stack, one entry for every activation of luaV_execute:                *)
(*   call     by luaD_call: a metamethod, or the host                      *)
(*   pcall    by lua_pcall, with what luaD_pcall saves                     *)
(*   handler  by luaG_errormsg                                             *)
(*   resume, wrap  by lua_resume                                           *)
(* level is the frame with which it returns, 0 until it runs; C says that  *)
(* a C function's frame lies below.  s.raise is an error on its way.       *)
(***************************************************************************)
EXTENDS Naturals, Sequences, SequencesExt, FiniteSetsExt

CONSTANTS
  Coroutines, Main,
  LUAI_MAXCALLS, LUAI_MAXCCALLS, BASIC_CI_SIZE

ASSUME CallAssumption ==
  /\ Main \notin Coroutines
  /\ LUAI_MAXCALLS \in Nat /\ LUAI_MAXCCALLS \in Nat \ {0}
  /\ BASIC_CI_SIZE \in 1 .. LUAI_MAXCALLS

VARIABLE s

Threads == Coroutines \cup {Main}

Init ==
  s = [th |-> [L \in Threads |-> [status |-> "ok", ci |-> 0, size_ci |-> BASIC_CI_SIZE, nCcalls |-> 0,
                                  baseCcalls |-> 0, errfunc |-> FALSE, fn |-> L # Main]],
       cs |-> <<>>, raise |-> "none", exited |-> FALSE, panic |-> {}]

Running(S) == IF S.cs = <<>> THEN Main ELSE Last(S.cs).L

\* What follows is skipped when an error was raised.
Then(S, F(_)) == IF S.raise = "none" THEN F(S) ELSE S
Raise(S, how) == [S EXCEPT !.raise = how]

-----------------------------------------------------------------------------
(* Frames.                                                                 *)

\* An overflow is an error; one while an overflow is handled is an error in error handling.
growCI(S, L) ==
  LET size == S.th[L].size_ci
  IN IF size > LUAI_MAXCALLS THEN Raise(S, "throw")
     ELSE IF 2 * size > LUAI_MAXCALLS THEN Raise([S EXCEPT !.th[L].size_ci = 2 * size], "runerror")
     ELSE [S EXCEPT !.th[L].size_ci = 2 * size, !.th[L].ci = @ + 1]

\* luaD_precall enters a function: a new frame.
inc_ci(S, L) == IF S.th[L].ci = S.th[L].size_ci - 1 THEN growCI(S, L) ELSE [S EXCEPT !.th[L].ci = @ + 1]

luaD_poscall(S, L) == [S EXCEPT !.th[L].ci = @ - 1]

restore_stack_limit(S, L) ==
  IF S.th[L].size_ci > LUAI_MAXCALLS /\ S.th[L].ci + 1 < LUAI_MAXCALLS
  THEN [S EXCEPT !.th[L].size_ci = LUAI_MAXCALLS] ELSE S

\* checkstacksizes: the collector gives back room.
Shrink(L) ==
  LET t == s.th[L]
  IN /\ ~s.exited /\ t.size_ci <= LUAI_MAXCALLS /\ 4 * t.ci < t.size_ci /\ 2 * BASIC_CI_SIZE < t.size_ci
     /\ s' = [s EXCEPT !.th[L].size_ci = @ \div 2]

-----------------------------------------------------------------------------
(* Calls.                                                                  *)

Entry(kind, L, C) ==
  [kind |-> kind, L |-> L, C |-> C, level |-> 0, nCcalls |-> s.th[L].nCcalls, ci |-> 0, errfunc |-> s.th[L].errfunc]

\* The entry begins to run: a Lua function is entered.
Runs(S) ==
  LET L == Last(S.cs).L
      U == inc_ci(S, L)
  IN IF U.raise = "none" THEN [U EXCEPT !.cs[Len(U.cs)].level = U.th[L].ci] ELSE U

luaD_call(S, e) ==
  LET n == S.th[e.L].nCcalls + 1
      U == [S EXCEPT !.cs = Append(@, e), !.th[e.L].nCcalls = n]
  IN IF n = LUAI_MAXCCALLS THEN Raise(U, "runerror")
     ELSE IF n >= LUAI_MAXCCALLS + (LUAI_MAXCCALLS \div 8) THEN Raise(U, "throw")
     ELSE Runs(U)

\* luaD_pcall saves the frame, the C calls and the handler.
luaD_pcall(S, e, errfunc) ==
  luaD_call([S EXCEPT !.th[e.L].errfunc = errfunc], [e EXCEPT !.ci = S.th[e.L].ci])

Returned(S, e) == IF e.C THEN luaD_poscall(S, e.L) ELSE S

-----------------------------------------------------------------------------
(* Errors.                                                                 *)

Protected(e) == e.kind \in {"pcall", "resume", "wrap"}

\* The resumer goes on: auxresume returns, or luaB_auxwrap raises the error again.
Resumer(S, kind, failed) ==
  LET L == Running(S)
  IN IF kind = "wrap" /\ failed THEN Raise(S, "runerror") ELSE luaD_poscall(S, L)

\* Mutant: the C calls the error unwound stay counted.
CaughtCounts(S, e) ==
  Returned(restore_stack_limit([S EXCEPT !.th[e.L].ci = e.ci, !.th[e.L].errfunc = e.errfunc], e.L), e)

\* luaD_pcall after the long jump.
Caught(S, e) ==
  Returned(restore_stack_limit([S EXCEPT !.th[e.L].nCcalls = e.nCcalls, !.th[e.L].ci = e.ci,
                                         !.th[e.L].errfunc = e.errfunc], e.L), e)

\* lua_resume after the long jump: the coroutine is dead.
Died(S, e) == Resumer([S EXCEPT !.th[e.L].status = "err", !.th[e.L].nCcalls = @ - 1], e.kind, TRUE)

\* Unwinds to the innermost handler of the running thread; panic is called either way.
luaD_throw ==
  /\ s.raise = "throw" /\ ~s.exited
  /\ LET at == Max({0} \cup {i \in DOMAIN s.cs : Protected(s.cs[i]) /\ s.cs[i].L = Running(s)})
     IN IF at = 0 THEN s' = [s EXCEPT !.exited = TRUE, !.panic = @ \cup {"unprotected"}]
        ELSE LET e == s.cs[at]
                 S == [s EXCEPT !.cs = SubSeq(@, 1, at - 1), !.raise = "none", !.panic = @ \cup {"protected"}]
             IN s' = IF e.kind = "pcall" THEN Caught(S, e) ELSE Died(S, e)

\* Calls the handler, if there is one, and throws.
luaG_errormsg ==
  /\ s.raise = "runerror" /\ ~s.exited
  /\ LET L == Running(s)
     IN s' = IF s.th[L].errfunc THEN luaD_call([s EXCEPT !.raise = "none"], Entry("handler", L, FALSE))
             ELSE Raise(s, "throw")

-----------------------------------------------------------------------------
(* What the running Lua function does.                                     *)

L0 == Running(s)
Idle == s.cs = <<>> /\ s.raise = "none" /\ ~s.exited
Runnable == s.cs # <<>> /\ s.raise = "none" /\ ~s.exited

\* The host calls a script, with or without protection.
HostCall == Idle /\ s' = luaD_call(s, Entry("call", Main, FALSE))
HostPcall == Idle /\ s' = luaD_pcall(s, Entry("pcall", Main, FALSE), FALSE)

Call == Runnable /\ s' = inc_ci(s, L0)
Metamethod == Runnable /\ s' = luaD_call(s, Entry("call", L0, FALSE))
Error == Runnable /\ s' = Raise(s, "runerror")

\* luaB_pcall and luaB_xpcall: a C function's frame, and the call.
luaB_pcall(errfunc) ==
  /\ Runnable
  /\ LET pcall(S) == luaD_pcall(S, Entry("pcall", L0, TRUE), errfunc) IN s' = Then(inc_ci(s, L0), pcall)

-----------------------------------------------------------------------------
(* Coroutines.                                                             *)

costatus(S, co) ==
  IF Running(S) = co THEN "running"
  ELSE CASE S.th[co].status = "yield" -> "suspended"
         [] S.th[co].status = "err" -> "dead"
         [] S.th[co].ci > 0 -> "normal"
         [] OTHER -> IF S.th[co].fn THEN "suspended" ELSE "dead"

lua_setlevel(S, co) == [S EXCEPT !.th[co].nCcalls = S.th[Running(S)].nCcalls]

\* Too deep: the error message replaces what is on the coroutine's stack.
resume_error(S, co, kind) ==
  Resumer([S EXCEPT !.th[co].fn = FALSE], kind, TRUE)

\* The coroutine is counted from its resumer on.
Resumed(S, co, kind) ==
  LET n == S.th[co].nCcalls + 1
      e == [Entry(kind, co, TRUE) EXCEPT !.nCcalls = n - 1]
  IN [S EXCEPT !.th[co].nCcalls = n, !.th[co].baseCcalls = n, !.cs = Append(@, e), !.th[co].status = "ok"]

\* A coroutine starts with its function, or completes the call of yield.
resume(S, co, kind) ==
  LET U == Resumed(S, co, kind)
  IN IF S.th[co].status = "yield" THEN [luaD_poscall(U, co) EXCEPT !.cs[Len(U.cs)].level = 1]
     ELSE Runs([U EXCEPT !.th[co].fn = FALSE])

lua_resume(S, co, kind) ==
  IF S.th[co].nCcalls >= LUAI_MAXCCALLS THEN resume_error(S, co, kind) ELSE resume(S, co, kind)

\* costatus, and the same question again in lua_resume.
Resumable(S, co) ==
  costatus(S, co) = "suspended" /\ (S.th[co].status = "yield" \/ S.th[co].ci = 0)

auxresume(S, co, kind) ==
  IF ~Resumable(S, co) THEN Resumer(S, kind, TRUE) ELSE lua_resume(lua_setlevel(S, co), co, kind)

luaB_coresume(co, kind) ==
  /\ Runnable
  /\ LET aux(S) == auxresume(S, co, kind) IN s' = Then(inc_ci(s, L0), aux)

\* Mutant: a coroutine may yield from inside a C function it called.
CanYieldAlways(S, L) == L # Main

CanYield(S, L) == ~(S.th[L].nCcalls > S.th[L].baseCcalls)

\* luaV_execute returns to its caller, lua_resume, which returns to the resumer.
lua_yield(S) ==
  LET L == Running(S)
      U == [S EXCEPT !.th[L].status = "yield", !.th[L].nCcalls = @ - 1, !.cs = Front(@)]
  IN IF CanYield(S, L) THEN Resumer(U, "resume", FALSE) ELSE Raise(S, "runerror")

luaB_yield == Runnable /\ s' = Then(inc_ci(s, L0), lua_yield)

-----------------------------------------------------------------------------
(* A Lua function returns.                                                 *)

\* To the C code that called it when it is the first of its luaV_execute.
Finished(S, e) ==
  LET U == [S EXCEPT !.cs = Front(@), !.th[e.L].nCcalls = @ - 1]
  IN CASE e.kind = "call" -> U
       [] e.kind = "pcall" -> Returned([U EXCEPT !.th[e.L].errfunc = e.errfunc], e)
       [] e.kind = "handler" -> Raise(U, "throw")
       [] e.kind \in {"resume", "wrap"} -> Resumer(U, e.kind, FALSE)

Return ==
  /\ Runnable
  /\ LET e == Last(s.cs)
         S == luaD_poscall(s, e.L)
     IN s' = IF s.th[e.L].ci = e.level THEN Finished(S, e) ELSE S

Next ==
  \/ HostCall \/ HostPcall \/ Call \/ Metamethod \/ Error \/ Return \/ luaB_yield
  \/ luaB_pcall(TRUE) \/ luaB_pcall(FALSE)
  \/ \E co \in Coroutines, kind \in {"resume", "wrap"} : luaB_coresume(co, kind)
  \/ luaG_errormsg \/ luaD_throw
  \/ \E L \in Threads : Shrink(L)

Spec == Init /\ [][Next]_s

-----------------------------------------------------------------------------
(* Properties.                                                             *)

\* The deepest activation of a thread.
Deepest(L) == Max({0} \cup {i \in DOMAIN s.cs : s.cs[i].L = L})

\* nCcalls of every thread that runs or waits is the depth of the C stack at
\* its deepest activation, over all threads.
CCallsCounted ==
  \A L \in Threads : Deepest(L) > 0 => s.th[L].nCcalls = Deepest(L)

\* The limit holds for all threads together, the room for handlers included.
CStackBounded == Len(s.cs) <= LUAI_MAXCCALLS + (LUAI_MAXCCALLS \div 8) + 1

\* A thread that yielded left nothing of itself on the C stack.
YieldLeavesNothing == \A L \in Threads : s.th[L].status = "yield" => Deepest(L) = 0

\* A coroutine is resumed by one other at a time, so that its chain of resumers has an end.
ResumedOnce ==
  \A i, j \in DOMAIN s.cs : s.cs[i].kind \in {"resume", "wrap"} /\ s.cs[j].kind \in {"resume", "wrap"}
                            /\ s.cs[i].L = s.cs[j].L => i = j

\* The frames fit their room, which overflows once at most; what is saved for a catch exists.
FramesFit ==
  /\ \A L \in Threads : s.th[L].ci < s.th[L].size_ci /\ s.th[L].size_ci <= 2 * LUAI_MAXCALLS
  /\ \A i \in DOMAIN s.cs : s.cs[i].ci <= s.th[s.cs[i].L].ci /\ s.cs[i].level <= s.th[s.cs[i].L].ci

(***************************************************************************)
(* Errors, yields and resumptions from elsewhere never make the count of C *)
(* calls drift, which would refuse yields or let the C stack overflow, nor *)
(* leave a frame without room or a catch without the frame it returns to.  *)
(***************************************************************************)
StacksBounded == CCallsCounted /\ CStackBounded /\ FramesFit

\* What lua_resume asserts: a coroutine that may be resumed has no error handler set.
ResumeAsserts == \A L \in Coroutines : Deepest(L) = 0 /\ s.th[L].status # "err" => ~s.th[L].errfunc

\* A coroutine that yields leaves its resumer nothing to clean up, is resumed
\* by one thread at a time, and comes to lua_resume as it asserts.
CoroutinesSound == YieldLeavesNothing /\ ResumedOnce /\ ResumeAsserts

\* Lua calls the panic function when an error happens outside any protected environment.
PanicOnlyUnprotected == "protected" \notin s.panic
=============================================================================
