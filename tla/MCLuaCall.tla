----------------------------- MODULE MCLuaCall ------------------------------
(***************************************************************************)
(* Two interchangeable coroutines.  They can resume one another, and each  *)
(* can call a C function and try to yield there.                           *)
(***************************************************************************)
EXTENDS LuaCall, TLC

\* How many frames the threads may have together.
CONSTANT MaxFrames

Small == FoldFunction(LAMBDA t, n : t.ci + n, 0, s.th) <= MaxFrames
MCSpec == Init /\ [][Next /\ Small']_s

CoroutineSymmetry == Permutations(Coroutines)
=============================================================================
