----------------------------- MODULE LuaClasses -----------------------------
(***************************************************************************)
(* LuaPlus<T> (LuaWrapper.h): C++ objects owned by userdata.  Each class   *)
(* name has a metatable with a table, weak in its values, from the address *)
(* of an object to its userdata.  The collector (lgc.c) takes unreachable  *)
(* userdata apart in its atomic step and calls __gc on them later, one at  *)
(* a time, while the script goes on and the allocator reuses addresses.    *)
(***************************************************************************)
EXTENDS LuaClassesState

CONSTANTS Classes, Addr, MaxNew   \* MaxNew bounds the objects ever created

ClassesConstants == 0 \notin Addr /\ MaxNew \in Nat

vars == <<registered, object, ud, lookup, reachable, tmudata, nullCall>>

Init ==
  /\ registered = {} /\ object = [a \in Addr |-> 0] /\ ud = <<>>
  /\ lookup = [c \in Classes |-> [a \in Addr |-> 0]]
  /\ reachable = {} /\ tmudata = <<>> /\ nullCall = FALSE

\* Register and RegisteSocketClassL; luaL_newmetatable finds the table of a class registered before.
RegisteSocketClassL(c) ==
  /\ registered' = registered \cup {c}
  /\ UNCHANGED <<object, ud, lookup, reachable, tmudata, nullCall>>

\* push: a new userdata, unless the table has one for the address.
push(c, a, serial) ==
  IF lookup[c][a] # 0
  THEN reachable' = reachable \cup {lookup[c][a]} /\ UNCHANGED <<ud, lookup>>
  ELSE /\ ud' = Append(ud, [class |-> c, pT |-> a, of |-> serial])
       /\ lookup' = [lookup EXCEPT ![c][a] = Len(ud) + 1]
       /\ reachable' = reachable \cup {Len(ud) + 1}

new_T(c, a) ==
  /\ c \in registered /\ object[a] = 0 /\ Len(ud) < MaxNew
  /\ object' = [object EXCEPT ![a] = Len(ud) + 1]
  /\ push(c, a, Len(ud) + 1)
  /\ UNCHANGED <<registered, tmudata, nullCall>>

Drop(u) ==
  /\ u \in reachable /\ reachable' = reachable \ {u}
  /\ UNCHANGED <<registered, object, ud, lookup, tmudata, nullCall>>

\* check and thunk: the metatable must be that of the class the method belongs to.
thunk(u, c) ==
  /\ u \in reachable /\ nullCall' = (nullCall \/ (ud[u].class = c /\ ud[u].pT = 0))
  /\ UNCHANGED <<registered, object, ud, lookup, reachable, tmudata>>

\* Mutant: the walk misses the userdata it starts at.
UnreachableButFirst == {u \in DOMAIN ud : u # 1 /\ u \notin reachable /\ u \notin ToSet(tmudata) /\ ud[u].pT # 0}

Unreachable == {u \in DOMAIN ud : u \notin reachable /\ u \notin ToSet(tmudata) /\ ud[u].pT # 0}

\* Mutant: a weak value that has been marked for its finalizer is kept.
cleartableMarked(dead) == lookup

\* cleartable: values that are finalized leave the weak tables, marked or not.
cleartable(dead) ==
  [c \in Classes |-> [a \in Addr |-> IF lookup[c][a] \in dead THEN 0 ELSE lookup[c][a]]]

\* atomic: luaC_separateudata and then the weak tables.
atomic ==
  /\ Unreachable # {}
  /\ \E order \in SetToSeqs(Unreachable) : tmudata' = tmudata \o order
  /\ lookup' = cleartable(Unreachable)
  /\ UNCHANGED <<registered, object, ud, reachable, nullCall>>

\* GCTM calls gc_T on the first: the object is deleted.
gc_T ==
  /\ tmudata # <<>> /\ tmudata' = Tail(tmudata)
  /\ object' = [object EXCEPT ![ud[Head(tmudata)].pT] = 0]
  /\ ud' = [ud EXCEPT ![Head(tmudata)].pT = 0]
  /\ UNCHANGED <<registered, lookup, reachable, nullCall>>

Next ==
  \/ \E c \in Classes : RegisteSocketClassL(c) \/ \E a \in Addr : new_T(c, a)
  \/ \E u \in DOMAIN ud : Drop(u) \/ \E c \in Classes : thunk(u, c)
  \/ atomic \/ gc_T

\* The collector goes on: allocations drive it.
Fairness == WF_vars(atomic) /\ WF_vars(gc_T)
Spec == Init /\ [][Next]_vars /\ Fairness

-----------------------------------------------------------------------------
(* Properties.                                                             *)

Dropped(u) == u \in DOMAIN ud /\ u \notin reachable
Deleted(u) == u \in DOMAIN ud /\ ud[u].pT = 0

\* An object whose userdata is dropped is deleted in the end.
DroppedIsDeleted == \A u \in 1 .. MaxNew : Dropped(u) ~> Deleted(u)
=============================================================================
