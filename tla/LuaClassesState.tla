-------------------------- MODULE LuaClassesState ---------------------------
(***************************************************************************)
(* The state of the class binding and what is promised of it.              *)
(***************************************************************************)
EXTENDS Naturals, Sequences, SequencesExt, FiniteSets

VARIABLES
  registered,   \* classes that have a metatable
  object,       \* the object at an address: its serial number, 0 if there is none
  ud,           \* userdata: class, pT and the object it was made for
  lookup,       \* "userdata" of each metatable
  reachable,    \* the userdata the script can reach
  tmudata,      \* those that wait for their finalizer, in order
  nullCall      \* a method was called on a null object

(***************************************************************************)
(* A userdata the script holds stands for the object it was made for, which*)
(* is alive, and for no other, although addresses are reused as soon as an *)
(* object is deleted and finalizers run late.                              *)
(***************************************************************************)
HoldsItsObject ==
  /\ \A u \in reachable : ud[u].pT # 0 /\ object[ud[u].pT] = ud[u].of
  /\ \A u, v \in reachable : ud[u].pT = ud[v].pT => u = v
  /\ ~nullCall

\* Every object has exactly one userdata, which will delete it.
OneUserdata ==
  \A a \in DOMAIN object : object[a] # 0 => Cardinality({u \in DOMAIN ud : ud[u].pT = a /\ ud[u].of = object[a]}) = 1

\* A userdata stands for its object, and every object has one to delete it.
UserdataOwnObjects == HoldsItsObject /\ OneUserdata
=============================================================================
