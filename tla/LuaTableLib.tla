----------------------------- MODULE LuaTableLib -----------------------------
(***************************************************************************)
(* table.insert, table.remove and table.sort of ltablib.c on a table with  *)
(* the elements a[1] .. a[n]; 0 is nil.  The length is any border of the   *)
(* table.  sort is a quicksort whose every comparison may call the order   *)
(* function of the script, which need not be an order: s.order says        *)
(* whether it is.                                                          *)
(***************************************************************************)
EXTENDS Naturals, Sequences, SequencesExt, FiniteSetsExt

CONSTANTS
  N,            \* the most elements
  Values        \* numbers, which < compares

TableLibConstants == N \in Nat /\ Values \subseteq Nat \ {0}

VARIABLES
  a,        \* the table, on 0 .. N + 1
  list,     \* history: the list the script has in mind
  s         \* the state of auxsort

vars == <<a, list, s>>

nil == 0
Idle == [pc |-> "idle", l |-> 0, u |-> 0, i |-> 0, j |-> 0, P |-> nil, stack |-> <<>>, order |-> TRUE]

Init == a = [k \in 0 .. N + 1 |-> nil] /\ list = <<>> /\ s = Idle

aux_getn == {n \in 0 .. N : (n = 0 \/ a[n] # nil) /\ a[n + 1] = nil}

Swap(i, j) == [a EXCEPT ![i] = a[j], ![j] = a[i]]

-----------------------------------------------------------------------------
(* insert and remove.                                                      *)

MovedUp(pos, e) == [k \in DOMAIN a |-> IF pos < k /\ k <= e THEN a[k - 1] ELSE a[k]]

tinsert(pos, v) ==
  /\ s.pc = "idle" /\ Len(list) < N /\ pos \in 1 .. Len(list) + 1
  /\ \E n \in aux_getn : a' = [MovedUp(pos, Max({n + 1, pos})) EXCEPT ![pos] = v]
  /\ list' = InsertAt(list, pos, v) /\ UNCHANGED s

tremove(pos) ==
  /\ s.pc = "idle"
  /\ \E n \in aux_getn :
       IF ~(1 <= pos /\ pos <= n) THEN UNCHANGED a
       ELSE a' = [k \in DOMAIN a |-> IF pos <= k /\ k < n THEN a[k + 1] ELSE IF k = n THEN nil ELSE a[k]]
  /\ list' = (IF pos \in DOMAIN list THEN RemoveAt(list, pos) ELSE list) /\ UNCHANGED s

-----------------------------------------------------------------------------
(* sort.                                                                   *)

\* The answers of the order function.
sort_comp(x, y) == IF s.order THEN {x < y} ELSE BOOLEAN

Compare(x, y, yes, no) ==
  /\ UNCHANGED list
  /\ \/ TRUE \in sort_comp(x, y) /\ yes
     \/ FALSE \in sort_comp(x, y) /\ no
     \/ ~s.order /\ s' = [s EXCEPT !.pc = "error"] /\ UNCHANGED a

\* The range is done: the larger half of an outer one comes next.
Leave ==
  IF s.stack = <<>> THEN [s EXCEPT !.pc = "sorted"]
  ELSE [s EXCEPT !.pc = "range", !.l = Last(s.stack)[1], !.u = Last(s.stack)[2], !.stack = Front(@)]

sort ==
  /\ s.pc = "idle" /\ UNCHANGED <<a, list>>
  /\ \E n \in aux_getn, order \in BOOLEAN : s' = [Idle EXCEPT !.pc = "range", !.l = 1, !.u = n, !.order = order]

Range1 == s.pc = "range" /\ s.l >= s.u /\ s' = Leave /\ UNCHANGED <<a, list>>

\* a[u] < a[l]?
Ends ==
  LET then == IF s.u - s.l = 1 THEN Leave ELSE [s EXCEPT !.pc = "middle"]
  IN /\ s.pc = "range" /\ s.l < s.u
     /\ Compare(a[s.u], a[s.l], a' = Swap(s.l, s.u) /\ s' = then, UNCHANGED a /\ s' = then)

Mid == (s.l + s.u) \div 2
AfterMiddle == IF s.u - s.l = 2 THEN Leave ELSE [s EXCEPT !.pc = "pivot"]

\* a[i] < a[l]?  and if not, a[u] < a[i]?
Middle ==
  /\ s.pc = "middle"
  /\ Compare(a[Mid], a[s.l], a' = Swap(Mid, s.l) /\ s' = AfterMiddle, UNCHANGED a /\ s' = [s EXCEPT !.pc = "middle2"])
Middle2 ==
  /\ s.pc = "middle2"
  /\ Compare(a[s.u], a[Mid], a' = Swap(Mid, s.u) /\ s' = AfterMiddle, UNCHANGED a /\ s' = AfterMiddle)

\* Mutant: the pivot is copied to u - 1.
PivotCopied ==
  /\ s.pc = "pivot" /\ a' = [a EXCEPT ![s.u - 1] = a[Mid]] /\ UNCHANGED list
  /\ s' = [s EXCEPT !.pc = "up", !.P = a[Mid], !.i = s.l, !.j = s.u - 1]

\* The pivot waits at u - 1.
Pivot ==
  /\ s.pc = "pivot" /\ a' = Swap(Mid, s.u - 1) /\ UNCHANGED list
  /\ s' = [s EXCEPT !.pc = "up", !.P = a[Mid], !.i = s.l, !.j = s.u - 1]

\* repeat ++i until a[i] >= P
ScanUp ==
  LET i == s.i + 1
  IN /\ s.pc = "up" /\ Compare(a[i], s.P, s' = [s EXCEPT !.i = i, !.pc = IF i > s.u THEN "error" ELSE "up"] /\ UNCHANGED a,
                              s' = [s EXCEPT !.i = i, !.pc = "down"] /\ UNCHANGED a)

\* repeat --j until a[j] <= P
ScanDown ==
  LET j == s.j - 1
  IN /\ s.pc = "down" /\ Compare(s.P, a[j], s' = [s EXCEPT !.j = j, !.pc = IF j < s.l THEN "error" ELSE "down"] /\ UNCHANGED a,
                                s' = [s EXCEPT !.j = j, !.pc = "meet"] /\ UNCHANGED a)

Exchange == s.pc = "meet" /\ s.j >= s.i /\ a' = Swap(s.i, s.j) /\ s' = [s EXCEPT !.pc = "up"] /\ UNCHANGED list

\* Mutant: the loop goes on with the whole range.
HalvesWhole ==
  IF s.i - s.l < s.u - s.i THEN <<<<s.l, s.i - 1>>, <<s.l, s.u>>>> ELSE <<<<s.i + 1, s.u>>, <<s.l, s.u>>>>

\* The smaller half is sorted first, by a recursive call, and the larger by the loop.
Halves ==
  IF s.i - s.l < s.u - s.i THEN <<<<s.l, s.i - 1>>, <<s.i + 1, s.u>>>>
  ELSE <<<<s.i + 1, s.u>>, <<s.l, s.i - 1>>>>

\* The pivot goes between the halves.
Split ==
  /\ s.pc = "meet" /\ s.j < s.i /\ a' = Swap(s.u - 1, s.i) /\ UNCHANGED list
  /\ s' = [s EXCEPT !.pc = "range", !.l = Halves[1][1], !.u = Halves[1][2], !.stack = Append(@, Halves[2])]

auxsort == Range1 \/ Ends \/ Middle \/ Middle2 \/ Pivot \/ ScanUp \/ ScanDown \/ Exchange \/ Split

\* The script goes on with another table.
Done == s.pc \in {"sorted", "error"} /\ a' = [k \in DOMAIN a |-> nil] /\ list' = <<>> /\ s' = Idle

Next ==
  \/ \E pos \in 1 .. N, v \in Values : tinsert(pos, v)
  \/ \E pos \in 1 .. N + 1 : tremove(pos)
  \/ sort \/ auxsort \/ Done

\* auxsort is C code: once called it goes on.
Fairness == WF_vars(auxsort)
Spec == Init /\ [][Next]_vars /\ Fairness

-----------------------------------------------------------------------------
(* Properties.                                                             *)

\* insert and remove keep the table the list the script has in mind.
IsTheList == s.pc = "idle" => \A k \in 1 .. N : a[k] = IF k \in DOMAIN list THEN list[k] ELSE nil

\* sort with a real order returns a sorted table and no error.
Sorted ==
  s.order => s.pc # "error" /\ (s.pc = "sorted" => \A k \in 1 .. Len(list) - 1 : a[k] <= a[k + 1])

\* auxsort neither loses nor doubles an element, whatever the order
\* function answers and wherever an error stops it.
ElementsKept ==
  \A v \in Values : Cardinality({k \in DOMAIN a : a[k] = v}) = Cardinality({k \in DOMAIN list : list[k] = v})

\* The invariant the loop of auxsort names: a[l..i] <= P <= a[j..u].
LoopInvariant ==
  s.order /\ s.pc = "up" => (\A k \in s.l .. s.i : a[k] <= s.P) /\ (\A k \in s.j .. s.u : s.P <= a[k])

\* The scans of auxsort stop at most one element beside the range they
\* partition, also with an order function that is none.
ScansStop == s.pc \in {"up", "down", "meet"} => s.i <= s.u + 1 /\ s.l <= s.j + 1

\* auxsort recurs for the smaller half only, so sort's 40 stack slots do for
\* 2^40 elements: the depth is at most the logarithm of the length.
DepthLogarithmic == 2 ^ Len(s.stack) <= Len(list) + 1

\* sort with a real order returns.
Terminates == s.pc = "range" /\ s.order ~> s.pc = "sorted"
=============================================================================
