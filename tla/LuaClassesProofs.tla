-------------------------- MODULE LuaClassesProofs --------------------------
(***************************************************************************)
(* Proofs about LuaClasses, for every set of classes and of addresses and  *)
(* every bound on the objects.                                             *)
(*                                                                         *)
(* What the script may rely on is not inductive: it speaks of the userdata *)
(* it holds, while addresses are reused behind its back.  The invariant    *)
(* ties every userdata with a pointer to the object at that address, and   *)
(* keeps what waits for its finalizer out of the weak tables (Bound).      *)
(***************************************************************************)
EXTENDS LuaClasses, SequenceTheorems, FiniteSetTheorems, TLAPS

TypeInv ==
  /\ object \in [Addr -> Nat]
  /\ ud \in Seq([class : Classes, pT : Addr \cup {0}, of : Nat])
  /\ lookup \in [Classes -> [Addr -> Nat]]
  /\ reachable \subseteq DOMAIN ud /\ tmudata \in Seq(Nat) /\ nullCall \in BOOLEAN

\* Userdata with a pointer and objects belong together one to one.
Bound ==
  /\ \A u \in DOMAIN ud : ud[u].of = u
  /\ \A u \in DOMAIN ud : ud[u].pT # 0 => object[ud[u].pT] = u
  /\ \A a \in Addr : object[a] # 0 => object[a] \in DOMAIN ud /\ ud[object[a]].pT = a

\* Weak tables and the script know only userdata that keep their object.
Known ==
  /\ \A c \in Classes, a \in Addr :
       lookup[c][a] # 0 => /\ lookup[c][a] \in DOMAIN ud /\ ud[lookup[c][a]].pT = a
                           /\ lookup[c][a] \notin ToSet(tmudata)
  /\ \A u \in reachable : ud[u].pT # 0 /\ u \notin ToSet(tmudata)

\* Every finalizer runs once.
NoDup(q) == \A i, j \in DOMAIN q : q[i] = q[j] => i = j
Waiting ==
  /\ NoDup(tmudata)
  /\ \A u \in ToSet(tmudata) : u \in DOMAIN ud /\ ud[u].pT # 0

IInv == TypeInv /\ Bound /\ Known /\ Waiting /\ ~nullCall
-----------------------------------------------------------------------------
(* Lists.                                                                  *)

\* The first finalizer leaves the list.
LEMMA TailOfList ==
  ASSUME NEW q \in Seq(Nat), q # <<>>, NoDup(q)
  PROVE  /\ Tail(q) \in Seq(Nat) /\ NoDup(Tail(q))
         /\ Head(q) \in ToSet(q) /\ Head(q) \notin ToSet(Tail(q))
         /\ ToSet(q) = ToSet(Tail(q)) \cup {Head(q)}
<1> DEFINE t == Tail(q)
<1>1. Len(q) \in Nat \ {0} /\ DOMAIN q = 1 .. Len(q) /\ Head(q) = q[1]
  BY EmptySeq, LenProperties
<1>2. /\ t \in Seq(Nat) /\ Len(t) = Len(q) - 1 /\ DOMAIN t = 1 .. Len(q) - 1
      /\ \A i \in 1 .. Len(q) - 1 : t[i] = q[i + 1]
  BY <1>1, HeadTailProperties, LenProperties
<1> HIDE DEF t
<1>3. \A i \in 1 .. Len(q) - 1 : i + 1 \in 1 .. Len(q) /\ i + 1 # 1
  BY <1>1
<1>4. \A k \in 1 .. Len(q) : k = 1 \/ (k - 1 \in 1 .. Len(q) - 1 /\ (k - 1) + 1 = k)
  BY <1>1
<1>5. NoDup(t)
  <2>1. SUFFICES ASSUME NEW i \in 1 .. Len(q) - 1, NEW j \in 1 .. Len(q) - 1, t[i] = t[j] PROVE i = j
    BY <1>2 DEF NoDup
  <2>2. i + 1 = j + 1
    BY <1>1, <1>2, <1>3, <2>1 DEF NoDup
  <2>3. QED
    BY <1>1, <2>2
<1>6. Head(q) \in ToSet(q)
  BY <1>1 DEF ToSet
<1>7. Head(q) \notin ToSet(t)
  <2>1. SUFFICES ASSUME NEW i \in 1 .. Len(q) - 1, t[i] = q[1] PROVE FALSE
    BY <1>1, <1>2 DEF ToSet
  <2>2. q[i + 1] = q[1] /\ i + 1 \in DOMAIN q /\ 1 \in DOMAIN q
    BY <1>1, <1>2, <1>3, <2>1
  <2>3. QED
    BY <1>1, <1>3, <2>2 DEF NoDup
<1>8. ASSUME NEW x \in ToSet(q) PROVE x \in ToSet(t) \cup {Head(q)}
  <2>1. PICK k \in 1 .. Len(q) : x = q[k]
    BY <1>1 DEF ToSet
  <2>2. CASE k = 1
    BY <1>1, <2>1, <2>2
  <2>3. CASE k # 1
    <3>1. k - 1 \in 1 .. Len(q) - 1 /\ t[k - 1] = q[k]
      BY <1>2, <1>4, <2>3
    <3>2. QED
      BY <1>2, <2>1, <3>1 DEF ToSet
  <2>4. QED
    BY <2>2, <2>3
<1>9. ToSet(t) \subseteq ToSet(q)
  BY <1>1, <1>2, <1>3 DEF ToSet
<1>10. QED
  BY <1>2, <1>5, <1>6, <1>7, <1>8, <1>9 DEF t

\* luaC_separateudata appends what is unreachable, each once.
LEMMA AppendDead ==
  ASSUME NEW q \in Seq(Nat), NEW D \in SUBSET Nat, IsFiniteSet(D), NoDup(q),
         ToSet(q) \cap D = {}, NEW order \in SetToSeqs(D)
  PROVE  /\ q \o order \in Seq(Nat) /\ NoDup(q \o order)
         /\ ToSet(q \o order) \subseteq ToSet(q) \cup D
<1> DEFINE n == Cardinality(D)
           r == q \o order
<1>1. n \in Nat
  BY FS_CardinalityType
<1>2. /\ order \in [1 .. n -> D] /\ \A i, j \in 1 .. n : i # j => order[i] # order[j]
  BY DEF SetToSeqs
<1> HIDE DEF n
<1>3. order \in Seq(Nat) /\ DOMAIN order = 1 .. n
  <2>1. order \in [1 .. n -> Nat]
    BY <1>2
  <2>2. QED
    BY <1>1, <2>1, SeqDef
<1>4. Len(order) = n
  BY <1>1, <1>3, LenProperties
<1>5. Len(q) \in Nat /\ DOMAIN q = 1 .. Len(q)
  BY LenProperties
<1>6. /\ r \in Seq(Nat) /\ Len(r) = Len(q) + n
      /\ \A i \in 1 .. Len(q) + n : r[i] = IF i <= Len(q) THEN q[i] ELSE order[i - Len(q)]
  BY <1>3, <1>4, ConcatProperties
<1>7. DOMAIN r = 1 .. Len(q) + n
  BY <1>6, LenProperties
<1> HIDE DEF r
<1>8. \A i \in DOMAIN r : i \in DOMAIN q => r[i] = q[i] /\ r[i] \in ToSet(q)
  <2>1. \A i \in DOMAIN q : i <= Len(q) /\ i \in 1 .. Len(q) + n
    BY <1>1, <1>5
  <2>2. QED
    BY <1>6, <2>1 DEF ToSet
<1>9. \A i \in DOMAIN r : i \notin DOMAIN q => i - Len(q) \in 1 .. n /\ r[i] = order[i - Len(q)] /\ r[i] \in D
  <2>1. \A i \in DOMAIN r : i \notin DOMAIN q => i - Len(q) \in 1 .. n /\ ~(i <= Len(q))
    BY <1>1, <1>5, <1>7
  <2>2. QED
    BY <1>2, <1>6, <1>7, <2>1
<1>10. NoDup(r)
  <2>1. SUFFICES ASSUME NEW i \in DOMAIN r, NEW j \in DOMAIN r, r[i] = r[j] PROVE i = j
    BY DEF NoDup
  <2>2. CASE i \in DOMAIN q /\ j \in DOMAIN q
    BY <1>8, <2>1, <2>2 DEF NoDup
  <2>3. CASE i \notin DOMAIN q /\ j \notin DOMAIN q
    <3>1. i - Len(q) = j - Len(q)
      BY <1>2, <1>9, <2>1, <2>3
    <3>2. QED
      BY <1>1, <1>5, <1>7, <3>1
  <2>4. QED
    BY <1>8, <1>9, <2>1, <2>2, <2>3
<1>11. ToSet(r) \subseteq ToSet(q) \cup D
  BY <1>8, <1>9 DEF ToSet
<1>12. QED
  BY <1>6, <1>10, <1>11 DEF r

-----------------------------------------------------------------------------
(* The steps.                                                              *)

LEMMA InitIInv == Init => IInv
<1> SUFFICES ASSUME Init PROVE IInv
  OBVIOUS
<1>1. DOMAIN <<>> = {}
  OBVIOUS
<1>2. ToSet(<<>>) = {} /\ NoDup(<<>>)
  BY <1>1 DEF ToSet, NoDup
<1>3. ud = <<>> /\ tmudata = <<>> /\ reachable = {} /\ nullCall = FALSE
  BY DEF Init
<1>4. object = [a \in Addr |-> 0] /\ lookup = [c \in Classes |-> [a \in Addr |-> 0]]
  BY DEF Init
<1>5. TypeInv
  BY <1>3, <1>4, EmptySeq DEF TypeInv
<1>6. Bound /\ Waiting
  BY <1>1, <1>2, <1>3, <1>4 DEF Bound, Waiting
<1>7. Known
  BY <1>3, <1>4 DEF Known
<1>8. QED
  BY <1>3, <1>5, <1>6, <1>7 DEF IInv

\* A new object at a free address: no weak table knows the address any more.
LEMMA NewStep ==
  ASSUME ClassesConstants, IInv, NEW c \in Classes, NEW a \in Addr, new_T(c, a)
  PROVE  IInv'
<1> DEFINE k == Len(ud) + 1
           rec == [class |-> c, pT |-> a, of |-> k]
           U == [class : Classes, pT : Addr \cup {0}, of : Nat]
<1>1. ud \in Seq(U) /\ Len(ud) \in Nat /\ DOMAIN ud = 1 .. Len(ud) /\ k \in Nat \ {0} /\ k \notin DOMAIN ud
  BY LenProperties DEF IInv, TypeInv
<1>2. a # 0
  BY DEF ClassesConstants
<1>3. lookup[c][a] = 0
  BY <1>2 DEF new_T, IInv, Bound, Known
<1>4. /\ object[a] = 0 /\ object' = [object EXCEPT ![a] = k] /\ ud' = Append(ud, rec)
      /\ lookup' = [lookup EXCEPT ![c][a] = k] /\ reachable' = reachable \cup {k}
      /\ tmudata' = tmudata /\ nullCall' = nullCall
  BY <1>3 DEF new_T, push
<1>5. rec \in U /\ rec.pT = a /\ rec.of = k
  BY <1>1
<1> HIDE DEF rec, U
<1>6. /\ ud' \in Seq(U) /\ DOMAIN ud' = DOMAIN ud \cup {k} /\ ud'[k] = rec
      /\ \A u \in DOMAIN ud : ud'[u] = ud[u]
  <2>1. /\ ud' \in Seq(U) /\ Len(ud') = k /\ ud'[k] = rec /\ \A u \in 1 .. Len(ud) : ud'[u] = ud[u]
    BY <1>1, <1>4, <1>5, AppendProperties
  <2>2. DOMAIN ud' = 1 .. k
    BY <2>1, LenProperties
  <2>3. QED
    BY <1>1, <2>1, <2>2
<1> HIDE DEF k
<1>7. object' \in [Addr -> Nat] /\ object'[a] = k /\ \A b \in Addr : b # a => object'[b] = object[b]
  BY <1>1, <1>4 DEF IInv, TypeInv
<1>8. /\ lookup' \in [Classes -> [Addr -> Nat]]
      /\ \A d \in Classes, b \in Addr : lookup'[d][b] = IF d = c /\ b = a THEN k ELSE lookup[d][b]
  BY <1>1, <1>4 DEF IInv, TypeInv
<1>9. \A u \in DOMAIN ud : ud[u].pT # a /\ (ud[u].pT # 0 => ud[u].pT \in Addr)
  <2>1. \A u \in DOMAIN ud : ud[u].pT \in Addr \cup {0}
    <3>1. \A u \in DOMAIN ud : ud[u] \in U
      BY <1>1, ElementOfSeq
    <3>2. QED
      BY <3>1 DEF U
  <2>2. \A u \in DOMAIN ud : ud[u].pT # a
    <3>1. \A u \in DOMAIN ud : u # 0
      BY <1>1
    <3>2. QED
      BY <1>2, <1>4, <3>1 DEF IInv, Bound
  <2>3. QED
    BY <2>1, <2>2
<1>10. k \notin ToSet(tmudata)
  BY <1>1 DEF IInv, Waiting
<1>11. TypeInv'
  BY <1>4, <1>6, <1>7, <1>8 DEF IInv, TypeInv, U
<1>12. Bound'
  <2>1. \A u \in DOMAIN ud' : ud'[u].of = u
    BY <1>5, <1>6 DEF IInv, Bound
  <2>2. \A u \in DOMAIN ud' : ud'[u].pT # 0 => object'[ud'[u].pT] = u
    BY <1>5, <1>6, <1>7, <1>9 DEF IInv, Bound
  <2>3. \A b \in Addr : object'[b] # 0 => object'[b] \in DOMAIN ud' /\ ud'[object'[b]].pT = b
    BY <1>5, <1>6, <1>7 DEF IInv, Bound
  <2>4. QED
    BY <2>1, <2>2, <2>3 DEF Bound
<1>13. Known'
  <2>1. ASSUME NEW d \in Classes, NEW b \in Addr, lookup'[d][b] # 0
        PROVE  lookup'[d][b] \in DOMAIN ud' /\ ud'[lookup'[d][b]].pT = b /\ lookup'[d][b] \notin ToSet(tmudata')
    <3>1. CASE d = c /\ b = a
      BY <1>4, <1>5, <1>6, <1>8, <1>10, <3>1
    <3>2. CASE ~(d = c /\ b = a)
      <4>1. lookup'[d][b] = lookup[d][b]
        BY <1>8, <3>2
      <4>2. QED
        BY <1>4, <1>6, <2>1, <4>1 DEF IInv, Known
    <3>3. QED
      BY <3>1, <3>2
  <2>2. ASSUME NEW u \in reachable' PROVE ud'[u].pT # 0 /\ u \notin ToSet(tmudata')
    BY <1>2, <1>4, <1>5, <1>6, <1>10 DEF IInv, Known, TypeInv
  <2>3. QED
    BY <2>1, <2>2 DEF Known
<1>14. Waiting' /\ ~nullCall'
  BY <1>4, <1>6 DEF IInv, Waiting
<1>15. QED
  BY <1>11, <1>12, <1>13, <1>14 DEF IInv

\* The atomic step of the collector takes what is unreachable out of the weak
\* tables in the same step in which it queues the finalizers.
LEMMA AtomicStep ==
  ASSUME IInv, atomic
  PROVE  IInv'
<1>1. PICK order \in SetToSeqs(Unreachable) : tmudata' = tmudata \o order
  BY DEF atomic
<1>2. /\ lookup' = cleartable(Unreachable)
      /\ object' = object /\ ud' = ud /\ reachable' = reachable /\ nullCall' = nullCall
  BY DEF atomic
<1>3. Len(ud) \in Nat /\ DOMAIN ud = 1 .. Len(ud)
  BY LenProperties DEF IInv, TypeInv
<1>4. Unreachable \subseteq DOMAIN ud /\ Unreachable \in SUBSET Nat
  BY <1>3 DEF Unreachable
<1>5. IsFiniteSet(Unreachable)
  <2>1. IsFiniteSet(1 .. Len(ud))
    BY <1>3, FS_Interval
  <2>2. QED
    BY <1>3, <1>4, <2>1, FS_Subset
<1>6. ToSet(tmudata) \cap Unreachable = {} /\ reachable \cap Unreachable = {} /\ \A u \in Unreachable : ud[u].pT # 0
  BY DEF Unreachable
<1>7. /\ tmudata' \in Seq(Nat) /\ NoDup(tmudata') /\ ToSet(tmudata') \subseteq ToSet(tmudata) \cup Unreachable
  BY <1>1, <1>4, <1>5, <1>6, AppendDead DEF IInv, TypeInv, Waiting
<1>8. /\ lookup' \in [Classes -> [Addr -> Nat]]
      /\ \A c \in Classes, a \in Addr : lookup'[c][a] # 0 => lookup'[c][a] = lookup[c][a] /\ lookup[c][a] \notin Unreachable
  BY <1>2 DEF cleartable, IInv, TypeInv
<1>9. TypeInv'
  BY <1>2, <1>7, <1>8 DEF IInv, TypeInv
<1>10. Bound'
  BY <1>2 DEF IInv, Bound
<1>11. Known'
  <2>1. ASSUME NEW c \in Classes, NEW a \in Addr, lookup'[c][a] # 0
        PROVE  lookup'[c][a] \in DOMAIN ud' /\ ud'[lookup'[c][a]].pT = a /\ lookup'[c][a] \notin ToSet(tmudata')
    <3>1. lookup'[c][a] = lookup[c][a] /\ lookup[c][a] \notin Unreachable
      BY <1>8, <2>1
    <3>2. lookup[c][a] \in DOMAIN ud /\ ud[lookup[c][a]].pT = a /\ lookup[c][a] \notin ToSet(tmudata)
      BY <2>1, <3>1 DEF IInv, Known
    <3>3. QED
      BY <1>2, <1>7, <3>1, <3>2
  <2>2. ASSUME NEW u \in reachable' PROVE ud'[u].pT # 0 /\ u \notin ToSet(tmudata')
    BY <1>2, <1>6, <1>7 DEF IInv, Known
  <2>3. QED
    BY <2>1, <2>2 DEF Known
<1>12. Waiting' /\ ~nullCall'
  BY <1>2, <1>4, <1>6, <1>7 DEF IInv, Waiting
<1>13. QED
  BY <1>9, <1>10, <1>11, <1>12 DEF IInv

\* A finalizer deletes the object of its own userdata and no other.
LEMMA FinalizeStep ==
  ASSUME ClassesConstants, IInv, gc_T
  PROVE  IInv'
<1> DEFINE u == Head(tmudata)
           a == ud[u].pT
           U == [class : Classes, pT : Addr \cup {0}, of : Nat]
<1>1. /\ tmudata # <<>> /\ tmudata' = Tail(tmudata)
      /\ object' = [object EXCEPT ![a] = 0] /\ ud' = [ud EXCEPT ![u].pT = 0]
      /\ lookup' = lookup /\ reachable' = reachable /\ nullCall' = nullCall
  BY DEF gc_T
<1>2. /\ tmudata' \in Seq(Nat) /\ NoDup(tmudata')
      /\ u \in ToSet(tmudata) /\ u \notin ToSet(tmudata')
      /\ ToSet(tmudata) = ToSet(tmudata') \cup {u}
  BY <1>1, TailOfList DEF IInv, TypeInv, Waiting
<1>3. ud \in Seq(U) /\ Len(ud) \in Nat /\ DOMAIN ud = 1 .. Len(ud)
  BY LenProperties DEF IInv, TypeInv
<1>4. u \in DOMAIN ud /\ a # 0 /\ u \in Nat
  BY <1>2, <1>3 DEF IInv, Waiting
<1> HIDE DEF u
<1>5. ud[u] \in U
  BY <1>3, <1>4, ElementOfSeq
<1>6. a \in Addr /\ object[a] = u
  BY <1>4, <1>5 DEF IInv, Bound
<1>7. /\ ud' \in Seq(U) /\ DOMAIN ud' = DOMAIN ud
      /\ ud'[u].pT = 0 /\ ud'[u].of = ud[u].of /\ \A v \in DOMAIN ud : v # u => ud'[v] = ud[v]
  <2>1. [ud[u] EXCEPT !.pT = 0] \in U
    BY <1>5
  <2>2. ud' = [ud EXCEPT ![u] = [ud[u] EXCEPT !.pT = 0]]
    BY <1>1, <1>3, <1>4
  <2>3. ud' \in Seq(U)
    BY <1>3, <1>4, <2>1, <2>2, ExceptSeq
  <2>4. DOMAIN ud' = DOMAIN ud /\ ud'[u] = [ud[u] EXCEPT !.pT = 0] /\ \A v \in DOMAIN ud : v # u => ud'[v] = ud[v]
    BY <1>3, <1>4, <2>2
  <2>5. ud'[u].pT = 0 /\ ud'[u].of = ud[u].of
    BY <1>5, <2>4
  <2>6. QED
    BY <2>3, <2>4, <2>5
<1>8. object' \in [Addr -> Nat] /\ object'[a] = 0 /\ \A b \in Addr : b # a => object'[b] = object[b]
  BY <1>1, <1>6 DEF IInv, TypeInv
<1>9. \A v \in DOMAIN ud : v # u /\ ud[v].pT # 0 => ud[v].pT \in Addr /\ ud[v].pT # a
  <2>1. \A v \in DOMAIN ud : ud[v].pT \in Addr \cup {0}
    <3> HIDE DEF U
    <3>1. \A v \in DOMAIN ud : ud[v] \in U
      BY <1>3, ElementOfSeq
    <3>2. QED
      BY <3>1 DEF U
  <2>2. QED
    BY <1>6, <2>1 DEF IInv, Bound
<1> HIDE DEF a, U
<1>10. TypeInv'
  BY <1>1, <1>2, <1>7, <1>8 DEF IInv, TypeInv, U
<1>11. Bound'
  <2>1. \A v \in DOMAIN ud' : ud'[v].of = v
    BY <1>4, <1>7 DEF IInv, Bound
  <2>2. \A v \in DOMAIN ud' : ud'[v].pT # 0 => object'[ud'[v].pT] = v
    BY <1>7, <1>8, <1>9 DEF IInv, Bound
  <2>3. \A b \in Addr : object'[b] # 0 => object'[b] \in DOMAIN ud' /\ ud'[object'[b]].pT = b
    <3>1. SUFFICES ASSUME NEW b \in Addr, object'[b] # 0
                   PROVE  object'[b] \in DOMAIN ud' /\ ud'[object'[b]].pT = b
      OBVIOUS
    <3>2. b # a /\ object'[b] = object[b]
      BY <1>8, <3>1
    <3>3. object[b] \in DOMAIN ud /\ ud[object[b]].pT = b
      BY <3>1, <3>2 DEF IInv, Bound
    <3>4. object[b] # u
      BY <3>2, <3>3 DEF a
    <3>5. QED
      BY <1>7, <3>2, <3>3, <3>4
  <2>4. QED
    BY <2>1, <2>2, <2>3 DEF Bound
<1>12. Known'
  <2>1. ASSUME NEW c \in Classes, NEW b \in Addr, lookup[c][b] # 0
        PROVE  lookup[c][b] \in DOMAIN ud' /\ ud'[lookup[c][b]].pT = b /\ lookup[c][b] \notin ToSet(tmudata')
    BY <1>2, <1>7, <2>1 DEF IInv, Known
  <2>2. ASSUME NEW v \in reachable PROVE ud'[v].pT # 0 /\ v \notin ToSet(tmudata')
    BY <1>2, <1>7 DEF IInv, Known, TypeInv
  <2>3. QED
    BY <1>1, <2>1, <2>2 DEF Known
<1>13. Waiting' /\ ~nullCall'
  BY <1>1, <1>2, <1>7 DEF IInv, Waiting
<1>14. QED
  BY <1>10, <1>11, <1>12, <1>13 DEF IInv

\* Every step keeps the invariant.
LEMMA NextStep == ASSUME ClassesConstants, IInv, [Next]_vars PROVE IInv'
<1>1. ASSUME NEW c \in Classes, RegisteSocketClassL(c) PROVE IInv'
  BY <1>1 DEF RegisteSocketClassL, IInv, TypeInv, Bound, Known, Waiting
<1>2. ASSUME NEW c \in Classes, NEW a \in Addr, new_T(c, a) PROVE IInv'
  BY <1>2, NewStep
<1>3. ASSUME NEW u \in DOMAIN ud, Drop(u) PROVE IInv'
  BY <1>3 DEF Drop, IInv, TypeInv, Bound, Known, Waiting
<1>4. ASSUME NEW u \in DOMAIN ud, NEW c \in Classes, thunk(u, c) PROVE IInv'
  <2>1. nullCall' = nullCall
    BY <1>4 DEF thunk, IInv, Known, TypeInv
  <2>2. QED
    BY <1>4, <2>1 DEF thunk, IInv, TypeInv, Bound, Known, Waiting
<1>5. CASE atomic
  BY <1>5, AtomicStep
<1>6. CASE gc_T
  BY <1>6, FinalizeStep
<1>7. CASE UNCHANGED vars
  BY <1>7 DEF vars, IInv, TypeInv, Bound, Known, Waiting
<1>8. QED
  BY <1>1, <1>2, <1>3, <1>4, <1>5, <1>6, <1>7 DEF Next

-----------------------------------------------------------------------------
(* The theorems.                                                           *)

\* The invariant holds in every state scripts and the collector bring about.
THEOREM Invariance == ASSUME ClassesConstants PROVE Spec => []IInv
<1>1. Init => IInv
  BY InitIInv
<1>2. IInv /\ [Next]_vars => IInv'
  BY NextStep
<1>3. QED
  BY <1>1, <1>2, PTL DEF Spec

\* A userdata the script holds stands for the object it was made for, which is
\* alive, and every object has exactly one userdata that will delete it,
\* although the allocator reuses addresses and finalizers run late (LuaPlus).
THEOREM Ownership == ASSUME ClassesConstants PROVE Spec => []UserdataOwnObjects
<1>1. IInv => UserdataOwnObjects
  <2> SUFFICES ASSUME IInv PROVE UserdataOwnObjects
    OBVIOUS
  <2>1. HoldsItsObject
    BY DEF HoldsItsObject, IInv, TypeInv, Bound, Known
  <2>2. ASSUME NEW a \in Addr, object[a] # 0
        PROVE  Cardinality({u \in DOMAIN ud : ud[u].pT = a /\ ud[u].of = object[a]}) = 1
    <3>1. {u \in DOMAIN ud : ud[u].pT = a /\ ud[u].of = object[a]} = {object[a]}
      BY <2>2 DEF IInv, Bound
    <3>2. QED
      BY <3>1, FS_Singleton
  <2>3. QED
    BY <2>1, <2>2, DOMAIN object = Addr DEF UserdataOwnObjects, OneUserdata, IInv, TypeInv
<1>2. QED
  BY <1>1, Invariance, PTL
=============================================================================
