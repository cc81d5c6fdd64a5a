-------------------------- MODULE MsgBufPoolProofs --------------------------
(***************************************************************************)
(* Proofs about MsgBufPool, for every list of initial lengths in ascending *)
(* order, every set of requests and every bound.                           *)
(*                                                                         *)
(* One owner and the order of the pool are inductive together with the     *)
(* types: the order is kept by enlarge() only because a buffer that grows  *)
(* has one owner and is not in the pool.                                   *)
(***************************************************************************)
EXTENDS MsgBufPool, SequenceTheorems, WellFoundedInduction, TLAPS

TypeInv ==
  /\ pool \in Seq(Nat) /\ size \in Seq(Nat)
  /\ inUse \subseteq DOMAIN size /\ gone \subseteq DOMAIN size
  /\ life \in {"none", "live", "dead"} /\ oom \in BOOLEAN /\ req \in Nat

IInv == TypeInv /\ PoolIsSound

\* The two parts for a list p of buffers with the lengths sz, as require() has
\* them after Init() has run.
Owned(p, sz) ==
  /\ \A i, j \in DOMAIN p : p[i] = p[j] => i = j
  /\ ToSet(p) \cap inUse = {}
  /\ ToSet(p) \cap gone = {} /\ inUse \cap gone = {}
  /\ ToSet(p) \cup inUse \cup gone = DOMAIN sz
Ordered(p, sz) == \A i, j \in DOMAIN p : i <= j => sz[p[i]] <= sz[p[j]]

-----------------------------------------------------------------------------
(* Sequences.                                                              *)

\* RemoveAt, erase() of the list, drops one element and moves up the rest.
LEMMA RemoveAtProperties ==
  ASSUME NEW S, NEW q \in Seq(S), NEW at \in 1 .. Len(q)
  PROVE  /\ RemoveAt(q, at) \in Seq(S)
         /\ Len(RemoveAt(q, at)) = Len(q) - 1
         /\ \A i \in 1 .. Len(q) - 1 : RemoveAt(q, at)[i] = IF i < at THEN q[i] ELSE q[i + 1]
<1> DEFINE l == SubSeq(q, 1, at - 1)
           r == SubSeq(q, at + 1, Len(q))
<1>1. /\ l \in Seq(S) /\ Len(l) = at - 1
      /\ \A i \in 1 .. at - 1 : l[i] = q[i]
  BY SubSeqProperties, ElementOfSeq, LenProperties
<1>2. /\ r \in Seq(S) /\ Len(r) = Len(q) - at
      /\ \A i \in 1 .. Len(q) - at : r[i] = q[at + i]
  BY SubSeqProperties, ElementOfSeq, LenProperties
<1>3. RemoveAt(q, at) = l \o r
  BY DEF RemoveAt
<1> HIDE DEF l, r
<1>4. /\ RemoveAt(q, at) \in Seq(S) /\ Len(RemoveAt(q, at)) = Len(l) + Len(r)
      /\ \A i \in 1 .. Len(l) + Len(r) : RemoveAt(q, at)[i] = IF i <= Len(l) THEN l[i] ELSE r[i - Len(l)]
  <2>1. l \in Seq(S) /\ r \in Seq(S)
    BY <1>1, <1>2
  <2>2. /\ l \o r \in Seq(S) /\ Len(l \o r) = Len(l) + Len(r)
        /\ \A i \in 1 .. Len(l) + Len(r) : (l \o r)[i] = IF i <= Len(l) THEN l[i] ELSE r[i - Len(l)]
    BY <2>1, ConcatProperties
  <2>3. QED
    BY <1>3, <2>2
<1>5. Len(q) \in Nat /\ Len(l) + Len(r) = Len(q) - 1
  BY <1>1, <1>2, LenProperties
<1>6. ASSUME NEW i \in 1 .. Len(q) - 1
      PROVE  RemoveAt(q, at)[i] = IF i < at THEN q[i] ELSE q[i + 1]
  <2>1. CASE i < at
    BY <1>1, <1>4, <1>5, <2>1
  <2>2. CASE ~(i < at)
    <3>0. i \in 1 .. Len(l) + Len(r) /\ ~(i <= Len(l))
      BY <1>1, <1>5, <2>2
    <3>1. RemoveAt(q, at)[i] = r[i - Len(l)]
      BY <1>4, <3>0
    <3>2. PICK j \in 1 .. Len(q) - at : j = i - Len(l) /\ at + j = i + 1
      BY <1>1, <1>5, <2>2
    <3>3. r[j] = q[at + j]
      BY <1>2
    <3>4. QED
      BY <2>2, <3>1, <3>2, <3>3
  <2>3. QED
    BY <2>1, <2>2
<1>7. QED
  BY <1>4, <1>5, <1>6

\* r is q with e put in at at.
Inserted(r, q, at, e) ==
  /\ Len(r) = Len(q) + 1
  /\ \A i \in 1 .. at - 1 : r[i] = q[i]
  /\ r[at] = e
  /\ \A i \in at + 1 .. Len(q) + 1 : r[i] = q[i - 1]

\* InsertAt, insert() of the list, puts one element in and moves down the rest.
LEMMA InsertAtProperties ==
  ASSUME NEW S, NEW q \in Seq(S), NEW at \in 1 .. Len(q) + 1, NEW e \in S
  PROVE  InsertAt(q, at, e) \in Seq(S) /\ Inserted(InsertAt(q, at, e), q, at, e)
<1> DEFINE l == SubSeq(q, 1, at - 1)
           r == SubSeq(q, at, Len(q))
<1>1. /\ l \in Seq(S) /\ Len(l) = at - 1
      /\ \A i \in 1 .. at - 1 : l[i] = q[i]
  BY SubSeqProperties, ElementOfSeq, LenProperties
<1>2. /\ r \in Seq(S) /\ Len(r) = Len(q) - at + 1
      /\ \A i \in 1 .. Len(q) - at + 1 : r[i] = q[at + i - 1]
  BY SubSeqProperties, ElementOfSeq, LenProperties
<1>3. InsertAt(q, at, e) = (l \o <<e>>) \o r
  BY DEF InsertAt
<1>4. <<e>> \in Seq(S) /\ Len(<<e>>) = 1 /\ <<e>>[1] = e
  OBVIOUS
<1> HIDE DEF l, r
<1>5. /\ l \o <<e>> \in Seq(S) /\ Len(l \o <<e>>) = at
      /\ \A i \in 1 .. at : (l \o <<e>>)[i] = IF i < at THEN q[i] ELSE e
  BY <1>1, <1>4, ConcatProperties
<1>6. QED
  <2> DEFINE m == l \o <<e>>
  <2> HIDE DEF m
  <2>1. /\ m \in Seq(S) /\ Len(m) = at /\ InsertAt(q, at, e) = m \o r
        /\ \A i \in 1 .. at : m[i] = IF i < at THEN q[i] ELSE e
    BY <1>3, <1>5 DEF m
  <2>2. /\ m \o r \in Seq(S) /\ Len(m \o r) = Len(m) + Len(r)
        /\ \A i \in 1 .. Len(m) + Len(r) : (m \o r)[i] = IF i <= Len(m) THEN m[i] ELSE r[i - Len(m)]
    BY <1>2, <2>1, ConcatProperties
  <2>3. Len(q) \in Nat /\ at + Len(r) = Len(q) + 1 /\ Len(r) \in Nat
    BY <1>2, LenProperties
  <2>4. ASSUME NEW i \in 1 .. at - 1 PROVE (m \o r)[i] = q[i]
    <3>1. i \in 1 .. at /\ i < at /\ i \in 1 .. Len(m) + Len(r) /\ i <= Len(m)
      BY <2>1, <2>3
    <3>2. QED
      BY <2>1, <2>2, <3>1
  <2>5. (m \o r)[at] = e
    <3>1. at \in 1 .. at /\ ~(at < at) /\ at \in 1 .. Len(m) + Len(r) /\ at <= Len(m)
      BY <2>1, <2>3
    <3>2. QED
      BY <2>1, <2>2, <3>1
  <2>6. ASSUME NEW i \in at + 1 .. Len(q) + 1 PROVE (m \o r)[i] = q[i - 1]
    <3>1. /\ i \in 1 .. Len(m) + Len(r) /\ ~(i <= Len(m)) /\ i - Len(m) \in 1 .. Len(q) - at + 1
          /\ at + (i - Len(m)) - 1 = i - 1
      BY <1>2, <2>1, <2>3
    <3>2. (m \o r)[i] = r[i - Len(m)]
      BY <2>2, <3>1
    <3>3. r[i - Len(m)] = q[at + (i - Len(m)) - 1]
      BY <1>2, <3>1
    <3>4. QED
      BY <3>1, <3>2, <3>3
  <2>7. QED
    BY <2>1, <2>2, <2>3, <2>4, <2>5, <2>6 DEF Inserted

\* What RemoveAt does to a list without repetitions.
LEMMA RemoveAtSet ==
  ASSUME NEW S, NEW q \in Seq(S), NEW at \in 1 .. Len(q),
         \A i, j \in DOMAIN q : q[i] = q[j] => i = j
  PROVE  /\ ToSet(RemoveAt(q, at)) = ToSet(q) \ {q[at]}
         /\ \A i, j \in DOMAIN RemoveAt(q, at) : RemoveAt(q, at)[i] = RemoveAt(q, at)[j] => i = j
<1> DEFINE r == RemoveAt(q, at)
           at2(i) == IF i < at THEN i ELSE i + 1
<1>1. r \in Seq(S) /\ Len(q) \in Nat /\ Len(r) = Len(q) - 1 /\ DOMAIN r = 1 .. Len(q) - 1 /\ DOMAIN q = 1 .. Len(q)
  BY RemoveAtProperties, LenProperties
<1>2. \A i \in 1 .. Len(q) - 1 : at2(i) \in DOMAIN q /\ at2(i) # at /\ r[i] = q[at2(i)]
  <2>1. \A i \in 1 .. Len(q) - 1 : r[i] = IF i < at THEN q[i] ELSE q[i + 1]
    BY RemoveAtProperties
  <2> HIDE DEF r
  <2>2. QED
    BY <1>1, <2>1
<1>3. \A k \in DOMAIN q : k # at => \E i \in 1 .. Len(q) - 1 : at2(i) = k
  <2> SUFFICES ASSUME NEW k \in DOMAIN q, k # at PROVE \E i \in 1 .. Len(q) - 1 : at2(i) = k
    OBVIOUS
  <2>1. CASE k < at
    BY <1>1, <2>1
  <2>2. CASE k > at
    <3>1. k - 1 \in 1 .. Len(q) - 1 /\ at2(k - 1) = k
      BY <1>1, <2>2
    <3>2. QED
      BY <3>1
  <2>3. QED
    BY <1>1, <2>1, <2>2
<1>4. \A i, j \in 1 .. Len(q) - 1 : at2(i) = at2(j) => i = j
  BY <1>1
<1> HIDE DEF r, at2
<1>5. ToSet(r) = ToSet(q) \ {q[at]}
  <2>1. ASSUME NEW x \in ToSet(r) PROVE x \in ToSet(q) \ {q[at]}
    <3>1. PICK i \in 1 .. Len(q) - 1 : x = r[i]
      BY <1>1 DEF ToSet
    <3>2. x = q[at2(i)] /\ at2(i) \in DOMAIN q /\ at2(i) # at
      BY <1>2, <3>1
    <3>3. QED
      BY <1>1, <3>2 DEF ToSet
  <2>2. ASSUME NEW x \in ToSet(q) \ {q[at]} PROVE x \in ToSet(r)
    <3>1. PICK k \in DOMAIN q : x = q[k] /\ k # at
      BY DEF ToSet
    <3>2. PICK i \in 1 .. Len(q) - 1 : at2(i) = k
      BY <1>3, <3>1
    <3>3. QED
      BY <1>1, <1>2, <3>1, <3>2 DEF ToSet
  <2>3. QED
    BY <2>1, <2>2
<1>6. QED
  BY <1>1, <1>2, <1>4, <1>5 DEF r

\* What InsertAt does to a list that does not have the element yet.
LEMMA InsertAtSet ==
  ASSUME NEW S, NEW q \in Seq(S), NEW at \in 1 .. Len(q) + 1, NEW e \in S, e \notin ToSet(q),
         \A i, j \in DOMAIN q : q[i] = q[j] => i = j
  PROVE  /\ ToSet(InsertAt(q, at, e)) = ToSet(q) \cup {e}
         /\ \A i, j \in DOMAIN InsertAt(q, at, e) : InsertAt(q, at, e)[i] = InsertAt(q, at, e)[j] => i = j
<1> DEFINE r == InsertAt(q, at, e)
           to(i) == IF i < at THEN i ELSE i - 1
<1>1. r \in Seq(S) /\ Len(q) \in Nat /\ Len(r) = Len(q) + 1 /\ DOMAIN r = 1 .. Len(q) + 1 /\ DOMAIN q = 1 .. Len(q)
  <2>1. r \in Seq(S) /\ Inserted(r, q, at, e)
    BY InsertAtProperties
  <2>2. QED
    BY <2>1, LenProperties DEF Inserted
<1>2. at \in DOMAIN r /\ r[at] = e
  <2>1. r[at] = e
    BY InsertAtProperties DEF Inserted
  <2> HIDE DEF r
  <2>2. QED
    BY <1>1, <2>1
<1>3. \A i \in DOMAIN r : i # at => to(i) \in DOMAIN q /\ r[i] = q[to(i)]
  <2>1. (\A i \in 1 .. at - 1 : r[i] = q[i]) /\ (\A i \in at + 1 .. Len(q) + 1 : r[i] = q[i - 1])
    BY InsertAtProperties DEF Inserted
  <2> HIDE DEF r
  <2>2. QED
    BY <1>1, <2>1
<1>4. \A k \in DOMAIN q : \E i \in DOMAIN r : i # at /\ to(i) = k
  <2> SUFFICES ASSUME NEW k \in DOMAIN q PROVE \E i \in DOMAIN r : i # at /\ to(i) = k
    OBVIOUS
  <2>1. CASE k < at
    BY <1>1, <2>1
  <2>2. CASE ~(k < at)
    <3>1. k + 1 \in DOMAIN r /\ k + 1 # at /\ to(k + 1) = k
      BY <1>1, <2>2
    <3>2. QED
      BY <3>1
  <2>3. QED
    BY <2>1, <2>2
<1>5. \A i, j \in DOMAIN r : i # at /\ j # at /\ to(i) = to(j) => i = j
  BY <1>1
<1> HIDE DEF r, to
<1>6. ToSet(r) = ToSet(q) \cup {e}
  BY <1>2, <1>3, <1>4 DEF ToSet
<1>7. \A i \in DOMAIN r : i # at => r[i] # e
  BY <1>3 DEF ToSet
<1>8. QED
  BY <1>2, <1>3, <1>5, <1>6, <1>7 DEF r

\* The least element of a set of naturals.
LEMMA MinOfSet ==
  ASSUME NEW S \in SUBSET Nat, S # {}
  PROVE  Min(S) \in S /\ \A z \in S : Min(S) <= z
<1>1. PICK y \in S : \A z \in S : ~(<<z, y>> \in OpToRel(<, Nat))
  BY NatLessThanWellFounded, WFMin
<1>2. \A z \in S : ~(z < y)
  BY <1>1 DEF OpToRel
<1>3. \A z \in S : y <= z
  BY <1>2
<1>4. QED
  BY <1>3 DEF Min

\* The search of require() and release(): the first buffer that is long enough.
LEMMA FirstFitProperties ==
  ASSUME NEW p \in Seq(Nat), NEW sizes, NEW n \in Nat
  PROVE  /\ FirstFit(p, sizes, n) \in 0 .. Len(p)
         /\ FirstFit(p, sizes, n) = 0 => \A i \in 1 .. Len(p) : ~(sizes[p[i]] >= n)
         /\ FirstFit(p, sizes, n) # 0 =>
              /\ sizes[p[FirstFit(p, sizes, n)]] >= n
              /\ \A i \in 1 .. FirstFit(p, sizes, n) - 1 : ~(sizes[p[i]] >= n)
<1> DEFINE I == {i \in 1 .. Len(p) : sizes[p[i]] >= n}
<1>1. FirstFit(p, sizes, n) = IF I # {} THEN Min(I) ELSE 0
  BY DEF FirstFit, SelectInSeq
<1>2. I \in SUBSET Nat /\ I \subseteq 1 .. Len(p) /\ Len(p) \in Nat
  OBVIOUS
<1>3. CASE I = {}
  BY <1>1, <1>2, <1>3
<1>4. CASE I # {}
  <2>1. Min(I) \in I /\ \A z \in I : Min(I) <= z
    BY <1>2, <1>4, MinOfSet
  <2>2. FirstFit(p, sizes, n) = Min(I)
    BY <1>1, <1>4
  <2>3. PICK k \in I : k = Min(I)
    BY <2>1
  <2>4. k \in 1 .. Len(p) /\ sizes[p[k]] >= n
    BY <2>3
  <2>5. ASSUME NEW i \in 1 .. k - 1 PROVE ~(sizes[p[i]] >= n)
    <3>1. i \in 1 .. Len(p) /\ ~(k <= i)
      BY <1>2, <2>4
    <3>2. i \notin I
      BY <2>1, <2>3, <3>1
    <3>3. QED
      BY <3>1, <3>2
  <2>6. FirstFit(p, sizes, n) = k /\ k # 0 /\ k \in 0 .. Len(p)
    BY <2>2, <2>3, <2>4
  <2>7. QED
    BY <2>4, <2>5, <2>6
<1>5. QED
  BY <1>3, <1>4
-----------------------------------------------------------------------------
(* The steps.                                                              *)

\* Before getInstance there is nothing.
LEMMA InitIInv == Init => IInv
<1> SUFFICES ASSUME Init PROVE IInv
  OBVIOUS
<1>1. pool = <<>> /\ size = <<>> /\ DOMAIN pool = {} /\ DOMAIN size = {} /\ ToSet(pool) = {}
  BY DEF Init, ToSet
<1>2. TypeInv
  BY <1>1, EmptySeq DEF Init, TypeInv
<1>3. OneOwner
  BY <1>1 DEF Init, OneOwner
<1>4. PoolSorted
  BY <1>1 DEF PoolSorted
<1>5. QED
  BY <1>2, <1>3, <1>4 DEF IInv, PoolIsSound

\* Init() puts new buffers into an empty pool, in the order of their lengths.
LEMMA RefillProperties ==
  ASSUME PoolConstants, IInv, life # "dead", NEW bad \in SUBSET DOMAIN InitSizes
  PROVE  LET r == Refill(bad)
         IN /\ r.pool \in Seq(Nat) /\ r.size \in Seq(Nat) /\ r.pool # <<>>
            /\ Len(size) <= Len(r.size) /\ Owned(r.pool, r.size)
            /\ ~oom /\ bad = {} => Ordered(r.pool, r.size)
<1> DEFINE k == Len(InitSizes)
           n == Len(size)
           made == Made(InitSizes, bad)
           p == [i \in DOMAIN InitSizes |-> Len(size) + i]
<1>1. InitSizes \in Seq(Nat) /\ k \in Nat \ {0} /\ DOMAIN InitSizes = 1 .. k
  BY EmptySeq, LenProperties DEF PoolConstants
<1>2. size \in Seq(Nat) /\ n \in Nat /\ DOMAIN size = 1 .. n
  BY LenProperties DEF IInv, TypeInv
<1>3. CASE pool # <<>>
  BY <1>2, <1>3 DEF Refill, IInv, TypeInv, PoolIsSound, OneOwner, PoolSorted, Owned, Ordered
<1>4. CASE pool = <<>>
  <2>1. Refill(bad).pool = p /\ Refill(bad).size = size \o made
    BY <1>4 DEF Refill
  <2>2. made \in Seq(Nat) /\ Len(made) = k /\ \A i \in 1 .. k : made[i] = IF i \in bad THEN 0 ELSE InitSizes[i]
    BY <1>1 DEF Made
  <2>3. /\ size \o made \in Seq(Nat) /\ Len(size \o made) = n + k
        /\ \A i \in 1 .. n + k : (size \o made)[i] = IF i <= n THEN size[i] ELSE made[i - n]
    BY <1>2, <2>2, ConcatProperties
  <2>4. p \in Seq(Nat) /\ Len(p) = k /\ DOMAIN p = 1 .. k /\ p # <<>> /\ \A i \in 1 .. k : p[i] = n + i
    <3>1. p \in [1 .. k -> Nat] /\ DOMAIN p = 1 .. k /\ \A i \in 1 .. k : p[i] = n + i
      BY <1>1, <1>2
    <3>2. p \in Seq(Nat)
      BY <1>1, <3>1, SeqDef
    <3>3. Len(p) \in Nat /\ 1 .. Len(p) = 1 .. k
      BY <3>1, <3>2, LenProperties
    <3>4. Len(p) = k
      <4> HIDE DEF p, k
      <4> QED
        BY <1>1, <3>3
    <3>5. QED
      BY <1>1, <3>1, <3>2, <3>4, EmptySeq
  <2> HIDE DEF p, made, k, n
  <2>5. ToSet(p) = n + 1 .. n + k
    <3>1. ASSUME NEW x \in n + 1 .. n + k PROVE x \in ToSet(p)
      <4>1. x - n \in 1 .. k /\ n + (x - n) = x
        BY <1>1, <1>2
      <4>2. QED
        BY <2>4, <4>1 DEF ToSet
    <3>2. QED
      BY <1>1, <1>2, <2>4, <3>1 DEF ToSet
  <2>6. DOMAIN (size \o made) = 1 .. n + k
    BY <2>3, LenProperties
  <2>7. inUse \cap gone = {} /\ inUse \cup gone = 1 .. n
    BY <1>2, <1>4 DEF IInv, PoolIsSound, OneOwner, ToSet
  <2>8. Owned(p, size \o made)
    BY <1>1, <1>2, <2>4, <2>5, <2>6, <2>7 DEF Owned
  <2>9. ASSUME bad = {} PROVE Ordered(p, size \o made)
    <3>1. ASSUME NEW i \in 1 .. k PROVE (size \o made)[p[i]] = InitSizes[i]
      <4>1. n + i \in 1 .. n + k /\ ~(n + i <= n) /\ (n + i) - n = i
        BY <1>1, <1>2
      <4>2. (size \o made)[n + i] = made[i]
        BY <2>3, <4>1
      <4>3. QED
        BY <2>2, <2>4, <2>9, <4>2
    <3>2. ASSUME NEW i \in 1 .. k, NEW j \in 1 .. k, i <= j PROVE InitSizes[i] <= InitSizes[j]
      BY <1>1, <3>2 DEF PoolConstants
    <3>3. SUFFICES ASSUME NEW i \in 1 .. k, NEW j \in 1 .. k, i <= j
                   PROVE  (size \o made)[p[i]] <= (size \o made)[p[j]]
      BY <2>4 DEF Ordered
    <3>4. QED
      BY <3>1, <3>2, <3>3
  <2>10. QED
    BY <1>2, <2>1, <2>3, <2>4, <2>8, <2>9 DEF n
<1>5. QED
  BY <1>3, <1>4

\* require() takes the best fit out of the pool, or makes it.
LEMMA RequireStep ==
  ASSUME PoolConstants, IInv, NEW n \in Requests, require(n)
  PROVE  IInv' /\ HandsOutBestFit
<1>1. PICK bad \in SUBSET DOMAIN InitSizes, fails \in BOOLEAN :
        LET r == Refill(bad)
            at == IF n = 0 THEN 1 ELSE FirstFit(r.pool, r.size, n)
            new == Len(r.size) + 1
        IN /\ life # "dead"
           /\ fails => at = 0
           /\ IF at # 0
              THEN /\ pool' = erase(r.pool, at)
                   /\ size' = r.size
                   /\ inUse' = inUse \cup {r.pool[at]}
              ELSE /\ pool' = r.pool
                   /\ size' = Append(r.size, IF fails THEN 0 ELSE n)
                   /\ inUse' = inUse \cup {new}
           /\ oom' = (oom \/ fails \/ bad # {})
           /\ life' = "live" /\ req' = n
           /\ gone' = gone
  BY DEF require
<1> DEFINE p == Refill(bad).pool
           sz == Refill(bad).size
           at == IF n = 0 THEN 1 ELSE FirstFit(p, sz, n)
<1>2. n \in Nat
  BY DEF PoolConstants
<1>3. /\ p \in Seq(Nat) /\ sz \in Seq(Nat) /\ p # <<>> /\ Len(size) <= Len(sz)
      /\ Owned(p, sz) /\ (~oom /\ bad = {} => Ordered(p, sz))
  BY <1>1, RefillProperties
<1> HIDE DEF p, sz
<1>4. /\ Len(p) \in Nat \ {0} /\ DOMAIN p = 1 .. Len(p) /\ Len(sz) \in Nat /\ DOMAIN sz = 1 .. Len(sz)
      /\ \A i \in 1 .. Len(p) : p[i] \in 1 .. Len(sz) /\ sz[p[i]] \in Nat
  <2>1. Len(p) \in Nat /\ DOMAIN p = 1 .. Len(p) /\ Len(sz) \in Nat /\ DOMAIN sz = 1 .. Len(sz)
    BY <1>3, LenProperties
  <2>2. Len(p) # 0
    BY <1>3, EmptySeq
  <2>3. ASSUME NEW i \in 1 .. Len(p) PROVE p[i] \in 1 .. Len(sz) /\ sz[p[i]] \in Nat
    <3>1. p[i] \in ToSet(p)
      BY <2>1 DEF ToSet
    <3>2. p[i] \in 1 .. Len(sz)
      BY <1>3, <2>1, <3>1 DEF Owned
    <3>3. QED
      BY <1>3, <3>2, ElementOfSeq
  <2>4. QED
    BY <2>1, <2>2, <2>3
<1>5. /\ at \in 0 .. Len(p)
      /\ at = 0 => \A i \in 1 .. Len(p) : ~(sz[p[i]] >= n)
      /\ at # 0 => sz[p[at]] >= n /\ \A i \in 1 .. at - 1 : ~(sz[p[i]] >= n)
      /\ n = 0 => at = 1
  <2>1. CASE n = 0
    <3>1. at = 1 /\ 1 \in 1 .. Len(p) /\ sz[p[1]] \in Nat /\ 1 .. at - 1 = {}
      BY <1>4, <2>1
    <3>2. QED
      BY <2>1, <3>1
  <2>2. CASE n # 0
    <3>1. at = FirstFit(p, sz, n)
      BY <2>2
    <3>2. QED
      BY <1>2, <1>3, <2>2, <3>1, FirstFitProperties
  <2>3. QED
    BY <2>1, <2>2
<1>6. oom' \in BOOLEAN /\ life' = "live" /\ req' = n /\ gone' = gone
      /\ (~oom' => ~oom /\ bad = {} /\ ~fails)
  BY <1>1 DEF IInv, TypeInv
<1>7. CASE at # 0
  <2>1. pool' = RemoveAt(p, at) /\ size' = sz /\ inUse' = inUse \cup {p[at]}
    BY <1>1, <1>7 DEF p, sz, erase
  <2> HIDE DEF at
  <2>2. at \in 1 .. Len(p)
    BY <1>4, <1>5, <1>7
  <2>3. /\ pool' \in Seq(Nat) /\ Len(pool') = Len(p) - 1 /\ DOMAIN pool' = 1 .. Len(p) - 1
        /\ \A i \in 1 .. Len(p) - 1 : pool'[i] = IF i < at THEN p[i] ELSE p[i + 1]
    <3>1. /\ RemoveAt(p, at) \in Seq(Nat) /\ Len(RemoveAt(p, at)) = Len(p) - 1
          /\ \A i \in 1 .. Len(p) - 1 : RemoveAt(p, at)[i] = IF i < at THEN p[i] ELSE p[i + 1]
      BY <1>3, <2>2, RemoveAtProperties
    <3>2. DOMAIN RemoveAt(p, at) = 1 .. Len(p) - 1
      BY <3>1, LenProperties
    <3>3. QED
      BY <2>1, <3>1, <3>2
  <2>4. /\ ToSet(pool') = ToSet(p) \ {p[at]}
        /\ \A i, j \in DOMAIN pool' : pool'[i] = pool'[j] => i = j
    BY <1>3, <2>1, <2>2, RemoveAtSet DEF Owned
  <2>5. p[at] \in ToSet(p)
    BY <1>4, <2>2 DEF ToSet
  <2>6. OneOwner'
    <3>1. ToSet(pool') \cap inUse' = {} /\ (ToSet(pool') \cup inUse') \cap gone' = {}
      BY <1>3, <1>6, <2>1, <2>4, <2>5 DEF Owned
    <3>2. ToSet(pool') \cup inUse' \cup gone' = DOMAIN size'
      <4>1. ToSet(p) \cup inUse \cup gone = DOMAIN sz
        BY <1>3 DEF Owned
      <4>2. ToSet(pool') \cup inUse' \cup gone' = ToSet(p) \cup inUse \cup gone
        BY <1>6, <2>1, <2>4, <2>5
      <4>3. QED
        BY <2>1, <4>1, <4>2
    <3>3. life' # "dead"
      BY <1>6
    <3>4. QED
      BY <2>4, <3>1, <3>2, <3>3 DEF OneOwner
  <2>7. TypeInv'
    BY <1>2, <1>3, <1>6, <2>1, <2>3, <2>5 DEF TypeInv, Owned
  <2>8. ASSUME ~oom', NEW i \in DOMAIN pool', NEW j \in DOMAIN pool', i <= j
        PROVE  size'[pool'[i]] <= size'[pool'[j]]
    <3>1. Ordered(p, sz)
      BY <1>3, <1>6, <2>8
    <3>2. PICK k \in 1 .. Len(p), l \in 1 .. Len(p) : pool'[i] = p[k] /\ pool'[j] = p[l] /\ k <= l
      <4> DEFINE up(x) == IF x < at THEN x ELSE x + 1
      <4>1. \A x \in 1 .. Len(p) - 1 : up(x) \in 1 .. Len(p) /\ pool'[x] = p[up(x)]
        BY <1>4, <2>2, <2>3
      <4>2. i \in 1 .. Len(p) - 1 /\ j \in 1 .. Len(p) - 1
        BY <2>3
      <4>3. up(i) <= up(j)
        BY <1>4, <2>2, <2>8, <4>2
      <4> HIDE DEF up
      <4>4. QED
        BY <4>1, <4>2, <4>3
    <3>3. QED
      BY <1>4, <2>1, <3>1, <3>2 DEF Ordered
  <2>9. PoolSorted'
    BY <2>8 DEF PoolSorted
  <2>10. HandsOutBestFit
    <3>1. SUFFICES ASSUME ~oom', NEW i \in DOMAIN pool'
                   PROVE  sz[pool'[i]] < n \/ sz[pool'[i]] >= sz[p[at]]
      BY <1>4, <1>5, <1>6, <1>7, <2>1 DEF HandsOutBestFit
    <3>2. Ordered(p, sz)
      BY <1>3, <1>6, <3>1
    <3>3. CASE i < at
      <4>1. i \in 1 .. at - 1 /\ i \in 1 .. Len(p) - 1 /\ i \in 1 .. Len(p)
        BY <1>4, <2>2, <2>3, <3>3
      <4>2. pool'[i] = p[i] /\ ~(sz[p[i]] >= n) /\ sz[p[i]] \in Nat
        BY <1>4, <1>5, <1>7, <2>3, <3>3, <4>1
      <4>3. QED
        BY <1>2, <4>2
    <3>4. CASE ~(i < at)
      <4>1. i + 1 \in 1 .. Len(p) /\ at <= i + 1 /\ pool'[i] = p[i + 1]
        BY <1>4, <2>2, <2>3, <3>4
      <4>2. QED
        BY <1>4, <2>2, <3>2, <4>1 DEF Ordered
    <3>5. QED
      BY <3>3, <3>4
  <2>11. QED
    BY <2>6, <2>7, <2>9, <2>10 DEF IInv, PoolIsSound
<1>8. CASE at = 0
  <2> DEFINE v == IF fails THEN 0 ELSE n
             new == Len(sz) + 1
  <2>1. pool' = p /\ size' = Append(sz, v) /\ inUse' = inUse \cup {new}
    BY <1>1, <1>8 DEF p, sz
  <2>2. v \in Nat /\ new \in Nat
    BY <1>2, <1>4
  <2> HIDE DEF at
  <2>3. /\ size' \in Seq(Nat) /\ Len(size') = new /\ DOMAIN size' = 1 .. new /\ size'[new] = v
        /\ \A i \in 1 .. Len(sz) : size'[i] = sz[i]
    BY <1>3, <2>1, <2>2, AppendProperties, LenProperties
  <2>4. DOMAIN size' = DOMAIN sz \cup {new} /\ new \notin DOMAIN sz
    BY <1>4, <2>3
  <2>5. OneOwner'
    BY <1>3, <1>6, <2>1, <2>4 DEF OneOwner, Owned
  <2>6. TypeInv'
    BY <1>2, <1>3, <1>6, <2>1, <2>3, <2>4 DEF TypeInv, Owned
  <2>7. \A i \in 1 .. Len(p) : size'[p[i]] = sz[p[i]]
    BY <1>4, <2>3
  <2>8. PoolSorted'
    BY <1>3, <1>4, <1>6, <2>1, <2>7 DEF PoolSorted, Ordered
  <2>9. HandsOutBestFit
    <3>1. SUFFICES ASSUME ~oom', NEW i \in 1 .. Len(p) PROVE sz[p[i]] < n
      BY <1>2, <1>4, <1>6, <2>1, <2>3, <2>7 DEF HandsOutBestFit
    <3>2. QED
      BY <1>2, <1>4, <1>5, <1>8
  <2>10. QED
    BY <2>5, <2>6, <2>8, <2>9 DEF IInv, PoolIsSound
<1>9. QED
  BY <1>7, <1>8
\* release() puts the buffer before the first that is at least as long.
LEMMA ReleaseStep ==
  ASSUME IInv, NEW b \in DOMAIN size, release(b)
  PROVE  IInv' /\ inUse' \subseteq inUse
<1>1. /\ b \in inUse /\ inUse' = inUse \ {b}
      /\ size' = size /\ life' = life /\ oom' = oom /\ req' = req
  BY DEF release
<1>2. pool \in Seq(Nat) /\ size \in Seq(Nat)
  BY DEF IInv, TypeInv
<1>3. /\ Len(pool) \in Nat /\ DOMAIN pool = 1 .. Len(pool)
      /\ Len(size) \in Nat /\ DOMAIN size = 1 .. Len(size)
  BY <1>2, LenProperties
<1>4. b \in Nat /\ size[b] \in Nat
  BY <1>2, <1>3, ElementOfSeq
<1>5. /\ \A i, j \in DOMAIN pool : pool[i] = pool[j] => i = j
      /\ ToSet(pool) \cap inUse = {} /\ ToSet(pool) \cap gone = {} /\ inUse \cap gone = {}
      /\ ToSet(pool) \cup inUse \cup gone = DOMAIN size
      /\ (life = "dead" => pool = <<>>)
  BY DEF IInv, PoolIsSound, OneOwner
<1>6. CASE life # "live"
  <2>1. pool' = pool /\ gone' = gone \cup {b}
    BY <1>6 DEF release
  <2>2. TypeInv'
    BY <1>1, <2>1 DEF IInv, TypeInv
  <2>3. OneOwner'
    BY <1>1, <1>5, <2>1 DEF OneOwner
  <2>4. PoolSorted'
    BY <1>1, <2>1 DEF IInv, PoolIsSound, PoolSorted
  <2>5. QED
    BY <1>1, <2>2, <2>3, <2>4 DEF IInv, PoolIsSound
<1>7. CASE life = "live"
  <2> DEFINE fit == FirstFit(pool, size, size[b])
             at == IF fit = 0 THEN Len(pool) + 1 ELSE fit
  <2>1. pool' = InsertAt(pool, at, b) /\ gone' = gone
    BY <1>7 DEF release, InsertPos, FirstFit
  <2>2. /\ at \in 1 .. Len(pool) + 1
        /\ \A i \in 1 .. at - 1 : ~(size[pool[i]] >= size[b])
        /\ at \in 1 .. Len(pool) => size[pool[at]] >= size[b]
    <3>1. /\ fit \in 0 .. Len(pool)
          /\ fit = 0 => \A i \in 1 .. Len(pool) : ~(size[pool[i]] >= size[b])
          /\ fit # 0 => /\ size[pool[fit]] >= size[b]
                        /\ \A i \in 1 .. fit - 1 : ~(size[pool[i]] >= size[b])
      BY <1>2, <1>4, FirstFitProperties
    <3> HIDE DEF fit
    <3>2. CASE fit = 0
      <4>1. at = Len(pool) + 1 /\ 1 .. at - 1 = 1 .. Len(pool) /\ at \notin 1 .. Len(pool)
        BY <1>3, <3>2
      <4>2. QED
        BY <1>3, <3>1, <3>2, <4>1
    <3>3. CASE fit # 0
      BY <1>3, <3>1, <3>3
    <3>4. QED
      BY <3>2, <3>3
  <2> HIDE DEF at
  <2>3. b \notin ToSet(pool)
    BY <1>1, <1>5
  <2>4. /\ ToSet(pool') = ToSet(pool) \cup {b}
        /\ \A i, j \in DOMAIN pool' : pool'[i] = pool'[j] => i = j
    <3>1. /\ ToSet(InsertAt(pool, at, b)) = ToSet(pool) \cup {b}
          /\ \A i, j \in DOMAIN InsertAt(pool, at, b) :
               InsertAt(pool, at, b)[i] = InsertAt(pool, at, b)[j] => i = j
      <4>1. pool \in Seq(Nat) /\ at \in 1 .. Len(pool) + 1 /\ b \in Nat
        BY <1>2, <1>4, <2>2
      <4>2. \A i, j \in DOMAIN pool : pool[i] = pool[j] => i = j
        BY <1>5
      <4>3. QED
        BY <2>3, <4>1, <4>2, InsertAtSet, Zenon
    <3>2. QED
      BY <2>1, <3>1
  <2>5. pool' \in Seq(Nat) /\ Inserted(pool', pool, at, b)
    <3>1. pool \in Seq(Nat) /\ at \in 1 .. Len(pool) + 1 /\ b \in Nat
      BY <1>2, <1>4, <2>2
    <3>2. InsertAt(pool, at, b) \in Seq(Nat) /\ Inserted(InsertAt(pool, at, b), pool, at, b)
      BY ONLY <3>1, InsertAtProperties
    <3>3. QED
      BY <2>1, <3>2
  <2>6. DOMAIN pool' = 1 .. Len(pool')
    BY <2>5, LenProperties
  <2>7. /\ pool' \in Seq(Nat) /\ DOMAIN pool' = 1 .. Len(pool) + 1
        /\ \A i \in 1 .. at - 1 : pool'[i] = pool[i]
        /\ pool'[at] = b
        /\ \A i \in at + 1 .. Len(pool) + 1 : pool'[i] = pool[i - 1]
    BY <2>5, <2>6 DEF Inserted
  <2>8. TypeInv'
    BY <1>1, <2>1, <2>7 DEF IInv, TypeInv
  <2>9. OneOwner'
    <3>1. ToSet(pool') \cap inUse' = {} /\ (ToSet(pool') \cup inUse') \cap gone' = {}
      BY <1>1, <1>5, <2>1, <2>4
    <3>2. ToSet(pool') \cup inUse' \cup gone' = DOMAIN size'
      BY <1>1, <1>5, <2>1, <2>4
    <3>3. life' # "dead"
      BY <1>1, <1>7
    <3>4. QED
      BY <2>4, <3>1, <3>2, <3>3 DEF OneOwner
  <2>10. PoolSorted'
    <3>1. SUFFICES ASSUME ~oom, NEW i \in 1 .. Len(pool) + 1, NEW j \in 1 .. Len(pool) + 1, i < j
                   PROVE  size[pool'[i]] <= size[pool'[j]]
      <4>1. \A k \in DOMAIN pool' : size[pool'[k]] \in Nat
        <5>1. \A k \in DOMAIN pool' : pool'[k] \in DOMAIN size
          BY <1>5, <2>4 DEF ToSet
        <5>2. QED
          BY <1>2, <1>3, <5>1, ElementOfSeq
      <4>2. \A k, l \in DOMAIN pool' : k <= l <=> k < l \/ k = l
        BY <1>3, <2>7
      <4>3. QED
        BY <1>1, <2>7, <4>1, <4>2 DEF PoolSorted
    <3>2. \A k, l \in 1 .. Len(pool) : k <= l => size[pool[k]] <= size[pool[l]]
      BY <1>3, <3>1 DEF IInv, PoolIsSound, PoolSorted
    <3>3. \A k \in 1 .. Len(pool) : size[pool[k]] \in Nat
      <4>1. \A k \in DOMAIN pool : pool[k] \in DOMAIN size
        BY <1>5 DEF ToSet
      <4>2. QED
        BY <1>2, <1>3, <4>1, ElementOfSeq
    <3>4. CASE i < at
      <4>1. i \in 1 .. Len(pool) /\ i \in 1 .. at - 1 /\ pool'[i] = pool[i]
        BY <1>3, <2>2, <2>7, <3>4
      <4>2. size[pool[i]] < size[b]
        BY <1>4, <2>2, <3>3, <4>1
      <4>3. CASE j = at
        BY <1>4, <2>7, <3>3, <4>1, <4>2, <4>3
      <4>4. CASE j < at
        <5>1. j \in 1 .. Len(pool) /\ pool'[j] = pool[j]
          BY <1>3, <2>2, <2>7, <4>4
        <5>2. QED
          BY <3>1, <3>2, <4>1, <5>1
      <4>5. CASE j > at
        <5>1. j - 1 \in 1 .. Len(pool) /\ i <= j - 1 /\ pool'[j] = pool[j - 1]
          BY <1>3, <2>2, <2>7, <3>4, <4>5
        <5>2. QED
          BY <3>2, <4>1, <5>1
      <4>6. QED
        BY <2>2, <4>3, <4>4, <4>5
    <3>5. CASE i >= at
      <4>0. j \in at + 1 .. Len(pool) + 1
        BY <1>3, <2>2, <3>1, <3>5
      <4>1. j - 1 \in 1 .. Len(pool) /\ pool'[j] = pool[j - 1] /\ at <= j - 1 /\ at \in 1 .. Len(pool)
        BY <1>3, <2>2, <2>7, <4>0
      <4>2. size[b] <= size[pool[at]] /\ size[pool[at]] <= size[pool[j - 1]]
        BY <2>2, <3>2, <3>3, <4>1, <1>4
      <4>3. CASE i = at
        <5>1. pool'[i] = b
          BY <2>7, <4>3
        <5>2. QED
          BY <1>4, <3>3, <4>1, <4>2, <5>1
      <4>4. CASE i > at
        <5>1. i - 1 \in 1 .. Len(pool) /\ pool'[i] = pool[i - 1] /\ i - 1 <= j - 1
          BY <1>3, <2>2, <2>7, <3>1, <4>4
        <5>2. QED
          BY <3>2, <4>1, <5>1
      <4>5. QED
        BY <2>2, <3>5, <4>3, <4>4
    <3>6. QED
      BY <2>2, <3>4, <3>5
  <2>11. QED
    BY <1>1, <2>8, <2>9, <2>10 DEF IInv, PoolIsSound
<1>8. QED
  BY <1>6, <1>7

\* A buffer grows while a message holds it, so the pool does not notice.
LEMMA EnlargeStep ==
  ASSUME IInv, NEW b \in DOMAIN size, enlarge(b)
  PROVE  IInv' /\ inUse' \subseteq inUse
<1>1. /\ b \in inUse /\ size' = [size EXCEPT ![b] = 2 * size[b]]
      /\ pool' = pool /\ inUse' = inUse /\ life' = life /\ gone' = gone /\ oom' = oom /\ req' = req
  BY DEF enlarge
<1>2. size \in Seq(Nat) /\ b \in 1 .. Len(size) /\ size[b] \in Nat
  BY LenProperties, ElementOfSeq DEF IInv, TypeInv
<1>3. size' \in Seq(Nat) /\ DOMAIN size' = DOMAIN size /\ \A c \in DOMAIN size : c # b => size'[c] = size[c]
  <2>1. 2 * size[b] \in Nat
    BY <1>2
  <2>2. QED
    BY <1>1, <1>2, <2>1, ExceptSeq
<1>4. \A i \in DOMAIN pool : pool[i] # b /\ pool[i] \in DOMAIN size
  BY <1>1 DEF IInv, PoolIsSound, OneOwner, ToSet
<1>5. TypeInv'
  BY <1>1, <1>3 DEF IInv, TypeInv
<1>6. OneOwner'
  BY <1>1, <1>3 DEF IInv, PoolIsSound, OneOwner
<1>7. PoolSorted'
  BY <1>1, <1>3, <1>4 DEF IInv, PoolIsSound, PoolSorted
<1>8. QED
  BY <1>1, <1>5, <1>6, <1>7 DEF IInv, PoolIsSound

\* At exit the pooled buffers are freed; messages keep theirs.
LEMMA DestroyStep ==
  ASSUME IInv, destroy
  PROVE  IInv' /\ inUse' \subseteq inUse
<1>1. /\ life = "live" /\ life' = "dead" /\ gone' = gone \cup ToSet(pool) /\ pool' = <<>>
      /\ size' = size /\ inUse' = inUse /\ oom' = oom /\ req' = req
  BY DEF destroy
<1>2. pool' \in Seq(Nat) /\ DOMAIN pool' = {} /\ ToSet(pool') = {}
  BY <1>1 DEF ToSet
<1>3. ToSet(pool) \subseteq DOMAIN size
  BY DEF IInv, PoolIsSound, OneOwner
<1>4. TypeInv'
  BY <1>1, <1>2, <1>3 DEF IInv, TypeInv
<1>5. OneOwner'
  BY <1>1, <1>2 DEF IInv, PoolIsSound, OneOwner
<1>6. PoolSorted'
  BY <1>2 DEF PoolSorted
<1>7. QED
  BY <1>1, <1>4, <1>5, <1>6 DEF IInv, PoolIsSound

\* Every step keeps the invariant and hands out the best fit.
LEMMA NextStep ==
  ASSUME PoolConstants, IInv, [Next]_poolVars
  PROVE  IInv' /\ (HandsOutBestFit \/ UNCHANGED poolVars)
<1>1. ASSUME NEW n \in Requests, require(n) PROVE IInv' /\ HandsOutBestFit
  BY <1>1, RequireStep
<1>2. ASSUME NEW b \in DOMAIN size, release(b) \/ enlarge(b) PROVE IInv' /\ inUse' \subseteq inUse
  BY <1>2, ReleaseStep, EnlargeStep
<1>3. ASSUME destroy PROVE IInv' /\ inUse' \subseteq inUse
  BY <1>3, DestroyStep
<1>4. CASE UNCHANGED poolVars
  BY <1>4 DEF poolVars, IInv, TypeInv, PoolIsSound, OneOwner, PoolSorted
<1>5. inUse' \subseteq inUse => HandsOutBestFit
  BY DEF HandsOutBestFit
<1>6. QED
  BY <1>1, <1>2, <1>3, <1>4, <1>5 DEF Next

-----------------------------------------------------------------------------
(* The theorems.                                                           *)

\* The types, one owner and the order hold in every state of the pool.
THEOREM Invariance == ASSUME PoolConstants PROVE Spec => []IInv
<1>1. Init => IInv
  BY InitIInv
<1>2. IInv /\ [Next]_poolVars => IInv'
  BY NextStep
<1>3. QED
  BY <1>1, <1>2, PTL DEF Spec

\* Every buffer is in the pool once, or held by one message, or gone, and as
\* long as no malloc failed the pool is ordered by length, although buffers
\* grow while they are out (require, release, enlarge, ~CMessageBufPool).
THEOREM Soundness == ASSUME PoolConstants PROVE Spec => []PoolIsSound
<1>1. IInv => PoolIsSound
  BY DEF IInv
<1>2. QED
  BY <1>1, Invariance, PTL

\* require() gives a message the shortest buffer of the pool that is long
\* enough, and only require() gives one.
THEOREM BestFitting == ASSUME PoolConstants PROVE Spec => BestFit
<1>1. IInv /\ [Next]_poolVars => [HandsOutBestFit]_poolVars
  BY NextStep
<1>2. QED
  BY <1>1, Invariance, PTL DEF Spec, BestFit
=============================================================================
