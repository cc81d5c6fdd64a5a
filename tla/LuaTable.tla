------------------------------ MODULE LuaTable -------------------------------
(***************************************************************************)
(* The tables of ltable.c: an array part for the keys 1 .. n, and a hash   *)
(* part of chained nodes with Brent's variation, which grow and shrink     *)
(* into one another.  t.array holds values; a node has a key, a value and  *)
(* the index of the next node of its chain, 0 at the end; a dead key is    *)
(* one whose object the collector took.  node = <<>> is dummynode.         *)
(***************************************************************************)
EXTENDS Naturals, Sequences, SequencesExt, FiniteSetsExt

CONSTANTS
  Ints,      \* the keys that are positive integers
  Strings,   \* those that are strings
  Others,    \* and those that are other objects
  Hash,      \* the hash of every key
  Values,    \* the values stored
  Sizes,     \* what luaH_new is called with: <<narray, nhash>>
  MAX_INT

TableConstants == \A k \in Ints \cup Strings \cup Others : Hash[k] \in Nat

VARIABLES
  t,       \* the table
  walk,    \* a traversal with next: its key, the keys it gave, those it owes
  content, \* history: what luaH_get finds in t
  grown    \* history: the last step made the table grow

vars == <<t, walk, content, grown>>

nil == 0
Keys == Ints \cup Strings \cup Others
iscollectable(k) == k \in Strings \cup Others
FreeNode == [key |-> nil, val |-> nil, next |-> 0, dead |-> FALSE]

ceillog2(x) == Min({n \in 0 .. x : 2^n >= x})

setnodevector(T, size) ==
  LET n == IF size = 0 THEN 0 ELSE 2^ceillog2(size)
  IN [T EXCEPT !.node = [i \in 1 .. n |-> FreeNode], !.lastfree = n + 1]

setarrayvector(T, size) == [T EXCEPT !.array = [i \in 1 .. size |-> IF i <= Len(@) THEN @[i] ELSE nil]]

luaH_new(narray, nhash) ==
  setnodevector(setarrayvector([array |-> <<>>, node |-> <<>>, lastfree |-> 1, full |-> FALSE], narray), nhash)

NoWalk == [on |-> FALSE, key |-> nil, gave |-> <<>>, owes |-> {}, failed |-> FALSE]

Init ==
  /\ \E s \in Sizes : t = luaH_new(s[1], s[2])
  /\ walk = NoWalk /\ content = [k \in Keys |-> nil] /\ grown = FALSE

-----------------------------------------------------------------------------
(* Looking up.                                                             *)

\* Strings are taken modulo the size, numbers and pointers modulo an odd number.
mainposition(T, k) ==
  LET n == Len(T.node) IN 1 + (Hash[k] % (IF k \in Strings \/ n = 1 THEN n ELSE n - 1))

\* The nodes of the chain that begins in k's main position.
Chain(T, k) ==
  LET at[i \in 0 .. Len(T.node)] ==
        IF i = 0 THEN mainposition(T, k) ELSE IF at[i - 1] = 0 THEN 0 ELSE T.node[at[i - 1]].next
  IN IF T.node = <<>> THEN <<>> ELSE SelectSeq([i \in 1 .. Len(T.node) |-> at[i - 1]], LAMBDA p : p # 0)

inarray(T, k) == k \in Ints /\ k \in DOMAIN T.array

\* luaH_getnum, luaH_getstr and the default: the node of k, 0 for luaO_nilobject.
getnode(T, k) ==
  LET c == Chain(T, k)
      i == SelectInSeq(c, LAMBDA p : T.node[p].key = k /\ ~T.node[p].dead)
  IN IF i = 0 THEN 0 ELSE c[i]

luaH_get(T, k) ==
  IF inarray(T, k) THEN T.array[k] ELSE LET p == getnode(T, k) IN IF p = 0 THEN nil ELSE T.node[p].val

-----------------------------------------------------------------------------
(* Inserting.                                                              *)

\* The last position below lastfree whose key is nil, 0 if there is none.
getfreepos(T) == Max({0} \cup {p \in 1 .. T.lastfree - 1 : T.node[p].key = nil})

PutKey(T, p, k, v) == [T EXCEPT !.node[p] = [@ EXCEPT !.key = k, !.val = v, !.dead = FALSE]]

\* The colliding node is out of its main position: it moves to n, and its chain with it.
MoveColliding(T, mp, n) ==
  LET c == Chain(T, T.node[mp].key)
      prev == c[SelectInSeq(c, LAMBDA p : T.node[p].next = mp)]
  IN [T EXCEPT !.node[prev].next = n,
               !.node[n] = T.node[mp], !.node[mp] = FreeNode]

\* Inserts a key that is not there; .full says that the table must grow.
newkey(T, k, v) ==
  LET mp == mainposition(T, k)
      n == getfreepos(T)
      S == [T EXCEPT !.lastfree = n]
  IN IF T.node = <<>> THEN [T EXCEPT !.full = TRUE]
     ELSE IF T.node[mp].val = nil THEN PutKey(T, mp, k, v)
     ELSE IF n = 0 THEN [S EXCEPT !.full = TRUE]
     ELSE IF mainposition(T, T.node[mp].key) # mp THEN PutKey(MoveColliding(S, mp, n), mp, k, v)
     ELSE PutKey([S EXCEPT !.node[n].next = T.node[mp].next, !.node[mp].next = n], n, k, v)

\* luaH_set and the assignment to what it returns.
put(T, k, v) ==
  IF inarray(T, k) THEN [T EXCEPT !.array[k] = v]
  ELSE LET p == getnode(T, k)
       IN IF p # 0 THEN [T EXCEPT !.node[p].val = v] ELSE newkey(T, k, v)

-----------------------------------------------------------------------------
(* Rehashing.                                                              *)

\* Mutant: the slice of the array that vanishes is lost.
resizeDrops(T, nasize, nhsize) ==
  FoldLeft(LAMBDA U, e : IF e.val = nil THEN U ELSE put(U, e.key, e.val),
           setnodevector(setarrayvector(T, nasize), nhsize), Reverse(T.node))

\* The elements come back: those of the vanishing slice, then the nodes from the last.
resize(T, nasize, nhsize) ==
  LET old == Len(T.array)
      slice == [i \in 1 .. (IF nasize < old THEN old - nasize ELSE 0) |-> <<nasize + i, T.array[nasize + i]>>]
      nodes == [i \in DOMAIN T.node |-> <<T.node[Len(T.node) + 1 - i].key, T.node[Len(T.node) + 1 - i].val>>]
      items == SelectSeq(slice \o nodes, LAMBDA e : e[2] # nil)
  IN FoldLeft(LAMBDA U, e : put(U, e[1], e[2]), setnodevector(setarrayvector(T, nasize), nhsize), items)

luaH_resizearray(T, nasize) == resize(T, nasize, Len(T.node))

\* numusearray and numusehash: the keys in use, of which the integers count for the array.
InUse(T) == {k \in Keys : luaH_get(T, k) # nil}

\* nums[i]: how many keys are in (2^(i-1), 2^i].
nums(ks) == [i \in 0 .. ceillog2(Max(ks \cup {1})) |-> Cardinality({k \in ks : ceillog2(k) = i})]

\* The largest size more than half of which is in use; the slices are counted up to narray keys.
computesizes(ks) ==
  LET n == nums(ks)
      narray == Cardinality(ks)
      step(acc, i) ==
        IF acc.done \/ 2^i \div 2 >= narray THEN [acc EXCEPT !.done = TRUE]
        ELSE LET a == acc.a + n[i]
             IN [a |-> a, n |-> IF n[i] > 0 /\ a > 2^i \div 2 THEN 2^i ELSE acc.n, done |-> a = narray]
  IN FoldLeft(step, [a |-> 0, n |-> 0, done |-> FALSE], [i \in 1 .. Cardinality(DOMAIN n) + 1 |-> i - 1]).n

rehash(T, ek) ==
  LET use == InUse(T) \cup {ek}
      na == computesizes(use \cap Ints)
  IN resize([T EXCEPT !.full = FALSE], na, Cardinality({k \in use : ~(k \in Ints /\ k <= na)}))

luaH_set(T, k, v) ==
  LET U == put(T, k, v) IN IF U.full THEN put(rehash(U, k), k, v) ELSE U

-----------------------------------------------------------------------------
(* The length.                                                             *)

\* Between lo, which is 0 or present, and hi, which is absent.
Bisect(Has(_), lo, hi) ==
  LET step(ij, x) ==
        IF ij[2] - ij[1] <= 1 THEN ij
        ELSE LET m == (ij[1] + ij[2]) \div 2 IN IF Has(m) THEN <<m, ij[2]>> ELSE <<ij[1], m>>
  IN FoldLeft(step, <<lo, hi>>, [x \in 1 .. hi |-> x])[1]

\* i doubles while it is present; a table made of powers of two is searched from 1.
unbound_search(T, j) ==
  LET Has(k) == k \in Ints /\ luaH_get(T, k) # nil
      ups[n \in 0 .. MAX_INT] == IF n = 0 THEN <<j, j + 1>> ELSE <<ups[n - 1][2], 2 * ups[n - 1][2]>>
      last == Min({n \in 0 .. MAX_INT : ~Has(ups[n][2]) \/ ups[n][2] > MAX_INT})
  IN IF ups[last][2] > MAX_INT THEN Min({n \in 1 .. Cardinality(Ints) + 1 : ~Has(n)}) - 1
     ELSE Bisect(Has, ups[last][1], ups[last][2])

luaH_getn(T) ==
  LET j == Len(T.array)
      HasArray(k) == T.array[k] # nil
  IN IF j > 0 /\ T.array[j] = nil THEN Bisect(HasArray, 0, j)
     ELSE IF T.node = <<>> THEN j ELSE unbound_search(T, j)

-----------------------------------------------------------------------------
(* Traversal.                                                              *)

\* Mutant: a key whose object was collected is not recognised.
SameKeyAlive(e, k) == e.key = k /\ ~e.dead

SameKey(e, k) == e.key = k /\ (e.dead => iscollectable(k))

\* The place of a key: array elements before nodes; none when the key is not in its chain.
findindex(T, k) ==
  LET c == Chain(T, k)
      i == SelectInSeq(c, LAMBDA p : SameKey(T.node[p], k))
  IN IF k = nil THEN {0} ELSE IF inarray(T, k) THEN {k} ELSE IF i = 0 THEN {} ELSE {Len(T.array) + c[i]}

Entry(T, i) ==
  IF i <= Len(T.array) THEN <<i, T.array[i]>> ELSE <<T.node[i - Len(T.array)].key, T.node[i - Len(T.array)].val>>

After(T, i) == {j \in i + 1 .. Len(T.array) + Len(T.node) : Entry(T, j)[2] # nil}

luaH_next ==
  /\ UNCHANGED <<t, content>> /\ grown' = FALSE
  /\ LET i == findindex(t, walk.key)
     IN \/ i = {} /\ walk' = [walk EXCEPT !.failed = TRUE]
        \/ \E p \in i : /\ After(t, p) = {} /\ walk' = [walk EXCEPT !.on = FALSE, !.key = nil]
        \/ \E p \in i : /\ After(t, p) # {}
                        /\ LET k == Entry(t, Min(After(t, p)))[1]
                           IN walk' = IF walk.key = nil
                                      THEN [NoWalk EXCEPT !.on = TRUE, !.key = k, !.gave = <<k>>, !.owes = {x \in Keys : content[x] # nil}]
                                      ELSE [walk EXCEPT !.key = k, !.gave = Append(@, k)]

-----------------------------------------------------------------------------
(* The program and the collector.                                          *)

Becomes(T) == t' = T /\ content' = [k \in Keys |-> luaH_get(T, k)]

\* While a traversal is on, only fields that exist may be assigned.
Set(k, v) ==
  /\ content[k] # v /\ (walk.on => content[k] # nil)
  /\ Becomes(luaH_set(t, k, v)) /\ grown' = put(t, k, v).full
  /\ walk' = IF ~walk.on THEN NoWalk ELSE IF v = nil THEN [walk EXCEPT !.owes = @ \ {k}] ELSE walk

\* OP_SETLIST makes room for the items of a constructor.
SetList(n) ==
  /\ ~walk.on /\ n > Len(t.array) /\ Becomes(luaH_resizearray(t, n)) /\ grown' = FALSE /\ walk' = NoWalk

\* removeentry: the collector finds an entry without value, and its key may die.
RemoveEntry(p) ==
  /\ t.node[p].val = nil /\ iscollectable(t.node[p].key) /\ ~t.node[p].dead
  /\ Becomes([t EXCEPT !.node[p].dead = TRUE]) /\ grown' = FALSE
  /\ walk' = IF walk.on THEN walk ELSE NoWalk

Next ==
  \/ \E k \in Keys, v \in Values \cup {nil} : Set(k, v)
  \/ \E n \in Ints : SetList(n)
  \/ \E p \in DOMAIN t.node : RemoveEntry(p)
  \/ luaH_next

Spec == Init /\ [][Next]_vars

-----------------------------------------------------------------------------
(* Properties.                                                             *)

\* A table is a map: an assignment changes its key, rehashing and collecting nothing.
Map == INSTANCE LuaMap WITH m <- content
IsAMap == Map!Spec

\* Every entry of the hash part is the one its key leads to: none is lost or shadowed.
EveryEntryFound ==
  \A p \in DOMAIN t.node : t.node[p].val # nil =>
    ~inarray(t, t.node[p].key) /\ getnode(t, t.node[p].key) = p

\* Re-inserting the elements, and the key that made the table grow, never makes it grow again.
RehashMakesRoom == ~t.full

\* The length is a border: the element is there and the next one is not.
LengthIsBorder ==
  LET n == luaH_getn(t)
  IN (n # 0 => n \in Ints /\ content[n] # nil) /\ (n + 1 \in Ints => content[n + 1] = nil)

\* A rehash leaves the largest array part more than half of which is used.
ArrayIsOptimal ==
  LET used(n) == 2 * Cardinality({i \in Ints : i <= n /\ content[i] # nil}) > n
  IN grown => Len(t.array) = Max({0} \cup {n \in {2^i : i \in 0 .. Cardinality(Ints)} : used(n)})

(***************************************************************************)
(* A traversal that assigns to existing fields only, whatever it clears    *)
(* and the collector takes meanwhile, never fails, gives no key twice and  *)
(* ends having given every key that kept its value.                        *)
(***************************************************************************)
TraversalComplete ==
  /\ ~walk.failed
  /\ IsInjective(walk.gave)
  /\ ~walk.on => walk.owes \subseteq ToSet(walk.gave)
=============================================================================
