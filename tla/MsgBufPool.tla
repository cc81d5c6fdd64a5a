----------------------------- MODULE MsgBufPool -----------------------------
(***************************************************************************)
(* CMessageBufPool and MemBuffer of NetMessage.cpp: the list of buffers    *)
(* that NetMessages borrow in their constructor, grow while they are used  *)
(* (checkBufSize) and give back in their destructor.  A buffer is named by *)
(* its position in size, the lengths of all buffers ever made.             *)
(***************************************************************************)
EXTENDS MsgBufPoolState

CONSTANTS
  InitSizes,   \* lengths of the buffers Init() makes: 512, ..., 1024, ..., 65536
  Requests,    \* lengths asked for
  MaxBufs,     \* bound: buffers ever made
  MaxLen       \* bound: length of a buffer

PoolConstants ==
  /\ InitSizes \in Seq(Nat \ {0}) /\ InitSizes # <<>>
  /\ \A i, j \in DOMAIN InitSizes : i <= j => InitSizes[i] <= InitSizes[j]
  /\ Requests \subseteq Nat /\ MaxBufs \in Nat /\ MaxLen \in Nat

Init ==
  /\ pool = <<>> /\ size = <<>> /\ inUse = {}
  /\ life = "none"
  /\ gone = {} /\ oom = FALSE /\ req = 0

\* new MemBuffer for each of the lengths ns, where malloc fails at bad.
Made(ns, bad) == [i \in DOMAIN ns |-> IF i \in bad THEN 0 ELSE ns[i]]

\* Init() runs whenever the pool is empty.
Refill(bad) ==
  IF pool = <<>>
  THEN [pool |-> [i \in DOMAIN InitSizes |-> Len(size) + i],
        size |-> size \o Made(InitSizes, bad)]
  ELSE [pool |-> pool, size |-> size]

\* Mutant: a buffer of exactly the length asked for is passed over.
FirstLonger(p, sizes, n) == SelectInSeq(p, LAMBDA b : sizes[b] > n)

\* Position of the first buffer of p that is long enough, 0 if there is none.
FirstFit(p, sizes, n) == SelectInSeq(p, LAMBDA b : sizes[b] >= n)

\* Mutant: the buffer handed out stays in the list.
EraseNothing(p, at) == p

\* m_pool.erase(iter), or pop_front().
erase(p, at) == RemoveAt(p, at)

(***************************************************************************)
(* require(n).  n = 0 takes the front; otherwise the first buffer that is  *)
(* long enough, or a new one of length n.                                  *)
(***************************************************************************)
require(n) ==
  \E bad \in SUBSET DOMAIN InitSizes, fails \in BOOLEAN :
    LET r == Refill(bad)
        at == IF n = 0 THEN 1 ELSE FirstFit(r.pool, r.size, n)
        new == Len(r.size) + 1
    IN /\ life # "dead"
       /\ bad # {} => pool = <<>>
       /\ fails => at = 0
       /\ Len(r.size) < MaxBufs
       /\ IF at # 0
          THEN /\ pool' = erase(r.pool, at)
               /\ size' = r.size
               /\ inUse' = inUse \cup {r.pool[at]}
          ELSE /\ pool' = r.pool
               /\ size' = Append(r.size, IF fails THEN 0 ELSE n)
               /\ inUse' = inUse \cup {new}
       /\ oom' = (oom \/ fails \/ bad # {})
       /\ life' = "live" /\ req' = n
       /\ UNCHANGED gone

\* Where release() inserts a buffer of length n.
InsertPos(n) ==
  LET at == SelectInSeq(pool, LAMBDA b : size[b] >= n)
  IN IF at = 0 THEN Len(pool) + 1 ELSE at

(***************************************************************************)
(* release(b), called by ~NetMessage.  After the pool was destroyed at     *)
(* exit (m_hasInit is false) the buffer is simply abandoned.               *)
(***************************************************************************)
release(b) ==
  /\ b \in inUse /\ inUse' = inUse \ {b}
  /\ IF life # "live" THEN UNCHANGED pool /\ gone' = gone \cup {b}
     ELSE pool' = InsertAt(pool, InsertPos(size[b]), b) /\ UNCHANGED gone
  /\ UNCHANGED <<size, life, oom, req>>

\* A successful enlarge() of the buffer of a NetMessage.
enlarge(b) ==
  /\ b \in inUse /\ size[b] > 0 /\ 2 * size[b] <= MaxLen
  /\ size' = [size EXCEPT ![b] = 2 * @]
  /\ UNCHANGED <<pool, inUse, life, gone, oom, req>>

\* ~CMessageBufPool when the process ends: pooled buffers are freed.
destroy ==
  /\ life = "live" /\ life' = "dead"
  /\ gone' = gone \cup ToSet(pool) /\ pool' = <<>>
  /\ UNCHANGED <<size, inUse, oom, req>>

Next ==
  \/ \E n \in Requests : require(n)
  \/ \E b \in DOMAIN size : release(b) \/ enlarge(b)
  \/ destroy

Spec == Init /\ [][Next]_poolVars
=============================================================================
