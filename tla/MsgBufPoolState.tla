-------------------------- MODULE MsgBufPoolState ---------------------------
(***************************************************************************)
(* The state of the pool of message buffers and what is promised of it.    *)
(***************************************************************************)
EXTENDS Integers, SequencesExt

VARIABLES
  pool,    \* m_pool
  size,    \* MemBuffer::m_size of every buffer ever made, 0 if malloc failed
  inUse,   \* buffers held by a NetMessage
  life,    \* the static instance: "none" before getInstance, "live", "dead"
  gone,    \* history: buffers freed, or abandoned at exit
  oom,     \* history: some malloc failed
  req      \* history: the length last asked for

poolVars == <<pool, size, inUse, life, gone, oom, req>>

(***************************************************************************)
(* Every buffer has exactly one owner: it is once in the pool, or held by  *)
(* one message, or gone.  No two messages ever share a buffer, none is     *)
(* lost while the program runs, and nothing returns to a pool that was     *)
(* destroyed (require, release, ~CMessageBufPool).                         *)
(***************************************************************************)
OneOwner ==
  /\ \A i, j \in DOMAIN pool : pool[i] = pool[j] => i = j
  /\ ToSet(pool) \cap inUse = {}
  /\ (ToSet(pool) \cup inUse) \cap gone = {}
  /\ ToSet(pool) \cup inUse \cup gone = DOMAIN size
  /\ life = "dead" => pool = <<>>

(***************************************************************************)
(* As long as no malloc failed the pool is ordered by length, although     *)
(* buffers grow while they are out: release() finds their new place.       *)
(***************************************************************************)
PoolSorted ==
  ~oom => \A i, j \in DOMAIN pool : i <= j => size[pool[i]] <= size[pool[j]]

\* Every buffer has one owner, failed allocations or not, and until one fails
\* the pool stays ordered by length although buffers grow while they are out.
PoolIsSound == OneOwner /\ PoolSorted

(***************************************************************************)
(* The buffer a message gets is long enough, and none that is left in the  *)
(* pool would have been a tighter fit.                                     *)
(***************************************************************************)
HandsOutBestFit ==
  \A b \in inUse' \ inUse :
    ~oom' => /\ size'[b] >= req'
             /\ \A i \in DOMAIN pool' : size'[pool'[i]] < req' \/ size'[pool'[i]] >= size'[b]

\* A message gets the shortest buffer of the pool that is long enough.
BestFit == [][HandsOutBestFit]_poolVars
=============================================================================
