--------------------------- MODULE SocketApiProofs ---------------------------
(***************************************************************************)
(* Proofs about SocketApi, for every finite set of addresses, every set of *)
(* class names and handles and every bound on the messages.                *)
(*                                                                         *)
(* One owner is inductive once it says where messages are rather than how  *)
(* many places they have (Owned).  What a polite script may rely on needs, *)
(* beside that, that what waits to be sent is whole, and that a socket     *)
(* which said that a message is there still has it, whole and first,       *)
(* whatever came in between (Said, Protocol).  A fault ends the behaviour, *)
(* so that the name which was hidden when it happened stays hidden.        *)
(***************************************************************************)
EXTENDS SocketApi, SequenceTheorems, FiniteSetTheorems, TLAPS

TypeInv ==
  /\ name \in [Addr -> Names \cup {NoName}]
  /\ refs \subseteq Addr /\ made \subseteq Addr /\ ready \subseteq Addr
  /\ sendList \in [Addr -> Seq(Nat)] /\ recvList \in [Addr -> Seq(Nat)]
  /\ m_pMsg \in [Handles -> Nat]
  /\ msgs \in Seq({"fresh", "sized", "freed"})
  /\ polite \in BOOLEAN

\* The messages that were not deleted.
Alive == {i \in DOMAIN msgs : msgs[i] # "freed"}

NoDup(q) == \A i, j \in DOMAIN q : q[i] = q[j] => i = j

\* A message that was not deleted is at one place at most, and no other is at any.
Owned ==
  /\ \A a \in Addr : NoDup(sendList[a]) /\ NoDup(recvList[a])
  /\ \A a \in Addr : ToSet(sendList[a]) \subseteq Alive /\ ToSet(recvList[a]) \subseteq Alive
  /\ \A h \in Handles : m_pMsg[h] # Null => m_pMsg[h] \in Alive
  /\ \A a, b \in Addr : a # b => /\ ToSet(sendList[a]) \cap ToSet(sendList[b]) = {}
                                 /\ ToSet(recvList[a]) \cap ToSet(recvList[b]) = {}
  /\ \A a, b \in Addr : ToSet(sendList[a]) \cap ToSet(recvList[b]) = {}
  /\ \A h \in Handles, a \in Addr :
       m_pMsg[h] # Null => m_pMsg[h] \notin ToSet(sendList[a]) /\ m_pMsg[h] \notin ToSet(recvList[a])
  /\ \A h, g \in Handles : m_pMsg[h] = m_pMsg[g] /\ m_pMsg[h] # Null => h = g

\* A polite script loses none of them.
Kept ==
  polite => \A i \in Alive :
              \/ \E h \in Handles : m_pMsg[h] = i
              \/ \E a \in Addr : i \in ToSet(sendList[a]) \/ i \in ToSet(recvList[a])

\* What a socket said is still true; what a polite script has built.
Said == \A a \in ready : recvList[a] # <<>> /\ msgs[Head(recvList[a])] = "sized"
Protocol ==
  polite => /\ HiddenOrFine
            /\ \A a \in Addr : \A i \in ToSet(sendList[a]) : msgs[i] = "sized"

IInv == TypeInv /\ Owned /\ Kept /\ Said /\ Protocol

-----------------------------------------------------------------------------
(* Queues and lookup.                                                      *)

LEMMA EmptyQueue == <<>> \in Seq(Nat) /\ ToSet(<<>>) = {} /\ NoDup(<<>>)
<1>1. DOMAIN <<>> = {}
  OBVIOUS
<1>2. QED
  BY <1>1, EmptySeq DEF ToSet, NoDup

\* The first message leaves a queue.
LEMMA TailQueue ==
  ASSUME NEW q \in Seq(Nat), q # <<>>, NoDup(q)
  PROVE  /\ Tail(q) \in Seq(Nat) /\ NoDup(Tail(q))
         /\ Head(q) \in ToSet(q) /\ Head(q) \notin ToSet(Tail(q))
         /\ ToSet(q) = ToSet(Tail(q)) \cup {Head(q)}
<1> DEFINE t == Tail(q)
<1>1. Len(q) \in Nat \ {0} /\ DOMAIN q = 1 .. Len(q) /\ Head(q) = q[1]
  BY EmptySeq, LenProperties
<1>2. /\ t \in Seq(Nat) /\ Len(t) = Len(q) - 1 /\ DOMAIN t = 1 .. Len(q) - 1
      /\ \A i \in 1 .. Len(q) - 1 : t[i] = q[i + 1]
  BY <1>1, HeadTailProperties, LenProperties
<1> HIDE DEF t
<1>3. \A i \in 1 .. Len(q) - 1 : i + 1 \in 1 .. Len(q) /\ i + 1 # 1
  BY <1>1
<1>4. \A k \in 1 .. Len(q) : k = 1 \/ (k - 1 \in 1 .. Len(q) - 1 /\ (k - 1) + 1 = k)
  BY <1>1
<1>5. NoDup(t)
  <2>1. SUFFICES ASSUME NEW i \in 1 .. Len(q) - 1, NEW j \in 1 .. Len(q) - 1, t[i] = t[j] PROVE i = j
    BY <1>2 DEF NoDup
  <2>2. i + 1 = j + 1
    BY <1>1, <1>2, <1>3, <2>1 DEF NoDup
  <2>3. QED
    BY <1>1, <2>2
<1>6. Head(q) \in ToSet(q)
  BY <1>1 DEF ToSet
<1>7. Head(q) \notin ToSet(t)
  <2>1. SUFFICES ASSUME NEW i \in 1 .. Len(q) - 1, t[i] = q[1] PROVE FALSE
    BY <1>1, <1>2 DEF ToSet
  <2>2. q[i + 1] = q[1] /\ i + 1 \in DOMAIN q /\ 1 \in DOMAIN q
    BY <1>1, <1>2, <1>3, <2>1
  <2>3. QED
    BY <1>1, <1>3, <2>2 DEF NoDup
<1>8. ASSUME NEW x \in ToSet(q) PROVE x \in ToSet(t) \cup {Head(q)}
  <2>1. PICK k \in 1 .. Len(q) : x = q[k]
    BY <1>1 DEF ToSet
  <2>2. CASE k = 1
    BY <1>1, <2>1, <2>2
  <2>3. CASE k # 1
    <3>1. k - 1 \in 1 .. Len(q) - 1 /\ t[k - 1] = q[k]
      BY <1>2, <1>4, <2>3
    <3>2. QED
      BY <1>2, <2>1, <3>1 DEF ToSet
  <2>4. QED
    BY <2>2, <2>3
<1>9. ToSet(t) \subseteq ToSet(q)
  BY <1>1, <1>2, <1>3 DEF ToSet
<1>10. QED
  BY <1>2, <1>5, <1>6, <1>7, <1>8, <1>9 DEF t

\* A message joins a queue.
LEMMA AppendQueue ==
  ASSUME NEW q \in Seq(Nat), NEW x \in Nat, NoDup(q), x \notin ToSet(q)
  PROVE  /\ Append(q, x) \in Seq(Nat) /\ NoDup(Append(q, x)) /\ Append(q, x) # <<>>
         /\ ToSet(Append(q, x)) = ToSet(q) \cup {x}
         /\ q # <<>> => Head(Append(q, x)) = Head(q)
<1> DEFINE r == Append(q, x)
<1>1. Len(q) \in Nat /\ DOMAIN q = 1 .. Len(q) /\ (q # <<>> => Len(q) # 0 /\ Head(q) = q[1])
  BY EmptySeq, LenProperties
<1>2. /\ r \in Seq(Nat) /\ DOMAIN r = 1 .. Len(q) + 1 /\ r[Len(q) + 1] = x
      /\ \A i \in 1 .. Len(q) : r[i] = q[i]
  BY AppendProperties, LenProperties
<1>3. r # <<>> /\ Head(r) = r[1]
  BY <1>1, <1>2, EmptySeq, LenProperties
<1> HIDE DEF r
<1>4. \A i \in 1 .. Len(q) + 1 : i \in 1 .. Len(q) \/ i = Len(q) + 1
  BY <1>1
<1>5. \A i \in 1 .. Len(q) : r[i] # x
  BY <1>1, <1>2 DEF ToSet
<1>6. NoDup(r)
  BY <1>1, <1>2, <1>4, <1>5 DEF NoDup
<1>7. ToSet(r) = ToSet(q) \cup {x}
  <2>1. DOMAIN r = DOMAIN q \cup {Len(q) + 1}
    BY <1>1, <1>2
  <2>2. QED
    BY <1>1, <1>2, <2>1 DEF ToSet
<1>8. QED
  BY <1>1, <1>2, <1>3, <1>6, <1>7 DEF r

LEMMA LastOfQueue ==
  ASSUME NEW q \in Seq(Nat), q # <<>>
  PROVE  Last(q) \in ToSet(q) /\ Head(q) \in ToSet(q)
<1>1. Len(q) \in Nat \ {0} /\ DOMAIN q = 1 .. Len(q)
  BY EmptySeq, LenProperties
<1>2. 1 \in DOMAIN q /\ Len(q) \in DOMAIN q /\ Head(q) = q[1]
  BY <1>1
<1>3. QED
  BY <1>2 DEF ToSet, Last

\* GetSocketByName finds a socket of the name if there is one.
LEMMA Lookup ==
  ASSUME TypeInv, NEW n
  PROVE  /\ \A a \in GetSocketByName(n) : a \in Addr /\ name[a] = n
         /\ GetSocketByName(n) = {} => \A a \in Addr : name[a] # n
         /\ GetSocketByName(n) # {} => \E a \in Addr : GetSocketByName(n) = {a} /\ name[a] = n
<1> DEFINE found == {a \in Addr : name[a] = n}
<1>1. CASE found = {}
  BY <1>1 DEF GetSocketByName
<1>2. CASE found # {}
  <2>1. found \in SUBSET Nat
    BY ApiAssumption
  <2>2. PICK y \in found : \A z \in found : ~(<<z, y>> \in OpToRel(<, Nat))
    BY <1>2, <2>1, NatLessThanWellFounded, WFMin
  <2>3. \A z \in found : y <= z
    <3>1. \A z \in found : z \in Nat /\ y \in Nat
      BY <2>1
    <3> HIDE DEF found
    <3>2. \A z \in found : ~(z < y)
      BY <2>2, <3>1 DEF OpToRel
    <3>3. QED
      BY <3>1, <3>2
  <2> DEFINE m == CHOOSE a \in found : \A b \in found : a <= b
  <2>4. m \in found
    BY <2>3
  <2>5. GetSocketByName(n) = {m}
    BY <1>2 DEF GetSocketByName
  <2> HIDE DEF m
  <2>6. QED
    BY <2>4, <2>5
<1>3. QED
  BY <1>1, <1>2
-----------------------------------------------------------------------------
(* The steps.                                                              *)

LEMMA InitIInv == Init => IInv
<1> SUFFICES ASSUME Init PROVE IInv
  OBVIOUS
<1>1. msgs = <<>> /\ DOMAIN msgs = {} /\ Alive = {}
  <2>1. msgs = <<>>
    BY DEF Init
  <2>2. DOMAIN <<>> = {}
    OBVIOUS
  <2>3. QED
    BY <2>1, <2>2 DEF Alive
<1>2. TypeInv
  BY <1>1, EmptyQueue, EmptySeq DEF Init, TypeInv, Null
<1>3. Owned
  BY <1>1, EmptyQueue DEF Init, Owned
<1>4. Kept /\ Said
  BY <1>1 DEF Init, Kept, Said
<1>5. Protocol
  BY <1>1, EmptyQueue DEF Init, Protocol, HiddenOrFine
<1>6. QED
  BY <1>2, <1>3, <1>4, <1>5 DEF IInv

\* Freed deletes the messages of a set.
LEMMA FreedProperties ==
  ASSUME TypeInv, NEW ids, msgs' = Freed(ids)
  PROVE  /\ msgs' \in Seq({"fresh", "sized", "freed"}) /\ Alive' = Alive \ ids
         /\ \A i \in Alive' : msgs'[i] = msgs[i]
<1>1. msgs \in Seq({"fresh", "sized", "freed"}) /\ Len(msgs) \in Nat /\ DOMAIN msgs = 1 .. Len(msgs)
  BY LenProperties DEF TypeInv
<1>2. \A i \in DOMAIN msgs : msgs[i] \in {"fresh", "sized", "freed"}
  BY <1>1, ElementOfSeq
<1>3. msgs' = [i \in 1 .. Len(msgs) |-> IF i \in ids THEN "freed" ELSE msgs[i]]
  BY <1>1 DEF Freed
<1>4. msgs' \in [1 .. Len(msgs) -> {"fresh", "sized", "freed"}]
  BY <1>1, <1>2, <1>3
<1>5. msgs' \in Seq({"fresh", "sized", "freed"})
  BY <1>1, <1>4, SeqDef
<1>6. Alive' = Alive \ ids /\ \A i \in Alive' : msgs'[i] = msgs[i]
  BY <1>1, <1>3 DEF Alive
<1>7. QED
  BY <1>5, <1>6

\* Sizing a message that was not deleted.
LEMMA SizedProperties ==
  ASSUME TypeInv, NEW k \in Alive, msgs' = [msgs EXCEPT ![k] = "sized"]
  PROVE  /\ msgs' \in Seq({"fresh", "sized", "freed"}) /\ Alive' = Alive
         /\ \A i \in Alive : msgs[i] = "sized" => msgs'[i] = "sized"
<1>1. msgs \in Seq({"fresh", "sized", "freed"}) /\ DOMAIN msgs = 1 .. Len(msgs)
  BY LenProperties DEF TypeInv
<1>2. k \in 1 .. Len(msgs)
  BY <1>1 DEF Alive
<1>3. msgs' \in Seq({"fresh", "sized", "freed"})
  BY <1>1, <1>2, ExceptSeq
<1>4. DOMAIN msgs' = DOMAIN msgs /\ \A i \in DOMAIN msgs : msgs'[i] = IF i = k THEN "sized" ELSE msgs[i]
  BY <1>1, <1>2
<1>5. QED
  BY <1>3, <1>4 DEF Alive

\* new NetMessage.
LEMMA NewProperties ==
  ASSUME TypeInv, msgs' = Append(msgs, "fresh")
  PROVE  /\ msgs' \in Seq({"fresh", "sized", "freed"})
         /\ NewId \in Nat \ {0} /\ NewId \notin Alive /\ Alive' = Alive \cup {NewId}
         /\ \A i \in Alive : msgs'[i] = msgs[i]
<1>1. msgs \in Seq({"fresh", "sized", "freed"}) /\ Len(msgs) \in Nat /\ DOMAIN msgs = 1 .. Len(msgs)
  BY LenProperties DEF TypeInv
<1>2. /\ msgs' \in Seq({"fresh", "sized", "freed"}) /\ Len(msgs') = Len(msgs) + 1
      /\ msgs'[Len(msgs) + 1] = "fresh" /\ \A i \in 1 .. Len(msgs) : msgs'[i] = msgs[i]
  BY <1>1, AppendProperties
<1>3. DOMAIN msgs' = 1 .. Len(msgs) + 1
  BY <1>2, LenProperties
<1>4. DOMAIN msgs' = DOMAIN msgs \cup {Len(msgs) + 1} /\ Len(msgs) + 1 \notin DOMAIN msgs
  BY <1>1, <1>3
<1>5. QED
  BY <1>1, <1>2, <1>4 DEF NewId, Alive

\* A step that leaves the messages alone keeps Owned, and Kept unless the
\* script becomes polite, which it never does.
LEMMA QueuesUntouched ==
  ASSUME IInv, UNCHANGED <<sendList, recvList, m_pMsg, msgs>>, polite' => polite
  PROVE  Owned' /\ Kept' /\ Alive' = Alive
<1>1. Alive' = Alive
  BY DEF Alive
<1>2. Owned'
  BY <1>1 DEF IInv, Owned
<1>3. Kept'
  BY <1>1 DEF IInv, Kept
<1>4. QED
  BY <1>1, <1>2, <1>3

\* A step that changes no object and raises no fault keeps to what a fault may be.
LEMMA NoNewFault ==
  ASSUME UNCHANGED <<name, refs, fault>>
  PROVE  HiddenOrFine' = HiddenOrFine /\ \A n : Hidden(n)' = Hidden(n)
  BY DEF HiddenOrFine, Hidden, Live, GetSocketByName

LEMMA NewSocketStep ==
  ASSUME IInv, NEW a \in Addr, NEW n \in Names, NewSocket(a, n)
  PROVE  IInv'
<1>1. /\ name[a] = NoName /\ name' = [name EXCEPT ![a] = n] /\ refs' = refs \cup {a}
      /\ UNCHANGED <<made, sendList, recvList, m_pMsg, msgs, fault, ready>>
      /\ polite' = (polite /\ TRUE) /\ fault = ""
  BY DEF NewSocket, Script, conns
<1>2. TypeInv'
  BY <1>1 DEF IInv, TypeInv
<1>3. Owned' /\ Kept'
  BY <1>1, QueuesUntouched
<1>4. Said'
  BY <1>1 DEF IInv, Said
<1>5. Protocol'
  BY <1>1 DEF IInv, Protocol, HiddenOrFine
<1>6. QED
  BY <1>2, <1>3, <1>4, <1>5 DEF IInv

LEMMA DropSocketStep ==
  ASSUME IInv, NEW a \in Addr, DropSocket(a)
  PROVE  IInv'
<1>1. /\ refs' = refs \ {a} /\ polite' = (polite /\ TRUE) /\ fault = ""
      /\ UNCHANGED <<name, made, sendList, recvList, m_pMsg, msgs, fault, ready>>
  BY DEF DropSocket, Script, conns
<1>2. TypeInv'
  BY <1>1 DEF IInv, TypeInv
<1>3. Owned' /\ Kept'
  BY <1>1, QueuesUntouched
<1>4. Said' /\ Protocol'
  BY <1>1 DEF IInv, Said, Protocol, HiddenOrFine
<1>5. QED
  BY <1>2, <1>3, <1>4 DEF IInv

\* Both queues of an object are cleared and their messages deleted, by its
\* destructor or by a method.
LEMMA ClearStep ==
  ASSUME IInv, NEW a \in Addr,
         sendList' = [sendList EXCEPT ![a] = <<>>], recvList' = [recvList EXCEPT ![a] = <<>>],
         msgs' = Freed(ToSet(sendList[a]) \cup ToSet(recvList[a])),
         made' \subseteq Addr, ready' = ready \ {a}, refs' = refs, m_pMsg' = m_pMsg, fault = "", fault' = fault,
         polite' \in BOOLEAN, polite' => polite,
         name' = name \/ name' = [name EXCEPT ![a] = NoName]
  PROVE  IInv'
<1> DEFINE ids == ToSet(sendList[a]) \cup ToSet(recvList[a])
<1>1. /\ msgs' \in Seq({"fresh", "sized", "freed"}) /\ Alive' = Alive \ ids
      /\ \A i \in Alive' : msgs'[i] = msgs[i]
  BY FreedProperties DEF IInv
<1>2. /\ sendList' \in [Addr -> Seq(Nat)] /\ recvList' \in [Addr -> Seq(Nat)]
      /\ sendList'[a] = <<>> /\ recvList'[a] = <<>>
      /\ \A b \in Addr : b # a => sendList'[b] = sendList[b] /\ recvList'[b] = recvList[b]
  BY EmptyQueue DEF IInv, TypeInv
<1>3. TypeInv'
  BY <1>1, <1>2 DEF IInv, TypeInv
<1>4. Owned'
  <2>1. \A b \in Addr : NoDup(sendList'[b]) /\ NoDup(recvList'[b])
    BY <1>2, EmptyQueue DEF IInv, Owned
  <2>2. \A b \in Addr : ToSet(sendList'[b]) \subseteq ToSet(sendList[b]) /\ ToSet(recvList'[b]) \subseteq ToSet(recvList[b])
    BY <1>2, EmptyQueue
  <2>3. \A b \in Addr : ToSet(sendList'[b]) \subseteq Alive' /\ ToSet(recvList'[b]) \subseteq Alive'
    BY <1>1, <1>2, EmptyQueue DEF IInv, Owned
  <2>4. \A h \in Handles : m_pMsg'[h] # Null => m_pMsg'[h] \in Alive'
    BY <1>1 DEF IInv, Owned
  <2>5. QED
    BY <2>1, <2>2, <2>3, <2>4 DEF IInv, Owned
<1>5. Kept'
  BY <1>1, <1>2 DEF IInv, Kept
<1>6. Said'
  <2>1. SUFFICES ASSUME NEW b \in ready, b # a PROVE recvList'[b] # <<>> /\ msgs'[Head(recvList'[b])] = "sized"
    BY DEF Said
  <2>2. b \in Addr /\ recvList'[b] = recvList[b] /\ recvList[b] # <<>> /\ msgs[Head(recvList[b])] = "sized"
    BY <1>2, <2>1 DEF IInv, Said, TypeInv
  <2>3. Head(recvList[b]) \in ToSet(recvList[b])
    BY <2>2, LastOfQueue DEF IInv, TypeInv
  <2>4. Head(recvList[b]) \in Alive'
    BY <1>1, <2>1, <2>2, <2>3 DEF IInv, Owned
  <2>5. QED
    BY <1>1, <2>2, <2>4
<1>7. Protocol'
  <2>1. SUFFICES ASSUME polite' PROVE Protocol'
    BY DEF Protocol
  <2>2. HiddenOrFine'
    BY DEF HiddenOrFine
  <2>3. \A b \in Addr : \A i \in ToSet(sendList'[b]) : msgs'[i] = "sized"
    BY <1>1, <1>2, <1>4, <2>1, EmptyQueue DEF IInv, Protocol, Owned
  <2>4. QED
    BY <2>2, <2>3 DEF Protocol
<1>8. QED
  BY <1>3, <1>4, <1>5, <1>6, <1>7 DEF IInv

\* HasPendingMsg answers for the first message.
LEMMA HasPendingMsgStep ==
  ASSUME IInv, NEW a \in Addr, HasPendingMsg(a), polite' \in BOOLEAN, polite' => polite
  PROVE  IInv'
<1> DEFINE yes == recvList[a] # <<>> /\ msgs[Head(recvList[a])] = "sized"
<1>1. /\ made' = made \cup {a} /\ (ready' = IF yes THEN ready \cup {a} ELSE ready \ {a})
      /\ UNCHANGED <<name, refs, sendList, recvList, m_pMsg, msgs, fault>>
  BY DEF HasPendingMsg, Says
<1>2. TypeInv'
  BY <1>1 DEF IInv, TypeInv
<1>3. Owned' /\ Kept'
  BY <1>1, QueuesUntouched
<1>4. Said' /\ Protocol'
  BY <1>1, NoNewFault DEF IInv, Said, Protocol
<1>5. QED
  BY <1>2, <1>3, <1>4 DEF IInv

LEMMA ClearCachedStep ==
  ASSUME IInv, NEW a \in Addr, ClearCached(a), fault = "", polite' \in BOOLEAN, polite' => polite
  PROVE  IInv'
<1>1. made \cup {a} \subseteq Addr
  BY DEF IInv, TypeInv
<1>2. QED
  BY <1>1, ClearStep DEF ClearCached

LEMMA CollectSocketStep ==
  ASSUME IInv, NEW a \in Addr, CollectSocket(a)
  PROVE  IInv'
<1>1. made \ {a} \subseteq Addr /\ polite \in BOOLEAN
  BY DEF IInv, TypeInv
<1>2. QED
  BY <1>1, ClearStep DEF CollectSocket

\* A null pointer is used, which a polite script does only for a hidden name.
LEMMA FaultStep ==
  ASSUME IInv, UNCHANGED <<name, refs, made, sendList, recvList, m_pMsg, msgs, ready>>,
         polite' \in BOOLEAN, polite' => polite,
         polite' => fault' = "null" /\ \E n \in Names : Hidden(n)
  PROVE  IInv'
<1>1. TypeInv'
  BY DEF IInv, TypeInv
<1>2. Owned' /\ Kept'
  BY QueuesUntouched
<1>3. Said'
  BY DEF IInv, Said
<1>4. \A n : Hidden(n)' = Hidden(n)
  BY DEF Hidden, Live, GetSocketByName
<1>5. Protocol'
  BY <1>4 DEF IInv, Protocol, HiddenOrFine
<1>6. QED
  BY <1>1, <1>2, <1>3, <1>5 DEF IInv

LEMMA MethodStep ==
  ASSUME IInv, NEW a \in Addr, Method(a)
  PROVE  IInv'
<1>1. polite' \in BOOLEAN /\ (polite' => polite) /\ fault = ""
  BY DEF Method, Script, IInv, TypeInv
<1>2. QED
  BY <1>1, ClearCachedStep, HasPendingMsgStep DEF Method

LEMMA DefaultMethodStep == ASSUME IInv, DefaultMethod PROVE IInv'
<1>1. polite' = (polite /\ Live(Default) # {}) /\ fault = ""
  BY DEF DefaultMethod, Script
<1>2. polite' \in BOOLEAN /\ (polite' => polite)
  BY <1>1 DEF IInv, TypeInv
<1>3. ASSUME NEW a \in GetSocketByName(Default), ClearCached(a) \/ HasPendingMsg(a) PROVE IInv'
  <2>1. a \in Addr
    BY Lookup DEF IInv
  <2>2. QED
    BY <1>1, <1>2, <1>3, <2>1, ClearCachedStep, HasPendingMsgStep
<1>4. ASSUME GetSocketByName(Default) = {}, UNCHANGED <<name, refs, conns, m_pMsg, msgs, ready>> PROVE IInv'
  <2>1. Live(Default) = {}
    BY <1>4, Lookup DEF Live, IInv, TypeInv
  <2>2. QED
    BY <1>1, <1>2, <1>4, <2>1, FaultStep DEF conns
<1>5. QED
  BY <1>3, <1>4 DEF DefaultMethod
\* The first message of a queue is sent and deleted; a polite script has none
\* there that Update would spin on.
LEMMA UpdateSendStep ==
  ASSUME IInv, NEW a \in Addr, UpdateSend(a)
  PROVE  IInv'
<1> DEFINE i == Head(sendList[a])
<1>1. /\ sendList[a] # <<>> /\ UNCHANGED <<name, refs, made, recvList, m_pMsg, ready, polite>>
      /\ IF msgs[i] = "sized"
         THEN msgs' = Freed({i}) /\ sendList' = [sendList EXCEPT ![a] = Tail(sendList[a])] /\ fault' = fault
         ELSE fault' = "hang" /\ msgs' = msgs /\ sendList' = sendList
  BY DEF UpdateSend
<1>2. /\ sendList[a] \in Seq(Nat) /\ NoDup(sendList[a])
  BY DEF IInv, TypeInv, Owned
<1>3. /\ Tail(sendList[a]) \in Seq(Nat) /\ NoDup(Tail(sendList[a]))
      /\ i \in ToSet(sendList[a]) /\ i \notin ToSet(Tail(sendList[a]))
      /\ ToSet(sendList[a]) = ToSet(Tail(sendList[a])) \cup {i}
  BY <1>1, <1>2, TailQueue
<1> HIDE DEF i
<1>4. CASE msgs[i] # "sized"
  <2>1. ~polite
    BY <1>3, <1>4 DEF IInv, Protocol
  <2>2. polite' \in BOOLEAN /\ ~polite'
    BY <1>1, <2>1 DEF IInv, TypeInv
  <2>3. QED
    BY <1>1, <1>4, <2>2, FaultStep
<1>5. CASE msgs[i] = "sized"
  <2>1. /\ msgs' \in Seq({"fresh", "sized", "freed"}) /\ Alive' = Alive \ {i}
        /\ \A k \in Alive' : msgs'[k] = msgs[k]
    BY <1>1, <1>5, FreedProperties DEF IInv
  <2>2. /\ sendList' \in [Addr -> Seq(Nat)] /\ sendList'[a] = Tail(sendList[a])
        /\ \A b \in Addr : b # a => sendList'[b] = sendList[b]
    BY <1>1, <1>3, <1>5 DEF IInv, TypeInv
  <2>3. ToSet(sendList'[a]) = ToSet(sendList[a]) \ {i}
    BY <1>3, <2>2
  <2>4. TypeInv'
    BY <1>1, <2>1, <2>2 DEF IInv, TypeInv
  <2>5. Owned'
    <3>1. \A b \in Addr : NoDup(sendList'[b]) /\ NoDup(recvList'[b])
      BY <1>1, <1>3, <2>2 DEF IInv, Owned
    <3>2. \A b \in Addr : ToSet(sendList'[b]) \subseteq ToSet(sendList[b])
      BY <2>2, <2>3
    <3>3. \A b \in Addr : i \notin ToSet(sendList'[b]) /\ i \notin ToSet(recvList[b])
      BY <1>3, <2>2, <2>3 DEF IInv, Owned
    <3>4. \A b \in Addr : ToSet(sendList'[b]) \subseteq Alive' /\ ToSet(recvList'[b]) \subseteq Alive'
      BY <1>1, <2>1, <3>2, <3>3 DEF IInv, Owned
    <3>5. \A h \in Handles : m_pMsg'[h] # Null => m_pMsg'[h] \in Alive'
      BY <1>1, <1>3, <2>1 DEF IInv, Owned
    <3>6. QED
      BY <1>1, <3>1, <3>2, <3>4, <3>5 DEF IInv, Owned
  <2>6. Kept'
    BY <1>1, <2>1, <2>2, <2>3 DEF IInv, Kept
  <2>7. Said'
    <3>1. SUFFICES ASSUME NEW b \in ready PROVE recvList[b] # <<>> /\ msgs'[Head(recvList[b])] = "sized"
      BY <1>1 DEF Said
    <3>2. b \in Addr /\ recvList[b] # <<>> /\ msgs[Head(recvList[b])] = "sized" /\ recvList[b] \in Seq(Nat)
      BY <3>1 DEF IInv, Said, TypeInv
    <3>3. Head(recvList[b]) \in ToSet(recvList[b])
      BY <3>2, LastOfQueue
    <3>4. Head(recvList[b]) \in Alive'
      BY <1>1, <2>5, <3>2, <3>3 DEF Owned
    <3>5. QED
      BY <2>1, <3>2, <3>4
  <2>8. Protocol'
    BY <1>1, <1>5, <2>1, <2>2, <2>3, <2>5, NoNewFault DEF IInv, Protocol, Owned
  <2>9. QED
    BY <2>4, <2>5, <2>6, <2>7, <2>8 DEF IInv
<1>6. QED
  BY <1>4, <1>5

\* A message joins the receive queue, or the last one gets its size.
LEMMA UpdateReceiveStep ==
  ASSUME IInv, NEW a \in Addr, UpdateReceive(a)
  PROVE  IInv'
<1> DEFINE i == Last(recvList[a])
<1>1. /\ UNCHANGED <<name, refs, made, sendList, m_pMsg, fault, ready, polite>>
      /\ IF recvList[a] # <<>> /\ msgs[i] = "fresh"
         THEN msgs' = [msgs EXCEPT ![i] = "sized"] /\ recvList' = recvList
         ELSE msgs' = Append(msgs, "fresh") /\ recvList' = [recvList EXCEPT ![a] = Append(recvList[a], NewId)]
  BY DEF UpdateReceive
<1>2. recvList[a] \in Seq(Nat) /\ NoDup(recvList[a])
  BY DEF IInv, TypeInv, Owned
<1>3. CASE recvList[a] # <<>> /\ msgs[i] = "fresh"
  <2>1. i \in Alive
    BY <1>2, <1>3, LastOfQueue DEF IInv, Owned
  <2>2. /\ msgs' \in Seq({"fresh", "sized", "freed"}) /\ Alive' = Alive
        /\ \A k \in Alive : msgs[k] = "sized" => msgs'[k] = "sized"
    BY <1>1, <1>3, <2>1, SizedProperties DEF IInv
  <2>3. UNCHANGED <<name, refs, made, sendList, m_pMsg, fault, ready, polite, recvList>>
    BY <1>1, <1>3
  <2> HIDE DEF i
  <2>4. TypeInv' /\ Owned' /\ Kept'
    BY <2>2, <2>3 DEF IInv, TypeInv, Owned, Kept
  <2>5. Said'
    <3>1. SUFFICES ASSUME NEW b \in ready PROVE recvList[b] # <<>> /\ msgs'[Head(recvList[b])] = "sized"
      BY <2>3 DEF Said
    <3>2. b \in Addr /\ recvList[b] # <<>> /\ msgs[Head(recvList[b])] = "sized" /\ recvList[b] \in Seq(Nat)
      BY <3>1 DEF IInv, Said, TypeInv
    <3>3. Head(recvList[b]) \in Alive
      BY <3>2, LastOfQueue DEF IInv, Owned
    <3>4. QED
      BY <2>2, <3>2, <3>3
  <2>6. Protocol'
    BY <2>2, <2>3, NoNewFault DEF IInv, Protocol, Owned
  <2>7. QED
    BY <2>4, <2>5, <2>6 DEF IInv
<1>4. CASE ~(recvList[a] # <<>> /\ msgs[i] = "fresh")
  <2>1. msgs' = Append(msgs, "fresh") /\ recvList' = [recvList EXCEPT ![a] = Append(recvList[a], NewId)]
    BY <1>1, <1>4
  <2>2. /\ msgs' \in Seq({"fresh", "sized", "freed"})
        /\ NewId \in Nat \ {0} /\ NewId \notin Alive /\ Alive' = Alive \cup {NewId}
        /\ \A k \in Alive : msgs'[k] = msgs[k]
    BY <2>1, NewProperties DEF IInv
  <2> HIDE DEF i
  <2> DEFINE q == Append(recvList[a], NewId)
  <2>3. NewId \notin ToSet(recvList[a]) /\ NewId \in Nat
    BY <2>2 DEF IInv, Owned
  <2>4. /\ q \in Seq(Nat) /\ NoDup(q) /\ q # <<>> /\ ToSet(q) = ToSet(recvList[a]) \cup {NewId}
        /\ (recvList[a] # <<>> => Head(q) = Head(recvList[a]))
    BY <1>2, <2>3, AppendQueue
  <2>5. /\ recvList' \in [Addr -> Seq(Nat)] /\ recvList'[a] = q
        /\ \A b \in Addr : b # a => recvList'[b] = recvList[b]
    BY <2>1, <2>4 DEF IInv, TypeInv
  <2> HIDE DEF q
  <2>6. TypeInv'
    BY <1>1, <2>2, <2>5 DEF IInv, TypeInv
  <2>7. Owned'
    <3>1. \A b \in Addr : NoDup(sendList'[b]) /\ NoDup(recvList'[b])
      BY <1>1, <2>4, <2>5 DEF IInv, Owned
    <3>2. \A b \in Addr : \A x : x \in ToSet(recvList'[b]) <=> x \in ToSet(recvList[b]) \/ (b = a /\ x = NewId)
      BY <2>4, <2>5
    <3>3. \A b \in Addr : ToSet(sendList'[b]) \subseteq Alive' /\ ToSet(recvList'[b]) \subseteq Alive'
      BY <1>1, <2>2, <3>2 DEF IInv, Owned
    <3>4. \A h \in Handles : m_pMsg'[h] # Null => m_pMsg'[h] \in Alive' /\ m_pMsg'[h] # NewId
      BY <1>1, <2>2 DEF IInv, Owned
    <3>5. \A b \in Addr : NewId \notin ToSet(sendList[b]) /\ NewId \notin ToSet(recvList[b])
      BY <2>2 DEF IInv, Owned
    <3>6. \A b, c \in Addr : b # c => /\ ToSet(sendList'[b]) \cap ToSet(sendList'[c]) = {}
                                    /\ ToSet(recvList'[b]) \cap ToSet(recvList'[c]) = {}
      <4>1. \A b, c \in Addr : b # c => \A x \in ToSet(recvList'[b]) : x \notin ToSet(recvList'[c])
        BY <3>2, <3>5 DEF IInv, Owned
      <4>2. \A b, c \in Addr : b # c => ToSet(sendList'[b]) \cap ToSet(sendList'[c]) = {}
        BY <1>1 DEF IInv, Owned
      <4>3. QED
        BY <4>1, <4>2
    <3>7. \A b, c \in Addr : ToSet(sendList'[b]) \cap ToSet(recvList'[c]) = {}
      BY <1>1, <3>2, <3>5 DEF IInv, Owned
    <3>8. \A h \in Handles, b \in Addr :
            m_pMsg'[h] # Null => m_pMsg'[h] \notin ToSet(sendList'[b]) /\ m_pMsg'[h] \notin ToSet(recvList'[b])
      BY <1>1, <3>2, <3>4 DEF IInv, Owned
    <3>9. \A h, g \in Handles : m_pMsg'[h] = m_pMsg'[g] /\ m_pMsg'[h] # Null => h = g
      BY <1>1 DEF IInv, Owned
    <3>10. QED
      BY <3>1, <3>3, <3>4, <3>6, <3>7, <3>8, <3>9 DEF Owned
  <2>8. Kept'
    BY <1>1, <2>2, <2>4, <2>5 DEF IInv, Kept
  <2>9. Said'
    <3>1. SUFFICES ASSUME NEW b \in ready PROVE recvList'[b] # <<>> /\ msgs'[Head(recvList'[b])] = "sized"
      BY <1>1 DEF Said
    <3>2. b \in Addr /\ recvList[b] # <<>> /\ msgs[Head(recvList[b])] = "sized" /\ recvList[b] \in Seq(Nat)
      BY <3>1 DEF IInv, Said, TypeInv
    <3>3. Head(recvList[b]) \in Alive
      BY <3>2, LastOfQueue DEF IInv, Owned
    <3>4. recvList'[b] # <<>> /\ Head(recvList'[b]) = Head(recvList[b])
      BY <2>4, <2>5, <3>2
    <3>5. QED
      BY <2>2, <3>2, <3>3, <3>4
  <2>10. Protocol'
    BY <1>1, <2>2, NoNewFault DEF IInv, Protocol, Owned
  <2>11. QED
    BY <2>6, <2>7, <2>8, <2>9, <2>10 DEF IInv
<1>5. QED
  BY <1>3, <1>4

LEMMA CreateNewMessageStep ==
  ASSUME IInv, NEW h \in Handles, CreateNewMessage(h)
  PROVE  IInv'
<1>1. /\ msgs' = Append(msgs, "fresh") /\ m_pMsg' = [m_pMsg EXCEPT ![h] = NewId]
      /\ UNCHANGED <<name, refs, made, sendList, recvList, fault, ready>>
      /\ polite' = (polite /\ m_pMsg[h] = Null)
  BY DEF CreateNewMessage, Script, conns
<1>2. /\ msgs' \in Seq({"fresh", "sized", "freed"})
      /\ NewId \in Nat \ {0} /\ NewId \notin Alive /\ Alive' = Alive \cup {NewId}
      /\ \A k \in Alive : msgs'[k] = msgs[k]
  BY <1>1, NewProperties DEF IInv
<1>3. /\ m_pMsg' \in [Handles -> Nat] /\ m_pMsg'[h] = NewId
      /\ \A g \in Handles : g # h => m_pMsg'[g] = m_pMsg[g]
  BY <1>1, <1>2 DEF IInv, TypeInv
<1>4. TypeInv'
  BY <1>1, <1>2, <1>3 DEF IInv, TypeInv
<1>5. Owned'
  <2>1. \A g \in Handles : g # h /\ m_pMsg'[g] # Null => m_pMsg'[g] \in Alive /\ m_pMsg'[g] # NewId
    BY <1>2, <1>3 DEF IInv, Owned
  <2>2. \A b \in Addr : /\ ToSet(sendList'[b]) \subseteq Alive /\ NewId \notin ToSet(sendList'[b])
                        /\ ToSet(recvList'[b]) \subseteq Alive /\ NewId \notin ToSet(recvList'[b])
    BY <1>1, <1>2 DEF IInv, Owned
  <2>3. \A g \in Handles : m_pMsg'[g] # Null => m_pMsg'[g] \in Alive'
    BY <1>2, <1>3, <2>1
  <2>4. \A g \in Handles, b \in Addr :
          m_pMsg'[g] # Null => m_pMsg'[g] \notin ToSet(sendList'[b]) /\ m_pMsg'[g] \notin ToSet(recvList'[b])
    BY <1>1, <1>3, <2>2 DEF IInv, Owned
  <2>5. \A f, g \in Handles : m_pMsg'[f] = m_pMsg'[g] /\ m_pMsg'[f] # Null => f = g
    BY <1>3, <2>1 DEF IInv, Owned
  <2>6. \A a \in Addr : ToSet(sendList'[a]) \subseteq Alive' /\ ToSet(recvList'[a]) \subseteq Alive'
    BY <1>2, <2>2
  <2>7. QED
    BY <1>1, <2>3, <2>4, <2>5, <2>6 DEF IInv, Owned
<1>6. Kept'
  <2>1. SUFFICES ASSUME polite, m_pMsg[h] = Null, NEW i \in Alive
                 PROVE  \/ \E g \in Handles : m_pMsg'[g] = i
                        \/ \E a \in Addr : i \in ToSet(sendList[a]) \/ i \in ToSet(recvList[a])
    BY <1>1, <1>2, <1>3 DEF Kept
  <2>2. i # Null
    BY LenProperties DEF Alive, Null, IInv, TypeInv
  <2>3. QED
    BY <1>3, <2>1, <2>2 DEF IInv, Kept
<1>7. Said'
  <2>1. SUFFICES ASSUME NEW b \in ready PROVE recvList[b] # <<>> /\ msgs'[Head(recvList[b])] = "sized"
    BY <1>1 DEF Said
  <2>2. b \in Addr /\ recvList[b] # <<>> /\ msgs[Head(recvList[b])] = "sized" /\ recvList[b] \in Seq(Nat)
    BY <2>1 DEF IInv, Said, TypeInv
  <2>3. Head(recvList[b]) \in Alive
    BY <2>2, LastOfQueue DEF IInv, Owned
  <2>4. QED
    BY <1>2, <2>2, <2>3
<1>8. Protocol'
  BY <1>1, <1>2, NoNewFault DEF IInv, Protocol, Owned
<1>9. QED
  BY <1>4, <1>5, <1>6, <1>7, <1>8 DEF IInv

LEMMA WriteStep ==
  ASSUME IInv, NEW h \in Handles, Write(h)
  PROVE  IInv'
<1>1. /\ polite' = (polite /\ m_pMsg[h] # Null)
      /\ UNCHANGED <<name, refs, made, sendList, recvList, m_pMsg, ready>>
  BY DEF Write, Script, conns
<1>2. polite' \in BOOLEAN
  BY <1>1
<1>3. CASE m_pMsg[h] = Null
  <2>1. msgs' = msgs
    BY <1>3 DEF Write
  <2>2. QED
    BY <1>1, <1>2, <1>3, <2>1, FaultStep
<1>4. CASE m_pMsg[h] # Null
  <2>1. fault' = fault /\ msgs' = [msgs EXCEPT ![m_pMsg[h]] = "sized"] /\ m_pMsg[h] \in Alive
    BY <1>4 DEF Write, IInv, Owned
  <2>2. /\ msgs' \in Seq({"fresh", "sized", "freed"}) /\ Alive' = Alive
        /\ \A k \in Alive : msgs[k] = "sized" => msgs'[k] = "sized"
    BY <2>1, SizedProperties DEF IInv
  <2>3. TypeInv' /\ Owned' /\ Kept'
    BY <1>1, <1>2, <2>2 DEF IInv, TypeInv, Owned, Kept
  <2>4. Said'
    <3>1. SUFFICES ASSUME NEW b \in ready PROVE recvList[b] # <<>> /\ msgs'[Head(recvList[b])] = "sized"
      BY <1>1 DEF Said
    <3>2. b \in Addr /\ recvList[b] # <<>> /\ msgs[Head(recvList[b])] = "sized" /\ recvList[b] \in Seq(Nat)
      BY <3>1 DEF IInv, Said, TypeInv
    <3>3. Head(recvList[b]) \in Alive
      BY <3>2, LastOfQueue DEF IInv, Owned
    <3>4. QED
      BY <2>2, <3>2, <3>3
  <2>5. Protocol'
    BY <1>1, <2>1, <2>2, NoNewFault DEF IInv, Protocol, Owned
  <2>6. QED
    BY <2>3, <2>4, <2>5 DEF IInv
<1>5. QED
  BY <1>3, <1>4

LEMMA ReadStep ==
  ASSUME IInv, NEW h \in Handles, Read(h)
  PROVE  IInv'
<1>1. /\ polite' = (polite /\ m_pMsg[h] # Null)
      /\ (fault' = IF m_pMsg[h] = Null THEN "null" ELSE fault)
      /\ UNCHANGED <<name, refs, made, sendList, recvList, m_pMsg, msgs, ready>>
  BY DEF Read, Script, conns
<1>2. Owned' /\ Kept'
  BY <1>1, QueuesUntouched
<1>3. TypeInv' /\ Said'
  BY <1>1 DEF IInv, TypeInv, Said
<1>4. Protocol'
  <2>1. CASE m_pMsg[h] = Null
    BY <1>1, <2>1 DEF Protocol
  <2>2. CASE m_pMsg[h] # Null
    BY <1>1, <2>2, NoNewFault DEF IInv, Protocol
  <2>3. QED
    BY <2>1, <2>2
<1>5. QED
  BY <1>2, <1>3, <1>4 DEF IInv

\* The socket of a name that is not hidden said that a message is there, and has it, whole.
LEMMA ReadyToLoad ==
  ASSUME IInv, NEW n \in Names, Live(n) # {}, Live(n) \subseteq ready, ~Hidden(n), NEW a \in GetSocketByName(n)
  PROVE  a \in Addr /\ recvList[a] # <<>> /\ msgs[Head(recvList[a])] = "sized"
<1>1. a \in Addr /\ name[a] = n
  BY Lookup DEF IInv
<1>2. a \in Live(n)
  BY <1>1 DEF Hidden, Live
<1>3. QED
  BY <1>1, <1>2 DEF IInv, Said

LEMMA LoadMsgStep ==
  ASSUME IInv, NEW h \in Handles, NEW n \in Names, LoadMsg(h, n)
  PROVE  IInv'
<1> DEFINE found == GetSocketByName(n)
           bad == found = {} \/ \E a \in found : recvList[a] = <<>>
<1>1. polite' = (polite /\ m_pMsg[h] = Null /\ Live(n) # {} /\ Live(n) \subseteq ready)
  BY DEF LoadMsg, Script
<1>2. polite' \in BOOLEAN /\ (polite' => polite)
  BY <1>1 DEF IInv, TypeInv
<1>3. CASE bad
  <2>1. UNCHANGED <<name, refs, made, sendList, recvList, m_pMsg, msgs, ready>>
    BY <1>3 DEF LoadMsg, conns
  <2>2. polite' => fault' = "null" /\ Hidden(n)
    <3>1. SUFFICES ASSUME Live(n) # {}, Live(n) \subseteq ready, ~Hidden(n) PROVE FALSE
      BY <1>1, <1>3 DEF LoadMsg
    <3>2. found # {}
      BY <3>1, Lookup DEF Live, IInv, TypeInv
    <3>3. \A a \in found : recvList[a] # <<>>
      BY <3>1, ReadyToLoad
    <3>4. QED
      BY <1>3, <3>2, <3>3
  <2>3. QED
    BY <1>2, <2>1, <2>2, FaultStep
<1>4. CASE ~bad
  <2>1. PICK a \in found :
          /\ m_pMsg' = [m_pMsg EXCEPT ![h] = Head(recvList[a])]
          /\ recvList' = [recvList EXCEPT ![a] = Tail(recvList[a])]
          /\ made' = made \cup {a} /\ ready' = ready \ {a}
          /\ UNCHANGED <<name, refs, sendList, msgs, fault>>
    BY <1>4 DEF LoadMsg
  <2>2. a \in Addr /\ recvList[a] # <<>>
    BY <1>4, Lookup DEF IInv
  <2> DEFINE i == Head(recvList[a])
  <2> HIDE DEF found, bad
  <2>3. /\ Tail(recvList[a]) \in Seq(Nat) /\ NoDup(Tail(recvList[a]))
        /\ i \in ToSet(recvList[a]) /\ i \notin ToSet(Tail(recvList[a]))
        /\ ToSet(recvList[a]) = ToSet(Tail(recvList[a])) \cup {i}
    BY <2>2, TailQueue DEF IInv, TypeInv, Owned
  <2>4. Alive' = Alive /\ i \in Alive /\ i \in Nat /\ i # Null
    <3>1. Alive' = Alive
      BY <2>1 DEF Alive
    <3>2. i \in Alive
      BY <2>2, <2>3 DEF IInv, Owned
    <3>3. i \in 1 .. Len(msgs) /\ Len(msgs) \in Nat
      BY <3>2, LenProperties DEF Alive, IInv, TypeInv
    <3>4. QED
      BY <3>1, <3>2, <3>3 DEF Null
  <2>5. /\ recvList' \in [Addr -> Seq(Nat)] /\ recvList'[a] = Tail(recvList[a])
        /\ \A b \in Addr : b # a => recvList'[b] = recvList[b]
        /\ m_pMsg' \in [Handles -> Nat] /\ m_pMsg'[h] = i
        /\ \A g \in Handles : g # h => m_pMsg'[g] = m_pMsg[g]
    BY <2>1, <2>2, <2>3, <2>4 DEF IInv, TypeInv
  <2> HIDE DEF i
  <2>6. TypeInv'
    BY <1>2, <2>1, <2>2, <2>5 DEF IInv, TypeInv
  <2>7. Owned'
    <3>1. \A b \in Addr : NoDup(sendList'[b]) /\ NoDup(recvList'[b])
      BY <2>1, <2>3, <2>5 DEF IInv, Owned
    <3>2. \A b \in Addr : ToSet(recvList'[b]) \subseteq ToSet(recvList[b]) /\ i \notin ToSet(recvList'[b])
      BY <2>2, <2>3, <2>5 DEF IInv, Owned
    <3>3. \A b \in Addr : i \notin ToSet(sendList'[b])
      BY <2>1, <2>2, <2>3 DEF IInv, Owned
    <3>4. \A g \in Handles : g # h => m_pMsg'[g] # i
      BY <2>2, <2>3, <2>4, <2>5 DEF IInv, Owned
    <3>5. \A g \in Handles : m_pMsg'[g] # Null => m_pMsg'[g] \in Alive'
      BY <2>4, <2>5 DEF IInv, Owned
    <3>6. \A g \in Handles, b \in Addr :
            m_pMsg'[g] # Null => m_pMsg'[g] \notin ToSet(sendList'[b]) /\ m_pMsg'[g] \notin ToSet(recvList'[b])
      BY <2>1, <2>5, <3>2, <3>3 DEF IInv, Owned
    <3>7. \A f, g \in Handles : m_pMsg'[f] = m_pMsg'[g] /\ m_pMsg'[f] # Null => f = g
      BY <2>5, <3>4 DEF IInv, Owned
    <3>8. QED
      BY <2>1, <2>4, <3>1, <3>2, <3>5, <3>6, <3>7 DEF IInv, Owned
  <2>8. Kept'
    <3>1. SUFFICES ASSUME polite, m_pMsg[h] = Null, NEW k \in Alive
                   PROVE  \/ \E g \in Handles : m_pMsg'[g] = k
                          \/ \E b \in Addr : k \in ToSet(sendList'[b]) \/ k \in ToSet(recvList'[b])
      BY <1>1, <2>4 DEF Kept
    <3>2. k # Null
      BY LenProperties DEF Alive, Null, IInv, TypeInv
    <3>3. CASE k = i
      BY <2>5, <3>3
    <3>4. CASE k # i
      BY <2>1, <2>3, <2>5, <3>1, <3>2, <3>4 DEF IInv, Kept
    <3>5. QED
      BY <3>3, <3>4
  <2>9. Said'
    BY <2>1, <2>5 DEF IInv, Said, TypeInv
  <2>10. Protocol'
    BY <1>2, <2>1, NoNewFault DEF IInv, Protocol
  <2>11. QED
    BY <2>6, <2>7, <2>8, <2>9, <2>10 DEF IInv
<1>5. QED
  BY <1>3, <1>4

LEMMA SendMsgStep ==
  ASSUME IInv, NEW h \in Handles, NEW n \in Names, SendMsg(h, n)
  PROVE  IInv'
<1> DEFINE found == GetSocketByName(n)
           bad == found = {} \/ m_pMsg[h] = Null
           i == m_pMsg[h]
<1>1. polite' = (polite /\ Whole(h) /\ Live(n) # {})
  BY DEF SendMsg, Script
<1>2. polite' \in BOOLEAN /\ (polite' => polite)
  BY <1>1 DEF IInv, TypeInv
<1>3. CASE bad
  <2>1. UNCHANGED <<name, refs, made, sendList, recvList, m_pMsg, msgs, ready>>
    BY <1>3 DEF SendMsg, conns
  <2>2. ~polite'
    BY <1>1, <1>3, Lookup DEF Live, Whole, IInv, TypeInv
  <2>3. QED
    BY <1>2, <2>1, <2>2, FaultStep
<1>4. CASE ~bad
  <2>1. PICK a \in found :
          /\ sendList' = [sendList EXCEPT ![a] = Append(sendList[a], i)]
          /\ m_pMsg' = [m_pMsg EXCEPT ![h] = Null] /\ made' = made \cup {a}
          /\ UNCHANGED <<name, refs, recvList, msgs, fault, ready>>
    BY <1>4 DEF SendMsg
  <2>2. a \in Addr /\ i # Null
    BY <1>4, Lookup DEF IInv
  <2> HIDE DEF found, bad
  <2>3. Alive' = Alive /\ i \in Alive /\ i \in Nat /\ i \notin ToSet(sendList[a])
    BY <2>1, <2>2 DEF Alive, IInv, Owned, TypeInv
  <2> DEFINE q == Append(sendList[a], i)
  <2>4. q \in Seq(Nat) /\ NoDup(q) /\ ToSet(q) = ToSet(sendList[a]) \cup {i}
    BY <2>2, <2>3, AppendQueue DEF IInv, TypeInv, Owned
  <2>5. /\ sendList' \in [Addr -> Seq(Nat)] /\ sendList'[a] = q
        /\ \A b \in Addr : b # a => sendList'[b] = sendList[b]
        /\ m_pMsg' \in [Handles -> Nat] /\ m_pMsg'[h] = Null
        /\ \A g \in Handles : g # h => m_pMsg'[g] = m_pMsg[g]
    BY <2>1, <2>2, <2>4 DEF IInv, TypeInv, Null
  <2>6. polite' => msgs[i] = "sized"
    BY <1>1 DEF Whole
  <2>7. \A b \in Addr : i \notin ToSet(sendList[b]) /\ i \notin ToSet(recvList[b])
    BY <2>2 DEF IInv, Owned
  <2>8. \A g \in Handles : g # h => m_pMsg'[g] # i
    BY <2>2, <2>5 DEF IInv, Owned
  <2> HIDE DEF q, i
  <2>9. TypeInv'
    BY <1>2, <2>1, <2>2, <2>5 DEF IInv, TypeInv
  <2>10. \A b \in Addr : \A x : x \in ToSet(sendList'[b]) <=> x \in ToSet(sendList[b]) \/ (b = a /\ x = i)
    BY <2>4, <2>5
  <2>11. Owned'
    <3>1. \A b \in Addr : NoDup(sendList'[b]) /\ NoDup(recvList'[b])
      BY <2>1, <2>4, <2>5 DEF IInv, Owned
    <3>2. \A b \in Addr : ToSet(sendList'[b]) \subseteq Alive' /\ ToSet(recvList'[b]) \subseteq Alive'
      BY <2>1, <2>3, <2>10 DEF IInv, Owned
    <3>3. \A g \in Handles : m_pMsg'[g] # Null => m_pMsg'[g] \in Alive'
      BY <2>3, <2>5 DEF IInv, Owned
    <3>4. \A b, c \in Addr : b # c => /\ ToSet(sendList'[b]) \cap ToSet(sendList'[c]) = {}
                                    /\ ToSet(recvList'[b]) \cap ToSet(recvList'[c]) = {}
      <4>1. \A b, c \in Addr : b # c => \A x \in ToSet(sendList'[b]) : x \notin ToSet(sendList'[c])
        BY <2>7, <2>10 DEF IInv, Owned
      <4>2. \A b, c \in Addr : b # c => ToSet(recvList'[b]) \cap ToSet(recvList'[c]) = {}
        BY <2>1 DEF IInv, Owned
      <4>3. QED
        BY <4>1, <4>2
    <3>5. \A b, c \in Addr : ToSet(sendList'[b]) \cap ToSet(recvList'[c]) = {}
      <4>1. \A b, c \in Addr : \A x \in ToSet(sendList'[b]) : x \notin ToSet(recvList'[c])
        BY <2>1, <2>7, <2>10 DEF IInv, Owned
      <4>2. QED
        BY <4>1
    <3>6. \A g \in Handles, b \in Addr :
            m_pMsg'[g] # Null => m_pMsg'[g] \notin ToSet(sendList'[b]) /\ m_pMsg'[g] \notin ToSet(recvList'[b])
      BY <2>1, <2>5, <2>8, <2>10 DEF IInv, Owned
    <3>7. \A f, g \in Handles : m_pMsg'[f] = m_pMsg'[g] /\ m_pMsg'[f] # Null => f = g
      BY <2>5 DEF IInv, Owned
    <3>8. QED
      BY <3>1, <3>2, <3>3, <3>4, <3>5, <3>6, <3>7 DEF Owned
  <2>12. Kept'
    <3>1. SUFFICES ASSUME polite, NEW k \in Alive
                   PROVE  \/ \E g \in Handles : m_pMsg'[g] = k
                          \/ \E b \in Addr : k \in ToSet(sendList'[b]) \/ k \in ToSet(recvList'[b])
      BY <1>2, <2>3 DEF Kept
    <3>2. CASE k = i
      BY <2>2, <2>10, <3>2
    <3>3. CASE k # i
      <4>1. \/ \E g \in Handles : m_pMsg[g] = k
            \/ \E b \in Addr : k \in ToSet(sendList[b]) \/ k \in ToSet(recvList[b])
        BY <3>1 DEF IInv, Kept
      <4>2. QED
        BY <2>1, <2>5, <2>10, <3>3, <4>1 DEF i
    <3>4. QED
      BY <3>2, <3>3
  <2>13. Said'
    BY <2>1 DEF IInv, Said
  <2>14. Protocol'
    BY <1>2, <2>1, <2>6, <2>10, NoNewFault DEF IInv, Protocol
  <2>15. QED
    BY <2>9, <2>11, <2>12, <2>13, <2>14 DEF IInv
<1>5. QED
  BY <1>3, <1>4

LEMMA CollectMsgStep ==
  ASSUME IInv, NEW h \in Handles, CollectMsg(h)
  PROVE  IInv'
<1> DEFINE i == m_pMsg[h]
<1>1. /\ i # Null /\ msgs' = Freed({i}) /\ m_pMsg' = [m_pMsg EXCEPT ![h] = Null]
      /\ UNCHANGED <<name, refs, made, sendList, recvList, fault, ready, polite>>
  BY DEF CollectMsg, conns
<1>2. /\ msgs' \in Seq({"fresh", "sized", "freed"}) /\ Alive' = Alive \ {i}
      /\ \A k \in Alive' : msgs'[k] = msgs[k]
  BY <1>1, FreedProperties DEF IInv
<1>3. /\ m_pMsg' \in [Handles -> Nat] /\ m_pMsg'[h] = Null
      /\ \A g \in Handles : g # h => m_pMsg'[g] = m_pMsg[g] /\ m_pMsg[g] # i
  BY <1>1 DEF IInv, TypeInv, Owned, Null
<1>4. \A b \in Addr : i \notin ToSet(sendList[b]) /\ i \notin ToSet(recvList[b])
  BY <1>1 DEF IInv, Owned
<1>5. TypeInv'
  BY <1>1, <1>2, <1>3 DEF IInv, TypeInv
<1>6. Owned'
  <2>1. \A g \in Handles : m_pMsg'[g] # Null => m_pMsg'[g] = m_pMsg[g] /\ m_pMsg[g] \in Alive'
    BY <1>2, <1>3 DEF IInv, Owned
  <2>2. \A a \in Addr : ToSet(sendList'[a]) \subseteq Alive' /\ ToSet(recvList'[a]) \subseteq Alive'
    BY <1>1, <1>2, <1>4 DEF IInv, Owned
  <2>3. QED
    BY <1>1, <2>1, <2>2 DEF IInv, Owned
<1>7. Kept'
  <2>1. SUFFICES ASSUME polite, NEW k \in Alive, k # i
                 PROVE  \/ \E g \in Handles : m_pMsg'[g] = k
                        \/ \E a \in Addr : k \in ToSet(sendList[a]) \/ k \in ToSet(recvList[a])
    BY <1>1, <1>2 DEF Kept
  <2>2. QED
    BY <1>3, <2>1 DEF IInv, Kept
<1>8. Said'
  <2>1. SUFFICES ASSUME NEW b \in ready PROVE recvList[b] # <<>> /\ msgs'[Head(recvList[b])] = "sized"
    BY <1>1 DEF Said
  <2>2. b \in Addr /\ recvList[b] # <<>> /\ msgs[Head(recvList[b])] = "sized" /\ recvList[b] \in Seq(Nat)
    BY <2>1 DEF IInv, Said, TypeInv
  <2>3. Head(recvList[b]) \in ToSet(recvList[b])
    BY <2>2, LastOfQueue
  <2>4. Head(recvList[b]) \in Alive'
    BY <1>1, <1>6, <2>2, <2>3 DEF Owned
  <2>5. QED
    BY <1>2, <2>2, <2>4
<1>9. Protocol'
  BY <1>1, <1>2, <1>6, NoNewFault DEF IInv, Protocol, Owned
<1>10. QED
  BY <1>5, <1>6, <1>7, <1>8, <1>9 DEF IInv

\* Every step keeps the invariant.
LEMMA NextStep == ASSUME IInv, [Next]_vars PROVE IInv'
<1>1. ASSUME NEW a \in Addr, NEW n \in Names, NewSocket(a, n) PROVE IInv'
  BY <1>1, NewSocketStep
<1>2. ASSUME NEW a \in Addr, DropSocket(a) \/ CollectSocket(a) \/ Method(a) \/ UpdateSend(a) \/ UpdateReceive(a)
      PROVE  IInv'
  BY <1>2, DropSocketStep, CollectSocketStep, MethodStep, UpdateSendStep, UpdateReceiveStep
<1>3. CASE DefaultMethod
  BY <1>3, DefaultMethodStep
<1>4. ASSUME NEW h \in Handles, CreateNewMessage(h) \/ Write(h) \/ Read(h) \/ CollectMsg(h)
      PROVE  IInv'
  BY <1>4, CreateNewMessageStep, WriteStep, ReadStep, CollectMsgStep
<1>5. ASSUME NEW h \in Handles, NEW n \in Names, LoadMsg(h, n) \/ SendMsg(h, n) PROVE IInv'
  BY <1>5, LoadMsgStep, SendMsgStep
<1>6. CASE UNCHANGED vars
  <2>1. Alive' = Alive
    BY <1>6 DEF vars, Alive
  <2>2. QED
    BY <1>6, <2>1, NoNewFault DEF vars, IInv, TypeInv, Owned, Kept, Said, Protocol
<1>7. QED
  BY <1>1, <1>2, <1>3, <1>4, <1>5, <1>6 DEF Next

-----------------------------------------------------------------------------
(* What the invariant says.                                                *)

LEMMA AtMostOne ==
  ASSUME NEW S, \A x, y \in S : x = y
  PROVE  Cardinality(S) <= 1
<1>1. CASE S = {}
  BY <1>1, FS_EmptySet
<1>2. CASE S # {}
  <2>1. PICK x \in S : S = {x}
    BY <1>2
  <2>2. QED
    BY <2>1, FS_Singleton
<1>3. QED
  BY <1>1, <1>2

LEMMA OwnedMeansOneOwner == IInv => OneOwner
<1> SUFFICES ASSUME IInv, NEW i \in DOMAIN msgs
             PROVE  /\ Cardinality(Places(i)) <= 1
                    /\ msgs[i] = "freed" => Places(i) = {}
                    /\ \A a \in Addr : Cardinality({j \in DOMAIN sendList[a] : sendList[a][j] = i}) <= 1
  BY DEF OneOwner
<1>0. i # Null
  BY LenProperties DEF IInv, TypeInv, Null
<1>1. \A x \in Places(i) : \/ \E h \in Handles : x = <<"handle", h>> /\ m_pMsg[h] = i
                           \/ \E a \in Addr : x = <<"send", a>> /\ i \in ToSet(sendList[a])
                           \/ \E a \in Addr : x = <<"recv", a>> /\ i \in ToSet(recvList[a])
  BY DEF Places
<1>2. ASSUME NEW x \in Places(i), NEW y \in Places(i) PROVE x = y
  <2>1. CASE \E h \in Handles : x = <<"handle", h>> /\ m_pMsg[h] = i
    BY <1>0, <1>1, <2>1 DEF IInv, Owned
  <2>2. CASE \E a \in Addr : x = <<"send", a>> /\ i \in ToSet(sendList[a])
    BY <1>0, <1>1, <2>2 DEF IInv, Owned
  <2>3. CASE \E a \in Addr : x = <<"recv", a>> /\ i \in ToSet(recvList[a])
    BY <1>0, <1>1, <2>3 DEF IInv, Owned
  <2>4. QED
    BY <1>1, <2>1, <2>2, <2>3
<1>3. ASSUME msgs[i] = "freed", NEW x \in Places(i) PROVE FALSE
  BY <1>0, <1>1, <1>3 DEF IInv, Owned, Alive
<1>4. ASSUME NEW a \in Addr PROVE Cardinality({j \in DOMAIN sendList[a] : sendList[a][j] = i}) <= 1
  <2>1. \A j, k \in {j \in DOMAIN sendList[a] : sendList[a][j] = i} : j = k
    BY DEF IInv, Owned, NoDup
  <2>2. QED
    BY <2>1, AtMostOne
<1>5. QED
  BY <1>2, <1>3, <1>4, AtMostOne

LEMMA KeptMeansNothingLost == IInv => NothingLost
<1> SUFFICES ASSUME IInv, polite, NEW i \in DOMAIN msgs, msgs[i] # "freed" PROVE Places(i) # {}
  BY DEF NothingLost
<1>1. \/ \E h \in Handles : m_pMsg[h] = i
      \/ \E a \in Addr : i \in ToSet(sendList[a]) \/ i \in ToSet(recvList[a])
  BY DEF IInv, Kept, Alive
<1>2. QED
  BY <1>1 DEF Places

-----------------------------------------------------------------------------
(* The theorems.                                                           *)

\* The inductive invariant holds in every state a script, the collector and
\* the network can bring about.
THEOREM Invariance == Spec => []IInv
<1>1. Init => IInv
  BY InitIInv
<1>2. IInv /\ [Next]_vars => IInv'
  BY NextStep
<1>3. QED
  BY <1>1, <1>2, PTL DEF Spec

\* Whatever the script does, every message is in one handle or one queue, once,
\* and in none after its destructor ran (CLuaMsg, SocketObject, the queues).
THEOREM SingleOwner == Spec => []OneOwner
BY Invariance, OwnedMeansOneOwner, PTL

\* Update never spins on a message that a script which keeps to the protocol sent,
\* and such a script uses a null pointer only where a dropped object that is not
\* yet collected hides a live one of its name (LoadMsg, SendMsg, socketext).
THEOREM PoliteSafety == Spec => []PoliteIsSafe
<1>1. IInv => PoliteIsSafe
  BY DEF IInv, Protocol, PoliteIsSafe
<1>2. QED
  BY <1>1, Invariance, PTL

\* Nor does it lose a message before it is deleted.
THEOREM NoLoss == Spec => []NothingLost
BY Invariance, KeptMeansNothingLost, PTL

\* What LoadMsg gives such a script has arrived completely, unless the name is
\* hidden: nothing between HasPendingMsg and LoadMsg can take the message away
\* or put another first.
THEOREM WholeLoads == Spec => LoadsWholeMessages
<1> DEFINE A == \A h \in Handles, n \in Names :
                  LoadMsg(h, n) /\ polite' /\ ~Hidden(n) /\ m_pMsg'[h] # m_pMsg[h]
                    => msgs[m_pMsg'[h]] = "sized"
<1>1. IInv /\ [Next]_vars => [A]_vars
  <2>1. SUFFICES ASSUME IInv, NEW h \in Handles, NEW n \in Names, LoadMsg(h, n), polite',
                        ~Hidden(n), m_pMsg'[h] # m_pMsg[h]
                 PROVE  msgs[m_pMsg'[h]] = "sized"
    OBVIOUS
  <2>2. Live(n) # {} /\ Live(n) \subseteq ready
    BY <2>1 DEF LoadMsg, Script
  <2>3. PICK a \in GetSocketByName(n) : m_pMsg' = [m_pMsg EXCEPT ![h] = Head(recvList[a])]
    BY <2>1 DEF LoadMsg
  <2>4. m_pMsg'[h] = Head(recvList[a])
    BY <2>1, <2>3 DEF IInv, TypeInv
  <2>5. QED
    BY <2>1, <2>2, <2>4, ReadyToLoad
<1>2. QED
  BY <1>1, Invariance, PTL DEF Spec, LoadsWholeMessages
=============================================================================
