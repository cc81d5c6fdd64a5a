------------------------------ MODULE SocketApi ------------------------------
(***************************************************************************)
(* What a script sees of the sockets (eng_socket.cpp) and of messages      *)
(* (LuaMsg.cpp): the registry of SocketObjects, found by name, the         *)
(* connection each owns, and the CLuaMsg handles through which messages    *)
(* travel between the script and the queues of ConnectionManager.cpp.      *)
(* Scripts, the garbage collector and the network interleave.  The network *)
(* is reduced to what it does to the queues; ConnectionManager.tla has the *)
(* rest.                                                                   *)
(***************************************************************************)
EXTENDS Naturals, Sequences, SequencesExt, FiniteSets

CONSTANTS
  Addr,      \* the addresses SocketObjects are allocated at, naturals
  Names,     \* class names, which are the names of the sockets
  Default,   \* "defaultSocket"
  Handles,   \* CLuaMsg objects
  MaxMsgs    \* bound: NetMessages ever allocated

NoName == "none"
Null == 0

ASSUME ApiAssumption ==
  Addr \subseteq Nat /\ IsFiniteSet(Addr) /\ Default \in Names /\ NoName \notin Names /\ MaxMsgs \in Nat

VARIABLES
  name,      \* s_objList: the name of the object at an address, NoName if there is none
  refs,      \* the objects the script can still reach
  made,      \* those whose m_pConnectionMgr is not NULL
  sendList,  \* of each object's connection
  recvList,
  m_pMsg,    \* of each handle
  msgs,      \* every NetMessage: fresh, sized (m_size is set), freed
  fault,     \* "", "null" (a null pointer is used), "hang" (Update never returns)
  ready,     \* history: objects whose HasPendingMsg has said true and still must
  polite     \* history: whether the script has kept to the protocol

vars == <<name, refs, made, sendList, recvList, m_pMsg, msgs, fault, ready, polite>>
conns == <<made, sendList, recvList>>

Init ==
  /\ name = [a \in Addr |-> NoName] /\ refs = {} /\ made = {}
  /\ sendList = [a \in Addr |-> <<>>] /\ recvList = [a \in Addr |-> <<>>]
  /\ m_pMsg = [h \in Handles |-> Null]
  /\ msgs = <<>> /\ fault = "" /\ ready = {} /\ polite = TRUE

NewId == Len(msgs) + 1
Freed(ids) == [i \in DOMAIN msgs |-> IF i \in ids THEN "freed" ELSE msgs[i]]

-----------------------------------------------------------------------------
(* Finding a socket.                                                       *)

(***************************************************************************)
(* GetSocketByName walks a std::set of pointers: the object with the least *)
(* address among those of the name, none if there is none.                 *)
(***************************************************************************)
GetSocketByName(n) ==
  LET found == {a \in Addr : name[a] = n}
  IN IF found = {} THEN {} ELSE {CHOOSE a \in found : \A b \in found : a <= b}

\* The script went on, in keeping with the protocol or not.
Script(ok) == fault = "" /\ polite' = (polite /\ ok)

(***************************************************************************)
(* The protocol of a script: no use of a name without a live object, a     *)
(* handle that is empty is filled, a message is written from begin to end  *)
(* before it is sent, and loaded only after the live object of the name    *)
(* (each, if there are several) said that it is there.  Objects may be     *)
(* dropped, and their names used again, at any time.                       *)
(***************************************************************************)
Live(n) == {a \in refs : name[a] = n}

\* The name finds an object that was dropped and not yet collected, although it has a live one.
Hidden(n) == Live(n) # {} /\ ~ GetSocketByName(n) \subseteq refs

Whole(h) == m_pMsg[h] # Null /\ msgs[m_pMsg[h]] = "sized"

-----------------------------------------------------------------------------
(* SocketObject.                                                           *)

\* ClassName.new(), at an address the allocator chooses.
NewSocket(a, n) ==
  /\ name[a] = NoName
  /\ Script(TRUE)
  /\ name' = [name EXCEPT ![a] = n] /\ refs' = refs \cup {a}
  /\ UNCHANGED <<conns, m_pMsg, msgs, fault, ready>>

\* The script forgets its last reference.
DropSocket(a) ==
  /\ a \in refs /\ Script(TRUE) /\ refs' = refs \ {a}
  /\ UNCHANGED <<name, conns, m_pMsg, msgs, fault, ready>>

\* gc_T: the destructor closes the connection and leaves the set; the manager leaks.
CollectSocket(a) ==
  /\ fault = "" /\ name[a] # NoName /\ a \notin refs
  /\ name' = [name EXCEPT ![a] = NoName]
  /\ made' = made \ {a} /\ ready' = ready \ {a}
  /\ sendList' = [sendList EXCEPT ![a] = <<>>] /\ recvList' = [recvList EXCEPT ![a] = <<>>]
  /\ msgs' = Freed(ToSet(sendList[a]) \cup ToSet(recvList[a]))
  /\ UNCHANGED <<refs, m_pMsg, fault, polite>>

\* Mutant: the messages are forgotten and not deleted.
ClearCachedLeaks(a) ==
  /\ made' = made \cup {a} /\ ready' = ready \ {a}
  /\ sendList' = [sendList EXCEPT ![a] = <<>>] /\ recvList' = [recvList EXCEPT ![a] = <<>>]
  /\ UNCHANGED <<name, refs, m_pMsg, msgs, fault>>

\* Restart, CloseConnection, ReConnectToServer and a second ConnectToServer clear both queues.
ClearCached(a) ==
  /\ made' = made \cup {a} /\ ready' = ready \ {a}
  /\ sendList' = [sendList EXCEPT ![a] = <<>>] /\ recvList' = [recvList EXCEPT ![a] = <<>>]
  /\ msgs' = Freed(ToSet(sendList[a]) \cup ToSet(recvList[a]))
  /\ UNCHANGED <<name, refs, m_pMsg, fault>>

\* The answer is that of the first message.
Says(a, yes) ==
  /\ made' = made \cup {a} /\ ready' = IF yes THEN ready \cup {a} ELSE ready \ {a}
  /\ UNCHANGED <<name, refs, sendList, recvList, m_pMsg, msgs, fault>>

\* Mutants: true for a message that is still arriving; true for an empty queue.
HasPendingMsgEarly(a) == Says(a, recvList[a] # <<>>)
HasPendingMsgAlways(a) == Says(a, recvList[a] # <<>> => msgs[Head(recvList[a])] = "sized")

HasPendingMsg(a) == Says(a, recvList[a] # <<>> /\ msgs[Head(recvList[a])] = "sized")

\* A method of an object, and a function of the table socketext: on the default socket.
Method(a) == a \in refs /\ Script(TRUE) /\ (ClearCached(a) \/ HasPendingMsg(a))

DefaultMethod ==
  LET found == GetSocketByName(Default)
  IN /\ Script(Live(Default) # {})
     /\ \/ \E a \in found : ClearCached(a) \/ HasPendingMsg(a)
        \/ found = {} /\ fault' = "null" /\ UNCHANGED <<name, refs, conns, m_pMsg, msgs, ready>>

-----------------------------------------------------------------------------
(* The queues: what Update does with them.                                 *)

(***************************************************************************)
(* The first message leaves.  One whose size was never set is sent for     *)
(* getSendCap() = 1 byte and then for 0 bytes, for ever.                   *)
(***************************************************************************)
UpdateSend(a) ==
  /\ fault = "" /\ a \in made /\ a \in refs /\ sendList[a] # <<>>
  /\ IF msgs[Head(sendList[a])] = "sized"
     THEN /\ msgs' = Freed({Head(sendList[a])})
          /\ sendList' = [sendList EXCEPT ![a] = Tail(@)]
          /\ fault' = fault
     ELSE fault' = "hang" /\ UNCHANGED <<msgs, sendList>>
  /\ UNCHANGED <<name, refs, made, recvList, m_pMsg, ready, polite>>

\* A header arrives, in a new message unless the last one is unfinished.
UpdateReceive(a) ==
  /\ fault = "" /\ a \in made /\ a \in refs
  /\ IF recvList[a] # <<>> /\ msgs[Last(recvList[a])] = "fresh"
     THEN msgs' = [msgs EXCEPT ![Last(recvList[a])] = "sized"] /\ recvList' = recvList
     ELSE /\ NewId <= MaxMsgs
          /\ msgs' = Append(msgs, "fresh")
          /\ recvList' = [recvList EXCEPT ![a] = Append(@, NewId)]
  /\ UNCHANGED <<name, refs, made, sendList, m_pMsg, fault, ready, polite>>

-----------------------------------------------------------------------------
(* CLuaMsg.                                                                *)

\* A message the handle already holds is lost.
CreateNewMessage(h) ==
  /\ NewId <= MaxMsgs /\ Script(m_pMsg[h] = Null)
  /\ msgs' = Append(msgs, "fresh") /\ m_pMsg' = [m_pMsg EXCEPT ![h] = NewId]
  /\ UNCHANGED <<name, refs, conns, fault, ready>>

\* BeginForWrite, the writes and EndForWrite.
Write(h) ==
  /\ Script(m_pMsg[h] # Null)
  /\ IF m_pMsg[h] = Null THEN fault' = "null" /\ UNCHANGED msgs
     ELSE fault' = fault /\ msgs' = [msgs EXCEPT ![m_pMsg[h]] = "sized"]
  /\ UNCHANGED <<name, refs, conns, m_pMsg, ready>>

\* GetSize and ReadRaw.
Read(h) ==
  /\ Script(m_pMsg[h] # Null)
  /\ fault' = IF m_pMsg[h] = Null THEN "null" ELSE fault
  /\ UNCHANGED <<name, refs, conns, m_pMsg, msgs, ready>>

(***************************************************************************)
(* The first message of the socket, finished or not; a socket that is not  *)
(* found and a queue that is empty both end in a null pointer.             *)
(***************************************************************************)
LoadMsg(h, n) ==
  LET found == GetSocketByName(n)
      mine == Live(n)
  IN /\ Script(m_pMsg[h] = Null /\ mine # {} /\ mine \subseteq ready)
     /\ IF found = {} \/ \E a \in found : recvList[a] = <<>>
        THEN /\ fault' = "null"
             /\ UNCHANGED <<name, refs, conns, m_pMsg, msgs, ready>>
        ELSE \E a \in found :
               /\ m_pMsg' = [m_pMsg EXCEPT ![h] = Head(recvList[a])]
               /\ recvList' = [recvList EXCEPT ![a] = Tail(@)]
               /\ made' = made \cup {a} /\ ready' = ready \ {a}
               /\ UNCHANGED <<name, refs, sendList, msgs, fault>>

\* Mutant: the handle keeps the message it sent.
SendMsgKeeps(h, n) ==
  LET found == GetSocketByName(n)
  IN /\ Script(Whole(h) /\ Live(n) # {})
     /\ \E a \in found :
          /\ m_pMsg[h] # Null /\ sendList' = [sendList EXCEPT ![a] = Append(@, m_pMsg[h])]
          /\ made' = made \cup {a} /\ UNCHANGED <<name, refs, recvList, m_pMsg, msgs, fault, ready>>

\* ResetForSend of a null message is a fault too.
SendMsg(h, n) ==
  LET found == GetSocketByName(n)
  IN /\ Script(Whole(h) /\ Live(n) # {})
     /\ IF found = {} \/ m_pMsg[h] = Null
        THEN fault' = "null" /\ UNCHANGED <<name, refs, conns, m_pMsg, msgs, ready>>
        ELSE \E a \in found :
               /\ sendList' = [sendList EXCEPT ![a] = Append(@, m_pMsg[h])]
               /\ m_pMsg' = [m_pMsg EXCEPT ![h] = Null] /\ made' = made \cup {a}
               /\ UNCHANGED <<name, refs, recvList, msgs, fault, ready>>

\* gc_T of the handle; a new handle may take its place.
CollectMsg(h) ==
  /\ fault = "" /\ m_pMsg[h] # Null
  /\ msgs' = Freed({m_pMsg[h]}) /\ m_pMsg' = [m_pMsg EXCEPT ![h] = Null]
  /\ UNCHANGED <<name, refs, conns, fault, ready, polite>>

Next ==
  \/ \E a \in Addr, n \in Names : NewSocket(a, n)
  \/ \E a \in Addr : DropSocket(a) \/ CollectSocket(a) \/ Method(a) \/ UpdateSend(a) \/ UpdateReceive(a)
  \/ DefaultMethod
  \/ \E h \in Handles : CreateNewMessage(h) \/ Write(h) \/ Read(h) \/ CollectMsg(h)
                        \/ \E n \in Names : LoadMsg(h, n) \/ SendMsg(h, n)

Spec == Init /\ [][Next]_vars

-----------------------------------------------------------------------------
(* Properties.                                                             *)

Places(i) ==
  {<<"handle", h>> : h \in {x \in Handles : m_pMsg[x] = i}}
  \cup {<<"send", a>> : a \in {x \in Addr : i \in ToSet(sendList[x])}}
  \cup {<<"recv", a>> : a \in {x \in Addr : i \in ToSet(recvList[x])}}

(***************************************************************************)
(* Whatever the script does, a message has one owner, the handle or one    *)
(* queue, and none once it is deleted: no destructor frees it twice and no *)
(* queue holds a dangling pointer.                                         *)
(***************************************************************************)
OneOwner ==
  \A i \in DOMAIN msgs :
    /\ Cardinality(Places(i)) <= 1
    /\ msgs[i] = "freed" => Places(i) = {}
    /\ \A a \in Addr : Cardinality({j \in DOMAIN sendList[a] : sendList[a][j] = i}) <= 1

(***************************************************************************)
(* Update never spins on the messages of a script that keeps to the        *)
(* protocol, however network, garbage collection and the reuse of          *)
(* addresses interleave with it, and one thing only brings the program     *)
(* down: CLuaMsg finds sockets by name (eng_socket.cpp 92), and the name   *)
(* of a live object finds a dropped one at a lesser address.               *)
(***************************************************************************)
HiddenOrFine == fault = "" \/ (fault = "null" /\ \E n \in Names : Hidden(n))
PoliteIsSafe == polite => HiddenOrFine

\* Nor is any of its messages lost: each is in a handle or a queue until it is deleted.
NothingLost == polite => \A i \in DOMAIN msgs : msgs[i] = "freed" \/ Places(i) # {}

(***************************************************************************)
(* It only ever loads messages that have arrived completely, so that       *)
(* framing stays aligned, unless a dropped object hides the one it asked.  *)
(***************************************************************************)
LoadsWholeMessages ==
  [][\A h \in Handles, n \in Names :
       LoadMsg(h, n) /\ polite' /\ ~Hidden(n) /\ m_pMsg'[h] # m_pMsg[h]
         => msgs[m_pMsg'[h]] = "sized"]_vars
=============================================================================
