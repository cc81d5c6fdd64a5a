------------------------------ MODULE MCScript -------------------------------
(***************************************************************************)
(* One run for what a script meets: sockets and messages (SocketApi) and   *)
(* the userdata that own C++ objects (LuaClasses).  part says which of     *)
(* them a behaviour is of; the other stays in its initial state.  Two      *)
(* addresses, two class names, two message handles, three messages.        *)
(***************************************************************************)
EXTENDS SocketApi, LuaClassesState

VARIABLE part

MCAddr == {1, 2}
MCNames == {"defaultSocket", "chat"}
MCHandles == {"h1", "h2"}

Userdata == INSTANCE LuaClasses WITH Classes <- {"SocketA", "SocketB"}, MaxNew <- 4
ASSUME Userdata!ClassesConstants

-----------------------------------------------------------------------------
(* The run.                                                                *)
udVars == <<registered, object, ud, lookup, reachable, tmudata, nullCall>>
suiteVars == <<part, udVars, vars>>

SuiteInit == part \in {"sockets", "userdata"} /\ Init /\ Userdata!Init
SuiteNext ==
  \/ part = "sockets" /\ Next /\ UNCHANGED <<part, udVars>>
  \/ part = "userdata" /\ Userdata!Next /\ UNCHANGED <<part, vars>>
SuiteSpec == SuiteInit /\ [][SuiteNext]_suiteVars /\ Userdata!Fairness

\* An object whose userdata is dropped is deleted in the end.
DroppedIsDeleted == Userdata!DroppedIsDeleted
=============================================================================
