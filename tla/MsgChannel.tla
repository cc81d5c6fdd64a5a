----------------------------- MODULE MsgChannel -----------------------------
(***************************************************************************)
(* What one direction of a connection promises to the two scripts at its   *)
(* ends: messages are loaded in the order in which they were sent, each    *)
(* one whole, unchanged and at most once.                                  *)
(***************************************************************************)
EXTENDS Naturals, Sequences

CONSTANT Payload   \* the byte strings a script may send

VARIABLES sent, loaded

Init == sent = <<>> /\ loaded = <<>>

Send(p) == sent' = Append(sent, p) /\ UNCHANGED loaded

Load ==
  /\ Len(loaded) < Len(sent)
  /\ loaded' = Append(loaded, sent[Len(loaded) + 1])
  /\ UNCHANGED sent

Next == (\E p \in Payload : Send(p)) \/ Load

Spec == Init /\ [][Next]_<<sent, loaded>>
=============================================================================
