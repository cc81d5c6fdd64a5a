------------------------------- MODULE LuaMap --------------------------------
(* What a Lua table is to a program: a function from keys to values.       *)
CONSTANTS Keys, Values, nil
VARIABLE m

Init == m = [k \in Keys |-> nil]
Set(k, v) == m' = [m EXCEPT ![k] = v]
Next == \E k \in Keys, v \in Values \cup {nil} : Set(k, v)
Spec == Init /\ [][Next]_m
=============================================================================
