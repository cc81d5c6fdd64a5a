--------------------------- MODULE PatternMeaning ----------------------------
(***************************************************************************)
(* What a pattern means, as the manual has it: the list of all ways to     *)
(* match a sequence of items, the preferred one first.  An item has txt,   *)
(* its text, and t:                                                        *)
(*   class  set, the characters it stands for, and q, its suffix           *)
(*   open, close, position  the parentheses of captures                    *)
(*   balance b e, frontier set, ref l, eos                                 *)
(***************************************************************************)
EXTENDS LuaPattern

CONSTANT Meaning(_, _, _)   \* Ways on a subject, from a position, of the items

TextOf(items) == FlattenSeq([i \in DOMAIN items |-> items[i].txt])

Concat(ss) == FlattenSeq(ss)
UpTo(k) == [i \in 1 .. k + 1 |-> i - 1]

RECURSIVE Ways(_, _, _, _)
Ways(t, items, s, caps) ==
  IF items = <<>> THEN <<[e |-> s, caps |-> caps]>>
  ELSE
  LET it == Head(items)
      rest(e, c) == Ways(t, Tail(items), e, c)
      run == CHOOSE k \in 0 .. Len(t) + 1 - s :
               /\ \A j \in 0 .. k - 1 : t[s + j] \in it.set
               /\ s + k = Len(t) + 1 \/ t[s + k] \notin it.set
      tries(ks) == Concat([i \in DOMAIN ks |-> rest(s + ks[i], caps)])
      unfinished == Max({0} \cup {l \in DOMAIN caps : caps[l].len = CAP_UNFINISHED})
      Count(c, e) == Cardinality({j \in s .. e : t[j] = c})
      balanced == {e \in s + 1 .. Len(t) : Count(it.b, e) = Count(it.e, e)}
      word == SubSeq(t, caps[it.l].init, caps[it.l].init + caps[it.l].len - 1)
  IN CASE it.t = "class" ->
            (CASE it.q = "" -> IF run = 0 THEN <<>> ELSE rest(s + 1, caps)
               [] it.q = "?" -> tries(IF run = 0 THEN <<0>> ELSE <<1, 0>>)
               [] it.q = "*" -> tries(Reverse(UpTo(run)))
               [] it.q = "+" -> tries(Front(Reverse(UpTo(run))))
               [] it.q = "-" -> tries(UpTo(run)))
       [] it.t = "open" -> rest(s, Append(caps, [init |-> s, len |-> CAP_UNFINISHED]))
       [] it.t = "close" -> rest(s, [caps EXCEPT ![unfinished].len = s - caps[unfinished].init])
       [] it.t = "position" -> rest(s, Append(caps, [init |-> s, len |-> CAP_POSITION]))
       [] it.t = "balance" -> IF At(t, s) # it.b \/ balanced = {} THEN <<>> ELSE rest(Min(balanced) + 1, caps)
       [] it.t = "frontier" -> IF At(t, s - 1) \notin it.set /\ At(t, s) \in it.set THEN rest(s, caps) ELSE <<>>
       [] it.t = "ref" -> IF IsPrefix(word, From(t, s)) THEN rest(s + Len(word), caps) ELSE <<>>
       [] it.t = "eos" -> IF s = Len(t) + 1 THEN rest(s, caps) ELSE <<>>

\* Captures are closed inside out, and a reference is to a closed one.
WellFormed(items) ==
  /\ \A i \in DOMAIN items : items[i].t = "eos" => i = Len(items)
  /\ \A i \in DOMAIN items :
       LET opened == {j \in 1 .. i : items[j].t = "open"}
           closed == {j \in 1 .. i : items[j].t = "close"}
       IN /\ Cardinality(closed) <= Cardinality(opened)
          /\ items[i].t = "ref" => opened # {} /\ Cardinality(closed) = Cardinality(opened)
  /\ Cardinality({j \in DOMAIN items : items[j].t = "open"}) = Cardinality({j \in DOMAIN items : items[j].t = "close"})
  /\ Cardinality({j \in DOMAIN items : items[j].t \in {"open", "position"}}) <= LUA_MAXCAPTURES
  /\ \A i, j \in DOMAIN items : items[i].t = "ref" /\ items[j].t = "position" => i < j

(***************************************************************************)
(* Where a match is attempted, match finds the preferred way there is, or  *)
(* none, and with the same captures.                                       *)
(***************************************************************************)
MatchIsPreferred ==
  Attempting /\ task.items # <<>> =>
    LET r == Attempt
        w == Meaning(task.src, pos, task.items)
    IN ~r.err /\ (IF w = <<>> THEN r.s = 0 ELSE r.s = w[1].e /\ r.ms = w[1].caps)

\* A plain search finds the first place where the text is, from where it was told to begin.
PlainFindsFirst ==
  task.op = "plain" /\ status = "done" =>
    LET places == {s \in pos .. Len(task.src) + 1 : Meaning(task.src, s, task.items) # <<>>}
    IN out = IF places = {} THEN <<>> ELSE <<<<Min(places), Min(places) + Len(task.pat)>>>>
=============================================================================
