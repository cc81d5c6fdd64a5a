------------------------------ MODULE MCLuaData ------------------------------
(***************************************************************************)
(* One run for the three parts of the Lua library that work on tables and  *)
(* strings: tables (LuaTable), table.insert, remove and sort (LuaTableLib) *)
(* and patterns (LuaPattern).  part says which of them a behaviour is of;  *)
(* the others stay in an initial state.                                    *)
(***************************************************************************)
EXTENDS PatternMeaning

CONSTANT str
VARIABLES part, tab, walk, content, grown, arr, list, srt

-----------------------------------------------------------------------------
(* Tables: four integers and a string, with collisions in every size.      *)
TableHash == (1 :> 1) @@ (2 :> 2) @@ (3 :> 4) @@ (4 :> 5) @@ (str :> 1)
TableSizes == {<<0, 0>>, <<2, 1>>, <<0, 4>>}
Table == INSTANCE LuaTable WITH t <- tab, Ints <- 1 .. 4, Strings <- {str}, Others <- {}, Hash <- TableHash,
                                Values <- {1}, Sizes <- TableSizes, MAX_INT <- 3
ASSUME Table!TableConstants

(* Lists of up to five elements.                                           *)
Lib == INSTANCE LuaTableLib WITH a <- arr, s <- srt, N <- 5, Values <- {1, 2}
ASSUME Lib!TableLibConstants

-----------------------------------------------------------------------------
(* All well-formed patterns of up to three items, on a few subjects, and   *)
(* some malformed ones.                                                    *)

Chars == {"a", "b", "1", "-", "]", "x"}
MCCode == [c \in {"NUL", "1", "a", "b", "x", "-", "]"} |->
            CASE c = "NUL" -> 0 [] c = "-" -> 45 [] c = "1" -> 49 [] c = "]" -> 93 [] c = "a" -> 97 [] c = "b" -> 98 [] c = "x" -> 120]
MCClasses ==
  [c \in {"a", "A", "d"} |-> [lower |-> c # "A", is |-> IF c = "d" THEN {"1"} ELSE {"a", "b", "x"}]]

All == Chars \cup {NUL}
Class(txt, set, q) == [t |-> "class", txt |-> IF q = "" THEN txt ELSE Append(txt, q), set |-> set, q |-> q]
Repetitions == {"", "?", "*", "+", "-"}
Items ==
  {Class(<<"a">>, {"a"}, q) : q \in Repetitions} \cup {Class(<<".">>, All, q) : q \in {"", "*", "-"}}
  \cup {Class(<<"%", "A">>, All \ {"a", "b", "x"}, ""), Class(<<"[", "^", "a", "]">>, All \ {"a"}, "*"),
        Class(<<"[", "]", "a", "-", "b", "]">>, {"]", "a", "b"}, "+")}
  \cup {[t |-> "open", txt |-> <<"(">>], [t |-> "close", txt |-> <<")">>], [t |-> "position", txt |-> <<"(", ")">>],
        [t |-> "balance", txt |-> <<"%", "b", "a", "b">>, b |-> "a", e |-> "b"],
        [t |-> "frontier", txt |-> <<"%", "f", "[", "%", "a", "]">>, set |-> {"a", "b", "x"}],
        [t |-> "ref", txt |-> <<"%", "1">>, l |-> 1], [t |-> "eos", txt |-> <<"$">>]}

Opens == {it \in Items : it.t = "open"}
Closes == {it \in Items : it.t = "close"}
Rest == Items \ (Opens \cup Closes)
Shapes ==
  {<<x>> : x \in Rest} \cup (Rest \X Rest) \cup {<<o, x, c, y>> : o \in Opens, x \in Rest, c \in Closes, y \in Rest}
  \cup {<<o, x, p, y, c, c, z>> : o \in Opens, x \in {it \in Rest : it.t = "class"}, p \in Opens,
                              y \in {it \in Rest : it.t = "class"}, c \in Closes, z \in {it \in Rest : it.t \in {"ref", "eos"}}}
Patterns == {p \in Shapes : WellFormed(p)}

Subjects == {<<>>, <<"a", "b">>, <<"a", "a", "b", "b">>, <<"a", "]", "1", "a">>}
None == [kind |-> "string", text |-> <<>>]
Task(op, t, items, pat, repl, max) ==
  [op |-> op, src |-> t, items |-> items, pat |-> pat, init |-> 1, repl |-> repl, max_s |-> max]
Plain == {<<>>, <<"a">>, <<"a", "b">>, <<"b", "b">>, <<"a", "a", "b">>}
Malformed ==
  {<<"(", "a">>, <<"a", ")">>, <<"%">>, <<"[", "a">>, <<"[", "%">>, <<"%", "b", "a">>, <<"%", "f", "a">>, <<"%", "1">>,
   <<"(", "%", "1", ")">>, <<"(", "(", "(", ")", ")", ")">>, <<"^", "a">>, <<"^", "b">>, <<"a", "$", "b">>, <<"(", ")", "%", "1">>}
Repls ==
  {[kind |-> "string", text |-> <<"%", "0">>], [kind |-> "string", text |-> <<"x", "%", "1", "%", "x">>],
   [kind |-> "string", text |-> <<"%", "2">>], [kind |-> "function", text |-> <<>>], [kind |-> "table", text |-> <<>>]}
MCTasks ==
  {Task("gmatch", t, p, TextOf(p), None, 0) : t \in Subjects, p \in Patterns}
  \cup {Task(op, t, <<>>, p, None, 0) : op \in {"find", "gmatch"}, t \in Subjects, p \in Malformed}
  \cup {[Task("plain", t, [k \in DOMAIN p |-> Class(<<p[k]>>, {p[k]}, "")], p, None, 0) EXCEPT !.init = i] :
          t \in Subjects, p \in Plain, i \in {-2, 0, 1, 2, 9}}
  \cup {[Task("find", t, p, TextOf(p), None, 0) EXCEPT !.init = i] :
          t \in Subjects, p \in {x \in Patterns : Len(x) = 2}, i \in {-2, 2, 9}}
  \cup {Task("gsub", t, <<>>, p, repl, max) : t \in Subjects, repl \in Repls, max \in {0, 1, 5},
          p \in Malformed \cup {TextOf(x) : x \in {y \in Patterns : Len(y) = 1}} \cup {<<"(", "a", "?", ")", "(", ")">>, <<"(", ".", ")">>}}

MCMatch(t, s, p, i) == LET r == match(t, <<>>, s, p, i) IN r
MCMeaning(t, s, items) == LET w == Ways(t, items, s, <<>>) IN w

-----------------------------------------------------------------------------
(* The run.                                                                *)
tableVars == <<tab, walk, content, grown>>
listVars == <<arr, list, srt>>
suiteVars == <<part, tableVars, listVars, vars>>

IdleTask == CHOOSE x \in Tasks : TRUE
SuiteInit ==
  /\ part \in {"tables", "lists", "patterns"}
  /\ Table!Init /\ (part # "tables" => tab = Table!luaH_new(0, 0))
  /\ Lib!Init
  /\ IF part = "patterns" THEN Init ELSE Init /\ task = IdleTask
SuiteNext ==
  \/ part = "tables" /\ Table!Next /\ UNCHANGED <<part, listVars, vars>>
  \/ part = "lists" /\ Lib!Next /\ UNCHANGED <<part, tableVars, vars>>
  \/ part = "patterns" /\ Next /\ UNCHANGED <<part, tableVars, listVars>>
SuiteSpec == SuiteInit /\ [][SuiteNext]_suiteVars /\ Lib!Fairness

(***************************************************************************)
(* Tables: every entry is found where its key leads, a rehash makes room   *)
(* and leaves the best array part, the length is a border, and a traversal *)
(* gives every key once whatever is cleared and collected meanwhile.       *)
(***************************************************************************)
TablesAreSound ==
  /\ Table!EveryEntryFound /\ Table!RehashMakesRoom /\ Table!ArrayIsOptimal
  /\ Table!LengthIsBorder /\ Table!TraversalComplete

\* A table refines a map: only an assignment changes what luaH_get finds.
TablesAreMaps == Table!IsAMap

(***************************************************************************)
(* Lists: insert and remove keep the list, sort permutes it and, with a    *)
(* real order, sorts it; with any other its scans stop and its recursion   *)
(* stays logarithmic.                                                      *)
(***************************************************************************)
ListsAreSound ==
  /\ Lib!IsTheList /\ Lib!ElementsKept /\ Lib!LoopInvariant /\ Lib!Sorted
  /\ Lib!ScansStop /\ Lib!DepthLogarithmic

\* sort with a real order returns.
SortTerminates == Lib!Terminates

(***************************************************************************)
(* Patterns: an attempt finds the preferred match that the manual gives    *)
(* the pattern, captures lie inside it, failed attempts undo theirs, plain *)
(* searches find the first place, and gsub copies what it does not replace.*)
(***************************************************************************)
PatternsAreSound ==
  part = "patterns" =>
    CapturesInside /\ MatchIsPreferred /\ PlainFindsFirst /\ UndoRestores /\ SubstitutionKeepsText /\ MatchesBounded
=============================================================================
