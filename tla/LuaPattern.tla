----------------------------- MODULE LuaPattern ------------------------------
(***************************************************************************)
(* Pattern matching in lstrlib.c: the backtracking matcher with its        *)
(* captures, and the loops of find, match, gmatch and gsub over a subject. *)
(* A text is a sequence of characters, and positions count from 1; NUL is  *)
(* what lies at the end.  A result of the matcher has ms, the captures     *)
(* after it (a match that fails must undo its own), s, the position after  *)
(* the match or 0 for NULL, and err.                                       *)
(***************************************************************************)
EXTENDS Integers, Sequences, SequencesExt, FiniteSetsExt, TLC

CONSTANTS
  Tasks,            \* [op, src, pat, init, repl, max_s]: the calls that are made
  Code,             \* the codes of the characters
  Classes,          \* the members of the classes %a, %d ... by their lower case letter
  LUA_MAXCAPTURES,
  Match(_, _, _, _) \* match(ms, s, p) on a subject and a pattern

VARIABLES
  task,     \* the call
  pos,      \* where the next attempt is made
  n,        \* the substitutions or matches so far
  out,      \* gsub: the buffer; otherwise the matches: <<start, end, captures>>
  status    \* "busy", "done" or "error"

vars == <<task, pos, n, out, status>>

NUL == "NUL"
CAP_UNFINISHED == -1
CAP_POSITION == -2
Digits == {"1", "2"}
At(t, i) == IF i \in DOMAIN t THEN t[i] ELSE NUL
From(t, i) == SubSeq(t, i, Len(t))

Null(ms) == [ms |-> ms, s |-> 0, err |-> FALSE]
Found(ms, s) == [ms |-> ms, s |-> s, err |-> FALSE]
Error(ms) == [ms |-> ms, s |-> 0, err |-> TRUE]

-----------------------------------------------------------------------------
(* Classes.                                                                *)

\* The first position after a set whose members begin at i, 0 if it is not closed.
RECURSIVE setend(_, _)
setend(p, i) ==
  LET next == IF At(p, i) = "%" /\ At(p, i + 1) # NUL THEN i + 2 ELSE i + 1
  IN IF At(p, i) = NUL THEN 0 ELSE IF At(p, next) = "]" THEN next + 1 ELSE setend(p, next)

\* Where the single character class at i ends, 0 for a malformed one.
classend(p, i) ==
  CASE At(p, i) = "%" -> IF At(p, i + 1) = NUL THEN 0 ELSE i + 2
    [] At(p, i) = "[" -> setend(p, IF At(p, i + 1) = "^" THEN i + 2 ELSE i + 1)
    [] OTHER -> i + 1

match_class(c, cl) ==
  IF cl \in DOMAIN Classes THEN (c \in Classes[cl].is) = Classes[cl].lower ELSE cl = c

\* Some member of the set between i and the bracket at ec is c.
RECURSIVE inset(_, _, _, _)
inset(c, p, i, ec) ==
  IF i >= ec THEN FALSE
  ELSE IF p[i] = "%" THEN match_class(c, At(p, i + 1)) \/ inset(c, p, i + 2, ec)
  ELSE IF At(p, i + 1) = "-" /\ i + 2 < ec
       THEN (Code[p[i]] <= Code[c] /\ Code[c] <= Code[p[i + 2]]) \/ inset(c, p, i + 3, ec)
  ELSE p[i] = c \/ inset(c, p, i + 1, ec)

matchbracketclass(c, p, i, ec) ==
  IF p[i + 1] = "^" THEN ~inset(c, p, i + 2, ec) ELSE inset(c, p, i + 1, ec)

\* Mutant: the closing bracket is taken for a member of the set.
singlematchBracket(c, p, i, ep) ==
  CASE p[i] = "." -> TRUE
    [] p[i] = "%" -> match_class(c, p[i + 1])
    [] p[i] = "[" -> matchbracketclass(c, p, i, ep)
    [] OTHER -> p[i] = c

singlematch(c, p, i, ep) ==
  CASE p[i] = "." -> TRUE
    [] p[i] = "%" -> match_class(c, p[i + 1])
    [] p[i] = "[" -> matchbracketclass(c, p, i, ep - 1)
    [] OTHER -> p[i] = c

-----------------------------------------------------------------------------
(* The matcher.  t is the subject, p the pattern from position i on.       *)

check_capture(ms, l) == l \in DOMAIN ms /\ ms[l].len # CAP_UNFINISHED
capture_to_close(ms) == Max({0} \cup {l \in DOMAIN ms : ms[l].len = CAP_UNFINISHED})

\* The position after the text from s on in which b and e are balanced, 0 if there is none.
matchbalance(t, s, b, e) ==
  LET open[j \in s - 1 .. Len(t)] ==
        IF j < s THEN 0 ELSE open[j - 1] + (IF t[j] = e /\ j > s THEN -1 ELSE IF t[j] = b THEN 1 ELSE 0)
      ends == {j \in s + 1 .. Len(t) : open[j] = 0}
  IN IF At(t, s) # b \/ ends = {} THEN 0 ELSE Min(ends) + 1

frontier(t, s, p, i, ep) ==
  ~matchbracketclass(At(t, s - 1), p, i, ep - 1) /\ matchbracketclass(At(t, s), p, i, ep - 1)

RECURSIVE match(_, _, _, _, _), max_expand(_, _, _, _, _, _, _), min_expand(_, _, _, _, _, _)

start_capture(t, ms, s, p, i, what) ==
  LET r == match(t, Append(ms, [init |-> s, len |-> what]), s, p, i)
  IN IF Len(ms) >= LUA_MAXCAPTURES THEN Error(ms)
     ELSE IF r.s = 0 THEN [r EXCEPT !.ms = IF @ = <<>> THEN @ ELSE Front(@)] ELSE r

end_capture(t, ms, s, p, i) ==
  LET l == capture_to_close(ms)
      r == match(t, [ms EXCEPT ![l].len = s - ms[l].init], s, p, i)
  IN IF l = 0 THEN Error(ms)
     ELSE IF r.s = 0 THEN [r EXCEPT !.ms[l].len = CAP_UNFINISHED] ELSE r

\* The position after the text of capture l, repeated at s; 0 if it is not there.
match_capture(t, ms, s, l) ==
  LET len == ms[l].len
  IN IF len >= 0 /\ Len(t) + 1 - s >= len /\ SubSeq(t, ms[l].init, ms[l].init + len - 1) = SubSeq(t, s, s + len - 1)
     THEN s + len ELSE 0

Digit(c) == IF c = "1" THEN 1 ELSE 2

\* An item and its suffix.
matchitem(t, ms, s, p, i) ==
  LET ep == classend(p, i)
      m == s <= Len(t) /\ singlematch(t[s], p, i, ep)
      more(r) == IF r.s # 0 \/ r.err THEN r ELSE match(t, r.ms, s, p, ep + 1)
  IN IF ep = 0 THEN Error(ms)
     ELSE CASE At(p, ep) = "?" -> more(IF m THEN match(t, ms, s + 1, p, ep + 1) ELSE Null(ms))
            [] At(p, ep) = "*" -> max_expand(t, ms, s, p, i, ep, 0)
            [] At(p, ep) = "+" -> IF m THEN max_expand(t, ms, s + 1, p, i, ep, 0) ELSE Null(ms)
            [] At(p, ep) = "-" -> min_expand(t, ms, s, p, i, ep)
            [] OTHER -> IF m THEN match(t, ms, s + 1, p, ep) ELSE Null(ms)

\* k repetitions are counted upwards, and the rest is tried from the most to the fewest.
max_expand(t, ms, s, p, i, ep, k) ==
  LET longer == IF s + k <= Len(t) /\ singlematch(t[s + k], p, i, ep)
                THEN max_expand(t, ms, s, p, i, ep, k + 1) ELSE Null(ms)
  IN IF longer.s # 0 \/ longer.err THEN longer ELSE match(t, longer.ms, s + k, p, ep + 1)

min_expand(t, ms, s, p, i, ep) ==
  LET r == match(t, ms, s, p, ep + 1)
  IN IF r.s # 0 \/ r.err THEN r
     ELSE IF s <= Len(t) /\ singlematch(t[s], p, i, ep) THEN min_expand(t, r.ms, s + 1, p, i, ep)
     ELSE Null(r.ms)

match(t, ms, s, p, i) ==
  LET c == At(p, i)
      d == At(p, i + 1)
      on(e, j) == IF e = 0 THEN Null(ms) ELSE match(t, ms, e, p, j)
  IN CASE c = "(" -> IF d = ")" THEN start_capture(t, ms, s, p, i + 2, CAP_POSITION)
                     ELSE start_capture(t, ms, s, p, i + 1, CAP_UNFINISHED)
       [] c = ")" -> end_capture(t, ms, s, p, i + 1)
       [] c = "%" /\ d = "b" -> IF At(p, i + 3) = NUL THEN Error(ms)
                                ELSE on(matchbalance(t, s, p[i + 2], p[i + 3]), i + 4)
       [] c = "%" /\ d = "f" -> LET ep == classend(p, i + 2)
                                IN IF At(p, i + 2) # "[" \/ ep = 0 THEN Error(ms)
                                   ELSE on(IF frontier(t, s, p, i + 2, ep) THEN s ELSE 0, ep)
       [] c = "%" /\ d \in Digits -> IF check_capture(ms, Digit(d)) THEN on(match_capture(t, ms, s, Digit(d)), i + 2)
                                     ELSE Error(ms)
       [] c = NUL -> Found(ms, s)
       [] c = "$" /\ d = NUL -> IF s = Len(t) + 1 THEN Found(ms, s) ELSE Null(ms)
       [] OTHER -> matchitem(t, ms, s, p, i)

-----------------------------------------------------------------------------
(* The library functions.                                                  *)

\* What a capture gives the caller: the whole match when there is none, a position by its
\* numeral; <<>> is an error.
push_onecapture(t, ms, l, s, e) ==
  IF l \notin DOMAIN ms THEN IF l = 1 THEN <<SubSeq(t, s, e - 1)>> ELSE <<>>
  ELSE IF ms[l].len = CAP_UNFINISHED THEN <<>>
  ELSE IF ms[l].len = CAP_POSITION THEN <<<<ToString(ms[l].init)>>>>
  ELSE <<SubSeq(t, ms[l].init, ms[l].init + ms[l].len - 1)>>

\* All captures, <<>> if one of them is unfinished.
push_captures(t, ms, s, e) ==
  LET levels == IF ms = <<>> THEN 1 ELSE Len(ms)
      all == [l \in 1 .. levels |-> push_onecapture(t, ms, l, s, e)]
  IN IF \E l \in 1 .. levels : all[l] = <<>> THEN <<>> ELSE <<[l \in 1 .. levels |-> all[l][1]]>>

anchor(k) == k.op # "gmatch" /\ At(k.pat, 1) = "^"
start(k) == IF anchor(k) THEN 2 ELSE 1

\* A negative position counts from the end.
posrelat(p, len) == Max({0, IF p < 0 THEN p + len + 1 ELSE p})

First(k) == IF k.op \in {"find", "plain"} THEN Max({1, Min({posrelat(k.init, Len(k.src)), Len(k.src) + 1})}) ELSE 1

Init == task \in Tasks /\ pos = First(task) /\ n = 0 /\ out = <<>> /\ status = "busy"

Attempt == Match(task.src, pos, task.pat, start(task))
Attempting == status = "busy" /\ pos <= Len(task.src) + 1
Stop(how) == status' = how /\ UNCHANGED <<pos, n, out>>

\* Looks for the first character of p and compares the others; 0 for NULL.
RECURSIVE lmemfind(_, _, _)
lmemfind(t, s, p) ==
  LET heads == {i \in s .. Len(t) + 1 - Len(p) : t[i] = p[1]}
      init == Min(heads)
  IN IF p = <<>> THEN s
     ELSE IF heads = {} THEN 0
     ELSE IF SubSeq(t, init + 1, init + Len(p) - 1) = Tail(p) THEN init
     ELSE lmemfind(t, init + 1, p)

\* str_find_aux for a pattern without special characters, or when asked to.
PlainFind ==
  /\ task.op = "plain" /\ status' = "done" /\ UNCHANGED <<pos, n>>
  /\ LET at == lmemfind(task.src, pos, task.pat)
     IN out' = IF at = 0 THEN out ELSE <<<<at, at + Len(task.pat)>>>>

\* str_find_aux: one attempt of the loop.
Captures(r) == push_captures(task.src, r.ms, pos, r.s)
str_find_aux(r) ==
  /\ task.op = "find"
  /\ IF r.err THEN Stop("error")
     ELSE IF r.s # 0 /\ Captures(r) = <<>> THEN Stop("error")
     ELSE IF r.s # 0
     THEN out' = Append(out, <<pos, r.s, Captures(r)[1]>>) /\ status' = "done" /\ n' = n + 1 /\ UNCHANGED pos
     ELSE IF pos <= Len(task.src) /\ ~anchor(task) THEN pos' = pos + 1 /\ UNCHANGED <<n, out, status>>
     ELSE Stop("done")

\* An empty match goes at least one position.
Newstart(s, e) == IF e = s THEN e + 1 ELSE e

\* gmatch_aux: one attempt; a match ends a call of the iterator, and the next begins after it.
gmatch_aux(r) ==
  /\ task.op = "gmatch"
  /\ IF pos > Len(task.src) + 1 THEN Stop("done")
     ELSE IF r.err \/ (r.s # 0 /\ Captures(r) = <<>>) THEN Stop("error")
     ELSE IF r.s # 0
     THEN out' = Append(out, <<pos, r.s, Captures(r)[1]>>) /\ pos' = Newstart(pos, r.s) /\ n' = n + 1 /\ UNCHANGED status
     ELSE pos' = pos + 1 /\ UNCHANGED <<n, out, status>>

\* add_s: %0 is the match, %1 a capture, %x the character; <<>> is an error.
RECURSIVE add_s(_, _, _, _)
add_s(r, news, i, b) ==
  LET c == At(news, i + 1)
      cap == push_onecapture(task.src, r.ms, Digit(c), pos, r.s)
  IN IF i > Len(news) THEN <<b>>
     ELSE IF news[i] # "%" THEN add_s(r, news, i + 1, Append(b, news[i]))
     ELSE IF c = "0" THEN add_s(r, news, i + 2, b \o SubSeq(task.src, pos, r.s - 1))
     ELSE IF c \notin Digits THEN add_s(r, news, i + 2, Append(b, c))
     ELSE IF cap = <<>> THEN <<>> ELSE add_s(r, news, i + 2, b \o cap[1])

\* A function or a table may answer false, which keeps the text, or something that is no string.
Answers(r, b) == {<<b \o SubSeq(task.src, pos, r.s - 1)>>, <<Append(b, "x")>>, <<>>}

\* A function gets all captures, a table is asked for the first.
add_value(r, b) ==
  CASE task.repl.kind = "string" -> {add_s(r, task.repl.text, 1, b)}
    [] task.repl.kind = "function" ->
         IF Captures(r) = <<>> THEN {<<>>} ELSE Answers(r, b)
    [] task.repl.kind = "table" ->
         IF push_onecapture(task.src, r.ms, 1, pos, r.s) = <<>> THEN {<<>>} ELSE Answers(r, b)

\* Where gsub goes on, and the character it copies when the match was empty or failed.
Skipped(r) == IF r.s > pos THEN <<r.s, <<>>>> ELSE <<pos + 1, <<At(task.src, pos)>>>>

\* str_gsub: one round of its loop; the rest of the subject is added at the end.
str_gsub(r) ==
  /\ task.op = "gsub"
  /\ IF n >= task.max_s
     THEN out' = out \o From(task.src, pos) /\ status' = "done" /\ UNCHANGED <<pos, n>>
     ELSE \E b \in (IF r.err THEN {<<>>} ELSE IF r.s = 0 THEN {<<out>>} ELSE add_value(r, out)) :
            IF b = <<>> THEN Stop("error")
            ELSE /\ n' = IF r.s = 0 THEN n ELSE n + 1
                 /\ IF r.s > pos \/ pos <= Len(task.src)
                    THEN LET k == Skipped(r)
                             rest == IF anchor(task) THEN From(task.src, k[1]) ELSE <<>>
                         IN /\ pos' = k[1] /\ out' = b[1] \o k[2] \o rest
                            /\ status' = IF anchor(task) THEN "done" ELSE "busy"
                    ELSE out' = b[1] /\ status' = "done" /\ UNCHANGED pos

Next ==
  /\ status = "busy" /\ UNCHANGED task
  /\ PlainFind \/ str_find_aux(Attempt) \/ gmatch_aux(Attempt) \/ str_gsub(Attempt)

Spec == Init /\ [][Next]_vars

-----------------------------------------------------------------------------
(* Properties.                                                             *)

\* A failed attempt has undone all its captures: the next one starts from none.
UndoRestores == Attempting /\ ~Attempt.err /\ Attempt.s = 0 => Attempt.ms = <<>>

\* The captures of a match lie inside the match, which lies inside the subject.
CapturesInside ==
  Attempting /\ Attempt.s # 0 =>
    /\ Attempt.s \in pos .. Len(task.src) + 1
    /\ \A l \in DOMAIN Attempt.ms :
         LET c == Attempt.ms[l] IN pos <= c.init /\ c.init + Max({0, c.len}) <= Attempt.s

\* Every round makes progress, also after an empty match: there are at most
\* as many matches as places.
MatchesBounded == n <= Len(task.src) + 1

\* What gsub does not replace it copies: replacing matches by themselves gives the subject.
SubstitutionKeepsText ==
  task.op = "gsub" /\ task.repl = [kind |-> "string", text |-> <<"%", "0">>] /\ status = "done" => out = task.src
=============================================================================
