------------------------------- MODULE LuaRead -------------------------------
(***************************************************************************)
(* file:read: what g_read of liolib.c makes of a file for a list of        *)
(* formats.  Lines come through a C string buffer of LUAL_BUFFERSIZE, in   *)
(* which a zero byte ends the string; counts come block by block.  The     *)
(* device may fail at any character of any read, and what fscanf makes of  *)
(* a malformed number is left to the C library.                            *)
(***************************************************************************)
EXTENDS Naturals, Sequences, SequencesExt, FiniteSetsExt

CONSTANTS
  Chars,              \* the characters a file is made of
  MaxLength,          \* the longest file
  Counts,             \* the counts that are read
  LUAL_BUFFERSIZE

ReadConstants == Chars \subseteq {0, 2, 3, 4, 10} /\ LUAL_BUFFERSIZE \in Nat \ {0, 1}

VARIABLES
  content,    \* the file
  pos,        \* the characters consumed
  asked,      \* the formats of the last read
  results,    \* its results
  marks       \* history: pos before it and after each of its formats

vars == <<content, pos, asked, results, marks>>

\* Characters: the zero byte, a digit, a sign, the letter e, the end of a line.
Zero == 0
Digit == 2
Sign == 3
Exp == 4
Eol == 10
nil == <<99>>
failure == <<98>>

Rest(at) == SubSeq(content, at + 1, Len(content))

\* The first position of c in w, or 0.
FirstOf(c, w) == Min({i \in DOMAIN w : w[i] = c} \cup {Len(w) + 1}) % (Len(w) + 1)

-----------------------------------------------------------------------------
(* The C library.  A FILE has its position, the position at which reading  *)
(* fails (behind the end if it does not), and its error indicator.         *)

clearerr(at, fault) == [pos |-> at, fault |-> fault, err |-> FALSE]
Left(f) == SubSeq(content, f.pos + 1, Min({f.fault, Len(content)}))
Take(f, n) == [f EXCEPT !.pos = @ + n]

\* One character more is wanted than there are: the end of the file or an error.
Want(f) == [f EXCEPT !.err = @ \/ f.pos = f.fault]

\* fgets reads up to and with the end of a line, at most size - 1 characters.
fgets(f, size) ==
  LET w == Left(f)
      eol == FirstOf(Eol, w)
      n == Min({size - 1, Len(w)} \cup IF eol > 0 THEN {eol} ELSE {})
      g == IF eol = 0 /\ n < size - 1 THEN Want(Take(f, n)) ELSE Take(f, n)
  IN [f |-> g, p |-> IF g.err THEN <<>> ELSE SubSeq(w, 1, n)]
strlen(p) == LET z == FirstOf(Zero, p) IN IF z = 0 THEN Len(p) ELSE z - 1

fread(f, n) ==
  LET p == SubSeq(Left(f), 1, Min({n, Len(Left(f))}))
  IN [f |-> IF Len(p) < n THEN Want(Take(f, Len(p))) ELSE Take(f, n), p |-> p]

\* Numbers, and what may become one.
Digits(w) == w # <<>> /\ \A i \in DOMAIN w : w[i] = Digit
Whole(w) == w # <<>> /\ Digits(IF w[1] = Sign THEN Tail(w) ELSE w)
IsNumber(w) ==
  \/ Whole(w)
  \/ \E i \in DOMAIN w : w[i] = Exp /\ Whole(SubSeq(w, 1, i - 1)) /\ Whole(SubSeq(w, i + 1, Len(w)))
Begins(w) == IsNumber(w) \/ IsNumber(Append(w, Digit))

(***************************************************************************)
(* fscanf of a number: white space is skipped, then comes the longest      *)
(* beginning of a number.  One that is none, as "-" or "2e", some          *)
(* libraries put back to the last number, some fail and keep, and some     *)
(* take for the number in front.                                           *)
(***************************************************************************)
fscanf(f) ==
  LET blanks == Min({i \in DOMAIN Left(f) : Left(f)[i] # Eol} \cup {Len(Left(f)) + 1}) - 1
      w == SubSeq(Left(f), blanks + 1, Len(Left(f)))
      item == Max({n \in 0 .. Len(w) : Begins(SubSeq(w, 1, n))})
      number == Max({n \in 0 .. Len(w) : n = 0 \/ IsNumber(SubSeq(w, 1, n))})
      g == IF item = Len(w) THEN [f EXCEPT !.err = Want(Take(f, Len(Left(f)))).err] ELSE f
  IN {[f |-> Take(g, blanks + n), v |-> SubSeq(w, 1, v)] : <<n, v>> \in
        IF item = number THEN {<<item, item>>} ELSE {<<number, number>>, <<item, 0>>, <<item, number>>}}

-----------------------------------------------------------------------------
(* liolib.c.  A reader gives the FILE, the value and its success.          *)

Read(f, v, ok) == [f |-> f, v |-> v, ok |-> ok]

read_number(f) == {Read(r.f, r.v, r.v # <<>>) : r \in fscanf(f)}
test_eof(f) == Read(IF Left(f) = <<>> THEN Want(f) ELSE f, <<>>, Left(f) # <<>>)

\* The C string in the buffer ends with the end of the line.
HasEol(p) == strlen(p) > 0 /\ p[strlen(p)] = Eol

RECURSIVE read_line(_, _)
read_line(f, b) ==
  LET r == fgets(f, LUAL_BUFFERSIZE)
      l == strlen(r.p)
  IN IF r.p = <<>> THEN Read(r.f, b, b # <<>>)
     ELSE IF HasEol(r.p) THEN Read(r.f, b \o SubSeq(r.p, 1, l - 1), TRUE)
     ELSE read_line(r.f, b \o SubSeq(r.p, 1, l))

\* Mutant: the loop goes on after a full block only.
AgainFull(n, nr, rlen) == n > 0 /\ nr = LUAL_BUFFERSIZE + 1

Again(n, nr, rlen) == n > 0 /\ nr = rlen

RECURSIVE read_chars(_, _, _)
read_chars(f, n, b) ==
  LET rlen == Min({LUAL_BUFFERSIZE, n})
      r == fread(f, rlen)
      left == n - Len(r.p)
  IN IF Again(left, Len(r.p), rlen) THEN read_chars(r.f, left, b \o r.p)
     ELSE Read(r.f, b \o r.p, left = 0 \/ b \o r.p # <<>>)

MAX_SIZE_T == MaxLength + LUAL_BUFFERSIZE

ReadOne(f, fmt) ==
  CASE fmt = <<"n">> -> read_number(f)
    [] fmt = <<"l">> -> {read_line(f, <<>>)}
    [] fmt = <<"a">> -> {[read_chars(f, MAX_SIZE_T, <<>>) EXCEPT !.ok = TRUE]}
    [] fmt[1] = "count" -> {IF fmt[2] = 0 THEN test_eof(f) ELSE read_chars(f, fmt[2], <<>>)}

Stop(acc) == ~acc.ok

\* Mutant: the error indicator is not looked at.
ResultUnchecked(acc) == acc.v

\* After an error there is one result, nil with the message (pushresult).
Result(acc) == IF acc.f.err THEN <<failure>> ELSE acc.v

\* The formats one after another, until one fails; its result is nil.
g_read(f, fmts) ==
  LET next(acc, fmt) ==
        IF Stop(acc) THEN {acc}
        ELSE {[f |-> r.f, ok |-> r.ok, v |-> Append(acc.v, IF r.ok THEN r.v ELSE nil),
               marks |-> Append(acc.marks, r.f.pos)] : r \in ReadOne(acc.f, fmt)}
  IN FoldLeft(LAMBDA accs, fmt : UNION {next(acc, fmt) : acc \in accs},
              {[f |-> f, ok |-> TRUE, v |-> <<>>, marks |-> <<f.pos>>]},
              IF fmts = <<>> THEN <<<<"l">>>> ELSE fmts)

-----------------------------------------------------------------------------
Formats == {<<"n">>, <<"l">>, <<"a">>} \cup ({"count"} \X Counts)

Init ==
  /\ content \in BoundedSeq(Chars, MaxLength) /\ pos = 0
  /\ asked = <<>> /\ results = <<>> /\ marks = <<0>>

f_read(fmts) ==
  /\ results = <<>>
  /\ \E fault \in pos .. Len(content) + 1 : \E r \in g_read(clearerr(pos, fault), fmts) :
       /\ pos' = r.f.pos /\ results' = Result(r) /\ asked' = fmts /\ marks' = r.marks
       /\ UNCHANGED content

\* The script has used the results and goes on.
Used ==
  /\ results # <<>> /\ results' = <<>> /\ asked' = <<>> /\ marks' = <<pos>>
  /\ UNCHANGED <<content, pos>>

Next == Used \/ f_read(<<>>) \/ \E f1 \in Formats : f_read(<<f1>>) \/ \E f2 \in Formats : f_read(<<f1, f2>>)

Spec == Init /\ [][Next]_vars

-----------------------------------------------------------------------------
(* Properties.                                                             *)

\* What the manual promises for a line, a count and a whole file, given the
\* rest of the file: the value, nil if there is none, and how much is consumed.
Promised(w, fmt) ==
  LET eol == FirstOf(Eol, w)
  IN CASE fmt = <<"a">> -> [v |-> w, n |-> Len(w)]
       [] w = <<>> -> [v |-> nil, n |-> 0]
       [] fmt = <<"l">> -> IF eol = 0 THEN [v |-> w, n |-> Len(w)] ELSE [v |-> SubSeq(w, 1, eol - 1), n |-> eol]
       [] fmt[1] = "count" -> [v |-> SubSeq(w, 1, Min({fmt[2], Len(w)})), n |-> Min({fmt[2], Len(w)})]

Asked == IF asked = <<>> THEN <<<<"l">>>> ELSE asked
Found(i) == Rest(marks[i])
Consumed(i) == SubSeq(Found(i), 1, marks[i + 1] - marks[i])
AsPromised(i) == LET p == Promised(Found(i), Asked[i]) IN results[i] = p.v /\ Len(Consumed(i)) = p.n

\* White space, the number that is returned, and behind it no more than the
\* rest of the beginning of a number that comes to nothing.
NumberAsPromised(i) ==
  \E blanks \in 0 .. Len(Consumed(i)) :
    LET w == SubSeq(Consumed(i), blanks + 1, Len(Consumed(i)))
        v == IF results[i] = nil THEN <<>> ELSE results[i]
    IN /\ \A k \in 1 .. blanks : Found(i)[k] = Eol
       /\ results[i] = nil \/ IsNumber(v)
       /\ IsPrefix(v, w)
       /\ w = v \/ (Begins(w) /\ ~IsNumber(w))

Succeeded == results # <<failure>>
LineWithZero(i) == Asked[i] = <<"l">> /\ Zero \in ToSet(SubSeq(Found(i), 1, Promised(Found(i), <<"l">>).n))

(***************************************************************************)
(* A file:read that reports no error returned and consumed, for each of    *)
(* its formats in turn, what the manual promises, whatever the device      *)
(* refused and wherever blocks end; the first nil is its last result.      *)
(* Excepted are lines with a zero byte.                                    *)
(***************************************************************************)
ReadsAsPromised ==
  results # <<>> /\ Succeeded =>
    /\ \A i \in DOMAIN results :
         /\ \/ Asked[i] = <<"n">> /\ NumberAsPromised(i)
            \/ Asked[i] # <<"n">> /\ (AsPromised(i) \/ LineWithZero(i))
         /\ results[i] = nil => i = Len(results)
    /\ Len(results) = Len(Asked) \/ Last(results) = nil

\* Every line that is read is the next line of the file, whatever bytes it has.
LinesAsPromised == Succeeded => \A i \in DOMAIN results : Asked[i] = <<"l">> => AsPromised(i)
=============================================================================
