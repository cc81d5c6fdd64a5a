-------------------------------- MODULE LuaIO --------------------------------
(***************************************************************************)
(* File handles: the userdata of liolib.c, the FILE each points to, the    *)
(* default input and output, the iterators of lines, the finalizer that    *)
(* closes what a script forgets, and lua_close.  The environment of a      *)
(* handle says which function closes it.  The handles 1 and 2 are stdin    *)
(* and stdout, which the table io keeps.  A call that ends in an error     *)
(* before it opens or closes anything changes nothing and is no action.    *)
(***************************************************************************)
EXTENDS LuaIOState

CONSTANTS
  MaxHandles,      \* the most file handles created
  MaxIterators     \* the most iterators the script holds

IOConstants == MaxHandles \in Nat /\ MaxHandles >= 2 /\ MaxIterators \in Nat

vars == <<life, handle, fp, IO, held, iters, phase, tmudata, how, stale>>
script == <<life, IO, held, iters, phase, tmudata>>

H == 1 .. MaxHandles

\* luaopen_io
Init ==
  /\ life = [h \in H |-> IF h \in Std THEN "live" ELSE "none"]
  /\ handle = [h \in H |-> [open |-> h \in Std, close |-> "io_noclose"]]
  /\ fp = [h \in H |-> [st |-> IF h \in Std THEN "open" ELSE "none", by |-> IF h \in Std THEN "std" ELSE ""]]
  /\ IO = [input |-> 1, output |-> 2] /\ held = Std /\ iters = {} /\ phase = "script" /\ tmudata = {}
  /\ how = [h \in H |-> ""] /\ stale = FALSE

Running == phase = "script"

-----------------------------------------------------------------------------
(* Opening.                                                                *)

Fresh(h) == h = 1 + Cardinality({k \in H : life[k] # "none"})
NewHandle(h, st, open, closes) ==
  life' = [life EXCEPT ![h] = st] /\ handle' = [handle EXCEPT ![h] = [open |-> open, close |-> closes]]
NewFile(h, by) == fp' = [fp EXCEPT ![h] = [st |-> "open", by |-> by]]

(* newfile and the fopen, popen or tmpfile that follows it, which may      *)
(* fail.  The handle comes first, and memory may be out for it.            *)
newfile(h, closes, by) ==
  /\ Fresh(h) /\ UNCHANGED <<how, stale>>
  /\ \/ NewHandle(h, "live", TRUE, closes) /\ NewFile(h, by)
     \/ NewHandle(h, "live", FALSE, closes) /\ UNCHANGED fp
     \/ NewHandle(h, "freed", FALSE, closes) /\ UNCHANGED fp

\* The script holds the handle if the file was opened.
Returned(h) == held' = (IF handle'[h].open THEN held \cup {h} ELSE held)

io_open(h) ==
  /\ Running /\ newfile(h, "io_fclose", "fopen") /\ Returned(h)
  /\ UNCHANGED <<IO, iters, phase, tmudata>>

io_popen(h) == Running /\ newfile(h, "io_pclose", "popen") /\ Returned(h) /\ UNCHANGED <<IO, iters, phase, tmudata>>
io_tmpfile(h) == Running /\ newfile(h, "io_fclose", "tmpfile") /\ Returned(h) /\ UNCHANGED <<IO, iters, phase, tmudata>>

\* io.input and io.output with a file name, and with a handle.
g_iofile(f, h) ==
  /\ Running /\ newfile(h, "io_fclose", "fopen")
  /\ IO' = (IF handle'[h].open THEN [IO EXCEPT ![f] = h] ELSE IO)
  /\ UNCHANGED <<held, iters, phase, tmudata>>
g_iofileHandle(f, h) ==
  /\ Running /\ h \in held /\ handle[h].open /\ IO' = [IO EXCEPT ![f] = h]
  /\ UNCHANGED <<life, handle, fp, held, iters, phase, tmudata, how, stale>>
g_iofileGet(f) ==
  /\ Running /\ held' = held \cup {IO[f]}
  /\ UNCHANGED <<life, handle, fp, IO, iters, phase, tmudata, how, stale>>

-----------------------------------------------------------------------------
(* Using and closing.                                                      *)

\* The C library is given the FILE behind h.
Touches(h) == stale' = (stale \/ fp[h].st # "open")

Ended(h, f) ==
  /\ Touches(h) /\ fp' = [fp EXCEPT ![h].st = "closed"] /\ how' = [how EXCEPT ![h] = f]

io_fclose(h) == Ended(h, "io_fclose") /\ handle' = [handle EXCEPT ![h].open = FALSE]
io_pclose(h) == Ended(h, "io_pclose") /\ handle' = [handle EXCEPT ![h].open = FALSE]
io_noclose(h) == UNCHANGED <<handle, fp, how, stale>>

aux_close(h) ==
  \/ handle[h].close = "io_fclose" /\ io_fclose(h)
  \/ handle[h].close = "io_pclose" /\ io_pclose(h)
  \/ handle[h].close = "io_noclose" /\ io_noclose(h)

io_close(h) == phase # "closed" /\ h \in held \cup {IO.output} /\ handle[h].open /\ aux_close(h) /\ UNCHANGED script

\* read, write, seek, setvbuf and flush, of a handle or of a default file.
Use(h) ==
  /\ phase # "closed" /\ h \in held \cup {IO.input, IO.output} /\ handle[h].open
  /\ Touches(h) /\ UNCHANGED <<handle, fp, how>> /\ UNCHANGED script

Iterator(h, toclose) == Cardinality(iters) < MaxIterators /\ iters' = iters \cup {[h |-> h, toclose |-> toclose, ended |-> FALSE]}

f_lines(h) ==
  /\ Running /\ h \in held \cup {IO.input} /\ handle[h].open /\ Iterator(h, FALSE)
  /\ UNCHANGED <<life, handle, fp, IO, held, phase, tmudata, how, stale>>

io_lines(h) ==
  /\ Running /\ newfile(h, "io_fclose", "fopen")
  /\ IF handle'[h].open THEN Iterator(h, TRUE) ELSE UNCHANGED iters
  /\ UNCHANGED <<IO, held, phase, tmudata>>

\* The end of the file: the generator closes a file it opened itself.
AtEnd(i) == IF i.toclose THEN aux_close(i.h) ELSE UNCHANGED <<handle, how, fp>>

io_readline(i) ==
  /\ Running /\ handle[i.h].open /\ Touches(i.h)
  /\ \/ UNCHANGED <<handle, fp, how, iters>>
     \/ AtEnd(i) /\ iters' = (iters \ {i}) \cup {[i EXCEPT !.ended = TRUE]}
  /\ UNCHANGED <<life, IO, held, phase, tmudata>>

-----------------------------------------------------------------------------
(* Forgetting, finalizing and closing the state.                           *)

Drop(h) == Running /\ h \in held \ Std /\ held' = held \ {h} /\ UNCHANGED <<life, handle, fp, IO, iters, phase, tmudata, how, stale>>
DropIterator(i) == Running /\ iters' = iters \ {i} /\ UNCHANGED <<life, handle, fp, IO, held, phase, tmudata, how, stale>>

Reachable(h) == h \in held \cup {IO.input, IO.output} \/ \E i \in iters : i.h = h

\* Mutant: the finalizer closes again what the script closed.
io_gcAgain(h) == life' = [life EXCEPT ![h] = "finalized"] /\ aux_close(h)

\* io_gc leaves a handle alone whose file is closed.
io_gc(h) ==
  /\ life' = [life EXCEPT ![h] = "finalized"]
  /\ IF handle[h].open THEN aux_close(h) ELSE UNCHANGED <<handle, fp, how, stale>>

Collect(h) == Running /\ life[h] = "live" /\ ~Reachable(h) /\ io_gc(h) /\ UNCHANGED <<IO, held, iters, phase, tmudata>>

\* A finalizer of another object that died with h brings h back.
Resurrect(h) ==
  /\ phase # "closed" /\ life[h] = "finalized" /\ held' = held \cup {h}
  /\ UNCHANGED <<life, handle, fp, IO, iters, phase, tmudata, how, stale>>

lua_close ==
  /\ Running /\ phase' = "gctm" /\ tmudata' = {h \in H : life[h] = "live"}
  /\ UNCHANGED <<life, handle, fp, IO, held, iters, how, stale>>

\* The newest handle is finalized first.
callallgcTM ==
  /\ phase = "gctm" /\ tmudata # {} /\ io_gc(Max(tmudata)) /\ tmudata' = tmudata \ {Max(tmudata)}
  /\ UNCHANGED <<IO, held, iters, phase>>

close_state ==
  /\ phase = "gctm" /\ tmudata = {} /\ phase' = "closed"
  /\ life' = [h \in H |-> "freed"] /\ UNCHANGED <<handle, fp, IO, held, iters, tmudata, how, stale>>

Next ==
  \/ \E h \in H :
       \/ io_open(h) \/ io_popen(h) \/ io_tmpfile(h) \/ io_close(h) \/ Use(h) \/ f_lines(h) \/ io_lines(h)
       \/ Drop(h) \/ Collect(h) \/ Resurrect(h)
       \/ \E f \in {"input", "output"} : g_iofile(f, h) \/ g_iofileHandle(f, h)
  \/ \E f \in {"input", "output"} : g_iofileGet(f)
  \/ \E i \in iters : io_readline(i) \/ DropIterator(i)
  \/ lua_close \/ callallgcTM \/ close_state

Spec == Init /\ [][Next]_vars
=============================================================================
