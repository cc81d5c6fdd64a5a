---------------------------- MODULE LuaIOProofs ----------------------------
(***************************************************************************)
(* Proofs about LuaIO, for every bound on the handles and the iterators.   *)
(*                                                                         *)
(* What makes the handles safe is local to each of them: its pointer is    *)
(* set exactly while the FILE is open, its environment closes the FILE the *)
(* way it was opened, and only a live handle has an open FILE (Sound).     *)
(* Beside it, handles are numbered as they are made, lua_close has every   *)
(* live handle on its list, and an iterator that is to close its file has  *)
(* one that fclose closes.                                                 *)
(***************************************************************************)
EXTENDS LuaIO, FiniteSetTheorems, TLAPS

Lives == {"none", "live", "finalized", "freed"}
HandleType == [open : BOOLEAN, close : {"io_fclose", "io_pclose", "io_noclose"}]
FileType == [st : {"none", "open", "closed"}, by : {"", "std", "fopen", "popen", "tmpfile"}]

TypeInv ==
  /\ life \in [H -> Lives] /\ handle \in [H -> HandleType] /\ fp \in [H -> FileType]
  /\ how \in [H -> {"", "io_fclose", "io_pclose"}]
  /\ iters \subseteq [h : H, toclose : BOOLEAN, ended : BOOLEAN]
  /\ phase \in {"script", "gctm", "closed"} /\ tmudata \subseteq H

\* One handle: its state, its environment, its FILE and how that was closed.
Sound(h, lf, hd, fl, hw) ==
  /\ lf = "none" => fl.st = "none"
  /\ hd.open <=> fl.st = "open"
  /\ fl.st = "none" => hw = ""
  /\ fl.st # "none" => /\ fl.by = "popen" => hd.close = "io_pclose"
                       /\ fl.by \in {"fopen", "tmpfile"} => hd.close = "io_fclose"
                       /\ fl.by \in {"", "std"} => hd.close = "io_noclose" /\ h \in Std
  /\ hw # "" => hw = hd.close
  /\ fl.st = "open" /\ h \notin Std => lf = "live"

HandlesSound == \A h \in H : Sound(h, life[h], handle[h], fp[h], how[h])

\* The handles made so far are the first ones.
Numbered == \E n \in 0 .. MaxHandles : {k \in H : life[k] # "none"} = 1 .. n

IteratorsSound ==
  \A i \in iters : /\ life[i.h] # "none"
                   /\ i.toclose => handle[i.h].close = "io_fclose"
                   /\ i.toclose /\ i.ended => fp[i.h].st = "closed"

ClosingIsComplete ==
  /\ phase = "gctm" => \A h \in H : life[h] = "live" => h \in tmudata
  /\ \A h \in tmudata : life[h] # "none"

IInv == TypeInv /\ HandlesSound /\ Numbered /\ IteratorsSound /\ ClosingIsComplete /\ ~stale
-----------------------------------------------------------------------------
(* Handles one at a time.                                                  *)

\* The next handle is one that was not made yet.
LEMMA FreshHandle ==
  ASSUME IOConstants, IInv, NEW h \in H, Fresh(h)
  PROVE  life[h] = "none" /\ {k \in H : life[k] # "none"} \cup {h} = 1 .. h
<1>1. PICK n \in 0 .. MaxHandles : {k \in H : life[k] # "none"} = 1 .. n
  BY DEF IInv, Numbered
<1>2. Cardinality(1 .. n) = n
  BY <1>1, FS_Interval DEF IOConstants
<1>3. h = 1 + n /\ n \in Nat
  <2>1. h = 1 + Cardinality(1 .. n)
    BY <1>1 DEF Fresh
  <2>2. n \in Nat
    BY DEF IOConstants
  <2>3. QED
    BY <1>2, <2>1, <2>2
<1>4. h \notin 1 .. n /\ (1 .. n) \cup {h} = 1 .. h
  BY <1>3
<1>5. life[h] = "none"
  BY <1>1, <1>4
<1>6. QED
  BY <1>1, <1>4, <1>5

\* A step on one handle keeps the others.
LEMMA OneHandle ==
  ASSUME IInv, NEW h \in H, Sound(h, life'[h], handle'[h], fp'[h], how'[h]),
         \A k \in H : k # h => /\ life'[k] = life[k] /\ handle'[k] = handle[k]
                               /\ fp'[k] = fp[k] /\ how'[k] = how[k]
  PROVE  HandlesSound'
<1>1. SUFFICES ASSUME NEW k \in H PROVE Sound(k, life'[k], handle'[k], fp'[k], how'[k])
  BY DEF HandlesSound
<1>2. CASE k = h
  BY <1>2
<1>3. CASE k # h
  BY <1>3 DEF IInv, HandlesSound
<1>4. QED
  BY <1>2, <1>3

\* A step that makes no handle and forgets none keeps the numbering.
LEMMA SameNumbers ==
  ASSUME IInv, \A k \in H : life'[k] = "none" <=> life[k] = "none"
  PROVE  Numbered'
<1>1. {k \in H : life'[k] # "none"} = {k \in H : life[k] # "none"}
  OBVIOUS
<1>2. QED
  BY <1>1 DEF IInv, Numbered

\* newfile and the call that opens the file, in its three outcomes.
LEMMA NewfileStep ==
  ASSUME IOConstants, IInv, NEW h \in H, NEW closes, NEW by, newfile(h, closes, by),
         \/ by \in {"fopen", "tmpfile"} /\ closes = "io_fclose"
         \/ by = "popen" /\ closes = "io_pclose"
  PROVE  /\ life' \in [H -> Lives] /\ handle' \in [H -> HandleType] /\ fp' \in [H -> FileType]
         /\ how' = how /\ stale' = stale /\ HandlesSound' /\ Numbered'
         /\ life[h] = "none" /\ life'[h] # "none" /\ handle'[h].close = closes
         /\ \A k \in H : k # h => life'[k] = life[k] /\ handle'[k] = handle[k] /\ fp'[k] = fp[k]
<1>1. life[h] = "none" /\ {k \in H : life[k] # "none"} \cup {h} = 1 .. h
  BY FreshHandle DEF newfile
<1>2. how' = how /\ stale' = stale
  BY DEF newfile
<1>3. PICK st \in {"live", "freed"}, open \in BOOLEAN :
        /\ life' = [life EXCEPT ![h] = st] /\ handle' = [handle EXCEPT ![h] = [open |-> open, close |-> closes]]
        /\ IF open THEN fp' = [fp EXCEPT ![h] = [st |-> "open", by |-> by]] /\ st = "live" ELSE fp' = fp
  BY DEF newfile, NewHandle, NewFile
<1>4. [open |-> open, close |-> closes] \in HandleType /\ [st |-> "open", by |-> by] \in FileType
  BY DEF HandleType, FileType
<1>5. life' \in [H -> Lives] /\ handle' \in [H -> HandleType] /\ fp' \in [H -> FileType]
  BY <1>3, <1>4 DEF IInv, TypeInv, Lives
<1>6. \A k \in H : k # h => life'[k] = life[k] /\ handle'[k] = handle[k] /\ fp'[k] = fp[k]
  BY <1>3 DEF IInv, TypeInv
<1>7. life'[h] = st /\ handle'[h] = [open |-> open, close |-> closes]
  BY <1>3 DEF IInv, TypeInv
<1>8. Sound(h, life[h], handle[h], fp[h], how[h])
  BY DEF IInv, HandlesSound
<1>9. how[h] = "" /\ fp[h].st = "none"
  BY <1>1, <1>8 DEF Sound
<1>10. Sound(h, life'[h], handle'[h], fp'[h], how'[h])
  <2>1. CASE open
    <3>1. fp'[h] = [st |-> "open", by |-> by] /\ st = "live"
      BY <1>3, <2>1 DEF IInv, TypeInv
    <3>2. handle'[h].open = open /\ handle'[h].close = closes /\ life'[h] = "live"
      BY <1>7, <3>1
    <3>3. fp'[h].st = "open" /\ fp'[h].by = by
      BY <3>1
    <3>4. how'[h] = ""
      BY <1>2, <1>9
    <3>5. handle'[h].open
      BY <2>1, <3>2
    <3>6. QED
      BY <3>2, <3>3, <3>4, <3>5 DEF Sound
  <2>2. CASE ~open
    <3>1. fp'[h] = fp[h]
      BY <1>3, <2>2
    <3>2. handle'[h].open = open
      BY <1>7
    <3>3. fp'[h].st = "none" /\ how'[h] = ""
      BY <1>2, <1>9, <3>1
    <3>4. ~handle'[h].open
      BY <2>2, <3>2
    <3>5. QED
      BY <3>3, <3>4 DEF Sound
  <2>3. QED
    BY <2>1, <2>2
<1>11. HandlesSound'
  BY <1>2, <1>6, <1>10, OneHandle
<1>12. Numbered'
  <2>1. {k \in H : life'[k] # "none"} = {k \in H : life[k] # "none"} \cup {h}
    BY <1>6, <1>7
  <2>2. h \in 0 .. MaxHandles
    BY DEF H, IOConstants
  <2>3. QED
    BY <1>1, <2>1, <2>2 DEF Numbered
<1>13. QED
  BY <1>1, <1>2, <1>5, <1>6, <1>7, <1>11, <1>12

\* aux_close of an open handle: the FILE is closed the way it was opened, unless
\* it is a standard file.
LEMMA CloseStep ==
  ASSUME IInv, NEW h \in H, handle[h].open, aux_close(h)
  PROVE  /\ handle' \in [H -> HandleType] /\ fp' \in [H -> FileType]
         /\ how' \in [H -> {"", "io_fclose", "io_pclose"}] /\ ~stale'
         /\ \A k \in H : k # h => handle'[k] = handle[k] /\ fp'[k] = fp[k] /\ how'[k] = how[k]
         /\ \/ /\ handle[h].close = "io_noclose" /\ h \in Std
               /\ handle'[h] = handle[h] /\ fp'[h] = fp[h] /\ how'[h] = how[h]
            \/ /\ ~handle'[h].open /\ handle'[h].close = handle[h].close /\ how'[h] = handle[h].close
               /\ fp'[h].st = "closed" /\ fp'[h].by = fp[h].by
<1>1. Sound(h, life[h], handle[h], fp[h], how[h])
  BY DEF IInv, HandlesSound
<1>2. fp[h].st = "open"
  BY <1>1 DEF Sound
<1>3. handle[h] \in HandleType /\ fp[h] \in FileType
  BY DEF IInv, TypeInv
<1>4. CASE handle[h].close = "io_noclose"
  <2>1. UNCHANGED <<handle, fp, how, stale>>
    BY <1>4 DEF aux_close, io_noclose
  <2>2. h \in Std
    BY <1>1, <1>2, <1>3, <1>4 DEF Sound, FileType
  <2>3. QED
    BY <1>4, <2>1, <2>2 DEF IInv, TypeInv
<1>5. CASE handle[h].close # "io_noclose"
  <2>1. PICK f \in {"io_fclose", "io_pclose"} :
          /\ f = handle[h].close /\ stale' = (stale \/ fp[h].st # "open")
          /\ fp' = [fp EXCEPT ![h].st = "closed"] /\ how' = [how EXCEPT ![h] = f]
          /\ handle' = [handle EXCEPT ![h].open = FALSE]
    BY <1>5 DEF aux_close, io_fclose, io_pclose, Ended, Touches
  <2>2. ~stale'
    BY <1>2, <2>1 DEF IInv
  <2>3. fp' = [fp EXCEPT ![h] = [fp[h] EXCEPT !.st = "closed"]] /\ [fp[h] EXCEPT !.st = "closed"] \in FileType
    BY <1>3, <2>1 DEF IInv, TypeInv, FileType
  <2>4. handle' = [handle EXCEPT ![h] = [handle[h] EXCEPT !.open = FALSE]] /\ [handle[h] EXCEPT !.open = FALSE] \in HandleType
    BY <1>3, <2>1 DEF IInv, TypeInv, HandleType
  <2>5. handle' \in [H -> HandleType] /\ fp' \in [H -> FileType] /\ how' \in [H -> {"", "io_fclose", "io_pclose"}]
    BY <2>1, <2>3, <2>4 DEF IInv, TypeInv
  <2>6. \A k \in H : k # h => handle'[k] = handle[k] /\ fp'[k] = fp[k] /\ how'[k] = how[k]
    BY <2>1, <2>3, <2>4 DEF IInv, TypeInv
  <2>7. how'[h] = handle[h].close /\ fp'[h] = [fp[h] EXCEPT !.st = "closed"] /\ handle'[h] = [handle[h] EXCEPT !.open = FALSE]
    BY <2>1, <2>3, <2>4 DEF IInv, TypeInv
  <2>8. ~handle'[h].open /\ handle'[h].close = handle[h].close /\ fp'[h].st = "closed" /\ fp'[h].by = fp[h].by
    BY <1>3, <2>7 DEF HandleType, FileType
  <2>9. QED
    BY <2>2, <2>5, <2>6, <2>7, <2>8
<1>6. QED
  BY <1>4, <1>5

\* So the handle stays sound, and may be finalized with it.
LEMMA CloseSound ==
  ASSUME IInv, NEW h \in H, handle[h].open, aux_close(h),
         life' \in [H -> Lives], life'[h] \in {life[h], "finalized"},
         \A k \in H : k # h => life'[k] = life[k]
  PROVE  HandlesSound'
<1>1. Sound(h, life[h], handle[h], fp[h], how[h])
  BY DEF IInv, HandlesSound
<1>2. fp[h].st = "open" /\ life[h] # "none"
  BY <1>1 DEF Sound
<1>0. \A k \in H : k # h => handle'[k] = handle[k] /\ fp'[k] = fp[k] /\ how'[k] = how[k]
  BY CloseStep
<1>3. CASE handle'[h] = handle[h] /\ fp'[h] = fp[h] /\ how'[h] = how[h] /\ h \in Std
  <2>1. Sound(h, life'[h], handle'[h], fp'[h], how'[h])
    BY <1>1, <1>2, <1>3 DEF Sound
  <2>2. QED
    BY <1>0, <2>1, OneHandle
<1>4. CASE /\ ~handle'[h].open /\ handle'[h].close = handle[h].close /\ how'[h] = handle[h].close
           /\ fp'[h].st = "closed" /\ fp'[h].by = fp[h].by
  <2>1. Sound(h, life'[h], handle'[h], fp'[h], how'[h])
    BY <1>1, <1>2, <1>4 DEF Sound
  <2>2. QED
    BY <1>0, <2>1, OneHandle
<1>5. QED
  BY <1>3, <1>4, CloseStep

-----------------------------------------------------------------------------
(* The steps.                                                              *)

\* Iterators stay sound when handles are made and closed around them.
LEMMA IteratorsKept ==
  ASSUME IInv, iters' \subseteq iters,
         \A k \in H : life[k] # "none" =>
           /\ life'[k] # "none" /\ handle'[k].close = handle[k].close
           /\ fp[k].st = "closed" => fp'[k].st = "closed"
  PROVE  IteratorsSound'
<1>1. \A i \in iters : i.h \in H
  BY DEF IInv, TypeInv
<1>2. QED
  BY <1>1 DEF IInv, IteratorsSound

LEMMA InitIInv == IOConstants /\ Init => IInv
<1> SUFFICES ASSUME IOConstants, Init PROVE IInv
  OBVIOUS
<1>1. TypeInv
  <2>1. \A h \in H : [open |-> h \in Std, close |-> "io_noclose"] \in HandleType
    BY DEF HandleType
  <2>2. \A h \in H : [st |-> IF h \in Std THEN "open" ELSE "none", by |-> IF h \in Std THEN "std" ELSE ""] \in FileType
    BY DEF FileType
  <2>3. QED
    BY <2>1, <2>2 DEF Init, TypeInv, Lives
<1>2. HandlesSound
  <2>1. SUFFICES ASSUME NEW h \in H PROVE Sound(h, life[h], handle[h], fp[h], how[h])
    BY DEF HandlesSound
  <2>2. CASE h \in Std
    <3>1. /\ life[h] = "live" /\ handle[h].open = TRUE /\ handle[h].close = "io_noclose"
          /\ fp[h].st = "open" /\ fp[h].by = "std" /\ how[h] = ""
      BY <2>2 DEF Init
    <3>2. QED
      BY <2>2, <3>1 DEF Sound
  <2>3. CASE h \notin Std
    <3>1. fp[h].st = "none" /\ how[h] = ""
      BY <2>3 DEF Init
    <3>2. handle[h].open = (h \in Std)
      BY DEF Init
    <3>3. ~handle[h].open
      BY <2>3, <3>2
    <3>4. QED
      BY <3>1, <3>3 DEF Sound
  <2>4. QED
    BY <2>2, <2>3
<1>3. Numbered
  <2>1. {k \in H : life[k] # "none"} = 1 .. 2
    <3>1. \A k \in H : life[k] # "none" <=> k \in Std
      BY DEF Init
    <3>2. Std \subseteq H /\ Std = 1 .. 2
      BY DEF Std, H, IOConstants
    <3>3. QED
      BY <3>1, <3>2
  <2>2. 2 \in 0 .. MaxHandles
    BY DEF IOConstants
  <2>3. QED
    BY <2>1, <2>2 DEF Numbered
<1>4. IteratorsSound /\ ClosingIsComplete /\ ~stale
  BY DEF Init, IteratorsSound, ClosingIsComplete
<1>5. QED
  BY <1>1, <1>2, <1>3, <1>4 DEF IInv

\* The functions that open a file, in a script that runs.
LEMMA OpenStep ==
  ASSUME IOConstants, IInv, NEW h \in H, NEW closes, NEW by, newfile(h, closes, by),
         \/ by \in {"fopen", "tmpfile"} /\ closes = "io_fclose"
         \/ by = "popen" /\ closes = "io_pclose",
         Running, phase' = phase, tmudata' = tmudata,
         \/ iters' = iters
         \/ closes = "io_fclose" /\ iters' = iters \cup {[h |-> h, toclose |-> TRUE, ended |-> FALSE]}
  PROVE  IInv'
<1>1. /\ life' \in [H -> Lives] /\ handle' \in [H -> HandleType] /\ fp' \in [H -> FileType]
      /\ how' = how /\ stale' = stale /\ HandlesSound' /\ Numbered'
      /\ life[h] = "none" /\ life'[h] # "none" /\ handle'[h].close = closes
      /\ \A k \in H : k # h => life'[k] = life[k] /\ handle'[k] = handle[k] /\ fp'[k] = fp[k]
  BY NewfileStep
<1> DEFINE new == [h |-> h, toclose |-> TRUE, ended |-> FALSE]
<1>2. new \in [h : H, toclose : BOOLEAN, ended : BOOLEAN] /\ new.h = h /\ ~new.ended
  OBVIOUS
<1>3. iters' \subseteq iters \cup {new} /\ (new \in iters' /\ new \notin iters => closes = "io_fclose")
  OBVIOUS
<1> HIDE DEF new
<1>4. TypeInv'
  <2>1. iters' \subseteq [h : H, toclose : BOOLEAN, ended : BOOLEAN]
    BY <1>2, <1>3 DEF IInv, TypeInv
  <2>2. QED
    BY <1>1, <2>1 DEF IInv, TypeInv
<1>5. IteratorsSound'
  <2>1. ASSUME NEW i \in iters' PROVE /\ life'[i.h] # "none"
                                      /\ i.toclose => handle'[i.h].close = "io_fclose"
                                      /\ i.toclose /\ i.ended => fp'[i.h].st = "closed"
    <3>1. CASE i \in iters
      <4>1. i.h \in H /\ life[i.h] # "none"
        BY <3>1 DEF IInv, TypeInv, IteratorsSound
      <4>2. i.h # h
        BY <1>1, <4>1
      <4>3. QED
        BY <1>1, <3>1, <4>1, <4>2 DEF IInv, IteratorsSound
    <3>2. CASE i \notin iters
      <4>1. i = new
        BY <1>3, <3>2
      <4>2. QED
        BY <1>1, <1>2, <1>3, <3>2, <4>1
    <3>3. QED
      BY <3>1, <3>2
  <2>2. QED
    BY <2>1 DEF IteratorsSound
<1>6. ClosingIsComplete' /\ ~stale'
  <2>1. \A k \in tmudata : k \in H /\ life'[k] # "none"
    BY <1>1 DEF IInv, TypeInv, ClosingIsComplete
  <2>2. phase' # "gctm"
    BY DEF Running
  <2>3. QED
    BY <1>1, <2>1, <2>2 DEF ClosingIsComplete, IInv
<1>7. QED
  BY <1>1, <1>4, <1>5, <1>6 DEF IInv

\* The steps that leave every handle and FILE as they are.
LEMMA QuietStep ==
  ASSUME IInv, UNCHANGED <<life, handle, fp, how>>, ~stale',
         iters' \subseteq [h : H, toclose : BOOLEAN, ended : BOOLEAN],
         phase' = phase /\ tmudata' = tmudata,
         \A i \in iters' : i \notin iters => life[i.h] # "none" /\ ~i.toclose
  PROVE  IInv'
<1>1. TypeInv'
  BY DEF IInv, TypeInv
<1>2. HandlesSound' /\ ClosingIsComplete' /\ ~stale'
  BY DEF IInv, HandlesSound, ClosingIsComplete
<1>3. Numbered'
  BY SameNumbers
<1>4. IteratorsSound'
  BY DEF IInv, IteratorsSound
<1>5. QED
  BY <1>1, <1>2, <1>3, <1>4 DEF IInv

\* Touching the FILE of an open handle.
LEMMA TouchOpen ==
  ASSUME IInv, NEW h \in H, handle[h].open, Touches(h)
  PROVE  ~stale' /\ life[h] # "none"
<1>1. Sound(h, life[h], handle[h], fp[h], how[h])
  BY DEF IInv, HandlesSound
<1>2. fp[h].st = "open"
  BY <1>1 DEF Sound
<1>3. QED
  BY <1>1, <1>2 DEF Touches, Sound, IInv
\* io_close, and the end of a loop over io.lines.
LEMMA CloseKeeps ==
  ASSUME IInv, NEW h \in H, handle[h].open, aux_close(h), life' = life, phase' = phase, tmudata' = tmudata
  PROVE  /\ HandlesSound' /\ Numbered' /\ ClosingIsComplete' /\ ~stale'
         /\ iters' \subseteq [h : H, toclose : BOOLEAN, ended : BOOLEAN] => TypeInv'
         /\ \A k \in H : /\ handle'[k].close = handle[k].close
                         /\ fp[k].st = "closed" => fp'[k].st = "closed"
         /\ handle[h].close = "io_fclose" => fp'[h].st = "closed"
<1>1. /\ handle' \in [H -> HandleType] /\ fp' \in [H -> FileType]
      /\ how' \in [H -> {"", "io_fclose", "io_pclose"}] /\ ~stale'
      /\ \A k \in H : k # h => handle'[k] = handle[k] /\ fp'[k] = fp[k] /\ how'[k] = how[k]
      /\ \/ handle[h].close = "io_noclose" /\ handle'[h] = handle[h] /\ fp'[h] = fp[h]
         \/ handle'[h].close = handle[h].close /\ fp'[h].st = "closed"
  BY CloseStep
<1>2. HandlesSound'
  BY CloseSound DEF IInv, TypeInv
<1>3. Numbered'
  BY SameNumbers
<1>4. ClosingIsComplete'
  BY DEF IInv, ClosingIsComplete
<1>5. QED
  BY <1>1, <1>2, <1>3, <1>4 DEF IInv, TypeInv

LEMMA io_closeStep ==
  ASSUME IInv, NEW h \in H, io_close(h)
  PROVE  IInv'
<1>1. handle[h].open /\ aux_close(h) /\ UNCHANGED <<life, iters, phase, tmudata>>
  BY DEF io_close, script
<1>2. /\ HandlesSound' /\ Numbered' /\ ClosingIsComplete' /\ ~stale'
      /\ iters' \subseteq [h : H, toclose : BOOLEAN, ended : BOOLEAN] => TypeInv'
      /\ \A k \in H : /\ handle'[k].close = handle[k].close
                      /\ fp[k].st = "closed" => fp'[k].st = "closed"
  BY <1>1, CloseKeeps
<1>3. TypeInv'
  BY <1>1, <1>2 DEF IInv, TypeInv
<1>4. IteratorsSound'
  <2>1. iters' \subseteq iters
    BY <1>1
  <2>2. \A k \in H : life[k] # "none" =>
          /\ life'[k] # "none" /\ handle'[k].close = handle[k].close
          /\ fp[k].st = "closed" => fp'[k].st = "closed"
    BY <1>1, <1>2
  <2>3. QED
    BY <2>1, <2>2, IteratorsKept
<1>5. QED
  BY <1>2, <1>3, <1>4 DEF IInv

\* A line, or the end of the file, which closes it if the iterator opened it.
LEMMA io_readlineStep ==
  ASSUME IInv, NEW i \in iters, io_readline(i)
  PROVE  IInv'
<1>1. handle[i.h].open /\ Touches(i.h) /\ UNCHANGED <<life, phase, tmudata>>
  BY DEF io_readline
<1>2. i \in [h : H, toclose : BOOLEAN, ended : BOOLEAN] /\ i.h \in H
  BY DEF IInv, TypeInv
<1>3. ~stale' /\ life[i.h] # "none"
  BY <1>1, <1>2, TouchOpen
<1> DEFINE e == [i EXCEPT !.ended = TRUE]
<1>4. e \in [h : H, toclose : BOOLEAN, ended : BOOLEAN] /\ e.h = i.h /\ e.toclose = i.toclose
  BY <1>2
<1>5. CASE UNCHANGED <<handle, fp, how, iters>>
  BY <1>1, <1>3, <1>5, QuietStep DEF IInv, TypeInv
<1>6. CASE AtEnd(i) /\ iters' = (iters \ {i}) \cup {e}
  <2> HIDE DEF e
  <2>1. iters' \subseteq [h : H, toclose : BOOLEAN, ended : BOOLEAN]
    BY <1>4, <1>6 DEF IInv, TypeInv
  <2>2. CASE ~i.toclose
    <3>1. UNCHANGED <<handle, fp, how>>
      BY <1>6, <2>2 DEF AtEnd
    <3>2. \A j \in iters' : j \notin iters => life[j.h] # "none" /\ ~j.toclose
      BY <1>3, <1>4, <1>6, <2>2
    <3>3. QED
      BY <1>1, <1>3, <2>1, <3>1, <3>2, QuietStep
  <2>3. CASE i.toclose
    <3>1. aux_close(i.h)
      BY <1>6, <2>3 DEF AtEnd
    <3>2. handle[i.h].close = "io_fclose"
      BY <2>3 DEF IInv, IteratorsSound
    <3>3. /\ HandlesSound' /\ Numbered' /\ ClosingIsComplete' /\ ~stale'
          /\ iters' \subseteq [h : H, toclose : BOOLEAN, ended : BOOLEAN] => TypeInv'
          /\ \A k \in H : /\ handle'[k].close = handle[k].close
                          /\ fp[k].st = "closed" => fp'[k].st = "closed"
          /\ fp'[i.h].st = "closed"
      BY <1>1, <1>2, <3>1, <3>2, CloseKeeps
    <3>4. IteratorsSound'
      <4>1. ASSUME NEW j \in iters' PROVE /\ life'[j.h] # "none"
                                          /\ j.toclose => handle'[j.h].close = "io_fclose"
                                          /\ j.toclose /\ j.ended => fp'[j.h].st = "closed"
        <5>1. CASE j = e
          <6>1. j.h = i.h /\ i.h \in H
            BY <1>2, <1>4, <5>1
          <6>2. life'[i.h] # "none" /\ handle'[i.h].close = "io_fclose" /\ fp'[i.h].st = "closed"
            BY <1>1, <1>2, <1>3, <3>2, <3>3
          <6>3. QED
            BY <6>1, <6>2
        <5>2. CASE j # e
          <6>1. j \in iters /\ j.h \in H
            BY <1>6, <5>2 DEF IInv, TypeInv
          <6>2. /\ life[j.h] # "none"
                /\ j.toclose => handle[j.h].close = "io_fclose"
                /\ j.toclose /\ j.ended => fp[j.h].st = "closed"
            BY <6>1 DEF IInv, IteratorsSound
          <6>3. handle'[j.h].close = handle[j.h].close /\ (fp[j.h].st = "closed" => fp'[j.h].st = "closed")
            BY <3>3, <6>1
          <6>4. QED
            BY <1>1, <6>2, <6>3
        <5>3. QED
          BY <5>1, <5>2
      <4>2. QED
        BY <4>1 DEF IteratorsSound
    <3>5. QED
      BY <2>1, <3>3, <3>4 DEF IInv
  <2>4. QED
    BY <2>2, <2>3
<1>7. QED
  BY <1>5, <1>6 DEF io_readline

\* The finalizer closes what the script left open.
LEMMA io_gcStep ==
  ASSUME IInv, NEW h \in H, io_gc(h), life[h] # "none", iters' = iters,
         phase' = phase, tmudata \subseteq tmudata' \cup {h}, tmudata' \subseteq tmudata
  PROVE  IInv'
<1>1. life' = [life EXCEPT ![h] = "finalized"]
  BY DEF io_gc
<1>2. life' \in [H -> Lives] /\ life'[h] = "finalized" /\ \A k \in H : k # h => life'[k] = life[k]
  BY <1>1 DEF IInv, TypeInv, Lives
<1>3. Numbered'
  BY <1>2, SameNumbers
<1>4. ClosingIsComplete'
  <2>1. \A k \in tmudata' : k \in H /\ k \in tmudata
    BY DEF IInv, TypeInv
  <2>2. QED
    BY <1>2, <2>1 DEF IInv, ClosingIsComplete
<1>5. CASE handle[h].open
  <2>1. aux_close(h)
    BY <1>5 DEF io_gc
  <2>2. HandlesSound'
    BY <1>2, <1>5, <2>1, CloseSound
  <2>3. /\ handle' \in [H -> HandleType] /\ fp' \in [H -> FileType]
        /\ how' \in [H -> {"", "io_fclose", "io_pclose"}] /\ ~stale'
        /\ \A k \in H : k # h => handle'[k] = handle[k] /\ fp'[k] = fp[k]
        /\ \/ handle'[h] = handle[h] /\ fp'[h] = fp[h]
           \/ handle'[h].close = handle[h].close /\ fp'[h].st = "closed"
    BY <1>5, <2>1, CloseStep
  <2>4. TypeInv'
    BY <1>2, <2>3 DEF IInv, TypeInv
  <2>5. \A k \in H : life[k] # "none" =>
          /\ life'[k] # "none" /\ handle'[k].close = handle[k].close
          /\ fp[k].st = "closed" => fp'[k].st = "closed"
    BY <1>2, <2>3
  <2>6. IteratorsSound'
    BY <2>5, IteratorsKept
  <2>7. QED
    BY <1>3, <1>4, <2>2, <2>3, <2>4, <2>6 DEF IInv
<1>6. CASE ~handle[h].open
  <2>1. UNCHANGED <<handle, fp, how, stale>>
    BY <1>6 DEF io_gc
  <2>2. TypeInv'
    BY <1>2, <2>1 DEF IInv, TypeInv
  <2>3. Sound(h, life[h], handle[h], fp[h], how[h])
    BY DEF IInv, HandlesSound
  <2>4. Sound(h, life'[h], handle'[h], fp'[h], how'[h])
    BY <1>2, <1>6, <2>1, <2>3 DEF Sound
  <2>5. HandlesSound'
    BY <1>2, <2>1, <2>4, OneHandle
  <2>6. IteratorsSound'
    BY <1>2, <2>1, IteratorsKept
  <2>7. QED
    BY <1>3, <1>4, <2>1, <2>2, <2>5, <2>6 DEF IInv
<1>7. QED
  BY <1>5, <1>6

\* lua_close frees the handles only when every finalizer has run.
LEMMA close_stateStep ==
  ASSUME IOConstants, IInv, close_state
  PROVE  IInv'
<1>1. /\ phase = "gctm" /\ tmudata = {} /\ phase' = "closed" /\ life' = [h \in H |-> "freed"]
      /\ UNCHANGED <<handle, fp, iters, tmudata, how, stale>>
  BY DEF close_state
<1>2. \A h \in H : life'[h] = "freed" /\ life[h] # "live"
  BY <1>1 DEF IInv, ClosingIsComplete
<1>3. TypeInv'
  BY <1>1 DEF IInv, TypeInv, Lives
<1>4. HandlesSound'
  <2>1. SUFFICES ASSUME NEW h \in H PROVE Sound(h, life'[h], handle[h], fp[h], how[h])
    BY <1>1 DEF HandlesSound
  <2>2. Sound(h, life[h], handle[h], fp[h], how[h])
    BY DEF IInv, HandlesSound
  <2>3. QED
    BY <1>2, <2>2 DEF Sound
<1>5. Numbered'
  <2>1. {k \in H : life'[k] # "none"} = 1 .. MaxHandles
    BY <1>2 DEF H
  <2>2. MaxHandles \in 0 .. MaxHandles
    BY DEF IOConstants
  <2>3. QED
    BY <2>1, <2>2 DEF Numbered
<1>6. IteratorsSound'
  BY <1>1, <1>2, IteratorsKept
<1>7. ClosingIsComplete' /\ ~stale'
  BY <1>1 DEF ClosingIsComplete, IInv
<1>8. QED
  BY <1>3, <1>4, <1>5, <1>6, <1>7 DEF IInv

\* The greatest element of a set of handles.
LEMMA MaxOfHandles ==
  ASSUME IOConstants, NEW S \in SUBSET H, S # {}
  PROVE  Max(S) \in S
<1> DEFINE D == {MaxHandles - x : x \in S}
<1>1. D \in SUBSET Nat /\ D # {}
  <2>1. \A x \in S : MaxHandles - x \in Nat
    BY DEF H, IOConstants
  <2>2. QED
    BY <2>1
<1>2. PICK y \in D : \A z \in D : ~(<<z, y>> \in OpToRel(<, Nat))
  BY <1>1, NatLessThanWellFounded, WFMin
<1>3. PICK m \in S : y = MaxHandles - m
  OBVIOUS
<1>4. ASSUME NEW x \in S PROVE m >= x
  <2>1. MaxHandles - x \in D /\ MaxHandles - x \in Nat /\ y \in Nat
    BY <1>1, <1>2
  <2>2. ~(MaxHandles - x < y)
    BY <1>2, <2>1 DEF OpToRel
  <2>3. x \in Int /\ m \in Int /\ MaxHandles \in Int
    BY DEF H, IOConstants
  <2>4. QED
    BY <1>3, <2>2, <2>3
<1>5. QED
  BY <1>4 DEF Max

\* Every step keeps the invariant.
LEMMA NextStep == ASSUME IOConstants, IInv, [Next]_vars PROVE IInv'
<1> DEFINE I == [h : H, toclose : BOOLEAN, ended : BOOLEAN]
<1>0. iters \subseteq I
  BY DEF IInv, TypeInv
<1>1. ASSUME NEW h \in H, io_open(h) \/ io_popen(h) \/ io_tmpfile(h) PROVE IInv'
  <2>1. CASE io_open(h)
    BY <2>1, OpenStep DEF io_open
  <2>2. CASE io_popen(h)
    BY <2>2, OpenStep DEF io_popen
  <2>3. CASE io_tmpfile(h)
    BY <2>3, OpenStep DEF io_tmpfile
  <2>4. QED
    BY <1>1, <2>1, <2>2, <2>3
<1>2. ASSUME NEW h \in H, NEW f \in {"input", "output"}, g_iofile(f, h) PROVE IInv'
  BY <1>2, OpenStep DEF g_iofile
<1>3. ASSUME NEW h \in H, io_lines(h) PROVE IInv'
  <2>1. \/ iters' = iters
        \/ iters' = iters \cup {[h |-> h, toclose |-> TRUE, ended |-> FALSE]}
    BY <1>3 DEF io_lines, Iterator
  <2>2. Running /\ newfile(h, "io_fclose", "fopen") /\ phase' = phase /\ tmudata' = tmudata
    BY <1>3 DEF io_lines
  <2>3. QED
    BY <2>1, <2>2, OpenStep
<1>4. ASSUME NEW h \in H, f_lines(h) PROVE IInv'
  <2> DEFINE new == [h |-> h, toclose |-> FALSE, ended |-> FALSE]
  <2>1. handle[h].open /\ iters' = iters \cup {new} /\ UNCHANGED <<life, handle, fp, how, stale, phase, tmudata>>
    BY <1>4 DEF f_lines, Iterator
  <2>2. life[h] # "none"
    <3>1. Sound(h, life[h], handle[h], fp[h], how[h])
      BY DEF IInv, HandlesSound
    <3>2. QED
      BY <2>1, <3>1 DEF Sound
  <2>3. new \in I /\ new.h = h /\ ~new.toclose
    OBVIOUS
  <2> HIDE DEF new
  <2>4. iters' \subseteq I /\ \A i \in iters' : i \notin iters => life[i.h] # "none" /\ ~i.toclose
    BY <1>0, <2>1, <2>2, <2>3
  <2>5. ~stale'
    BY <2>1 DEF IInv
  <2>6. QED
    BY <2>1, <2>4, <2>5, QuietStep
<1>5. ASSUME NEW h \in H, Use(h) PROVE IInv'
  <2>1. ~stale'
    BY <1>5, TouchOpen DEF Use
  <2>2. UNCHANGED <<life, handle, fp, how, iters, phase, tmudata>>
    BY <1>5 DEF Use, script
  <2>3. QED
    BY <1>0, <2>1, <2>2, QuietStep
<1>6. ASSUME UNCHANGED <<life, handle, fp, how, stale, phase, tmudata>>, iters' \subseteq iters PROVE IInv'
  <2>1. ~stale'
    BY <1>6 DEF IInv
  <2>2. QED
    BY <1>0, <1>6, <2>1, QuietStep
<1>7. ASSUME NEW h \in H, Drop(h) \/ Resurrect(h) PROVE IInv'
  BY <1>6, <1>7 DEF Drop, Resurrect
<1>8. ASSUME NEW h \in H, NEW f \in {"input", "output"}, g_iofileHandle(f, h) \/ g_iofileGet(f) PROVE IInv'
  BY <1>6, <1>8 DEF g_iofileHandle, g_iofileGet
<1>9. ASSUME NEW f \in {"input", "output"}, g_iofileGet(f) PROVE IInv'
  BY <1>6, <1>9 DEF g_iofileGet
<1>10. ASSUME NEW i \in iters, DropIterator(i) PROVE IInv'
  BY <1>6, <1>10 DEF DropIterator
<1>11. ASSUME NEW h \in H, Collect(h) PROVE IInv'
  <2>1. /\ life[h] = "live" /\ io_gc(h) /\ iters' = iters /\ phase' = phase /\ tmudata' = tmudata
    BY <1>11 DEF Collect
  <2>2. tmudata \subseteq tmudata' \cup {h} /\ tmudata' \subseteq tmudata /\ life[h] # "none"
    BY <2>1 DEF IInv, TypeInv
  <2>3. QED
    BY <2>1, <2>2, io_gcStep
<1>12. CASE lua_close
  <2>1. /\ phase' = "gctm" /\ tmudata' = {h \in H : life[h] = "live"}
        /\ UNCHANGED <<life, handle, fp, iters, how, stale>>
    BY <1>12 DEF lua_close
  <2>2. TypeInv'
    BY <2>1 DEF IInv, TypeInv
  <2>3. Numbered'
    BY <2>1, SameNumbers
  <2>4. HandlesSound' /\ IteratorsSound' /\ ClosingIsComplete' /\ ~stale'
    BY <2>1 DEF IInv, HandlesSound, IteratorsSound, ClosingIsComplete
  <2>5. QED
    BY <2>2, <2>3, <2>4 DEF IInv
<1>13. CASE callallgcTM
  <2> DEFINE h == Max(tmudata)
  <2>1. phase = "gctm" /\ io_gc(h) /\ tmudata' = tmudata \ {h} /\ iters' = iters /\ phase' = phase
    BY <1>13 DEF callallgcTM
  <2>2. h \in tmudata /\ h \in H
    BY <1>13, MaxOfHandles DEF callallgcTM, IInv, TypeInv
  <2> HIDE DEF h
  <2>3. tmudata \subseteq tmudata' \cup {h} /\ tmudata' \subseteq tmudata
    BY <2>1 DEF IInv, TypeInv
  <2>4. life[h] # "none"
    BY <2>2 DEF IInv, ClosingIsComplete
  <2>5. QED
    BY <2>1, <2>2, <2>3, <2>4, io_gcStep
<1>14. CASE close_state
  BY <1>14, close_stateStep
<1>15. CASE UNCHANGED vars
  BY <1>6, <1>15 DEF vars
<1>16. ASSUME NEW h \in H, io_close(h) PROVE IInv'
  BY <1>16, io_closeStep
<1>17. ASSUME NEW i \in iters, io_readline(i) PROVE IInv'
  BY <1>17, io_readlineStep
<1>18. QED
  BY <1>1, <1>2, <1>3, <1>4, <1>5, <1>7, <1>8, <1>9, <1>10, <1>11, <1>12, <1>13, <1>14, <1>15, <1>16, <1>17 DEF Next

-----------------------------------------------------------------------------
(* The theorems.                                                           *)

\* The invariant holds in every state a script and the collector bring about.
THEOREM Invariance == ASSUME IOConstants PROVE Spec => []IInv
<1>1. Init => IInv
  BY InitIInv
<1>2. IInv /\ [Next]_vars => IInv'
  BY NextStep
<1>3. QED
  BY <1>1, <1>2, PTL DEF Spec

\* No FILE is used after it was closed, each is closed once and by the function
\* for the way it was opened, none is lost by an error, the collector or
\* lua_close, and a loop over io.lines closes its file at the end (liolib.c).
THEOREM FileSafety == ASSUME IOConstants PROVE Spec => []FilesAreSafe
<1>1. IInv => FilesAreSafe
  <2> SUFFICES ASSUME IInv PROVE FilesAreSafe
    OBVIOUS
  <2>h. DOMAIN fp = H
    BY DEF IInv, TypeInv
  <2>1. NoStaleFile
    BY DEF IInv, NoStaleFile
  <2>2. ClosedItsWay
    <3>1. SUFFICES ASSUME NEW h \in H, how[h] # ""
                   PROVE  how[h] = CASE fp[h].by = "popen" -> "io_pclose"
                                     [] fp[h].by \in {"fopen", "tmpfile"} -> "io_fclose"
                                     [] OTHER -> "never"
      BY <2>h DEF ClosedItsWay
    <3>2. Sound(h, life[h], handle[h], fp[h], how[h])
      BY DEF IInv, HandlesSound
    <3>3. /\ how[h] \in {"io_fclose", "io_pclose"} /\ fp[h].st # "none" /\ how[h] = handle[h].close
          /\ fp[h].by \in {"", "std", "fopen", "popen", "tmpfile"}
      BY <3>1, <3>2 DEF Sound, IInv, TypeInv, FileType
    <3>4. fp[h].by \in {"fopen", "tmpfile", "popen"}
      BY <3>2, <3>3 DEF Sound
    <3>5. QED
      BY <3>2, <3>3, <3>4 DEF Sound
  <2>3. NothingLeaks
    BY <2>h DEF NothingLeaks, IInv, HandlesSound, Sound
  <2>4. LoopClosesItsFile
    BY DEF LoopClosesItsFile, IInv, IteratorsSound
  <2>5. QED
    BY <2>1, <2>2, <2>3, <2>4 DEF FilesAreSafe
<1>2. QED
  BY <1>1, Invariance, PTL
=============================================================================
