----------------------------- MODULE LuaIOState -----------------------------
(***************************************************************************)
(* The state of the file handles and what is promised of it.               *)
(***************************************************************************)
EXTENDS Naturals, FiniteSets, FiniteSetsExt

VARIABLES
  life,       \* the state of each handle, a userdata
  handle,     \* whether its *pf is a FILE, and the __close of its environment
  fp,         \* the FILE behind each handle: its state, how it was opened
  IO,         \* the default input and output
  held,       \* the handles the script holds
  iters,      \* the iterators it holds: a handle, whether it is to be closed, whether it met the end
  phase,      \* "script", "gctm" while lua_close runs finalizers, "closed"
  tmudata,    \* the handles lua_close has still to finalize
  how,        \* history: the function that closed each FILE, "" for none
  stale       \* history: the C library was given a FILE that is closed

\* stdin and stdout
Std == {1, 2}

\* No call of the C library gets a FILE that was closed: not by a second
\* close, not by the finalizer, not through another handle, a default file,
\* an iterator or a handle that a finalizer brought back.
NoStaleFile == ~stale

\* Every FILE is closed by the function for the way it was opened, and the
\* standard files never are.
ClosedItsWay ==
  \A h \in DOMAIN fp : how[h] # "" => how[h] = CASE fp[h].by = "popen" -> "io_pclose"
                                                  [] fp[h].by \in {"fopen", "tmpfile"} -> "io_fclose"
                                                  [] OTHER -> "never"

\* An open file belongs to a handle that is still to be finalized: neither
\* an error nor lua_close loses it.
NothingLeaks ==
  \A h \in DOMAIN fp : fp[h].st = "open" /\ h \notin Std => life[h] = "live" /\ handle[h].open

\* The loop over io.lines(name) that met the end of its file has closed it.
LoopClosesItsFile == \A i \in iters : i.toclose /\ i.ended => fp[i.h].st = "closed"

\* All four: no FILE is used after it was closed, each is closed once and by
\* the function for it, none is lost, and a loop over io.lines closes its file.
FilesAreSafe == NoStaleFile /\ ClosedItsWay /\ NothingLeaks /\ LoopClosesItsFile
=============================================================================
