----------------------------- MODULE MCLuaFiles -----------------------------
(***************************************************************************)
(* One run for what Lua keeps and gives up: file handles (LuaIO), what     *)
(* file:read takes from a file (LuaRead), dumped chunks (LuaChunk) and the *)
(* heap with its collector (LuaGC).  part says which of them a behaviour   *)
(* is of; the others stay in an initial state.                             *)
(***************************************************************************)
EXTENDS LuaChunk, LuaIOState

VARIABLES part, text, pos, asked, results, marks, heap, plan, full, called

-----------------------------------------------------------------------------
(* Two files besides the standard ones, and texts of up to four characters *)
(* read through a buffer of three.                                         *)
Handles == INSTANCE LuaIO WITH MaxHandles <- 4, MaxIterators <- 1
Reading == INSTANCE LuaRead WITH content <- text, Chars <- {0, 2, 3, 4, 10}, MaxLength <- 4, Counts <- {0, 1, 4},
                                 LUAL_BUFFERSIZE <- 3
ASSUME Handles!IOConstants /\ Reading!ReadConstants

(* Two slots to a stack, and a few objects of the kinds that interact.     *)
HeapPlans ==
  {<<"thread", "closure">>, <<"closure", "closure">>, <<"closure", "string">>, <<"table", "string", "string">>, <<"table", "udata">>}
Heap == INSTANCE LuaGC WITH g <- heap, Plans <- HeapPlans, Slots <- {1, 2}, CoSlots <- {1}

-----------------------------------------------------------------------------
(* Functions to dump.                                                      *)

Fun(source, k, p, code) ==
  [source |-> source, linedefined |-> 4, nups |-> 1, numparams |-> 2, maxstacksize |-> 3, code |-> code, k |-> k,
   p |-> p, lineinfo |-> [i \in DOMAIN code |-> 7], locvars |-> <<[varname |-> <<105>>, startpc |-> 0, endpc |-> 1]>>,
   upvalues |-> <<<<106>>>>]

File == <<101, 102>>
Consts == <<[t |-> LUA_TNIL, v |-> 0], [t |-> LUA_TBOOLEAN, v |-> 1], [t |-> LUA_TNUMBER, v |-> 9], [t |-> LUA_TSTRING, v |-> <<>>],
            [t |-> LUA_TSTRING, v |-> <<103, 104>>]>>
Leaf == Fun(File, <<>>, <<>>, <<501, 502>>)
Bare == [Leaf EXCEPT !.lineinfo = <<>>, !.locvars = <<>>, !.upvalues = <<>>, !.source = Unknown]
Tree == Fun(File, <<>>, <<Leaf, Fun(File, <<>>, <<Leaf>>, <<502>>)>>, <<501, 501, 502>>)

Nested(g) == Fun(File, <<>>, <<g>>, <<502>>)
Deep == Nested(Nested(Nested(Bare)))

\* The last one is nested too deeply.
MCFunctions == {Fun(File, Consts, <<>>, <<502>>), Bare, Tree, Deep}

MCcheckcode(code) == code # <<>> /\ code[Len(code)] = 502 /\ \A i \in DOMAIN code : code[i] \in {501, 502}
MCBlocks(g, stripped) == LET b == DumpFunction(g, NULL, stripped) IN b
MCParsed(y) == LET s == f_parser(y) IN s
MCDamage == {501, 502, 503}

-----------------------------------------------------------------------------
(* The run.                                                                *)
handleVars == <<life, handle, fp, IO, held, iters, phase, tmudata, how, stale>>
readVars == <<text, pos, asked, results, marks>>
heapVars == <<heap, plan, full, called>>
suiteVars == <<part, handleVars, readVars, heapVars, vars>>

SuiteInit ==
  /\ part \in {"chunks", "handles", "reads", "heap"}
  /\ Handles!Init
  /\ Heap!Init /\ (part # "heap" => plan = <<"closure", "closure">>)
  /\ Reading!Init /\ (part # "reads" => text = <<>>)
  /\ Init /\ (part # "chunks" => f = Bare /\ strip)
SuiteNext ==
  \/ part = "chunks" /\ Next /\ UNCHANGED <<part, handleVars, readVars, heapVars>>
  \/ part = "handles" /\ Handles!Next /\ UNCHANGED <<part, readVars, heapVars, vars>>
  \/ part = "reads" /\ Reading!Next /\ UNCHANGED <<part, handleVars, heapVars, vars>>
  \/ part = "heap" /\ Heap!Next /\ UNCHANGED <<part, handleVars, readVars, vars>>
SuiteSpec == SuiteInit /\ [][SuiteNext]_suiteVars

(***************************************************************************)
(* Dumped chunks: what luaU_dump wrote luaU_undump loads as it was, what   *)
(* is cut off it refuses, and no code comes out unchecked.                 *)
(***************************************************************************)
ChunksSurvive == part = "chunks" => RoundTrip /\ TruncationNoticed /\ OnlyCheckedCode

(***************************************************************************)
(* file:read gives what the manual promises for its formats and skips      *)
(* nothing, or reports the error of the device; lines with a zero byte are *)
(* excepted.                                                               *)
(***************************************************************************)
ReadsAreExact == part = "reads" => Reading!ReadsAsPromised

\* Without the exception (liolib.c 304 takes the length of a line from strlen).
LinesAreWhole == part = "reads" => Reading!LinesAsPromised

(***************************************************************************)
(* The heap: what the program reaches is neither freed nor about to be and *)
(* what it reaches no more is finalized once; while marking no black       *)
(* object points to a white one.                                           *)
(***************************************************************************)
CollectionIsSafe == part = "heap" => Heap!CollectionIsSafe
BlackNeverToWhite == part = "heap" => Heap!BlackNeverToWhite

\* A cache with weak values hands out nothing that awaits its finalizer or was finalized.
CachesForgetFinalized == Heap!CachesForgetFinalized
=============================================================================
