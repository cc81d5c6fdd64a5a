# A verification of the socket library for Lua games

The repository is a small C++ library that gives Lua scripts a non-blocking TCP
client on iOS, Windows and Android: `SocketObject` and `CLuaMsg` are registered
as Lua classes, a script connects, calls `UpdateNetMsg(dt)` in every frame of its
game loop, writes messages and loads those that have arrived.  The Lua
interpreter that runs the scripts is part of the repository and of the library it
builds.  This directory models both in TLA+, checks the models with TLC and
proves the most important facts about the network side, the script API, the class
binding, the file handles and the calls of Lua with TLAPS.

Everything runs in one thread.  What makes the socket code hard is the outside: the
kernel and the peer change the socket between any two system calls, `send()` and
`recv()` transfer any part of what they were given, an error can strike with a
frame half sent and another half received, and a script can reconnect at any time.
What makes the interpreter hard is inside: a garbage collector that works between
any two instructions, errors and coroutines that leave C functions half done, a
compiler that decides with one token of lookahead which code to emit, and data
structures that reorganise themselves while they are in use.

## Inventory

| part | code | state | operations |
|---|---|---|---|
| frame codec | `NetMessage.h/.cpp` | `m_size`, `m_headSize`, `m_bufStartPos`, `m_curPos`, a buffer | `getReadCap`, `onReceive`, `isEnd`, `beginForWrite`, `wRaw`, `endForWrite`, `getSendCap`, `onSend`, resets |
| typed fields | `NetMessage.cpp` 341-574 | the cursor | a `w` and an `r` method per type |
| buffer pool | `NetMessage.cpp` 14-203 | `m_pool` ordered by length, `m_hasInit` | `Init`, `require`, `release`, `enlarge`, destruction |
| connection manager | `ConnectionManager.h/.cpp` | `m_netState`, `m_port`, `m_pSocket`, `m_tOutTimer`, `m_sendList`, `m_recvList` | `Connect`, `ReConnect`, `Close`, `Update`, `SendMsg`, `getMsg`/`RemoveMsg`, `ClearCached` |
| socket wrapper | `SocketCommon.h/.cpp` | descriptor, read and write flag | thin calls of the socket API |
| script API | `eng_socket.*`, `LuaMsg.*` | the set of named `SocketObject`s, the manager of each, the message of each `CLuaMsg` | the methods a script calls |
| class binding | `LuaWrapper.*` | metatables, weak tables, userdata | registration, `push`, `__gc` |
| Lua compiler | `lua/src/lparser.c`, `lcode.c`, `lopcodes.*` | one `FuncState` per open function, the `expdesc`s, the code | the grammar's productions, the code generator |
| code checker, error names | `ldebug.c` | none | `luaG_checkcode`, `symbexec`, `getobjname` |
| virtual machine | `lvm.c`, `ldo.c`, `lfunc.c`, `ltm.c` | stack, frames, upvalues, tables | one step per opcode |
| garbage collector | `lgc.c`, `lfunc.c`, `lstring.c` | marks, lists of gray objects, the phase | mark, propagate, atomic, sweep, finalize, barriers |
| tables | `ltable.c` | array part, nodes, the free pointer | get, set, rehash, length, `next` |
| calls, errors, coroutines | `ldo.c`, `lbaselib.c` | frames, `nCcalls`, `errorJmp`, status | call, return, `pcall`, error, handler, resume, yield |
| string patterns | `lstrlib.c` | captures, position | `match`, `find`, `gmatch`, `gsub` |
| table library | `ltablib.c` | the table | `insert`, `remove`, `sort` |
| precompiled chunks | `ldump.c`, `lundump.c`, `lzio.c` | the stream and its buffer | dump, load, refill |
| file handles | `liolib.c`, `lstate.c` | `FILE`s, handles, defaults, iterators | open, close, read, lines, `__gc`, `lua_close` |
| lexer, other libraries, tools | `llex.c`, `lmathlib.c`, `loslib.c`, `ldblib.c`, `loadlib.c`, `lfs.c`, `luawarp.c`, `lua.c`, `luac.c` | - | see "Not modelled" |
| encryption hooks | `ConnectionManager.cpp` 366-393 | `m_encryptInited` | empty bodies |

How they interact.  A script's `CLuaMsg` owns a `NetMessage` while it is written,
`SendMsg` hands it to the manager's `m_sendList`, and `Update` sends the front of
that list piece by piece and deletes it.  In the other direction `Update` receives
into the back of `m_recvList`; `HasPendingMsg` looks whether the front is complete
and `LoadMsg` moves it into a `CLuaMsg`.  Each `NetMessage` borrows its buffer from
the pool in its constructor, grows it while it is used and gives it back in its
destructor.  `Update` learns about the network only from `select()` (in
`CheckState`) and from the results of `send()` and `recv()`.  `SocketObject` and
`CLuaMsg` are owned by userdata and die in their finalizers, so the collector
decides when a connection closes.  A script is compiled to code that the virtual
machine executes; the machine calls the tables, the collector and the libraries.

What makes each part correct:

* codec: no byte outside the buffer; a reader and a writer agree on every frame,
  however the stream is cut and whichever header format applies; fields come back
  as they were written;
* pool: one owner per buffer, order by length kept, best fit handed out;
* manager: a socket exactly when the state says so, no descriptor lost, no
  fragment of one connection on the next, no message reordered, time-outs neither
  early nor missing, dead peers noticed, queues flushed;
* script API: a message has one owner whatever a script does, and one that keeps to
  the protocol meets no null pointer, no endless loop and no lost message;
* class binding: a userdata stands for the object it was made for, and a dropped
  object is deleted;
* compiler and machine: a chunk computes what the language says, or fails as it says;
* collector: nothing in use is freed, finalizers run once;
* calls: limits hold, counts do not drift, a yield leaves nothing behind;
* tables, lists, patterns, chunks, files: what a program sees is the map, list, match,
  function or file it asked for.

The hazards, each with its line and the properties that cover it, are in
`PROJECT.json`.

## Modules of the network side

`NetMessage` holds the codec as operators on a record of cursors.  The width of a
byte is the parameter `Base` (256 in the code); the 0xFFFF mark, the range of an
`int` and the conversion from unsigned follow from it, so that overflow happens in
a small instance exactly where it happens in the program.  Length fields are
written and parsed digit by digit.  `checkBufSize` is the C loop as a recursive
function over `enlarge`; it returns 0 where the loop never ends: a failed `realloc`
sets the length to 0, and doubling 0 gives 0.

`FrameReader` is the receive loop seen from one buffer.  The peer may announce any
length, and `recv()` returns any non-empty part of what was asked.  `status` turns
to `overrun` when a byte lands outside the buffer and to `hung` when
`checkBufSize` does not return; both end the behaviour.  Only the first four bytes
of the buffer influence control, so only those are state.

`Framing` puts a writer and a reader together with explicit bytes between them:
writing a message, cutting it into `send()` calls, reassembling it from `recv()`
calls, loading it.  `MsgChannel` is the promise: messages loaded in the order
sent, each whole and once.  `ShortHeaderReads` says whether `recv()` may split a
frame header.  The code does not survive such a split (see "Disagreements"), so the
passing run and the proofs assume it away, as a network whose segments carry at least
a header would, and nothing else is assumed of where the stream is cut.  Payloads are
those `WriteRaw` can make room for (`PayloadAssumption`); with a longer one it never
returns, which is `FrameReader`'s subject and not that of the channel.

`Codec` has every typed writer and reader: what each appends to the buffer and how
it reassembles it, with the masks, shifts and sign conversions of the code.  A
float is the integer with its bits and a double its eight bytes, as the code
treats them.

`ConnectionManager` is the state machine.  Messages have `Units` pieces and the
lists hold how many pieces are left or have arrived.  Calls that make no system
call in a loop are single actions.  `Update` is one action up to the two loops
(five cases, following the early returns), and from there one action per system
call, with `pc` telling which `select()`, `send()` or `recv()` comes next, so that the
actions of the kernel and the peer (`Handshake`, `PeerSend`, `PeerRead`,
`PeerUrgent`, `PeerClose`, `PeerReset`) fall between any two of them.  The flags of
the socket are what the last `CheckState` saw and may be stale.  Any `select()` may
fail, as it does with `EINTR`, which `CheckState` treats like an exceptional descriptor
(`SelectError`); `seen` has which of out-of-band data and a failed `select()` there was
since the socket was made.  Two platforms are
covered at once: a refused connection is an exception for Winsock's `select()` and
mere readiness for POSIX.  `DoConnect` chooses how many addresses failed before
the outcome; the loop does not close their descriptors, and `lost` counts them.
History variables (`elapsed`, `seen`, `txOff`, `rxOff`, `lost`) record what
properties need and guard nothing except the bound on `lost`.

`Session` is what the manager promises a script: a link that is down, opening or
up, an outbox and an inbox.  Messages move only while the link is up; a link that
breaks loses nothing; opening it again starts from empty boxes, except that what
was queued before the first connection is kept for it.  The refinement maps the
inbox to the number of complete messages, so a message in pieces is invisible.

`MsgBufPool` is the pool with all buffers ever made; `malloc` may fail at any time.
`MsgBufPoolState` declares its state and says what is promised of it, and is shared by
the module, its proofs and its run; `LuaClassesState` and `LuaIOState` are the same for
`LuaClasses` and `LuaIO`.

`SocketApi` is what a script can do wrong.  Objects are found by name in a set
ordered by address, so an object that was dropped and is not yet collected may
answer in place of its successor; message handles can be reused, sent unfinished
and loaded when nothing is pending.  The connections are reduced to their queues.
The variable `polite` records whether the script has kept to the protocol that the
code silently assumes; `OneOwner` holds for every script, `PoliteIsSafe` and
`NothingLost` for polite ones, and `LoadsWholeMessages` says what `HasPendingMsg`
is good for.  The protocol is what a script can keep to by what it sees: it knows
its live objects, not which dropped ones are still in the set.  A name may
therefore be used again while an object that had it waits for the collector, and
that one, at a lesser address, may answer (`Hidden`).  A polite script then can still
take a message that is not there, and this is the only null pointer
`PoliteIsSafe` allows; a name whose lookup is not hidden never fails.

`LuaClasses` is the class binding with the collector steps it depends on: the
atomic step that clears the weak table, the finalizers that run one by one later,
and an allocator that hands out the address of a deleted object again.

## Modules of the Lua side

`LuaCode`, `LuaCheck` and `LuaParser` are the compiler, as operators on one record
`S` that holds what the C code keeps in `LexState`, `FuncState` and the `expdesc`
passed by pointer.  Names are those of the C functions.  An error is a field of the
record, after which the rest of the input is dropped, as `longjmp` does.  Failed
`lua_assert`s are recorded, so that `CodeIsSound` can say that none fails.  The
widths of operands and the limits of `luaconf.h` are constants.  `LuaCheck` is also
the symbolic execution with which error messages find names.

`LuaVM` executes the code, one action per opcode, on a stack with frames, open
and closed upvalues, tables with metatables and the base functions a chunk needs.
`LuaEval` gives the same chunks a meaning by structural recursion over their syntax
trees, with neither registers nor jumps; it models no code and is the reference.
`MCLua` has the chunks.  An action of `LuaVM` picks a tree, its tokens are compiled and run,
and `ResultAgrees` and `ErrorAgrees` compare the end with the reference: values,
kind of error and the variable an error blames.

`LuaGC` interleaves the collector with a program that allocates, stores and forgets.
How much a step does and when it is due is left open; any step may come at any
time, which includes every schedule of the code.  The lists of objects are sets,
so the order in which gray objects are visited is open as well.

`LuaTable` has both parts of a table with explicit nodes and chains, collisions, the
moves of an insertion, `rehash`, the length and the traversal, with entries
cleared and collected meanwhile.  `LuaMap` is the promise: a function from keys to
values.  `LuaTable` is shown to refine it.

`LuaCall` has the control of calls: the frames of each `lua_State` and the C stack,
one entry per activation of `luaV_execute`, through errors, handlers, limits,
yields and resumptions.

`LuaPattern` is the matcher of `lstrlib.c` with its captures and the loops around
it; `PatternMeaning` lists all ways to match a pattern, the preferred first, and is
the reference.  `LuaTableLib` has `insert`, `remove` and the quicksort, with an order
function that may be none.  `LuaChunk` writes and reads functions through writers that
fail and readers that cut, truncate and damage.  `LuaIO` has handles, defaults,
iterators, finalizers and `lua_close`; `LuaRead` the formats of `file:read`, against the
manual's promise, over a device that may fail at any character of any read.  Where the
C standard leaves `fscanf` a choice, after a malformed number such as `-` or `2e`, it may
put back to the last whole number, fail and keep what it took, or take the number in
front of it.

`MC...` modules give the constants their values.  Some put several components into
one run: a variable `part` says which of them a behaviour is of, the others stay
in an initial state, and `SuiteInit`, `SuiteNext` and `SuiteSpec` put them side by
side.  The components share no state there, so such a run says about each of them
what a run of its own would.

Definitions whose comment starts with "Mutant" are plausible mistakes in the code;
replacing the definition that follows by one of them violates a property, which
shows that the property watches that code.

## Runs

| run | modules | checks | result |
|---|---|---|---|
| `messages` | `FrameReader`, `Codec`, `MsgBufPool` | `BufferSafe`, `HangsOnlyOnHugeLength`, `FieldsSurvive`, `PoolIsSound`, `BestFit` | holds |
| `framing` | `Framing`, `MsgChannel` | `CursorsInBuffer`, `ChannelSpec`, `EventuallyLoaded` | holds |
| `framing_short_read` | `Framing`, split headers | `FourLengthBytes` | violated |
| `connection_manager` | `ConnectionManager`, `Session` | `ListShape`, `StreamsAligned`, `FdsAccounted`, `NullOnlyAfterSelectError`, `NoEarlyTimeout`, `SessionSpec`, `ConnectingEnds`, `DeadPeerNoticed`, `QueueDrains` | holds |
| `script` | `SocketApi`, `LuaClasses` | `OneOwner`, `PoliteIsSafe`, `NothingLost`, `LoadsWholeMessages`, `UserdataOwnObjects`, `DroppedIsDeleted` | holds |
| `lua_run` | `LuaParser`, `LuaVM`, `LuaEval` | `CodeIsSound`, `StackIsSound`, `ResultAgrees`, `ErrorAgrees` | holds |
| `lua_logic` | same, nested logical operators | `ResultAgrees` | violated |
| `lua_call` | `LuaCall` | `StacksBounded`, `CoroutinesSound` | holds |
| `lua_panic` | `LuaCall` | `PanicOnlyUnprotected` | violated |
| `lua_data` | `LuaTable`, `LuaMap`, `LuaTableLib`, `LuaPattern`, `PatternMeaning` | `TablesAreSound`, `TablesAreMaps`, `ListsAreSound`, `SortTerminates`, `PatternsAreSound` | holds |
| `lua_files` | `LuaChunk`, `LuaIO`, `LuaRead`, `LuaGC` | `ChunksSurvive`, `FilesAreSafe`, `ReadsAreExact`, `CollectionIsSafe`, `BlackNeverToWhite`, `CachesForgetFinalized` | holds |
| `lua_read_zero` | `LuaRead` | `LinesAreWhole` | violated |

What each run shows, in a sentence, is in `PROJECT.json`.

Bounds of the network side.  A byte has two bits in the codec runs: the mark is 15,
an `int` has eight bits, and the 512-byte buffer has 8 bytes.  That keeps every
boundary: short and long headers, lengths at and beyond the largest `int`, lengths
that need several doublings and lengths the heap of 64 bytes cannot serve.  Fields of one
byte are taken in full and the wider ones at the ends of their ranges, two to a
message, so that one follows another.  The pool starts with one buffer of each of
two lengths and makes at most five, so it is emptied and refilled; lengths grow to
four times the default.  `Framing` sends two messages of lengths 0, 2, 14, 15 and
16 through a pipe of 7 bytes, so frames follow each other, straddle `send()` calls
and touch the boundary of the formats from both sides; payloads repeat the byte of
which the mark is made.  In `ConnectionManager` messages have two pieces, the
smallest number with a partial transfer; two messages to send, and three between
the kernel and the receive list, suffice because only the ends of the lists are
treated differently; the kernel's buffer holds three pieces, so that it can fill in
the middle of the second message; frame times of 0, 1 and 3 against a time-out of 3
include the frame that does not move the timer and the one that ends it at once.
Scripts have two addresses, two names, two handles and three messages: enough for
an object and its predecessor of the same name, and for a handle reused while its
message is queued.

Bounds of the Lua side.  The chunks of `lua_run`, some eleven thousand, are families
over small parameter sets: operands of logical operators in every position,
multiple assignments that use the variables they assign, closures over the
variables of loops, parameters and results in every number, constructors longer
than a batch, loops, arithmetic with and without metamethods, concatenations, errors on
values named in every way, a number of whole programs, chunks that grow past each
limit, and chunks with a bracket or keyword missing.  The limits are set so low (13
registers, one RK constant, jumps of 18, two items to a `SETLIST`, arguments up to 2,
3 upvalues) that the code for large functions is reached by small ones.  The heap of
`lua_files` takes two slots to a stack and five plans of two or three further objects whose
kinds interact; a lost mark needs one black object, one white one and one way to
it.  `lua_call` has two interchangeable coroutines, which can resume one another, and an
overflow at the fourth C call, so that each can call a C function and try to yield
there.  With a limit of four frames to a thread the room for them grows twice, overflows
and shrinks again; all threads together have at most eight frames (`MaxFrames`), one
more than a single thread has after an overflow.  Table keys are four integers and a
string that collide in every size the node part takes; lists have up to five elements
of two values, so that the recursion of `sort` happens; patterns have up to three
items and two captures on subjects of up to four characters.  Chunks have
functions nested up to the limit and one beyond, and two handles are open besides the
standard ones.  Files have up to four characters, each a zero byte, a digit, a sign,
an exponent or a newline, and are read through a buffer of three, by any sequence
of reads with up to two formats: enough for a line longer than the buffer and for
every way a number can break off, with something left to be read behind it.

Deadlock checking is off in all runs, since every model has proper ends: a
crashed or hung program, a program that has returned or exited, and the bounds.

Fairness.  `ConnectionManager!FairSpec` assumes that an `Update` with a non-zero
frame time is called again and again, which is the game loop's job, and that an
`Update` once called runs on: weak fairness of its steps other than those in which
`select()` fails.  Such a failure is never owed, or it would end attempts that the code
lets hang; where it happens the socket is gone and nothing more is asked of `Update`.
Nothing is assumed of the network either, which may stay silent for ever; the properties
are stated so that this is allowed for (a queue drains unless the kernel's buffer stays full, an
attempt ends unless the script starts it over).  `Framing!FairSpec` assumes the
same loops at both ends, and that the receiving script loads what is pending.
`LuaClasses!Fairness` assumes that the collector goes on, which allocation makes it
do.  `LuaTableLib!Fairness` says that `sort`, once called, goes on: there is one thread.

## Disagreements between code and comments

With a run:

* `getReadCap` asks for four bytes again when one to three of the four length bytes
  are already there; the comment in `onReceive` speaks of "another 4 byte".  After
  such a split the cursor can step over the end of the header, and the header is
  never parsed (`framing_short_read`).  The same holds for the two-byte header.
  `BufferSafe` names this as one of only two ways a write can leave the buffer.
* `luaK_goiftrue` treats a constant that is false like an unconditional jump; jumps that
  are pending there and carry a value join a list whose targets ignore it.  A chunk
  like `local x = true; return ((x or true) and false) and true` gives another value
  than the manual says (`lua_logic`).  `lua_run` has all operands with fewer operators,
  where the results agree.
* `luaD_throw` of this repository calls the panic function also for errors that a
  protected call is about to catch; the manual reserves it for errors outside any
  protected environment (`lua_panic`).
* `read_line` takes the length of what `fgets` read from `strlen` (`liolib.c` 304), so a
  zero byte cuts a line, and a last line of nothing else is consumed and answered with
  nil, as the end of the file is.  The manual promises the next line, and strings
  with embedded zeros (`lua_read_zero`).  `ReadsAreExact` excepts these lines, and only
  these: reads before and behind them are as promised.

Without one, as they harm nothing the properties are about, or are named by them:

* `m_size` receives an unsigned length: from 2^31 on it is negative, although its
  comment (`NetMessage.h` 23-25) reserves negative values for sizes not yet known.
  `BufferSafe` names lengths whose sum with the header does not fit an `int` as the
  other way to leave the buffer.
* The comment on `m_headSize` (`NetMessage.h` 27) says "2 or 4"; a long message being
  written has 6, with which `isEnd` and `getSendCap` are right.
* `lua_close` calls the finalizers of what exists (`lstate.c` 203) and then frees what a
  finalizer has opened meanwhile without finalizing it; `NothingLeaks` is stated for
  handles that are still to be finalized.

Two further facts are part of properties that hold.  The address loop abandons
descriptors: `FdsAccounted` says that it is the only place that does.  And
`CheckState` inside the two loops may delete the socket that the head of the loop
dereferences: `NullOnlyAfterSelectError` says that this takes out-of-band data or a
`select()` that failed, on this connection; no other error of the peer or the kernel gets
there.

## Proofs

`ConnectionManagerProofs` proves, for every number of pieces, port set, time-out,
set of frame times, kernel buffer and bound, from the assumptions stated next to the
constants, that `Spec` implies each invariant of the `connection_manager` run, the
type invariant and `SocketMatchesState`, and that it implements `Session`.  The
invariant is `IInv`, in three parts that are inductive in this order:

* `ControlInv`: types of the control variables, `SocketMatchesState`, and two facts
  that the properties do not mention: `PcInv` (inside Update's loops the state is
  Connected, unless urgent data or a failed `select()` has just removed the socket) and `KernelInv` (once
  Connected the handshake is over, so only urgent data can be an exception).
  `NullOnlyAfterSelectError` follows from `PcInv`.
* `CountInv`: numbers, `FdsAccounted`, and `TimerInv`, that while connecting the timer
  is the time-out less the elapsed frame time.  Without it a time-out could not be
  shown to be due.
* `ListInv`: list types, `ListShape`, `StreamsAligned`, and `PortInv`: without a
  server there is neither a socket nor a fragment.  It is needed because the first
  `Connect` keeps the queues, and is right to do so only because nothing in them
  has ever been on a connection.

The refinement proof shows per action which step of `Session` it is, or that it
changes none of its variables; the lemma `PendingIsReceived` relates the inbox to
the received pieces.

`FrameReaderProofs` proves type correctness, `BufferSafe` and `HangsOnlyOnHugeLength` for
every base, every pool and every heap limit.  `BufferSafe` is not inductive: it speaks
of the state after the damage.  `IInv` says where the cursor may be before each
`recv()`: inside the short header, inside the long one, inside a payload for which room
was made, past a missed header, or with a length that is too large; the last two are
absorbing.  `RecvCases` reduces one `recv()` to its effect on the cursors.  The loop of
`checkBufSize` is a recursive function; `LoopExists` shows that its equation has a
solution and `RoomIsMade` what the loop returns: enough room, or 0, and 0 only if the
need is more than half of the heap.  `LessIsMet` adds that a smaller need is met where a
larger one is.  These are inductions over the lengths of a buffer, done by taking the
longest or shortest counterexample, since the induction theorems of the library cannot
be instantiated.

`FramingProofs` proves that `Framing` keeps `CursorsInBuffer` and implements `MsgChannel`
(`ChannelSpec`), for every base, all payloads within `PayloadAssumption`, every socket
buffer and any number of messages, under the hypothesis `~ShortHeaderReads`.
Without it `CursorsInBuffer` is false (a header that is missed lets the cursor run past the
buffer); `ChannelSpec` then holds on the instance of `FramingShortRead.cfg`, where TLC
checked it, and is not proved.  Neither property follows from the lists alone.  `IInv` gives every
byte a position in the stream of all frames: `off[i]` is where the `i`-th frame begins and
`r` how far the receiver has read.  `Sending` says that each message in `m_sendList` holds
its frame (`Queued`) and where in the stream the sender is, `Carrying` that the wire holds
the bytes between the two positions, and `Receives` that each message in `m_recvList` is new,
behind the mark or partly filled with the right payload (`Arriving`), all but the last
complete, and that its progress gives `r`.  `Frames` shows, with `ShortDigits` and `LongDigits`,
that the header bytes `endForWrite` stores are parsed to the length they came from;
`WrittenIsQueued`, `SendOne`, `RecvOne` and `LoadStep` are the steps of one message, and
`OnePlace` (no position belongs to two frames) carries them to the stream.  `OpenStep`
shows that Update starts a new `NetMessage` only for a frame that was sent.

`MsgBufPoolProofs` proves `PoolIsSound` and `BestFit` for every ascending list of initial
lengths, every set of requests and every bound (`PoolConstants`).  The two parts of
`PoolIsSound`, one owner and the order, are inductive only together and with the
types: `enlarge` changes a length without moving the buffer, which keeps the order
because a buffer that is lent is not in the pool.  `RequireStep` and `ReleaseStep` rest on
lemmas about taking an element out of a sequence and putting one in, and on
`FirstFitProperties`, which says what the search of `require` finds.

`SocketApiProofs` proves the four safety properties of `SocketApi` for every finite set
of addresses, all names and handles and every bound on the messages (`ApiAssumption`).
`OneOwner` counts places; `Owned` says the same as disjointness of queues and handles,
which the steps preserve, and `OwnedMeansOneOwner` goes back.  `PoliteIsSafe` speaks
only of `fault`.  It needs `Protocol` (what a polite script queued is finished, so no send is
endless, and a fault, which ends the behaviour, was met with a name that was hidden then)
and `Said`: a socket that answered `HasPendingMsg` with true still has that message, whole
and first, whatever happened since.

`LuaClassesProofs` proves `UserdataOwnObjects` for every set of classes and addresses and
every bound (`ClassesConstants`).  The property speaks of the userdata a script holds;
`Bound` says of all of them that pointers and objects correspond one to one, `Known` that
the weak tables and the script have only userdata that keep their object and do not
wait for a finalizer, and `Waiting` that each waits once and keeps its pointer until
then.  Without `Waiting` an address could be reused while an old userdata points to it.

`LuaIOProofs` proves `FilesAreSafe` for every number of handles and iterators from two
handles up, the standard files (`IOConstants`).  `HandlesSound` is local to a handle:
its pointer is set exactly while the `FILE` is open and its environment names the
function that fits.  `Numbered` gives a new handle a fresh number, `ClosingIsComplete` says
that `lua_close` has every live handle on its list, and `IteratorsSound` that an iterator
which will close its file has one that `fclose` closes.

`LuaCallProofs` proves `StacksBounded` and `CoroutinesSound` for every set of coroutines and
all limits (`CallAssumption`), however deeply calls, handlers and resumptions nest.  The
properties speak of counts and depths; the invariant `IInv` says why these agree.  `Blocks`
is the shape of the C stack: the activations of a thread lie together, and the first of
a coroutine is the one that resumed it.  `Counts` ties `nCcalls`, `baseCcalls`, the status
and the handler of each thread to that shape; it is what makes the test of `lua_yield`
(`nCcalls > baseCcalls`) the right question.  `Frames` says that levels grow with the
activations and that a thread which waits has the frame of `coroutine.resume` above all
that is saved for it, without which a catch could return to a frame that is gone.
`Limit` is the depth itself, one more while an error in error handling is thrown.
The lemmas describe pushing an activation, cutting the stack, and changing one
thread; each operation of `ldo.c` is then one of these, or two in a row.

Only model-checked: all liveness properties (the prover has no fairness), that of
`Framing` (`EventuallyLoaded`) among them; the properties of `Codec`, `LuaChunk`, `LuaRead`,
`LuaTable`, `LuaTableLib` and `LuaPattern`, and those of the compiler and the virtual
machine (what recursive definitions or folds compute for whole sequences, which needs
induction over data); and those of `LuaGC`, whose traversal of the gray objects and
closing of upvalues are folds over the heap.

## Not modelled

Network side.  Name resolution beyond success or failure, socket options
(`KeepAlived`), the log output, `dump`, the empty encryption hooks and `generateSecret`
have no effect on the state the properties are about.  `Bind`, `Listen` and `Accept`
are never called.  Two facts known from reading are outside the models: a peer
that always sends faster than the receive loop reads keeps `Update` from returning
(`ConnectionManager.cpp` 136; the model's bound on what a peer sends ends the loop), and
descriptors that reach `FD_SETSIZE` (`ConnectionManager.cpp` 320).  `Framing` has the
messages a script writes; forwarding one that was received is in `SocketApi` without
its bytes.

Lua side.

* The lexer: the tokens are the input of `LuaParser`.
* `lapi.c` and `lauxlib.c` beyond what modelled code calls: they move values on the stack
  for callers that are modelled.  Likewise line information and hooks in `ldebug.c`.
* `string.format`, `string.rep` and the like, `math`, `os` and `debug`: they compute or
  report and keep no state.  `loadlib.c` depends on the platform's linker.
* A comparator of `sort` that changes the table it sorts: `LuaTableLib` lets it answer
  anything, also what is no order, but only read.
* Floating point: numbers are small integers, division is modelled where exact.
* Failing allocations inside the interpreter, which every function would have to be
  cut at, and the arithmetic that paces the collector.
* `lfs`, the slua and C# bindings (`luawarp.c`) and the command line tools `lua.c`, `luac.c`
  and `print.c`: wrappers of system calls, glue for a host program that is not in
  the repository, and programs that are not part of the library.

## Plan

1. Done: the network side (`NetMessage`, `FrameReader`, `MsgChannel`, `Framing`, `Codec`,
   `Session`, `ConnectionManager`, `MsgBufPool`, `SocketApi`, `LuaClasses`), the Lua side (the
   modules above), and eight proof modules.
2. Left to TLC: the properties listed above as only model-checked.  Of these the marks of
   `LuaGC` come next, with lemmas about what a fold over the heap preserves, and then the fields
   of `Codec`, width by width, as `ShortDigits` and `LongDigits` do for the lengths.
