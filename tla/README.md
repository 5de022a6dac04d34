# redlike: a TLA+ model

redlike is a key-value server in Rust: clients speak RESP over TCP, the store
keeps values with optional expirations in memory, and an archive file carries
the store from one graceful shutdown to the next start. This directory holds
TLA+ modules translated from its code, the TLC configurations that check them,
and TLAPS proofs. `PROJECT.json` maps every definition to the lines it models
(paths relative to the directory that holds `src/` and `tla/`).

## Inventory

| Part | State | Operations | What makes it hard |
|---|---|---|---|
| store (`store.rs`) | `hashmap` and `expiration_heap` behind RwLocks, the `wakeup` Notify | `get set del expire ttl`, the sweeper task | clocks read before an await; the heap held across an await; stale heap entries; a wakeup between look and wait; a panic or an abort in the middle |
| snapshot (`store.rs`) | the entries dumped, in Unix milliseconds | `dump`, `restore` | several clock readings, rounding at every restart, widths of integers |
| archive (`archive.rs`) | the file, the temporary file, the directory | `load`, `save` | six system calls that may fail, crashes between any two, what has reached the disk |
| command (`command.rs`) | none | `try_from` | which error wins |
| connection (`connection.rs`) | parser, authentication flag, the frames of a read | `run`, `process_command`, `send_response` | pipelining, errors inside a batch, hang-ups, the shutdown seen only between batches |
| server (`server.rs`) | the JoinSet of connections, the shutdown token | accept, join, drain, abort, save | late connections, clients that do not read, what is still running when the store is saved |
| process (`main.rs`, `config.rs`, `run_server`) | configuration, signal handlers, the server task | start, wait, join, exit | signals before there is a handler, failed starts, an exit status that must mean the save is on disk |
| parser (`parser.rs`), frame (`frame.rs`) | state, buffer, stack of open arrays | `parse`, `to_bytes` | frames split at any byte, nested arrays whose length is a capacity, a terminal error |
| errors, logging, containers | – | – | no behaviour of their own |

Connections call the store; the store's sweeper runs beside them; the server
spawns and ends connections and, when they are gone, has the archive save the
store's snapshot. `PROJECT.json` lists the hazards with their lines.

## Modules

| Module | Models | How |
|---|---|---|
| `ExpiringMap` | what the store promises | a map whose keys vanish at their deadline; DEL has a call and a return |
| `Store` | `Store`, `sweep_loop` | one action per section between two awaits |
| `StoreProofs` | – | theorems about `Store`, its implementing `ExpiringMap` included |
| `Snapshot` | `to_snapshot`, `from_snapshot`, the two conversions | ticks of which `Milli` make a millisecond; one action each for the clock read, the dump and the restore |
| `SnapshotProofs` | – | theorems about `Snapshot` |
| `Archive` | `load`, `save`, `save_bytes` | one action per system call, `SaveFails` at each, `Crash` anywhere |
| `Process` | `main`, `get_config`, `run_server`, over restarts | extends `Archive`; one action per thing that can happen to `main`, to the server task, or to the process |
| `ProcessProofs` | – | theorems about `Archive` and `Process` |
| `Frame`, `Parser` | `Frame`, `Parser::parse`, `try_parse_one_frame` | one action per turn of the parser's loops, on symbolic bytes |
| `ParserProofs` | – | theorem about `Parser`; what it needs of sequences |
| `ParserRefinement` | one call of `parse` given everything | `OneCallSpec` of `Parser`, which `Parser` fed in chunks implements; the mapping and its proof |
| `Wire` | `Frame::to_bytes`; a reference decoder | recursive functions, on frames of any depth |
| `WireProofs` | – | theorem about `Wire`: the decoder reads what `to_bytes` writes |
| `ParsingProofs` | – | theorems that compare `Parser` with `Wire` |
| `Command` | `Command::try_from`, `Error` | an operator on abstract frames |
| `Connection` | `Connection::run` and what it calls | one action per outcome of the loop and per command |
| `Server` | `server_from_listener` | extends `Connection` |
| `ServerProofs` | – | theorems about `Server` and `Connection` |
| `MC*` | – | instances for TLC |

**Store.** `hashmap`, `expiration_heap` and `wakeup` are the fields of the
struct. The map's guard is never held across an await, so the section under it
is one step. `expire` awaits the map with the heap in hand, so the heap's guard
is the variable `heap_lock` and `expire` has two steps (`ExpireCall`, then
`ExpireMissing`, `ExpirePanics` or `ExpireSets`). `del` reads the clock before
it awaits the map (`DelCall`, `DelReturn`). `Abort` ends a task at either await.
The sweeper's loop is `SweepHeap`, `SweepMap`, `Peek`, and `Notified` or
`SleepElapsed`. The heap is a set: equal entries are popped together. `lived` is
a history variable for DEL.

**Snapshot.** One time line serves both clocks; the system clock is `Epoch`
milliseconds ahead at the start, and `StepClock` sets it forwards or backwards,
once. A deadline that waits in the archive follows the
system clock, since the archive holds Unix times; one in a running store does
not. Each entry is converted by two readings of its own, at most `Lag` ticks
after the first. `asked`, `early`, `late` and `kept` are history: what the
client asked for and how much the restarts so far may have moved it.

**Archive.** `disk` is the set of contents the path may have after a crash. A
rename adds the new content to it, and bytes that were not synced add `Torn`;
syncing the directory leaves the current content only. `wanted` is history: the
last content known to be durable and the snapshots dumped since. `temp` is the
temporary file that a save holds. A process that is killed, or a machine that
crashes, during a save leaves the file itself in the directory; nothing opens it
again, so it is not followed further. A snapshot that a server saved may be refused
when it is loaded (`Restores`): whether it is depends on its deadlines, which
`Snapshot` has (run `huge_ttl`), so `Archive` allows both outcomes.

**Process.** `main` says which of its awaits or calls the process has come to,
`server` what the server task does. The store is the set of the writes it holds,
numbered, and `content` records which writes a snapshot was dumped with, so that
"no write is lost" can be said of what the disk may hold. The save is Archive's,
step by step, with clients writing until the drain ends; the drain itself is one
step, since `Server` has its details. A signal is caught if it has a handler
(`handled`) and otherwise ends the process like SIGKILL. The handler of SIGTERM comes
first; that of SIGINT is installed when the select first polls `ctrl_c()`, which
does not happen at all if the select finds a SIGTERM first, and may fail. `kept` is
history: the store of the last process that exited with success. All processes
are given one archive path, or none, and run one after the other.

**Parser.** `buf`, `state` and `stack` are the fields of the struct; a Vec on the
stack is its elements and its capacity. `frame` is the frame that
`try_parse_one_frame` has just completed and `parse` has not stored yet.
`Parse(n)` feeds the next `n` bytes of the input; the other actions run the call
to its end. `Vec::with_capacity` is taken to give exactly the capacity asked for,
which the standard library does for elements of this size although it promises
only "at least"; a length no Vec can have panics (`CapacityMax`). Bytes are
symbols: the ones the parser compares with, digits, letters, and one byte that is
not UTF-8; `Byte` is any set that holds them. `ImplementsOneCall` compares the calls with a single one: its buffer is
ours with the bytes still to come behind it (`OnceBuf`), its output is what all
calls have returned so far, and a call that ends for want of bytes, or that returns
an old error again, is a stutter.

**Wire.** `Written[n]` is `Frame::write_to` on frames whose arrays are nested no
deeper than `n` (`FramesOf[n]`), `ToBytes` that for the depth of the frames sent.
`Decode` is not code of redlike: it is the reference the parser is compared with, a
recursive descent over a complete byte string, with no buffer, stack or state. It
reads at most `count` frames, which is how it reads the elements of an array. A
simple string or error that holds a CRLF could not be read back and is left out of
the frames (`Text`); the server's texts are its own and hold none. Where the parser
panics the decoder stops too, and `ParsesAsWhole` counts the frames that the panicking
call had completed, although its caller never gets them: `parser_panic` is about that.

**Connection and Server.** The store is `ExpiringMap`, instantiated: that the
real one implements it is what `StoreProofs!Refinement` proves. `stream[c]` is all that
a client has sent on its connection, as complete frames; a read takes any number
of them, `Malformed` marks a place where parsing fails and `Oversized` one where
it panics: how bytes become frames is `Parser`'s matter. `CompletedFramesServed`
speaks of the errors that `parse` returns, `FramesBeforePanicServed` of the panic. `at[c]` says which await
a task is in, or why it has ended. The drain timeout may elapse at any moment. An
archive path is taken to be configured, and the save is one step.

## Runs

| Run | Instance | Shows |
|---|---|---|
| `store` | 2 clients, 1 key, 2 values, timeouts 0, 1 and one that overflows, fair | `TypeOK`, `HeapLockOwned`, `ExpirationTracked`, `NoOversleep`, `ImplementsExpiringMap`, `ExpiredReclaimed`, `HeapDrains` |
| `snapshot_drift` | 2 keys, 2 restarts, 3 ticks to a millisecond, `Lag` 1, the clock stepped by a millisecond either way | `TypeOK`, `NeverOutlives`, `NeverCutShort`, `RefusedOnlyIfHuge` |
| `restarts` | 3 saves, 2 writes, every kind of path, right and wrong settings, fair | `TypeOK`, `SavedArchiveKept`, `StartsFromArchive`, `CleanExitKeepsWrites`, `SignalEnds` |
| `parser` | byte strings and encoded frames (`MCParser`), in every chunking, `I64Max` 21, `CapacityMax` 8, fair | `ArraysHaveRoom`, `ParsesAsWhole`, `RoundTrip`, `ParseReturns`, `ImplementsOneCall` |
| `server_sessions` | 1 client that reconnects, 18 frames, 2 per connection, a password | `TypeOK`, `AnsweredInOrder`, `CompletedFramesServed`, `AuthScoped` |
| `server_shutdown` | 2 clients that write, reconnect and stall, no password, fair | `ArchiveIsFinal`, `ShutdownCompletes` |

Bounds. A key has at most one live deadline. With timeouts of 0 and 1 and a clock
that runs to 1 there are deadlines that are past, present and still to come, a key
that expires, is set again and expires again, and up to three heap entries of one
key, of which at most one is not stale; so the sweeper's order among entries shows
with one key. Two clients give every pair of overlapping calls, and keep the heap
busy; the third party is the sweeper. A Snapshot restart
moves each key by itself, and two restarts show whether errors add up; 3 ticks
make rounding in both directions visible, and `U64Max` and `InstantMax` are small
enough to be passed. Three saves are one before, one during and one after a
failure; two writes are one that the last exit with success has saved and one
after it. The parser's inputs hold every marker in every state, nested arrays,
lengths on both sides of the limits that are tested (-2, -1, 0, 1; integers of 21
and 22; an array of 9), and every cut of them. Two frames per connection give every ordered pair of frames in one read
or in two, and reconnecting keeps the store between them. The unbounded claims
are those of the proofs. Only runs that count to a bound, or whose server stops,
turn the deadlock check off.

### What the code does that its documents do not say

| Run | Finding |
|---|---|
| `del_clock` | `del` judges a key by a clock older than its turn at the map (`store.rs:120`): it returns a key that an EXPIRE 0, already answered, has made expire. |
| `expire_overflow` | A timeout that does not fit in an Instant panics after the key was taken out of the map (`store.rs:146`). |
| `huge_ttl` | A timeout of more than `u64::MAX` milliseconds is saved and then makes the next start refuse the archive (`store.rs:398`). |
| `parser_panic` | An array length that no Vec can have makes `parse` panic (`parser.rs:255`): the frames completed before it in the same read are lost, where the README (line 322) has them processed before the connection is closed. |
| `signal_window` | The server serves before the handlers of SIGTERM and SIGINT are installed (`main.rs:14`, `main.rs:30`): a signal in between ends the process without saving acknowledged writes. So does a SIGINT during the drain if a SIGTERM came before `ctrl_c()` was polled. |
| `archive_bare` | With a bare file name every save reports a failure after it has replaced the archive (`archive.rs:66`, `archive.rs:79`). |

## Fairness

`Store`: weak fairness for a client's second step, since a task that holds or
waits for the map is polled; strong fairness for the sweeper, since tokio's RwLock
is a FIFO queue and a task that waits for the heap gets it although others keep
taking it. Nothing is assumed of clients, aborts or the clock.

`Server`: weak fairness for what the runtime and the server do: noticing the
cancelled token (every pass of the select may take that branch, and it stays
ready), joining ended tasks, the timeout, ending aborted tasks, saving.
Connections and clients are not assumed to make progress at all.

`Process`: weak fairness for `main` and for the server task, which the runtime
polls; that the drain ends is `ShutdownCompletes`. `Parser`: weak fairness for
the steps of a call, which runs without an await; none for the arrival of bytes.

## Proofs

All proofs hold for every value of the constants that meets the named
assumptions: units are positive, bounds natural numbers and the distinguished
values distinct (`TimeAssumption`, `SnapshotAssumption`, `WidthAssumption`,
`MaxFramesAssumption`, `ContentsAssumption`, the two `NoneAssumption`s); deadlines
fit in an Instant and a step leaves the system clock after the epoch
(`SnapshotAssumption`); paths are of the kinds modelled (`PathAssumption`); the
bytes the parser tells apart are bytes (`ByteAssumption`), inputs sequences of them
(`InputAssumption`), and a Vec has no more elements than an i64 can count
(`WidthAssumption`); the frames sent are frames, of a bounded but arbitrary depth,
whose lengths fit in an i64 and a Vec (`MessageAssumption`); requests are
sequences of words (`FrameAssumption`) and commands name keys (`KeyAssumption`).
TLC evaluates all of them on the instances above.

- `StoreProofs!TypeCorrect`: `TypeOK`, which includes that no entry carries an
  expiration an Instant cannot represent.
- `StoreProofs!HeapLockSafe`, `ExpirationSafe`, `SweeperSafe`: `HeapLockOwned`,
  `ExpirationTracked` and `NoOversleep`. `NoOversleep` is not inductive. The
  invariant adds that while the sweeper waits, a permit is pending or its alarm
  is no later than any heap entry (`AlarmCoversHeap`); `ExpirationTracked` turns
  that into a statement about the map. Only an EXPIRE adds heap entries, and it
  leaves a permit.
- `StoreProofs!Refinement`: `Store` implements `ExpiringMap` under the mapping
  that hides expired entries, the panicking EXPIRE included. The sweeper's steps
  are stutters because its candidates were expired at a clock that is not ahead of
  the real one; `RInv` adds that fact (`ClocksInThePast`) to the invariant.
- `SnapshotProofs!SnapshotTypes`, `DeadlinesNotOutlived`, `DeadlinesNotCutShort`,
  `RefusalsAreHuge`: `TypeOK`, `NeverOutlives`, `NeverCutShort` and the action
  property `RefusedOnlyIfHuge`, for any number of restarts. The properties speak of
  deadlines in memory; `SnapshotInv` says the same of those that wait in the archive,
  through `Due`, the tick an archived millisecond stands for, and that a key a client
  could see is there. A dump moves a deadline by a rounding of its own, and so does a
  restore; that these do not add up rests on `Due`, the steps of the clock and `late`
  all being whole milliseconds (`Whole`). `SnapshotInv` was checked on the instance of
  `snapshot_drift` before it was proved.
- `ProcessProofs!ArchiveTypes`, `ArchiveSafe`, `StartsSafe`: `TypeOK`,
  `SavedArchiveKept` and `StartsFromArchive`. The invariant follows a save: the
  snapshot being written is in `wanted`, the temporary file holds it from the write
  on, is synced when it is renamed, and after the rename the path holds it.
- `ProcessProofs!ImplementsArchive`: every step of `Process` is a step or a stutter
  of `Archive`, so `ProcessKeepsArchive` follows from the theorems about `Archive`.
- `ProcessProofs!CleanExitSafe`: `CleanExitKeepsWrites`. The invariant says that
  everything in `wanted`, not only what is on the disk, holds the kept writes; that
  the store of a running server with an archive holds them; and that from the dump
  on the snapshot being saved has all of the store, which no client can change any
  more.
- `ParserProofs!ParserSafe`: `ArraysHaveRoom`, for every input and chunking. The
  invariant adds that the stack and the arrays on it are sequences and that the
  error kept in the state is a `ParseError`.
- `ParserRefinement!ChunksDoNotMatter`: `ImplementsOneCall`, for inputs of any length
  and content. A turn of the parser looks at the first line of the buffer or at a
  number of bytes its state asks for. The lemmas `SameLine`, `SameLFLine`, `SamePair`
  and `SameRest` say that none of these change when bytes are put behind, one lemma
  per action turns that into the same step of the one call, and `SameChunk` shows that
  the arrival of a chunk is no step of it. `ChunkInv` adds that a bulk string's length
  is a natural number and what is known after an error. It is a safety statement: that
  calls return is `ParseReturns`.
- `ParsingProofs!ChunksParseAsWhole`: `ParsesAsWhole`, for inputs of any length and
  content, in any chunks. The parser keeps a state, a buffer and a stack where the
  reference decoder has a recursion, so the invariant (`WInv`, its part `DecodesOn`)
  relates the two for every continuation: whatever bytes were to come next, decoding
  the bytes fed so far and those behind them comes, level by level (`Chain`), to the
  place where the parser is, with the frames it has (`Items`) and as many left to
  read as the arrays on the stack have room for (`Count`). There, what the decoder
  does next is what `state` and `buf` say (`Continued`). A chunk that arrives is then
  one of the continuations. For the other actions one lemma each (`TextKept`,
  `InlineKept`, `BulkKept`, `LengthKept`, `ArrayKept` ...) shows that a turn of the
  parser is a step of the decoder, which rests on lines and prefixes not changing
  when bytes are put behind (`LineStays`), and `PushDecodes` and `OpenDecodes` follow
  a level as it is closed or opened. When a call has ended no bytes are pending, and
  the reason it ended for passes through all levels (`DecodedWhole`). That the decoder
  is what its equation says, on each string, whatever number of steps it is allowed,
  is `WireProofs!ReaderEquation`.
- `WireProofs!MessageDecoded`: the decoder reads back what `to_bytes` writes, for
  frames of any size and depth. `NumeralsRead` and `DecimalRead` show that a number's
  digits read as the number, for any width of the integers; `HeaderRead` and `LeafRead`
  that a header and a frame without elements are read back whatever follows;
  `JoinedRead` and `WrittenRead` lift this to arrays, by induction on the number of
  elements and on the depth.
- `ParsingProofs!WrittenIsReadBack`: `RoundTrip`, which is the two together.
- `ServerProofs!ServerTypes`: `TypeOK`. It needs that a task waits in a DEL exactly
  when the store has one pending for it (`Deleting`).
- `ServerProofs!SavedIsFinal`, `RepliesInOrder`, `CompletedServed`, `AuthIsScoped`:
  `ArchiveIsFinal`, `AnsweredInOrder`, `CompletedFramesServed` and `AuthScoped`, for
  any clients, frames and lengths of streams. The invariant follows a connection
  through its batches (`Session`): there is one answer for each frame before the
  next one; all frames up to the end of the batch parsed, and the one after them
  did not if the batch is halting; a task waits, or sees the shutdown, only between
  batches; if it is logged in, the password stands in a frame it has come to, and
  the current frame cannot be both that one and a data command. `Idle` says that
  only tasks in the JoinSet run, `Saved` that the set is empty from the save on.

The provers have no induction rule they can apply to a predicate, so inductions are
by the smallest counterexample, which `ParserProofs!SmallestOf` gets from the naturals
being well founded. TLA+ defines a recursive function by choosing one that satisfies
its equation; that there is one is `WireProofs!AllDefined`, which extends all those of
`Parser` and `Wire` from each number to the next, and `Unfolded` gives each its
equation.

Only model-checked: liveness (`ExpiredReclaimed`, `HeapDrains`,
`ShutdownCompletes`, `SignalEnds`, `ParseReturns`), which is out of the prover's
reach. Every other property that a passing run checks is also proved.

## Not modelled

- The JSON encoding of a snapshot and the syntax of the command line: libraries.
  Bytes that do not restore are one value (`Torn`).
- Log lines, the texts of errors and replies, the redacted `Debug` formats,
  `Command::name`, `Parser::is_empty`: they change no state.
- Memory: a process that runs out of it, the number of equal heap entries, the
  parser's buffer, which has no limit.
- Two processes on one archive path, and a path whose directory comes or goes
  while the server runs.
- The build for systems other than Unix, which does not sync the directory and
  handles one signal only.
- Containers and scripts.
