# A verification development for utilwin

utilwin gives Windows programs the POSIX functions they miss: directory
streams, `fork`, `socketpair`, `getopt`, `regcomp`/`regexec`, `glob`,
`fnmatch`, UTF-8 versions of the Win32 ANSI calls, and a console layer for GNU
readline.  This directory holds TLA+ models of its core logic, the TLC
configurations that check them on small instances, and theorems about them
whose proofs TLAPS checks.  Paths below are relative to the repository; `file:n`
is line n of that file.  (In `getopt.c` and `getopt_int.h` a form feed ends a line,
too.)

To check a model: `tlc -config X.cfg M`, where M is the module a run of
`PROJECT.json` names.  To check the proofs: `tlapm M_proofs.tla`.

## 1. Inventory

| part | source | state | hard behaviour |
|---|---|---|---|
| directory streams | `src/dirent` | a `DIR`: handle, `restart_`, entry buffer with index and length, decode buffer, SRW lock | threads sharing a stream, buffered entries that a rewind makes stale, queries that fail half way, the directory changing underneath |
| `scandir` | `src/dirent/scandir.c` | the list it grows, errno | one allocation of several fails |
| console input | `gnulib/readline/mysrc/compats.cpp` | two byte buffers, lock, auto-reset event, resize flag, alarm deadline, pending surrogate | reader thread against main thread, lost wake-ups, timeouts racing keys |
| terminal emulation | same file | strings, console modes | none shared; tables |
| `fork` | `src/process/fork.c` | inherit flags of all handles, the child's copy of ntdll, kernelbase and kernel32 data, console and loader state | order of patching and resuming, threads opening handles during the scan, failure half way |
| `socketpair` | `src/process/socketpair.c` | three sockets | clean-up on every failure, what kind of pair results |
| UTF-8 patching | `src/process/force_utf8.c`, `disasmlen.c` | a queue of call targets, bytes of code | a search that must end; instruction lengths |
| `getopt` | `src/misc/getopt.c`, `getopt1.c` | `optind`, `nextchar`, `first_nonopt`, `last_nonopt`, `argv` itself | permutation interleaved with parsing, restarts |
| error tables, format | `src/misc/errlist.c`, `fmt.c` | none | - |
| conversion buffers | `src/win32u/convbuf.c` | a fixed buffer, then a chain of blocks | strings handed out must not be overwritten; sizes |
| file wrappers | `src/win32u/u_files.c`, `args.c`, `u_psapi.c` | none of their own | what is left in the caller's buffer |
| `fnmatch` | `src/regex/fnmatch.c` | none | the star loop, ends and tails |
| `glob` | `src/regex/glob.c` | the match list | recursion over directory streams, partial results |
| TRE memory | `src/regex/tre-mem.c` | a chain of blocks, bump pointer | alignment and the rest counter |
| regex matcher, compiler | `src/regex/regexec.c`, `regcomp.c` | sets of NFA states with tags | leftmost-longest submatches |

What makes each part correct:

* **directory streams**: between two rewinds no entry is delivered twice; the end
  is only reported when every name was delivered or was missing at some moment; a
  rewind makes every buffered entry unusable, at once and for good; a failed read
  loses nothing; a thread gets its own entry; the lock is always given back.
* **console input**: the bytes `rl_getc` returns are the UTF-8 of what was typed,
  in order; a wait never misses bytes that are ready; FIONREAD's promise is kept;
  the alarm is neither early nor lost.
* **socketpair**: a success gives two open sockets, and what the first sends
  reaches the second (the other direction does not work, see section 7); a failure
  leaves none open.
* **getopt**: every element is returned once, and `argv` ends as a stable
  permutation with the operands last.
* **conversion buffers, TRE memory**: what was handed out stays intact and
  inside its block.
* **fork**: the child runs nothing before everything that the parent can write into
  it has been written; it inherits the files and not the processes; no handle of the
  child is left in the parent, and no other handle is closed.

## 2. Plan

In this order; a module stands beside its MC module and `.cfg` files.

1. `DirStreamSpec`, what a directory stream promises, and `DirStream`, the
   locked and buffered stream that implements it; the refinement proved.  *Done.*
2. `ConsoleReader`: two threads, an event, a clock; safety proved, liveness
   checked.  *Done.*
3. `SocketPair` and `TreMem`: clean-up after failures, and an allocator proved
   correct for every block size.  *Done, models and proofs.*
4. `Fork`, with `CopyMemory` for the memory the child is given.  *Done,
   model and proofs.*
5. `Exchange` on `Rotation`, which it shares with `Getopt`.  *Done; both proved.*
6. `Fnmatch`: the matcher as a state machine against what a pattern means.
   *Done on single-byte characters; the algorithm proved, and for patterns without
   classes that the characters are read as they are meant.*
7. `RegexParse`, `Regcomp` and `Regexec` against `RegexMeaning`: a pattern is
   compiled and a string searched, and what comes out is compared with what the
   grammar says.  *Done but for classes, ranges, `REG_ICASE` and `\b`, `\B`.*
8. `Glob`, `ScanDir` and `ConvBuf` on one `Heap`, composed in `HeapClients`: what
   is freed, kept and handed out when allocations and directories fail.  *Done;
   proved that strings fit into their buffers, that nothing is lost, that results
   stay, and that lists are complete.*

Abstract specifications: the stream (`DirStreamSpec`), the meaning of a file name
pattern (`Fnmatch`'s `Meaning`) and of a regular expression (`RegexMeaning`), the
rotation (`Rotation`).

## 3. Modules

| module | contents |
|---|---|
| `DirStreamSpec` | the abstract directory stream |
| `DirStream`, `DirStream_proofs` | `src/dirent`; its refinement mapping to `DirStreamSpec` |
| `ConsoleReader`, `ConsoleReader_proofs` | the console input of `compats.cpp` |
| `SocketPair`, `SocketPair_proofs` | `socketpair.c` |
| `TreMem`, `TreMem_proofs` | `tre-mem.c` |
| `CopyMemory` | `CopyMemoryTo` of `fork.c`, as a function on the memory of two processes |
| `Fork`, `Fork_proofs` | the rest of `fork.c` |
| `Rotation` | two segments of a vector exchanged, as a definition |
| `Exchange` | the loop of `exchange` in `getopt.c` |
| `Getopt`, `Getopt_proofs` | `getopt`, `__posix_getopt`, `getopt_long`; the proofs about `Exchange` are here, too |
| `Fnmatch`, `Fnmatch_proofs` | `fnmatch.c` |
| `Heap` | the C heap, errno and the one thread that calls the next three |
| `Glob`, `ScanDir`, `ConvBuf` | `glob.c`, `scandir.c`, `convbuf.c` |
| `HeapClients`, `HeapClients_proofs` | the three composed: one heap, one errno |
| `RegexParse` | the parser of `regcomp.c` |
| `Regcomp` | tags, counts and automaton of `regcomp.c`; uses `RegexParse` |
| `RegexMeaning` | which matches a pattern has, without tree or automaton |
| `Regexec` | `regcomp` and then `regexec` with both matchers; uses `Regcomp` |
| `MC*` | constants for TLC, one module per component |

`PROJECT.json` gives for every definition the lines it stands for.  Operators
under a comment that begins with "Mutant" are faulty variants of the definition
after them; no specification uses them.  They show that each property fails
when the code is wrong.

### DirStream

A name is its rank in the order in which the file system lists the directory.
`cursor` is what the file system remembers of a handle; `uni_buffer`, `ub_len`
and `ub_index` are the buffered entries, `restart_` and `abuf` the other fields
of the `DIR`.  A thread walks through `readdir_r` in `lockRead`, `test`,
`query`, `decode`, `copy`, `unlockRead` and `return`, through `rewinddir` in
three steps; each step is what the thread does between two points where another
thread can be seen.  `query` is `NtQueryDirectoryFile`: it may return any batch
of the next names that fits, find no more, or fail.  `Create` and `Delete` are
other programs.  `delivered`, `present` and `absent` are history, and together
with the mapping of program counters and errno (`absStage`, `absReply`) they
make the abstract stream.  A read takes effect in the abstract stream when the
thread decodes its entry, or learns that there is none.

`readdir` called without `readdir_r` takes no lock.  POSIX leaves that to the
caller, and the model has no thread that does it.  UTF-8 conversion and the
layout of `struct dirent` are left out.

### ConsoleReader

Numbers are code points, UTF-16 units and bytes as in the code; a unit becomes
bytes as `move_data`'s producer computes them, surrogates included.  The reader
thread reads a batch of records, handles them one by one into `local_buf`,
appends that to `m_buf` under `m_lock` and signals `m_Event`.  The main thread
calls `rl_getc`, `FIONREAD` or `wrl_alarm`; `rl_getc` goes through the loop at
compats.cpp:550-573 in single steps, among them the two unlocked halves of
`winsz_changed` and the two of `move_data`.  The event resets itself when a wait
takes it.  `interrupts` remembers for which bytes the SIGINT handler ran (556); what
readline does in its handlers is not in the repository.  Time is a clock that ticks
in seconds and may be any amount late for a thread.

Not modelled: a failure to create the thread or the event, `ReadConsoleInputW`
failing (its count is then uninitialised), `wrl_alarm`'s arithmetic overflowing.  The
branch at 565, which makes a timeout above `INT_MAX` infinite, is left out because
nothing leads there: what `wrl_alarm` adds to the time (29) is an `int`.

### SocketPair

`sock` is the process's socket table; a handle that was closed can be given to
another thread at once, which is what makes a double close dangerous.  A thread
has one frame with the three locals of `socketpair`.  Every call into Winsock is
an action that succeeds or fails; the three closes at the end are actions too,
with the `WSASetLastError` between them.  `socketpair.c`'s checks `!= -1` on an
unsigned `SOCKET` and the sizes of addresses are not modelled.

### TreMem

The chain of blocks is the sequence of their sizes; `ptr` and `n` are the
allocator's own.  `Minus` subtracts as `size_t` does, so that a rest counter that
goes below zero becomes huge, as in the program.  `live` is what `malloc` has
given and not got back.  `size * 8` at line 117 is assumed to fit
(`WidthAssumption`).

### Fork and CopyMemory

Handles are small numbers in the order of the scan.  `Call` takes the console's
handle from the process parameters, once; `Prepare` is `prepare_dll`.  Then `h`
walks over the handles: the query of the name (342), for what has none that of the
type (347), setting the inherit flag, next.  Then `GetStdHandle`, the clone with the
main thread suspended, the two copies of DLL data, `CopyMemoryTo`, `ResumeThread`,
the two closes.  `WriteProcessMemory` and `ResumeThread` may fail without anybody
looking; `failed` remembers it.  Other threads open and close handles between any two
of these steps, and may detach the process from its console (`FreeConsole`); when
only the console's handle is closed, the parameters go on naming it
(`PebConsole`), and another object may come to stand there.  `children` keeps for
each clone what it inherited and which patches it has.

`CopyMemory` is what `CopyMemoryTo` does in one call.  Memory is a row of pages
with the allocation each belongs to and its protection; the clone has some of the
allocations.  Pointers are met in an order, each region is written at most once,
and `VirtualAllocEx` reserves from the base of the allocation to the end of the
region met first: what lies above in the same block is not copied later.  The
definition follows that, and `ChildHasItsMemory` promises only what it gives.

Not modelled: how ntdll's private variables are found, the child's own
reinitialisation, two threads that fork at once, the 1024 places of `ranges`, the
query of a pipe's name that may block, the file that `prepare_dll` opens and closes
for itself, a console that is attached anew, the working directory.  Inherit flags
are never taken back; the model shows it and no property is about it.

### Rotation, Exchange, Getopt

`Exchange` is the loop of `exchange` with its three borders; a swap is an action.
`Getopt` uses the result, `Exchanged` of `Rotation`, in one step: `Exchange`
shows, and its theorem proves, that the loop computes it.

`Getopt` is a caller and the function it calls, `Entry`: `getopt`, `__posix_getopt`
or `getopt_long`.  One action is one call, from
`_getopt_internal` (reset included) to what is returned in `optarg` and
`optind`.  `NewScan` is a caller that goes on to another vector by `optreset` or
by moving `optind` back.  Words are records of what `getopt` asks about them.
Left out: `getopt_long_only`, `W;`, the messages and `opterr`, how a name is
compared with the table of long options (a word says how it is matched).

### Fnmatch

`fnmatch` is the outer loop (`StartComponent`, `WithinComponent`, `Component`,
`Prefix`), `fnmatch_internal` the inner one: `Period`, the loops over the head
(`MatchHead`), over what the last star leaves (`CountTail`, `FindTail`), over the
tail (`MatchTail`) and over the components between stars (`Sea`, `Try`).  Each loop
takes one token per step.  Pointers are indices, with the code's names.  Patterns
come as tokens with a text and a meaning: the code sees the text, the properties
the meaning.  `TokensAreRead` relates the two: what `pat_next` and `match_bracket`
find at a token, wherever the pattern is cut, is what the token means.

Only single-byte characters are modelled.  Two things that the code does and the
inputs leave out: an invalid multi-byte sequence gives `pat_next` a step of 0,
so with `FNM_PATHNAME` the loop at fnmatch.c:304 never ends; and the last
character of a range in a bracket is read again as an item (132), so a `-` there
starts another range: `[*--a]` also matches all from `*` to `a`.  (The second is
in `ItemHit`, which reads such a bracket as the code does.)

### Heap, Glob, ScanDir, ConvBuf, HeapClients

A block is its address, and `malloc` gives the lowest one that is free, so that a
block freed too early is soon somebody else's.  `Heap` has the blocks, `errno`,
what is `running`, and a budget of `MaxFaults` failures, which an allocation or
a directory may take at any call.

`Glob` is a stack of frames of `match_in_dir`: open the directory, read an
entry, test it, append the path or go down, close, return; then the vector, and
the sort.  Names are numbers, a component of a pattern the set of names it
matches (`Fnmatch` is about that).  The directory tree has links to files, which
`opendir` opens and reading then fails on, as in the program.  `ScanDir` is the
loop of `scandir`; the callback may leave anything in errno.  `ConvBuf` is a
wrapper that converts one or more texts and then clears the buffer; a text is its
length and the length of what it becomes.

Left out: patterns with a drive, `GLOB_PERIOD`, `GLOB_NOESCAPE`, over-long
patterns; `is_7bits`, `cb_strlcpy`; lengths near `SIZE_MAX`.

### RegexParse, Regcomp, RegexMeaning, Regexec

A pattern is a sequence of tokens, a token what the parser reads at once.
`RegexParse` is the loop of `tre_parse` with its stack of groups; `Regcomp` has
one operator per pass of `regcomp`: `tre_add_tags` (its two passes are `NumTags`
and `AddTags`), `tre_expand_ast` with `pos_add` and `max_pos` as in the code,
`tre_compute_nfl`, `tre_ast_to_tnfa`.  The walks use a stack in the code and
recursion here.  Compiling is one action, since nothing else can see it half
done.

`Regexec` then searches a string: one action per character in the parallel
matcher (the order of the states, their tags, and which of two paths in one state
survives are the code's), one action per turn of the loop in the backtracking
one, with its stack, `states_seen` and the three places where the code restores
or forgets `pos`, `prev_c` and `next_c`.  A caller asks for as many groups as it has
room for (`nmatch`): none, fewer than the pattern has, or more.

`RegexMeaning` reads the grammar in the comment before `parse_atom`: which
matches a part of the pattern has from a place in the string, and which group
took what.  It knows no tree and no automaton.  `Regexec` was compared with the
compiled code on some twelve thousand random patterns and strings: what the code
returns and reports, its mistakes included, is what the model does.

Left out: classes, ranges and negation of brackets, escapes, `REG_ICASE`, `\b`
and `\B`, malformed counts, bytes that are no character, failing allocations.

## 4. What is checked

Every run finishes within three minutes on two cores.

| run | instance | what it shows |
|---|---|---|
| `dirstream` | 2 threads, 3 names, buffer of 2 | the stream implements `DirStreamSpec` (`Refines`); what was tested under the lock still holds when used; errno of the caller is kept; the lock is always given back |
| `console` | 3 records, 2 seconds, batches of 2 | bytes in order, no lost wake-up, FIONREAD's promise, alarms neither early nor forgotten, keys end a wait, a Ctrl-C interrupts as it is read |
| `socketpair` | 2 threads, 4 handles | no leak, no double close, the right error, the first socket reaches the second |
| `socketpair_stream` | 1 thread, stream | *violated*, see section 7 |
| `tremem` | sizes around a block of 16, 6 pieces | pieces inside blocks, disjoint, nothing lost |
| `fork` | 4 handles, 2 forks, 4 pages | the child runs only after its patches were written or failed to be, with what ntdll points to (blocks met at a lower region first excepted); files that stay open are inherited; no handle of fork's is left, and it closes no other |
| `fork_race` | 5 handles, 1 fork | *violated*, see section 7 |
| `getopt` | `getopt_long`, about a hundred vectors, 3 scans | each element returned once and in order, operands last, a stable permutation |
| `fnmatch` | up to 5 tokens, strings up to 5 | both scanners read what is written, each step keeps the answer, the result is the pattern's meaning, every call returns |
| `heap_clients` | 3 calls, 2 failures, 16 addresses | nothing lost but glob's name buffers, results complete or told not to be, what was returned stays |
| `regex` | 2849 patterns, strings up to 3 or 4, room for 0, 2 or 5 groups | malformed patterns and only those are refused, the match is the leftmost and longest, the groups are those of one match, a search ends |
| `regex_backrefs` | the patterns with back references | *violated*, see section 7 |

Why the bounds are enough:

* `dirstream`: with a buffer of 2 and 3 names a scan needs two queries, so that
  there is a buffered entry to make stale, a partly used buffer, and a query in
  the middle.  Two threads make every race on one buffer and one lock.
* `console`: a character outside the BMP is two records, so three records are a
  surrogate pair and a plain key, split over batches in every way.  Two seconds
  allow an alarm to be armed, due, and armed again.
* `socketpair`: a pair uses three sockets; a fourth handle lets the other thread
  take one that was just closed.
* `tremem`: the block of 16 bytes is four words; sizes below, at and above an
  eighth of it and of a block cover both ways of `BlockSize` and every padding.
* `fork`: handle 4 lies behind the end of the scan; two forks show what the first
  one leaves behind.  Four pages hold two blocks with a gap or one with several
  regions, with every protection; three pointers meet regions in every order.
  Other threads open one event here; that they open processes is `fork_race`.  Of
  the calls made for the children that have not returned one fails unnoticed
  (`NothingFailed`): writing a DLL's data, in the last fork, or `ResumeThread`.
* `getopt`: vectors of up to four words with every kind of element before and
  behind operands and `--`; a second scan meets what the first left behind, and the
  third one what such a second scan did.
  The entry is `getopt_long`, the only one that takes every kind of word; the theorems
  are about all three.
* `fnmatch`: five tokens are a component between two stars with a prefix that
  repeats, the shortest pattern where the place of the next attempt matters;
  path flags and brackets have smaller families of their own, since a bracket
  is one token for the rest of the algorithm.
* `heap_clients`: two failures are one in a call and one in its clean-up or in
  the next call that appends; three calls are glob, something between, and glob
  with GLOB_APPEND.  Texts lie around the 15 bytes of the array on both sides of
  each bound.
* `regex`: five families.  All sequences of up to four tokens, well formed or not,
  for the parser; groups in alternatives in loops, two deep, for the tags;
  counts before and behind groups for the copies; what holds between characters,
  in all strings with blanks and newlines and with `REG_NOTBOL` and
  `REG_NOTEOL`; back references to a group that took part.  Patterns where the
  code reports other groups than any match has are left out and named in
  section 7.

### Fairness

* `DirStream`: weak fairness of each thread's steps.  A thread that can run runs;
  the lock is not assumed fair, and `LockReleased` does not need it.
* `ConsoleReader`: weak fairness of the reader, of the main thread inside a call
  and of the clock.  Nothing makes the user type.
* `Fork`: weak fairness of the forking thread and of each resumed child.
  `ChildrenReturn` only speaks of parents that could read both DLLs, and of children
  that could be resumed: otherwise the code crashes between clone and resume, or
  goes on with a child that stays suspended, and the model shows both.
* `Fnmatch`, `Regexec`: weak fairness of the one thread that runs; in `Regexec` of
  the backtracking loop only, which is where a search could go on for ever.

Deadlock is checked except where the system may stop: a console with no user, a
last fork, the end of a call, of a last scan or of a search
(`CHECK_DEADLOCK FALSE`).

## 5. What is proved

All for every value of the constants, under the named assumptions of the modules.

* `DirStream_proofs`: `Invariance` (`TypeOK`, `MutualExclusion`,
  `TestStillHolds`, `ScanPosition`) and `Refinement` (`Spec` implements
  `DirStreamSpec`).  `ScanPosition` is the invariant that carries the argument:
  what was delivered lies before what is buffered, that before what is still to
  be queried, and every name the scan has passed was delivered or absent at some
  moment.  It needs that between the test of the buffer and its use nobody else
  moves the scan (`TestStillHolds`), and that needs the lock.  `TestsStillHold`
  states that part alone; `CallersErrno` that every caller finds its own errno, or
  the one it was told.
* `ConsoleReader_proofs`: `TypeCorrect`, by the arithmetic of the surrogates;
  `WakeupSafety`, where `NoLostWakeup` says that when the main thread is about to
  wait and there are bytes, the event is set or the reader is on its way to set
  it; `FIONREADKeepsItsPromise`; `SignalsAreJustified`, from `AlarmOnTime`,
  `NoWinchWithoutResize` and `InterruptsAreJustified`.
  `EveryByteArrives` (`BytesInOrder`) needs a strengthening, `OrderInv`: the text
  that was typed is cut, behind what has been passed on, into pieces that are just
  what the records still in the batch and in the console's queue will give
  (`NothingIsLost`), and each low surrogate comes behind its high one
  (`PairsAreWhole`), so that nobody looks at an `m_chtmp` that is uninitialised or
  was forgotten.  `InterruptsAreJustified` rests on it.  The cut is a function on the indices of the records, since a
  recursive decoder is out of the prover's reach; the lemmas `RecordTaken` and
  `RecordAdded` say how it changes at either end.
* `SocketPair_proofs`: `NoSocketIsLeaked`, `ErrorIsPutBack`, `FirstIsConnected`.
  The invariant says for each frame which sockets it answers for (`Answered`: its
  locals not yet closed, and nothing else that the thread owns), that no socket is
  in two of them (`NoHandleTwice`), what must be there before the next call
  (`PairIsMade`), and whose peer the connector is (`Connected`).
* `TreMem_proofs`: `Soundness`, and its parts `PiecesNeverMeet` and
  `NothingIsLeaked`.  The pieces of a block lie one behind the other
  below `ptr`, and `ptr + n` is the block's size: the second keeps the rest
  counter from wrapping.
* `Fork_proofs`: `NoChildRunsUnpatched`, `OnlyOwnHandlesAreClosed` (`ClosesItsOwn`;
  its first half is `HandlesAreClosed`), `ResultsAreTrue`, `FilesReachTheChild`. The
  invariant follows the call: only the newest child is suspended, and what was
  written to it is what the steps so far write (`PatchedSoFar`); the handles that
  are `ours` are those in `process_info` that are still to be closed
  (`OursAreHeld`), and those are open and fork's own (`HeldAreOurs`), so that no
  value in them is another thread's by now; and a file that nobody has touched since
  the call began is inheritable as soon as the scan has passed it
  (`PassedAreInheritable`). `MemoryReachesTheChild` goes through the pointers
  `CopyMemoryTo` meets: after each, what was met so far is in the child or lies
  above a region of the same block that was met before it; the induction is over the
  least pointer for which that would fail. `ForeignHandlesAreLeft` holds if no other
  thread opens handles of processes and threads (`OtherKinds \cap Foreign = {}`);
  `fork_race` shows why that is needed.
* `Getopt_proofs`: `ArgumentsStayStable`, `OperandsComeLast`,
  `ResultsAreInOrder`.  `OperandsLast` is not inductive: it speaks of the end only.
  `IInv` says of the middle of a scan that nothing from `optind` on was moved, that
  of the words before it those left to the caller are at `[first_nonopt,
  last_nonopt)` and both kinds are in their order (`Arranged`), that what was
  returned is what the words passed give, up to the letter `nextchar` stands at
  (`Told`), and that `optind` is not at an argument (`IsNew`).  The proof follows a
  call: `Ready` gives such a state from whatever the scan before left (`ReadyIs`);
  `Permute`, `DashDash` and `BackOver` keep it, by what an exchange does with three
  segments (`ExchangeArranges`); then an option, its argument or an operand is
  passed.  The specification's own `Classes`, `InOrder` and the library's
  `FlattenSeq` are recursive functions; that they exist, and so obey their
  equations, is proved for each from the least number for which they would not.
* Also in `Getopt_proofs`, with variables of its own for the loop of `exchange`:
  `ExchangeIsSound`.  `OneRotationLeft` says of every position which word must come
  there in the end, in terms of the two segments that are left; with an empty segment
  that is the rotation.  `ExchangeEnds`: each step makes a measure of natural numbers
  smaller.
* `Fnmatch_proofs`: `ResultIsMeaningHolds` and `LeftIsAsGoodHolds`, for every pattern,
  string and set of flags, wherever the two scanners of the pattern agree with its
  tokens (`[]ScannersAgree`).  That is a hypothesis because it is not always so:
  `match_bracket` reads the end of a range twice.  The run checks it for eleven kinds
  of bracket.  `PlainPatternsAreRead` proves it for patterns of stars, question marks,
  ordinary and escaped characters, and brackets without classes and without a range
  that ends in `-` (`PlainBracket`); so `PlainPatternsMatch` has no
  hypothesis but that.  `IInv` says at each place of the program that the pointers are
  bounds of tokens and that the call's result is owed by what is left; it names the
  number of tokens each pointer stands for, where `LeftIsAsGood` only says that there
  is one, and adds what each loop has seen: that the tail counted so far has no star
  (`Counted`), that the rest of the tail has the answer (`Tailed`), that what a star
  follows may be entered anywhere (`AtSea`).  The greedy search is right because of
  `Placed`: what is left of the component matches from here exactly if all of it
  matches from its start, and if the rest of the pattern can be placed anywhere
  then it can be placed without going back behind the place the attempt has reached.
  The specification's recursive functions (`FlattenSeq`, `Entries`, `PathEntries`,
  `BracketEnd`, `ItemHit`) are shown to exist (`RecursionExists`) and to obey their equations.
* `HeapClients_proofs`: `ConversionsFit`, `CallsLoseNothing`, `CallsKeepResults`,
  `ListsAreComplete`, `ResultsAreTheMatches`.  A string in the array or in a block is
  no longer than it, whatever `glob` and `scandir` do with the heap between two
  wrappers: strings are out only while a wrapper runs.  The other four rest on
  `HeapOwn`: every block belongs to one of `glob`, `scandir`, the wrappers and the
  caller, once, or is one of glob's lost name buffers, and is what its owner takes
  it for; each function is shown to leave alone what is not its own (`GlobChange`,
  `ScanChange`, `ConvChange`).  For `AllOrNothing` `ScanTrue` adds how far the loop
  has come; `qsort` may be any arrangement, and the names of a directory differ.
  For `ResultsAreTrue` `GlobTrue` says, in the middle of a search, that of every path
  the pattern stands for a frame has still to come to it (`ToCome`), or it is in the
  chain, or something has failed; and what is in the chain is such a path, once, and no
  frame will come to it again.  That takes `WalkTrue`: a frame is in the entry that
  the frame below it has just passed, and the directories on the way match the
  components before.  Each step of `match_in_dir` then keeps what is to come, or takes
  the one path from it that it chains (`SameToCome`, `AllButToCome`).  The
  proof needs of the tree that a directory is below another one that has an
  entry for it (`TreeAssumption`), and that names in a directory differ; with links
  in it the tree may be as deep as one likes.

`Exchange` has no run: its two theorems say all there is to say of it.  `TypeOK`,
`MutualExclusion`, `LockExcludes` and `PiecesAligned` are proved and have no place
in a run.

Only checked by TLC: liveness (`LockReleased`, `KeyWakes`, `AlarmFires`,
`ChildrenReturn`, `Returns`, `SearchEnds`), which TLAPS does not reach;
that both scanners agree on classes; and the regular
expressions, whose modules declare recursive operators and so are closed to the
prover.  The library's induction theorems cannot be instantiated here; where a proof
needs an induction it takes the least element of a set of numbers for which the
claim fails (`LeastElement`, `UpTo`).

## 6. What is not modelled

* Forcing the process to UTF-8 (`force_utf8.c`, `disasmlen.c`, `repliat`): it
  searches the machine code of system DLLs for data it patches.  What it finds
  depends on the instructions of the installed DLLs, which are not in the
  repository.
* The wrappers of the Windows API: each converts its names with a conversion buffer
  (module `ConvBuf`), makes one call and clears the buffer.
* Error tables, `sleep`, `gettid`, `dirfd`, `regerror`: tables or a single call.
* The terminal emulation, which has tables and strings but no shared state.
* Vendored headers and build files, which are most of the repository's lines.

## 7. Disagreements with the code's own comments, and other findings

Shown by a run:

* `socketpair_stream`: socketpair.c:28 names one case in which the function fails,
  localhost being down.  A stream pair always fails: `listen` depends on
  `protocol == SOCK_STREAM`, and line 46 has refused every protocol but 0.
* `fork_race`: fork.c:353 says that handles of processes and threads are
  inherited only if the application says so.  Between the query at 342 and
  `SetHandleInformation` at 360 another thread can close the handle and get its
  value for a process.
* `regex_backrefs`: regexec.c:473 says that the backtracking matcher goes through
  all paths and takes the best.  At line 888 it gives up when `next_c` is 0, and
  `next_c` is still that of the path that failed last: `\(a*\)b\1` is not found
  in "ab", although "b" with an empty group matches.

Met while modelling, without a run of their own:

* socketpair.c:99 says "Now check we are talking to ourself by matching port and
  host on the two sockets".  For a datagram pair the connector is compared with
  itself (91, 101), and the second socket has no peer.
* getopt.c:62-64 says that `getopt`, used standalone, stops at the first operand, and
  727 that standalone applications get a POSIX-compliant one.  Line 738 makes `getopt`
  with `posixly_correct` 0, which `getopt_long` passes too, so unless the environment or
  the option string says otherwise 401-404 make it permute.  Only `__posix_getopt` of
  the next line is what the comments describe.  The model follows the code.
* regexec.c, beside line 888: `prev_c` after a back reference is the character
  before it; `states_seen` also cuts paths that are not repetitions
  (`\(a*\)b*\1` on "b" reports an empty match at 0 instead of "b").
* regcomp.c: `tre_match_empty` remembers one way for a part to be empty, so
  `\<|^` is not found in ""; `pos_add` goes back to an old value while an
  iteration around is not unrolled (1996), so positions collide and
  `((a{2}b)*c)*d` matches all of "aacd" instead of "d".
* `opendir` (opendir.c:22-60) sets no errno when `NtCreateFile` fails; glob.c:75
  and `scandir` read what was there before.  It succeeds on files, which
  glob.c:72 does not expect.
* glob.c: the name buffer is not freed at 125 and 139, `realloc` is unchecked at
  101, `GLOB_ABORTED` without a match becomes `GLOB_NOMATCH`.
* convbuf.c:56 and 89: the result of `malloc` is not checked.
* fork.c: what `copy_memory` returns is ignored (91); `g_ntptrs` is published
  before it is filled (127); the assertion about `ranges` comes after the write
  (299, 322); a second region of a block that is above the first one met is not
  copied (310); `ResumeThread` is not checked (377), so `fork` may return the number of
  a child that never runs.  The console's handle is read from the process parameters once
  (328) and passed over unasked (339): if the console was closed and a file has its
  value, the file is not inherited.
* fnmatch.c:228: the comment keeps the end of the pattern and an invalid byte
  apart, `k <= 0` does not; with `FNM_PATHNAME` the loop at 304 does not advance on
  an invalid byte.
