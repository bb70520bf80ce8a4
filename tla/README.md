# A verification project for the OCaml run-time system

The repository is a branch of OCaml 3.12: `examples/` holds the inputs and
outputs of inlining experiments, `inline-more/` a whole distribution. The
compilers are pure translations. What is hard to get right and hard to test is
the run-time system in C, its thread libraries and the C tools and libraries
around it: an incremental collector, the program, finalisation functions,
signals, system threads and partial input and output interrupt one another, and
tables, buffers and stacks grow in the middle of the work that uses them. This
project models that part. Paths below are relative to `src/inline-more/`.

## Inventory

| Component | State | Operations | What makes it hard | What makes it correct |
|---|---|---|---|---|
| Major collector, `byterun/major_gc.c` | colours in headers, gray stack, `heap_is_pure`, `markhp`, phase, sweep pointer | start of a cycle, mark and sweep slices, darkening | the program runs between slices; the gray stack overflows | nothing in use is freed; garbage is |
| Weak arrays and finalisation, `weak.c`, `finalise.c` | list of arrays, `weak_prev`; finalisable and finalising sets | create, set, get, blit; register, update, call, release | used between the slices that erase pointers; values revived after marking | no dangling weak pointer; finalised once, after death, before being freed |
| Minor collector and global roots, `minor_gc.c`, `globroots.c`, `memory.h` | minor heap, two reference tables, three root lists | allocation, `Modify`, oldify, mopup, registration of roots | the tables must know every pointer into the minor heap | the graph is promoted as it was |
| Free list and compactor, `freelist.c`, `memory.c`, `compact.c` | linked list, `fl_merge`, `fl_prev`, first-fit table; inverted pointers | allocate, merge, add a chunk, shrink, compact | allocation and growth between sweep slices | the list is the set of free blocks; a fit is found; compaction is invisible |
| Page table, settings, start-up, `memory.c`, `gc_ctrl.c`, `startup.c`, `fix_code.c`, `dynlink.c` | hash table, sizes, file sections | add and remove pages, `Gc.set`, loading | memory runs out half way; files are cut short | lookups and settings tell the truth; only whole programs run |
| Channels, `io.c` | buffers, offsets, channel mutexes | read, write, flush, seek, close, scan | partial and interrupted calls, handlers that raise | bytes once, at their place; no lock left |
| Signals, `signals.c`, `signals_byt.c` | pending flags | record, process, blocking sections | asynchronous recording, handlers that raise | a recorded signal is noticed |
| Interpreter, `interp.c`, `stacks.c`, `callback.c`, `fail.c` | registers, stack, trap frames, local roots | every instruction, callbacks, growth | absolute addresses in a stack that moves; signals at any application | a program computes what its source denotes |
| Marshalling, `extern.c`, `intern.c` | trail, forwarding words in the value, output blocks | write, replay, read | the value is overwritten while it is written; other threads write | what is read is what was written, on any machine |
| Master lock and system threads, `otherlibs/systhreads` | flag, waiters, list of threads, stack registers, mutexes | acquire, release, blocking sections, new, exit, join, C registration, fork | barging, spurious wake-ups, globals of whichever thread runs | one holder, no lost wake-up, every stack is found |
| VM threads, `otherlibs/threads` | ring of threads, status, delays, lists of waiters | schedule, sleep, wake, kill, join, lock | one select for all causes, preemption by ticks | resumed for its cause; progress |
| Windows ports, `st_win32.h`, `win32unix/select.c`, `winworker.c` | stack-allocated wait records, pool of workers and events | condition variables, select | a record dies with its waiter; late answers | what POSIX promises |
| ocamlyacc and its engine, `yacc/*.c`, `parsing.c` | grammar, automaton, packed tables, files; stacks, `errflag` | read, build, resolve, pack, write; parse, recover | cycles in relations, overlapping vectors, failure of any file operation | tables and parses agree with the grammar |
| Str, Lexing, num, bigarray, MD5, comparison, hashing, numerals | backtracking stack, buffers, digits, proxies, contexts | one call each | boundaries, growth in mid-operation, overflow | the result is the defined one |
| Compilers, standard library, other tools and bindings | | | | not modelled, see below and PROJECT.json |

A slice of the major collector is run by `caml_minor_collection`, after the
minor heap has been emptied; `caml_final_do_calls` follows it. Sweeping feeds the
free list, from which `caml_alloc_shr` takes. The collector finds its roots
through `caml_do_roots`, whose hook is `caml_thread_scan_roots`: the list of
threads is part of the correctness of the collector. All of it runs under the
master lock, which is released in blocking sections, where channels make their
system calls. Signals are recorded anywhere and handled where a blocking section
begins or ends, or where the interpreter polls.

PROJECT.json lists the hazards, each at its line with the properties that would
catch it.

## Modules

**Memory.**

* **MajorGC** — the heap as `N` slots in the order of addresses with `F` fields
  each; `color`, `tag`, `field` are headers and contents, `roots` what the stack, the
  globals and young blocks refer to. `pc` says whether the program runs
  (`"mutator"`) or a slice, and where. The program allocates, assigns
  (`caml_modify`), forces lazy values, loads and drops; a slice begins, darkens
  roots, pops a block and scans one field at a time, rescans an impure heap and
  sweeps. The work allotted to a slice is abstracted: after each iteration `Yield`
  goes on or returns.
* **WeakFinal** — extends MajorGC with weak arrays of one pointer, the subphases
  weak1 and weak2, and finalisation, whose batch is darkened value by value since
  each may overflow the gray stack.
* **MinorGC** — young and old slots, `mem` for every word that can hold a pointer,
  the two reference tables with size, limit and reserve, the lists of
  generational roots, and a collection cut at each `caml_oldify_one`: the to-do list
  is threaded through the promoted blocks as in the code. `snap` records the graph
  at the start of a collection. Slices, `caml_make_vect` and `caml_initialize` occur
  between. Colours are MajorGC's.
* **FreeList** — chunks of words; `hdr` gives the blocks, `H` the state of
  `freelist.c`. Both policies, splitting, merging during a sweep, chunks added (as a
  chain when they are larger than a block may be) and removed, tails freed by
  `intern.c`, the statistics of `Gc.stat`, and the placement phase of compaction, which
  may end the process (`phase = "crashed"`). Two histories tell what the code does not
  know: `uncounted`, the words of a chain that `caml_fl_cur_size` leaves out, and
  `seams`, the free blocks that lie behind another because the two together were too
  large.
* **Compact** — words of memory under pointer inversion, infix headers included.
* **Tables** — page table, skip lists of global roots and named values against the
  sets and functions they stand for, after every sequence of operations, with memory
  running out in the middle of one.
* **GcCtrl** — `Gc.set` and the change of the minor heap with memory running out at
  each point, for any integers: they become C words, and sizes in bytes wrap as in the
  code; the collections a program asks for, with finalisation functions that
  allocate, start a cycle or raise between the passes; the decision to compact; the
  size of a new chunk, in a small address space. What a collection does is
  abstracted to what it leaves behind.

**Threads and input/output.**

* **Lock**, **MasterLock** — the abstract lock and the real one. A critical section
  of the mutex is one step; `Signal` is the `pthread_cond_signal` after the unlock;
  `Spurious` a wake-up without a signal, which may happen and need not.
* **SysThreads** — extends MasterLock with the list of info blocks (a freed block
  keeps its stale links), the registers and the ones saved in blocks, blocking
  sections, creation, exit, join, C threads, a mutex, a condition and fork. A thread
  that exits triggers its termination event in one step and gives up block and lock
  in a later one; a descriptor outlives its thread, so a join may come at any time;
  any thread may unlock the mutex; a wait for the condition ends by a signal, a
  broadcast or without cause.
* **VMThreads** — `schedule_thread` cut where the process may block, and
  `mutex.ml`/`condition.ml` cut at the function applications where a tick is noticed.
  `Thread.kill` may hit any thread. `torn` records that it hit one on a list of waiters
  or one that was going through such a list: the next `Thread.wakeup` of the list may
  then fail, and `critical_section` may stay set (`Unpreemptible`).
* **Channels** — two kinds of channels; a thread runs alone until it enters a
  blocking section. A byte is the position it is meant for, so a lost, repeated or
  misplaced byte shows. A channel on which a handler raised after a transfer
  (`torn`) is left out of the buffer properties and not used again: the code
  forgets the result of the call there.
* **WinThreads** — critical sections, condition variables as lists through records on
  the stacks of the waiters and their auto-reset events, termination events.
* **Select** — select with its worker threads: a job is a program of some callers that
  share the workers; callers, workers and input interleave, calls are repeated, and
  `worker_cleanup` ends the program, in the record of caller 0. Console, pipe and socket
  jobs keep the order in which they test the stop event, their input and errors. A signal
  handler may raise in each blocking section: the call is over, and its workers and data
  stay as they are (`"lost"`, `"broken"`). A socket job with as many queries as an array
  of events has places writes one past its end: the wait may fail then or the process end
  (`crashed`).

**Interpreter and loader.** **Interp** has every instruction; the stack is a
sequence while `trapsp` and trap links are absolute addresses, since
`caml_realloc_stack` relocates them. A poll runs `caml_process_event`: the collection that
was asked for with its finalisation functions, the pending signals, and
`caml_async_action_hook`, which the scheduler of `otherlibs/threads` sets. Each may raise,
and what comes after it is then left for the next event; `hist.left` are the signals an
exception has left recorded but unknown. **MCInterp** holds a small source language, a
compiler for it in the manner of `bytegen.ml`, and its evaluator, the reference.
**Startup** reads a bytecode file and binds its primitives.

**ocamlyacc.** **YaccText** is the character level of `reader.c`; **YaccReader**
takes what it finds as tokens and builds the grammar; **YaccTables** goes from the
grammar to the packed tables; **Yacc** is `main.c` over a set of files that may fail
to open, and then `parsing.c` with the loop of `parsing.ml`. **MCYacc** has the
grammars.

**Algorithms.** **Blocks** (values and heaps), **Marshal**, **Numbers**, **Values**,
**Bignum**, **Bigarray**, **Regexp**, **Lexing**, **Digest**. Each gives the code's
algorithm and a reference definition. **Jobs** declares the two variables they
share, `job` (the component and its input) and `res` (its state or its results);
**MCData** lets a behaviour be one job of one component and gives the inputs.

**MajorGCProofs**, **WeakFinalProofs**, **MinorGCProofs**, **SysThreadsProofs** (MasterLock
too), **VMThreadsProofs**, **ChannelsProofs**, **GcCtrlProofs** and **SelectProofs** hold the
theorems about the modules they are named after.

Definitions that stand just before another and end in a suffix
(`caml_modify_no_barrier`, `Resume_if`...) are plausible slips: in place of the
original each breaks the property PROJECT.json pairs it with.

## Runs

| Run | Instance | What it shows |
|---|---|---|
| major | 3 blocks of 1 field, plain and lazy; gray stack of 2 that cannot grow | no interleaving frees a block in use; marking and sweeping invariants, the heart of the proof; collector steps keep the graph |
| weak_safety | 3 blocks, 2 weak arrays | no dangling weak pointer, a whole list of arrays, only dead blocks erased by the collector |
| final_live | 2 blocks, 1 finalisation function, gray stack that may grow or fail to | closures and values survive to the call; only dead values are scheduled; they are finalised, and garbage is freed |
| minor | 2 young and 2 old blocks, a local and a generational root, tables of 1 entry with a reserve of 1, which a store may use up | pointers into the minor heap are known; promotion keeps the graph; nothing in use is freed |
| free_list | chunks of 6 and 10 words, blocks of at most 7, pages of 2, first-fit table of 2, requests of 2 and 3 words | tiling, free list and first-fit table exact in mid-sweep too; fits are found; neighbours that fit together are joined |
| sys_threads | main thread that forks, a Caml thread that comes and goes, a C thread | refinement of Lock, exact count of waiters, no lost wake-up; every stack is found; join; the runtime stays available |
| vm_threads | 3 threads, 2 of them on a mutex and a condition, 1 descriptor, a child, kills | sleepers are listed until a kill tears a list, and resumed for their cause; whoever can go on does |
| channels | 2 threads, buffers of 2 bytes, files of 3, 1 signal | locks released, bytes at their places, operations end |
| interp | 1290 programs, up to 3 events (signals, collections, reschedulings), stack from 48 to 96 words | programs compute what their source denotes; frames and pending signals are sound |
| yacc | 100 grammar files, most of them defective, inputs to 6 tokens, stacks of 2 that grow | lookaheads, files, packed tables and parses |
| data | one job at a time of fifteen components | see below |
| shared_forward | violation | a pair that holds one forced lazy float twice reads back as something else |

`data`, about 1.6 million states, checks nine properties. `ReadsBack` and `MessageWhole` (Marshal): on machines
of both word sizes and byte orders, with one and two writers, user buffers of
several lengths, allocation failing at any point and exceptions while a message is
written. Between machines of different word sizes `ReadsBack` leaves out pointers to
infix headers, which the code does not translate (below); after an exception
`MessageWhole` allows a partial message and the blocks that stay allocated. `NumbersExact` (Numbers,
Bignum): 64-bit emulation, numerals and the digit loops in their C and assembly
forms. `ValuesSound`: comparison with its stack, hashing, strings, arrays.
`BigarraySound`: overflow checks, indexing, proxies under any order of
finalisation, mapping. `EnginesExact` (Regexp, Lexing, YaccText), `WindowsSound`
(Select, WinThreads), `CompactionKeepsGraph` and `RuntimeSound` (Tables, GcCtrl,
Startup, Digest).

**Bounds.** A gray stack of two entries overflows at the next push, so three
blocks overflow it in the scan of a block, while roots are darkened, by the write
barrier between two slices and during a rescan. Two blocks suffice for liveness,
which is about a block and its holder. `MaxWeak` and `MaxFinal` bound what exists at
one time, not how often it is made. Tables of one entry open their reserve at the
second store; that they double at the third is beyond the run's `MaxTable` of 2 and is
covered by the proof only. Six words per chunk allow a split, a
fragment of a header alone, and joins on both sides; a chunk of ten words is two blocks,
since the largest has seven words, so the size guards of joining matter; two chunks add
growth, shrinking and compaction. With two-byte buffers every write is whole, partial or
refused, and a read crosses the end of the buffer. Word sizes are reduced, never
abandoned: a digit has 4 bits, a word of Numbers 6, an interpreter word 8, a byte of
a message 16 values, a count of MD5 wraps at 64 bits: all the overflow cases of the
code occur. Buffers, stacks and blocks whose size the code fixes (500 backtrack
points, 512-byte reads, 63 objects) are constants set to 1, 2 or 3 so that the
boundary is met in the middle of an operation. Two objects per wait and a pool of one
worker make select refuse a wait and discard a worker; three consumers leave a condition
variable's list with a middle; four operations on four pages double the page table while
it holds entries that were emptied; an address space of 4096 bytes, with words of 8 and
pages of 16, is met by the rounding of chunks and by increments whose bytes wrap. `VIEW`
in free_list and interp drops what the code writes before it reads it again; in
free_list also the seams of blocks in use, and it takes `caml_fl_cur_size` and
`uncounted` by their sum, all that the properties and the actions use.

Deadlock checking is off where a program may end or block itself for ever: threads
(a join of itself, a condition nobody signals), channels, interpreter, jobs. What the
library owes in those cases is stated as a property.

**Fairness.** WeakFinal: a slice that has begun runs to its end, and slices keep
being requested because the program keeps allocating; calls of finalisation
functions get strong fairness, since `caml_minor_collection` makes them after each
slice while in the model a new slice can begin first; the functions return.
SysThreads: a thread that nothing blocks goes on and a woken thread gets the mutex; a
waiter that nobody signals need not wake up (`UnsentWakeup` has no fairness); nothing is assumed of the competition for the lock, for which POSIX promises
nothing, so no property says that a particular thread gets it. Channels: a thread
with work is run, the kernel answers, and a channel mutex that is released again and
again goes to each of its waiters (strong fairness of `MutexLock`, a promise of the
mutexes in use rather than of POSIX). VMThreads: the scheduler goes on, timer
ticks arrive and delays expire; descriptors need not become ready.

## Theorems

`MajorGCProofs`, for every `N`, `F`, set of tags and sizes of the gray stack, from
the assumptions on constants in MajorGC only:

* `TypeCorrect` — types and ranges of the scans.
* `Invariance` — the inductive invariant `IInv`: types, `Control` (which `pc` goes
  with which phase), `Shape` (blue slots are empty, only scannable tags have
  contents), `GrayStack`, `PureHeap`, `LiveClosed`, `SnapshotMarking`, `SweepColors`.
* `Safety` — `NoReachableFree`. By itself it is not inductive: the sweeper frees
  white blocks, so one must know that no kept block refers to a white one
  (`LiveClosed`); at the end of marking that follows from `SnapshotMarking`, which
  says that every white block a root or a black block refers to is reachable
  from a gray block by white blocks, and from `PureHeap`, by which there is no gray
  block left. Lemma `MarkingEnds` is that step; `ToMarkMonotone` and
  `ToMarkClosed` are the facts about white paths that each action needs.
* `MarkingSafe`, `SweepingSafe` — the parts a maintainer relies on.
* `GraphKept` — the action property: a collector step removes nothing but
  bypassed Forward blocks from what the program can reach.

`WeakFinalProofs`, for the same constants and every number of weak arrays or of
finalisation functions. MajorGCProofs is instantiated as `B` with the finalisation
functions and the values that wait for them as further roots; `Core` is `B!IInv` with
the types and the control of what WeakFinal adds, and a value that awaits its death is
not yet free.

* `FinalisersKept`, `FinalisedAreDead` (`MaxWeak = 0`) — closures and scheduled values
  are never freed (`NoStrongFree`), and only values nothing else reaches are
  scheduled. By lemma `MarkingEnded` what is white when the marking ends is
  unreachable; `DarkenStep` carries the invariant through the darkening of the batch,
  each value of which may overflow the gray stack.
* `WeakPointersSound`, `ErasedAreDead` (`MaxFinal = 0`) — no weak pointer dangles, the
  list of weak arrays is whole, the collector empties no pointer to a block in use.
  The inductive invariant `WInv` says that there are a sequence `q` of arrays, the
  list threaded through memory, and a position `p` in it, the one the scan has reached,
  such that the links follow `q` (`Listed`), `weak_prev` is the array at `p` (`Passed`),
  every array that is kept is in `q` (`Complete`), the arrays up to `p` point to kept
  blocks in weak1 and are black in weak2, and later all of `q` is kept and points to
  what is kept (`PointersKept`, `ArraysKept`). TLC checks `WInv` on the instance of
  weak_safety and on one with lazy values.

One of the two bounds is 0 in each because with both positive the properties fail: a
value revived by finalisation may hold a weak array that weak2 has unlinked
(`major_gc.c:251`, below). The order in which values are scheduled is a function
`InOrder` of positions, which `SelectSeq`, a recursive operator, would put out of the
provers' reach.

`MinorGCProofs`, for heaps, tables, reserves and root sets of any size:
`YoungPointersStayKnown`. When the program runs, a word of the major heap or a global root
that refers to a young block is in its table or list, and the tables respect their
limits. That a collection leaves none behind takes the rest of `MInv`: how full the tables
are (`TablesInv`), forwarded blocks and the room to promote what is young (`HeapInv`),
the step of the collection (`ControlInv`), the words and roots still to come
(`WordsInv`, `RootsInv`), and the to-do list (`TodoInv`): there is a sequence of promoted
blocks whose copies are linked in its order (`Linked`), and every old word that still
refers to a young block is in a table, to come, or in one of these copies (`Covered`). The
constants are assumed to name different words (`MinorWords`).

`NothingDangles` — `NoDangling`: while the program runs, no word it can reach refers to a
block that was freed, the young blocks that a collection left behind included. `SafeInv`
adds to `MInv` that no word leads to a free block, except C variables that are no longer
registered (`SafeWords`), and pointers are only in fields that the collectors look at
(`SafeFields`);
that the second field of a promoted block, still to be moved, has a place in its copy
(`SafeCopies`); what the running loops and `caml_oldify_one` are about to read and store
(`SafeWork`, `SafeCall`); that a root removed but left in the young list holds no young
value, and that the list is empty once the roots are scanned (`StaleRoots`); and that
forward pointers exist only during a collection, which leaves the minor heap empty
(`SafeHeaders`). A slice after the minor
collection frees what a fixpoint of marking has not reached: what is marked is closed under
the fields, so nothing reachable is freed.

`SysThreadsProofs` proves of MasterLock, for every finite set of threads: `LockTypes` (types and
`WaitersExact`; the count needs exactness to stay natural), `LockExclusion`,
`WakeupKept`, and `LockRefinement`, that the lock implements `Lock` with the
threads inside as owners. The same module proves of SysThreads, for every set of Caml, C
and forking threads:

* `ThreadsExclude`, `ThreadsUseLock` — blocking sections, creation, exit and fork use
  the lock as MasterLock's own program does, so exclusion, the count of waiters, the
  wake-ups and the refinement of `Lock` carry over to them.
* `ThreadsKept` — `ThreadsSound`: the thread that runs has its own registers, and a scan
  of the roots visits the stack of every thread and nothing freed. The list is a ring:
  `next` and `prev` are inverse on the live blocks and no proper part of them is closed
  under `next`; insertion and removal keep that, and a scan visits them all
  (`RingInsert`, `RingRemove`, `RingScanned`). The hypothesis `HeadStays` is the
  boundary of `st_stubs.c:347` (below): either C code registers no threads or the head of
  the list does not exit. Without it the property is false.

`VMThreadsProofs`, for every number of threads and descriptors: `SleepersStayKnown`: a
thread asleep in a mutex or a condition is on the list of whoever will wake it, nobody
waits for a free mutex, both until a kill has torn a list; and what a resumed thread finds
in `retval` is, always, about the call in which it blocked. `VMInv` adds that the chosen thread is runnable (`SchedInv`), the flags
that go with each cause while a thread is blocked (`CauseInv`), and that no thread is
twice on the lists, on which just the sleepers and whoever is about to sleep in a
critical section are, unless a list is `torn` (`ListsInv`).
Where a scan looks for the first thread that can run, the proof takes a least position
instead of an induction along the list.

`ChannelsProofs`, for every number of threads and channels, sizes of buffers and files,
signals and handlers that raise: `ChannelLocks`, that a channel's mutex is owned by
the thread inside an operation on it and by no other, which an exception would release, and `ChannelBuffers`, that
each byte in a buffer or a file is the one meant for its position. Each stretch that
a thread runs alone is summed up in one lemma on the state it returns
(`RunKeeps`, `RaiseOutcome`), and other threads' operations in another (`OthersKept`,
`OtherChannels`).

`GcCtrlProofs`, for all sizes of words, pages, heaps and address spaces that GcCtrl's
assumption allows, any integers as parameters and any number of calls: `SettingsStaySound`,
`CollectionsStaySound` and `ChunksStaySound`, the parts of `RuntimeSound` about the
settings and the young pages, about when the heap is compacted, and about new chunks.
They rest on lemmas about rounding up to whole pages that the provers' arithmetic does
not find by itself (`TimesMod` and what follows it), on others about what wrapping leaves
(`ModUnique`, `DivMod`, `WholeTimes`, `PageLeft`), and on one lemma per operator that
runs OCaml code, about all the states it may leave. That `Gc.set (Gc.get ())` changes
nothing needs `Kept`, that each setting is a word the program can name, and
`IncrementAgain`, that an increment that is large enough is normalised to itself.

`SelectProofs`, for any number of callers, calls, descriptors and queries, any limit of
objects and of the pool: `WorkersStayOwned`, the part of `WindowsSound` about the workers.
`WorkersOwned` by itself is not inductive: that a worker's data is not freed depends on
where its caller is. The invariant `SelectInv` says that a worker that has not ended is in
exactly one place (`OnePlace`, `Placed`): the data of a call, the hand of a caller that is
about to give it work or to end it, or the pool; what it does in each (`WorkersAt`: a
command that was sent and not taken, a job, a finished job that was not collected, rest);
what the data of a caller is at each point of its call (`CallPhases`); and that the count of
workers is the number of those in use (`CountExact`) until the cleanup (`AtEnd`). The
workers of a call that an exception ended stay where they were: the theorem says that when
no call is under way they are the only ones in use, and that the cleanup leaves no other.
`PlaceStep` is the step of a caller that moves one worker, `WorkerStep` the step of a
worker. That the loop over the descriptors is defined is shown for the least turn that
would not be.

**Model-checked only.**

* Liveness (`Finalised`, `RuntimeAvailable`, `OperationsEnd`, `Resumes`): the prover has
  neither fairness nor ENABLED.
* `PromotionKeepsGraph`: equality of the graph before and after, up to the renaming of
  promoted blocks and through chains of forwarded lazy values. That a recursive function
  satisfies its own equation can be shown from a least counterexample, as SelectProofs
  does, but a statement about all paths takes an induction per path; `NoDangling` is the
  half of it that is a fact about single words, and is proved.
* `HeapSound`, `AllocationFindsFit`, `Coalesced`: FreeList lays out chunks, measures the
  list and relocates blocks by folds, whose equations the library states with an operator
  parameter.
* `AnswersExact` of Select: the answers are collected by folds and filters over sequences.
  WinThreads and Tables use recursive operators.
* The algorithms of MCData, the interpreter, ocamlyacc, marshalling, compaction and MD5:
  recursive operators and folds throughout.

## Where the code and what is said of it part

One is a run. The others were met while modelling; the models follow the code, and
each is named where an instance or a property steps around it.

* `extern.c:314` — a forced lazy float reached twice is written as an integer
  (run shared_forward).
* `major_gc.c:251` — weak2 takes a dead weak array off the list before finalisation
  revives it: its pointers then dangle. WeakSound fails with `MaxWeak` and `MaxFinal`
  both positive; weak_safety and final_live keep them apart.
* `weak.c:174` — during weak1 `Weak.blit` empties a pointer to a white block although
  the program may reach it through a block taken out of a weak array and not yet
  scanned. `EraseOnlyDead` is about the collector's steps.
* `finalise.c:111` — the assertion that a value to finalise is still white fails for a
  value registered twice.
* `st_stubs.c:347` — when the head of the list of threads exits, `all_threads` still
  points to its freed block: a C thread registered later is linked from it. In
  sys_threads the head, the main thread, does not exit.
* `globroots.c:215` — a generational root in the list of young roots that is overwritten
  by an old value and then removed is looked for in the list of old roots only: it stays
  among the young ones, and the next minor collection moves it to the old list for good.
  A root emptied while in the young list ends in the old list in the same way when it is
  given a young value and removed.
* `globroots.c`, `caml_modify_generational_global_root` — a root that holds a block
  outside the heap and is given a young value enters no list. `RootValues` leaves such
  blocks out.
* `select.c`, `find_handle` — the index counts distinct descriptors but is used on the
  list as given: after a repeated descriptor another one is answered. In the instances
  only the last descriptor of a list is a repeated one.
* `select.c:553` — the comment says that the blocking mode is restored, but the mode set
  is the non-blocking one: a socket that was waited for stays non-blocking (`nonblock`).
* `select.c:528` — `aEvents` has `MAXIMUM_SELECT_OBJECTS` places (line 494), although the
  comment at line 29 counts the stop event as one more object: when a data is full,
  `hStop` is written behind the array. The model follows with a failed wait or the end of
  the process (`Overruns`, `SocketCrash`), and `AnswersExact` has the exception.
* `select.c:983`, `select.c:1036`, `winworker.c:284`, `winworker.c:315` — a handler that raises
  as a blocking section begins or ends takes the caller out of the call: its data is
  never freed and its workers are not given back to the pool (`Lost`).
* `select.c:763` — an unknown descriptor raises while the data of the earlier ones is
  allocated; that memory is lost. Workers are not touched yet, and memory running out is
  not modelled in Select.
* `select.c`, `read_console_poll` — two calls on one console race for its records: one may
  find nothing to read. No instance has two callers on the console.
* `reader.c`, `parse_line_directive` — after a line directive the reader goes on in the next
  line at the column where the directive ended, behind the end of a shorter line in what
  an earlier line left in the buffer (`misread`), and a directive right after another is
  not recognised.
* `parsing.c:194` — after an action raises `Parse_error` in an empty production, or
  within three tokens of an error, the engine goes on in the state of the reduction
  that failed, which is on no stack (`RaiseAnywhere`).
* `st_stubs.c:244` — the comment says that a signal whose handler raises between
  `st_mutex_lock` and the `st_tls_set` after it leaves the mutex locked. It is out of date:
  since `caml_thread_try_leave_blocking_section` returns 0 (line 211) the signal is only
  recorded there, and the handler runs in `leave_blocking_section`, when the thread's
  `last_channel_locked` is set. `LocksReleased` holds in that interleaving too.
* `signals.c:57` — the comment promises that a signal is processed as soon as possible, via
  `caml_something_to_do`. That flag and `caml_signals_are_pending` are cleared before
  finalisation functions and handlers run; when one raises, signals that were pending
  stay recorded, and nobody looks at them until another event is noticed. `MachineSound`
  allows exactly these (`hist.left`).
* `thread.mli:48` — `Thread.kill` of otherlibs/threads is documented without restriction,
  but a killed sleeper stays on the list of its mutex or condition: `thread_wakeup` then
  fails (`scheduler.c:714`) out of the `List.iter` of `Mutex.unlock` or
  `Condition.broadcast`, later waiters stay asleep, and a critical section may never end.
  `SleepersKnown` speaks of lists that are not `torn`, `Resumes` has the exception
  `Unpreemptible`.
* `io.c` with `st_stubs.c` — a handler that itself uses a channel overwrites
  `last_channel_locked`, and an exception it raises then leaves the interrupted
  operation's mutex locked. Handlers of Channels do not use channels. A handler that
  raises after a transfer leaves buffer and file at odds (`torn`).
* `gc_ctrl.c:407` — `norm_minsize` compares bytes in `Gc.set` with limits in words: a
  minor heap set at start-up may be larger than `Gc.set` allows
  (`SettingsSound` has the exception).
* `gc_ctrl.c:344`, `gc_ctrl.c:393` — the increment is rounded up and turned into bytes without
  a check: a huge `major_heap_increment` wraps to less than was asked, even below the
  smallest chunk, against the "minimum number of words" of `gc.mli:91`. `SettingsSound`
  says when.
* `freelist.c:473` — of a chunk that is added as a chain of blocks only the first is counted
  in `caml_fl_cur_size`: the assertion of `fl_check` (`freelist.c:101`) fails from then on,
  and the compactor's estimate is too small. The model has the difference in `uncounted`.
* `gc_ctrl.c:152` — the assertion that no fragment follows a free block, still made, and the
  stronger ones that a comment withdraws "with big heap chunks" (lines 185-194) fail where
  two neighbours together are larger than a block may be. `Coalesced` allows these (`seams`).
* `startup.c:311` — the value of an `OCAMLRUNPARAM` parameter is not skipped but read
  as further letters: no decimal digit or multiplier is one, but in a hexadecimal value
  `a` and `b` are taken for parameters. The inputs of Startup are decimal.
* `compact.c:132` — `compact_allocate` passes a chunk only when the next one is as full,
  so it may leave room unused behind it; blocks still only move down. When it has come to
  the last chunk and that is nearly full, it takes the size of a chunk at NULL: in
  FreeList and Compact the process then ends (`"crashed"`).
* `extern.c:395`, `intern.c:299` — the offset of an infix header is written in bytes of the
  writer's words and added as it is by the reader: a closure of mutually recursive
  functions that goes to a machine with other words reads back wrong, although
  sizes in the message are given for both. `ReadsBack` leaves these pointers out.
* `extern.c:517`, `extern.c:546` — an exception from `caml_really_putblock` (an error or a
  handler) or `caml_alloc_string` leaves the output blocks that were not yet written
  allocated for ever and may leave part of a message in the channel. `MessageWhole` allows
  it after such an exception only.
* `ints.c:129` — `int_of_string` accepts a hexadecimal, octal or binary literal as large as the
  unsigned numbers of the width of `int`; `Val_long` makes it another, negative integer,
  where `pervasives.mli:463` promises `Failure` for what exceeds the range of `int`.
  `LiteralsExact` expects what the code returns.
* `hash.c` — floats are hashed by their bits, so `0.` and `-0.`, which are equal, and two NaNs,
  which `compare` takes for equal, may hash differently, against `hashtbl.mli:160`. The part
  of `ValuesSound` about hashing leaves zeros and NaNs out.
* `strstubs.c:215` — at the end of the text a word boundary after a character that is no
  letter fails, even in a partial match, though a letter could follow: `" "` is no partial
  match of ` \ba`, against `str.mli:96`. And `Eol` succeeds at the end, and a reference to a
  group matches a part of it, where no continuation matches. `PartialExact` leaves out
  expressions with a word boundary, and, in one direction, those with `$` or a reference.
* `strstubs.c:146`, `str.ml:518` — only the groups of the expression are reset: a reference to a
  group it does not have reads what an earlier match of another expression left
  (`job.old`).
* `strstubs.c:303` — when there is no memory for another block of the backtracking stack,
  the exception leaves the earlier blocks allocated.
* `bigarray_stubs.c:840` — when there is no memory for a proxy, the exception leaves a new
  array that manages the same data without one: its finaliser and the first array's
  free the data twice (`orphan`). `LifeSound` allows that second release only.
* `bigarray_stubs.c`, `caml_ba_reshape` — the product of the new dimensions is computed
  without `caml_ba_multov`, unlike creation.

## What is not modelled

Infix pointers and custom blocks' C finalisers in the collectors (their colouring is
that of other tags); the speed of the collector; the native-code stack layout and
frame tables, which the compiler emits; the tick thread's signals and signal masks; signal
handlers that run while the bytecode scheduler is in `select`;
IEEE arithmetic; error messages, traces and layout of output. Bindings (Unix, graphics, Tk, dbm) copy arguments around one
call each. `win32caml` is a graphical front end. The compilers, the type checker and
the standard library are pure OCaml programs about all inputs, beyond finite
instances; `event.ml` and the debugger's checkpoints are candidates for models.

## Plan

1. Proofs: the graph equality of `PromotionKeepsGraph`, with reachability as a least
   closed set; that `caml_fl_merge_block`, `allocate_block` and the splitting of blocks
   keep the order of the free list, once FreeList states its layout without folds; the
   list of waiters of WinThreads.
2. Refinement: a minor collection as a sequence of `Alloc` steps of MajorGC; the
   blue blocks of MajorGC as the list of FreeList.
3. Event channels on top of SysThreads; the debugger's checkpoints.
