# Android Memory Analyzer: TLA+ specifications and proofs

This directory holds the formal models of the native heap analyzer in this
repository: the preloaded library `libmemanaly.so` (C++/C under `src/`) that
records every allocation of a process and serves heap snapshots over TCP, and
the Python tools at the top level that analyse a snapshot.

## 1. Inventory

| Component | Source | State | Operations |
|---|---|---|---|
| Allocation hooks | `src/main.cpp` | eight `handle*` pointers, switched one by one from `do_pre_*` to `do_*` by `Constructor` | `malloc`, `free`, `calloc`, `realloc`, `memalign`, `malloc_usable_size`, `mmap`, `munmap` |
| Heap ledger | `src/HeapInfo.cpp`, `src/ChunkInfo.*` | `m_infoMap` (address -> chunk record), recursive mutex `s_restoreMutex`, `s_lockCount`, `s_lockDisable` | register, unregister, lookup, walk, lock, unlock |
| Hash table | `src/ghash.c` (GLib's, trimmed) | parallel arrays `keys`/`hashes`/`values`, `size`, `mod`, `nnodes`, `noccupied`, tombstones | lookup, insert, remove, foreach, resize |
| libc resolver | `src/mymalloc.cpp` | `my*` pointers, line buffer over `/proc/self/maps` | find libc, read its ELF hash table, resolve eight symbols |
| Stop the world | `src/StopWorld_linux.cpp` | `g_shouldSet`, `g_context[64]`, `g_contextLen`, a condition variable, the signal's disposition | stop, restart, read contexts; the signal handler |
| Heap server | `src/HeapServer.cpp` | `s_port`, `s_handlers[8]`, `s_client_count`, listening sockets | register a handler, bind ports, accept, dispatch under the ledger's lock |
| Full snapshot | `src/HeapSnapshotHandler.cpp`, `src/GlobalVariable_linux.cpp`, `src/ThreadData_linux*.cpp`, `src/DumpHeap.cpp` | a forked child with its own copy of everything | stop, fork, dump the ledger, stacks and globals, restart |
| Light snapshot | `src/LightSnapshotHandler.cpp`, `src/DumpHeap.cpp` | none of its own | walk the ledger in the server thread |
| Memory map list | `src/MapParse.cpp` | circular list of mappings | parse, insert, lower bound, free |
| Unwinder | `src/backtrace_arm.c`, `src/ChunkInfo.cpp` | a cursor (`ip`, `cfa`, register locations) | search the unwind table, decode, apply, step |
| Snapshot analysis | `analyze.py`, `hash.py` | list of heap elements | parse, reference search, mark and sweep, grouping, overlap removal |
| Reports | `AddressFilter.py`, `ObjectParser.py`, `ObjectHierarchyAnalyze.py`, `SnapshotDiff.py`, ... | per-tool | symbolise, name objects, hierarchy, diff |

How the parts interact. Application threads enter the library through the
eight hooked functions, and libc enters it again, on the same thread, when its
allocator maps or unmaps arena pages. The hooks call the libc functions that the
resolver found, then the ledger; the ledger stores its records in the hash
table. One server thread accepts a client at a time and runs its handler while
it holds the ledger's lock. The light handler walks the ledger itself; the full
handler stops the other threads with a signal, forks, wakes them, and lets the
child walk its copy, the stacks and the globals. The Python tools read the
bytes the handlers sent, when the process may be gone.

What is hard, and what makes each part correct:

| Component | Hard behaviour | Correct when |
|---|---|---|
| Hooks and ledger | threads interleave; `free` returns memory after the lock; libc calls back from inside a handler; one global recursion count | records = memory the application owns; libc's pages stay out; calls return; a report is one moment |
| Stop the world, full snapshot | late signals, wakeups lost or spurious, a fork in a multithreaded process, fixed arrays, descriptors | the child copies a stopped process with every stack; threads always resume; the lock is given back |
| Hash table | tombstones, counters kept by hand, resizing | it is a map; probing ends |
| Heap server | descriptor reuse, busy ports, kernel failures, two sockets and one thread | a client gets the handler of its port and never waits for ever |
| libc resolver | lines cut by the end of a fixed buffer, reads that end early, symbols that share buckets and prefixes | lines come out whole; each pointer is its own symbol's; a trap has a reason |
| Map list, snapshot stream | lines in pieces, a loop over a ring that passes over elements, partial sends, a client that hangs up | the stacks and globals are sent; the reader gets back whole records in order; it ends |
| Unwinder | table edges, instructions that move what the next ones read, frame pointers that may be anything | the callers are recorded, in bounds; it returns |
| Snapshot analysis | searches between elements, marking, groups merged through shared sets, roots that overlap allocations | just the unreachable allocations are reported, in connected groups |

## 2. Plan and its state

1. Done: `HeapInterpose` (hooks, ledger, lock, walk), `LedgerSpec` (the abstract
   ledger), the refinement, `HeapInterposeProofs`.
2. Done: `HeapSnapshot` (signals, contexts, fork, restart, the child),
   `HeapSnapshotProofs`.
3. Done: `HashTable` with `MapSpec`; `HeapServer` with `HeapServerProofs`.
4. Done: `SymbolResolver` (`mymalloc.cpp`) with `SymbolResolverProofs`.
5. Done: `Unwind` (`backtrace_arm.c`, `ChunkInfo.cpp`), `UnwindFrames` (what it
   takes for granted of the program) and `UnwindProofs`.
6. Done: `SnapshotStream` (the map list, the stacks, the globals, `DumpHeap`,
   `sendTillEnd`, and `parse`), and `Analysis`, which continues it in the reader.
7. Done: in `HeapInterposeProofs`, the refinement to `LedgerSpec` as a theorem.
8. Done: `HashTableProofs`, the refinement to `MapSpec` as a theorem.
9. Done: `AnalysisProofs`, what `SnapshotStream` sends and what its reader finds.
10. Done: `LeakProofs`, what `Analysis` makes of the file: the leaks and groups
    it reports.

Modules to be proved about contain no RECURSIVE operator, one action per
operation, and named assumptions on their constants.

## 3. The modules

### HeapInterpose

Models `src/main.cpp`, the lock and the calls of `src/HeapInfo.cpp`, and the
light handler's walk (`src/HeapServer.cpp`, `src/DumpHeap.cpp`).

| Variable | In the code |
|---|---|
| `installed` | how many `handle*` pointers `Constructor` has switched |
| `owner`, `depth` | `s_restoreMutex`, a recursive mutex |
| `s_lockCount`, `m_infoMap` | the variables of these names |
| `mem` | who holds each address (application, libc, nobody), with its size, and whether it came through a `do_*` handler: libc's and the kernel's state |
| `pc`, `call` | each thread's at most two frames: the application's call, and one made by libc from inside it |
| `spc`, `todo`, `sent`, `report` | the server thread and its walk |

A handler is the actions `Map`, `Lock`, `AllocSucceeds`/`AllocFails`, `Record`,
`Forget`, `Unlock`, `Release`, in the order of the code: `do_free` and
`do_munmap` give memory back after the unlock, `do_mmap` obtains it before the
lock. `do_memalign`'s failure path leaves without the unlock (`AfterNull`), and
`do_realloc` touches the ledger only when libc returned memory, as in the code.
`CallBack` is libc entering `mmap` or `munmap` from inside a step. A record is
its size and its flag; the backtrace is left out. The `do_pre_*` handlers are
the same frames without the ledger's steps. `walk` visits the table in any
order, and `MaySend` is `mincore`'s answer.

`LedgerSpec` says what this amounts to: a map that changes by one registration,
one removal or one renewal at a time, and reports that are snapshots of a
single moment. `LedgerSpecHolds` is the refinement, with `known <- m_infoMap`.

### HeapSnapshot

Models `src/StopWorld_linux.cpp` and `HeapSnapshotHandler::handleClient`. A
thread's signal handler goes `none -> entered -> parked -> woken -> none`; the
stretches of `myaction` under its mutex are single actions because nothing in
them blocks. The server's steps are separate wherever another thread can come
in between: the reset of `g_contextLen` and `sigaction`, the opening of the
window `g_shouldSet`, each `tgkill`, the end of the sleep, `fork`, the old
action's return, the broadcast. `where` is what the thread's own code is in the
middle of, and decides which locks the forked child inherits as held. The sleep
of a second is the constant `Prompt`: TRUE says that every signal sent has been
handled by its end. The child is a record of what it copied and how far it got.
Threads are neither created nor ended during a run.

### HashTable

Models what the ledger uses of `src/ghash.c`. The table is a record, and each C
function an operator from tables to tables. The `i`-th probe of hash `h` is
`(h % mod + i(i+1)/2) % size`, the closed form of the code's growing steps.
Sizes are `Pow2[shift]`, the code's `1 << shift`; `Rehashed` is the new table
after each number of slots that `resize` has moved. The code counts in `gint`s
and computes four times the number of nodes: `HashCountAssumption` keeps the keys
below 2^29, which blocks eight bytes apart in a 32 bit address space are, and the
model's numbers are not cut off. `MapSpec` is the map the callers see;
`MapSpecHolds` reads it back through `lookup`.

### HeapServer

Models `src/HeapServer.cpp`. `spc` runs through `Constructor`'s registrations,
`serverFunc`'s binding loop and its serving loop. `files` is the process's
descriptor table, which the application uses too, with the kernel's rule of the
lowest free number; `fv`, `epollfd` and `sockfd` are the `FileOwner`s, and
`ServerReturns` is what their destructors do on every `return`. Other processes
take and give back ports. `handleClient` is one action here.

### SymbolResolver

Models `src/mymalloc.cpp`. `maps`, `file` and `buf` are `/proc/self/maps` as
lines and as bytes, and the line reader's buffer with its two indices; `image`
is libc's headers, dynamic section and hash table; `my` is the pointers found so
far. `ReadLine` is the reader's loop up to a line; `Examine`, `DealWithElf`,
`FindSym` and `Walk` are the search for libc, its dynamic section, and the walk
along a chain of its hash table. `elf_hash` keeps its 32 bits. The bytes behind
the data read are whatever an earlier read left there, as in the code. What the
resolver relies on is said of the constants: lines of `/proc/self/maps` have an
address, a path and a newline only at their end (`MapsAssumption`); the linker
hangs each symbol where the hash says and chains end (`ImagesAssumption`, where
`Leads` says without recursion that a chain comes to a symbol); `elf_hash` gives
the eight names the hash the linker used (`NamesAssumption`, which TLC checks by
computing it).

### Unwind

Models `ChunkInfo::get`, its fallback along ARM's frame pointers, and
`src/backtrace_arm.c`. `chain` is the calls in progress, through the functions
of a given table, and `mem` the words their prologues have saved. `Step` finds a
frame's entry (`FindProcInfo`) and lays its instructions out in `buf`
(`Extract`), `Decode` executes one instruction on the cursor, `Callback` stores
the address, and `FastStep` is one round of the walk along frame pointers. The
cursor holds where each of the caller's registers was saved, not its value, as
in the code. `Begins` says where the instructions of an entry begin.

`UnwindFrames` states the contract between the compiled functions and their
table entries: a reader as the ARM exception handling ABI describes it, which has
the values of registers where the code has their places, restores from the machine
of a call (`Frames`) what the caller goes on with (`FramesAssumption`).

### SnapshotStream

Models what the child of a full snapshot and a light snapshot send:
`src/DumpHeap.cpp`, `src/MapParse.cpp`, `src/ThreadData_linux_*.cpp`,
`src/GlobalVariable_linux.cpp` and `sendTillEnd`. `snapshot` is what there is to
send; `out` holds the calls of `sendTillEnd` still to be made, of which
`SendSome` sends any part; `sent` remembers the headers, `stream` is what the
client received. The map list is a sequence whose end meets its head
(`m_next`); `parseLines` and `parsePieces` are the list after each line and each
piece of a line that `fgets` returns. `SendData` is one round of the loop over
the ring, with the element it passes over. `parse` is the reader of `analyze.py`,
and `ReadRecord` one round of its loop. `SnapshotAssumption` says what a process
may look like: the kernel lists its mappings in the order of their addresses, and
each line has a mapping in its first piece.

### Analysis

Models `analyze.py` behind `parse`, on the file `SnapshotStream` has produced:
`ReadFile` sorts and removes collisions, `AnalyzeZeroRef` is the run without
options, and `MarkRoots`, `Mark`, `Sweep`, `NewGroup`, `Visit`, `Meet`, `Merge`
are the run with `--mark-and-sweep`, one step for each element taken off
`markStack` or `process_stack`. `sets` holds the alias sets and `alias_set` each
group's index into them, because in the code groups share sets by reference.
The loops of the code over lists are recursive functions over the naturals
(`Sorted`, `Filtered`, `remove_collision`, `Search`, `Mark`, `Merge`): an operator
for the body (`Insert`, `Collision`, `SearchRound`, `Marking`, `Merging`), applied
once per element, or, for the two binary searches, as often as the list is long,
of which the rounds after the end change nothing.
The properties of this module speak of the memory that was sent (`sent` and
`snapshot.words`), so that they hold of the whole way from the process to the
report.

### External code

libc's allocator, the kernel and the application are modelled from the way
`src/` uses them: `CallAlloc`, `CallFree`, `CallRealloc`, `CallMmap`,
`CallMunmap`, `CallBack`, `Available`, `AllocatorFree` in `HeapInterpose`;
`Deliver` and `WakeSpuriously` in `HeapSnapshot`; `NewFd`, `Bound`, `Connect`
and the `Change` actions in `HeapServer`; `dl_unwind_find_exidx` in `Unwind`;
the client's hanging up and SIGPIPE in `SnapshotStream`. The application frees only memory it
holds, once, and does not touch an address two calls use.

## 4. The runs

| Run | Instance | Shows |
|---|---|---|
| `interpose` | 2 threads, 2 calls each of any function, 2 blocks, 1 page, 2 callbacks from any step, 1 walk | `TypeOK`, `LockInv`, `LedgerSound`, `LedgerComplete`, `LibcUnrecorded`, `SentIsRecorded`, and that the ledger implements `LedgerSpec` |
| `interpose_live` | 2 threads, 2 calls each of `malloc`, `free`, `realloc`, `mmap`, `munmap`, 1 block, 1 page, libc with a lock of its own, 2 callbacks from any step, 1 walk whose client may stop reading | `CallsReturn`, `WalksFinish` |
| `interpose_realloc_zero` | `realloc(p, 0)` frees | a stale record is reported (violation) |
| `interpose_memalign` | `memalign` can fail | the lock leaks and memory goes unrecorded (violation) |
| `snapshot` | 2 threads and the server, 2 snapshots, signals in time | `TypeOK`, `WorldStopped`, `AllStacks` |
| `snapshot_faults` | signals as late as the next snapshot, spurious wakeups, failing forks, two descriptors | `ContextsParked`, `LedgerQuiet`, `ThreadsResume`, `ServerReleases` |
| `snapshot_libc` | threads stopped inside `myfree` | the child deadlocks in `parseFile` (violation) |
| `hash_table` | 4 keys of which two pairs collide, 2 values, 4 to 16 slots | `SizeFits` (counters, probing, size), `ForeachIsLookup`, and that the table implements `MapSpec` |
| `server` | 3 registrations for 2 slots, 2 clients, 5 descriptors, ports of 5 values that wrap, 2 of them busy, 3 changes by others, every kernel failure | `NoFdLeak`, `HandlersListen`, `ServedByOwner`, `PortsFound`, `ClientsAnswered` |
| `resolver` | files of up to 3 lines around a buffer of 8 bytes, 8 images of libc | `LinesWhole`, `Resolved` |
| `unwind` | chains of up to 3 calls through 8 functions whose entries use every kind of instruction; frame pointers that may be anything | `StoreInBounds`, `CallersFound`, `BacktraceEnds` |
| `stream` | address spaces of up to 4 mappings with a stack pointer at every border; heaps of up to 5 allocations that point to each other; collisions; a client that hangs up at any time | `Framed`, `StacksSent`, `GlobalsSent`, `LeaksReported`, `GroupsConnected`, `AnalysisEnds` |

Why the bounds are enough. The hazards of the ledger need two threads and one
address that goes from one to the other: a thread reallocates or frees a block
while the other is given it, which takes two calls of one and one of the
other, and leaves one to spare. Two blocks let `realloc` move. Two callbacks let
both threads be nested at once, and libc give back from `myfree` the page it has
mapped before: the two locks are then taken in both orders. A second snapshot meets what the first left
behind. Four keys fill the smallest table, force a growth from 4 to 16
slots, a shrink at 3 nodes and a rebuild on tombstones alone; guints of four
bits make addresses collide and meet the reserved hash values, and shift 2
instead of 3 makes all of this happen with four keys. Five descriptors are what
the server needs and one application file; with a second file `accept` fails, and
with a third the server finds no descriptor for its second socket. Ports of five
values, from 3 on and with two of them taken, make `s_port` wrap.
A buffer of eight bytes meets lines that end before, at and behind its end,
and lines that follow a cut one. Three calls let a frame restore what its
caller's caller saved. Four mappings hold data, its bss, a stack and a
neighbour of each, adjoining or not. Four leaked allocations let a search meet
a group that is in a set while its own group is in another; five make the
current one the larger, so that both directions of the merge happen.
In `interpose` the threads and the blocks are symmetric. `CHECK_DEADLOCK FALSE`
stands in the runs with bounded calls, snapshots or changes: the application may
stop calling and clients may stop coming; the resolver, a backtrace and a
snapshot with its analysis come to an end.

Assumptions of the instances. The last mapping is no data
(`SnapshotAssumption`): in a process it is
the kernel's vector page or vsyscall (were it data, the loop over the ring would
step over its head). Memory that is sent can be read, and words that are not
given are zero. The kernel's reads of `/proc/self/maps` are short only
at its end, and a header arrives whole or not at all. The calls in progress fit
the stack, which does not reach where the unwinder keeps the registers, and
the address a call returns to lies in the function that calls
(`ProgramAssumption`): the code looks up that address and not the one before it, so
a call that is its function's last instruction and does not return would be
looked up as the next function. The entry of a function undoes its prologue
(`FramesAssumption`), which is what the compiler has entries for, and the outermost
function returns to where no table reaches (`BottomAssumption`). Entries of the unwind table have the words they
announce, at most five as the assertion in `backtrace_arm.c` demands, and the
operand of a large stack move, whose length only its own bytes tell, ends before
they do (`EntriesAssumption`); `CallersFound` leaves out functions whose entry
says that they refuse to be unwound. The ledger has one record for an address.

Fairness. A thread that can take its next step takes it (weak fairness per
frame in `HeapInterpose`, per signal handler and per critical section in
`HeapSnapshot`), which the kernel's scheduler gives; a queued real-time signal
is delivered in the end. The code has no timeout for a client that stops reading,
which then stops the process's allocations. In `HeapInterpose` the server's lock
and unlock are fair but its sends are not: `CallsReturn` has such a client as an
exception, and `WalksFinish` has `ClientReads` as a premise. In `HeapServer`, where
`handleClient` is one action, and in `stream` a client reads until it leaves. Starting a call, connecting, calling back from libc, changing a port or
a file are never obliged to happen. Unwinding and the resolver are loops of one
thread. In `stream` the sender and the reader are two processes, each of which
takes its next step: sends succeed while the client is there, and fail at once
when it is gone. The strong fairness of `EpollWait` is
epoll's: a level-triggered socket that was reported goes to the end of the
ready list. Mutual exclusion needs no fairness beyond this in `interpose_live`
because calls are bounded there; with unboundedly many calls a waiting thread
would depend on the mutex being fair.

Limits that TLC shows when an assumption is dropped, without a promise of the
repository to hold against it:

- Calls can wait for ever, for the reasons that `CallsReturn` names: `myfree`
  runs outside the ledger's lock, so that a libc which trims its arena there and
  one called under that lock take two locks in two orders (`LocksCrossed`); a
  client stops reading (`ClientStalls`); a failed `memalign` has kept the lock.
  The run meets the first two, and fails without either exception.
- With `EarlyThreads` a block from the hooked `malloc` is freed by the unhooked
  `free`, and `LedgerSound` fails.
- With `Prompt` FALSE `AllStacks` fails (a signal meets its default action);
  with fewer than `Len(Tasks)` for `MaxSend`, and with `MaxFds` 2, it fails
  too: each snapshot leaks one descriptor (`StopWorld_linux.cpp:39`), and one
  that cannot open the task list has no stacks. With `ForkMayFail` threads stay
  parked (no restart), which `ThreadsResume` excuses; with `SpuriousWakeups` a
  context may be stale, which `ContextsParked` excuses.
- When `s_port` wraps, a socket is bound to port 0 and gets a port of the kernel's
  choice, while 0 is recorded and logged: `HandlersListen` leaves such a slot's port
  out. When `socket` fails for want of a descriptor, the loop (`HeapServer.cpp:155`)
  tries one port number after the other without a pause until the application
  closes a file, and clients of the socket bound before wait: `PortsFound` and
  `ClientsAnswered` except exactly this (`SocketStarves`), and fail in the run
  without it. The light handler listens on the next free port after 3244, so 3245 at best, while
  the repository's `README.md` gives 3255.
- On ARM the fallback's trace is recorded with length 0 (`ChunkInfo.cpp:117`).
- A line of `/proc/self/maps` longer than the resolver's buffer traps; the map
  list takes the rest of a line of more than 511 bytes for a line of its own.
- Of two neighbouring data mappings the second is not sent.
- A file that was cut between two records reads as a complete one; a SIGPIPE in a
  light snapshot ends the application.
- `analyze.py` does not look for pointers inside the last element of a list
  (line 179). `remove_collision` keeps both of two overlapping elements when
  its binary search meets the root before the allocation, and removes the
  allocation instead of the root when they start together (`list.remove`
  compares addresses only, and the sort is stable).
- `remove_collision` cuts a root before the page on which an allocation inside
  it starts. When that page begins below a root that does not begin at a page
  (a stack sent from its stack pointer), the new size is negative and the
  assertion in line 502 ends the analysis. `RootsShrink` names the snapshots
  where this cannot happen; the run has some where it does, and
  `GroupsConnected` says that nothing else makes the reader raise on a file
  that was not cut.

Every checked property is broken by at least one mutant of a mapped definition.
The mutants stand in the modules before the definition they change, each with
a comment that names its bug: a lock that is not one, an unlock skipped, a
dropped sleep, a tombstone not erected, a descriptor read too late.

## 5. The proofs

All theorems hold for any sets of threads, addresses, keys and handlers and any
bounds, under the named ASSUMEs of the modules and the conditions given below.

`HeapInterposeProofs`, for any values of the flags:

- `TypeAndLock`: `TypeOK /\ LockInv` is an invariant. `TypeOK` alone is not
  inductive, because `Unlock` subtracts one from `depth` and `s_lockCount`: that
  these are positive there is `LockInv`. `LockInv` counts, for each thread, the
  frames between `lockHeapInfo` and `unlockHeapInfo` (`Locks`), and says that a
  thread with such a frame owns the mutex at least that often. It says at least
  and not exactly because a failed `memalign` leaves a hold behind, so it covers
  that path too. `TypeCorrect` and `LockDiscipline` are its two halves.
- `WalkIsSnapshot`: `SentIsRecorded` is an invariant. `LedgerStillInWalk`
  derives from `LockInv` that no thread is in a critical section while the
  server walks, so nothing changes the ledger then; `SentInv` adds that outside
  a walk nothing has been sent, which makes it inductive.

The second part of `HeapInterposeProofs`, for a libc whose `memalign` does not fail and whose
`realloc(p, 0)` returns memory, in a process whose threads start after
`Constructor` (`LedgerAssumptions`; TLC refutes one of the theorems when any of
the three is dropped):

- `LedgerInvariant`: `TypeOK /\ LockInv /\ ControlInv /\ DataInv` is inductive.
  `LedgerSound` alone is not: whether a record may be without memory, or memory
  without a record, depends on what the frames are about to do. `ControlInv`
  says what a frame looks like at each place of a handler (`FrameInv`), how
  libc's nested call sits in the application's (`NestInv`), and that without
  failures the lock is held exactly as often as there are frames inside
  (`LockExact`). `DataInv` says what a frame has in its hands (`HeldInv`), what
  it has done to the ledger (`DoneInv`), that no two frames work on one address
  (`Exclusive`), and that every address no frame works on is settled: recorded
  with its size, or neither recorded nor owned (`KeyInv`).
- The argument is local: `LocalStep` shows that a step which changes only the
  addresses its frame works on preserves `DataInv` if it does so for that frame
  and these addresses, so that each action has one lemma about its own frame.
- `NothingStale`, `NothingLost` and `ArenaUnrecorded` follow: `LedgerSound`,
  `LedgerComplete`, `LibcUnrecorded`.
- `LedgerImplemented`: `LedgerSpecHolds`, the refinement. Every step of
  `HeapInterpose` is a step of `LedgerSpec` or leaves `m_infoMap` and `report`
  alone; `Record`, `Forget` and `UnlockServer` are the ones that map to steps.
  `LedgerSpec` requires that what is registered is not on record yet, so
  `FreshInv` follows an address from libc's answer to its registration: free
  memory is not on record (`FreeUnrecorded`), except for the block of a `realloc`
  whose thread then holds the lock, and only the frame that has the address
  changes its record (`OwnRecordsOnly`). `WalkedInv` says that a walk has sent
  every block of the slots it left, which with `SentIsRecorded` makes the report
  the image of the ledger at the moment of the unlock.

`HeapSnapshotProofs`:

- `SnapshotTypeCorrect`, `LedgerCopiedQuiet` (`LedgerQuiet`) and
  `ContextsAreParked` (`ContextsParked`) without conditions. The invariant counts
  signals: those pending for a thread and the one it handles are no more than
  the stops that signalled it, and of the current stop each thread has at most
  one, which bounds `g_contextLen`. `LedgerQuiet` rests on the server holding
  the ledger's lock from before the stop to after the fork.
- `ForkFindsWorldStopped` (`WorldStopped`) and `SnapshotHasAllStacks`
  (`AllStacks`) under `StopAssumptions`: signals are handled within the second,
  waits do not return by themselves, forks succeed, `Len(Tasks) <= MaxSend`, and
  `MaxSnapshots < MaxFds`.

`HeapServerProofs`:

- `ServerInvariant` relates the descriptor table to its owners at each place of
  the server thread: `DescriptorsOwned` (`NoFdLeak`), and, because a slot's
  socket stays open while the slot is in use, `ClientsMeetTheirHandler`
  (`ServedByOwner`); `ServerTypeCorrect` bounds the arrays and the queues.
- `SlotsKeepListening` (`HandlersListen`), for any range of ports, wrapped ones
  included. `ListenInv` follows each socket from its
  bind to its slot: a slot's descriptor is in `fv`, so that it is closed only when
  the server returns.

`UnwindProofs`:

- `BacktraceInBounds` (`StoreInBounds`): the number of addresses stored is the
  one counted down from the capacity, for every image, memory and stack, error
  returns and the fallback included.
- `EntryFound`: the binary search narrows two entries until they are neighbours
  with the address between them (`NarrowFinds`, by induction on their distance);
  that the search is defined at all, that is, that it ends, is `NarrowExists`.
- `UnwindTypeCorrect` (`TypeOK`). The code fills 32 bytes and reads them with no
  check of its own. `ExtractType`: an entry has at most 24 bytes, the last of them a
  `FINISH`. So an instruction of two bytes that is not the last has its operand, and
  only the large stack move needs the assumption on entries (`DecodeIs`, opcode by
  opcode). `CursorInv` then says that decoding stands where an instruction begins
  (`BeginsIs`); `MemoryIs` and `ApplyType` give the cursor's type from the stack
  that the calls in progress have left.

- `BacktraceIsTheCallers` (`CallersFound`): the callers are in the record, innermost
  first and without the library's frames, as many as fit. A prologue writes only
  below the stack pointer it finds, so that a frame's words are the same in the
  machine of its call and in the stack that is unwound, far deeper (`FramesIs`,
  `MemoryIs`). A return address is looked up to the function it lies in
  (`CallFound`). `Holds` relates the cursor to the ABI's reader: a place holds the
  value the reader knows, and a place the reader does not know is NULL or is not
  used; every command keeps it (`ExecutedHolds`). `FrameInv` is the inductive
  invariant: at the k-th frame the cursor is at that call's machine (`AtFrame`), in
  the middle of its entry it holds the reader's state after as many instructions
  (`InFrame`), what was handed on is what was stored but for the first `Ignore`
  (`HandedOn`, `Kept`), and the trace ends only when all callers were handed on or
  the record is full (`Complete`). TLC has checked it on the instance of `MCUnwind`
  too. The reader takes its instructions from `DecodeAt`: that bytes
  are decoded as the ABI says is not part of the theorem. TLC checks it with
  `MCUnwind`, whose entries are written by the ABI, byte for byte: an opcode read
  otherwise makes `FramesAssumption` false there.

`HashTableProofs`, for any keys, values, width of a guint and smallest size:

- `TableInvariant`: `TableInv`, inductive, is three things of the table.
  `WellFormed`: used slots have a key and the key's hash, no key stands twice, and
  every key can be reached from the first probe of its hash without crossing an
  unused slot. `Counted`: `nnodes` and `noccupied` are the numbers of real and of
  non-unused slots. `Fits`: the size is a power of two with its prime, and
  `noccupied` is below it, so that some slot is unused.
- Probing ends because it visits every slot (`ProbeReaches`): the first `2^s`
  triangular numbers differ modulo `2^s` (`TrianglesApart`), as the difference of
  two of them is half the product of an odd and an even number, one of which would
  have to be divisible by `2^(s+1)` (`OddFactor`). Hence `FirstProbeFinds`, and
  `LookupNode`, which says what `lookup_node` returns.
- `InsertNode`, `RemoveNode` and `ResizeKeepsMap` say what each function makes of
  the table and of the map it stands for; `RehashMoves` is the step of the loop of
  `resize`. `TableImplementsMap` (`MapSpecHolds`), `SizeAlwaysFits` (`SizeFits`),
  `ForeachAgreesWithLookup` (`ForeachIsLookup`) and `TableTypeCorrect` follow.
- Induction is by sets instead of predicates: `NatInd` takes the set of the numbers
  that have a property, `LeastNat` finds the first that lacks it, from the
  library's theorem that `<` is well-founded; `IterateExists` gives recursive
  functions such as `Rehashed` their equations.

`AnalysisProofs`, for any processes that `SnapshotAssumption` allows:

- `SenderInv` is the inductive type invariant (`SenderTypeCorrect`): the walk of
  `sendGlobalVariable` stays in the list, which is never empty because every line
  has a mapping (`ListOfMappings`).
- `StreamFramed` (`Framed`). `FrameInv` says that what the client has received,
  followed by some rest, is the records of the headers in `sent` laid end to end
  (`Flat`), and that with the client there the rest is what `out` still has to send:
  a partial send moves bytes from one to the other, and a hang-up only makes the
  rest unknown. `ReadRecordAt` is one round of the reader at the start of a record:
  it takes that record, or finds it cut. `ReadersRecords` follows the rounds: the
  reader is always at the start of a record, behind those it has taken, or has
  raised its error.
- `StacksFound` (`StacksSent`): mappings do not overlap, so the element `Found` takes
  is the only one that can hold the stack pointer (`FoundIsOnly`); `StackInv` then
  adds up what each round sends.
- `GlobalsFound` (`GlobalsSent`): `GlobalInv` says what has been sent when the walk
  comes to each element, and that what comes before it is no data. The element passed
  over behind a match is then neither data, because no two data mappings are
  neighbours, nor bss, because it was looked at; and the walk does not pass over its
  head, because the last mapping is no data.

`LeakProofs`, for any snapshot that `SnapshotAssumption` allows, any page size, and
a client that may leave at any time. Its argument goes from the operators on lists
to the reader's phases:

- What the operators return is first said without their folds. `SortedIs`: the
  elements in the order of their addresses, each at a place a permutation gives.
  `SearchIs`: the binary search finds an element at x if there is one, else only
  an element that x is inside of or right behind, and that one for certain if it is
  the last that starts before x. `CollidingIs`, `CollisionStep` and
  `AfterIs` do the same for `remove_collision`, whose sizes change while it
  searches; `DropOrderly` and `LeftIs` for `list.remove`, which compares addresses
  only. `CollisionsRemoved` and `CollisionsCleaned` put these together: with no
  collision the list stays as it was, and else every root that collides with
  nothing stays whole, unless a root and an allocation start together.
- `SentInv`: no allocation is sent twice, and every root is sent with its contents.
  With `StreamFramed`, which says that the reader has parsed all that was sent,
  `ListComplete` has the list of a complete file be the headers' elements, and where
  roots collide hold the allocations and the roots that do not (`Complete`).
- `TargetExact`, `TargetIs` and `PointsTo` turn the search for a word into
  `Refers`, the relation of the properties. `ReachedIs`: `Reached`, a fold, is the
  least set with the roots that is closed under pointers.
- `MarkInv` is the invariant of marking: roots are marked, a marked element that is
  not on the stack has only marked targets, and whatever is closed and has the
  roots has what is marked. When the stack is empty the marks are `Reached`
  (`MarkedIsReached`), and contain what `Whole` headers reach by pointers to
  starts (`MarkedFromWhole`).
- `SplitInv` is the invariant of the splitting. `AliasInv`: a group's alias set is
  exactly the groups whose index is the same, which `Joins`, `Shares` and `Opens`
  preserve for the cases of `Alias`, each making one class of two (`United`).
  `Joined`: elements whose groups share a set are connected by pointers, and
  `Searched`: so are those on the stack and in the current group. `Followed`: a
  target of a grouped element is in a group of the same class or still on the
  stack. At the end the classes are the components, and pass 2 takes each class once
  (`MergedIs`), so that its check for a group in two sets never raises.
- `ReadInv` says what holds in each phase, from the file to the report; one lemma
  per action. `AnalysisTypeCorrect` (`AnalysisTypeOK`), `LeaksFound`
  (`LeaksReported`) and `GroupsFound` (`GroupsConnected`) are read off it.

Induction over data, where a proof needs it, is by sets instead of predicates in
`AnalysisProofs` and `LeakProofs` as in `HashTableProofs`.

`SymbolResolverProofs`, for any buffer, any file, and any images and names that the
assumptions allow:

- `Laid` describes the file by where each line begins (`FileIsLaid`), so that the
  reader's invariant is arithmetic: `Reads` says that the buffer holds the line last
  returned with its NUL, then the file from the next line up to the offset.
  `ReadsOn` is what a call has put together before it looks for a newline; there was
  always room to read, so a read of nothing is the end of the file and not a full
  buffer. `FindsEnd` then finds the end of the next line, or none if the buffer is
  too short or there is no next line; in the last case `strchr` runs over the last
  line again, which the code did not clear, and stops at the NUL that replaced its
  newline.
- `LinesAreWhole` (`LinesWhole`) and `ResolverTypeCorrect` (`TypeOK`) follow.
- `SymbolsResolved` (`Resolved`). `SymbolInv` says that while a chain is walked, a
  symbol that is there has not been passed (`ChainLeads`), and `SearchInv` keeps the
  reason for each trap. That `elf_hash` agrees with the linker is needed only for
  the traps; that a pointer is its own symbol's is not a matter of the hash.

Only model-checked:

- Liveness (`CallsReturn`, `WalksFinish`, `ThreadsResume`, `ServerReleases`,
  `PortsFound`, `ClientsAnswered`, `BacktraceEnds`, `AnalysisEnds`), which these
  provers do not reach, and that three statements of the repository fail, which only
  a counterexample shows.

## 6. What the violations show

- `src/main.cpp:75`: `realloc(p, 0)` that frees leaves the record of `p`.
- `src/main.cpp:98`: `do_memalign` jumps over its unlock when memory is short.
- `src/HeapSnapshotHandler.cpp:36`: the child allocates although a thread may
  have been stopped with libc's lock held.

## 7. Not modelled

- Of `analyze.py`: `analyzeSegment`, and the options that only print
  (`--backtrace-only`, `--dump-user-data`, `-r`, `--duplication`), which look at
  the list once and change nothing; how reports are laid out.
- The tools after it (`AddressFilter.py`, `BacktraceFilter.py`,
  `ObjectParser.py`, `ObjectHierarchyAnalyze.py`, `SnapshotDiff.py`, the
  writers): sequential text processing whose output is read by a person, without
  a promise in the repository to check it against.
- Of `ghash.c`: iterators, sets, `steal`, `replace`, `remove_all` and reference
  counts, which this program never calls. Of `mymalloc.cpp`: a failing `open`.
- The unwinder's x86 build, which does not compile at this commit: with
  `FAST_MODE` defined as 1 (`ChunkInfo.cpp:10`) its `fast_backtrace` is left out, and
  `backtrace` still calls it.
- `SpecialAllocator.h`, which nothing in the ledger instantiates; build files and
  the manual test programs; log lines.
- Of the system: `sigaction` failing for a valid signal, threads created or ended
  during a stop, `mremap` (not hooked), mappings placed over existing ones,
  and memory that becomes unreadable while it is sent (sendto would then fail
  with a client that is still there, and the rest of the record be missing).
