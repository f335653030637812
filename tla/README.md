# libandroid-extra: a verification development

libandroid-extra completes Bionic, Android's C library, with the parts of POSIX and GNU that old
API levels lack: spin locks and barriers, named semaphores, `<search.h>` hash tables, streams over
memory, `posix_spawn`, `glob`, pseudo terminals, interface lists and more. This directory holds
TLA+ models of its code, TLC configurations that check them on small instances, and TLAPS proofs.

Sections: 1 inventory, 2 how the parts interact, 3 plan, 4 the modules, 5 the runs, 6 fairness,
7 proofs, 8 what the code does not do as it says, 9 what is not modelled.

To repeat everything: `tlc -config X.cfg M` for each run listed in `PROJECT.json` (run, module and
cfg are named there), and `tlapm` on the eight modules whose names end in `Proofs`. `PROJECT.json`
also maps every definition to the source lines it models, and names for every property a small
change of the code that breaks it.

## 1. Inventory

Paths are under `src/`. `libc-extra/src` is the library proper; `crypt`, `libiconv` and `libm-extra`
are separate libraries beside it.

| Component | State it keeps | Operations | What is hard | What makes it correct | Status |
|---|---|---|---|---|---|
| futex wrappers (`bionic_futex.*`) | none; the kernel's queues | wait, wake, timed wait | a wait races a store and a wake; private and shared queues | a sleeper's value test is atomic with stores; a wake is never lost | `Futex` (timed wait left out) |
| spin locks (`pthread_spinlock.c`) | one three-state word and a flavour | init, destroy, trylock, lock, unlock | lost wakeups; a wake that arrives in the next life of the lock | exclusion, nobody sleeps for ever, EBUSY only when held | `SpinLock` |
| barriers (`pthread_barrier.c`) | state, wait_count, init_count, pshared | init, wait, destroy | cycles overlap; two words are read one after the other; destroy races the last leaver | cycles trip as a whole, one serial thread each, everybody returns | `Barrier` |
| named semaphores (`semaphore.c`) | a table per process, files shared by processes | sem_open, sem_close, sem_unlink | system calls outside of the lock; any step of several may fail | one address per semaphore, exact reference counts, no leak | `NamedSem` |
| hash tables (`hcreate*.c`, `hsearch_r.c`, `hdestroy_r.c`) | open-addressed array, a count, a random hash | hcreate, hsearch, hdestroy and the `_r` forms | probe loops without a bound; growth; memory runs out | a map in which nothing is lost or moved under the caller | `HSearch` |
| fmemopen (`stdio_fmemopen.c`) | the user's buffer, capacity, size, offset | open modes, read, write, seek, close | off-by-one at the capacity, the NUL behind the data | a file of bytes that stays inside its buffer | `FMemOpen` |
| open_memstream (`stdio_open_memstream.c`) | an array that grows, published through two user variables | write, seek, close | dangling published pointer; gaps after seeks | a file of bytes, always published, zero behind the data | `MemStream` |
| open_wmemstream (`whar.c`) | the same, counted in wide characters | write, seek, close | three units: bytes, multibyte characters, wide characters | as above | not modelled (section 9) |
| posix_spawn (`posix_spawn.cpp`) | attributes, a list of file actions | set, add, spawn, spawnp | what parent and child share between vfork and exec | the program gets what was asked for; no handler runs in the child | `PosixSpawn` |
| glob (`glob.c`) | the list of matches, a limit | glob, globfree, match | growth fails half way; errors of brace alternatives | all matches, sorted, or an error and nothing half done | `Glob` |
| interface addresses (`ifaddrs.c`) | two lists of replies, the result | getifaddrs, freeifaddrs | replies truncated; other sockets of the process; interfaces that come and go | a complete list or none | `IfAddrs` |
| lockf, shared memory (`lockf.c`, `posix_shm.c`) | kernel locks and files | lockf, shm_open, shm_unlink | F_TEST against a shared lock | the kernel's table | planned |
| pseudo terminals (`pty.c`) | descriptors | openpty, forkpty, login_tty | descriptors on every error path | none left open, none closed twice | planned |
| terminal helpers (`getpass.c`, `conio.cpp`) | saved terminal modes | getpass, getch, kbhit, wherexy | restoring on every path | the modes afterwards are those before | planned |
| user contexts (`*/makecontext.c`, `*.S`) | saved registers, a stack | getcontext, makecontext, swapcontext | control returns through uc_link | each function runs once with its arguments | planned, one architecture |
| backtraces, logging, small stdio, locale, wrappers | none to speak of | formatting, accessors, constants | | | not modelled |
| libcrypt (`crypt/`) | static results and keys | crypt, crypt_r, encrypt, setkey | the static result | published digests | not modelled |
| libiconv, libm-extra | vendored codecs; none | iconv; complex functions | | | not modelled |
| sysroot, build files, tests | | | | | not modelled |

## 2. How the parts interact

The library is a set of mostly independent C interfaces; what they share is small. Spin locks and
barriers call the kernel through `bionic_futex.h` and through nothing else, so `SpinLock` and
`Barrier` both extend `Futex`, which states what a wake may pick. Semaphores keep their table under
a pthread mutex of Bionic and meet other processes only in the file system; the `sem_t` inside the
file is Bionic's. The streams over memory are callbacks given to `funopen`; stdio, which is Bionic's,
buffers and calls them in any order, and `FMemOpen` and `MemStream` promise the same abstract file,
`ByteFile`. `hsearch` is a thin layer over `hsearch_r` with one global table, and `HSearch` models
both at once. `posix_spawn` meets the rest of the process through signals, `vfork`'s shared memory
and descriptors. `getifaddrs` has no state between calls, but the threads that are in it compete for
the port numbers of netlink sockets, and the kernel goes on while it reads. `glob` is sequential:
what it meets is the list of the caller, who may append to it and free it, and calls that fail.
The kernel appears in the modules only through the operators and actions that `PROJECT.json` marks
external.

## 3. Plan

Modules, in the order in which they are written, the most concurrent code first:

1. `Futex`, `SpinLock` with its abstract `Mutex`, `SpinLockProofs`: done, all safety proved.
2. `Barrier` with its abstract `CyclicBarrier`, `BarrierProofs`: done, all safety and the
   refinement proved.
3. `NamedSem`, `NamedSemProofs`: done, all its properties proved.
4. `HSearch` with `SearchTable`, `HSearchProofs`: done, all proved.
5. `FMemOpen`, `MemStream` with `ByteFile`, `StreamProofs` over `StdioStream`: done, all proved.
6. `PosixSpawn`, `PosixSpawnProofs`: done, all safety proved.
7. `Glob`, `GlobProofs`: done, all proved.
8. `IfAddrs`, `IfAddrsProofs`: done, all safety proved.
9. `Pty` and `TermState`: small models of descriptors and terminal modes in which each system call
   may fail; the promise is that what was taken is given back. To come.
10. `LockF`, `UContext`: ranges of locks by several processes, the return through `uc_link`. To come.

The wide stream was planned and is dropped, for the reason in section 9. Nothing else composes
modules than `Futex` under the two locks and the abstract specifications above the detailed ones: the
code has no other shared state. The runs stay few, one for each question; runs that only exhibited a
divergence have given way to runs of new modules, and section 8 tells how to see them again.

## 4. The modules

Common conventions: a function that runs without interruption (under a lock, or in sequential code)
is one action; code that other threads can observe half way is one action per atomic operation or
system call, with a program counter for each thread whose values are named after the place in the
code. The memory model is sequentially consistent. Each module ends with its
properties. Next to a definition there may be a second one with the same parameters that nothing
uses (`WhileGateOpen` beside `While`): it is the mistake that a property is there to catch. Type
invariants are stated where they are proved, as `Shape` in the module of the proofs, or as `TypeOK`.

**Futex.** `Wakeable(queue, count)` is the set of groups a wake may pick: any `count` sleepers, and a count of
zero wakes one, as in Linux. Which of them the kernel prefers is not assumed here; `Barrier` can ask for more (`InOrder`).
That a wait compares the word and goes to sleep atomically is an action of the users of the module.

**SpinLock** (`pthread_spinlock.c`). `state` and `process_shared` are the fields of `Lock`; `alive`
says whether the callers have it between init and destroy. `Spin` is one trylock of the spinning
loop, `SpinLimit` is the constant 10000 of the code. `LockFast`, `LockExchange` and `FutexWait` are the three
lines of `Lock_lock`, `Unlock` and `UnlockWake` the two halves of `Lock_unlock`, between which the lock may be
destroyed and initialised with the other flavour, as its comment at line 90 says. The strong
compare and exchange fails only when the word differs. Clients respect what POSIX asks: only the
holder unlocks, nobody destroys a lock that another thread is locking. `Mutex` is the promise:
holders, contenders, EBUSY only while held.

**Barrier** (`pthread_barrier.c`). `state`, `wait_count`, `init_count`, `pshared` are the fields. The
three loops "while state is v, futex wait" share `LoopTest`, `LoopSleep` and `Interrupt`; `mode`
tells how far a thread is in the loop body. `ReadCount`, `EnterFails`, `Enter`, `TooMany` are the
compare-and-exchange loop; `ReleaseCycle`, `WakeWaiters`, `Leave`, `ResetCycle`, `WakeNextCycle`
the way out; `DestroyCall`, `DestroyAgain`, `DestroyFinish` destroy. A failure of the weak exchange
without reason changes nothing, so it is a stuttering step. `clients` says what the callers of a
behaviour are like: the counts and flavours they create barriers with, and whether they keep to the count
(`Orderly`) or are a `crowd`, of which as many may be inside at a time as it says. Who keeps to the count keeps to it
*in one cycle*, as the comment at lines 49-52 asks, and not at a time: `party` is the threads that have called in the cycle
the callers are in, and as soon as one of a cycle has returned those of the next may come, while all the others of the last
are still inside or asleep (`ThereIsRoom`). A released thread and one of the next cycle may therefore sleep in one queue, out of which line 140 wakes a
limited number. `InOrder` is whether the kernel wakes in the order in which threads fell asleep (`ahead`, `InFrontOf`): Linux does among
threads of one priority. `answer` is what the last step returned. `CyclicBarrier` is the promise: a
cycle trips in one step.

**NamedSem** (`semaphore.c`). `semtab[p]` is the table of a process, `dir` the directory, `maps` what
is mapped where, `handles` how often the clients hold an address. `sem_open` is the chain `SemOpen`
(reserve, under the lock), `OpenDispatch` (the flags and `access`), `OpenExisting` or `Create` and
`Write`, `Map`, `Publish` (under the lock), with `Undo` (unlink) and `OpenFails` (give the slot
back) on the failure paths. `sem_close` is `SemClose` (under the lock) and `Unmap` (after it).
Inode numbers are used again as soon as nothing refers to the inode.

**HSearch** (`hcreate.c`, `hcreate_r.c`, `hsearch_r.c`, `hdestroy_r.c`). Sequential. A probe loop is one step
that stops at the first index that fits: where there is none the model is stuck, and the run, which
checks for deadlock, would find it. Growing takes a step for each copied entry. The hash is any
function of `Hashes`, chosen with each table, as the code chooses a random offset basis. `SearchTable`
is the promise.

**FMemOpen** (`stdio_fmemopen.c`). `mem` is the buffer and the memory behind it, so that a store behind
the end is visible. `Open` takes a caller's buffer with any contents or zeroes. `Read`, `Write`,
`Seek`, `Close` are the callbacks with any distance and any chunk: text, strings, and a NUL anywhere in either (`IsString` is the
test of lines 105-107). `cut` remembers that a string did not fit into the stream and lost its NUL. Clients do not read at
an offset past the data, where the subtraction of line 91 wraps around (`InsideData`).

**MemStream** (`stdio_open_memstream.c`). `string` is the array, named by its size; `pbuf` is the array the
user's variable points to, `psize` the other variable. `Write` grows or not; `WriteFails` is
the failed reallocation. **ByteFile** is the promise of both streams: what fills a gap is left open. **StdioStream**
is what both have in common: the chunks that stdio passes to a callback, and what a callback says it took or read.

**PosixSpawn** (`posix_spawn.cpp`). The caller's side is `SpawnCall` (the constructor of the
ScopedSignalBlocker), `Fork` or `ForkFails`, `Resume` (vfork only), `Return` (its destructor). The
child's is `ResetHandler` for each signal and `ApplyRest` (ApplyAttrs), `DoClose`, `DoDup2`,
`DoOpen`, `DoMove` (the file actions, one system call at a time except that the move and the close of line
111 and 113 are one), `RestoreMask`, `Exec`. A vfork child stores the descriptor it opened into the caller's list.
Calls of any kind run side by side, as lines 209-214 exclude nobody; `overlapped` remembers of a child of vfork that another one ran on the
same list meanwhile (`Beside`, `SharedOpen`, section 8). The caller's mask is one of `ThreadMasks`. `TablesOf` is what
the program was promised: the descriptor tables that the actions of a list leave, one after the other.

**Glob** (`glob.c`). `pathv`, `pathc`, `offs` are the fields of `glob_t` that hold the list: cells of the
array are paths, `NULL`, or `Garbage` where `realloc` left what was there. `Glob` starts a call, `Expand` gives
the alternatives of its braces in the order of `globexp2` (`WithNext` is one element of the pattern), and `Glob0` begins the walk for one of them. The
recursion of `glob2` and `glob3` is made flat: `visit` is the call under way, `stack` the open
directories. `NextSegment`, `NoSuchFile`, `FileFound`, `FileNotAdded` are `glob2`; `OpenDir`, `SkipDir`, `Abort`,
`ReadDir` (in any order of the names) and `CloseDir` are `glob3`; `Matched`, `NoMatch`, `PatternAdded`, `PatternNotAdded` the end of
`glob0`; `qsort` is any order of the new entries in which none is behind one it comes before (`Orders`). `AddPath`
and `CannotAdd` are the outcomes of `globextend`; after a failed `realloc` the array is gone and `gl_pathc` is not, and `lost` is
its value at that moment, which is the number of cells that a later array has before its first path and that nobody writes. `Match` is the matcher on a segment whose adjacent stars
are collapsed (`Compiled`): it finds the positions from which the last tokens take the rest of the name, one token more at a
time (`TakesFrom`). `Accepts` says with cuts of the name what a segment stands for.
Characters are numbers in the order of `strcmp`, in which the slash has its place and the NUL is the first; a path is a
sequence of names, and `Before` compares two paths as `strcmp` compares what they spell, with a slash behind each name but the last
(`CharAt`). A pattern comes as its tokens.

**IfAddrs** (`ifaddrs.c`). A thread in `getifaddrs` goes through `Socket`, `Send`, `Receive` (or `ReceiveTruncated`) until NLMSG_DONE, the
same again for the addresses, `Interpret` (all of the messages, or some before `malloc` fails) and `Finish`. Each exit gives back what its own lines give
back: `SocketFails` has nothing yet, `SendFails` no list, `ReceiveFails` and `ItemFails` free the list under way (`FreesItsList`), `NoList` is the return of
`getifaddrs` without one of the lists, which closes the socket (`Close`) and frees the links if it has them (`FreesLinks`), and `Finish` frees both and
closes. `lost` counts the replies to which nothing points any more. `Mine` is the test of `nlmsg_pid` against the
process id, `size` the buffer that doubles. The kernel is `Change` (an interface comes or goes), `Fill` (the
next datagram of a dump, of any length, with the interfaces as they are at that moment) and `Autobind` (the port of
a socket: the process id if no other socket of the process has it). `Place` puts the attributes of one
address into the entry in the order in which they come.

## 5. The runs

Each run takes seconds to about two minutes with two workers. State counts are distinct states.

| Run | Instance | States | What it shows |
|---|---|---|---|
| `SpinLock` | 3 threads, 2 spins, signals, any number of lives and flavours | 214 000 | exclusion (`MutualExclusion`), the word tells the truth (`LockedIffHeld`), no lost wakeup, nobody in a dead life, implements `Mutex`, `SomebodyGetsIn` |
| `Barrier` | 4 threads; barriers for three in both flavours, used in turns, or barriers for two into which three may go at once; sleepers woken in order | 142 000 | the counter is exact also when too many come, the gate separates cycles (`GateHolds`), nobody is turned away, the limited wake reaches all it should (`NoLostWakeup`), one reset, implements `CyclicBarrier`, full cycles end, released threads and destroyers return |
| `BarrierOutOfOrder` | 4 threads, private barriers for three, sleepers woken in any order | violation | `ReleasedReturn` fails (section 8) |
| `BarrierFreed` | 2 threads, count 2 | violation | `DestroyedIsUntouched` fails (section 8) |
| `NamedSem` | 2 threads of a process, 2 names, 2 slots, 3 inodes and addresses, up to 3 handles, every call may fail | 79 000 | handles are counted and mapped, one address per semaphore, nothing leaks |
| `HSearch` | 4 keys, all 256 hash functions into 4 values, tables of 2, 4 and 8 | 50 000 | exact count and at most half full (`UsedIsExact`), probes end, entries stay, implements `SearchTable` |
| `FMemOpen` | 2 letters and NUL, all chunks of 1 to 3, capacities 0 to 3, all modes | 14 000 | the data of a stream opened for writing end in a NUL or are followed by one (`Terminated`), nothing is stored behind the buffer but the NUL after a string that was cut (`StaysInside`), implements `ByteFile` |
| `MemStream` | letter and NUL, chunks of 1 to 3, positions to 7, first array of 2 | 52 000 | always published, zero behind the data, implements `ByteFile` |
| `PosixSpawn` | 2 threads, 2 signals, 3 descriptors, lists of up to 2 actions, 2 descriptor tables; calls with fork and vfork side by side | 487 000 | no handler in the child, the program gets what was asked for each time a list is used, but for the descriptors of two vfork children that share an open (`ImageAsAsked`), every call returns |
| `IfAddrs` | 2 threads, 2 interfaces, one change, datagrams of up to 2 messages, a first buffer for 1, every call may fail | 311 000 | a list is complete unless a reply was truncated (`Complete`), addresses carry the name of their link, `ifa_addr` is the local address, every exit closes the socket and frees the lists, and loses at most the one reply of lines 178-181 (`NothingLeaks`), the thread whose socket has the process id returns |
| `IfAddrsTwice` | 2 threads, nothing fails, nothing is truncated | violation | `CallsReturn` fails (section 8) |
| `Glob` | 7 patterns over 7 paths, 3 sets of flags, two calls on one list, limits 0 and 1, `realloc`, `malloc` and `opendir` may fail, the second call also on a list that has lost its array | 1 519 000 | what is in the list at every moment, also after a failure (`ListInvariant`), all matches are added, sorted (`AllAdded`), nothing else is (`NothingElse`), older entries stay |

Why the bounds are enough. Three threads are the holder, a sleeper and a third that barges in or
wakes late, and the code of a thread depends on the others only through one word; two spins make
the loop go round and end. A barrier of three has a first, a middle and a last thread; with a fourth thread
its cycles have different members, and one of the next cycle can be asleep at the gate beside both that the last cycle's serial thread has to
wake, so that line 140 has a wrong one to pick. Three threads at once in a barrier for two are one too many. Two names in three inodes let a number be used again
for another name; two slots let the table be full; three handles let one semaphore be opened three times or
be open twice beside another. Four
keys make a table of two grow twice, and every hash function covers every collision; starting at 2
instead of 16 changes no branch, as only the power of two matters. A chunk of three in a buffer of
at most three is shorter, equal or longer than the room in every position, and with a NUL last or before is a string cut at
the end of the buffer or a text that ends in NUL once it is cut. `MaxPos` 7 lets an array of
two be reallocated three times, both by the golden ratio and by the length asked for. Two file
actions are enough for an open to land in place, to be moved, or to find the table full, and for
one action to disturb the next; two descriptor tables let the same list meet different free numbers.
Two interfaces in datagrams of one or two give dumps in one part and in two, with NLMSG_DONE in the last part or
alone; a first buffer for one message lets a reply be truncated once and fit then; one change can fall before, between
and after the two dumps. The seven patterns use every token, adjacent stars, a leading dot, two directories, two braces one after the
other with an alternative that matches twice, and a brace that is never closed; with a second call there are older entries, an old array to grow or one that was lost,
and a limit of 1 that is met and passed; the directories `y` and `y.` tell the order of `strcmp`, in
which `y./x` is before `y/x`, from that of the names; an offset of 1 tells the cells before the list from the list.

`MaxRefs` stands for INT_MAX and is not reached (section 8). Symmetry is used only in runs without liveness.
Where the numbers do not matter the proofs of section 7 do away with the bounds.

## 6. Fairness

`FairSpec` of `SpinLock` and of `Barrier` is weak fairness of `Progress(t)` for each thread: a thread that
is inside one of the functions and can take a step takes it, which is what a preemptive scheduler
gives. For the spin lock it includes that a holder unlocks, without which nothing can be said of the
others. Nobody has to call: no wake may depend on another thread coming by. Signals are not fair
either, so that no sleeper is saved by one. At the spin lock nothing is asked of which sleeper a wake picks; a single thread
may starve there, and the property is accordingly that *somebody* gets in. At the barrier each released thread returns, and that
needs the kernel to wake in order (`InOrder`), as `BarrierOutOfOrder` shows. In `PosixSpawn` threads inside a call and children are
fair, and an `exec` or a `fork` may fail each time. In `IfAddrs` `Progress(t)` is what a call does as long as nothing fails, together with
the kernel's answer to its request (`Fill`) and, once something has failed, the rest of its return (`NoList`, `Finish`): a kernel that never answers keeps every caller waiting, which says
nothing of the code. Failures and changes of interfaces are not fair: no call returns only because it fails.

## 7. Proofs

Each theorem holds for every value of the constants that the one named assumption of its module admits
(`SpinLockAssumption` and so on: mostly types). The only assumptions of substance are that `Threads` of
`Barrier` is finite, because `wait_count` is a cardinality; that special values (`Closed`, `NUL`, `Reserved`, `Garbage`) are
none of the data, nor the slash and the NUL characters of names in `Glob`; that the `Tree` of `Glob` has with a directory the one it is in; and, as hypothesis of one theorem,
`InOrder` for `BarrierWakes`. All theorems follow one pattern: an inductive
invariant `IInv`, one lemma per action that keeps it, and the properties as its parts or consequences.

**SpinLockProofs**, for every set `Threads`, finite or not. `IInv` is the conjunction of `TypeOK`,
`MutualExclusion`, `LockedIffHeld`, `NoLostWakeup` and `InsideThisLife` (`SpinLockInvariant`); each part is a theorem of its own, and
`SpinLockImplementsMutex` is the refinement of `Mutex`. No part is inductive alone. Exclusion needs that an unlocked
word means no holder (`LockedIffHeld`), which needs exclusion for `Unlock` to leave no second holder behind.
`NoLostWakeup` needs `InsideThisLife`: a sleeper must be in the queue that the unlockers of this
life wake, and a lock can be destroyed only when nobody is inside. The case that carries the argument is
`UnlockWake`: it wakes at least one sleeper of its queue if there is one (`WakeableFacts`), and the one it
wakes is at the exchange, about to write LockedWithWaiter for those that are left.

**BarrierProofs**, for any finite number of threads, any counts and any mixture of clients, in four layers.
(1) `IInv == Shape /\ CountIsExact /\ DeadIsEmpty /\ DestroyerAlone` holds for all clients, a crowd
included (`BarrierInvariant`, `BarrierCountsExactly`): the exchange of line 124 is what keeps the counter equal to the number of threads
between their entry and their exit. (2) When the clients keep to the count the barrier is always in one of five phases, `Filling`, `Complete`,
`Draining`, `Resetting`, or `Alone` for a barrier of one (`BarrierTakesTurns`). The phases say which
places of the code are empty, and that is what no single property says: that nobody passes the gate while the
last cycle drains is only inductive together with the count of those who still can. They also say which threads the `party`
is: those that fill the barrier, all of a cycle of which nobody has returned (`NoneHasReturned`), or those at the gate. `GateHolds`,
`OneReset` and `NobodyTurnedAway` follow (`BarrierGateHolds`, `BarrierResetsOnce`,
`BarrierTurnsNobodyAway`), in whatever order the kernel wakes. `BarrierWakes`, for a kernel that wakes in order, is about line 140: all sleepers are in
one queue (`SleepersInQueue`), those of the released cycle are before those that came later (`ReleasedAreFirst`), and
the serial thread knows how many there can be (`SerialKnowsTheOthers`), so that its limited wake takes all of them and only then others. (3) `Results`: what a thread is about to return fits its place
(`BarrierResults`). (4) `BarrierImplements`: each step is one of `CyclicBarrier` or a stutter; the exchange of the last thread
is the step in which the abstract cycle trips. Of a crowd nothing is promised beyond the count: more threads than the
count in one cycle is a case the comment at lines 49-52 asks the callers to avoid.

**NamedSemProofs**, for any processes, threads, names, inodes, addresses and table size.
`IInv == Shape /\ Reservations /\ EntriesAreTrue /\ EntriesDiffer /\ HandlesHaveEntries /\
MappingsInHand /\ MappingsAreOwned`. The three properties only speak of what clients hold; the invariant ties the
chain together: each reserved slot belongs to one open under way, each entry is true of its mapping and
its handles, no two entries have one inode or one address, and each mapping belongs to an entry or is in the hands of
one thread that will publish or unmap it. `NamedSemHandles`, `NamedSemOneAddress` and `NamedSemLeaksNothing` follow.

**HSearchProofs**, for any keys, data, hash functions and first size.
`IInv == Shape /\ Copying /\ UsedIsExact /\ Reachable /\ OneEntryPerKey`. `Reachable` says that on the way from
an entry's hash to its index no probe is free, without which a search could miss an entry and enter the key
twice; `Copying` relates the half-copied array to the old one. `HSearchCountsExactly`,
`HSearchEntriesStay` and `HSearchImplements` (the table is the map of `SearchTable`) follow. `HSearchProbesEnd` needs more:
the size is a power of two, and at most half of the array is in use, so that some index is free; the probes add 1, 2, 3 and so on, and
two of the first `n` triangular numbers that are the same modulo `n` would make a multiple of `2n` of two smaller numbers
of which one is odd. So the first `n` probes are `n` different indices.
Wherever a proof needs induction it takes the least counterexample: the library's induction theorems have an operator as a
parameter, which the provers cannot instantiate.

**StreamProofs**, for any alphabet, capacity, sizes and chunks. For `FMemOpen`, `IInv == Shape /\ Terminated`. `FMemOpenImplements`: what is read is what was written, also when a NUL is stored behind the buffer.
`FMemOpenStaysInside` and `FMemOpenTerminates` hold for text and strings alike: the only byte ever stored behind the buffer is the
NUL of line 129, at `buf[capacity]`, and only after a string was cut (`KeepsBehind` has the case of the write).
For `MemStream`, `ArrayInv` is `Shape`, `Published` and `ZeroBehindData` together: `MemStreamPublishes`, `MemStreamTerminates`, and
`MemStreamImplements` for `ByteFile`. That the array is zero behind
the data is needed for the gap a seek leaves to be part of the data later.

**PosixSpawnProofs**, for every number of signals, any set of threads, every list and every attribute. `IInv` is the
shape of a child record and `BlockedUntilReset`: before the fork everything is blocked, during ApplyAttrs
everything is blocked and the signals below the counter have no handler, afterwards no signal has
(`SpawnBlocksUntilReset`). `SpawnRunsNoHandler` follows. It is not inductive itself: it says nothing of
the caller's mask before the fork, nor of how far ApplyAttrs is. `SpawnImageAsAsked` rests on `ImageInv`
(`SpawnImageInvariant`), which excludes no call: the caller of a vfork waits until its child is gone; of any two children of vfork that
run at the same time both are marked (`Marked`), and one that is not marked has stored every `fd` field that it reads; the list a child works on asks
for the same as the one its caller gave, whatever `fd` fields earlier children have left in it; and the descriptors of a child are those
that the actions it has done leave, but for a descriptor that is open and not yet moved, unless it is marked and the list opens files (`SharedOpen`). Mask and dispositions are as asked in either case. That the last is kept is induction over `TablesOf`, one action at a time.

**IfAddrsProofs**, for any threads, interfaces, ports, sizes and any number of changes. `Complete` speaks only of
calls that have returned, and is not inductive. `Progressing` (a part of `IInv`, `IfAddrsInvariant`) says what is true on the way: the replies
kept so far, followed by the datagram that is on its way, list the interfaces below the cursor of the kernel, in order: each that was there all the time, and none that never
was (`Lists`); a list that is ended lists all. A call in which a reply was cut is excepted. `InTurn` says that
a dump runs only while its replies are received. `IfAddrsComplete`, `IfAddrsNamed`, `IfAddrsLocal` and `IfAddrsLeaksNothing` follow; the third holds
for each order of the attributes. The last is inductive only with what each place of the code still holds: `InTurn` says that a list is empty
until it is asked for and once it is given up, on each of the separate exits, and `Accounted` that a reply is lost only by a call that then fails.

**GlobProofs**, for any tree, patterns, flags, limits, failures and numbers of calls, in four layers.
(1) `IInv == Counts /\ ArrayHasRoom`: the array, if there is one,
ends behind the last entry and its NULL, and `oldpathc` and `before` never exceed `gl_pathc`
(`GlobArrayHasRoom`). From it `GlobKeepsOldEntries`: growing, sorting and failing leave the entries of earlier
calls alone. (2) `ListInv` adds types and `ListWhole`, which places the unwritten cells before all the paths and keeps `qsort` off them, and gives `GlobListInvariant`. (3) `FitInv` adds what is known of the walk:
the names of the path so far are accepted by the first segments of the alternative, and the rest of the pattern is what is left of it (`WalkFits`, and the same for each
open directory); the alternatives left are the last ones of the pattern (`TodoFits`); GLOB_MAGCHAR tells whether one of those so far is magic (`MagcharFits`); and
as long as nothing was passed over, each path that matches is still ahead of the walk or was found (`AllAhead`), for which a directory on the
way to a path must be in the tree. From the last it follows that an alternative that is added for itself has no match. `EntriesFit` says of each
entry why it is there, and is `GlobNothingElse`. (4) `WalkInv` adds that the walk comes to no path in two ways: the open directories lie below each other, and none
still has to read the name by which the walk went down from it (`PlacesDiffer`). So what was found is ahead no more, and was found once (`FoundOnce`). At
the end of a walk nothing is ahead, and the cells since `oldpathc` are the matches, one each (`EverythingFound`, `CellsCounted`). `AddedInv` adds that
the alternatives behind the walk have a block of cells each, one behind the other, that hold what they stand for (`BlocksFit`), where
`Ends` says how many cells the first ones have together; that GLOB_MAGCHAR is not set without a reason (`MagcharTells`); and
that a failed call without a brace does not return 0, and that only a call that has failed loses paths of its own (`OutcomeFits`), because such a pattern has one alternative. Sorting moves the cells
of the last block about, a path for a path (`OrdersPermute`), and as `strcmp` puts one of two different paths before the other
(`OneIsBefore`), a block in which nothing is behind what it comes before is in order. When a call returns all alternatives are behind the walk, which is `GlobAllAdded`. The matcher has a theorem of its own, `MatchIsAcceptance`: on a compiled segment `match` and the test for
an initial dot accept exactly the names that the segment, as it was written, stands for. `SpanFromTo` says which part of a name some tokens
may take: one token more takes one span more, and adjacent stars span what one star spans.

Only model-checked: liveness under fairness, which is out of the prover's reach. Every invariant and every action property that a
passing run checks is a theorem, and so is every refinement, as far as it is safety.

## 8. Where the code does not do what it says

Runs whose counterexample TLC prints:

- `BarrierFreed`, `pthread_barrier.c:155`: after it has stored WAIT the last leaver reads
  `pshared` and `init_count`, and wakes on the address of the barrier; a thread in
  `pthread_barrier_destroy` that sees WAIT may have returned 0, and the memory may be gone. The
  comments at lines 152 and 166 count on exactly this synchronisation; the spin lock caches its
  flavour for the same reason.
- `BarrierOutOfOrder`, `pthread_barrier.c:140`: the serial thread wakes as many sleepers as it counted, but a
  thread of the next cycle, which lines 49-52 allow to come as soon as one of the last has returned, may sleep in the same queue. If the kernel picks it first a
  released thread sleeps on, and all of the next cycle behind it; the comment at lines 105-107 counts on such early callers. Linux wakes in the order of arrival within a priority, so
  it takes threads of different priorities.
- `IfAddrsTwice`, `ifaddrs.c:119`: messages are taken for the caller's only if `nlmsg_pid` is the process id. It is the port of the
  socket, which is the process id for only one netlink socket of a process at a time. A second thread in
  `getifaddrs` skips every message, NLMSG_DONE too, and waits for ever, although `ifaddrs.h:78` knows only success and failure.

With other constants, and no run kept:

- `semaphore.c:170`: with O_CREAT alone, `access` is followed by `open(O_CREAT | O_EXCL)`, so that the
  slower of two opens fails with EEXIST although the comment at line 146 says the existing semaphore
  is used. In `NamedSem.cfg` take `Procs <- Two`, `Threads <- Apart`, `Names = {n1}`, `MaxHandles = 1` and check
  `CreatAcceptsExisting`.
- `stdio_fmemopen.c:129`: a chunk that ends in NUL and is cut at the capacity loses its NUL, and the code
  stores one at `buf[capacity]`, behind the buffer: "ab" with its NUL into two bytes. `StaysInside` and `Terminated` say exactly when; without their `cut`
  TLC breaks both with `FMemOpen.cfg`.
- `posix_spawn.cpp:108`: with POSIX_SPAWN_USEVFORK, two threads that use one list of file actions at the same time
  have children that store into the same `fd` field: one moves and closes the descriptor number of the other.
  `ImageAsAsked` excepts the descriptors of such children (`SharedOpen`); without the exception TLC breaks it with `PosixSpawn.cfg`.
- `ifaddrs.c:551`: a call that fails while it builds the result returns -1 and leaves the first part of the list in `*ifap`
  (`FailureStoresNothing` fails with the constants of `IfAddrs.cfg`).
- `ifaddrs.c:178-181`: if the list item of a reply cannot be allocated, the reply is lost
  (`EachReplyIsFreed` fails there, too; `NothingLeaks` allows this one).
- `glob.c:684-686`: the comment says that `gl_pathv` is NULL if and only if `gl_pathc` is 0 (`PathcTellsPathv` fails with the constants of
  `Glob.cfg`). If the first copy of a path fails, the array is there with `gl_pathc` 0. After a failed `realloc` the list is thrown away, without its
  strings, while `gl_pathc` keeps counting them; the next alternative of a brace, or the next call that appends, allocates an array whose first
  `gl_pathc` cells are never written, the call may return 0 (line 349), and `globfree` (lines 783-796) frees those cells. `ListInvariant`
  says where they are.

Found while reading:

- `ifaddrs.c:135`: a truncated reply is asked for again with a larger buffer, but `recvmsg` has consumed it; the list lacks its
  messages, and if it held NLMSG_DONE the call does not return. `Complete` and `OwnPortReturns` except such calls (`cut`).
- `glob.c:301-302`: of a pattern with a brace that is not closed only the part before it is globbed, though the comment says
  "just glob the pattern". `UpToOpenBrace` is what the code does, and the promise of `AllAdded` takes its alternatives from the code, too.
- `glob.c:349`: the outcome of each alternative is overwritten by the next, and a pattern with a brace returns 0 whatever failed; `AllAdded` excepts
  such calls if something failed.
- `glob.c:794`: `globfree` leaves `gl_pathc` as it is.
- `glob.c:620`: GLOB_ERR is ignored if `errfunc` is NULL. Line 695: the limit is tested with `>`, so one match more
  than `gl_matchc` gets in. GLOB_MAGCHAR, once set by one alternative, makes GLOB_NOMAGIC useless for those after it.
- `semaphore.c:173`: the file has its final name before its contents are written; an open in between
  maps an empty file and returns a handle of no semaphore.
- `semaphore.c:192`: a failure of fstat or mmap unlinks the name also when the semaphore existed before.
- `semaphore.c:121` and `:210`: the limit of references is tested when a slot is reserved and the
  count is raised at the end, so concurrent opens may pass it.
- `stdio_fmemopen.c:185`: `flags & O_RDONLY` is always 0, so a stream opened for reading has a write
  callback.
- `stdio_fmemopen.c:91`: a read at an offset past the data is not bounded.
- `whar.c:147` and `:71`: see section 9.

## 9. What is not modelled, and why

In the modelled parts: weak memory orders (the locks carry their protocol in one or two atomic words with
acquire and release operations, and the models are sequentially consistent); the wrap-around of
`size_t` and of the counters; the spelling of semaphore names; the FNV hash itself; stdio's buffering; the
close-on-exec flag and the flags of `posix_spawn` that make a single system call; the getters. Of `glob`: tildes,
GLOB_MARK, the functions of GLOB_ALTDIRFUNC, quoting and the reading of brackets (patterns come as tokens), the entries `.` and
`..`, and names beyond MAXPATHLEN; the files do not change during a call. Of `getifaddrs`: labels, netmasks, flags, and where in memory an entry
has its parts.

`open_wmemstream` (`whar.c`): line 147 sets `size`, which every other line takes as a number of wide characters, to a number of bytes, so
that an array of BUFSIZ wide characters is said to hold four times as many, and a longer stream is stored behind it; and line
71 passes `mbsnrtowcs` its two limits in each other's place. A model of it would have no invariant of the code to
state beyond what `MemStream` states of its sibling.

Not modelled yet: the parts that section 1 calls planned. They are short sequences of system calls, and come last for that reason.

Not modelled at all: digests, codecs and floating-point
functions are arithmetic on words, far outside of what TLC can enumerate, and vendored from
projects with their own tests; logging, backtraces and locale stubs are formatting and constants without
state; the assembly of the contexts is register copies on four architectures, of which only the
transfer through `uc_link` has control worth a model. The timed futex wait (`bionic_futex.c:35-85`)
has no caller in the repository.
