# TLA+ verification of the EC440 coursework

The repository holds five programs of an operating-systems course. They share
no code and do not call each other; each is a library or a program of its own.
This directory specifies them in TLA+, model-checks the specifications with
TLC and proves theorems about them with TLAPS.

## The system

| Part | State it keeps | Operations | What is hard about it |
|---|---|---|---|
| HW5 `fs.c`, a FAT file system | `fat_table`, `root_directory`, `fd_table`, `mounted`; on disk the superblock, 2 FAT blocks, 1 directory block and the data blocks | `make_fs`, `mount_fs`, `umount_fs`, `fs_create`, `fs_open`, `fs_close`, `fs_read`, `fs_write`, `fs_delete`, `fs_lseek`, `fs_truncate`, `fs_get_filesize`, `fs_listfiles` | linked chains changed by loops; block boundaries; a full disk; several descriptors on one file; crashes between the data, the tables in memory and the copy on disk |
| HW5 `disk.c`, a block device in a file | `active`, `handle`, the file | `make_disk`, `open_disk`, `close_disk`, `block_read`, `block_write` | a call may fail between two others |
| HW3 `threads.c`, user-mode threads and semaphores | `tcb[]`, `current_thread`, `thread_count`, `semaphore_array[]`, the signal mask, the timer | `pthread_create`, `pthread_exit`, `pthread_join`, `pthread_self`, `sem_init`, `sem_wait`, `sem_post`, `sem_destroy`, `schedule` as signal handler | `SIGALRM` in the middle of anything; the mask is not part of a `setjmp` context; waking the right thread |
| HW2 `threads.c`, its predecessor | `tcb[]`, `current_thread`, `thread_count` | `pthread_create`, `pthread_exit`, `pthread_self`, `schedule` | as above, without locks |
| HW4 `tls.c`, thread-local storage | a hash table of areas, pages with reference counts, page protection | `tls_create`, `tls_clone`, `tls_read`, `tls_write`, `tls_destroy`, the `SIGSEGV` handler | pages shared by real threads without a lock; copy-on-write; a fault that ends a thread |
| HW1 `myshell.c`, a shell | its children, pipes and descriptors | parse a line, run a pipeline, redirect, run in the background | processes that wait for each other through pipes; `wait(NULL)` reaps any child |
| HW5 `test.c` | - | - | an earlier inode file system that no makefile builds |

What makes each part correct:

* `fs.c`: every file's chain is finite, long enough for its size and disjoint
  from the others; no block is lost; a read returns what was written last; the
  disk is mountable whenever the process dies; every call returns.
* `threads.c`: one thread runs at a time and resumes where it left off; a
  blocked thread runs again only when what it waits for has happened, and then
  does; every ready thread gets the CPU.
* `tls.c`: a thread sees its own writes and nobody else's after a clone; a page
  lives as long as a thread refers to it.
* `myshell.c`: a pipeline ends when its commands do; the shell waits for its
  own foreground commands and for no others.

## Plan

1. `FatFs`, with its abstract specification `FileStore` and its proofs (done).
2. `Threads`: scheduler, join and semaphores of HW3 at the granularity at which
   the timer signal can arrive; `EarlyThreads`, HW2's predecessor, on top of it
   (safety proved, liveness model-checked).
3. `Tls`: areas, pages and reference counts, one byte or page per step (proved).
4. `Shell`: the shell's processes, pipes, waits and redirections (safety proved,
   liveness model-checked).
5. The refinement of `FileStore` by `FatFsStore`, step by step (proved).
6. Worth stating next: an abstract semaphore that `Threads` implements,
   and a store of private byte sequences that `Tls` implements.

## FatFs: the file system

`FatFs.tla` models `fs.c` and the part of `disk.c` it uses. Constants replace
the sizes of the C code: `MaxFiles`, `MaxFds`, `BlockSize`, `TotalBlocks`,
`DataStart` (the first data block), `FatSaved` (how many FAT entries fit in the
FAT blocks on disk: 2048 in the code, of 8192), `UintMod` (2^32).

| Variable | Code |
|---|---|
| `mounted`, `active` | `mounted` of `fs.c`, `active` of `disk.c` |
| `fat`, `dir`, `fds` | `fat_table`, `root_directory`, `fd_table` |
| `disk` | the metadata blocks of the disk file: is there a magic number, the saved FAT entries, the directory |
| `data` | the data blocks of the disk file |
| `op` | the call in progress: which one, where it is (`pc`) and its local variables |
| `reply` | what the last call returned |
| `own`, `base` | auxiliary: which file a block belongs to and where in the file it lies. No guard and no assignment to another variable reads them; they are saved and restored with the metadata so that the invariants can speak of the disk |

The library has one thread, so calls do not overlap; but `fs_read`,
`fs_write`, `fs_truncate` and `fs_delete` run loops over a chain, and each
iteration is a step. That makes loop invariants ordinary invariants (`CallSound`),
gives crashes a place to happen and makes "the loop ends" a liveness property.
The steps of `fs_write` are: `fs_write` (checks, first block), `walk` to the
block of the offset, `write_grow`, `write_tail`, `write_link` when the offset is
at the end of the last block, `write_chunk` per block, and one of four ways to
return. The zero fill of a gap (`op.kind = "extend"`) and the copy of the
caller's bytes (`"write"`) are the same loop twice in the C code and share
their actions. Every call that saves the metadata ends in the step
`write_metadata_to_disk`.

Abstractions: bytes come from a small set; names have legal length and are
compared as a whole; a call that fails before it changes anything is not a
step; `block_read` and `block_write` fail nondeterministically for data blocks
and not for metadata blocks, whose results `write_metadata_to_disk` ignores.
Two loops of `fs_write` (fs.c:347-363 and 446-462) and a return of `fs_read`
(fs.c:282) have no action: the theorem `OffsetsAreReached` says they are dead.

Specifications: `Spec` (no crashes, with fairness) and `CrashSpec` (the process
may die anywhere but inside a save). Both mount a disk only when its files lie
in the saved part of the FAT (`Covered`): `AnyMountSpec` shows what happens
otherwise.

A save overwrites the FAT blocks and then the directory in place, so a crash
inside it leaves them of different ages, and a directory entry may lead to a
freed chain. The code has no defence against that. What it does guarantee is
`TornSaveHarmsOne`: wherever the save is cut, with part of the FAT new and the
directory old, every file but the one whose call is being saved is still whole.
The property looks at the torn disk of every cut; a remount of such a disk is
not followed further.

`FileStore.tla` is the abstract specification: files as byte sequences, open
descriptors with offsets, one step per call. `FatFsStore.tla` adds a variable
with the caller's view as of the last return and maps it to `FileStore`;
`FairStoreSpec` adds to it the fairness of `Spec`.

### Runs

| Run | Specification, bounds | Shows |
|---|---|---|
| `FatFsCrash` | `CrashSpec`; 2 names, 2 entries, 2 descriptors, 3 data blocks of 1 byte, one of them beyond the saved FAT, garbage in its entry (free, or a link to another block), lengths up to `UintMod + 1` | the inductive invariant's parts about tables at rest and in pieces (`ChainsSound`, `DiskSound`, `DescriptorsSound`); its consequences stated with plain chains, in memory (`FilesWhole`) and on disk (`RemountConsistent`); `TornSaveHarmsOne`; no leaks (`BlocksAccounted`); `NamesUnique`, `DescriptorKeepsFile` |
| `FatFsStore` | `FairStoreSpec`; 1 file, 2 descriptors, 2 data blocks of 2 bytes, bytes 0 and 1, lengths up to `UintMod` | `fs.c` implements `FileStore`; `TypeOK`, among it that no length is negative; the registers of the loops (`CallSound`, `ChainReachesOffset`); every call returns (`CallsReturn`) |
| `FatFsTail` | `AnyMountSpec`, one of 2 blocks beyond the saved FAT | violated: a remount loses the tail of the FAT |

`fs_truncate` casts a 64-bit length to 32 bits before it compares (fs.c:643), so
that a length of 2^32 or more cuts the file instead of failing. This is plain in
the code; both runs include such lengths and show that the chains survive and
that the bytes kept are those of the shorter length.

`FileStore` also records what a caller may find surprising: a `fs_write` past
the end that cannot fill the gap returns the number of zeros it added
(fs.c:424), which can exceed `nbyte`.

The bounds divide the questions. `FatFsStore` is about offsets and bytes: two
bytes per block is the least size with an offset inside a block, writes of up to
two bytes touch two blocks, and two descriptors on one file give offsets past the
end, hence gaps. `FatFsCrash` is about chains: two files compete for three blocks
and two entries, so that every allocation both succeeds and fails, a chain has an
inner block to walk past, and a gap fill fails because the disk is full (in
`FatFsStore`, with one file, only because of an I/O error). With blocks of one
byte a chain is as long as its file, and every truncation is one to a border of a
block. What more blocks or files could add is, for the proved properties, covered
by the proofs, which have no bounds; `CallsReturn` is not proved, and the chains it
is checked on have two blocks. File names are interchangeable, hence the
symmetry of `FatFsCrash`, which checks no liveness.

Fairness: `WF_vars(Step)`. The caller of the library is one process that runs
the call it is in; a step of a call is enabled until it is taken, and nothing
obliges the caller to make another call.

### Proofs

`FatFsProofs.tla`, with `FatFsFilesProofs.tla` and `FatFsStoreProofs.tla` on top of
it, prove for all values of the constants that satisfy `SizesAssumption` and `ValuesAssumption`:

* `CrashSpec => []IndInv`, and with it `[]TypeOK`, `[]ChainsSound`,
  `[]DiskSound`, `[]DescriptorsSound`, `[]CallSound`;
* `Spec => []ChainReachesOffset`;
* `CrashSpec => []FilesWhole`, `[]RemountConsistent`, `[]TornSaveHarmsOne`,
  `[]BlocksAccounted`, `[]NamesUnique`, and the action property
  `DescriptorKeepsFile`;
* `StoreSpec => ImplementsStore`: the file system implements `FileStore`.

The assumptions: sizes are positive; the data blocks lie between the metadata
and the end of the disk; block numbers and file offsets fit in 32 bits with
`FAT_EOF` to spare (8192 blocks of 4096 bytes do); heap garbage is some FAT
value; 0 is a byte.

The argument. "Chains are disjoint and acyclic" is not inductive in terms of
reachability. `own` and `base` turn it into local facts: a head has offset 0 and its own file
(`HeadsSound`), a link leads to a block of the same file exactly one block
further (`LinksSound`), two blocks of one file lie a block apart (`SpacedApart`),
a chain's end is the furthest block of the file and covers its size
(`EndsSound`), every block but the first has a predecessor (`Linked`), and a
block in use has an owner (`NoLeak`). While a call has a chain in pieces the
exception is named: the entry being deleted, the link being cut, the block not
yet freed, the block not yet linked. `CallSound` ties the registers of each
loop to the chain. `DiskSound` is the same for the disk, and survives because
only a finished save, at rest, changes it. There is one lemma per action; the
hard ones are `FreeHere` (no block that stays leads to the one being freed: two
blocks at one offset would violate `SpacedApart`) and `Appended` (a free block
put behind the last one keeps all six facts).

`FatFsFilesProofs` leads from these local facts to the properties that follow a
chain from its head. The library's induction theorems take an operator as a
parameter, which the provers cannot instantiate; `NumberInduction.tla` proves
instead that a nonempty set of numbers has a least member (`LeastNumber`) and, from
it, induction over a set (`Induct`). With these the recursive function `Chain` unfolds
(`ChainUnfolds`), the block reached in k steps lies k blocks into its file
(`ChainInside`), and a chain ends: its blocks would otherwise be more, all
different, than there are data blocks (`PigeonHole`, `ChainEnds`). `ReachCounts`
gives the number of blocks and `FileReached` that every block of a file is on its
chain. Three properties need an invariant of their own beside `IndInv`:

* `NamesInv`: the names in memory and on disk are unique, because a crash or a
  remount brings back the directory of the disk;
* `SyncInv`: memory and disk agree on the chains of all files but `Busy`, the one
  the call in progress is about; a torn save mixes two copies, and for every other
  file the copies are the same;
* `TightInv`: a block begins inside its file or right at its end (during a write,
  within what the call has written so far), which bounds a chain from above.

`FatFsStoreProofs` proves the refinement. `snap`, the caller's view, changes only
when a call returns; the tables change at every step of the call. The invariant
`StoreInv` therefore says what the two have to do with each other in between:
when no call is in progress they agree (`snap = View`), and inside a call
`Midway` says which part of the work is done:

* `FilesMatch`: the blocks of every other file hold the bytes the caller knew,
  and those of the file being changed hold `Goal`, the old bytes with `op.cnt`
  bytes written over them, with `op.cnt` zeros behind them, or cut to the new
  length;
* `NamesMatch`, `HandlesMatch`: names and offsets are the caller's, but for the
  name that is being removed and the offset that moves when the call ends;
* `ReadMatch`, `WriteMatch`, `CutMatch`: the registers of the call are related to
  its arguments, the bytes read so far are those of the file, and the pending
  reply reports the work done.

`SideInv` adds that a file without a block has no descriptor past its beginning,
that names are names, and that directory and disk agree while nothing is mounted.
There are three kinds of steps. A step that begins a call establishes `Midway`
(`ReadBegins`, `WriteBegins`, ...); one inside a call keeps it and leaves `snap`
alone, a stuttering step of the store (`QuietSteps`, `ChunkKeeps`, ...); one that
returns makes the step of `FileStore` its call stands for (`ReadReturns`,
`SavesWrite`, `SavesGap`, `SavesCut`, ...). The bytes of a file are read through
`own` and `base`, and `IndInv` gives each byte below the size exactly one block
(`EndsSound`, `SpacedApart`); so a patched block changes the bytes of its own file
only, in the range the call asked for. Like `StoreSpec` the theorem is about a
process that does not die, and disks whose files lie in the saved part of the FAT.

Only model-checked: `CallsReturn` (liveness).

## Threads: user-mode threads and semaphores

`Threads.tla` models `threads.c` of HW3. All threads share one process and one
stack pointer: exactly one flow of control executes, and it changes hands in
`schedule`.

| Variable | Code |
|---|---|
| `count`, `current` | `thread_count`, `current_thread` |
| `state`, `ctx` | `tcb[].state`, `tcb[].context`; a context is a flow and whether the signal handler saved it |
| `masked` | `SIGALRM` is blocked: by `lock`, or because the handler is running or was left by `longjmp` |
| `exec` | the flow that executes: the thread whose stack it uses, the place it is at, the argument of its call, the place behind its call of `schedule` |
| `sems`, `nsem` | `semaphore_array` (with the initial value, for the properties), `next_semaphore_id` |
| `inside` | auxiliary: the semaphores a thread has passed and not posted. It restricts only what the calling program does |

The build uses `-std=gnu99`, so `setjmp` does not save the signal mask and
`signal` keeps the handler installed and blocks the signal while it runs. Hence
`schedule_jump`: a context saved by the handler ends in the return from the
handler, which unblocks the signal; any other context goes on with the mask of
the flow that jumped to it.

The parts between `lock` and `unlock` cannot be interrupted and are one step;
`schedule` is three (`schedule_save` or `schedule_signal`, `schedule_next`,
`schedule_jump`), `pthread_create` two, and a round of the loop of
`pthread_join` one. `sem_wait` blocks with the signal blocked, and `wait_return`
is what follows its call of `schedule`. Left out: exit values, the contents of
stacks, calls that return an error. `sem_init` and `sem_destroy` are one step
each although the signal may interrupt them.

The calling program is arbitrary up to these rules: it does not join itself,
posts only a semaphore it has passed, ends a thread only when it holds none, and
destroys a semaphore nobody uses. `Waiters`, `Joiners` and `Enders` say which
threads make which calls.

`Spec` lets the signal arrive anywhere but inside `pthread_create` and inside
the loop of `schedule` when the library called it (`Calm`). That is an
assumption about timing, not a fact about the code: these windows are a few
instructions wide in a time slice of 50 ms, and `AnyTimeSpec`, without the
assumption, breaks `ContextsOwn`. The passing runs say what the library does
when the windows are not hit.

| Run | Specification, callers | Shows |
|---|---|---|
| `Threads` | `EndingSpec`; main joins and exits, two threads wait, post and exit, one of them joins | `TypeOK`; contexts stay with their threads (`ContextsOwn`); the flow that runs may run (`RunnersReady`); no lost wake-up (`WaitersListed`); units of a semaphore are neither lost nor made (`SemaphoreConserved`); main's join returns (`JoinReturns`); a woken thread gets through (`WokenPass`); a ready thread runs if the signal gets through (`ReadyRuns`) |
| `ThreadsAnyTime` | `AnyTimeSpec` | violated: a signal inside `schedule(0)` stores one thread's context in another's entry |
| `ThreadsMainWaits` | `Spec`; main waits too | violated: main leaves `sem_wait` without a post |

The bounds: main and two threads are enough for one to hold a semaphore, one to
wait and one to be scheduled between them; one semaphore with value
0 or 1 both blocks and admits. Deadlock is not checked because the process may
end (`main_return`).

Fairness. `WF_vars(Library)`: the processor goes on with the call it is in.
`WF_vars(Calm /\ schedule_signal)`: the interval timer goes off again and
again. `SF_vars(Advance(t))`: a time slice is longer than the few instructions
between two steps of a call, so a thread that gets the processor again and again
makes progress in its call. `EndingSpec` adds `SF_vars(Leaves(t))`, an assumption
about the caller: no thread computes forever without posting or ending. It is
needed because a thread resumed with the signal blocked keeps the processor.

`ReadyRuns` has a condition, that the signal is unblocked again and again, and
`WokenPass` an exception, that main has exited. Both are there because of the
code: a thread that was switched away from in a call of `schedule` and is resumed
by the handler inherits the blocked signal (threads.c:76) and is not preempted
until it calls `lock` and `unlock`; and main, once exited, loops in
`pthread_exit`, is still picked (threads.c:74), and may hold the processor in the
same way. So `ReadyRuns`, here and in `EarlyThreads`, says what the scheduler does
when the signal gets through, and not that it does; that it may not is in the
model and judged by no property. `JoinReturns` is about main's joins.

More departures from HW3's README.md are plain in the code, and no run is spent
on them: a thread other than main that joins is not made ready when its target
exits, because the test compares a thread's own number (threads.c:87); `sem_post`
wakes the last of the waiting list, not the first (threads.c:203); and nothing
ends the process when all threads have exited (threads.c:94).

### Proofs

`ThreadsProofs.tla` proves for any numbers of threads and semaphores and any
callers:

* `Spec => []SchedInv`, and with it `[]TypeOK`, `[]ContextsOwn`, `[]RunnersReady`;
* if main does not call `sem_wait` (`0 \notin Waiters`): `Spec => []IndInv`,
  `[]SemaphoreConserved`, `[]WaitersListed` and `[]MutualExclusion`.

`Spec` has the assumption `Calm` about the signal; without it `ThreadsAnyTime`
refutes `ContextsOwn`. The hypothesis on main is needed because `schedule` resumes
main whatever its state (threads.c:74); without it `ThreadsMainWaits` refutes
`MutualExclusion`.

The argument. Contexts outlive the flow that saved them, so `FlowInv` says of each
saved flow what it says of the one that executes: whose it is, where it may go on,
and what holds there (an entry of `pthread_create` is filled in before it is
counted, a thread in its own code is ready). For the semaphores `IndInv` adds
that a thread is on at most one list and at most once, that it is on the list of s
exactly when it is `BLOCKED` in `sem_wait(s)`, and that `inside` and the threads
woken but not yet through account for the units taken. Sets of threads are counted
with the library's theorems on cardinality, one thread added or removed per step.

Only model-checked: `JoinReturns`, `WokenPass`, `ReadyRuns` (liveness).

## EarlyThreads: the threads of HW2

`schedule` and `pthread_create` of HW2 are those of HW3 without joins and locks, so
`EarlyThreads.tla` extends `Threads.tla` and takes over its variables and these
actions. Its own is `pthread_exit`, in two steps: `exit_mark` sets `EXITED`, and
`exit_test` looks for a thread that has not exited and calls `exit(0)` when there
is none. The signal can arrive between the two. It takes the thread off the
processor for good, unless it is main, and its test is never made: if it was the
last, the process does not end. `LastExitEnds` states the guarantee with exactly
that exception (`Interrupted`), and so does not catch that hazard.

| Run | Bounds | Shows |
|---|---|---|
| `EarlyThreads` | `EarlySpec`, main and 3 threads, all may exit | `ContextsOwn`; the process does not end while a thread is alive, except by a return of main (`NoEarlyEnd`); it ends after the last exit (`LastExitEnds`); `ReadyRuns` |

Fairness: the flow that executes goes on and the timer keeps going off; no
assumption about the calling program. The signal arrives as in `Threads` outside
`pthread_create` and the loop of `schedule`.

`EarlyThreadsProofs.tla` proves `ContextsOwn` and `NoEarlyEnd` for any number of
threads. The scheduler's lemmas are those of `ThreadsProofs`; what is added is
`MainLives`: the main thread, while its flow or its saved context is in its own
code, has not exited, so that its return is not mistaken for an exit.
`LastExitEnds` and `ReadyRuns` are liveness and only model-checked.

## Tls: thread-local storage

`Tls.tla` models `tls.c` of HW4. The threads are kernel threads that run at the
same time, and the library takes no lock.

| Variable | Code |
|---|---|
| `table` | `hash_table`: each list as the sequence of its threads, the head first |
| `tls` | the area a list element holds: `size` and `pages` |
| `page` | a page: `ref_count` (0 when it is not mapped), whether it is open (`PROT_READ \| PROT_WRITE`) or closed (`PROT_NONE`), its bytes |
| `call` | the call a thread is in: the iterations done, the arguments, the buffer, the area `tls_clone` builds |
| `dead`, `crashed` | what `tls_handle_page_fault` did: ended the thread, or let the signal end the process; `crashed` also ends a run that left an area's array of pages |
| `want` | auxiliary: the bytes a thread's area should hold. Only properties read it |

Steps. `tls_create` is one, because nobody knows of the new area before it is
linked. `tls_clone`, `tls_destroy`, `tls_read` and `tls_write` begin with a step
for the search, the tests and (the last two) the loop that opens the pages; each
page or byte of the main loop is a step; and a last step links, unlinks or closes
the pages. A byte whose page is closed runs the handler. A thread may also touch a
page outside the library (`stray`). `tls_init`, done by the first
`tls_create`, is part of `Init`.

Sizes, offsets and lengths are any unsigned numbers, and the sums of the code wrap
at `UintMod`. Two wraps matter. The test of the bounds adds offset and length
(tls.c:193, 225): with offset 2^32 - 1 and length 1 the sum is 0 and any area
passes. And `page_num` adds the size and the size of a page (tls.c:123): an area of
nearly 2^32 bytes gets no page. Either way the loop takes the pointer to its page
from behind the array `pages`, which is undefined; `lookup_beyond` is that step, and
the model ends there (`crashed`), because nothing can be said of the process any
more. `StaysInside`, that the test prevents this, is refuted by `TlsWrap`;
`FittingInside` is what the test does guarantee: a call whose offset + length is
below `UintMod`, on an area whose size is at least a page below it, stays inside.
The other properties are not restricted to such calls.

Assumed of the callers, in the guards `MayChange`, `Undisturbed` and `May`: one
thread at a time is in `tls_create`, `tls_clone` or `tls_destroy`; no call begins
during a `tls_destroy`; and with `Serial`, calls that overlap work on different areas and
pages. Without the first two the hash lists and the counts are plain
data races. `TlsOverlap` drops the third.

| Run | Bounds | Shows |
|---|---|---|
| `Tls` | 3 threads, two of them in one hash list, 3 pages of 2 bytes, `UintMod` 6, areas of 2 to 5 bytes, offsets and lengths of 1 and 3, `Serial` | `TypeOK`; the table holds exactly the threads with an area (`TableExact`); `ref_count` counts the references at every step (`RefsExact`); no thread's bytes change by what another does (`Isolated`); a read returns them (`ReadsOwn`), across the border of a page; no call leaves its area unless a sum wraps (`FittingInside`); pages are closed outside calls (`PagesClosed`); the handler ends only the thread that went astray, and the process ends only when a call leaves the array of its pages (`HandlerRight`) |
| `TlsOverlap` | 2 threads, not `Serial` | violated: the first of two threads that share a page to return from its call closes the page under the other, which the handler then ends |
| `TlsWrap` | 2 threads, `Serial`, `UintMod` 16, areas of up to 3 and of 15 bytes, offsets and lengths of 0, 1, 2 and 15 | violated: offset 15 and length 1 pass the test on an area of 1 byte |

The bounds: three threads let a clone be cloned and its source be destroyed
first; three pages are one area of two pages and a copy of one of them, or areas of
one and of two pages. In `Tls`, 3 bytes from offset 1 cross the border of a page in
an area of 4; an area of 3 uses a page partly; offset 3 and length 3 wrap around and pass the test on every
area; and an area of 5 has no page. `TlsOverlap` and `TlsWrap` have 0 among their
arguments, a size that is refused and a length that copies nothing. Pages are
interchangeable, hence the symmetry. Deadlock is not checked: all threads may have
been ended.

Left out: `mmap`, `mprotect` and `malloc` that fail (the `mmap` of a
copy is not checked, tls.c:238); a thread number that the
system uses again after its thread ended and left its area behind (tls.c:116); a
stray access to a page that is open, which is not detected; a stray access while
`tls_destroy` has an area in pieces (`Undisturbed`), and the race of two threads on one
hash list (`MayChange`); and the calls that return -1, which change nothing.

### Proofs

`TlsProofs.tla` proves all eight invariants of the run `Tls` for any number of
threads and pages, any page size, all unsigned sizes, offsets and lengths and any
bytes, from the hypothesis `Serial`; `TlsOverlap` shows what happens without it.
`SizesAssumption` bounds no sum.
`TlsInv` has these parts:

* `Shape`: types; the hash lists; an area has as many pages as its size needs and
  none twice; what the tests at the start of a call established, in unsigned
  arithmetic, still holds in its loops (`CallSound`); one clone or destruction at a time;
* `Pages`: `ref_count` is the number of references, of which there are finitely
  many; calls that copy have no page in common and theirs are open;
  all other pages are closed;
* `Contents` and `ReadsOwn`: byte by byte, an area holds what its thread wrote or
  cloned, and the buffer of a read holds the bytes read so far;
* `HandlerRight`.

`FittingInside` follows: a sum that does not wrap is tested as it is (`SmallMod`),
and an area of a fitting size has the pages its size needs.

The hard steps are those where a page changes hands: a copy on write replaces a
page in one area and must leave the other references, hence the counts, the
contents and the protection of every other area, as they were.

## Shell

`Shell.tla` models `myshell.c` of HW1 with the processes it starts.

| Variable | Code |
|---|---|
| `pc`, `line`, `i` | where the shell is: at the prompt, before `fork`, in `wait(NULL)`, ended; the commands of the line; the loop's counter |
| `input` | `input_fd`: whose pipe the next command reads |
| `last` | the process the shell has forked last, the one it means to wait for |
| `kid` | the children: running or zombie, what they still write and have read, and the pipe made for each, with what is in it and whether the shell has its write end open |
| `jobs` | auxiliary: the commands started with `&` and not waited for |

The shell's steps are `read_line`, `fork` (with `pipe`, `dup2` and the redirections
of the child), `wait` (with the `close` that follows and the hand-over of the read
end), `fork_fails` (perror and exit) and `leave`. The programs and the pipes of the
kernel are external: a program writes a fixed amount, reads its standard input to
the end or not at all, and ends; a pipe holds `PipeCap` pieces, makes its writer
wait when full, and reports its end when it is empty and nobody has its write end.
The shell never closes the read ends, so that a writer whose reader has gone is
not told.

`split_redirection_symbols` and `handle_redirection` are operators on sequences of
tokens, a token being a sequence of words and symbols. They follow the code where
it differs from what one expects: a token is cut once, at its first `<` or else its
first `>`; therefore `>>` is never seen as a symbol of its own and does not
append; and a symbol that ends a longer token, as in `a> f`, is followed by an empty
argument, so that the shell opens the file with the empty name and not `f`. README.md
of HW1 says the function "properly splits these combined symbols"; `Plain`, the
condition of `RedirectsRight`, leaves this one out. An `&` is recognised anywhere in the line and has no effect on a
pipeline. Text is not modelled below that level, and lines are assumed to fit the
arrays of the code (10 commands, 32 arguments). Input from the terminal, which
the shell and a command may read at the same time, is left out.

| Run | Bounds | Shows |
|---|---|---|
| `Shell` | 3 process numbers, pipes of 1 piece, the lines of `MCShell` | `TypeOK`; `wait` always has a child to wait for (`ReapsBalance`); each command reads all its predecessor wrote (`NoInputLost`); without `&` the commands run one after the other (`AloneInOrder`); redirections do what is written (`RedirectsRight`); the shell returns from a line whose output fits the pipes (`FittingLineEnds`) |
| `ShellWaits` | the same | violated: after a command with `&`, `wait(NULL)` reaps that one and the shell goes on while its foreground command runs |

The bounds: a pipe of one piece is filled by a program that writes two; pipelines
of three stages have a stage that both reads and writes; three processes are a
background command, its successor and one more. The lines include programs that
ignore their input, are redirected on either side, or write more than a pipe
holds. Of the last kind the shell never returns: it waits for the writer before
it starts the reader (myshell.c:109). That really happens, so deadlock is not
checked, and `FittingLineEnds` is stated for the others.

Fairness: the shell and each of its processes are scheduled by the kernel and go
on when they can (`WF` each); nobody has to type another line.

### Proofs

`ShellProofs.tla` proves `TypeOK`, `ReapsBalance`, `NoInputLost`, `AloneInOrder` and
`RedirectsRight` for every set of lines, any number of processes and any capacity of a pipe.
`NoInputLost` speaks of a reader at the end of its pipe and of pipes left behind
when all have ended, and is not inductive. `ShellInv`
follows a pipe through its life: as long as its reader is not started nobody has
read from it (`Fresh`); then it has one reader (`OneReader`), and what was read and
what is in the pipe add up to what was written (`PipesSound`); once its reader
has seen its end it is empty and its writer has ended, and so it stays
(`HeardDrained`). `AloneInOrder` follows from `ReapsBalance`.

`RedirectsRight` needs no invariant of the shell but a fact about the operators,
`PlainRedirects`. Cutting the tokens keeps the text (`CutTokens`: `Pieces` of the
arguments is `Pieces` of the tokens) and leaves each argument a symbol or a word
without one (`Sound`). `End(args, n)` is where the n-th argument ends in the text; by
induction it grows with n, and the symbols of the text are at the ends of the
arguments that are symbols (`SymbolEnd`, `SymbolPlaced`). So the last symbol of the
arguments is the last of the text, and the argument behind it is the word behind it.

Only model-checked: `FittingLineEnds` (liveness).

## Not modelled

HW5 `test.c` is not built and nothing refers to it. The demonstration programs
(`main.c`, `test-threads.c`) are callers of the libraries and keep no state of
their own. Inside the modelled parts: the window in which the signal interrupts
`sem_init` or `sem_destroy` (each one step, although neither takes a lock), the
races on the hash lists and the reference counts of `tls.c`, and the number of
descriptors the shell leaks.
