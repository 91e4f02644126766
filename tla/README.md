# Verification of the CS 6960 kernels (xv6)

The repository holds the solutions of sixteen people to the seven assignments of an
advanced operating systems course, and some final projects. Each is a handful of files
that replace or extend those of xv6, a small teaching kernel for multiprocessor x86; the
rest of xv6 is not in the repository and is modelled, where it is needed, from how these
files use it. The kernels do the same things in slightly different ways, so a module here
models the control that the solutions of one assignment share, and takes what differs as
a constant: a set of records, one per student (`PipeVariants`, `SchedVariants`,
`QueueVariants`, `SpaceVariants`, `MutexVariants`, `RingVariants`), of which each
behaviour picks one in `Init`.

## 1. Inventory

| Part | State | Operations | Interacts with | Hard because |
|---|---|---|---|---|
| Pipe (`*/assignment1/pipe.c`) | a ring `data` on one page, `uint` counters `nread`, `nwrite`, flags `readopen`, `writeopen`, a spinlock | `pipealloc`, `pipewrite`, `piperead`, `pipeclose` | `sleep`/`wakeup` on the addresses of the counters; `kill`; the file table, which calls `pipeclose` at the last close | several readers and writers sleep in the middle of a call; block copies across the end of the ring; counters that wrap; ends closed under sleepers; kill |
| Process table and scheduler (`proc.c` of assignments 2, 4, 6, 7) | per slot `state`, `pid`, `parent`, `chan`, `killed`; per CPU `proc`; `nextpid`; one spinlock `ptable.lock` | `userinit`, `fork`, `exit`, `wait`, `kill`, `yield`, `sleep`, `wakeup`, `scheduler` | every blocking part of the kernel; the timer; the ready queue | the lock is taken by one thread and released by another across `swtch()`; slots and pids are reused; exit and wait race; kill races with every sleep |
| Ready queue (`*/assignment2/proc.c`) | two end pointers and links through `struct proc` | put (when a process becomes RUNNABLE), get (in `scheduler`) | the process table, which updates `p->state` beside it | thirteen hand-made linked lists with different tests for "empty" and different habits of clearing links |
| Control-C (`*/assignment6/proc.c`, `console.c`) | the process tree, `killed` | `killjobs`, `killtree`, from the console interrupt | process table | runs in an interrupt, walks parents that change |
| Idle processors (`kincaid_savoie/final_project`) | halted CPUs | a `scheduler` that halts, `lapicwakeup` | process table | wakeup between the last look and the halt |
| Kernel mutexes (`*/assignment4`) | a table of mutexes with a holder and a spinlock each, a table lock | create, acquire, release, destroy | `sleep`/`wakeup`, process ids | two levels of locks, checks made before a lock is taken, destroy under waiters |
| Address spaces and shared pages (`*/assignment7/vm.c`) | the free list, page tables, the addresses of the shared pages and a flag | `growproc`, `fork`, `exit`, `wait`, the call that allocates and maps the shared pages | process lifecycle | any allocation may fail; first use by two processes; exit of one of them |
| Ring buffer in shared memory (`*/assignment7/*buf*.c`) | two counters and bytes in pages that two processes map | `buf_setup`, `buf_put`, `buf_get` | shared pages | no lock; message headers; alignment; room computed from two loads; counters that wrap |
| User-level threads (`alanhumphrey/project`) | a pool of threads in a process: `state`, `tid`, `stack`, `esp`; `curr_tid_idx`, `next_tid` | `thread_init`, `thread_create`, `thread_yield`, `thread_join`, `thread_exit` | kernel mutexes | slots are used again; a search that does not wrap; the process ends from inside a call |
| Assignment 3, 5, prose, tests, system call tables | | | | sequential or text |

What makes each part correct:

* *Pipe*: the bytes read are the bytes written, in order, whatever the interleaving;
  nobody sleeps beside work it could do; closing an end lets everybody out; the page is
  freed after its last user.
* *Process table*: a process is RUNNING on one CPU exactly; RUNNABLE exactly if queued;
  a parent in `wait()` never misses a dead child; parents are alive; killed processes
  exit; orphans are reaped; no processor sleeps for ever beside a RUNNABLE process.
* *Ready queue*: first in, first out, never loses or repeats a process.
* *Mutexes*: one holder; release wakes the waiters; no two processors spin for each
  other; a mutex that is held exists.
* *Address spaces*: a frame has one use; none is lost; a call that fails leaves the
  process as it was; all processes share one set of pages.
* *Ring buffer*: messages are received whole, once and in order; a full ring refuses, an
  empty one says so, and no other does.
* *User-level threads*: one thread runs at a time; each goes on where it stopped, on its
  own stack; who can run gets the processor.

The hazards, with the line where each bites and the property that would catch it, are in
`PROJECT.json`.

## 2. Modules

| Module | What it is |
|---|---|
| `ByteStream` | abstract: what a pipe promises (a bounded stream of bytes) |
| `Pipe`, `PipeVariants` | `pipe.c`, and the block-copy policy and ring size of twelve students |
| `Pipe_proofs` | theorems about `Pipe` |
| `Fifo` | abstract: what a ready queue promises |
| `Sched`, `SchedVariants` | `proc.c`: process lifecycle, sleep and wakeup, Control-C, schedulers; twenty-one kernels |
| `Sched_proofs` | theorems about `Sched` |
| `ReadyQueue`, `QueueVariants` | the ready queue at the level of pointers; thirteen of them |
| `ReadyQueue_proofs` | theorems about `ReadyQueue` |
| `Mutex`, `MutexVariants` | kernel mutexes; twelve versions |
| `Mutex_proofs` | theorems about `Mutex` |
| `AddressSpace`, `SpaceVariants` | page frames, page tables, shared pages; thirteen kernels |
| `AddressSpace_proofs` | theorems about `AddressSpace`: the control of each call, and the shape of each space |
| `PageFrames_proofs` | theorems about `AddressSpace`, on top of those: what every frame is used for |
| `MessageRing`, `RingVariants` | the lock-free ring of messages; ten of them |
| `MessageRing_proofs` | theorems about `MessageRing`, and the arithmetic of counters that wrap |
| `Uthreads` | `thread.c`: user-level threads |
| `Uthreads_proofs` | theorems about `Uthreads` |
| `MC...` | each module with its variants, for TLC |

`Pipe` implements `ByteStream`; `Sched.ready` and `ReadyQueue` both implement `Fifo`,
so `Sched` can keep its queue as a sequence. `Sched` composes the scheduler with the
process lifecycle, Control-C and idle processors. The other modules use `sleep`, `wakeup`
and `kill` as `Sched` proves them to work: the lock is given up and the process put to
sleep in one step, and who is woken takes the lock again.

### Pipe

`pc[p]` says where process `p` is in `pipewrite` or `piperead`: at the head of the loop
with `p->lock` held ("writing", "reading"), about to call `sleep` ("wsleep", "rsleep"),
SLEEPING on a channel ("wblocked", "rblocked") or RUNNABLE and about to take the lock
back inside `sleep` ("wwoken", "rwoken"). `lock` is the spinlock. Stretches under the
lock that touch only the pipe are one action; they are cut where `kill` can be seen
(between the test of `killed` and the sleep) and at each block copy. The counters are
`uint`s: all arithmetic is modulo `UintMod`. The bytes of a process are numbered, so a
byte in the ring says whose it is and which one. `sent` and `got` are histories. A
process that holds both ends, as after `pipe()` and before the closes, is a possible
holder; dup'ed descriptors are one per process.

What differs between students is how many bytes one iteration copies: everything that
fits, in two parts if it wraps (`split`), only up to the end of the ring (`segment`), or,
in a read, up to the end and then a second segment if the unwrapped counters compare so
(`twoseg`).

### Sched

All of `proc.c`'s critical sections run under `ptable.lock`, and most are one action. The
lock is explicit only where it is held *between* actions: from the scheduler's `swtch()`
until the process releases it (`lock = p`), from a process's `sched()` until the scheduler
goes round (`lock = c`), or for ever (`Lost`, after grubb's `kill` of assignment 2).
`fork` is three actions, since it gives the lock up twice; `exit` is two; `sys_sleep` is
cut between its test of `killed` and the sleep, with `tickslock` held (`pc = "napping"`).
The timer interrupt may come wherever interrupts are on. `wait()` is one action per round
of its loop. `creator` is a history: the pid of the process that forked this one.

A kernel is a record of `Variant`:

* `discipline`: "queue", one process from the ready queue per turn of the lock; "drain",
  the lock is kept while the queue has processes (bpradeepk, fresco, liuz); "scan", the
  loop of xv6 over the table (drushton and mmcc, who declare a queue and do not use it,
  and most kernels of assignments 4 to 7). `at` is where that scan stands.
* `halts`, `nudges`: kincaid_savoie's final project. A round that ran nothing is followed
  by `hlt`; `idle[c]` is "on", "halting" (the lock is released, the halt not reached) or
  "halted". `nudges` says which calls interrupt the other processors.
* `killReleases`: FALSE for grubb's `kill()` of assignment 2.
* `killsJobs`: there is a Control-C (`KillJobs`): alex-steele, grubb and dongx.

`SchedVariants` builds each kernel's record of parts, one per stretch of its `proc.c`;
`MCSched` leaves out a kernel without Control-C if the same one with it is checked. The kernel
that halts is left to `sched_live` and the theorems: all a halting processor does otherwise
is wait, so it reaches no state, `idle` aside, that a scan which never halts does not. Shells
are known by their name in the code: in the model, what init itself forked is a shell,
and any set of processes that are not below one may have the name too. killtree() wakes
sleepers in the order of the tree, which the model leaves open.

From xv6, external to this repository: `trap()` makes a killed process exit on its way to
user mode and calls `yield()` from the timer; the clock calls `wakeup(&ticks)`; `init`
forks and calls `wait()` for ever and never exits; an interrupt ends `hlt`.

### ReadyQueue

`first` and `last` are the ends, `link[p]` the pointer from `p` to the next younger
process. A variant says which pointer the put tests to see if there is an older process,
how the get recognises the last one, and when links are made null. A sentinel (three
students) counts as null. Put and get are one action each, as both run under
`ptable.lock`. `waiting` is a history of puts and gets.

### Mutex

`held[m]` is the flag of a mutex, or the pid stored in it, `exists[m]` its slot's flag,
`lock` the spinlocks: one per mutex and one for the table. A call is `Call...` (the tests
made without a lock), one `Spin` per spinlock in the order `todo[p]`, and the work in one
action that lets go of all of them. A sleeper that is woken, by `release` or by `kill`,
spins for `relocks`. Interrupts are off while a process has a spinlock, so it keeps its
processor, and spinlocks that wait for each other are a deadlock.

Versions are told apart by the locks of each call, by what each call checks and when, by
what create and destroy clear, by willghatch's create, which is given the number instead of
looking for one that is free, and by willghatch's wakeup after the release of the spinlock (`lateWakeup`).
`abused` is a history: a process without the mutex released it, or it was destroyed while
held. Most versions allow both, and nothing is claimed of such a mutex.

anthonyw's callers name mutexes by a tag, and the call looks for it in the table. The model
has the call act on any mutex: a tag that is not there is one that does not exist, and of
two with one tag (create does not look) it may be either.

What the properties except, by name: `NoSpinDeadlock`, a pair of processes of which one is
back from the sleep in anthonyw's `mutex_acquire`, which takes the two spinlocks the other
way round then (`Relocks`; two others of that kernel may not deadlock); `NoSleepOnFree`, the destroy of
`assignment4/` and vrgooty, which clears the holder of a mutex and leaves its waiters
asleep; `HeldExists`, versions whose acquire does not look again after a sleep: they may
take a mutex that was destroyed meanwhile.

Left out: indexes beyond the table (two versions test `> MAX` and not `>=`); pids that are
used again.

### AddressSpace

`vm[p]` holds the frames of process `p`: kernel stack, page directory, one page table for
the kernel's half (standing for all of them), page tables and pages. `free` is the free
list; which frame `kalloc()` returns is fixed (the lowest), as nothing depends on it.
`kalloc` and `kfree` are atomic. Everything else runs without a lock, so an action ends
after the allocation of a page with the page table it needs, and the steps of growing,
copying and sharing processes interleave between any two of them. `pool` is
`shared_addrs`, and `setup` the flag some students have instead of looking at the first
address; `holder` is the spinlock of those who have one.

A page directory entry covers `PerTable` pages, and the region of shared pages has one of
its own. Sizes are in half pages, because `allocuvm`, `deallocuvm` and `copyuvm` round
them, each in its way. The model stops at a `panic`, or when `freevm()` of a process that
had the region frees frames that others still map (`spoiled`: liuz, vrgooty and others, as
their freevm does not know of shared pages), and nothing is claimed after that, nor of two
processes in the first allocation at once without a lock (`overlap`); the hazards list
both. Exceptions by name are in the comments of the properties: willghatch's call maps a
region twice and ignores failures of `mappages()`, alanhumphrey does not test `kalloc()`,
anmol_vatsa and pdarragh allocate fresh pages at every call, klacansky's `fork` copies the region,
`copyuvm` loses the page it has copied but cannot map, and alex-steele's and anthonyw's
`fork` test an unsigned result for `< 0` and may leave the child without the region.

`sbrk()` by minus the whole size is the one call of a program that neither succeeds nor is
undone: `deallocuvm` frees every page and returns the new size, 0, which `growproc` takes
for a failure, so that -1 is returned and `sz` stays (`ShrinkFail`). Such a process is
"emptied": it has none of its pages, which `WholeSpaces` says of it by name, and the next
instruction it fetches faults, so that it exits. Memory is not lost in this way
(`FrameOnce`, `NoLeak` hold), and `wait()` finds what is left of it.

### MessageRing

The ring is cells; a message is a header of `WORD` cells and one cell per byte, and each
cell says which message it belongs to and which of its cells it is. `nread` and `nwrite`
are unsigned and wrap at `WRAP`. `put.at` and `get.at` say where the producer and the
consumer are: a call loads both counters and decides in one action (each process changes
only one of them, so that one load is what matters), then the header, the bytes up to the
end of the data, the rest, and the store of the counter are actions of their own.

Variants differ in how they compute the room (five ways), in what looks empty, in rounding
the counters or the length to whole ints, in offsets that wrap at the end or counters that
run on, and in mapping the data twice in a row. `cause` names what first went wrong
("overfull", "jump", "fault", "phantom", "reset") and stops the run, and the properties say
for each cause which kinds of ring are prone to it, and exactly when. So a ring that is
not named keeps its promise, and one that is breaks it only in the way stated.

Left out: messages of no bytes; `buf_setup` is one step; two producers or two consumers.
liuz's and vrgooty's rings do not compile as written (misspelt names) and are modelled as
they plainly mean.

### Uthreads

`state`, `tid`, `stack` and `esp` are the fields of `thread_pool`, `curr` is
`curr_tid_idx`. There is one processor, and a call runs until it switches or returns, so
each call is one action; a switch ends in the thread that runs next. `esp` is "null" for a
thread that is to start in `run_thread` and "saved" otherwise; `begun` is a history: the
thread in a slot has been on the processor. `thread_init` may be called again, as each
test of `thread_test.c` does, by the first thread of the process.

The code promises less than its comments. The search of `thread_yield` goes up from the
running thread's slot and does not wrap, except from the last slot: a thread in a lower
slot waits as long as the one above it yields to itself. So `AheadRuns` speaks of threads
above the running one only. For the same reason `thread_exit` may find nobody, come back
from `thread_yield`, and end the process with threads in lower slots still to run
(`LeftBelow`). `thread_join` sleeps once and does not look at its target again: any
exit wakes it, and where nobody above can run it returns at once. Nothing is claimed of it
but that it keeps the pool in order.

Left out: `malloc()` that fails (nobody tests it), what threads do between calls, and
threads that return from their function, which is a `thread_exit`.

## 3. Runs

| Run | Checks | Instance | Result |
|---|---|---|---|
| `pipe` | `TypeOK`, `MutualExclusion`, `NoLostWakeup`, `NoUseAfterFree`, `WriterOrder`, `EndOfFileIsFinal`, `IsByteStream`, `Served`, `CloseReleases` | 3 processes (one with both ends), ring of 2, counters modulo 4, calls of 1 and 3 bytes, 5 bytes, 2 reads; policies with a ring size that is a power of two | 229 844 states, holds |
| `pipe_killed_writer` | `NoLostWakeup` when a writer may be killed | same | violated |
| `pipe_unaligned` | `IsByteStream` for ring sizes that do not divide the counter range | ring of 3, counters modulo 8 | violated |
| `ready_queue` | `WellLinked`, `IsFifo` | 4 processes, all 13 queues | 2 955 states, holds |
| `sched` | `TypeOK`, `QueueExact`, `OneCpuEach`, `NoMissedExit`, `Family`, `KilledLeavesWait`, no deadlock | 4 slots, 2 CPUs (symmetric), pids up to 4, every kernel but grubb's of assignment 2 and the one that halts | 3 233 726 states, holds |
| `sched_live` | `ReadyIsFairFifo`, `OrphansReaped`, `KilledExits`, no deadlock | 3 slots, 1 CPU, pids up to 3 | 22 686 states, holds |
| `sched_stale_kill` | `BornAlive` | 3 slots, 2 CPUs, pids up to 4 | violated |
| `sched_kill_leak` | `ReadyIsFairFifo` for the `kill()` that keeps the lock | 2 slots, 2 CPUs | violated |
| `mutex` | `Exclusion`, `NoSleepOnFree`, `NoSpinDeadlock`, `HeldExists` | 3 processes (symmetric), 1 mutex, all 12 versions | 171 260 states, holds |
| `address_space` | `TypeOK`, `FrameOnce`, `NoLeak`, `WholeSpaces`, `OneSharedSet`, `PanicOnlyForMemory`, `ChildInherits` | 2 processes, 14 frames, heap of 3 pages, sizes of 0, 1½ and 3 pages, 2 shared pages, all 13 kernels | 807 423 states, holds |
| `message_ring` | `TypeOK`, `UnreadIntact`, `CopiesStayInside`, `GetsOldest`, `RefusedOnlyWhenFull`, `EmptyOnlyWhenNone` | rings of 6 and 8 cells, ints of 2, messages of 1 to 4, counters modulo 32, all 10 rings | 1 180 818 states, holds |
| `uthreads` | `ResumesRightly`, `LeftBelow`, `AheadRuns` | a pool of 5, one `thread_init` more | 16 539 states, holds |

Bounds, and why they are enough:

* *Pipe*: a ring of 2 with calls of 3 bytes makes every call of the long kind fill the
  ring, sleep and wrap; 5 bytes through counters modulo 4 wrap both counters. Three
  processes give two writers and two readers at once, one of them on both sides.
* *Sched*: four slots are needed for `NoMissedExit`: only when a process with a zombie
  child exits and its own parent is not init must init be woken for the orphan. Pids up to
  4 let one slot be reused when there are three processes. Two CPUs show every
  interleaving of two critical sections; a third would only wait for the lock. The proofs
  of section 4 lift all six invariants to any number of slots and CPUs.
* With one CPU, processes of `sched_live` still interleave at every timer interrupt; two
  CPUs take longer than a run should.
* *ReadyQueue*: four processes put a queue through empty, one, two and more, with stale
  links from any earlier life.
* *Mutex*: one mutex, since calls on two meet only in the table's spinlock, whose order
  with the mutex's own is what matters; three processes give a holder, a sleeper and one
  that creates and destroys. The proofs cover any number of both.
* *AddressSpace*: with 14 frames two processes that both share the pages just fit, so that
  every allocation fails in some behaviour, and every first step of the rollback is taken.
  The heap takes three pages under two page tables. Of the sizes a program may ask for, one
  ends inside a page, one fills the heap and one is 0; the first process starts with a page.
  The proofs lift all seven properties to
  any number of processes, frames and pages.
* *MessageRing*: 6 cells do not divide 32, as 32 768 - 8 bytes do not divide 2^32, and 8
  do; lengths 1 to 4 have multiples of an int and others; counters modulo 32 wrap after
  five laps and pass the sign bit after half of that. The proofs lift all six properties to
  rings, ints, counters and messages of any size.
* *Uthreads*: five slots put threads above, below and at the end of the pool while one in
  the middle runs, joins or exits. `next_tid` allows as many creates as there are slots,
  one more than are free at first, so that a slot is used twice, and with the second
  `thread_init` any of them. The proofs cover pools of every size.

CHECK_DEADLOCK is FALSE for the pipe, where all users may have finished, for the mutexes,
where all may have exited (or spin for each other in the version that can), for the
user-level threads, whose process ends, and for the run that shows the lost lock. In
`sched` the system never stops: init waits, CPUs go round.

### Fairness

* `Pipe`: weak fairness of each process's kernel steps: a runnable process is scheduled.
  Nothing is asked of users. Weak fairness is enough for `SleepReturn` although it waits
  for the lock, because calls are bounded: the lock is free in the end.
* `Sched`: schedulers loop for ever (`Dispatch`, `Release`), a processor about to halt
  does, and the timer interrupts a halted one; a process back from `swtch()` goes on. What
  waits for `ptable.lock` gets it if it comes free again and again (strong fairness):
  spinlocks are not queues, but a CPU that spins is not passed over for ever. The timer
  interrupts for ever, and leaves a process time for a step between two interrupts. The
  only user that owes anything is init, which calls `wait()` in a loop.
* `Uthreads`: weak fairness of `thread_yield`: threads cooperate, and one that does nothing
  else yields again and again, as those of `thread_test.c` do.
* The other modules are checked for safety only: what makes a mutex's waiter progress is
  that its holder releases it, which no code promises, and `buf_get` returns -1 instead of
  waiting.

### What the violations show

* `pipe_killed_writer`: `pipewrite` wakes readers when it is about to sleep or returns n,
  not when it returns -1 because it was killed. Bytes it had already written stay in the
  ring beside a sleeping reader until the last writer closes.
* `pipe_unaligned`: three students chose ring sizes (3516, 4020, 4028) that fill the page.
  `nwrite % PIPESIZE` is not continuous when the `uint` wraps.
* `sched_stale_kill`: `kill()` compares pids in all slots, and a slot that is UNUSED has
  pid 0, or after a failed fork the pid it was given. `allocproc` does not clear `killed`.
* `sched_kill_leak`: one student's `kill()` releases `ptable.lock` only if the victim was
  asleep.

## 4. Proofs

All theorems hold for every value of the constants that the assumptions of the module
allow: any number of processes, slots, processors, mutexes, threads, page frames and pages,
any ring size, any counter width above it.

| Theorem | States | Rests on |
|---|---|---|
| `Pipe_proofs!TypeCorrect` | `Spec => []TypeOK` | inductive: `TypeOK` with "the counters are never further apart than the ring" and "`i <= n`": without the first the count of a block could be negative, without the second the loop could run past the buffer |
| `Pipe_proofs!MutualExclusionHolds` | `Spec => []MutualExclusion` | inductive as it stands, given the types of `pc` and `lock` |
| `Pipe_proofs!NoUseAfterFreeHolds` | `Spec => []NoUseAfterFree` | strengthened with: `readopen` iff `rfds` is not empty, `writeopen` iff `wfds` is not, `freed` iff neither, and a process inside the pipe still holds its descriptor |
| `Pipe_proofs!NoLostWakeupHolds` | `Spec => []NoLostWakeup`, if no writer can be killed | strengthened with what holds while the lock is taken: a sleeping reader's condition may be false only while the process that made it so is still on its way to a wakeup |
| `Pipe_proofs!EndOfFileIsFinalHolds` | `Spec => EndOfFileIsFinal`, if the ring size divides the counter range | `Carries`: as many bytes are sent as are read and in the ring, the bytes read are the first of those sent, and the others stand in the ring from `nread` on |
| `Pipe_proofs!IsByteStreamHolds` | `Spec => IsByteStream`: the pipe implements `ByteStream`, if the ring size divides the counter range | `Carries`; a block copied in is a `Send`, one copied out a `Receive`, the closes map to themselves, the rest stutters |
| `Pipe_proofs!WriterOrderHolds` | `Spec => []WriterOrder` | inductive with the types alone: a block extends `sent` by the writer's next bytes |
| `ReadyQueue_proofs!WellLinkedHolds` | `Spec => []WellLinked` | strengthened with "nobody is in the queue twice": from the links alone this would need induction along the list |
| `ReadyQueue_proofs!QueueIsFifo` | `Spec => IsFifo` | the same invariant; a put is `Join`, a get is `Leave`, anything else a stutter |
| `Sched_proofs!TypeCorrect`, `OneCpuEachHolds`, `QueueExactHolds`, `NoMissedExitHolds`, `FamilyHolds`, `KilledLeavesWaitHolds` | the six invariants of run `sched` | one inductive invariant, `IInv`, see below |
| `Sched_proofs!ReadyIsFifo` | `Spec => Queue!FifoSpec`: the queue of the process table implements `Fifo` | `IInv`; every call that makes processes RUNNABLE is a `Join` or adds nobody, `Dispatch` is a `Leave`, the rest stutters |
| `Mutex_proofs!TypeCorrect`, `ExclusionHolds`, `HeldExistsHolds`, `NoSleepOnFreeHolds` | the types, and invariants of run `mutex` | inductive: with "unless abused, who has a mutex is whom its flag names" and two facts about the versions (`LooksAgain`, `NeverAbused`) |
| `Mutex_proofs!NoSpinDeadlockHolds` | `Spec => []NoSpinDeadlock` | `LocksInOrder`: a process that still has a spinlock to take holds none, or the first of two; or it is back from a sleep in a kernel that takes them backwards then |
| `AddressSpace_proofs!TypeCorrect`, `WholeSpacesHolds`, `ChildInheritsHolds` | the types, that no call leaves a space half made, that a child gets its parent's region | one inductive invariant, `SpaceInv`: the child of a `fork()` is nobody else's; loop counters are inside their loops; which pages a space has at each point of each call (none, once `growproc()` to size 0 has failed), the region of shared pages being all there or not at all |
| `PageFrames_proofs!OneSharedSetHolds`, `PanicOnlyForMemoryHolds` | all processes share one set of pages; the kernel panics only for lack of memory | `SpaceInv` with `PoolInv` (who allocates the shared pages is alone with them, they are there from then on, and nobody has mapped any before) and `FreshInv` (pages allocated afresh at each call belong to one call, then to one process) |
| `PageFrames_proofs!FrameOnceHolds`, `NoLeakHolds` | a frame has one use; none is lost | the former with `FrameInv`: the places of all processes that hold a frame of their own, the free list, the shared pages and the frames a named fault has lost divide the frames among them, so that each step moves a frame from one part to another |
| `MessageRing_proofs!RingInvariant`, `TypeCorrect`, `UnreadIntactHolds`, `CopiesStayInsideHolds`, `GetsOldestHolds`, `RefusedOnlyWhenFullHolds`, `EmptyOnlyWhenNoneHolds` | the inductive invariant `RingInv`, and the six invariants of run `message_ring` | `RingInv`, see below, and lemmas on each kind of ring: what its test of the room and its test for empty say of the distance from `nread` to `nwrite` |
| `Uthreads_proofs!ResumesRightlyHolds`, `LeftBelowHolds`, `OneRunningHolds`, `TidsDifferHolds`, `TypeCorrect` | in that order: the two invariants of run `uthreads`; the thread at `curr_tid_idx` and no other is RUNNING; tids name threads; the types | inductive together, with "who runs has begun" (a switch saves the stack pointer of one that has) and "tids in use are below `next_tid`"; one lemma, `SwitchStep`, serves all three calls that switch |

`IInv` of `Sched_proofs`, and why each part is needed: `LockPlace` (the lock is with a
process on a CPU, or with an idle scheduler), without which `Dispatch` could take a CPU
that has a process; `Stages`, which ties the stretch of code a process is in to its state,
so that a slot that is reused has nobody in it; `Embryos`, that the child of a `fork()` in
progress is an EMBRYO of that `fork()` only, since `fork()` goes on without the lock;
`InitStays`, that init is alive once anything runs, since orphans are given to it;
`Parents`, that a free slot has no parent and nobody is its own; and `Waiters`, which is
`NoMissedExit` whoever holds the lock, with the channel the sleeper is on: `exit()` looks
for a sleeper there. `QueueExact` rests on `TypeOK` alone but for `exit()`, which adds two
sets of sleepers, and these must not meet.

`RingInv` of `MessageRing_proofs` says, as long as nothing named has gone wrong, how the
two calls stand to each other. `Rows`: the unread messages lie in a row, at offsets from
the oldest that add up the cells and the gaps between them and end within the size, each
`w` is what its predecessor left, and the counters stand at the two ends; `Even` adds
that all of this is at multiples of an int until a length was not. `Fits`: the message of
a `buf_put` in progress comes next in the row and still fits, which is what the room
computed from a load of `nread` was for: the reader can only have made more. `Intact`:
the cells of the row hold its messages, and those of the message being put as far as
`put.at` says they have been copied. `Found`: what a `buf_get` in progress has read is the
oldest message, or the ring is one of those that the rounding of the reader has misled.
`UnreadIntact` alone is not inductive, because a copy of `buf_put` must be known to miss the
row, and a length read by `buf_get` to be that of its first message. The heart of it is one
lemma, `Reach`: two cells of a row are at the same place of `data[]` only if they are the
same cell of the same message. Where counters run on to 2^32, `WrapUnseen` carries that over
the wrap if the size divides the range; where it does not, `Jumps` stops the run before.

What the proofs assume. `Pipe`'s `NoLostWakeupHolds` says that no writer can be killed,
and it is needed: `pipe_killed_writer` is the counterexample otherwise; so is
`pipe_unaligned` for the two theorems that need the ring size to divide the counter range. `ReadyQueue`'s
theorems cover every record of `QueueVariant` that clears a process's link between two
stays in the queue, not only the thirteen in `QueueVariants`; `Sched`'s cover every record
of `Variant`. `Mutex`'s rest on `ClearingAssumption` (where create clears the holder, the
other calls check what willghatch's check, otherwise create could free a mutex that
somebody has) and `OrderAssumption` (each version takes the two kinds of
spinlocks in one order, but that anthonyw's acquire may have them backwards after a sleep); both are assumptions of the module, and TLC evaluates them for
the twelve versions. `AddressSpace`'s rest on `KernelAssumption`, which says what goes
together in every student's `vm.c` (it is evaluated for the thirteen, and allows 2720
records, all of which the theorems cover), and on `BootAssumption`: memory for the first
process. `MessageRing`'s rest on `RingAssumption`: lengths are positive ints, the ring with
two headers beside it is at most half the counters' range and whole ints long, and what goes
together in every student's ring (who rounds the counters computes the room from the
rounded ones, who rounds the lengths has a size that divides 2^32, offsets are compared for
equality, who erases headers does not round the counters). TLC evaluates it for the ten.

Only model-checked: liveness, which the prover cannot do (`Served`, `CloseReleases`,
`ReadyIsFairFifo` as far as it is more than `ReadyIsFifo`, `OrphansReaped`, `KilledExits`,
`AheadRuns`).

## 5. Plan

1. *Done*: `Pipe`, `Sched` with Control-C and idle processors, `ReadyQueue`, `Mutex`,
   `AddressSpace`, `MessageRing`, `Uthreads`, their variants and runs; proofs of every
   safety property the passing runs check.
2. An abstract specification of a bounded queue of messages, and `MessageRing` shown to
   implement it as long as `cause` is "", from `RingInv`.
3. fresco's pipe and willghatch's sleep queue, which need actions of their own; the line
   buffer of the console.

## 6. Not modelled

* Paging hardware, open files, traps, interrupt controllers: not in the repository, or
  sequential. `AddressSpace` leaves out `exec`, `loaduvm`, `copyout`, segments, the
  contents of pages, the private pages of mmcc's `buf_setup`, and a heap so large that it
  reaches the region of shared pages. A process without pages faults at once in the model;
  `growproc()` has not called `switchuvm()` then, so that a real processor may serve it
  from the TLB for some instructions more.
* `exit()` may sleep in the file system before it takes `ptable.lock`; the model shows
  that stretch as one interruptible state ("exiting").
* The count of ticks in `sys_sleep`: the model lets time be up at any tick.
* `nextpid` overflow: bounded by `MaxPid`.
* pdarragh's `dequeue` of assignment 2 follows a null pointer as soon as one process is
  left; willghatch's `kill` of assignment 2 makes a sleeper RUNNABLE without moving it from
  the sleep queue to the ready queue, and the next `wakeup` panics. Neither kernel gets far
  enough for the properties of `Sched`; willghatch's ready queue alone is in `ReadyQueue`.
* Control-C: bpradeepk's `makeKillable()`, which kills what was dispatched last and so may
  kill init and panic; the buffer of `consoleread` and `consoleintr`. A child that
  `fork()` has allocated but given no parent yet escapes Control-C in the model as in the
  code; no property promises otherwise.
* Mutexes: pdarragh's release sets the flag it should clear; drushton's lock returns with
  the table's spinlock held; mmcc's is a stub and klacansky's a pipe that user code reads
  and writes.
* Rings: kincaid_savoie's get copies the wrong way round, pdarragh's works on a private
  copy, mmcc's does not compile and keeps its slots under a lock.
* The failures of `pipealloc` (no file, no page): they leave no pipe, and `Pipe` begins with
  one that has been made. kincaid_savoie's does not test its second `kalloc()`; the pipe
  whose data is at address 0 that comes of it is left out too.
* Pipes of pdarragh and drushton (unfinished), and of fresco, whose writer has a threshold
  for short writes: it computes `freeSpace` once, before the loop that sleeps, so that a
  writer that had to wait never sees the room it was woken for, and the second block of a
  write past the end of the ring is returned to the caller but not added to `nwrite`.
* System call tables, `main.c`, `ulib.c`, test programs and the prose of assignments 3, 5
  and 6.
