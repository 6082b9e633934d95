# TLA+ models of jungle-log

The repository collects a course's work: algorithm exercises, notes, a malloc,
a red-black tree, a web proxy, and a PintOS kernel. Its concurrent core, and
most of its own logic that is hard to test, is the team's kernel,
`pintos/PintOS_team8/pintos-kaist` (paths below are relative to it unless they
start with `/`). This directory models that kernel's scheduler, alarm clock,
locks with priority donation, condition variables, process life cycle and files,
and the three other programs of its authors: the malloc, the red-black tree and
the proxy's cache. TLC checks the models; TLAPS proves the safety properties of
the kernel's and of the proxy's cache.

## 1. Inventory

| part | state | operations | what makes it correct |
|---|---|---|---|
| threads and scheduler, `threads/thread.c` | `status`, `priority`, `wakeup_ticks` of each thread, `ready_list`, `destruction_req`, the current thread, `thread_ticks` | create, block, unblock, yield, exit, set priority, `schedule`, `idle`, `thread_tick` | lists and statuses agree; the CPU goes to a highest-priority thread; dead threads never run; nobody starves |
| alarm clock, `devices/timer.c`, `thread_sleep`, `thread_awake` | `ticks`, `sleep_list`, `awake_closest_tick` | sleep, timer interrupt | woken at the first tick due, never before, never lost |
| semaphores and locks, `threads/synch.c` | value, waiters, holder; `base_priority`, `wait_on_lock`, `donations` of each thread | down, up, acquire, try-acquire, release, `recal_priority` | exclusion; no lost wakeup; donations follow the locks and end with them (they do not always: section 3) |
| condition variables, `threads/synch.c` | list of waiters' semaphores | wait, signal, broadcast | every signal wakes one waiter, the highest of those asleep; none is lost |
| process life cycle, `userprog/process.c`, `syscall.c`, `exception.c`, `threads/init.c` | `child_list`, `parent`, `waited`, `exit_status`, `sema_fork`, `sema_wait`, `sema_exit` | create initd, fork, exec, wait, exit, kill | fork and wait return, with the right value, once; a structure is freed after its last reader |
| file system calls, `userprog/syscall.c`, `filesys/` | `filelock`, descriptor tables, open inodes, open and deny-write counts, free map | create, remove, open, close, read, write, seek, tell; load | counts match references; no sector is used twice or lost; a program that runs is not written |
| page and block allocators, `threads/palloc.c`, `malloc.c` | bitmaps, descriptors, arenas | get, free | no page given twice |
| interrupt queue, `devices/intq.c` | ring buffer, one waiter per side | put, get | bytes in order, nobody sleeps for ever |
| kernel list, `lib/kernel/list.c` | linked elements | insert, remove, sort | behaves as a sequence |
| malloc lab, `/malloc/malloc-lab/mm.c` | heap words, free list | malloc, free, realloc | blocks tile the heap; the list holds the free ones |
| red-black tree, `/rbtree/rbtree_lab/src/rbtree.c` | tree | insert, erase, find | red-black invariants; contents as a multiset |
| web proxy, `/webproxy/webproxy-lab` | LRU cache under a read-write lock (`proxy-jaewoong.c`) | find, insert | the list stays one, sizes add up, LRU order |
| skeletons, drivers, other trees | `fat.c`, `page_cache.c`, `vm/`: TODO stubs; `devices/`: port I/O; `/pintos/PintOS`: an earlier personal version; the rest: exercises and vendored code | | not modelled |

How the parts interact: everything blocks through `thread_block()` and wakes
through `thread_unblock()`; locks are binary semaphores with a holder; the timer
interrupt calls `thread_tick()` and `thread_awake()` in the middle of whatever
runs; `process.c` builds its handshakes from three semaphores in the child's
`struct thread`, a page freed by the first switch after the child's last one;
system calls serialise file access with `filelock`, which `load()`,
`__do_fork()` and the page fault handler do not use. The malloc, the tree and the
proxy are programs of their own: the malloc asks `memlib.c` for memory and is
driven by `mdriver.c`; the proxy runs one thread for each connection, and the
threads share the cache.

What is hard: there is one CPU, but the timer can take it away anywhere
interrupts are on, and much of this code reads shared state with interrupts on
and uses it afterwards (`preempt_priority`, `lock_acquire`, `recal_priority`,
`timer_sleep`, `thread_create`); priorities change under sorted lists;
handshakes cross in every order; error paths end in the same blocking calls;
`load()` and the end of an exit share the inode table with system calls that
take a lock they do not take. In the sequential programs it is the length of a
call sequence that tests do not reach: which neighbours of a block are free,
which shapes a tree takes.

The `hazards` of `PROJECT.json` list each place with its line.

## 2. Modules

| module | models | kind |
|---|---|---|
| `Threads` | the thread structures, ready list and context switch shared by the kernel modules; no specification of its own | definitions |
| `Scheduler` (extends `Threads`) | scheduler and alarm clock, kernel without USERPROG | specification |
| `Donation` (extends `Threads`) | locks with priority donation | specification |
| `Monitor` | what a lock and its condition variables promise | abstract specification |
| `Condition` (implements `Monitor`) | condition variables | specification |
| `WaitProtocol` | what fork, exit and wait promise | abstract specification |
| `Process` (implements `WaitProtocol`) | fork, wait, exit, kill and boot | specification |
| `Files` | file system calls, `load`, open inodes, free map | specification |
| `Malloc` | the malloc lab's allocator on a heap of words | specification |
| `LRUCache` | what a cache of web objects promises | abstract specification |
| `ProxyCache` (implements `LRUCache`) | the proxy's cache and its threads | specification |
| `RedBlackTree` | the red-black tree and its fix-up loops | specification |
| `MC...` | symmetry sets, views and constants of the model-checked instances | model checking |
| `Lists_proofs` | lemmas on ordered insertion, removal at the front and stable sorting of lists of any length | proofs |
| `Threads_proofs` | lemmas on the ready list, `Schedule`, yield and preemption | proofs |
| `Scheduler_proofs`, `Donation_proofs`, `Condition_proofs`, `Process_proofs`, `Files_proofs`, `Programs_proofs` (`ProxyCache` and `Malloc`) | the theorems | proofs |

### Threads

The variables are the fields and statics they are named after. `status[t]` is
`"FREE"` when the page holds no thread. `Schedule(st, st_of, rl, freed)` is
`schedule()` as its callers reach it: statuses and list at the call are
parameters, because callers change them in the same stretch with interrupts
off. `do_schedule` frees `destruction_req` first, `thread_block` does not.
`YieldFrom` keeps the idle thread off the list. The list is kept sorted by
`cmp_priority`, ties broken by `wakeup_ticks` exactly as in the code.

### Scheduler

`pc[t]` is where a thread is in the kernel; `"run"` stands for any code outside
the functions modelled. A stretch with interrupts off is one step. The timer
interrupt is four actions under `irq` (`TimerInterrupt`, `AwakeFront`,
`AwakeDone`, `InterruptReturn`) so that every turn of `thread_awake()`'s loop
is visible; no thread runs until it has returned.

* `thread_create` / `CreateYield`: what comes before the child is ready, the wait
  for `tid_lock` and the parent's `child_list`, is left out. Between the two
  actions the child may run and die; the
  creator then reads a freed page. `palloc` fills freed pages with `0xcc`, so
  the read finds a negative priority. A creation that fails for lack of memory
  changes nothing and is a stuttering step.
* `timer_sleep` / `thread_sleep`: the clock is read with interrupts on.
* `PreemptTest` / `PreemptFront` / `PreemptYield`: `preempt_priority()` called
  with interrupts on. `"panic"` is the failed assertion of `list_front()`.
* `idle`: the loop of the idle thread, `"hlt"` until the next interrupt.

The clock saturates at `MaxTick`. No thread asks to sleep beyond it, and the code
compares the clock only with wake-up ticks, so a saturated clock answers
every comparison as the unbounded one.

### Donation

`sema_down` (one turn of its loop) and `sema_up` run with interrupts off: one
step each. All else in `lock_acquire`, `lock_release` and `recal_priority` runs
with interrupts on, one step per access to what others change, and the CPU may be
taken away between any two:

* the test of the holder (`lock_acquire`), the store of `wait_on_lock`
  (`Donate`), the second read of the holder (`Join`), the insertion into the
  donations of the thread that was read (`Link`);
* a turn of the chain: its test (`ChainTurn`, or `ChainEnd`), `wait_on_lock`
  again (`ReadLock`), its holder (`ReadHolder`), the two priorities (`Peek`,
  `Compare`), the donor's priority (`Give`) and the store (`Put`);
* the semaphore (`Down`), the stores of the holder and of `wait_on_lock` (`Got`,
  `Held`), `preempt_priority()`;
* in a release the store of the holder, the sweep (`Undonate`), the maximum
  (`Recal`), its store (`Store`) and `sema_up` (`Up`).

What a step has read the next one uses, however stale: `new_holder`, `hop` and
`max_p` are the locals and registers in between. `Tick` is the timer interrupt.
`"fault"` is a null pointer followed, or a donor inserted into a list while it is
still in another's, whose links are then tied together: the model ends there.

Abstractions: a donations list is a set, since the code's results do not depend
on its order; one insertion into it, the sweep, and the loop of `recal_priority`
are a single step each (the code does them with interrupts on, see the hazards);
`cnt <= 8` (nine turns) is the constant `DonationDepth`; threads neither start
nor end here. Calls respect the assertions of the code: a thread does not
acquire a lock it holds nor release one it does not hold.

### Condition

One lock and its conditions. The lock is what `Donation` shows one to be: it has
one holder, and anybody who wants it may get it when it is free. A waiter's
semaphore is `value[t]`; who sleeps on it can only be the waiter. Interrupts are
on, so `cond_wait` (joining the list), `WaitRelease` and `WaitDown` are steps of
their own, and so are the sort of a signal (`Sort` in `cond_signal` and
`Broadcast`) and the wake-up (`Raise`). Taking the first off the list and
raising its semaphore are one step, since nobody else reads either in between.
The sort is one step too, as if no priority changed in the middle of it.
`Reprioritize` stands for `thread_set_priority()` and for donations by way of
other locks. Threads have not used the alarm, so ties are FIFO.

### Process

One step per semaphore operation, since interrupts are on everywhere; each
semaphore has one thread that downs it, so its value is its whole state. Which
process moves next is left open: an over-approximation of any scheduler. The
variables `forked` and `returned` record what happened, for the properties, and
guard nothing. `process_exec()` keeps the process what it is (its files are in
`Files`); `load()` of the first program succeeds; an unknown system call is
`exit(0)` because its `thread_exit()` leaves the initial status 0;
`process_exit()` first closes the files, each under `filelock` (`CloseFiles`),
which whoever holds it may keep for ever, and only then tells the parent
(`ExitUp`); process ids are never reused (`allocate_tid` counts up). The page of
a process is kept from creation to `"dead"`, which is when `process_exit()` has
returned from its last semaphore.

`WaitProtocol` has no semaphores: a process asks for a child's status once, is
answered with it when the child has exited and let go of what it held (`Leave`),
and only then may the child be buried. `life` maps the program counters of
`Process` to it.

### Files

The table of open inodes is keyed by sector. A system call runs under `filelock`
and is one step, but for the keyboard's read, which sleeps with the lock, and a
write, which tests the deny-write count (`write`) and then sleeps in the disk
(`Written`). `load()` takes no lock and is split where it sleeps in the disk:
`LoadOpen` (the inode is in the table, not yet read), `LoadRead`, `LoadDone` or
`LoadFails`. `UseUnread` is the use of an inode in between: what is read there is
garbage, which may pass for an inode, or be no sector of the disk and stop the
kernel (`select_sector`, disk.c:411). `fork` copies the descriptors, and
`ExitRunning` closes the executable, without the lock.

What these do to the table takes several steps in the code: `inode_open()` may
even sleep, in `malloc()`, between its search and its insertion (inode.c:108-123),
and counts are changed by loads and stores. `Overlap` is when such an operation
without the lock meets another one, with the lock or without: the table may have
two structures for a sector from then on, or a count be lost. The model ends
there (`panicked` is `"race"`), so the properties of counts, free map and
writers say what holds until it first happens, and nothing of what follows.
Between two operations everything may interleave: a load, its reads and its
denial are steps apart.

What the code does and the model therefore has: a process that dies of a page
fault with the lock leaves it `Lost`, and panics in `lock_acquire()` if it
has a descriptor to close; `open()` with a full table stops the kernel; a `create`
with a name that is taken loses the data's sectors (`lost`); a failed load, and
a second exec, leave a file open that nobody can close (`leaked`, at most
`MaxLeaks`). `image` and `spoiled` record, for a property, into whose program a
writer has been let since it was loaded; one who was let in before may go on
writing. Left out: contents and positions of files, the inodes of the root
directory and of the free map, its limit of 16 entries, failing allocations of
memory.

### Malloc

The heap is a function from word addresses to words: headers and footers
(`PACK`), the two links of a free block, payload. The driver's side (`Malloc`,
`Realloc`, `Free`, `NextTrace`) plays any trace with the ids `Ids`, fills every
block and remembers with what, and starts the next trace on a heap that was
reset, whether the last one has freed all it allocated or not. `mm_init` starts
from what the last trace has left in `free_listp`, as the code does: nothing, or
the first block alone (`Startable`), and the heap it makes is a good one. From
any other list it links its first blocks to what is none any more, or writes
outside the heap: `stale` is set and the model ends. `Chunk` is the extension
(the code's 4096 bytes), `MaxHeap` the end of memory, where `mem_sbrk` fails.

### ProxyCache

What runs under the lock is one step; a thread that found its object under the
read lock gives it up before it takes the write lock (`Request`, `Upgrade`), and
one that did not talks to a server in between (`Fetch`, `Insert`). Every
operation on the list sets the same pointers as the code. `Entries` reads the
list from the head and is the cache of `LRUCache`, whose clients are the
threads: one that is served from the cache leaves its object the most recent
(`Use`), and can be done in no other way unless the object has gone meanwhile
(`Gone`). `BlockCount` bounds the structures that exist at a time, where the
code has what `malloc()` gives. The code does not promise that an object is
cached once: two that miss it both insert it.

### RedBlackTree

The nodes' fields and the shared sentinel, whose parent the erasure uses. An
insertion or an erasure is one step that links or unlinks the node, and then one
step for each turn of the repairing loop. The mirrored halves of the loops are
written once, for a side. `Next` erases nodes with a missing child only;
`EraseSpec` adds `EraseInner`, the erasure of the others, which breaks the tree
(below).

## 3. What TLC checks

| run | instance | shows |
|---|---|---|
| `scheduler` | 3 threads, priorities 1-2, slice of 2 ticks, sleeps of 1 or 2 ticks, clock to 2, priority changes of the main thread, with fairness; 169,264 states | `TypeOK`, `ElemInOneList`, `ReadyOrdered`, `NoDueSleeper`; `RunsHighest`, `SleepersWake`, `FirstInLineRuns` |
| `donation` | 3 threads, 2 locks, priorities 1-2, slice of 1 tick, chains of 2; 3 slices ended by the timer, 1 change of priority; 1,168,338 states | `TypeOK`, `MutualExclusion`, `NoLostWakeup`, `ElemInOneList` |
| `condition` | 4 threads, 2 conditions, priorities 1-3; 57,342 states | `TypeOK`; `SignalWakesHighest`, `ImplementsMonitor` |
| `process` | main and 3 processes, exit statuses -1 and 0, with fairness; 73,687 states | `TypeOK`, `ReapedChildIsZombie`, `StatusReturnedOnce`, `FailedForkIsReaped`; `ImplementsWait`, `ImplementsFairWait`, `ForkReturns` |
| `files` | 2 processes, 2 names, 2 descriptors each, 4 sectors, files of one data sector, 1 leak; 993,994 states | `TypeOK`, `CountsMatch`, `FreeMapExact`, `WritersShutOut` |
| `malloc` | 3 blocks at a time, requests of 0, 1, 3, 6 and 9 words, heap of 28 words; 20,793 states | `MallocTypeOK`, `Tiled`, `Coalesced`, `ListsTheFree`, `LiveIntact`, `BalancedResets` |
| `proxy_cache` | 3 connections, 2 objects of 0 to 4 units, objects to 2 and cache to 3, 4 blocks; 182,807 states | `TypeOK`, `LinksAgree`; `ImplementsLRU` |
| `rbtree` | 10 nodes, 3 keys, with fairness; 87,401 states | `Linked`, `SearchesAgree`, `Coloured`; `FixupEnds` |

Why the bounds are enough: three threads are a sleeper, a runner and a rival
whose place in the lists matters; two priorities give equal, higher and lower;
sleeps of 1 and 2 reach a tick that has passed before the sleeper is listed, two
sleepers due at once and two due one after the other; a slice of 2 lets
interrupts that preempt and interrupts that do not fall anywhere; any thread may
be created with any priority, again and again, and the main thread (`MCScheduler`)
changes its own. Two locks and three threads give a chain of two
holders, the shortest with a middle; `MCDonation` lets the timer end three
slices, at any points, which is enough to leave each of the three threads inside
its call while another runs, and bounds neither the calls on locks nor the
switches that the code itself makes. Four threads are a signaller and three
waiters, of whom one may have slept, one be falling asleep and one just be
woken. Three processes give a parent, its child and a grandchild, or two
siblings, and orphans at two levels. Two processes that share files are one that
holds a file and one that opens, removes or runs it; four sectors are two files,
so that a sector is used again as soon as it is released. Three blocks are one
and its two neighbours; the requests are smaller than, equal to, and larger than
the least block and the first extension, and 28 words let the heap grow and run
out. Three connections on two objects let a block be evicted and its structure
be used again while a third thread is between its locks; a cache of 3 and
objects of 1 and 2 make room by evicting none, one or two. Ten nodes are enough
for every case of both loops, and for a recolouring that goes up two levels.

The views and symmetries: processes, threads and objects that the specification
does not tell apart are permuted; `Files` does not tell two orders of the same
descriptors apart, `Malloc` ignores words nothing reads, `RedBlackTree` which
structure is which node.

Deadlock checking is off where the system may stop: a kernel that has faulted or
panicked takes no further step (`Scheduler`, `Donation`, `Files`), all threads
may wait for each other's locks with the last slice spent (`Donation`), programs
may all have exited or be waiting (`Process`), and a stale free list ends the
model (`Malloc`).

Each remaining run looks for, and finds, a behaviour that contradicts what the
repository says of itself:

| run | property | what happens |
|---|---|---|
| `acquire_fault` | `AcquireNeverFaults` | the holder releases between the test (synch.c:214) and the use (220, 226) |
| `donation_kept` | `DonationReturned` | a turn of the chain has compared (synch.c:227) when the holder releases the lock and recalculates its priority; the store (229) then gives it the donation, which the release was to take back (synch.c:269) |
| `file_race` | `InodeReadBeforeUse` | an inode that `load()` has put into the table and not yet read is opened by another process, whose `open()` holds the lock that is to prevent that (syscall.c:268) |
| `rbtree_erase` | `EraseKeepsTree` | `/rbtree/rbtree_lab/src/rbtree.c:563`: a successor that is the erased node's child becomes its own child; 554: with a deeper one the repair starts at the wrong node |

More such behaviours are in the models, without a run of their own:

* `cmp_priority` (thread.c:555) breaks ties by `wakeup_ticks`, which is never
  reset: a thread that once slept late stays behind two that share the CPU for
  ever, against "FIFO" (thread.c:543).
* The ready list may empty between the test and `list_front()` in
  `preempt_priority` (thread.c:439-441): an assertion fails.
* An acquirer that arrives before the new owner has stored itself (synch.c:235)
  donates nothing; waiters left by a release donate nothing to the next owner.
* A donor may be linked into the donations of a thread that has swept them
  already (synch.c:220), and a donation that falls between the maximum and the
  store of `recal_priority` is overwritten (synch.c:429).
* The chain compares one thread's priority and stores another's (synch.c:227-229),
  which may lower it.
* `cond_signal` passes over a thread that has released the lock and does not
  sleep yet, whatever its priority (synch.c:393).
* A child that exits with a negative status before its parent looks
  (process.c:222) makes `fork` return a status.
* `kill()` (exception.c:89) sets no exit status: wait returns 0, not -1.
* `process_exit` (process.c:551) waits for a parent that is gone, and before it
  tells its parent (541) for a `filelock` that a reader of the keyboard may keep.
* A clone does not deny writes to the program it runs: it may be written when
  its parent has ended (process.c:742).
* A writer that was let in (inode.c:240) before `load()` denies writes goes on
  writing the program that has been loaded.
* `load()`, `__do_fork()` and the end of `process_exit()` use the table of inodes
  without `filelock`, at the same time as others (`Overlap`).
* `open()` with a full table (syscall.c:292), a page fault with `filelock` held
  (exception.c:149), `create` with a taken name (filesys.c:68): see `Files`.
* `mm_init` starts from the free list of the last trace: behind one that has not
  freed all, the originals of `/malloc/malloc-lab/traces/README:17`, it may link
  blocks that are none (`/malloc/malloc-lab/mm.c:293-302`).
* Two misses of one object cache it twice, and an empty answer is cached
  (`/webproxy/webproxy-lab/proxy-jaewoong.c:251`).

The properties of the passing runs are stated to hold in the presence of these:
`SleepersWake` and `FirstInLineRuns` allow for the panic, `FirstInLineRuns`
speaks of threads that the order of the ready list puts behind nobody,
`FailedForkIsReaped` covers a fork wrongly taken for failed, `ForkReturns` and
`ImplementsFairWait` children that get through closing their files,
`SignalWakesHighest` counts those asleep, `WritersShutOut` processes that have
loaded their program themselves and writers let in later, `FreeMapExact` sets
what `create` loses aside; those of `Files` speak of the time before operations
overlap, those of `Malloc` of the time before a stale list.

Each property is also tested for being able to fail. Operators marked "Mutant
of" in a comment are plausible slips in one operation (an `if` for a `while`, no
`sema_up` on an error path, `list_push_back` for an ordered insertion); they are
used by no specification, and with one put in the place of its operation the
property named in `PROJECT.json` is violated.

Fairness. `Scheduler`: the timer never stops and its handler runs to its end
(`WF(Interrupt)`), the CPU runs the kernel code of the thread it is on
(`WF(Continue(t))`, `WF(idle)`); nothing is assumed of what threads choose to
do. `Process`: every process that has kernel code to execute is run eventually,
but for `CloseFiles`: no fairness says that a process that exits ever gets
`filelock`. That would be unsound for the general kernel, whose ties are not
FIFO, and is justified here because user processes all have `PRI_DEFAULT` and no
system call of theirs sleeps in the alarm clock or changes a priority: all
`wakeup_ticks` are 0, so `cmp_priority` inserts behind equals and the ready list
is a queue: `FirstInLineRuns`. `RedBlackTree`: a loop that can take another turn
takes it; the program is sequential.

## 4. What TLAPS proves

For all values of the constants that satisfy the named assumptions:

* `ThreadsAssumption`, `SchedulerAssumption`: the idle thread is none of
  `Threads`, which are any number; priorities are between `PRI_MIN` (0) and
  `PRI_MAX` (63), as thread.h asks.
* `DonationAssumption`: the threads are finitely many (`recal_priority` takes a
  maximum over some of them), locks and depth are any.
* `ConditionAssumption`, `ProcessAssumption`.
* `FilesAssumption`: processes and sectors are finitely many (the counts are
  cardinalities, and the disk ends), the sectors are numbered from 1, a file has
  at most one sector of data (the model's bound: the code takes and returns all
  of a file's data sectors together), and `NULL` is no structure.
* `ProxyCacheAssumption`: blocks are finitely many, any number of them; sizes are
  numbers; what may be cached fits the cache (MAX_OBJECT_SIZE is below
  MAX_CACHE_SIZE in the code); `NoUri` is no uri.
* `MallocAssumption`: an extension is at least a smallest block, and the first one
  fits the memory (4096 bytes and 20 MB in the code); requests are any numbers
  of words, ids any numbers from 1.

| theorem | property | argument |
|---|---|---|
| `Scheduler_proofs!TypeCorrect` | `TypeOK` | the inductive invariant is `TypeOK`, `ElemInOneList` and `IdleInv`, which says that the idle thread is at the top of its loop or halted: without it the idle thread could be queued by a call it never makes, and the lists would hold more than `Threads` |
| `Scheduler_proofs!OneListOnly` | `ElemInOneList` | the same invariant; insertion and removal at the front keep a list injective, and change its range by one |
| `Scheduler_proofs!QueueOrdered` | `ReadyOrdered` | insertion of the lemma `InsertMinOrdered`, under the same invariant; a change of priority reaches only the running thread or one just created, which are on no list |
| `Scheduler_proofs!HighestRuns` | `RunsHighest` | the thread that leaves the front of an ordered list is behind none of the rest; a yield queues the running thread first |
| `Scheduler_proofs!SleepersAwoken` | `NoDueSleeper` | `AlarmInv`: the sleep list is in order of wake-up ticks, and outside the handler's loop `awake_closest_tick` is no later than the earliest of them, so a tick at which the handler does not look is one at which nobody is due |
| `Donation_proofs!LocksExclude` | `MutualExclusion` | `OwnerInv`: a lock whose owner is between `sema_down` and the store of the holder has no holder, so the invariant speaks of owners, stored or not: at most one, and none while the value is positive |
| `Donation_proofs!TypeCorrect` | `TypeOK` | every priority stored is one of a thread or a maximum of some, so it stays between `PRI_MIN` and `PRI_MAX`; that the sort of a semaphore's waiters is a permutation keeps the lists lists of threads |
| `Donation_proofs!ElemShared` | `ElemInOneList` | `SleepInv`: nobody dies, and a BLOCKED thread is asleep in the loop of its own `sema_down`; sorting, by `SortPermutes`, neither doubles nor drops a waiter |
| `Donation_proofs!NoWakeupLost` | `NoLostWakeup` | part of `SleepInv`, which with `OwnerInv` (a semaphore is 0 or 1) is inductive: a `sema_up` makes one sleeper runnable, who is at `"wait"` and READY until it takes the semaphore or finds it taken |
| `Condition_proofs!TypeCorrect` | `TypeOK` | the invariant is `TypeOK`, `ListInv` (a semaphore is on one list, once, from `cond_wait` until it is raised, and is 0 there) and `SortedInv`: without `ListInv` a semaphore could be raised twice |
| `Condition_proofs!ImplementsMesaMonitor` | `ImplementsMonitor` | step simulation under that invariant: joining, the sort and the sleep are invisible, the release of the lock in `cond_wait` is the monitor's wait, the rise of a semaphore is its signal |
| `Condition_proofs!SignalsHighest` | `SignalWakesHighest` | `SortedInv`: from the sort to the rise, the front of the list is a thread no sleeper outranked at the sort, by the lemma that a stable sort leaves its list in descending order; those who arrive go behind it |
| `Process_proofs!TypeCorrect` | `TypeOK` | part of the invariant below; that `sema_down` waits keeps the semaphores natural |
| `Process_proofs!ReaperSafe` | `ReapedChildIsZombie` | `TokenInv` and `ReaperInv`: a token in `sema_wait` means the child is behind its `sema_up` and unread; one in `sema_exit`, that its status has been read and it is off every list. Without them a child could die between the parent's wake-up and its reads |
| `Process_proofs!StatusOnce` | `StatusReturnedOnce` | `TokenInv`: one token at most is ever raised, and the read consumes it |
| `Process_proofs!ForkFailureReaped` | `FailedForkIsReaped` | `ForkInv`: a child being forked is on its parent's list and not waited for, so the wait for a failed one is never refused |
| `Process_proofs!ImplementsWaitProtocol` | `ImplementsWait` | step simulation, under the invariant above with `MainInv` (the kernel's thread is nobody's child and never a program) and `AskedInv` (whoever waits for a child has marked it as waited for): the status a parent reads is the protocol's answer because the child is a zombie and unread then, and a burial follows an answer because of the token in `sema_exit` |
| `Files_proofs!TypeCorrect` | `TypeOK` | part of the invariant below; the counts stay positive because they count something |
| `Files_proofs!CountsRight` | `CountsMatch` | the invariant is `TypeOK`, `CountsMatch`, `FileInv`, `WritersShutOut`, `FreeMapExact` and `NameInv`. `FileInv`: a descriptor and the local of `load` never deny writes, the running file does, and a process that is gone has no files. Each step moves at most one file structure in or out of a table, and changes the count of its inode by as much; `fork` does so for every descriptor, one row of the table being added to the sums. `Overlap` ends the model, so the steps before it are whole operations |
| `Files_proofs!FreeMapRight` | `FreeMapExact` | `NameInv`: no sector is both free and lost, and no two names are of one file. Without it a removal could free the sectors of a file that keeps another name |
| `Files_proofs!WritersKeptOut` | `WritersShutOut` | from `CountsMatch` and `FileInv`: the running file of a process keeps the deny-write count of its program's inode above zero, and `write` is turned away there |
| `Programs_proofs!TypeCorrect` | `TypeOK` | part of the invariant below; `total_size` stays natural because it is a sum of sizes on the list |
| `Programs_proofs!LinksCorrect` | `LinksAgree` | the invariant is `TypeOK`, `UriInv` and the existence of a sequence of blocks that the cache `Holds`: head, tail, each `next` and each `prev` are read off it, no block is on it twice, the others are free, `total_size` is the sum along it and within the limit. Each operation on pointers is an operation on the sequence: a hit moves an element to the front, an eviction drops the last, an insertion adds a first. `UriInv`: a thread that will look again or insert still has its uri |
| `Programs_proofs!ImplementsLRUCache` | `ImplementsLRU` | step simulation under that invariant: a request, the second search under the write lock and an insertion are those of `LRUCache`; the first block with the uri (`SearchIs`) is the abstract cache's most recent object of it. The loop of evictions is in closed form (`EvictForIs`): it keeps the longest prefix that leaves room, since the sums of prefixes do not decrease |
| `Programs_proofs!MallocInvariance` | | `MallocInv`, below, is inductive |
| `Programs_proofs!MallocTypeCorrect` | `MallocTypeOK` | part of `MallocInv`; a block begins at an even word because sizes are even and the first one does |
| `Programs_proofs!HeapTiled` | `Tiled` | the walk along the headers meets the blocks of `MallocInv` and no other (`BlocksAre`), and each of them has its size and its state in both tags |
| `Programs_proofs!NeighboursCoalesced` | `Coalesced` | `Separate`, and the walk as before |
| `Programs_proofs!FreeBlocksListed` | `ListsTheFree` | `Links`: each block's place on the list is one more than its predecessor's, so the walk along SUCC cannot come back and ends before it has taken more steps than there are blocks (a pigeon-hole argument) |
| `Programs_proofs!LiveBlocksIntact` | `LiveIntact` | `Held`: what an id wrote is in the payload of its own allocated block, and every operation `Keeps` the payloads of the allocated blocks it is not about |
| `Programs_proofs!BalancedTracesReset` | `BalancedResets` | with no id alive `Held` leaves no allocated block, and `Shape` and `Separate` then one block at most (`OneFree`), which `Chain` puts alone on the list |

Each component has the three steps `Init => IInv`, `IInv /\ [Next]_vars =>
IInv'` (one step per action) and `IInv => Inv`, joined by temporal reasoning.

`MallocInv` is `MallocTypeOK` and the existence of a set of blocks B, a size for
each, and the set U of the allocated ones, with

* `Shape`: each block has its size and its state in both of its tags, begins where
  another one ends or behind the prologue, and ends where another one begins or
  at the epilogue; no two overlap;
* `Separate`: no free block ends where another begins;
* `Chain`: with some order of B \ U, `free_listp` is the first, and the two
  links of each are its neighbours in that order;
* `Held`: ids and U correspond one to one, and what an id wrote is in its block.

None of these is kept without the others: `coalesce` finds its neighbours by
`Shape`, unlinks them by `Chain`, and leaves no free pair only because there was
none (`Separate`); the links it writes are payloads of free blocks, which is why
`Held` survives. Inside an operation the invariant is broken in known places:
two neighbours are free until `coalesce` joins them, a block is free and not
listed until it is inserted. Its lemmas say which place that is (`Separate`
names the block that is exempt), and are about one helper each: `RunShape`,
`SplitShape` and `ExtendShape` for the tags, `InsertLinks` and `RemoveLinks` for
the list, then `coalesce`, `place`, `extend_heap`, the four calls and the
driver. `mm_init` on a heap that was reset starts from the `free_listp` an
earlier trace left, and coalesces its first block twice. From a list that is
`Startable`, as it is behind a trace that has freed all it allocated, the block
is on the list before it is inserted, and still once after (`InitGood`).

What these rest on is stated once. `Lists_proofs`: an ordered insertion, written
as `InsertAt` at a minimum, adds one element and keeps the order (`InsertMin`,
`InsertMinOrdered`); a stable sort, written by the rank of each element, is a
permutation in order of the key (`RanksPermute`, `SortPermutes`). The ranks of n
positions are n different numbers up to n, so none is missed: an argument about
cardinalities. `Threads_proofs`: what `Schedule`, a yield and a preemption do to
lists and statuses. `Files_proofs` has its own: a count changes by one with one
place of a table (`CountChange`), the table of inodes counts its files
(`CountedOpen`, `CountedClose`), and the free map under an open, a close, a
removal and a creation (`FreeMapOpen` and the others). `Programs_proofs` has,
for the proxy, the sizes along a list, written as a fold in `LRUCache`, as sums
of prefixes (`TotalIsSum`, `TotalMoved`), and what reading a list along its
pointers finds (`ListIs`, `SearchIs`, `EntriesAre`). Where these count along a
list, the step from one length to the next is a lemma of its own and the rest is
that a set of numbers has a least element (`SameSteps`, `Counting`): no rule of
induction with an operator for a parameter is used.

Model-checked only: everything under fairness (`SleepersWake`,
`FirstInLineRuns`, `ForkReturns`, `ImplementsFairWait`, `FixupEnds`), which the
prover does not reach; and `RedBlackTree`, whose properties are recursive along
the depth of a tree. The four behaviours of the code that contradict its
documentation are counterexamples, found by TLC.

## 5. Not modelled, and the plan

Next, in this order:

1. `Intq`: the interrupt queue between the keyboard and the readers.
2. `List`: the kernel's linked list as a refinement of a sequence, with the
   interrupts that fall into the middle of an insertion (synch.c:220).
3. `Inodes`: the table of open inodes at the grain of its searches, insertions and
   counts, with what follows once two operations overlap.
4. Proofs: `RedBlackTree`, once its properties are stated without recursion: the
   order of the keys along the paths, by a set of nodes below each node.

Left out for good: drivers and boot (hardware), the stubs of later projects
(`fat.c`, `page_cache.c`, `vm/`), formatting and parsing, the course's unchanged
support library (`palloc.c`, `malloc.c`, bitmaps, hash tables), other PintOS
trees, exercises and vendored code.
