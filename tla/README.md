# Verification of the operating systems exercises

The repository holds the solutions of an operating systems course: some thirty
small C programs that have in common what makes such programs hard, threads and
processes that share memory, locks, condition variables, semaphores, signals,
pipes, allocators and a scheduler. This directory models the programs with an
inner logic of their own in TLA+, checks the models with TLC on small
instances, and proves eight of them correct for every instance with TLAPS.

Every definition is a translation of the source named in `PROJECT.json`
("map", definition by definition). Source names are kept where TLA+ allows it.

- [Inventory](#inventory)
- [Modules](#modules)
- [Runs: what is checked](#runs-what-is-checked)
- [Fairness](#fairness)
- [Theorems: what is proved](#theorems-what-is-proved)
- [Where the code departs from its documents](#where-the-code-departs-from-its-documents)
- [What is not modelled](#what-is-not-modelled)
- [Plan](#plan)

## Inventory

The exercises are independent programs. Inside one they interact by calls and
shared state; between them only the allocators (libraries) and the membench
programs (their clients, through `dlopen`) meet.

| component | state | operations | what is hard | what makes it correct |
|---|---|---|---|---|
| dining philosophers, `exercise06/task3/philosophers.c` | one mutex per chopstick, a loop counter per thread | lock and unlock left and right, create, join, destroy | order of the two locks, wrap-around of the table | exclusion, no circular wait, all meals eaten, mutexes destroyed after use |
| integer queue, `exercise06/task2/myqueue.h`, `exercise07/myqueue.h` | a STAILQ of integers | init, is_empty, push, pop (asserts not empty) | not thread safe by itself | first in, first out |
| work queue with condition variable, `exercise07/task2/task2.c` | queue, mutex, condition variable, sums | push and signal, wait and pop, join and add | lost and spurious wakeups, a value taken by a faster thread, termination by zeroes | every one counted once, no lost wakeup, main reports |
| work queue with polling, `exercise06/task2/task2.c` (mutex), `exercise07/task1/task1.c` (spinlock) | queue, lock, sums | as above, without waiting | test and pop in one critical section, an unfair lock | as above, once main has had the lock |
| best fit allocator, `exercise09/task2_3/task2_3.c` | block list inside the pool, a mutex or one pool per thread | init, my_malloc (scan, split), my_free (find, merge), teardown | headers in the memory they manage, unsigned arithmetic, early return under the mutex | list tiles the pool, complete merging, best fit, disjoint blocks, nothing leaks |
| its benchmark, `exercise09/common/membench.c` | threads | N times malloc and free | out of memory aborts the process | ends in order |
| scheduling simulator, `exercise08/scheduling_sim.c` | ready array, time step, remaining times, recorded schedule | one time step; one call per scheduler on the same records | arrivals against re-appended processes, deletion while iterating, state left in the records | exactly the ready processes are offered; served to the end if nobody comes after an idle gap |
| schedulers, `exercise08/main.c` | fields `user1` to `user3` of the records | srt, round robin (quantum 1 and 4), hpf with and without preemption, lottery | ties, quanta, marks | the policy each is named for; nobody starves |
| growing array, `exercise08/my_array.c` | items, size, capacity | push_back, delete, get, front, pop_front | growing and halving at the limits | capacity never below size |
| free list allocator, `exercise10/task2/task2.c` | one list per power of two, the unallocated end, a mutex | init, my_malloc (pop, split), my_free (walk, append) | aliasing of slab 0 with the unallocated space, early returns | disjoint blocks, acyclic lists, nothing lost |
| its benchmark, `exercise10/task1/membench.c` | array of blocks per thread | four loops, random sizes and frees | indices of the third loop | ends |
| train station, `exercise11/trains.c` | platforms in shared memory, a named semaphore | search, board, leave, fork, wait | both objects survive the program; interrupts, orphans of a failed fork | one train per platform, all own trains gone in the end |
| sum over shared memory and a FIFO, `exercise05` | shared memory, a named semaphore and a FIFO that outlive the programs, two children | make and open the FIFO, wait and post, produce, consume, send | what earlier runs have left, a producer that dies in its critical section, opening order | the semaphore is exact, healthy runs end, the FIFO is removed |
| signals between parent and child, `exercise02/task3.c` | handlers, masks, pending signals, alarms | fork, kill, alarm, sigaction | a signal before its handler, or while it is blocked | SIGUSR2 acts only after the alarm, both processes end |
| processes, `exercise02/task1.c`, `task2.c` | none | fork, wait | | all children are waited for |
| chat, `exercise04/task1`; pipe of two programs, `exercise04/task2` | FIFOs, a set of descriptors; pipe ends | connect, send, disconnect; dup2, exec | opening order, end of file | no message lost, both ends close |
| thread cancellation, `exercise06/task1/task1.c` | files, cleanup handlers, cancel requests | create, cancel and detach or join, clean up | cancellation at any point, exit of main | spared threads keep their files, cancelled ones delete theirs, main ends |
| shared counters, `exercise07/task3` | a counter | 10000 increments per thread | atomicity, initial value | the sum |
| binary search tree, `self_assessment_test/bstree.c` | nodes with parent pointers, a size | insert, remove, find, minimum, maximum, destroy | re-linking on removal, reads of freed nodes | a set of integers in order; everything is freed |
| input and output of the scheduler, `exercise08/scheduling_utility.c` | none | read CSV, print | layout only | |
| shell scripts, Makefile examples, `exercise01`, `exercise03`, `example_makefile` | none | | | |

## Modules

| module | models | instantiated or extended by |
|---|---|---|
| `WorkQueue` | abstract: work is taken once, added to one sum, reported at the end | `CondQueue`, `PollQueue` (as `WQ`) |
| `MyQueue` | the STAILQ as a sequence | `CondQueue`, `PollQueue` |
| `CondQueue`, `MCCondQueue`, `CondQueueProofs` | `exercise07/task2`; its theorems | |
| `PollQueue`, `PollQueueProofs` | `exercise06/task2` and `exercise07/task1`; its theorems | |
| `Philosophers`, `PhilosophersProofs` | `exercise06/task3`; its theorems | |
| `Heap` | abstract: malloc and free hand out disjoint blocks of a pool | `BestFit`, `FreeList` (as `H`) |
| `BestFit`, `MCBestFit`, `BestFitProofs` | `exercise09` allocators with their clients; its theorems | |
| `FreeList`, `MCFreeList`, `FreeListProofs` | `exercise10` allocator with its benchmark; its theorems | |
| `MyArray` | `exercise08/my_array.c` | `Scheduler` |
| `Scheduler`, `MCScheduler`, `SchedulerProofs` | simulator and schedulers; its theorems | |
| `Trains`, `TrainsProofs` | `exercise11`; its theorems | |
| `IntSet` | abstract: what each call of `bstree.h` does to a set of integers | `BSTree` (as `Set`) |
| `BSTree`, `MCBSTree` | `self_assessment_test/bstree.c` with a client that calls anything | |
| `Cancel` | `exercise06/task1` | `InterruptProofs`, `MCInterrupts` |
| `ShmSum` | `exercise05`, both tasks | `InterruptProofs` |
| `Signals` | `exercise02/task3.c` | `InterruptProofs`, `MCInterrupts` |
| `MCInterrupts` | for TLC: one of `Cancel` and `Signals` runs, the other is over | |
| `InterruptProofs` | theorems about the three programs above | |

How they correspond to the code:

**Philosophers.** One action per mutex call of `dine` and `main`; `usleep` is
the time between two actions. `First(n)` and `Second(n)` are the two branches
on the parity of `n`.

**CondQueue.** One action per call on the mutex, the condition variable and the
queue. `pthread_cond_wait` is `CondWait` (release and block in one step),
removal from `waiting` by `Signal` or `SpuriousWakeup`, and `Relock`, which
leads back to the test of the `while` loop. `CreateFails` is the `exit` after a
failed `pthread_create`. **PollQueue** has the same structure without a
condition variable; main pushes everything under one hold of the lock. The two
programs it stands for differ in the kind of lock and the number of threads.

**BestFit.** The pool is memory: `mem[p]` is a function from addresses to
words of eight bytes, and a node of the list is three consecutive words.
`insert_block_node` and `merge` are the assignments of the source in their
order, modulo `Word`, so that overlapping headers overlap. The walks of
`my_malloc` and `my_free` take one step per node. `args` says which of the two
builds runs: with `perThread` every thread has its own pool and the mutex is not
there, as under `PER_THREAD_ALLOCATOR`. The clients call `my_malloc` and `my_free`
in any order on blocks of their own; that includes the order of `exercise09`'s membench.
Setting `is_free` writes one byte of its word, which is modelled as the value
1: in the runs that pass no header ever overlaps another one, so this matters
only when a request is smaller than a header. A failing `malloc` of the pool,
which the code does not test, is left out.

**FreeList.** `hdr[a]` is the `header_t` at address `a`; the data between the
headers is not modelled. A call of `my_malloc` is entering it (lock, initialize,
pop from the slab's list), splitting off a block and moving the unallocated space
on, or refusing, and the store in the client's
array; `my_free` walks one node per step. `Store` tests `block[i]` also in the
third loop, as the benchmark does.

**Scheduler.** A time step of `compute_schedule_` is one action: `ReadyList` is
what the first part of the loop body makes of the array (removal of finished
processes, arrivals, the re-appended process), the scheduler's action picks from
it and says what is left, `Dispatch` is the rest of the body. The loops over the
array are recursive functions of the number of turns (`after`, `selected`), so
that they can be reasoned about. The assumption on the inputs excludes a service time
of 0, by which the lottery divides. `Next` runs
`main`'s six calls in order on the same records, so a field that one scheduler
leaves behind is there for the next unless `init_processes` resets it. The
lottery's coin is a choice; `scheduler_rand` seeds its generator with the time
step at every call, so that all numbers drawn in one step are equal and the last
process in the list with a ticket wins: `Draw` says just that. If nobody has a
ticket the code reads an uninitialized name, modelled as any choice.

**Trains.** Shared objects (`platform`, `semaphore`) survive `Interrupt` and
`End`; `Start` begins another run with what is there, at any time after main has
left. A process is `<<r, i>>`, train `i` of run `r`. When a fork fails main exits
and its trains go on as orphans: they use platforms and semaphore during the next
run, main neither waits for them nor does an interrupt end them, and when it clears
the platforms it does so under them. `disturbed` remembers the platforms that this
has happened to. A search that overlaps with the clearing is taken to come before
or after it. Time is not modelled: a sleep takes any time, which allows more
behaviours than the clock does.

**BSTree.** `heap` gives every address a node; `live` are the addresses that
`malloc` has handed out, and `insert` may be given any other one, so that freed
memory is used again in every way. `bstree_remove` leaves the only child of the
removed node with its old `parent`, and reads the freed node `l` once more:
`RemoveSimple` and `RemoveDouble` do the same. Where the outcome depends on
freed memory or on NULL, `status` says so (`undefined`, `crashed`) and the model
stops. The walks are recursive functions; `succ`, `min` and `max` follow links as
the source does. `call` is the last call and its argument. `IntSet` shares it, so that
`insert(d)` has to add `d` and `remove(d)` to take out `d`, and nothing else, to
implement it. The set is what a walk over all nodes from left to right finds;
`bstree_print` makes the same walk, but is left out, and what it prints is a
matter of its own (see below).

**Cancel.** `requested` are the pending `pthread_cancel`s. A thread takes one only
at `Cancellable`, that is after cancellation has been enabled and made asynchronous
and while the handler is pushed; `Perish` is a request that comes when the handler
is gone. `exit` in a thread or in main, and the return of main, end everybody
where they are.

**ShmSum.** Program a and program b of both tasks; `task` says which b runs. What
outlives them (`semaphore`, `fifo`) is not reset by a start. As in the source, the
children write to memory that is mapped for reading, so `Produce` kills the producer
between `sem_wait` and `sem_post` and `LeaveLoop` kills the consumer; and the number
of rounds is a value that depends on an address, an arbitrary member of `Rounds`.

**Signals.** One action per system call of parent and child, the alarms at any time
after they are set, pending signals as a set (a second one of a kind is lost),
`Blocked` for the mask. A handler runs inside whatever the process was doing
(`resume`).

## Runs: what is checked

Passing runs:

- `philosophers` (5 philosophers, 2 meals): `NeighboursDontEatTogether`,
  `NoCircularWait` (no chain of philosophers each waiting for the next is longer than
  three), `DestroyedWhenDone`, `Termination`. Five is the source's table and odd, so
  that two neighbours of the same parity meet where the numbering closes.
- `cond_queue` (3 consumers, 4 ones): `PopFindsValue` (the assertion of
  `myqueue_pop`), `OneZeroEach` (a zero is reached only after all work has been taken,
  and there are as many as consumers need), `NoLostWakeup`, and `ImplementsWorkQueue`,
  the refinement of `WorkQueue` with its liveness. More values than consumers and more
  than one waiter are enough for a signal to go to a waiter while a third consumer
  takes the value.
- `poll_queue` (3 consumers, 3 ones): `PopFindsValue`, `ImplementsWorkQueue`
  (safety only, see Fairness), `DrainsOncePushed`.
- `best_fit` (18 words; requests of 3, 4 and 6): both builds from two initial states,
  a pool shared by two threads with 2 calls and up to 2 blocks each, and a pool of one
  thread's own with 5 calls and up to 3 blocks. One header and its smallest request fill
  6 words, so three blocks fit and four do not, and splits that leave exactly a header,
  less than one and an exact fit all occur. Threads with pools of their own share
  nothing, so one is enough. `ListTilesPool`, `BusyExact`, `BestFitFound`,
  `NoFreeNeighbours` (merging is complete), the refinement `ImplementsHeap` and
  `Termination`.
- `schedulers`: 841 inputs, namely all of two and of three processes with a few
  arrivals, services and priorities around the quantum, `exercise08/input.csv`,
  and four longer ones (five processes at once, so that the array grows and
  shrinks; a service time above the ticket pool), with the quanta of the source.
  `OnlyViableProvided`, `BoundedWaiting` for round robin, `OneWorking` for the
  lottery, `ServedWithoutGaps` (if there is more work than time until the last arrival,
  everybody has had exactly his service time at the end), `PicksFirstBest` (the policies of srt and of hpf with and
  without preemption, ties included), and `MatchesExampleOutput`: on `input.csv`
  the model computes the schedules of `exercise08/example_output.log`.
- `free_list` (2 threads, N = 2, sizes 1 and 3, memory for five of the smaller
  blocks): `SpaceExact`, `ListedAreFree`, `ImplementsHeap` (the promise of
  disjoint blocks only), `Termination`. Size 1 is in slab 0, whose
  list the code starts with the unallocated space, so the aliasing is exercised.
- `trains` (2 of 3 trains forked, 2 platforms, 2 runs): `PlatformsExact`,
  `EndsAfterAllTrains`, `HealthyRunEnds`. The second run can meet an orphan of the
  first, so that three trains look for two platforms, one of them searches in vain, two
  stand at one platform, and a train is at a platform that is not marked. The
  properties say how far this goes: a platform that was not cleared under a train is
  exact, any platform is free again when its last train has left, and the run ends
  after its own trains. Deadlock is not checked because a run after
  an unlucky interrupt really hangs.
- `bstree` (the numbers -1 to 3, 5 addresses, every sequence of calls): `QueriesAgree`,
  `ImplementsSet` (every call does to the set what its argument says), and
  `NoOtherCallWrecks`: the removal of a node with at most one child, the removal of one
  whose successor is an orphan, and an extremum of the empty tree are the only calls
  that crash, use freed memory or leave a link to it. Five nodes are enough for
  an orphan to be hung below a removed node whose memory is used again. A destroyed or
  wrecked tree is not used any more, so deadlock is not checked.
- `interrupts` (`Cancel` with 3 threads, and `Signals`; they share nothing, so one runs
  and the other is over): `SparedKeepFile`, `CancelledDeleteFile`, `Termination`;
  `BlockedUntilAlarm`, `EndsUnlessOvertaken`.
- `shm_sum` (4 runs of each program, up to two rounds): `SemaphoreExact`,
  `HealthyRunEnds`. Four runs lower the semaphore from 2 to 0 and meet it there. A run
  can hang, so deadlock is not checked.

The runs `best_fit_overlap` and `idle_gap` show a violation each, see below.

Some hazards in `PROJECT.json` have no property: the code really does what they say and
the model does it too, so that a property against it would be false. The properties
of the same part are then stated for what lies outside of the fault (`HealthyRunEnds`: the
runs that find semaphore and FIFO as they should be; `EndsUnlessOvertaken`;
`DrainsOncePushed`; an aborted benchmark in `Termination`), and the faults are listed
[below](#where-the-code-departs-from-its-documents).

Every property of a passing run has a mutant in `PROJECT.json`: a changed
definition (`Name_How`, next to `Name` in the module) under which TLC finds the
property violated.

Bounds: numbers of threads, values, calls, trains and runs of the programs are
bounded by constants; `MAX_TIMESTEPS` is the code's own bound (1000), lowered to
40 and larger than any schedule of the inputs.

## Fairness

- Threads and processes that are not blocked are scheduled: weak fairness per
  thread, never of a single statement. The locks are not fair, so `PollQueue`
  promises nothing until main has had the lock, and `Philosophers` needs no
  more because every philosopher eats a bounded number of times.
- `CondQueue`: spurious wakeups are allowed at any time but eventually cease.
- `Trains`: strong fairness of `sem_wait`. A train that finds no platform sleeps a
  second before its next attempt, so the semaphore is free most of the time and
  a waiting process gets it.
- `BestFit`, `FreeList`: weak fairness per thread suffices for the mutex, since every
  thread takes it a bounded number of times.
- `Cancel`, `ShmSum`, `Signals`: weak fairness of every process and thread that can run;
  alarms go off and signals are taken. Nobody has to start, interrupt or cancel anything.
- `Scheduler` and `BSTree` are checked for safety only: the loops of the one are bounded
  by construction, and nobody has to call the other.

## Theorems: what is proved

`PhilosophersProofs` proves, for every `NUM_PHILOSOPHER > 1` and every
`EAT_ITERATIONS > 0` (`PhilosophersAssumption`):

- `InvariantHolds`, `TypeCorrect`, `OwnershipIsExact`, `MutualExclusion`,
  `OrderlyShutdown`, `DeadlockFree`.

The inductive invariant is `IInv == TypeOK /\ OwnershipExact /\ Bookkeeping`.
`OwnershipExact` alone says which mutexes a philosopher holds at each position,
but not that a thread that has not been created holds none, nor that a joined
thread is done; `Bookkeeping` adds that. The proof has one step per action and
one below it per conjunct. Mutual exclusion follows because neighbours share a
chopstick, which has one owner. `DeadlockFree` follows without induction: a
philosopher that waits for a neighbour's second chopstick has the other parity,
but for the place where an odd table closes (`ChainOnlyWhereTableCloses`), so a
chain of waits cannot go on for four.

`CondQueueProofs` proves, for every `NumConsumers > 0` and every `Ones`
(`QueueAssumption`), all the invariants of the run `cond_queue`:

- `InvariantHolds`, `TypeCorrect`, `MutexIsExact`, `PopAlwaysFinds`: the inductive
  invariant is `IInv == TypeOK /\ MutexExact /\ PopFindsValue /\ Bookkeeping`.
  Without `Bookkeeping`, a consumer could add a value that it has not popped and
  main could count past its loops.
- `WakeupsAreNotLost` (`NoLostWakeup`) is inductive relative to `IInv`: a thread goes
  to sleep only when the queue is empty, the signal moves one thread to those that
  are awake (a waiting thread has not been told to stop), a pop takes a value and at
  most one thread away.
- `EveryConsumerGetsItsZero` (`OneZeroEach`) needs a stronger invariant, `Fifo`: the
  queue is the end of the sequence of pushed values, and one consumer has stopped for
  every popped zero. `QueueContents` then counts the ones and the zeroes.

- `ProgramImplementsWorkQueue`, `Spec => WQ!Spec`: the refinement of `WorkQueue` without
  its liveness, which the run's property `ImplementsWorkQueue` adds. A `Pop` maps to
  `Take` or `Stop`, the last `Join` to `Report`, `CreateFails` to `Fail`, and every other
  step leaves the work alone. `Fifo` says which value is popped. That main reports `Ones`
  needs `Sums`: there is a sequence of partial sums of what each consumer has taken
  (added, or popped and not added yet), whose last member is the number of ones popped so
  far and whose member number `joined` is main's `totalSum`; `Ending` says that a joined
  consumer has had its zero and takes no more. The existence of the sums is part of the
  invariant, each pop adds one to those behind its consumer (`AddOne`), and that they are
  what the recursion of `WorkQueue!Total` computes (`OneSolution`) follows from the
  well-foundedness of the natural numbers.

`PollQueueProofs`: `TypeCorrect`, `LockIsExact`, `PopAlwaysFinds`, for every
`NumConsumers > 0`. Test and pop are one critical section; the invariant says what each
position inside it knows of the queue, and that main's counters stay in their loops.
`ProgramImplementsWorkQueue` is `Spec => ImplementsWorkQueue`, along the argument for
`CondQueue`; here a consumer adds a value in the step that pops it.

`FreeListProofs` proves every invariant of `FreeList` and its refinement of the safe part
of `Heap`, for every number of threads and allocations, all sizes and every size of the
memory.

- `AllocatorImplementsHeap`, that is `Spec => ImplementsHeap`. No list needs to be
  understood for this, since a popped block is discarded: the invariant `Layout` says that
  every block that a thread has lies behind the memory's start and before `last`, at one
  place only, and apart from all others. `Position` makes `Split` and `Shift` begin it at
  the same `last`, which only the holder of the mutex moves. That no step loses a block
  without freeing it needs `EmptySlots`: the result of `my_malloc` is stored where the
  benchmark's array is empty. `Shift` maps to `Malloc`, the step that links a block to a
  list to `Free`, and every other one leaves what is in use alone. `BlocksNeverOverlap` says the
  same without the abstract heap: no two blocks that threads have share an address.
- `TypeCorrect`, `SpaceIsAlwaysExact`, `ListedBlocksAreFree` (`SpaceExact`, `ListedAreFree`)
  need a second invariant, `ListInv`, inductive together with the first. Its part `Links`
  says that every pointer of the allocator, in a slab or in a header, is NULL, or the
  memory's start, or leads to a block before `last` that nobody has; a freed block comes to satisfy it in the step in which its thread gives
  it up, and what `Shift` writes lies behind all of them. `Space` says that the headers
  before `last` lead from one to the next and end at `last`. What the lists contain then
  follows by induction along them (`ChainStays`: a walk stays in a set that no link leaves).

`BestFitProofs` proves every invariant of `BestFit` and the refinement of the whole of
`Heap`, for every size of the pool and every machine word that can count it, every number
of threads and blocks, both builds, and all requests of a header's size at least:

- `InvariantHolds`, `TypeCorrect`, `ListAlwaysTilesPool`, `BusyAlwaysExact`,
  `SearchFindsBestFit`, `FreeBlocksAreMerged`, `WalksStayInPool`, `AllocatorImplementsHeap`,
  and `BlocksNeverOverlap`: no two segments that threads have share a word (a segment and a
  header may, which is what the run `best_fit_overlap` shows).

Each has the hypothesis `HeaderFits`, that no request is smaller than a header. It is needed:
for a smaller one `size - sizeof(block_list_node)` wraps around and the list is destroyed (see
below), so that the properties are false.

The proof is about words in memory. A list is the recursive function `ListNodes` over them;
by induction over the natural numbers, a set of addresses whose headers lead from the pool's
beginning to its end in ascending order (`Tiles`) is that list. The lemmas about `allocate` and
`deallocate` follow the assignments of the source, word by word, and show that a tiling becomes
a tiling in which one block has changed hands or been split, or up to three have been merged. The
inductive invariant adds to this that each tiling is what the allocator's mutex protects
(`MutexExact`) or what belongs to the one thread of the pool, that blocks which threads hold
are the busy ones, one owner each (`Backed`, `OneEach`, `Covered`), what each position of
`my_malloc` and `my_free` knows of its pointers (`Positions`: the walk of the search has seen
all blocks before `current`, and none of them fits better than `best`), and that a thread or pool
which does not exist has nothing (`Absent`). `Allocate` maps to `Malloc`, `Deallocate` to `Free`,
and the refusal to `Refuse`, which a pool without blocks in use is free of because its list is one
free block.

`TrainsProofs`: `SectionIsExclusive`, `PlatformsAreExact`, `EndsAfterItsTrains`, for all
numbers of trains, platforms and runs, with interrupts, failing forks and orphans.
`PlatformsExact` is inductive together with the position of every train (one that searches
has no platform), with `Gone` (no train of the present run is there when main clears the
platforms: whoever is, is an orphan, and its platform becomes disturbed), and with a
count: main waits for at least as many children of its own as it has not reaped
(`FiniteProcesses`: a run has no more than it forks). That a marked platform at the
end has an orphan follows from `PlatformsExact` and `Gone`.

`SchedulerProofs`, for every input (any number of processes, arrivals, service times and
priorities), every `MAX_TIMESTEPS`, both quanta and any number of tickets:

- `TypeCorrect` and `ViableAreProvided` (`OnlyViableProvided`). The part `Ready` of the
  invariant describes the array between two time steps: no process is in it twice, all have
  arrived before, whoever in it has finished is the one that ran last, and nobody who may run is
  missing unless it is `prev_proc`. From this follows what the loops at the head of the body
  make of it: one element at most is removed (`Kept`), the arrivals follow in the file's order
  (`Added`), and the result lists each process that may run once (`ReadyShape`, `ReadyViable`).
- `FirstBestIsPicked` (the action property `PicksFirstBest`). `Scan` returns the first of the
  elements with the greatest key (`ScanWinner`, `FirstBest`, by induction over the loop), and the
  list is in the order of arrival (`Sorted`). The loop of `hpf_non_preemptive` compares with
  no such key: `Marked` says that the mark is with the process that ran last and that whoever
  came before it has a lower priority, so that the loop comes to it and then stays with it.
- `WaitingIsBounded` (`BoundedWaiting`). In `round_robin` the time a process has waited and
  its place in the list add up to no more than the number of processes (`Turns`); with a quantum,
  the places are counted in quanta and the used part of the first one's is added (`Quantum`).
- `OneIsWorking` (`OneWorking`), from `Winner`.
- `ServedAtTheEnd` (`ServedWithoutGaps`), from `Counts`: what a process has left and the time
  steps in which it ran add up to its service time. Every time step runs somebody, so a schedule
  that ends early has used less than the work that has arrived (`NobodyIsToCome`): with `NoIdleGap`
  the last arrival is over by then. The theorem has the hypothesis `FitsInTime`, that an input
  asks for less than `MAX_TIMESTEPS` units of service in all. It is needed, since
  `compute_schedule_` cuts longer schedules off; the inputs of the run satisfy it. A schedule that
  ends at the last time step has then served every unit there is (`NobodyIsLeft`).

All six schedulers have one induction step in common, the dispatch of the `w`-th process of
the list (`DispatchTyped`, `DispatchCounts`, `DispatchReady`); what distinguishes them is which `w`
it is and what becomes of the fields `user1` to `user3`.

`InterruptProofs` is about the three programs whose processes and threads are ended from
outside. It extends all three of `ShmSum`, `Cancel` and `Signals`; what would have one name in
two of them is called `SumInit`, `SumNext` ... in `ShmSum` and `SigInit`, `SigNext` ... in `Signals`.

- `SemaphoreIsExact`: the semaphore, the processes that hold it and those that died in their
  critical section add up to its first value, over any number of runs.
- `SparedThreadsKeepTheirFiles`, `CancelledThreadsDeleteTheirFiles`, for every number of threads.
  The invariant relates the position of a thread to its file, its handler and main's requests,
  and says that main joins no thread it has cancelled.
- `EndsAfterItsAlarm` (`BlockedUntilAlarm`): wherever the child of `Signals` has the handler of
  SIGUSR2 installed, the signal is blocked outside of `childAlarmHandler`.

Each of these modules also has `InvariantHolds` for its inductive invariant `IInv`
(`InterruptProofs`: `SumInvariantHolds`, `CancelInvariantHolds`), which TLC checks on the small
instance before it is proved.

Induction: the library's induction theorems take a predicate as a parameter, which the provers
cannot instantiate. Where an induction over the natural numbers is needed (`BestFit`,
`FreeList`, `Scheduler`, the sums of the queues), the predicate is therefore a set, and the theorem is
derived from the well-foundedness of `<` (`LeastNumber`).

Only model-checked:

- liveness (`Termination`, `HealthyRunEnds`, `DrainsOncePushed`, `EndsUnlessOvertaken`, and
  the fair half of `CondQueue!ImplementsWorkQueue`), which is out of the prover's reach;
- `MatchesExampleOutput`, which is about one input;
- `BSTree`, whose walks are inductions over the shape of a tree.

## Where the code departs from its documents

Checked by a run, with the counterexample it gives:

- `best_fit_overlap`: `allocate` sets the size of a split block to `size -
  sizeof(block_list_node)`, so the next header lies in the last 24 bytes of the
  segment that the client may write.
- `idle_gap`: `exercise08/README.md:21` says that the framework "runs until all processes
  have been serviced". `compute_schedule_` ends at the first time step in which nobody is
  ready (`scheduling_sim.c:63`), also if processes are still to come; those are never served.
  `ServedWithoutGaps` says that the sentence is true of inputs without such a gap.

Seen while modelling, not checked by a run of its own:

- `exercise09/task2_3/task2_3.c:126`: `my_malloc` returns NULL with the mutex locked. The
  threads of the benchmark stop at a NULL, so nobody of them waits.
- `exercise08/main.c:136`: the lottery's counter is not counted up while a process
  keeps running, so a process that does not yield is never made to.
- `exercise10/task2/task2.c:102`: what is popped from a free list is dropped, because the
  split has no `else`; freed memory is never used again.
- `self_assessment_test/bstree.c`: removing a leaf or a node with one child reads the node
  after it has been freed; whether the memory still says what it did decides
  whether it is freed twice. Removing the root with one child at most follows its
  parent pointer, NULL. An only child keeps the parent pointer to the node that was removed:
  after inserting 5, 3, 2, removing 3, inserting 4 where 3 was, and removing 2, the tree is
  closed to a ring and a search does not end.
- `exercise05`: program b maps the shared memory for reading only, so its children die of
  SIGSEGV, and it sends the address of the result. A producer dies between `sem_wait` and
  `sem_post`, so the named semaphore loses one with each run of `task2_b` that has a round:
  the third such run hangs. A program a that is interrupted leaves its FIFO, and the next
  `mkfifo` fails.
- `exercise02/task3.c`: if the child's alarm goes off before SIGUSR2 has been sent, SIGUSR2 is
  blocked for ever and the two processes do not end. 13 against 3 seconds make that
  unlikely, not impossible.
- `exercise06/task1/task1.c`: a cancelled and detached thread keeps its file if main returns
  before the thread's handler has run, or if the request comes after the handler was
  popped.
- `exercise07/task3/task3_atomic.c:23` does not initialize its counter.
- `exercise04/task1/task1_server.c:60` stores the clients from index 1 on, in an array that
  ends at `argc - 2`, and line 71 begins with the uninitialized index 0; after one message
  the loop ends.
- A request below 24 bytes wraps `size - sizeof(block_list_node)` around. With 16
  bytes, the smallest size `exercise10/README.md` asks for, the new header destroys
  its own block's `next` pointer and the next walk crashes; with 0 the list is
  closed to a ring and the next `my_malloc` never ends.
- `exercise08`: a process with service time 0 is offered to the schedulers although it
  has nothing left to do, and is counted down below zero, so that it never finishes.
- `exercise06/task2` and `exercise07/task1`: the consumers poll, and neither kind of lock
  gives main its turn; nothing ends a run in which it never comes.
- `exercise10/task2/task2.c:88`: `my_malloc` returns NULL with the mutex locked when the
  initialization has failed. The benchmark aborts at the NULL.
- `self_assessment_test/bstree.c:212`: `bstree_print` leaves out the number 0, which the tree
  stores, finds and counts like any other.
- `exercise10/task1/membench.c:39` tests `block[i]` where it has just set
  `block[i + N]`: it aborts with "out of memory" whenever the coin has freed the
  former, and misses a real failure.
- `exercise10/Makefile` passes `-LOCAL_ALLOCATOR` (a library path) for
  `-DLOCAL_ALLOCATOR`, so `free_list_local.so` is the global allocator.
- `exercise11/trains.c` forks 6 of its 7 trains, never unlinks its semaphore (after
  an interrupt inside the critical section every later run hangs) and has no
  handler for SIGINT. When a fork fails it does not end the trains that it has forked; if
  the program is started again, they share platforms with the trains of the new run,
  because main clears the platforms under them.
- `exercise06/task3/solution_explanation.md:14` gives the two orders of locking to
  the other parity than `philosophers.c:19` does. Both are free of deadlock.

## What is not modelled

Formatting, printing, reading of arguments and files. Failures of `malloc`,
`realloc` and of the pthread calls whose result the code ignores (a failing
`pthread_create` and `fork` are modelled where the code handles them).
`LOCAL_ALLOCATOR` of `exercise10`, which is never built, and sizes for which its
behaviour is undefined. Clock times. The scheduler `fcfs`, which is never called, and the
two operations of `my_array` without a caller.

Whole programs that are left out:

- chat over FIFOs (`exercise04/task1`): its behaviour is undefined from the first
  client on (see above), so a model would be one of the compiler's layout;
- the pipe of two programs (`exercise04/task2`): two processes that `dup2`, `close` and
  `exec` once each; what happens in the pipe is up to `ls` and `grep`;
- `exercise02/task1.c` and `task2.c`: forks whose children only compute or sleep, and a
  wait for them; `task2` handles SIGCHLD, which `Signals` models for `task3`;
- shared counters (`exercise07/task3`): increments under one mutex or by one atomic
  operation each, with nothing else to interleave;
- reading and printing of the scheduler, shell scripts and Makefiles: input, output and
  layout, without state of their own.

## Plan

Done, in the order of what the repository's own difficulty suggests: philosophers, work
queues, best fit allocator, scheduler, free list allocator, train station; then binary
search tree, sum over shared memory, signals and cancellation, each with an abstract
specification where there is one; proofs for `Philosophers`, `CondQueue`, `PollQueue`,
`FreeList`, `BestFit`, `Trains`, `Scheduler`, `ShmSum`, `Cancel` and `Signals`, the refinements of `WorkQueue` and
`Heap` among them.

What could follow:

1. Proofs about `BSTree` up to the first removal: that insertion keeps the walk in order, with
   the set of nodes below a link as the measure of the induction.
2. The pipe of `exercise04/task2` with the descriptors that each process keeps open, on
   which the end of file depends.

Modules that are proved about use recursive functions or folds instead of RECURSIVE
operators.
