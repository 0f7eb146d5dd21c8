------------------------------ MODULE BestFit ------------------------------
(***************************************************************************)
(* exercise09/task2_3/task2_3.c: a best fit allocator over one pool that   *)
(* all threads share under my_malloc_mutex, or (PER_THREAD_ALLOCATOR) over *)
(* one pool per thread.  The pool is modelled word by word, so that the    *)
(* headers of the block list live in the memory they manage and overlap    *)
(* when the code lets them overlap.  The clients are the threads of the    *)
(* two membench programs: each calls my_malloc and my_free on blocks of    *)
(* its own, aborts the process on NULL, and frees all it has in the end.   *)
(***************************************************************************)
EXTENDS Integers, FiniteSets

CONSTANTS Thread,     (* the threads that membench may create           *)
          PoolSize,   (* MEMORY_POOL_SIZE in words of 8 bytes           *)
          Word,       (* size_t arithmetic is modulo Word               *)
          Size,       (* the sizes that the clients ask for, in words   *)
          Arguments   (* what membench is started with: the library (was
                         PER_THREAD_ALLOCATOR defined?), the threads, how
                         often each calls my_malloc, and how many blocks
                         it has at a time (1 in common/membench.c)      *)

HeaderSize == 3   \* sizeof(block_list_node): is_free, block_size, next
NULL == 0
Base == 2         \* where malloc puts the pool
NoOne == "nobody"

ASSUME BestFitAssumption ==
  /\ NoOne \notin Thread
  /\ PoolSize \in Nat /\ PoolSize > HeaderSize
  /\ Word \in Nat /\ Word > 2 * (PoolSize + Base)
  /\ Size \subseteq 0 .. Word \div 2
  /\ Arguments \subseteq [perThread : BOOLEAN, threads : SUBSET Thread,
                          calls : Nat, held : Nat \ {0}]

\* The pools: one for all threads, or one for each of them.
Arena == UNION {IF a.perThread THEN a.threads ELSE {"global"} : a \in Arguments}

Address  == Base .. Base + PoolSize - 1            \* the words of a pool
NodeAddr == Base .. Base + PoolSize - HeaderSize   \* where a header fits
INT_MAX  == Word \div 2

VARIABLES
  args,     \* the arguments of this process
  mem,      \* mem[p]: the words of pool p
  head,     \* head[p]: block_list_head
  mutex,    \* who holds my_malloc_mutex, or NoOne
  pc,       \* pc[t]: where thread t is
  req,      \* req[t]: the argument of my_malloc
  current,  \* current[t] of both functions
  best,     \* best_fit[t] of my_malloc
  over,     \* best_fit_overhead[t] of my_malloc
  previous, \* previous[t] of my_free
  ptr,      \* ptr[t]: the argument of my_free
  held,     \* held[t]: the blocks that thread t has
  calls,    \* calls[t]: the calls of my_malloc so far
  invalid,  \* my_free has reported an invalid address
  leaked,   \* teardown has reported memory that was not freed
  process   \* "running", "exited", "aborted" or "crashed"

locals == <<req, current, best, over, previous, ptr>>
vars == <<args, mem, head, mutex, pc, locals, held, calls, invalid, leaked, process>>

PerThread == args.perThread
ArenaOf(t) == IF PerThread THEN t ELSE "global"

\* The fields of the block_list_node at address a.
is_free(m, a)    == m[a] # 0
block_size(m, a) == m[a + 1]
next(m, a)       == m[a + 2]

Set(m, a, value) == [m EXCEPT ![a] = value]

Init ==
  /\ args \in Arguments
  /\ mem = [p \in Arena |-> [a \in Address |-> 0]]
  /\ head = [p \in Arena |-> NULL]
  /\ mutex = NoOne
  /\ pc = [t \in Thread |-> "idle"]
  /\ req = [t \in Thread |-> 0]
  /\ current = [t \in Thread |-> NULL]
  /\ best = [t \in Thread |-> NULL]
  /\ over = [t \in Thread |-> 0]
  /\ previous = [t \in Thread |-> NULL]
  /\ ptr = [t \in Thread |-> NULL]
  /\ held = [t \in Thread |-> {}]
  /\ calls = [t \in Thread |-> 0]
  /\ invalid = FALSE
  /\ leaked = FALSE
  /\ process = "running"

-----------------------------------------------------------------------------
(* The functions on the block list.                                        *)

\* The contents of a new pool: one free block.
FreshPool ==
  [a \in Address |-> CASE a = Base -> 1
                       [] a = Base + 1 -> PoolSize - HeaderSize
                       [] OTHER -> 0]

\* Mutant of insert_block_node: the pointers are set in the other order.
insert_block_node_Swapped(m, after, size) ==
  LET new == (after + HeaderSize + block_size(m, after)) % Word
      m1  == Set(m, new, 1)
      m2  == Set(m1, new + 1, size)
      m3  == Set(m2, after + 2, new)
  IN Set(m3, new + 2, next(m3, after))

\* insert_block_node(after, size): the statements in their order, since the
\* new header may overlap the old one.  Setting is_free writes one byte: it
\* turns a NULL pointer in that word into the address 1, and any pointer
\* into an address that is no node's; both are 1 here.
insert_block_node(m, after, size) ==
  LET new == (after + HeaderSize + block_size(m, after)) % Word
      m1  == Set(m, new, 1)
      m2  == Set(m1, new + 1, size)
      m3  == Set(m2, new + 2, next(m2, after))
  IN Set(m3, after + 2, new)

\* Mutants of allocate: the block is not marked; the room of the next header
\* is not accounted for.
allocate_StaysFree(m, node, size) ==
  LET overhead == block_size(m, node) - size
  IN IF overhead > 0
     THEN insert_block_node(
            Set(m, node + 1, (size - HeaderSize) % Word), node, overhead)
     ELSE m

allocate_KeepsSize(m, node, size) ==
  LET overhead == block_size(m, node) - size
  IN IF overhead > 0
     THEN insert_block_node(Set(Set(m, node, 0), node + 1, size), node, overhead)
     ELSE Set(m, node, 0)

allocate(m, node, size) ==
  LET overhead == block_size(m, node) - size
      marked == Set(m, node, 0)
  IN IF overhead > 0
     THEN insert_block_node(
            Set(marked, node + 1, (size - HeaderSize) % Word), node, overhead)
     ELSE marked

\* Takes the list's node b, the successor of a, into a.
merge(m, a, b) ==
  LET m1 == Set(m, a + 2, next(m, b))
  IN Set(m1, a + 1,
         (block_size(m1, a) + block_size(m1, b) + HeaderSize) % Word)

\* Mutant of deallocate: no merge with the predecessor.
deallocate_NoPredecessor(m, node, predecessor) ==
  LET freed == Set(m, node, 1)
      successor == next(freed, node)
  IN IF successor # NULL /\ is_free(freed, successor)
     THEN merge(freed, node, successor)
     ELSE freed

deallocate(m, node, predecessor) ==
  LET freed == Set(m, node, 1)
      successor == next(freed, node)
      merged == IF successor # NULL /\ is_free(freed, successor)
                THEN merge(freed, node, successor)
                ELSE freed
  IN IF predecessor # NULL /\ is_free(merged, predecessor)
     THEN merge(merged, predecessor, node)
     ELSE merged

-----------------------------------------------------------------------------
(* my_malloc.                                                              *)

Running(t, at) == process = "running" /\ pc[t] = at
GoTo(t, at) == pc' = [pc EXCEPT ![t] = at]

\* The optional pthread_mutex_lock and pthread_mutex_unlock.
Acquire(t) == IF PerThread THEN UNCHANGED mutex
                           ELSE mutex = NoOne /\ mutex' = t
Release(t) == IF PerThread THEN UNCHANGED mutex ELSE mutex' = NoOne

\* A function returns: its locals and its argument are gone.
Return(t) ==
  /\ req' = [req EXCEPT ![t] = 0]
  /\ current' = [current EXCEPT ![t] = NULL]
  /\ best' = [best EXCEPT ![t] = NULL]
  /\ over' = [over EXCEPT ![t] = 0]
  /\ previous' = [previous EXCEPT ![t] = NULL]
  /\ ptr' = [ptr EXCEPT ![t] = NULL]
  /\ GoTo(t, "idle")

CallMalloc(t) ==
  /\ Running(t, "idle")
  /\ calls[t] < args.calls
  /\ Cardinality(held[t]) < args.held
  /\ \E s \in Size : req' = [req EXCEPT ![t] = s]
  /\ calls' = [calls EXCEPT ![t] = @ + 1]
  /\ GoTo(t, "malloc")
  /\ UNCHANGED <<args, mem, head, mutex, current, best, over, previous, ptr, held,
                 invalid, leaked, process>>

\* init() on the first use; the search starts at the head of the list.
InitAndScan(t) ==
  /\ Running(t, "malloc")
  /\ LET p == ArenaOf(t) IN
       IF head[p] = NULL
       THEN head' = [head EXCEPT ![p] = Base] /\ mem' = [mem EXCEPT ![p] = FreshPool]
       ELSE UNCHANGED <<head, mem>>
  /\ current' = [current EXCEPT ![t] = head'[ArenaOf(t)]]
  /\ best' = [best EXCEPT ![t] = NULL]
  /\ over' = [over EXCEPT ![t] = INT_MAX]
  /\ GoTo(t, "scan")
  /\ UNCHANGED <<args, req, previous, ptr, held, calls, invalid, leaked, process>>

\* Mutant of StartScan: the mutex is forgotten.
StartScan_NoLock(t) == InitAndScan(t) /\ UNCHANGED mutex

StartScan(t) == InitAndScan(t) /\ Acquire(t)

\* Mutant of Fits: a block of exactly the size asked for is not seen.
Fits_Greater(m, t) ==
  is_free(m, current[t]) /\ block_size(m, current[t]) > req[t]

\* Is the node that the scan looks at free and large enough?
Fits(m, t) == is_free(m, current[t]) /\ block_size(m, current[t]) >= req[t]

\* The pointer that a thread follows leads out of the pool: SIGSEGV.
Segfault(t) ==
  /\ process' = "crashed"
  /\ UNCHANGED <<args, mem, head, mutex, pc, locals, held, calls, invalid, leaked>>

\* One round of the loop.  The node becomes the best fit when it is tighter
\* than the one before, and an exact fit ends the loop.
Look(t) ==
  LET m == mem[ArenaOf(t)]
      overhead == block_size(m, current[t]) - req[t]
  IN
  /\ IF Fits(m, t) /\ overhead < over[t]
     THEN /\ best' = [best EXCEPT ![t] = current[t]]
          /\ over' = [over EXCEPT ![t] = overhead]
     ELSE UNCHANGED <<best, over>>
  /\ IF Fits(m, t) /\ overhead = 0
     THEN GoTo(t, "fit") /\ UNCHANGED current
     ELSE current' = [current EXCEPT ![t] = next(m, current[t])] /\ UNCHANGED pc
  /\ UNCHANGED <<args, mem, head, mutex, req, previous, ptr, held, calls, invalid,
                 leaked, process>>

Scan(t) ==
  /\ Running(t, "scan")
  /\ current[t] # NULL
  /\ IF current[t] \in NodeAddr THEN Look(t) ELSE Segfault(t)

EndScan(t) ==
  /\ Running(t, "scan")
  /\ current[t] = NULL
  /\ GoTo(t, "fit")
  /\ UNCHANGED <<args, mem, head, mutex, locals, held, calls, invalid, leaked, process>>

Allocate(t) ==
  /\ Running(t, "fit")
  /\ best[t] # NULL
  /\ mem' = [mem EXCEPT ![ArenaOf(t)] = allocate(@, best[t], req[t])]
  /\ GoTo(t, "allocated")
  /\ UNCHANGED <<args, head, mutex, locals, held, calls, invalid, leaked, process>>

ReturnBlock(t) ==
  /\ Running(t, "allocated")
  /\ Release(t)
  /\ held' = [held EXCEPT ![t] =
                @ \cup {[lo |-> best[t] + HeaderSize, size |-> req[t]]}]
  /\ Return(t)
  /\ UNCHANGED <<args, mem, head, calls, invalid, leaked, process>>

\* The early return: the mutex stays locked.
ReturnNull(t) ==
  /\ Running(t, "fit")
  /\ best[t] = NULL
  /\ GoTo(t, "null")
  /\ UNCHANGED <<args, mem, head, mutex, locals, held, calls, invalid, leaked, process>>

\* membench prints "out of memory" and calls abort().
Abort(t) ==
  /\ Running(t, "null")
  /\ process' = "aborted"
  /\ UNCHANGED <<args, mem, head, mutex, pc, locals, held, calls, invalid, leaked>>

-----------------------------------------------------------------------------
(* my_free.                                                                *)

CallFree(t) ==
  /\ Running(t, "idle")
  /\ \E b \in held[t] : ptr' = [ptr EXCEPT ![t] = b.lo]
  /\ GoTo(t, "free")
  /\ UNCHANGED <<args, mem, head, mutex, req, current, best, over, previous, held,
                 calls, invalid, leaked, process>>

StartFind(t) ==
  /\ Running(t, "free")
  /\ Acquire(t)
  /\ previous' = [previous EXCEPT ![t] = NULL]
  /\ current' = [current EXCEPT ![t] = head[ArenaOf(t)]]
  /\ GoTo(t, "find")
  /\ UNCHANGED <<args, mem, head, req, best, over, ptr, held, calls, invalid, leaked,
                 process>>

\* The block that is freed is the thread's until the list has it back.
Forget(t) == held' = [held EXCEPT ![t] = {b \in @ : b.lo # ptr[t]}]

Found(t) == current[t] = ptr[t] - HeaderSize

Find(t) ==
  /\ Running(t, "find")
  /\ current[t] # NULL
  /\ ~Found(t)
  /\ IF current[t] \in NodeAddr
     THEN /\ previous' = [previous EXCEPT ![t] = current[t]]
          /\ current' = [current EXCEPT ![t] = next(mem[ArenaOf(t)], current[t])]
          /\ UNCHANGED <<args, mem, head, mutex, pc, req, best, over, ptr, held, calls,
                         invalid, leaked, process>>
     ELSE Segfault(t)

Deallocate(t) ==
  /\ Running(t, "find")
  /\ Found(t)
  /\ IF next(mem[ArenaOf(t)], current[t]) \in NodeAddr \cup {NULL}
     THEN /\ mem' = [mem EXCEPT ![ArenaOf(t)] =
                       deallocate(@, current[t], previous[t])]
          /\ Forget(t)
          /\ GoTo(t, "freed")
          /\ UNCHANGED <<args, head, mutex, locals, calls, invalid, leaked, process>>
     ELSE Segfault(t)

\* After the loop: "Invalid my_free for address" if it has found nothing.
ReturnFree(t) ==
  /\ Running(t, "freed") \/ (Running(t, "find") /\ current[t] = NULL)
  /\ Release(t)
  /\ invalid' = (invalid \/ ~Found(t))
  /\ Return(t)
  /\ UNCHANGED <<args, mem, head, held, calls, leaked, process>>

-----------------------------------------------------------------------------
(* The end of a thread and of the process.                                 *)

\* teardown() of pool p looks at the head's block only.
TeardownWarns(p) ==
  /\ head[p] # NULL
  /\ \/ next(mem[p], head[p]) # NULL
     \/ block_size(mem[p], head[p]) # PoolSize - HeaderSize

\* A thread that is done; its own pool is torn down by the key's destructor.
ThreadExit(t) ==
  /\ Running(t, "idle")
  /\ calls[t] = args.calls
  /\ held[t] = {}
  /\ GoTo(t, "exit")
  /\ leaked' = (leaked \/ (PerThread /\ TeardownWarns(t)))
  /\ UNCHANGED <<args, mem, head, mutex, locals, held, calls, invalid, process>>

\* main has joined all threads; dlclose and exit tear the shared pool down.
ProcessExit ==
  /\ process = "running"
  /\ \A t \in args.threads : pc[t] = "exit"
  /\ leaked' = (leaked \/ (~PerThread /\ TeardownWarns("global")))
  /\ process' = "exited"
  /\ UNCHANGED <<args, mem, head, mutex, pc, locals, held, calls, invalid>>

Ended == process # "running" /\ UNCHANGED vars

Step(t) ==
  \/ CallMalloc(t) \/ StartScan(t) \/ Scan(t) \/ EndScan(t) \/ Allocate(t)
  \/ ReturnBlock(t) \/ ReturnNull(t) \/ Abort(t)
  \/ CallFree(t) \/ StartFind(t) \/ Find(t) \/ Deallocate(t) \/ ReturnFree(t)
  \/ ThreadExit(t)

Next == ProcessExit \/ Ended \/ \E t \in args.threads : Step(t)

Spec == Init /\ [][Next]_vars

\* A thread that is not blocked keeps running.
Fairness == WF_vars(ProcessExit) /\ \A t \in Thread : WF_vars(t \in args.threads /\ Step(t))

FairSpec == Spec /\ Fairness

-----------------------------------------------------------------------------
(* Type invariant.                                                         *)
Block == [lo : Address, size : Size]

TypeOK ==
  /\ args \in Arguments
  /\ mem \in [Arena -> [Address -> 0 .. Word - 1]]
  /\ head \in [Arena -> {NULL, Base}]
  /\ mutex \in Thread \cup {NoOne}
  /\ pc \in [Thread -> {"idle", "malloc", "scan", "fit", "allocated", "null",
                        "free", "find", "freed", "exit"}]
  /\ req \in [Thread -> Size \cup {0}]
  /\ current \in [Thread -> 0 .. Word - 1]
  /\ best \in [Thread -> NodeAddr \cup {NULL}]
  /\ over \in [Thread -> 0 .. INT_MAX]
  /\ previous \in [Thread -> NodeAddr \cup {NULL}]
  /\ ptr \in [Thread -> Address \cup {NULL}]
  /\ held \in [Thread -> SUBSET Block]
  /\ calls \in [Thread -> 0 .. args.calls]
  /\ invalid \in BOOLEAN /\ leaked \in BOOLEAN
  /\ process \in {"running", "exited", "aborted", "crashed"}

\* The nodes of the list that begins at first, up to the one whose next is
\* NULL.  The list is cut where it leaves the pool.
ListNodes(m, first) ==
  LET at[k \in 0 .. PoolSize] ==
        IF k = 0 THEN first
        ELSE IF at[k - 1] \in NodeAddr THEN next(m, at[k - 1]) ELSE NULL
  IN {at[k] : k \in 0 .. PoolSize} \cap NodeAddr

Nodes(p) == ListNodes(mem[p], head[p])

PoolEnd == Base + PoolSize

(* The list tiles the pool: the blocks follow one another in the order of  *)
(* their addresses without gap or overlap, from the pool's first word to   *)
(* its last, whatever was allocated, split, freed and merged.              *)
ListTilesPool ==
  \A p \in Arena : \A a \in Nodes(p) :
    LET end == a + HeaderSize + block_size(mem[p], a) IN
    next(mem[p], a) = IF end = PoolEnd THEN NULL ELSE end

(* Freeing merges completely: there are never two free blocks side by      *)
(* side, so that a request is not refused for want of a merge, and in the  *)
(* end the pool is one block again: teardown warns of nothing.             *)
NoFreeNeighbours ==
  /\ \A p \in Arena : \A a \in Nodes(p) :
       LET b == next(mem[p], a) IN
       b # NULL => ~(is_free(mem[p], a) /\ is_free(mem[p], b))
  /\ ~leaked

\* The blocks that the list has given to thread t and not taken back.
InHand(t) ==
  held[t] \cup
    CASE pc[t] = "allocated" -> {[lo |-> best[t] + HeaderSize, size |-> req[t]]}
      [] OTHER -> {}

(* The busy blocks of the list are those that the threads have, are about  *)
(* to get or are giving back, and each belongs to one thread: no block is  *)
(* handed out twice, none is lost, and my_free knows what it is given.     *)
BusyExact ==
  \A p \in Arena :
    LET users == {t \in Thread : ArenaOf(t) = p} IN
    /\ {a + HeaderSize : a \in {n \in Nodes(p) : ~is_free(mem[p], n)}} =
         UNION {{b.lo : b \in InHand(t)} : t \in users}
    /\ \A t, u \in users :
         t # u => {b.lo : b \in InHand(t)} \cap {b.lo : b \in InHand(u)} = {}
    /\ ~invalid

(* The search finds the best fit: at its end best_fit is a free block that *)
(* is large enough and no other free block is tighter, and it is NULL only *)
(* if no free block is large enough.  The list is read over many steps;    *)
(* this is about what is true when the block is taken.                     *)
BestFitFound ==
  \A t \in Thread : pc[t] = "fit" =>
    LET m == mem[ArenaOf(t)]
        fitting == {a \in Nodes(ArenaOf(t)) :
                      is_free(m, a) /\ block_size(m, a) >= req[t]}
    IN IF fitting = {}
       THEN best[t] = NULL
       ELSE /\ best[t] \in fitting
            /\ \A a \in fitting : block_size(m, best[t]) <= block_size(m, a)

\* The abstract heap.
LargestBlock == PoolSize - HeaderSize

H == INSTANCE Heap
       WITH Capacity <- LargestBlock,
            inUse <- [p \in Arena |->
                        UNION {InHand(t) : t \in {u \in Thread : ArenaOf(u) = p}}],
            refused <- \E t \in Thread : pc[t] = "null"

(* The allocator implements the abstract heap: blocks in use lie in the    *)
(* pool and are disjoint, and an unused pool serves what fits it.          *)
ImplementsHeap == H!Spec

(* The walks over the list end and nobody waits for the mutex for ever:    *)
(* all threads get through their calls and are joined, or one of them      *)
(* aborts the process because it was refused a block.                      *)
Termination == <>(process \in {"exited", "aborted"})

-----------------------------------------------------------------------------
(* What the exercise sheets say and the code does not do.                  *)

(* exercise09/README.md: "a memory segment of size S is allocated".  No    *)
(* word of a segment that a client has is part of a list node.             *)
SegmentHasItsSize ==
  \A p \in Arena : \A t \in Thread : \A b \in held[t] :
    ArenaOf(t) = p =>
      \A a \in Nodes(p) :
        (a .. a + HeaderSize - 1) \cap (b.lo .. b.lo + b.size - 1) = {}
=============================================================================
