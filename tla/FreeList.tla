------------------------------ MODULE FreeList ------------------------------
(***************************************************************************)
(* exercise10/task2/task2.c: a free list allocator.  New blocks are split  *)
(* off the unallocated end of one big block, freed blocks go to a list per *)
(* power of two.  The clients are the threads of exercise10/task1/         *)
(* membench.c: N allocations, each freed with a coin, N/2 more, and the    *)
(* rest is freed.  The build never defines LOCAL_ALLOCATOR (the Makefile   *)
(* says -LOCAL_ALLOCATOR), so the allocator is the global one.             *)
(***************************************************************************)
EXTENDS Integers, FiniteSets

CONSTANTS Thread,         (* the threads of membench                    *)
          N,              (* the allocations of a thread                *)
          Size,           (* the sizes that are asked for               *)
          MEMBLOCK_SIZE,  (* 2^28 in the source                         *)
          SLAB_MAX        (* 20 in the source                           *)

HeaderSize == 2    \* sizeof(header_t), in the unit of the sizes
NULL == 0
Base == 1          \* where calloc puts the memory block
End == Base + MEMBLOCK_SIZE
NoOne == "nobody"

\* (int)ceil(log2(size)) for sizes that have a slab.
Slab(size) == CHOOSE k \in 0 .. SLAB_MAX :
                size <= 2 ^ k /\ \A j \in 0 .. k - 1 : size > 2 ^ j

ASSUME FreeListAssumption ==
  /\ NoOne \notin Thread
  /\ N \in Nat \ {0}
  /\ MEMBLOCK_SIZE \in Nat /\ MEMBLOCK_SIZE > HeaderSize
  /\ SLAB_MAX \in Nat
  /\ Size \subseteq 1 .. 2 ^ SLAB_MAX

Header == Base .. End - HeaderSize   \* the addresses where a header fits
Index == 0 .. N + N \div 2 - 1

VARIABLES
  memblock,  \* NULL, or Base after init_allocator
  slabs,     \* slabs[k]: slabs[k]->next
  last,      \* slabs[0]->last: where the unallocated space begins
  left,      \* slabs[0]->size: how much of it there is
  hdr,       \* hdr[a]: the header_t at address a
  mutex,     \* who holds the mutex, or NoOne
  pc,        \* pc[t]: where thread t is
  size,      \* size[t]: the argument of my_malloc
  block,     \* block[t] of my_malloc; delete[t] of my_free
  current,   \* current[t] of my_free
  loop,      \* loop[t]: which of the four loops of thread_fn t is in
  i,         \* i[t]: the index of that loop
  array,     \* array[t]: block[] of thread_fn
  process    \* "running", "exited" or "aborted"

locals == <<size, block, current>>
allocator == <<memblock, slabs, last, left, hdr>>
client == <<loop, i, array>>
vars == <<allocator, mutex, pc, locals, client, process>>

Init ==
  /\ memblock = NULL
  /\ slabs = [k \in 0 .. SLAB_MAX |-> NULL]
  /\ last = NULL
  /\ left = 0
  /\ hdr = [a \in Header |-> [next |-> NULL, size |-> 0]]
  /\ mutex = NoOne
  /\ pc = [t \in Thread |-> "loop"]
  /\ size = [t \in Thread |-> 0]
  /\ block = [t \in Thread |-> NULL]
  /\ current = [t \in Thread |-> NULL]
  /\ loop = [t \in Thread |-> 1]
  /\ i = [t \in Thread |-> 0]
  /\ array = [t \in Thread |-> [k \in Index |-> NULL]]
  /\ process = "running"

Running(t, at) == process = "running" /\ pc[t] = at
GoTo(t, at) == pc' = [pc EXCEPT ![t] = at]

-----------------------------------------------------------------------------
(* my_malloc.                                                              *)

\* The head of the list of slab k is taken out of it, if there is one.
Pop(t, k, lists) ==
  /\ block' = [block EXCEPT ![t] = lists[k]]
  /\ slabs' = IF lists[k] = NULL THEN lists
              ELSE [lists EXCEPT ![k] = hdr[lists[k]].next]

\* Mutant of EnterMalloc: the mutex is forgotten.
EnterMalloc_NoLock(t) ==
  /\ Running(t, "malloc")
  /\ IF memblock # NULL
     THEN /\ Pop(t, Slab(size[t]), slabs)
          /\ UNCHANGED <<memblock, last, left>>
     ELSE /\ memblock' = Base
          /\ last' = Base
          /\ left' = MEMBLOCK_SIZE
          /\ Pop(t, Slab(size[t]), [slabs EXCEPT ![0] = Base])
  /\ GoTo(t, "split")
  /\ UNCHANGED <<hdr, mutex, size, current, client, process>>

\* Locks and pops; init_allocator is called on the first use.  It begins
\* the list of slab 0 with the unallocated space itself.
EnterMalloc(t) ==
  /\ Running(t, "malloc")
  /\ mutex = NoOne
  /\ mutex' = t
  /\ IF memblock # NULL
     THEN /\ Pop(t, Slab(size[t]), slabs)
          /\ UNCHANGED <<memblock, last, left>>
     ELSE /\ memblock' = Base
          /\ last' = Base
          /\ left' = MEMBLOCK_SIZE
          /\ Pop(t, Slab(size[t]), [slabs EXCEPT ![0] = Base])
  /\ GoTo(t, "split")
  /\ UNCHANGED <<hdr, size, current, client, process>>

\* The memory block cannot be had: NULL is returned, the mutex stays locked.
InitFails(t) ==
  /\ Running(t, "malloc")
  /\ mutex = NoOne
  /\ memblock = NULL
  /\ mutex' = t
  /\ size' = [size EXCEPT ![t] = 0]
  /\ GoTo(t, "returned")
  /\ UNCHANGED <<allocator, block, current, client, process>>

Need(t) == size[t] + HeaderSize

\* A new block begins where the unallocated space does, whatever has been
\* popped.
Split(t) ==
  /\ Running(t, "split")
  /\ left >= Need(t)
  /\ block' = [block EXCEPT ![t] = last]
  /\ hdr' = [hdr EXCEPT ![last].size = size[t]]
  /\ GoTo(t, "shift")
  /\ UNCHANGED <<memblock, slabs, last, left, mutex, size, current, client,
                 process>>

\* Mutant of Shift: the header is not taken off the room that is left.
Shift_NoHeader(t) ==
  /\ Running(t, "shift")
  /\ left' = left - size[t]
  /\ last' = block[t] + Need(t)
  /\ mutex' = NoOne
  /\ size' = [size EXCEPT ![t] = 0]
  /\ GoTo(t, "returned")
  /\ UNCHANGED <<memblock, slabs, hdr, block, current, client, process>>

\* The unallocated space begins behind the block; the mutex is unlocked.
Shift(t) ==
  /\ Running(t, "shift")
  /\ left' = left - Need(t)
  /\ last' = block[t] + Need(t)
  /\ mutex' = NoOne
  /\ size' = [size EXCEPT ![t] = 0]
  /\ GoTo(t, "returned")
  /\ UNCHANGED <<memblock, slabs, hdr, block, current, client, process>>

\* "Not enough memory left for allocation", whatever has been popped.
Refuse(t) ==
  /\ Running(t, "split")
  /\ left < Need(t)
  /\ block' = [block EXCEPT ![t] = NULL]
  /\ mutex' = NoOne
  /\ size' = [size EXCEPT ![t] = 0]
  /\ GoTo(t, "returned")
  /\ UNCHANGED <<allocator, current, client, process>>

-----------------------------------------------------------------------------
(* my_free.                                                                *)

\* Locks and looks up the list of the block's size.
EnterFree(t) ==
  LET k == Slab(hdr[block[t]].size) IN
  /\ Running(t, "free")
  /\ mutex = NoOne
  /\ mutex' = t
  /\ IF slabs[k] = NULL
     THEN /\ slabs' = [slabs EXCEPT ![k] = block[t]]
          /\ GoTo(t, "freed")
          /\ UNCHANGED current
     ELSE /\ current' = [current EXCEPT ![t] = slabs[k]]
          /\ GoTo(t, "walk")
          /\ UNCHANGED slabs
  /\ UNCHANGED <<memblock, last, left, hdr, size, block, client, process>>

Walk(t) ==
  /\ Running(t, "walk")
  /\ hdr[current[t]].next # NULL
  /\ current' = [current EXCEPT ![t] = hdr[@].next]
  /\ UNCHANGED <<allocator, mutex, pc, size, block, client, process>>

\* Mutant of Enqueue: the block is linked to the list and to itself.
Enqueue_Ring(t) ==
  /\ Running(t, "walk")
  /\ hdr[current[t]].next = NULL
  /\ hdr' = [hdr EXCEPT ![current[t]].next = block[t],
                        ![block[t]].next = block[t]]
  /\ current' = [current EXCEPT ![t] = NULL]
  /\ GoTo(t, "freed")
  /\ UNCHANGED <<memblock, slabs, last, left, mutex, size, block, client, process>>

\* The block is linked behind the last one of the list.
Enqueue(t) ==
  /\ Running(t, "walk")
  /\ hdr[current[t]].next = NULL
  /\ hdr' = [hdr EXCEPT ![current[t]].next = block[t]]
  /\ current' = [current EXCEPT ![t] = NULL]
  /\ GoTo(t, "freed")
  /\ UNCHANGED <<memblock, slabs, last, left, mutex, size, block, client, process>>

-----------------------------------------------------------------------------
(* thread_fn and main of membench.                                         *)

Rounds(l) == CASE l = 1 -> N [] l = 2 -> N [] l = 3 -> N \div 2
               [] l = 4 -> N + N \div 2

InLoop(t, l) == Running(t, "loop") /\ loop[t] = l

\* The next round of the loop or, after the last one, of the next loop that
\* has any; after the last loop the thread is at its end.
Advance(t) ==
  IF i[t] + 1 < Rounds(loop[t])
  THEN i' = [i EXCEPT ![t] = @ + 1] /\ UNCHANGED loop /\ GoTo(t, "loop")
  ELSE /\ i' = [i EXCEPT ![t] = 0]
       /\ loop' = [loop EXCEPT ![t] = IF N = 1 /\ @ = 2 THEN 4
                                      ELSE IF @ = 4 THEN 1 ELSE @ + 1]
       /\ GoTo(t, IF loop[t] = 4 THEN "exit" ELSE "loop")

\* Where the result of my_malloc is stored.
Target(t) == IF loop[t] = 3 THEN i[t] + N ELSE i[t]

CallMalloc(t) ==
  /\ InLoop(t, 1) \/ InLoop(t, 3)
  /\ \E s \in Size : size' = [size EXCEPT ![t] = s]
  /\ GoTo(t, "malloc")
  /\ UNCHANGED <<allocator, mutex, block, current, client, process>>

\* The result is stored; what is tested is block[i] in both loops.
Store(t) ==
  /\ Running(t, "returned")
  /\ array' = [array EXCEPT ![t][Target(t)] = block[t]]
  /\ IF array'[t][i[t]] = NULL
     THEN process' = "aborted" /\ UNCHANGED <<i, loop, pc>>
     ELSE Advance(t) /\ UNCHANGED process
  /\ block' = [block EXCEPT ![t] = NULL]
  /\ UNCHANGED <<allocator, mutex, size, current>>

CallFree(t) ==
  /\ InLoop(t, 2) \/ InLoop(t, 4)
  /\ array[t][i[t]] # NULL
  /\ block' = [block EXCEPT ![t] = array[t][i[t]]]
  /\ GoTo(t, "free")
  /\ UNCHANGED <<allocator, mutex, size, current, client, process>>

\* The coin of the second loop, and blocks that are freed already.
SkipFree(t) ==
  /\ InLoop(t, 2) \/ (InLoop(t, 4) /\ array[t][i[t]] = NULL)
  /\ Advance(t)
  /\ UNCHANGED <<allocator, mutex, locals, array, process>>

\* Mutant of LeaveFree: the block stays in the thread's array.
LeaveFree_Kept(t) ==
  /\ Running(t, "freed")
  /\ mutex' = NoOne
  /\ block' = [block EXCEPT ![t] = NULL]
  /\ Advance(t)
  /\ UNCHANGED <<allocator, size, current, array, process>>

LeaveFree(t) ==
  /\ Running(t, "freed")
  /\ mutex' = NoOne
  /\ array' = [array EXCEPT ![t][i[t]] = NULL]
  /\ block' = [block EXCEPT ![t] = NULL]
  /\ Advance(t)
  /\ UNCHANGED <<allocator, size, current, process>>

\* main has joined all threads; destroy_allocator runs at exit.
ProcessExit ==
  /\ process = "running"
  /\ \A t \in Thread : pc[t] = "exit"
  /\ process' = "exited"
  /\ memblock' = NULL
  /\ UNCHANGED <<slabs, last, left, hdr, mutex, pc, locals, client>>

Ended == process # "running" /\ UNCHANGED vars

Step(t) ==
  \/ EnterMalloc(t) \/ InitFails(t) \/ Split(t) \/ Shift(t)
  \/ Refuse(t)
  \/ EnterFree(t) \/ Walk(t) \/ Enqueue(t)
  \/ CallMalloc(t) \/ Store(t) \/ CallFree(t) \/ SkipFree(t) \/ LeaveFree(t)

Next == ProcessExit \/ Ended \/ \E t \in Thread : Step(t)

Spec == Init /\ [][Next]_vars

\* A thread that is not blocked keeps running.
Fairness == WF_vars(ProcessExit) /\ \A t \in Thread : WF_vars(Step(t))

FairSpec == Spec /\ Fairness

-----------------------------------------------------------------------------
(* Type invariant.                                                         *)
TypeOK ==
  /\ memblock \in {NULL, Base}
  /\ slabs \in [0 .. SLAB_MAX -> Header \cup {NULL}]
  /\ last \in {NULL} \cup Base .. End
  /\ left \in 0 .. MEMBLOCK_SIZE
  /\ hdr \in [Header -> [next : Header \cup {NULL}, size : Size \cup {0}]]
  /\ mutex \in Thread \cup {NoOne}
  /\ pc \in [Thread -> {"loop", "malloc", "split", "shift", "returned", "free",
                        "walk", "freed", "exit"}]
  /\ size \in [Thread -> Size \cup {0}]
  /\ block \in [Thread -> Header \cup {NULL}]
  /\ current \in [Thread -> Header \cup {NULL}]
  /\ loop \in [Thread -> 1 .. 4]
  /\ i \in [Thread -> 0 .. N + N \div 2]
  /\ array \in [Thread -> [Index -> Header \cup {NULL}]]
  /\ process \in {"running", "exited", "aborted"}

NextBlock(a) == a + HeaderSize + hdr[a].size

\* The headers on the way from the address first, one after the other.
Chain(first, succ) ==
  LET at[k \in 0 .. MEMBLOCK_SIZE] ==
        IF k = 0 THEN first
        ELSE IF at[k - 1] \in Header THEN succ[at[k - 1]] ELSE NULL
  IN {at[k] : k \in 0 .. MEMBLOCK_SIZE} \cap Header

\* The blocks that have been split off: the headers from Base to last.
Blocks ==
  Chain(Base, [a \in Header |-> IF a < last THEN NextBlock(a) ELSE NULL]) \ {last}

(* Nothing is lost or counted twice: the blocks follow one another from    *)
(* the start of the memory to where the unallocated space begins, and that *)
(* space and its recorded size reach to the end.                           *)
SpaceExact ==
  last # NULL =>
    /\ last + left = End
    /\ \A a \in Blocks : a < last /\ NextBlock(a) <= last

\* The blocks of thread t: those in its array and the one my_malloc returns.
\* A block that is freed is its own until the list has it.
InHand(t) ==
  {a \in {array[t][k] : k \in Index} \cup
         (IF pc[t] = "returned" THEN {block[t]} ELSE {}) :
     a # NULL /\ ~(pc[t] = "freed" /\ a = block[t])}

\* The blocks in the list of slab k.
Listed(k) == Chain(slabs[k], [a \in Header |-> hdr[a].next])

(* A block is not in a list while a thread has it, but for the first one,  *)
(* with which slab 0 begins.                                               *)
ListedAreFree ==
  \A k \in DOMAIN slabs : \A a \in Listed(k) \ {Base}, t \in Thread : a \notin InHand(t)

H == INSTANCE Heap
       WITH Arena <- {"global"},
            Address <- Base .. End - 1,
            Capacity <- MEMBLOCK_SIZE - HeaderSize,
            inUse <- [p \in {"global"} |->
                        {[lo |-> a + HeaderSize, size |-> hdr[a].size] :
                           a \in UNION {InHand(t) : t \in Thread}}],
            refused <- \E t \in Thread : pc[t] = "returned" /\ block[t] = NULL

(* The blocks that the threads have lie in the memory block and do not     *)
(* overlap.  The other half of the abstract heap's promise, that an unused *)
(* pool serves what fits it, is not kept.                                  *)
ImplementsHeap == H!SafeSpec

(* No thread waits for the mutex for ever, and no walk of my_free is over  *)
(* a list that is closed to a ring, although the list of slab 0 begins     *)
(* with the unallocated space and so runs into whichever list the first    *)
(* block is freed to: the benchmark ends.                                  *)
Termination == <>(process \in {"exited", "aborted"})

=============================================================================
