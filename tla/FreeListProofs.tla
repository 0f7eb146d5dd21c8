--------------------------- MODULE FreeListProofs ---------------------------
(***************************************************************************)
(* Proofs about FreeList, for every number of threads and of allocations,  *)
(* all sizes and every size of the memory.  It implements the safe part of *)
(* the abstract heap: no block overlaps another one because all of them    *)
(* lie before the unallocated space, of which each was the beginning while *)
(* its thread held the mutex; the lists, whatever they hold, do not matter.*)
(* And no block is forgotten because a result of my_malloc is only stored  *)
(* where the array is empty.  The second half is about the lists and the   *)
(* space that is left.                                                     *)
(***************************************************************************)
EXTENDS FreeList, FiniteSetTheorems, TLAPS

USE FreeListAssumption

\* What the provers need to know of the types.  `slabs` and `current` are
\* left out: no list decides where a block lies.
Types ==
  /\ memblock \in {NULL, Base}
  /\ hdr \in [Header -> [next : Header \cup {NULL}, size : Size \cup {0}]]
  /\ mutex \in Thread \cup {NoOne}
  /\ pc \in [Thread -> {"loop", "malloc", "split", "shift", "returned", "free",
                        "walk", "freed", "exit"}]
  /\ size \in [Thread -> Size \cup {0}]
  /\ DOMAIN block = Thread
  /\ loop \in [Thread -> 1 .. 4]
  /\ i \in [Thread -> Nat]
  /\ array \in [Thread -> [Index -> Header \cup {NULL}]]

\* What the position of thread t says of its variables.
Position(t) ==
  /\ pc[t] \in {"split", "shift", "walk", "freed"} => mutex = t
  /\ pc[t] \in {"malloc", "split", "shift"} => size[t] \in Size
  /\ pc[t] \in {"split", "shift"} => memblock = Base
  /\ pc[t] = "shift" => /\ block[t] = last
                        /\ left >= Need(t)
                        /\ hdr[last].size = size[t]
  /\ pc[t] \in {"loop", "malloc", "exit"} => block[t] = NULL
  /\ pc[t] \in {"malloc", "split", "shift", "returned"} => loop[t] \in {1, 3}
  /\ pc[t] \in {"free", "walk", "freed"} => /\ block[t] = array[t][i[t]]
                                            /\ block[t] # NULL
                                            /\ loop[t] \in {2, 4}
  /\ pc[t] # "exit" => i[t] < Rounds(loop[t])

\* The slots that thread t has still to fill are empty.
EmptySlots(t) ==
  \A k \in Index :
    /\ pc[t] # "exit"
    /\ \/ loop[t] = 1 /\ k >= i[t]
       \/ loop[t] = 2 /\ k >= N
       \/ loop[t] = 3 /\ k >= N + i[t]
    => array[t][k] = NULL

\* Where a thread can have a block: in its array, or returned by my_malloc.
Returned == -1
Place == Index \cup {Returned}
Content(t, k) ==
  IF k = Returned THEN IF pc[t] = "returned" THEN block[t] ELSE NULL
                  ELSE array[t][k]

Behind(a) == a + HeaderSize + hdr[a].size
Inside(a) == a \in Header /\ hdr[a].size \in Size /\ Behind(a) <= last
Apart(a, b) == Behind(a) <= b \/ Behind(b) <= a

\* The blocks that threads have lie before the unallocated space, each at
\* one place and apart from the others.
Layout ==
  \A t \in Thread, k \in Place :
    Content(t, k) # NULL =>
      /\ Inside(Content(t, k))
      /\ \A u \in Thread, l \in Place :
           Content(u, l) # NULL /\ <<u, l>> # <<t, k>> =>
             Apart(Content(t, k), Content(u, l))

Unallocated == memblock = Base => last \in Base .. End /\ left = End - last

Unused ==
  process = "running" /\ memblock = NULL =>
    \A t \in Thread, k \in Place : Content(t, k) = NULL

IInv ==
  /\ Types
  /\ Layout
  /\ Unallocated
  /\ Unused
  /\ \A t \in Thread : Position(t)
  /\ process = "running" => \A t \in Thread : EmptySlots(t)

-----------------------------------------------------------------------------
(* Constants, and the loops of a thread.                                   *)

LEMMA Constants ==
  /\ Base \in Nat /\ End \in Nat /\ End > Base + HeaderSize
  /\ NULL \notin Header /\ Header \subseteq Nat
  /\ \A s \in Size : s \in Nat /\ s > 0
  /\ Returned \notin Index
  <1>1. \A s \in Size : s \in Nat /\ s > 0
    OBVIOUS
  <1>2. QED BY <1>1 DEF Base, End, HeaderSize, NULL, Header, Returned, Index

LEMMA Rooms ==
  ASSUME NEW l \in 1 .. 4, NEW j \in Nat, j < Rounds(l)
  PROVE  /\ j \in Index
         /\ l = 1 => j < N
         /\ l = 3 => j + N \in Index
  <1>1. N \div 2 \in Nat /\ N \in Nat
    OBVIOUS
  <1>2. QED BY <1>1 DEF Rounds, Index

\* The next round, or the first of the next loop that has any.
LEMMA AdvanceSteps ==
  ASSUME Types, NEW t \in Thread, i[t] < Rounds(loop[t]), Advance(t)
  PROVE  /\ pc' \in [Thread -> {"loop", "malloc", "split", "shift", "returned", "free",
                                "walk", "freed", "exit"}]
         /\ loop' \in [Thread -> 1 .. 4]
         /\ i' \in [Thread -> Nat]
         /\ i'[t] <= N + N \div 2
         /\ pc'[t] \in {"loop", "exit"}
         /\ \A u \in Thread \ {t} : pc'[u] = pc[u] /\ loop'[u] = loop[u] /\ i'[u] = i[u]
         /\ pc'[t] = "loop" => /\ i'[t] < Rounds(loop'[t])
                               /\ \/ loop'[t] = loop[t] /\ i'[t] = i[t] + 1
                                  \/ loop[t] = 1 /\ loop'[t] = 2
                                  \/ loop[t] = 2 /\ loop'[t] = 3 /\ i'[t] = 0
                                  \/ loop'[t] = 4
  <1>1. /\ N \div 2 \in Nat /\ N \in Nat /\ N > 0
        /\ N # 1 => N \div 2 > 0
    OBVIOUS
  <1>2. /\ Rounds(1) = N /\ Rounds(2) = N /\ Rounds(3) = N \div 2
        /\ Rounds(4) = N + N \div 2
    BY DEF Rounds
  <1>3. i[t] \in Nat /\ loop[t] \in 1 .. 4
    BY DEF Types
  <1>4. CASE i[t] + 1 < Rounds(loop[t])
    <2>1. Rounds(loop[t]) <= N + N \div 2
      BY <1>1, <1>2, <1>3
    <2>2. i' = [i EXCEPT ![t] = i[t] + 1] /\ loop' = loop /\ pc' = [pc EXCEPT ![t] = "loop"]
      BY <1>4 DEF Advance, GoTo
    <2>3. i'[t] = i[t] + 1 /\ i'[t] <= N + N \div 2 /\ loop'[t] = loop[t]
      BY <1>1, <1>2, <1>3, <1>4, <2>1, <2>2 DEF Types
    <2>4. QED BY <1>3, <1>4, <2>2, <2>3 DEF Types
  <1>5. CASE ~ (i[t] + 1 < Rounds(loop[t]))
    <2>1. /\ i' = [i EXCEPT ![t] = 0]
          /\ loop' = [loop EXCEPT ![t] = IF N = 1 /\ loop[t] = 2 THEN 4
                                         ELSE IF loop[t] = 4 THEN 1 ELSE loop[t] + 1]
          /\ pc' = [pc EXCEPT ![t] = IF loop[t] = 4 THEN "exit" ELSE "loop"]
      BY <1>5 DEF Advance, GoTo
    <2>2. loop' \in [Thread -> 1 .. 4] /\ i' \in [Thread -> Nat]
      BY <2>1, <1>3 DEF Types
    <2>3. /\ pc' \in [Thread -> {"loop", "malloc", "split", "shift", "returned", "free",
                                 "walk", "freed", "exit"}]
          /\ pc'[t] = IF loop[t] = 4 THEN "exit" ELSE "loop"
      BY <2>1 DEF Types
    <2>4. \A u \in Thread \ {t} : pc'[u] = pc[u] /\ loop'[u] = loop[u] /\ i'[u] = i[u]
      BY <2>1 DEF Types
    <2>5. /\ i'[t] = 0
          /\ loop'[t] = IF N = 1 /\ loop[t] = 2 THEN 4
                        ELSE IF loop[t] = 4 THEN 1 ELSE loop[t] + 1
      BY <2>1 DEF Types
    <2>6. ASSUME loop[t] # 4
          PROVE  /\ 0 < Rounds(loop'[t])
                 /\ \/ loop[t] = 1 /\ loop'[t] = 2
                    \/ loop[t] = 2 /\ loop'[t] = 3
                    \/ loop'[t] = 4
      <3>1. CASE loop[t] = 1
        BY <3>1, <2>5, <1>1, <1>2
      <3>2. CASE loop[t] = 2
        BY <3>2, <2>5, <1>1, <1>2
      <3>3. CASE loop[t] = 3
        BY <3>3, <2>5, <1>1, <1>2
      <3>4. QED BY <3>1, <3>2, <3>3, <2>6, <1>3
    <2>7. QED BY <2>2, <2>3, <2>4, <2>5, <2>6
  <1>6. QED BY <1>4, <1>5

-----------------------------------------------------------------------------
(* The layout of the blocks.                                               *)

\* No block moves; some may be given up.
LEMMA LayoutShrinks ==
  ASSUME Layout,
         \A u \in Thread, k \in Place : Content(u, k)' \in {Content(u, k), NULL},
         \A b \in Header : Inside(b) => Inside(b)' /\ hdr'[b].size = hdr[b].size
  PROVE  Layout'
  <1> SUFFICES ASSUME NEW u \in Thread, NEW k \in Place, Content(u, k)' # NULL
               PROVE  /\ Inside(Content(u, k))'
                      /\ \A v \in Thread, l \in Place :
                           Content(v, l)' # NULL /\ <<v, l>> # <<u, k>> =>
                             Apart(Content(u, k), Content(v, l))'
    BY DEF Layout, Place, Index, Returned
  <1>1. Content(u, k)' = Content(u, k) /\ Content(u, k) # NULL /\ Inside(Content(u, k))
    BY DEF Layout
  <1>2. /\ Content(u, k) \in Header
        /\ hdr'[Content(u, k)].size = hdr[Content(u, k)].size
    BY <1>1 DEF Inside
  <1>3. Inside(Content(u, k))'
    BY <1>1, <1>2 DEF Inside, Behind
  <1>4. ASSUME NEW v \in Thread, NEW l \in Place, Content(v, l)' # NULL, <<v, l>> # <<u, k>>
        PROVE  Apart(Content(u, k), Content(v, l))'
    <2>1. Content(v, l)' = Content(v, l) /\ Content(v, l) # NULL /\ Inside(Content(v, l))
      BY <1>4 DEF Layout
    <2>2. hdr'[Content(v, l)].size = hdr[Content(v, l)].size
      BY <2>1 DEF Inside
    <2>3. Apart(Content(u, k), Content(v, l))
      BY <1>1, <1>4, <2>1 DEF Layout
    <2>4. QED BY <1>1, <1>2, <2>1, <2>2, <2>3 DEF Apart, Behind
  <1>5. QED BY <1>3, <1>4

\* A block is moved from the place k of thread t to its place m.
LEMMA LayoutMoves ==
  ASSUME Layout, UNCHANGED <<hdr, last>>,
         NEW t \in Thread, NEW k \in Place, NEW m \in Place,
         k # m,
         Content(t, k)' = NULL, Content(t, m)' = Content(t, k),
         \A u \in Thread, l \in Place :
           <<u, l>> \notin {<<t, k>>, <<t, m>>} => Content(u, l)' = Content(u, l)
  PROVE  Layout'
  <1> SUFFICES ASSUME NEW u \in Thread, NEW j \in Place, Content(u, j)' # NULL
               PROVE  /\ Inside(Content(u, j))'
                      /\ \A v \in Thread, l \in Place :
                           Content(v, l)' # NULL /\ <<v, l>> # <<u, j>> =>
                             Apart(Content(u, j), Content(v, l))'
    BY DEF Layout, Place, Index, Returned
  <1>0. \A b : Inside(b) => b \in Header
    BY DEF Inside
  <1>1. \A v \in Thread, l \in Place : Content(v, l)' # NULL =>
          \E w \in Thread, n \in Place :
            /\ Content(v, l)' = Content(w, n)
            /\ <<w, n>> = IF <<v, l>> = <<t, m>> THEN <<t, k>> ELSE <<v, l>>
            /\ <<v, l>> # <<t, k>>
    OBVIOUS
  <1>2. PICK w \in Thread, n \in Place :
          /\ Content(u, j)' = Content(w, n)
          /\ <<w, n>> = IF <<u, j>> = <<t, m>> THEN <<t, k>> ELSE <<u, j>>
          /\ <<u, j>> # <<t, k>>
    BY <1>1
  <1>3. Inside(Content(w, n))
    BY <1>2 DEF Layout
  <1>4. Inside(Content(u, j))'
    BY <1>2, <1>3 DEF Inside, Behind
  <1>5. ASSUME NEW v \in Thread, NEW l \in Place, Content(v, l)' # NULL, <<v, l>> # <<u, j>>
        PROVE  Apart(Content(u, j), Content(v, l))'
    <2>1. PICK x \in Thread, y \in Place :
            /\ Content(v, l)' = Content(x, y)
            /\ <<x, y>> = IF <<v, l>> = <<t, m>> THEN <<t, k>> ELSE <<v, l>>
            /\ <<v, l>> # <<t, k>>
      BY <1>5, <1>1
    <2>2. <<x, y>> # <<w, n>>
      BY <1>2, <1>5, <2>1
    <2>3. Apart(Content(w, n), Content(x, y))
      BY <1>2, <1>5, <2>1, <2>2 DEF Layout
    <2>4. QED BY <1>2, <2>1, <2>3 DEF Apart, Behind
  <1>6. QED BY <1>4, <1>5

LEMMA InitIInv == Init => IInv
  <1> SUFFICES ASSUME Init PROVE IInv
    OBVIOUS
  <1>1. Types
    <2>1. hdr \in [Header -> [next : Header \cup {NULL}, size : Size \cup {0}]]
      BY DEF Init
    <2>2. QED BY <2>1 DEF Init, Types
  <1>2. \A t \in Thread, k \in Place : Content(t, k) = NULL
    BY DEF Init, Content, Place
  <1>3. Layout
    BY <1>2 DEF Layout
  <1>4. Unallocated /\ Unused
    BY <1>2 DEF Init, Unallocated, Unused, NULL, Base
  <1>5. \A t \in Thread : Position(t)
    BY DEF Init, Position, Rounds, NoOne
  <1>6. \A t \in Thread : EmptySlots(t)
    BY DEF Init, EmptySlots
  <1>7. QED BY <1>1, <1>3, <1>4, <1>5, <1>6 DEF IInv

-----------------------------------------------------------------------------
(* The invariant is kept by every step.                                    *)

\* A thread whose variables a step of another one leaves alone.
LEMMA PositionOfOthers ==
  ASSUME NEW u \in Thread, Position(u),
         pc'[u] = pc[u], size'[u] = size[u], block'[u] = block[u],
         loop'[u] = loop[u], i'[u] = i[u], array'[u] = array[u],
         \/ pc[u] \notin {"split", "shift", "walk", "freed"}
         \/ UNCHANGED <<mutex, memblock, last, left>> /\ hdr'[last].size = hdr[last].size
  PROVE  Position(u)'
  BY DEF Position, Need

\* What the thread that holds the mutex, or the one that takes it, may do.
LEMMA OthersAreOutside ==
  ASSUME \A u \in Thread : Position(u), NEW t \in Thread, mutex \in {t, NoOne}
  PROVE  \A u \in Thread \ {t} : pc[u] \notin {"split", "shift", "walk", "freed"}
  BY DEF Position

LEMMA EmptySlotsKept ==
  ASSUME NEW u \in Thread, EmptySlots(u),
         pc'[u] = pc[u] \/ pc[u] # "exit",
         loop'[u] = loop[u], i'[u] = i[u], array'[u] = array[u]
  PROVE  EmptySlots(u)'
  BY DEF EmptySlots

LEMMA EnterMallocIInv ==
  ASSUME IInv, NEW t \in Thread, EnterMalloc(t)
  PROVE  IInv'
  <1> USE DEF Running, GoTo, allocator, client, locals
  <1>a. process = "running" /\ Types /\ Layout /\ Unallocated /\ Unused
    BY DEF IInv, EnterMalloc, Pop
  <1>b. \A u \in Thread : Position(u) /\ EmptySlots(u)
    BY <1>a DEF IInv
  <1>1. Types'
    BY <1>a, <1>b DEF Types, EnterMalloc, Pop
  <1>2. \A u \in Thread, k \in Place : Content(u, k)' \in {Content(u, k), NULL}
    BY <1>a, <1>b DEF Types, Content, EnterMalloc, Pop
  <1>3. Layout'
    <2>1. CASE memblock # NULL
      <3>1. \A b \in Header : Inside(b) => Inside(b)' /\ hdr'[b].size = hdr[b].size
        BY <2>1 DEF Inside, Behind, EnterMalloc
      <3>2. QED BY <1>a, <1>2, <3>1, LayoutShrinks
    <2>2. CASE memblock = NULL
      <3>1. \A u \in Thread, k \in Place : Content(u, k)' = NULL
        BY <1>a, <1>2, <2>2 DEF Unused
      <3>2. QED BY <3>1 DEF Layout
    <2>3. QED BY <2>1, <2>2
  <1>4. Unallocated'
    BY <1>a, Constants DEF Unallocated, EnterMalloc, Types, Base, End, NULL
  <1>5. Unused'
    BY <1>a, <1>2 DEF Unused, EnterMalloc, Types, NULL, Base
  <1>6. Position(t)'
    BY <1>a, <1>b DEF Types, Position, EnterMalloc, Pop, NULL, Base
  <1>7. \A u \in Thread \ {t} : Position(u)'
    <2>1. mutex \in {t, NoOne}
      BY <1>b DEF Position, EnterMalloc, Pop
    <2>2. QED BY <1>a, <1>b, <2>1, OthersAreOutside, PositionOfOthers
           DEF Types, EnterMalloc, Pop
  <1>8. process' = "running" => \A u \in Thread : EmptySlots(u)'
    BY <1>a, <1>b, EmptySlotsKept DEF Types, EnterMalloc, Pop
  <1>9. QED BY <1>1, <1>3, <1>4, <1>5, <1>6, <1>7, <1>8 DEF IInv

LEMMA InitFailsIInv ==
  ASSUME IInv, NEW t \in Thread, InitFails(t)
  PROVE  IInv'
  <1> USE DEF Running, GoTo, allocator, client, locals
  <1>a. process = "running" /\ Types /\ Layout /\ Unallocated /\ Unused
    BY DEF IInv, InitFails
  <1>b. \A u \in Thread : Position(u) /\ EmptySlots(u)
    BY <1>a DEF IInv
  <1>1. Types'
    BY <1>a, <1>b DEF Types, InitFails
  <1>2. \A u \in Thread, k \in Place : Content(u, k)' \in {Content(u, k), NULL}
    BY <1>a, <1>b DEF Types, Content, Position, InitFails
  <1>3. Layout'
    <2>1. \A b \in Header : Inside(b) => Inside(b)' /\ hdr'[b].size = hdr[b].size
      BY <1>a, <1>b DEF Types, Inside, Behind, InitFails
    <2>2. QED BY <1>a, <1>2, <2>1, LayoutShrinks
  <1>4. Unallocated'
    BY <1>a DEF Unallocated, InitFails
  <1>5. Unused'
    BY <1>a, <1>2 DEF Unused, InitFails
  <1>6. Position(t)'
    BY <1>a, <1>b DEF Types, Position, Need, InitFails
  <1>7. \A u \in Thread \ {t} : Position(u)'
    <2>1. mutex \in {t, NoOne}
      BY <1>b DEF Position, InitFails
    <2>2. QED BY <1>a, <1>b, <2>1, OthersAreOutside, PositionOfOthers DEF Types, InitFails
  <1>8. process' = "running" => \A u \in Thread : EmptySlots(u)'
    BY <1>a, <1>b, EmptySlotsKept DEF Types, InitFails
  <1>9. QED BY <1>1, <1>3, <1>4, <1>5, <1>6, <1>7, <1>8 DEF IInv

LEMMA SplitIInv ==
  ASSUME IInv, NEW t \in Thread, Split(t)
  PROVE  IInv'
  <1> USE DEF Running, GoTo, allocator, client, locals
  <1>a. process = "running" /\ Types /\ Layout /\ Unallocated /\ Unused
    BY DEF IInv, Split, Need
  <1>b. \A u \in Thread : Position(u) /\ EmptySlots(u)
    BY <1>a DEF IInv
  <1>c. /\ last \in Nat /\ left = End - last /\ left >= Need(t)
        /\ last \in Header /\ size[t] \in Size /\ size[t] \in Nat
        /\ mutex = t
    <2>1. /\ memblock = Base /\ last \in Base .. End /\ left = End - last /\ left >= Need(t)
          /\ size[t] \in Size /\ size[t] \in Nat /\ mutex = t
      BY <1>a, <1>b, Constants DEF Position, Unallocated, Split
    <2>2. QED BY <2>1, Constants DEF Header, Need, HeaderSize
  <1>1. Types'
    BY <1>a, <1>b, <1>c DEF Types, Split, Need
  <1>2. \A u \in Thread, k \in Place : Content(u, k)' \in {Content(u, k), NULL}
    BY <1>a, <1>b, <1>c DEF Types, Content, Split, Need
  <1>3. Layout'
    <2>1. ASSUME NEW b \in Header, Inside(b) PROVE Inside(b)' /\ hdr'[b].size = hdr[b].size
      <3>a. b \in Nat /\ hdr[b].size \in Nat /\ b + HeaderSize + hdr[b].size <= last
        BY <2>1, Constants DEF Inside, Behind
      <3>1. b # last
        BY <1>c, <3>a DEF HeaderSize
      <3>2. hdr'[b].size = hdr[b].size
        BY <1>a, <1>c, <3>1 DEF Split, Types
      <3>3. QED BY <2>1, <3>2 DEF Inside, Behind, Split
    <2>2. QED BY <1>a, <1>2, <2>1, LayoutShrinks
  <1>4. Unallocated'
    BY <1>a, <1>c DEF Unallocated, Split, Need
  <1>5. Unused'
    BY <1>a, <1>2, <1>c DEF Unused, Split, Need
  <1>6. Position(t)'
    BY <1>a, <1>b, <1>c DEF Types, Position, Need, Split, Need
  <1>7. \A u \in Thread \ {t} : Position(u)'
    <2>1. mutex \in {t, NoOne}
      BY <1>b DEF Position, Split, Need
    <2>2. QED BY <1>a, <1>b, <1>c, <2>1, OthersAreOutside, PositionOfOthers
           DEF Types, Split, Need
  <1>8. process' = "running" => \A u \in Thread : EmptySlots(u)'
    BY <1>a, <1>b, <1>c, EmptySlotsKept DEF Types, Split, Need
  <1>9. QED BY <1>1, <1>3, <1>4, <1>5, <1>6, <1>7, <1>8 DEF IInv

LEMMA RefuseIInv ==
  ASSUME IInv, NEW t \in Thread, Refuse(t)
  PROVE  IInv'
  <1> USE DEF Running, GoTo, allocator, client, locals
  <1>a. process = "running" /\ Types /\ Layout /\ Unallocated /\ Unused
    BY DEF IInv, Refuse
  <1>b. \A u \in Thread : Position(u) /\ EmptySlots(u)
    BY <1>a DEF IInv
  <1>1. Types'
    BY <1>a, <1>b DEF Types, Refuse
  <1>2. \A u \in Thread, k \in Place : Content(u, k)' \in {Content(u, k), NULL}
    BY <1>a, <1>b DEF Types, Content, Refuse
  <1>3. Layout'
    <2>1. \A b \in Header : Inside(b) => Inside(b)' /\ hdr'[b].size = hdr[b].size
      BY <1>a, <1>b DEF Types, Inside, Behind, Refuse
    <2>2. QED BY <1>a, <1>2, <2>1, LayoutShrinks
  <1>4. Unallocated'
    BY <1>a DEF Unallocated, Refuse
  <1>5. Unused'
    BY <1>a, <1>2 DEF Unused, Refuse
  <1>6. Position(t)'
    BY <1>a, <1>b DEF Types, Position, Refuse
  <1>7. \A u \in Thread \ {t} : Position(u)'
    <2>1. mutex \in {t, NoOne}
      BY <1>b DEF Position, Refuse
    <2>2. QED BY <1>a, <1>b, <2>1, OthersAreOutside, PositionOfOthers DEF Types, Refuse
  <1>8. process' = "running" => \A u \in Thread : EmptySlots(u)'
    BY <1>a, <1>b, EmptySlotsKept DEF Types, Refuse
  <1>9. QED BY <1>1, <1>3, <1>4, <1>5, <1>6, <1>7, <1>8 DEF IInv

LEMMA EnterFreeIInv ==
  ASSUME IInv, NEW t \in Thread, EnterFree(t)
  PROVE  IInv'
  <1> USE DEF Running, GoTo, allocator, client, locals
  <1>a. process = "running" /\ Types /\ Layout /\ Unallocated /\ Unused
    BY DEF IInv, EnterFree
  <1>b. \A u \in Thread : Position(u) /\ EmptySlots(u)
    BY <1>a DEF IInv
  <1>1. Types'
    BY <1>a, <1>b DEF Types, EnterFree
  <1>2. \A u \in Thread, k \in Place : Content(u, k)' \in {Content(u, k), NULL}
    BY <1>a, <1>b DEF Types, Content, EnterFree
  <1>3. Layout'
    <2>1. \A b \in Header : Inside(b) => Inside(b)' /\ hdr'[b].size = hdr[b].size
      BY <1>a, <1>b DEF Types, Inside, Behind, EnterFree
    <2>2. QED BY <1>a, <1>2, <2>1, LayoutShrinks
  <1>4. Unallocated'
    BY <1>a DEF Unallocated, EnterFree
  <1>5. Unused'
    BY <1>a, <1>2 DEF Unused, EnterFree
  <1>6. Position(t)'
    BY <1>a, <1>b DEF Types, Position, Need, EnterFree
  <1>7. \A u \in Thread \ {t} : Position(u)'
    <2>1. mutex \in {t, NoOne}
      BY <1>b DEF Position, EnterFree
    <2>2. QED BY <1>a, <1>b, <2>1, OthersAreOutside, PositionOfOthers DEF Types, EnterFree
  <1>8. process' = "running" => \A u \in Thread : EmptySlots(u)'
    BY <1>a, <1>b, EmptySlotsKept DEF Types, EnterFree
  <1>9. QED BY <1>1, <1>3, <1>4, <1>5, <1>6, <1>7, <1>8 DEF IInv

LEMMA WalkIInv ==
  ASSUME IInv, NEW t \in Thread, Walk(t)
  PROVE  IInv'
  <1> USE DEF Running, GoTo, allocator, client, locals
  <1>a. process = "running" /\ Types /\ Layout /\ Unallocated /\ Unused
    BY DEF IInv, Walk
  <1>b. \A u \in Thread : Position(u) /\ EmptySlots(u)
    BY <1>a DEF IInv
  <1>1. Types'
    BY <1>a, <1>b DEF Types, Walk
  <1>2. \A u \in Thread, k \in Place : Content(u, k)' \in {Content(u, k), NULL}
    BY <1>a, <1>b DEF Types, Content, Walk
  <1>3. Layout'
    <2>1. \A b \in Header : Inside(b) => Inside(b)' /\ hdr'[b].size = hdr[b].size
      BY <1>a, <1>b DEF Types, Inside, Behind, Walk
    <2>2. QED BY <1>a, <1>2, <2>1, LayoutShrinks
  <1>4. Unallocated'
    BY <1>a DEF Unallocated, Walk
  <1>5. Unused'
    BY <1>a, <1>2 DEF Unused, Walk
  <1>6. Position(t)'
    BY <1>a, <1>b DEF Types, Position, Need, Walk
  <1>7. \A u \in Thread \ {t} : Position(u)'
    <2>1. mutex \in {t, NoOne}
      BY <1>b DEF Position, Walk
    <2>2. QED BY <1>a, <1>b, <2>1, OthersAreOutside, PositionOfOthers DEF Types, Walk
  <1>8. process' = "running" => \A u \in Thread : EmptySlots(u)'
    BY <1>a, <1>b, EmptySlotsKept DEF Types, Walk
  <1>9. QED BY <1>1, <1>3, <1>4, <1>5, <1>6, <1>7, <1>8 DEF IInv

LEMMA EnqueueIInv ==
  ASSUME IInv, NEW t \in Thread, Enqueue(t)
  PROVE  IInv'
  <1> USE DEF Running, GoTo, allocator, client, locals
  <1>a. process = "running" /\ Types /\ Layout /\ Unallocated /\ Unused
    BY DEF IInv, Enqueue
  <1>b. \A u \in Thread : Position(u) /\ EmptySlots(u)
    BY <1>a DEF IInv
  <1>c. /\ block[t] \in Header
        /\ hdr' = [hdr EXCEPT ![current[t]].next = block[t]]
    <2>1. /\ loop[t] \in 1 .. 4 /\ i[t] \in Nat /\ i[t] < Rounds(loop[t])
          /\ block[t] = array[t][i[t]] /\ block[t] # NULL
      BY <1>a, <1>b DEF Types, Position, Enqueue
    <2>2. i[t] \in Index
      BY <2>1, Rooms
    <2>3. QED BY <1>a, <2>1, <2>2 DEF Types, Enqueue
  <1>d. /\ hdr' \in [Header -> [next : Header \cup {NULL}, size : Size \cup {0}]]
        /\ \A b \in Header : hdr'[b].size = hdr[b].size
    <2>1. CASE current[t] \in Header
      <3> DEFINE c == current[t]
      <3>1. hdr[c] \in [next : Header \cup {NULL}, size : Size \cup {0}]
        BY <1>a, <2>1 DEF Types
      <3>2. [hdr[c] EXCEPT !.next = block[t]] = [next |-> block[t], size |-> hdr[c].size]
        BY <3>1
      <3>3. hdr' = [hdr EXCEPT ![c] = [next |-> block[t], size |-> hdr[c].size]]
        BY <1>c, <3>2
      <3>4. QED BY <1>a, <1>c, <2>1, <3>1, <3>3 DEF Types
    <2>2. CASE current[t] \notin Header
      <3>1. hdr' = hdr
        BY <1>a, <1>c, <2>2 DEF Types
      <3>2. QED BY <1>a, <3>1 DEF Types
    <2>3. QED BY <2>1, <2>2
  <1>1. Types'
    BY <1>a, <1>d DEF Types, Enqueue
  <1>2. \A u \in Thread, k \in Place : Content(u, k)' \in {Content(u, k), NULL}
    BY <1>a, <1>b, <1>c DEF Types, Content, Enqueue
  <1>3. Layout'
    <2>1. \A b \in Header : Inside(b) => Inside(b)' /\ hdr'[b].size = hdr[b].size
      BY <1>d DEF Inside, Behind, Enqueue
    <2>2. QED BY <1>a, <1>2, <2>1, LayoutShrinks
  <1>4. Unallocated'
    BY <1>a, <1>c DEF Unallocated, Enqueue
  <1>5. Unused'
    BY <1>a, <1>2, <1>c DEF Unused, Enqueue
  <1>6. Position(t)'
    BY <1>a, <1>b, <1>c DEF Types, Position, Need, Enqueue
  <1>7. \A u \in Thread \ {t} : Position(u)'
    <2>1. mutex \in {t, NoOne}
      BY <1>b DEF Position, Enqueue
    <2>2. QED BY <1>a, <1>b, <1>c, <2>1, OthersAreOutside, PositionOfOthers DEF Types, Enqueue
  <1>8. process' = "running" => \A u \in Thread : EmptySlots(u)'
    BY <1>a, <1>b, <1>c, EmptySlotsKept DEF Types, Enqueue
  <1>9. QED BY <1>1, <1>3, <1>4, <1>5, <1>6, <1>7, <1>8 DEF IInv

LEMMA CallMallocIInv ==
  ASSUME IInv, NEW t \in Thread, CallMalloc(t)
  PROVE  IInv'
  <1> USE DEF Running, GoTo, allocator, client, locals
  <1>a. process = "running" /\ Types /\ Layout /\ Unallocated /\ Unused
    BY DEF IInv, CallMalloc, InLoop
  <1>b. \A u \in Thread : Position(u) /\ EmptySlots(u)
    BY <1>a DEF IInv
  <1>1. Types'
    BY <1>a, <1>b DEF Types, CallMalloc, InLoop
  <1>2. \A u \in Thread, k \in Place : Content(u, k)' \in {Content(u, k), NULL}
    BY <1>a, <1>b DEF Types, Content, CallMalloc, InLoop
  <1>3. Layout'
    <2>1. \A b \in Header : Inside(b) => Inside(b)' /\ hdr'[b].size = hdr[b].size
      BY <1>a, <1>b DEF Types, Inside, Behind, CallMalloc, InLoop
    <2>2. QED BY <1>a, <1>2, <2>1, LayoutShrinks
  <1>4. Unallocated'
    BY <1>a DEF Unallocated, CallMalloc, InLoop
  <1>5. Unused'
    BY <1>a, <1>2 DEF Unused, CallMalloc, InLoop
  <1>6. Position(t)'
    BY <1>a, <1>b DEF Types, Position, Need, CallMalloc, InLoop
  <1>7. \A u \in Thread \ {t} : Position(u)'
    BY <1>a, <1>b, PositionOfOthers DEF Types, CallMalloc, InLoop
  <1>8. process' = "running" => \A u \in Thread : EmptySlots(u)'
    BY <1>a, <1>b, EmptySlotsKept DEF Types, CallMalloc, InLoop
  <1>9. QED BY <1>1, <1>3, <1>4, <1>5, <1>6, <1>7, <1>8 DEF IInv

LEMMA CallFreeIInv ==
  ASSUME IInv, NEW t \in Thread, CallFree(t)
  PROVE  IInv'
  <1> USE DEF Running, GoTo, allocator, client, locals
  <1>a. process = "running" /\ Types /\ Layout /\ Unallocated /\ Unused
    BY DEF IInv, CallFree, InLoop
  <1>b. \A u \in Thread : Position(u) /\ EmptySlots(u)
    BY <1>a DEF IInv
  <1>1. Types'
    BY <1>a, <1>b DEF Types, CallFree, InLoop
  <1>2. \A u \in Thread, k \in Place : Content(u, k)' \in {Content(u, k), NULL}
    BY <1>a, <1>b DEF Types, Content, CallFree, InLoop
  <1>3. Layout'
    <2>1. \A b \in Header : Inside(b) => Inside(b)' /\ hdr'[b].size = hdr[b].size
      BY <1>a, <1>b DEF Types, Inside, Behind, CallFree, InLoop
    <2>2. QED BY <1>a, <1>2, <2>1, LayoutShrinks
  <1>4. Unallocated'
    BY <1>a DEF Unallocated, CallFree, InLoop
  <1>5. Unused'
    BY <1>a, <1>2 DEF Unused, CallFree, InLoop
  <1>6. Position(t)'
    BY <1>a, <1>b DEF Types, Position, CallFree, InLoop
  <1>7. \A u \in Thread \ {t} : Position(u)'
    BY <1>a, <1>b, PositionOfOthers DEF Types, CallFree, InLoop
  <1>8. process' = "running" => \A u \in Thread : EmptySlots(u)'
    BY <1>a, <1>b, EmptySlotsKept DEF Types, CallFree, InLoop
  <1>9. QED BY <1>1, <1>3, <1>4, <1>5, <1>6, <1>7, <1>8 DEF IInv

LEMMA ShiftIInv ==
  ASSUME IInv, NEW t \in Thread, Shift(t)
  PROVE  IInv'
  <1> USE DEF Running, GoTo, allocator, client, locals
  <1>a. process = "running" /\ Types /\ Layout /\ Unallocated /\ Unused
    BY DEF IInv, Shift
  <1>b. \A u \in Thread : Position(u) /\ EmptySlots(u)
    BY <1>a DEF IInv
  <1>c. /\ last \in Base .. End /\ last \in Header /\ left = End - last
        /\ size[t] \in Size /\ size[t] \in Nat /\ size[t] > 0 /\ mutex = t
        /\ memblock = Base
        /\ block[t] = last /\ hdr[last].size = size[t]
        /\ last' = last + size[t] + HeaderSize /\ left' = left - (size[t] + HeaderSize)
        /\ last' <= End
    <2>1. /\ memblock = Base /\ last \in Base .. End /\ left = End - last /\ left >= Need(t)
          /\ size[t] \in Size /\ size[t] \in Nat /\ size[t] > 0 /\ mutex = t
          /\ block[t] = last /\ hdr[last].size = size[t]
      BY <1>a, <1>b, Constants DEF Position, Unallocated, Shift
    <2>2. QED BY <2>1, Constants DEF Header, Need, HeaderSize, Shift
  <1>e. PICK e \in Header : e = last
    BY <1>c
  <1>1. Types'
    BY <1>a, <1>b DEF Types, Shift
  <1>2. /\ Content(t, Returned)' = e
        /\ \A u \in Thread, k \in Place : <<u, k>> # <<t, Returned>> =>
             Content(u, k)' = Content(u, k)
    BY <1>a, <1>c, <1>e DEF Types, Content, Shift
  <1>d. ASSUME NEW b, Inside(b)
        PROVE  b \in Nat /\ Behind(b) \in Nat /\ b < last /\ Behind(b) <= last
               /\ Behind(b)' = Behind(b)
    <2>1. b \in Header /\ hdr[b].size \in Size /\ Behind(b) <= last
      BY <1>d DEF Inside
    <2>2. b \in Nat /\ hdr[b].size \in Nat /\ b + HeaderSize + hdr[b].size <= last
      BY <2>1, Constants DEF Behind
    <2>3. QED BY <2>2, <1>c, Constants DEF Behind, HeaderSize, Shift
  <1>3. Layout'
    <2>1. Behind(e)' = last' /\ e \in Nat
      BY <1>c, <1>e, Constants DEF Behind, Shift, HeaderSize
    <2>2. ASSUME NEW b, Inside(b) PROVE Inside(b)' /\ Apart(b, e)' /\ Apart(e, b)'
      <3>1. b \in Header /\ hdr[b].size \in Size /\ Behind(b) <= last
        BY <2>2 DEF Inside
      <3>2. Inside(b)'
        BY <3>1, <1>c, <1>d, <2>2, Constants DEF Inside, Shift, HeaderSize
      <3>3. QED BY <3>2, <1>d, <1>e, <2>2 DEF Apart
    <2>3. Inside(e)'
      BY <1>c, <1>e, <2>1, Constants DEF Inside, Shift, HeaderSize
    <2> SUFFICES ASSUME NEW u \in Thread, NEW k \in Place, Content(u, k)' # NULL
                 PROVE  /\ Inside(Content(u, k))'
                        /\ \A v \in Thread, l \in Place :
                             Content(v, l)' # NULL /\ <<v, l>> # <<u, k>> =>
                               Apart(Content(u, k), Content(v, l))'
      BY DEF Layout, Place, Index
    <2>4. \A v \in Thread, l \in Place : Content(v, l) # NULL => Inside(Content(v, l))
      BY <1>a DEF Layout
    <2>5. Inside(Content(u, k))'
      <3>1. CASE <<u, k>> = <<t, Returned>>
        <4>1. Content(u, k)' = e
          BY <3>1, <1>2
        <4>2. QED BY <4>1, <2>3 DEF Inside, Behind
      <3>2. CASE <<u, k>> # <<t, Returned>>
        <4>1. Content(u, k)' = Content(u, k) /\ Inside(Content(u, k))
          BY <3>2, <1>2, <2>4
        <4>2. QED BY <4>1, <2>2 DEF Inside, Behind
      <3>3. QED BY <3>1, <3>2
    <2>6. ASSUME NEW v \in Thread, NEW l \in Place, Content(v, l)' # NULL, <<v, l>> # <<u, k>>
          PROVE  Apart(Content(u, k), Content(v, l))'
      <3>1. CASE <<u, k>> = <<t, Returned>>
        <4>1. /\ Content(u, k)' = e
              /\ Content(v, l)' = Content(v, l) /\ Inside(Content(v, l))
          BY <3>1, <1>2, <2>4, <2>6
        <4>2. QED BY <4>1, <2>2 DEF Apart, Behind
      <3>2. CASE <<v, l>> = <<t, Returned>>
        <4>1. /\ Content(v, l)' = e
              /\ Content(u, k)' = Content(u, k) /\ Inside(Content(u, k))
          BY <3>2, <1>2, <2>4, <2>6
        <4>2. QED BY <4>1, <2>2 DEF Apart, Behind
      <3>3. CASE <<u, k>> # <<t, Returned>> /\ <<v, l>> # <<t, Returned>>
        <4>1. /\ Content(u, k)' = Content(u, k) /\ Content(v, l)' = Content(v, l)
              /\ Content(u, k) # NULL /\ Content(v, l) # NULL
          BY <3>3, <1>2, <2>6
        <4>2. Apart(Content(u, k), Content(v, l))
          BY <1>a, <2>6, <4>1 DEF Layout
        <4>3. QED BY <4>1, <4>2 DEF Apart, Behind, Shift
      <3>4. QED BY <3>1, <3>2, <3>3
    <2>7. QED BY <2>5, <2>6
  <1>4. Unallocated'
    BY <1>c, Constants DEF Unallocated, HeaderSize
  <1>5. Unused'
    BY <1>c DEF Unused, Shift, Base, NULL
  <1>6. Position(t)'
    BY <1>a, <1>b DEF Types, Position, Shift
  <1>7. \A u \in Thread \ {t} : Position(u)'
    BY <1>a, <1>b, <1>c, OthersAreOutside, PositionOfOthers DEF Types, Shift
  <1>8. process' = "running" => \A u \in Thread : EmptySlots(u)'
    BY <1>a, <1>b, EmptySlotsKept DEF Types, Shift
  <1>9. QED BY <1>1, <1>3, <1>4, <1>5, <1>6, <1>7, <1>8 DEF IInv

LEMMA SkipFreeIInv ==
  ASSUME IInv, NEW t \in Thread, SkipFree(t)
  PROVE  IInv'
  <1> USE DEF Running, GoTo, allocator, client, locals
  <1>a. process = "running" /\ Types /\ Layout /\ Unallocated /\ Unused
    BY DEF IInv, SkipFree, InLoop
  <1>b. \A u \in Thread : Position(u) /\ EmptySlots(u)
    BY <1>a DEF IInv
  <1>c. i[t] < Rounds(loop[t]) /\ i[t] \in Nat /\ loop[t] \in {2, 4} /\ i[t] \in Index
    <2>1. i[t] < Rounds(loop[t]) /\ i[t] \in Nat /\ loop[t] \in 1 .. 4 /\ loop[t] \in {2, 4}
      BY <1>a, <1>b DEF Types, Position, InLoop, SkipFree
    <2>2. QED BY <2>1, Rooms
  <1>1. Types'
    BY <1>a, <1>c, AdvanceSteps DEF Types, SkipFree
  <1>2. \A u \in Thread, k \in Place : Content(u, k)' \in {Content(u, k), NULL}
    BY <1>a, <1>b, <1>c, AdvanceSteps DEF Types, Content, InLoop, SkipFree
  <1>3. Layout'
    <2>1. \A b \in Header : Inside(b) => Inside(b)' /\ hdr'[b].size = hdr[b].size
      BY <1>a, <1>b DEF Types, Inside, Behind, SkipFree, InLoop
    <2>2. QED BY <1>a, <1>2, <2>1, LayoutShrinks
  <1>4. Unallocated'
    BY <1>a DEF Unallocated, SkipFree, InLoop
  <1>5. Unused'
    BY <1>a, <1>2 DEF Unused, SkipFree, InLoop
  <1>6. Position(t)'
    <2>1. pc'[t] \in {"loop", "exit"} /\ (pc'[t] = "loop" => i'[t] < Rounds(loop'[t]))
      BY <1>a, <1>c, AdvanceSteps DEF SkipFree
    <2>2. QED BY <1>a, <1>b, <2>1 DEF Types, Position, InLoop, SkipFree
  <1>7. \A u \in Thread \ {t} : Position(u)'
    BY <1>a, <1>b, <1>c, AdvanceSteps, PositionOfOthers DEF Types, SkipFree, InLoop
  <1>8. process' = "running" => \A u \in Thread : EmptySlots(u)'
    <2>1. ASSUME NEW k \in Index, pc'[t] # "exit",
                 \/ loop'[t] = 1 /\ k >= i'[t]
                 \/ loop'[t] = 2 /\ k >= N
                 \/ loop'[t] = 3 /\ k >= N + i'[t]
          PROVE  array'[t][k] = NULL
      <3>1. \/ loop'[t] = loop[t] /\ i'[t] = i[t] + 1
            \/ loop[t] = 2 /\ loop'[t] = 3 /\ i'[t] = 0
            \/ loop'[t] = 4
        BY <1>a, <1>c, <2>1, AdvanceSteps DEF SkipFree
      <3>2. loop[t] = 2 /\ k >= N
        BY <1>c, <2>1, <3>1
      <3>3. array[t][k] = NULL
        BY <1>a, <1>b, <3>2 DEF EmptySlots, SkipFree, InLoop
      <3>4. QED BY <1>a, <1>c, <3>3 DEF Types, SkipFree
    <2>2. EmptySlots(t)'
      BY <2>1 DEF EmptySlots, Index
    <2>3. \A u \in Thread \ {t} : EmptySlots(u)'
      BY <1>a, <1>b, <1>c, AdvanceSteps, EmptySlotsKept DEF Types, SkipFree
    <2>4. QED BY <2>2, <2>3
  <1>9. QED BY <1>1, <1>3, <1>4, <1>5, <1>6, <1>7, <1>8 DEF IInv

LEMMA LeaveFreeIInv ==
  ASSUME IInv, NEW t \in Thread, LeaveFree(t)
  PROVE  IInv'
  <1> USE DEF Running, GoTo, allocator, client, locals
  <1>a. process = "running" /\ Types /\ Layout /\ Unallocated /\ Unused
    BY DEF IInv, LeaveFree
  <1>b. \A u \in Thread : Position(u) /\ EmptySlots(u)
    BY <1>a DEF IInv
  <1>c. i[t] < Rounds(loop[t]) /\ i[t] \in Nat /\ loop[t] \in {2, 4} /\ i[t] \in Index
    <2>1. i[t] < Rounds(loop[t]) /\ i[t] \in Nat /\ loop[t] \in 1 .. 4 /\ loop[t] \in {2, 4}
      BY <1>a, <1>b DEF Types, Position, InLoop, LeaveFree
    <2>2. QED BY <2>1, Rooms
  <1>1. Types'
    BY <1>a, <1>c, AdvanceSteps DEF Types, LeaveFree
  <1>2. \A u \in Thread, k \in Place : Content(u, k)' \in {Content(u, k), NULL}
    BY <1>a, <1>b, <1>c, AdvanceSteps DEF Types, Content, InLoop, LeaveFree
  <1>3. Layout'
    <2>1. \A b \in Header : Inside(b) => Inside(b)' /\ hdr'[b].size = hdr[b].size
      BY <1>a, <1>b DEF Types, Inside, Behind, LeaveFree
    <2>2. QED BY <1>a, <1>2, <2>1, LayoutShrinks
  <1>4. Unallocated'
    BY <1>a DEF Unallocated, LeaveFree
  <1>5. Unused'
    BY <1>a, <1>2 DEF Unused, LeaveFree
  <1>6. Position(t)'
    <2>1. pc'[t] \in {"loop", "exit"} /\ (pc'[t] = "loop" => i'[t] < Rounds(loop'[t]))
      BY <1>a, <1>c, AdvanceSteps DEF LeaveFree
    <2>2. QED BY <1>a, <1>b, <2>1 DEF Types, Position, InLoop, LeaveFree
  <1>7. \A u \in Thread \ {t} : Position(u)'
    <2>1. mutex \in {t, NoOne}
      BY <1>b DEF Position, LeaveFree
    <2>2. QED BY <1>a, <1>b, <1>c, <2>1, AdvanceSteps, OthersAreOutside, PositionOfOthers
           DEF Types, LeaveFree
  <1>8. process' = "running" => \A u \in Thread : EmptySlots(u)'
    <2>1. ASSUME NEW k \in Index, pc'[t] # "exit",
                 \/ loop'[t] = 1 /\ k >= i'[t]
                 \/ loop'[t] = 2 /\ k >= N
                 \/ loop'[t] = 3 /\ k >= N + i'[t]
          PROVE  array'[t][k] = NULL
      <3>1. \/ loop'[t] = loop[t] /\ i'[t] = i[t] + 1
            \/ loop[t] = 2 /\ loop'[t] = 3 /\ i'[t] = 0
            \/ loop'[t] = 4
        BY <1>a, <1>c, <2>1, AdvanceSteps DEF LeaveFree
      <3>2. loop[t] = 2 /\ k >= N
        BY <1>c, <2>1, <3>1
      <3>3. array[t][k] = NULL
        BY <1>a, <1>b, <3>2 DEF EmptySlots, LeaveFree
      <3>4. QED BY <1>a, <1>c, <3>3 DEF Types, LeaveFree
    <2>2. EmptySlots(t)'
      BY <2>1 DEF EmptySlots, Index
    <2>3. \A u \in Thread \ {t} : EmptySlots(u)'
      BY <1>a, <1>b, <1>c, AdvanceSteps, EmptySlotsKept DEF Types, LeaveFree
    <2>4. QED BY <2>2, <2>3
  <1>9. QED BY <1>1, <1>3, <1>4, <1>5, <1>6, <1>7, <1>8 DEF IInv

LEMMA StoreIInv ==
  ASSUME IInv, NEW t \in Thread, Store(t)
  PROVE  IInv'
  <1> USE DEF Running, allocator
  <1>a. process = "running" /\ Types /\ Layout /\ Unallocated /\ Unused
    BY DEF IInv, Store
  <1>b. \A u \in Thread : Position(u) /\ EmptySlots(u)
    BY <1>a DEF IInv
  <1>c. /\ i[t] < Rounds(loop[t]) /\ i[t] \in Nat /\ loop[t] \in {1, 3} /\ i[t] \in Index
        /\ loop[t] = 1 => i[t] < N
        /\ Target(t) \in Index
        /\ Target(t) = IF loop[t] = 3 THEN i[t] + N ELSE i[t]
    <2>1. i[t] < Rounds(loop[t]) /\ i[t] \in Nat /\ loop[t] \in 1 .. 4 /\ loop[t] \in {1, 3}
      BY <1>a, <1>b DEF Types, Position, Store
    <2>2. QED BY <2>1, Rooms DEF Target
  <1>d. array[t][Target(t)] = NULL
    BY <1>a, <1>b, <1>c DEF EmptySlots, Store, Index
  <1>e. PICK m \in Index : m = Target(t)
    BY <1>c
  <1>f. PICK b : b = block[t]
    OBVIOUS
  <1>g. Content(t, Returned) = b /\ b \in Header \cup {NULL}
    <2>1. Content(t, Returned) = b
      BY <1>f DEF Content, Store
    <2>2. b # NULL => Inside(b)
      BY <1>a, <2>1 DEF Layout, Place
    <2>3. QED BY <2>1, <2>2 DEF Inside
  <1>h. /\ array' = [array EXCEPT ![t] = [array[t] EXCEPT ![m] = b]]
        /\ block' = [block EXCEPT ![t] = NULL]
    BY <1>e, <1>f DEF Store
  <1>i. /\ array' \in [Thread -> [Index -> Header \cup {NULL}]]
        /\ array'[t][m] = b
        /\ \A k \in Index \ {m} : array'[t][k] = array[t][k]
        /\ \A u \in Thread \ {t} : array'[u] = array[u]
    BY <1>a, <1>g, <1>h DEF Types
  <1>j. \/ process' = "aborted" /\ UNCHANGED <<i, loop, pc>>
        \/ process' = "running" /\ Advance(t)
    BY <1>a DEF Store
  <1>k. /\ pc' \in [Thread -> {"loop", "malloc", "split", "shift", "returned", "free",
                               "walk", "freed", "exit"}]
        /\ loop' \in [Thread -> 1 .. 4]
        /\ i' \in [Thread -> Nat]
        /\ \A u \in Thread \ {t} : pc'[u] = pc[u] /\ loop'[u] = loop[u] /\ i'[u] = i[u]
        /\ \/ process' = "aborted" /\ pc'[t] = "returned" /\ loop'[t] = loop[t] /\ i'[t] = i[t]
           \/ /\ process' = "running"
              /\ pc'[t] \in {"loop", "exit"}
              /\ pc'[t] = "loop" => /\ i'[t] < Rounds(loop'[t])
                                    /\ \/ loop'[t] = loop[t] /\ i'[t] = i[t] + 1
                                       \/ loop[t] = 1 /\ loop'[t] = 2
                                       \/ loop'[t] = 4
    <2>1. CASE process' = "aborted" /\ UNCHANGED <<i, loop, pc>>
      BY <1>a, <2>1 DEF Types, Store
    <2>2. CASE process' = "running" /\ Advance(t)
      BY <1>a, <1>c, <2>2, AdvanceSteps
    <2>3. QED BY <1>j, <2>1, <2>2
  <1>1. Types'
    BY <1>a, <1>i, <1>k, <1>h DEF Types, Store
  <1>2. /\ Content(t, Returned)' = NULL
        /\ Content(t, m)' = Content(t, Returned)
        /\ \A u \in Thread, l \in Place :
             <<u, l>> \notin {<<t, Returned>>, <<t, m>>} => Content(u, l)' = Content(u, l)
    <2>1. m # Returned
      BY Constants
    <2>2. Content(t, Returned)' = NULL
      BY <1>a, <1>h DEF Content, Types
    <2>3. Content(t, m)' = Content(t, Returned)
      BY <2>1, <1>g, <1>i DEF Content
    <2>4. ASSUME NEW u \in Thread, NEW l \in Place, <<u, l>> \notin {<<t, Returned>>, <<t, m>>}
          PROVE  Content(u, l)' = Content(u, l)
      <3>1. CASE u = t
        BY <2>4, <3>1, <1>i DEF Content, Place
      <3>2. CASE u # t
        <4>1. pc'[u] = pc[u] /\ block'[u] = block[u] /\ array'[u] = array[u]
          BY <1>a, <3>2, <1>h, <1>i, <1>k DEF Types
        <4>2. QED BY <4>1 DEF Content
      <3>3. QED BY <3>1, <3>2
    <2>5. QED BY <2>2, <2>3, <2>4
  <1>3. Layout'
    <2>1. Returned \in Place /\ m \in Place /\ Returned # m
      BY Constants DEF Place
    <2>2. UNCHANGED <<hdr, last>>
      BY DEF Store
    <2>3. QED BY <1>a, <1>2, <2>1, <2>2, LayoutMoves
  <1>4. Unallocated'
    BY <1>a DEF Unallocated, Store
  <1>5. Unused'
    <2>1. ASSUME memblock = NULL, NEW u \in Thread, NEW l \in Place
          PROVE  Content(u, l)' = NULL
      <3>1. Content(t, Returned) = NULL /\ Content(u, l) = NULL
        BY <1>a, <2>1 DEF Unused, Place
      <3>2. QED BY <1>2, <3>1
    <2>2. QED BY <2>1 DEF Unused, Store, Place, Index
  <1>6. Position(t)'
    <2>1. block'[t] = NULL /\ pc[t] = "returned"
      BY <1>a, <1>h DEF Types, Store
    <2>2. QED BY <1>b, <1>c, <1>k, <2>1 DEF Position
  <1>7. \A u \in Thread \ {t} : Position(u)'
    <2>1. \A u \in Thread \ {t} : size'[u] = size[u] /\ block'[u] = block[u]
      BY <1>a, <1>h DEF Types, Store
    <2>2. UNCHANGED <<mutex, memblock, last, left>> /\ hdr'[last].size = hdr[last].size
      BY DEF Store
    <2>3. QED BY <1>b, <1>i, <1>k, <2>1, <2>2, PositionOfOthers
  <1>8. process' = "running" => \A u \in Thread : EmptySlots(u)'
    <2>1. ASSUME process' = "running", NEW k \in Index, pc'[t] # "exit",
                 \/ loop'[t] = 1 /\ k >= i'[t]
                 \/ loop'[t] = 2 /\ k >= N
                 \/ loop'[t] = 3 /\ k >= N + i'[t]
          PROVE  array'[t][k] = NULL
      <3>1. \/ loop'[t] = loop[t] /\ i'[t] = i[t] + 1
            \/ loop[t] = 1 /\ loop'[t] = 2
        BY <1>k, <2>1
      <3>2. N \in Nat /\ k \in Nat /\ m = IF loop[t] = 3 THEN i[t] + N ELSE i[t]
        BY <1>c, <1>e DEF Index
      <3>3. k # m /\ (\/ loop[t] = 1 /\ k >= i[t]
                      \/ loop[t] = 3 /\ k >= N + i[t])
        BY <1>c, <2>1, <3>1, <3>2
      <3>4. array[t][k] = NULL
        BY <1>b, <3>3 DEF EmptySlots, Store
      <3>5. QED BY <1>i, <3>3, <3>4
    <2>2. process' = "running" => EmptySlots(t)'
      BY <2>1 DEF EmptySlots, Index
    <2>3. \A u \in Thread \ {t} : EmptySlots(u)'
      BY <1>b, <1>i, <1>k, EmptySlotsKept
    <2>4. QED BY <2>2, <2>3
  <1>9. QED BY <1>1, <1>3, <1>4, <1>5, <1>6, <1>7, <1>8 DEF IInv

LEMMA ProcessExitIInv ==
  ASSUME IInv, ProcessExit
  PROVE  IInv'
  <1> USE DEF ProcessExit, locals, client
  <1>1. Types'
    BY DEF IInv, Types
  <1>2. Layout'
    BY DEF IInv, Layout, Content, Inside, Apart, Behind
  <1>3. Unallocated' /\ Unused'
    BY DEF Unallocated, Unused, NULL, Base
  <1>4. \A t \in Thread : Position(t)'
    BY DEF IInv, Position
  <1>5. process' # "running"
    OBVIOUS
  <1>6. QED BY <1>1, <1>2, <1>3, <1>4, <1>5 DEF IInv

LEMMA NextIInv == IInv /\ [Next]_vars => IInv'
  <1> SUFFICES ASSUME IInv, [Next]_vars PROVE IInv'
    OBVIOUS
  <1>1. CASE UNCHANGED vars
    BY <1>1 DEF vars, allocator, locals, client, IInv, Types, Layout, Content, Inside, Apart,
                Behind, Unallocated, Unused, Position, Need, EmptySlots
  <1>2. CASE ProcessExit
    BY <1>2, ProcessExitIInv
  <1>3. CASE \E t \in Thread : Step(t)
    BY <1>3, EnterMallocIInv, InitFailsIInv, SplitIInv, ShiftIInv, RefuseIInv, EnterFreeIInv,
       WalkIInv, EnqueueIInv, CallMallocIInv, StoreIInv, CallFreeIInv, SkipFreeIInv,
       LeaveFreeIInv DEF Step
  <1>4. QED BY <1>1, <1>2, <1>3 DEF Next, Ended

(* The inductive invariant holds in every reachable state.                 *)
THEOREM InvariantHolds == Spec => []IInv
  BY InitIInv, NextIInv, PTL DEF Spec

-----------------------------------------------------------------------------
(* What the abstract heap sees.                                            *)

Held == UNION {InHand(t) : t \in Thread}
BlockAt(a) == [lo |-> a + HeaderSize, size |-> hdr[a].size]
InUse == {BlockAt(a) : a \in Held}
Refused == \E t \in Thread : pc[t] = "returned" /\ block[t] = NULL

\* The block a is at the place k of thread t, which is not giving it up.
HasAt(a, t, k) ==
  a = Content(t, k) /\ a # NULL /\ ~ (pc[t] = "freed" /\ a = block[t])

HeldIsContent ==
  \A a : a \in Held <=> \E t \in Thread, k \in Place : HasAt(a, t, k)

LEMMA HandContent ==
  ASSUME NEW t \in Thread, NEW a
  PROVE  a \in InHand(t) <=> \E k \in Place : HasAt(a, t, k)
  <1>1. \A k \in Index : k # Returned
    BY Constants
  <1>2. ASSUME a \in InHand(t) PROVE \E k \in Place : HasAt(a, t, k)
    <2>1. CASE \E k \in Index : a = array[t][k]
      BY <1>1, <1>2, <2>1 DEF InHand, HasAt, Content, Place
    <2>2. CASE pc[t] = "returned" /\ a = block[t]
      <3>1. HasAt(a, t, Returned)
        BY <1>2, <2>2 DEF InHand, HasAt, Content
      <3>2. QED BY <3>1 DEF Place
    <2>3. QED BY <1>2, <2>1, <2>2 DEF InHand
  <1>3. ASSUME NEW k \in Place, HasAt(a, t, k) PROVE a \in InHand(t)
    <2>1. CASE k = Returned
      BY <1>3, <2>1 DEF InHand, HasAt, Content
    <2>2. CASE k \in Index
      BY <1>1, <1>3, <2>2 DEF InHand, HasAt, Content
    <2>3. QED BY <2>1, <2>2 DEF Place
  <1>4. QED BY <1>2, <1>3

LEMMA HeldContent == HeldIsContent
  BY HandContent DEF Held, HeldIsContent

\* A block that is held has a size and lies before the unallocated space.
LEMMA HeldInside ==
  ASSUME Types, Layout, NEW a \in Held
  PROVE  /\ a \in Header /\ a \in Nat
         /\ hdr[a].size \in Size /\ hdr[a].size \in Nat /\ hdr[a].size > 0
         /\ a + HeaderSize + hdr[a].size <= last
         /\ BlockAt(a) \in InUse
  <1>1. Inside(a)
    BY HeldContent DEF HeldIsContent, Layout, HasAt
  <1>2. QED BY <1>1, Constants DEF Inside, Behind, InUse

\* Each block is at one place.
LEMMA OnePlace ==
  ASSUME Types, Layout, NEW t \in Thread, NEW k \in Place, NEW u \in Thread, NEW l \in Place,
         Content(t, k) # NULL, Content(t, k) = Content(u, l)
  PROVE  t = u /\ k = l
  <1> SUFFICES ASSUME <<u, l>> # <<t, k>> PROVE FALSE
    OBVIOUS
  <1>1. Inside(Content(t, k)) /\ Apart(Content(t, k), Content(t, k))
    BY DEF Layout
  <1>2. /\ Content(t, k) \in Nat
        /\ hdr[Content(t, k)].size \in Nat
    BY <1>1, Constants DEF Inside
  <1>3. QED BY <1>1, <1>2 DEF Apart, Behind, HeaderSize

LEMMA InUseKept ==
  ASSUME Held' = Held, \A a \in Held : hdr'[a].size = hdr[a].size
  PROVE  InUse' = InUse
  BY DEF InUse, BlockAt

LEMMA HeldKept ==
  ASSUME \A u \in Thread : /\ pc'[u] = "freed" <=> pc[u] = "freed"
                           /\ pc[u] = "freed" => block'[u] = block[u],
         \A u \in Thread, k \in Place : Content(u, k)' = Content(u, k)
  PROVE  Held' = Held
  <1>1. \A a : \A u \in Thread, k \in Place : HasAt(a, u, k)' <=> HasAt(a, u, k)
    BY DEF HasAt
  <1>2. HeldIsContent /\ HeldIsContent'
    BY HeldContent, PTL
  <1>3. QED BY <1>1, <1>2 DEF HeldIsContent

\* The block that Split has begun belongs to its thread.
LEMMA ShiftTakes ==
  ASSUME IInv, NEW t \in Thread, Shift(t)
  PROVE  last \notin Held /\ Held' = Held \cup {last}
  <1> USE DEF Running, GoTo, client
  <1>1. Types /\ Layout /\ Unallocated /\ Position(t)
    BY DEF IInv
  <1>2. PICK e : e = last
    OBVIOUS
  <1>3. /\ e \in Nat /\ e >= Base /\ e \in Header /\ block[t] = e
        /\ size[t] \in Size /\ size[t] \in Nat /\ size[t] > 0 /\ hdr[e].size = size[t]
        /\ e + HeaderSize + size[t] <= End
    <2>1. /\ memblock = Base /\ last \in Base .. End /\ left = End - last /\ left >= Need(t)
          /\ size[t] \in Size /\ size[t] \in Nat /\ size[t] > 0
          /\ block[t] = last /\ hdr[last].size = size[t]
      BY <1>1, Constants DEF Position, Unallocated, Shift
    <2>2. QED BY <1>2, <2>1, Constants DEF Header, Need, HeaderSize
  <1>4. e \notin Held
    BY <1>1, <1>2, <1>3, HeldInside DEF HeaderSize
  <1>5. /\ Content(t, Returned) = NULL /\ Content(t, Returned)' = e
        /\ \A u \in Thread, k \in Place : <<u, k>> # <<t, Returned>> =>
             Content(u, k)' = Content(u, k)
    BY <1>1, <1>3 DEF Types, Content, Shift
  <1>6. /\ pc[t] = "shift" /\ pc'[t] = "returned" /\ block'[t] = block[t]
        /\ \A u \in Thread \ {t} : pc'[u] = pc[u] /\ block'[u] = block[u]
        /\ UNCHANGED hdr
    BY <1>1 DEF Types, Shift
  <1>7. Held' = Held \cup {e}
    <2>1. HeldIsContent /\ HeldIsContent'
      BY HeldContent, PTL
    <2>2. ASSUME NEW a, NEW u \in Thread, NEW k \in Place, <<u, k>> # <<t, Returned>>
          PROVE  HasAt(a, u, k)' <=> HasAt(a, u, k)
      BY <1>5, <1>6, <2>2 DEF HasAt
    <2>3. \A a : ~ HasAt(a, t, Returned) /\ (HasAt(a, t, Returned)' <=> a = e)
      BY <1>3, <1>5, <1>6, Constants DEF HasAt
    <2>4. Returned \in Place
      BY DEF Place
    <2>5. \A a : a \in Held' <=> a \in Held \/ a = e
      BY <2>1, <2>2, <2>3, <2>4 DEF HeldIsContent
    <2>6. QED BY <2>5
  <1>8. QED BY <1>2, <1>4, <1>7

\* A list gets the block, and with it the allocator.
LEMMA FreedGives ==
  ASSUME IInv, NEW t \in Thread, pc[t] \in {"free", "walk"},
         pc' = [pc EXCEPT ![t] = "freed"],
         UNCHANGED <<block, array>>
  PROVE  block[t] \in Held /\ Held' = Held \ {block[t]}
  <1>1. Types /\ Layout /\ Position(t)
    BY DEF IInv
  <1>2. PICK k \in Index : k = i[t]
    BY <1>1, Rooms DEF Types, Position
  <1>3. PICK b : b = block[t]
    OBVIOUS
  <1>4. b = Content(t, k) /\ b # NULL /\ k \in Place
    BY <1>1, <1>2, <1>3, Constants DEF Position, Content, Place
  <1>5. /\ pc'[t] = "freed" /\ block'[t] = b
        /\ \A u \in Thread \ {t} : pc'[u] = pc[u]
        /\ \A u \in Thread, l \in Place : Content(u, l)' = Content(u, l)
    BY <1>1, <1>3 DEF Types, Content
  <1>6. Held' = Held \ {b} /\ b \in Held
    <2>1. HeldIsContent /\ HeldIsContent'
      BY HeldContent, PTL
    <2>2. ASSUME NEW a, NEW u \in Thread, NEW l \in Place
          PROVE  HasAt(a, u, l)' <=> HasAt(a, u, l) /\ a # b
      <3>1. CASE u = t
        BY <1>3, <1>5, <3>1 DEF HasAt
      <3>2. CASE u # t
        <4>1. a = b /\ a = Content(u, l) => FALSE
          BY <1>1, <1>4, <3>2, OnePlace
        <4>2. QED BY <1>5, <3>2, <4>1 DEF HasAt
      <3>3. QED BY <3>1, <3>2
    <2>3. HasAt(b, t, k)
      BY <1>4 DEF HasAt
    <2>4. \A a : a \in Held' <=> a \in Held /\ a # b
      BY <2>1, <2>2 DEF HeldIsContent
    <2>5. b \in Held
      BY <1>4, <2>1, <2>3 DEF HeldIsContent
    <2>6. QED BY <2>4, <2>5
  <1>7. QED BY <1>3, <1>6

\* A block that a list does not get yet stays with its thread, and so do all
\* blocks while a new one is begun.
LEMMA SplitHolds ==
  ASSUME IInv, NEW t \in Thread,
         Split(t) \/ (EnterFree(t) /\ pc' = [pc EXCEPT ![t] = "walk"])
  PROVE  Held' = Held
  BY HeldKept DEF Split, EnterFree, Running, GoTo, client, IInv, Types, Content

\* Storing a block moves it; nobody loses one.
LEMMA StoreHolds ==
  ASSUME IInv, NEW t \in Thread, Store(t)
  PROVE  Held' = Held
  <1> USE DEF Running, allocator
  <1>1. Types /\ Position(t) /\ EmptySlots(t)
    BY DEF IInv, Store
  <1>2. /\ i[t] < Rounds(loop[t]) /\ i[t] \in Nat /\ loop[t] \in 1 .. 4 /\ loop[t] \in {1, 3}
    BY <1>1 DEF Types, Position, Store
  <1>3. PICK m \in Index : m = Target(t)
    BY <1>2, Rooms DEF Target
  <1>4. Content(t, m) = NULL /\ m # Returned /\ m \in Place
    BY <1>1, <1>2, <1>3, Constants DEF EmptySlots, Store, Index, Content, Target, Place
  <1>5. /\ array' = [array EXCEPT ![t] = [array[t] EXCEPT ![m] = block[t]]]
        /\ block' = [block EXCEPT ![t] = NULL]
    BY <1>3 DEF Store
  <1>6. /\ \A u \in Thread \ {t} : pc'[u] = pc[u]
        /\ pc[t] = "returned" /\ pc'[t] # "freed"
    BY <1>1, <1>2, AdvanceSteps DEF Store, Types
  <1>7. /\ Content(t, Returned)' = NULL
        /\ Content(t, m)' = Content(t, Returned)
        /\ \A u \in Thread, l \in Place :
             <<u, l>> \notin {<<t, Returned>>, <<t, m>>} => Content(u, l)' = Content(u, l)
    <2>1. Content(t, Returned)' = NULL /\ Content(t, m)' = Content(t, Returned)
      BY <1>1, <1>4, <1>5, <1>6 DEF Types, Content
    <2>2. ASSUME NEW u \in Thread, NEW l \in Place, <<u, l>> \notin {<<t, Returned>>, <<t, m>>}
          PROVE  Content(u, l)' = Content(u, l)
      <3>1. CASE u = t
        BY <1>1, <1>5, <2>2, <3>1 DEF Types, Content, Place
      <3>2. CASE u # t
        BY <1>1, <1>5, <1>6, <3>2 DEF Types, Content
      <3>3. QED BY <3>1, <3>2
    <2>3. QED BY <2>1, <2>2
  <1>8. Held' = Held
    <2>1. HeldIsContent /\ HeldIsContent'
      BY HeldContent, PTL
    <2>2. \A u \in Thread \ {t} : block'[u] = block[u]
      BY <1>1, <1>5 DEF Types
    <2>3. ASSUME NEW a, NEW u \in Thread, NEW l \in Place,
                 <<u, l>> \notin {<<t, Returned>>, <<t, m>>}
          PROVE  HasAt(a, u, l)' <=> HasAt(a, u, l)
      BY <1>6, <1>7, <2>2, <2>3 DEF HasAt
    <2>4. \A a : /\ ~ HasAt(a, t, m) /\ ~ HasAt(a, t, Returned)'
                 /\ HasAt(a, t, m)' <=> HasAt(a, t, Returned)
      BY <1>4, <1>6, <1>7 DEF HasAt
    <2>5. Returned \in Place
      BY DEF Place
    <2>6. ASSUME NEW a PROVE a \in Held' <=> a \in Held
      BY <1>4, <2>1, <2>3, <2>4, <2>5 DEF HeldIsContent
    <2>7. QED BY <2>6
  <1>9. QED BY <1>8

LEMMA LeaveFreeHolds ==
  ASSUME IInv, NEW t \in Thread, LeaveFree(t)
  PROVE  Held' = Held
  <1> USE DEF Running, allocator
  <1>1. Types /\ Layout /\ Position(t)
    BY DEF IInv
  <1>2. i[t] < Rounds(loop[t]) /\ i[t] \in Nat /\ loop[t] \in 1 .. 4
    BY <1>1 DEF Types, Position, LeaveFree
  <1>3. PICK m \in Index : m = i[t]
    BY <1>2, Rooms
  <1>4. Content(t, m) = block[t] /\ m # Returned /\ m \in Place
    BY <1>1, <1>3, Constants DEF Position, LeaveFree, Content, Place
  <1>5. /\ pc[t] = "freed" /\ pc'[t] \in {"loop", "exit"}
        /\ \A u \in Thread \ {t} : pc'[u] = pc[u] /\ block'[u] = block[u]
    BY <1>1, <1>2, AdvanceSteps DEF LeaveFree, Types
  <1>6. /\ Content(t, m)' = NULL
        /\ \A u \in Thread, l \in Place : <<u, l>> # <<t, m>> => Content(u, l)' = Content(u, l)
    BY <1>1, <1>3, <1>4, <1>5 DEF LeaveFree, Types, Content
  <1>7. Held' = Held
    <2>1. HeldIsContent /\ HeldIsContent'
      BY HeldContent, PTL
    <2>2. ASSUME NEW a, NEW u \in Thread, NEW l \in Place
          PROVE  HasAt(a, u, l)' <=> HasAt(a, u, l)
      <3>1. CASE <<u, l>> = <<t, m>>
        BY <1>4, <1>5, <1>6, <3>1 DEF HasAt
      <3>2. CASE u = t /\ l # m
        <4>1. Content(u, l) # NULL => Content(u, l) # block[t]
          BY <1>1, <1>4, <3>2, OnePlace
        <4>2. QED BY <1>5, <1>6, <3>2, <4>1 DEF HasAt
      <3>3. CASE u # t
        BY <1>5, <1>6, <3>3 DEF HasAt
      <3>4. QED BY <3>1, <3>2, <3>3
    <2>3. ASSUME NEW a PROVE a \in Held' <=> a \in Held
      BY <2>1, <2>2 DEF HeldIsContent
    <2>4. QED BY <2>3
  <1>8. QED BY <1>7

\* The other steps move no block.
LEMMA OthersHold ==
  ASSUME IInv, NEW t \in Thread,
         \/ EnterMalloc(t) \/ InitFails(t) \/ Refuse(t) \/ Walk(t)
         \/ CallMalloc(t) \/ CallFree(t) \/ SkipFree(t)
  PROVE  Held' = Held
  <1> USE DEF Running, GoTo, allocator, locals, client
  <1>1. Types /\ Position(t)
    BY DEF IInv
  <1>2. UNCHANGED <<hdr, array>>
    BY DEF EnterMalloc, InitFails, Refuse, Walk, CallMalloc, CallFree, SkipFree
  <1>3. /\ pc[t] # "freed" /\ pc'[t] # "freed"
        /\ \A u \in Thread \ {t} : pc'[u] = pc[u] /\ block'[u] = block[u]
        /\ pc[t] # "returned" /\ (pc'[t] = "returned" => block'[t] = NULL)
    <2>1. CASE SkipFree(t)
      <3>1. i[t] < Rounds(loop[t])
        BY <1>1, <2>1 DEF Position, SkipFree, InLoop
      <3>2. QED BY <1>1, <2>1, <3>1, AdvanceSteps DEF SkipFree, InLoop, Types
    <2>2. CASE EnterMalloc(t)
      BY <1>1, <2>2 DEF EnterMalloc, Pop, Types
    <2>3. CASE InitFails(t)
      BY <1>1, <2>3 DEF InitFails, Types, Position
    <2>4. CASE Refuse(t) \/ Walk(t)
      BY <1>1, <2>4 DEF Refuse, Walk, Types
    <2>5. CASE CallMalloc(t) \/ CallFree(t)
      BY <1>1, <2>5 DEF CallMalloc, CallFree, InLoop, Types
    <2>6. QED BY <2>1, <2>2, <2>3, <2>4, <2>5
  <1>4. \A u \in Thread, k \in Place : Content(u, k)' = Content(u, k)
    BY <1>2, <1>3 DEF Content
  <1>5. Held' = Held
    BY <1>3, <1>4, HeldKept
  <1>6. QED BY <1>5

-----------------------------------------------------------------------------
(* The steps of the abstract heap.                                         *)

LEMMA HeapMallocs ==
  ASSUME NEW b \in [lo : Base .. End - 1, size : Size],
         b.lo .. b.lo + b.size - 1 \subseteq Base .. End - 1,
         b \notin InUse, InUse' = InUse \cup {b}, Refused' = Refused,
         \A c \in InUse : H!Disjoint(b, c)
  PROVE  H!Malloc("global")
  BY DEF H!Malloc, H!Words, InUse, Held, BlockAt, Refused

LEMMA HeapFrees ==
  ASSUME NEW b \in InUse, InUse' = InUse \ {b}, Refused' = Refused
  PROVE  H!Free("global")
  BY DEF H!Free, InUse, Held, BlockAt, Refused

LEMMA HeapKeeps ==
  ASSUME InUse' = InUse
  PROVE  H!RefuseAny
  BY DEF H!RefuseAny, InUse, Held, BlockAt

\* The block that Split has begun belongs to its thread.
LEMMA ShiftMallocs ==
  ASSUME IInv, NEW t \in Thread, Shift(t)
  PROVE  H!Malloc("global")
  <1> USE DEF Running, GoTo, client
  <1>1. Types /\ Layout /\ Unallocated /\ Position(t)
    BY DEF IInv
  <1>2. PICK e : e = last
    OBVIOUS
  <1>3. /\ e \in Nat /\ e >= Base /\ e \in Header /\ block[t] = e
        /\ size[t] \in Size /\ size[t] \in Nat /\ size[t] > 0 /\ hdr[e].size = size[t]
        /\ e + HeaderSize + size[t] <= End
    <2>1. /\ memblock = Base /\ last \in Base .. End /\ left = End - last /\ left >= Need(t)
          /\ size[t] \in Size /\ size[t] \in Nat /\ size[t] > 0
          /\ block[t] = last /\ hdr[last].size = size[t]
      BY <1>1, Constants DEF Position, Unallocated, Shift
    <2>2. QED BY <1>2, <2>1, Constants DEF Header, Need, HeaderSize
  <1>4. UNCHANGED <<hdr, block>> /\ \A u \in Thread \ {t} : pc'[u] = pc[u]
    BY <1>1 DEF Types, Shift
  <1>5. Held' = Held \cup {e}
    BY <1>2, ShiftTakes
  <1>6. DEFINE b == BlockAt(e)
  <1>7. InUse' = InUse \cup {b}
    BY <1>4, <1>5 DEF InUse, BlockAt
  <1>8. /\ b \in [lo : Base .. End - 1, size : Size]
         /\ b.lo = e + HeaderSize /\ b.size = size[t]
         /\ b.lo .. b.lo + b.size - 1 \subseteq Base .. End - 1
    BY <1>3, Constants DEF BlockAt, HeaderSize
  <1>9. ASSUME NEW c \in InUse PROVE H!Disjoint(b, c) /\ c # b
    <2>1. PICK a \in Held : c = BlockAt(a)
      BY DEF InUse
    <2>2. /\ a \in Nat /\ hdr[a].size \in Nat /\ a + HeaderSize + hdr[a].size <= e
          /\ c.lo = a + HeaderSize /\ c.size = hdr[a].size
      BY <1>1, <1>2, <2>1, HeldInside DEF BlockAt
    <2>3. c.lo + c.size <= e /\ c.lo < b.lo /\ c.lo \in Nat /\ c.size \in Nat
          /\ b.lo \in Nat /\ b.size \in Nat
      BY <1>3, <1>8, <2>2 DEF HeaderSize
    <2>4. \A x \in c.lo .. c.lo + c.size - 1 : x \notin b.lo .. b.lo + b.size - 1
      BY <1>3, <1>8, <2>3 DEF HeaderSize
    <2>5. QED BY <2>3, <2>4 DEF H!Disjoint, H!Words
  <1>10. Refused' = Refused
    BY <1>3, <1>4, Constants DEF Refused, NULL
  <1> HIDE DEF b
  <1>11. QED BY <1>7, <1>8, <1>9, <1>10, HeapMallocs

\* A list gets the block, and with it the allocator.
LEMMA FreedFrees ==
  ASSUME IInv, NEW t \in Thread, pc[t] \in {"free", "walk"},
         pc' = [pc EXCEPT ![t] = "freed"],
         UNCHANGED <<block, array>>, \A a \in Header : hdr'[a].size = hdr[a].size
  PROVE  H!Free("global")
  <1>1. Types /\ Layout
    BY DEF IInv
  <1>2. PICK b : b = block[t]
    OBVIOUS
  <1>3. Held' = Held \ {b} /\ b \in Held
    BY <1>2, FreedGives
  <1>4. \A a \in Held : a \in Nat /\ BlockAt(a)' = BlockAt(a)
    BY <1>1, HeldInside DEF BlockAt
  <1>5. InUse' = InUse \ {BlockAt(b)} /\ BlockAt(b) \in InUse
    <2>1. \A a \in Held : a # b => BlockAt(a) # BlockAt(b)
      <3>1. ASSUME NEW a \in Held, a # b PROVE BlockAt(a).lo # BlockAt(b).lo
        <4>1. a \in Nat /\ b \in Nat
          BY <1>3, <1>4
        <4>2. BlockAt(a).lo = a + 2 /\ BlockAt(b).lo = b + 2
          BY DEF BlockAt, HeaderSize
        <4>3. QED BY <3>1, <4>1, <4>2
      <3>2. QED BY <3>1
    <2>2. InUse' = {BlockAt(a) : a \in Held \ {b}}
      BY <1>3, <1>4 DEF InUse, BlockAt
    <2>3. QED BY <1>3, <2>1, <2>2 DEF InUse
  <1>6. Refused' = Refused
    BY <1>1 DEF Refused, Types
  <1>7. QED BY <1>5, <1>6, HeapFrees

LEMMA EnterFreeRefines ==
  ASSUME IInv, NEW t \in Thread, EnterFree(t)
  PROVE  H!RefuseAny \/ H!Free("global")
  <1>1. CASE pc' = [pc EXCEPT ![t] = "freed"]
    BY <1>1, FreedFrees DEF EnterFree, Running, client
  <1>2. CASE pc' = [pc EXCEPT ![t] = "walk"]
    <2>1. Held' = Held
      BY <1>2, SplitHolds
    <2>2. QED BY <2>1, InUseKept, HeapKeeps DEF EnterFree
  <1>3. QED BY <1>1, <1>2 DEF EnterFree, GoTo

LEMMA EnqueueRefines ==
  ASSUME IInv, NEW t \in Thread, Enqueue(t)
  PROVE  H!Free("global")
  <1>1. /\ hdr' = [hdr EXCEPT ![current[t]].next = block[t]]
        /\ hdr \in [Header -> [next : Header \cup {NULL}, size : Size \cup {0}]]
    BY DEF Enqueue, IInv, Types
  <1>2. \A a \in Header : hdr'[a].size = hdr[a].size
    <2>1. ASSUME NEW a \in Header, a # current[t] PROVE hdr'[a] = hdr[a]
      BY <1>1, <2>1
    <2>2. ASSUME NEW a \in Header, a = current[t] PROVE hdr'[a].size = hdr[a].size
      <3>1. hdr[a] \in [next : Header \cup {NULL}, size : Size \cup {0}]
        BY <1>1
      <3>2. hdr'[a] = [hdr[a] EXCEPT !.next = block[t]]
        BY <1>1, <2>2
      <3>3. QED BY <3>1, <3>2
    <2>3. QED BY <2>1, <2>2
  <1>3. QED BY <1>2, FreedFrees DEF Enqueue, Running, GoTo, client

LEMMA SplitRefines ==
  ASSUME IInv, NEW t \in Thread, Split(t)
  PROVE  H!RefuseAny
  <1>1. Held' = Held
    BY SplitHolds
  <1>2. ASSUME NEW a \in Held PROVE hdr'[a].size = hdr[a].size
    <2>1. a \in Header /\ a \in Nat /\ hdr[a].size \in Nat /\ a + HeaderSize + hdr[a].size <= last
      BY HeldInside DEF IInv
    <2>2. last \in Nat
      BY Constants DEF IInv, Position, Unallocated, Split, Running
    <2>3. a # last
      BY <2>1, <2>2 DEF HeaderSize
    <2>4. QED BY <2>1, <2>3 DEF Split, IInv, Types
  <1>3. QED BY <1>1, <1>2, InUseKept, HeapKeeps

\* The other steps give no block to anyone and take none away.
LEMMA OthersRefine ==
  ASSUME IInv, NEW t \in Thread,
         \/ EnterMalloc(t) \/ InitFails(t) \/ Refuse(t) \/ Walk(t) \/ CallMalloc(t)
         \/ CallFree(t) \/ SkipFree(t) \/ Store(t) \/ LeaveFree(t)
  PROVE  H!RefuseAny
  <1>1. Held' = Held
    BY OthersHold, StoreHolds, LeaveFreeHolds
  <1>2. UNCHANGED hdr
    BY DEF EnterMalloc, InitFails, Refuse, Walk, CallMalloc, CallFree, SkipFree, Store,
           LeaveFree, allocator
  <1>3. QED BY <1>1, <1>2, InUseKept, HeapKeeps

LEMMA StepRefines ==
  ASSUME IInv, [Next]_vars
  PROVE  [H!RefuseAny \/ \E p \in {"global"} : H!Malloc(p) \/ H!Free(p)]_(H!vars)
  <1>1. CASE UNCHANGED vars
    <2>1. Held' = Held
      BY <1>1, HeldKept DEF vars, allocator, client, locals, Content
    <2>2. QED BY <1>1, <2>1, InUseKept, HeapKeeps DEF vars, allocator
  <1>2. CASE ProcessExit
    <2>1. Held' = Held
      BY <1>2, HeldKept DEF ProcessExit, client, locals, Content
    <2>2. QED BY <1>2, <2>1, InUseKept, HeapKeeps DEF ProcessExit
  <1>3. CASE \E t \in Thread : Step(t)
    BY <1>3, ShiftMallocs, EnterFreeRefines, EnqueueRefines, SplitRefines, OthersRefine
       DEF Step
  <1>4. QED BY <1>1, <1>2, <1>3 DEF Next, Ended

LEMMA InitRefines == Init => H!Init
  <1> SUFFICES ASSUME Init PROVE H!Init
    OBVIOUS
  <1>1. \A t \in Thread : InHand(t) = {}
    BY DEF Init, InHand
  <1>2. InUse = {} /\ ~Refused
    BY <1>1 DEF Init, InUse, Held, Refused
  <1>3. QED BY <1>2 DEF H!Init, InUse, Held, Refused, BlockAt

(* The allocator with its threads implements the safe part of the abstract *)
(* heap: every block that my_malloc returns lies in the memory block and   *)
(* overlaps no block that any thread has, until it is freed.               *)
THEOREM AllocatorImplementsHeap == Spec => ImplementsHeap
  BY InitRefines, InvariantHolds, StepRefines, PTL DEF Spec, ImplementsHeap, H!SafeSpec

(* Any two blocks that threads have, those of one thread as those of two,  *)
(* are apart.                                                              *)
BlocksApart ==
  \A t, u \in Thread : \A a \in InHand(t), b \in InHand(u) :
    t # u \/ a # b => H!Disjoint(BlockAt(a), BlockAt(b))

LEMMA BlocksOfThreadsApart == IInv => BlocksApart
  <1> SUFFICES ASSUME IInv, NEW t \in Thread, NEW u \in Thread,
                      NEW a \in InHand(t), NEW b \in InHand(u), t # u \/ a # b
               PROVE  H!Disjoint(BlockAt(a), BlockAt(b))
    BY DEF BlocksApart
  <1>1. Types /\ Layout
    BY DEF IInv
  <1>2. PICK k \in Place : HasAt(a, t, k)
    BY HandContent
  <1>3. PICK l \in Place : HasAt(b, u, l)
    BY HandContent
  <1>4. <<u, l>> # <<t, k>>
    BY <1>2, <1>3 DEF HasAt
  <1>5. Apart(a, b)
    BY <1>1, <1>2, <1>3, <1>4 DEF Layout, HasAt
  <1>6. a \in Held /\ b \in Held
    BY DEF Held
  <1>7. /\ a \in Nat /\ hdr[a].size \in Nat /\ hdr[a].size > 0
        /\ b \in Nat /\ hdr[b].size \in Nat /\ hdr[b].size > 0
    BY <1>1, <1>6, HeldInside
  <1>8. a + HeaderSize + hdr[a].size <= b \/ b + HeaderSize + hdr[b].size <= a
    BY <1>5 DEF Apart, Behind
  <1>9. /\ BlockAt(a).lo = a + HeaderSize /\ BlockAt(a).size = hdr[a].size
        /\ BlockAt(b).lo = b + HeaderSize /\ BlockAt(b).size = hdr[b].size
    BY DEF BlockAt
  <1>10. \A x \in H!Words(BlockAt(a)) : x \notin H!Words(BlockAt(b))
    BY <1>7, <1>8, <1>9 DEF H!Words, HeaderSize
  <1>11. BlockAt(a).lo # BlockAt(b).lo
    BY <1>7, <1>8, <1>9 DEF HeaderSize
  <1>12. QED BY <1>10, <1>11 DEF H!Disjoint

(* At no time do two threads, or a thread twice, have the same address:    *)
(* what a thread writes into the block that my_malloc gave it is           *)
(* overwritten by no other block's owner until it is freed.                *)
THEOREM BlocksNeverOverlap == Spec => []BlocksApart
  BY InvariantHolds, BlocksOfThreadsApart, PTL

-----------------------------------------------------------------------------
(* Numbers, and functions that are defined by recursion over them.         *)

LEMMA LeastNumber ==
  ASSUME NEW S, S \subseteq Nat, S # {}
  PROVE  \E n \in S : \A k \in S : ~(k < n)
  <1> DEFINE R == OpToRel(<, Nat)
  <1>1. IsWellFoundedOn(R, Nat)
    BY NatLessThanWellFounded, Zenon
  <1>2. \A k, n \in Nat : <<k, n>> \in R <=> k < n
    BY DEF OpToRel
  <1> HIDE DEF R
  <1>3. \E n \in S : \A k \in S : ~ (<<k, n>> \in R)
    BY <1>1, WFMin
  <1>4. QED BY <1>2, <1>3

LEMMA SetInduction ==
  ASSUME NEW S, 0 \in S, \A n \in Nat : n \in S => n + 1 \in S
  PROVE  \A n \in Nat : n \in S
  <1> SUFFICES ASSUME Nat \ S # {} PROVE FALSE
    OBVIOUS
  <1>1. PICK n \in Nat \ S : \A k \in Nat \ S : ~(k < n)
    BY LeastNumber
  <1>2. n # 0 /\ n - 1 \in Nat
    BY <1>1
  <1>3. n - 1 \in S
    BY <1>1, <1>2
  <1>4. QED BY <1>1, <1>2, <1>3

\* The recursion of Chain, from 0 to n.
Follow(succ, a) == IF a \in Header THEN succ[a] ELSE NULL

IsWalk(first, succ, n, f) ==
  f = [k \in 0 .. n |-> IF k = 0 THEN first ELSE Follow(succ, f[k - 1])]

LEMMA WalkExists ==
  ASSUME NEW first, NEW succ
  PROVE  \A n \in Nat : \E f : IsWalk(first, succ, n, f)
  <1> DEFINE S == {n \in Nat : \E f : IsWalk(first, succ, n, f)}
  <1>1. 0 \in S
    <2>1. IsWalk(first, succ, 0, [k \in 0 .. 0 |-> first])
      BY DEF IsWalk
    <2>2. QED BY <2>1
  <1>2. ASSUME NEW n \in Nat, n \in S PROVE n + 1 \in S
    <2>1. PICK f : IsWalk(first, succ, n, f)
      BY <1>2
    <2> DEFINE g == [k \in 0 .. n + 1 |-> IF k = n + 1 THEN Follow(succ, f[n]) ELSE f[k]]
    <2>2. \A k \in 0 .. n + 1 : g[k] = IF k = 0 THEN first ELSE Follow(succ, g[k - 1])
      <3> TAKE k \in 0 .. n + 1
      <3>1. CASE k = n + 1
        <4>1. g[k] = Follow(succ, f[n]) /\ g[k - 1] = f[n] /\ k # 0
          BY <3>1
        <4>2. QED BY <4>1
      <3>2. CASE k \in 1 .. n
        <4>1. g[k] = f[k] /\ g[k - 1] = f[k - 1] /\ k # 0
          BY <3>2
        <4>2. f[k] = Follow(succ, f[k - 1])
          BY <2>1, <3>2 DEF IsWalk
        <4>3. QED BY <4>1, <4>2
      <3>3. CASE k = 0
        BY <3>3, <2>1 DEF IsWalk
      <3>4. QED BY <3>1, <3>2, <3>3
    <2>3. g = [k \in 0 .. n + 1 |-> g[k]]
      OBVIOUS
    <2> HIDE DEF g
    <2>4. IsWalk(first, succ, n + 1, g)
      BY <2>2, <2>3 DEF IsWalk
    <2>5. n + 1 \in Nat /\ \E h : IsWalk(first, succ, n + 1, h)
      BY <2>4
    <2>6. QED BY <2>5
  <1> HIDE DEF S
  <1>3. \A n \in Nat : n \in S
    BY <1>1, <1>2, SetInduction
  <1>4. QED BY <1>3 DEF S

\* A walk stays in a set that no step leaves.
LEMMA ChainStays ==
  ASSUME NEW first, NEW succ, NEW T, first \in T \cup {NULL},
         \A a \in T \cap Header : succ[a] \in T \cup {NULL}
  PROVE  Chain(first, succ) \subseteq T
  <1> DEFINE at == CHOOSE f : IsWalk(first, succ, MEMBLOCK_SIZE, f)
             S == {k \in Nat : k <= MEMBLOCK_SIZE => at[k] \in T \cup {NULL}}
  <1>0. NULL \notin Header /\ MEMBLOCK_SIZE \in Nat
    BY Constants
  <1>1. IsWalk(first, succ, MEMBLOCK_SIZE, at)
    <2>1. \E f : IsWalk(first, succ, MEMBLOCK_SIZE, f)
      BY <1>0, WalkExists
    <2>2. QED BY <2>1, Zenon
  <1>2. Chain(first, succ) = {at[k] : k \in 0 .. MEMBLOCK_SIZE} \cap Header
    BY Zenon DEF Chain, Follow, IsWalk
  <1> HIDE DEF at
  <1>3. at[0] = first /\ \A k \in 1 .. MEMBLOCK_SIZE : at[k] = Follow(succ, at[k - 1])
    BY <1>0, <1>1 DEF IsWalk
  <1>4. 0 \in S
    BY <1>3
  <1>5. ASSUME NEW k \in Nat, k \in S PROVE k + 1 \in S
    <2> SUFFICES ASSUME k + 1 <= MEMBLOCK_SIZE PROVE at[k + 1] \in T \cup {NULL}
      OBVIOUS
    <2>1. k + 1 \in 1 .. MEMBLOCK_SIZE /\ (k + 1) - 1 = k /\ at[k] \in T \cup {NULL}
      BY <1>0, <1>5
    <2>2. at[k + 1] = Follow(succ, at[k])
      BY <1>3, <2>1
    <2>3. QED BY <1>0, <2>1, <2>2 DEF Follow
  <1>6. \A k \in Nat : k \in S
    <2> HIDE DEF S
    <2>1. QED BY <1>4, <1>5, SetInduction
  <1>7. QED BY <1>0, <1>2, <1>6

LEMMA SlabOfSize ==
  ASSUME NEW s \in Size
  PROVE  Slab(s) \in 0 .. SLAB_MAX
  <1> DEFINE S == {k \in 0 .. SLAB_MAX : s <= 2 ^ k}
  <1>1. SLAB_MAX \in S /\ S \subseteq Nat
    OBVIOUS
  <1>2. PICK n \in S : \A k \in S : ~(k < n)
    BY <1>1, LeastNumber
  <1>3. \A j \in 0 .. n - 1 : s > 2 ^ j
    <2> TAKE j \in 0 .. n - 1
    <2>1. j \in 0 .. SLAB_MAX /\ j \notin S
      BY <1>2
    <2>2. ~(s <= 2 ^ j) /\ s \in Nat /\ 2 ^ j \in Int
      BY <2>1
    <2>3. QED BY <2>2
  <1>4. QED BY <1>2, <1>3 DEF Slab

-----------------------------------------------------------------------------
(* The lists, and the blocks up to the unallocated space.                  *)

\* Where the heads of the lists and the headers point to.
Pointers == {slabs[k] : k \in 0 .. SLAB_MAX} \cup {hdr[a].next : a \in Header}

\* What they point to has been split off and nobody has it, but for the
\* first block.
Links == \A a \in Pointers : a \in {NULL, Base} \/ (a < last /\ a \notin Held)

\* The blocks of T follow one another up to the unallocated space.
Tiles(T) ==
  /\ T \subseteq Header /\ Base \in T \cup {last}
  /\ \A a \in T : a < last /\ Behind(a) \in T \cup {last}

Space ==
  last # NULL => /\ last \in Base .. End /\ left = End - last
                 /\ \E T : Tiles(T)

Fresh == process = "running" /\ memblock = NULL => last = NULL

Walking == \A t \in Thread : pc[t] = "walk" => current[t] # NULL

ListInv == TypeOK /\ Walking /\ Fresh /\ Links /\ Space

\* The blocks up to the unallocated space are those of the tiling.
LEMMA BlocksAreTiles ==
  ASSUME NEW T, Tiles(T)
  PROVE  Blocks \subseteq T
  <1> DEFINE succ == [a \in Header |-> IF a < last THEN NextBlock(a) ELSE NULL]
  <1>1. Base \in T \cup {last} /\ \A a \in T : a < last /\ NextBlock(a) \in T \cup {last}
    BY DEF Tiles, NextBlock, Behind
  <1>2. ASSUME NEW a \in (T \cup {last}) \cap Header
        PROVE  succ[a] \in (T \cup {last}) \cup {NULL}
    <2>1. succ[a] = IF a < last THEN NextBlock(a) ELSE NULL
      OBVIOUS
    <2>2. last \in Header => ~(last < last)
      BY Constants
    <2>3. a < last => a \in T
      BY <2>2
    <2> HIDE DEF succ
    <2>4. QED BY <1>1, <2>1, <2>3
  <1> HIDE DEF succ
  <1>3. Chain(Base, succ) \subseteq T \cup {last}
    BY <1>1, <1>2, ChainStays
  <1>4. Blocks = Chain(Base, succ) \ {last}
    BY Zenon DEF Blocks, succ
  <1>5. QED BY <1>3, <1>4

LEMMA ListedArePointed ==
  ASSUME NEW k \in 0 .. SLAB_MAX
  PROVE  Listed(k) \subseteq Pointers \ {NULL}
  <1> DEFINE succ == [a \in Header |-> hdr[a].next]
  <1>1. slabs[k] \in Pointers /\ \A a \in Header : succ[a] \in Pointers
    BY DEF Pointers
  <1> HIDE DEF succ
  <1>2. Chain(slabs[k], succ) \subseteq Pointers \ {NULL}
    <2>1. /\ slabs[k] \in (Pointers \ {NULL}) \cup {NULL}
          /\ \A a \in (Pointers \ {NULL}) \cap Header :
               succ[a] \in (Pointers \ {NULL}) \cup {NULL}
      BY <1>1
    <2>2. QED BY <2>1, ChainStays
  <1>3. Listed(k) = Chain(slabs[k], succ)
    BY Zenon DEF Listed, succ
  <1>4. QED BY <1>2, <1>3

\* Of the sizes, only that of the next block may change.
LEMMA SpaceKept ==
  ASSUME Types, Space, UNCHANGED <<last, left>>,
         \A a \in Header : a # last => hdr'[a].size = hdr[a].size
  PROVE  Space'
  <1> SUFFICES ASSUME last # NULL
               PROVE  /\ last \in Base .. End /\ left = End - last
                      /\ \E T : Tiles(T)'
    BY DEF Space
  <1>1. /\ last \in Base .. End /\ left = End - last
        /\ \E T : Tiles(T)
    BY DEF Space
  <1>2. PICK T : Tiles(T)
    BY <1>1
  <1>3. \A a \in T : a \in Header /\ a < last /\ a # last
    BY <1>1, <1>2, Constants DEF Tiles
  <1>4. \A a \in T : Behind(a)' = Behind(a)
    BY <1>3 DEF Behind
  <1>5. Tiles(T)'
    BY <1>2, <1>4 DEF Tiles
  <1>6. QED BY <1>1, <1>5

LEMMA SpaceBegins ==
  ASSUME last' = Base, left' = MEMBLOCK_SIZE
  PROVE  Space'
  <1>1. Tiles({})'
    BY DEF Tiles
  <1>2. Base \in Base .. End /\ MEMBLOCK_SIZE = End - Base
    BY DEF Base, End, HeaderSize
  <1>3. QED BY <1>1, <1>2 DEF Space

LEMMA SpaceShifts ==
  ASSUME IInv, Space, NEW t \in Thread, Shift(t)
  PROVE  Space'
  <1>1. /\ memblock = Base /\ last \in Base .. End /\ left = End - last /\ left >= Need(t)
        /\ size[t] \in Size /\ size[t] \in Nat /\ size[t] > 0
        /\ block[t] = last /\ hdr[last].size = size[t]
    BY Constants DEF IInv, Position, Unallocated, Shift, Running
  <1>2. /\ last \in Nat /\ last \in Header /\ last # NULL
        /\ last' = last + size[t] + HeaderSize /\ left' = left - (size[t] + HeaderSize)
        /\ last' <= End /\ UNCHANGED hdr
    BY <1>1, Constants DEF Shift, Need, Header, HeaderSize, NULL, Base
  <1>3. PICK T : Tiles(T)
    BY <1>2 DEF Space
  <1>4. PICK e : e = last
    OBVIOUS
  <1>5. /\ T \cup {e} \subseteq Header /\ Base \in T \cup {e}
        /\ \A a \in T : a < last' /\ Behind(a)' \in T \cup {e}
    <2>1. \A a \in T : a < last /\ a \in Nat
      BY <1>3, Constants DEF Tiles
    <2>2. \A a \in T : a < last'
      BY <1>1, <1>2, <2>1 DEF HeaderSize
    <2>3. \A a \in T : Behind(a)' \in T \cup {e}
      BY <1>2, <1>3, <1>4 DEF Tiles, Behind
    <2>4. QED BY <1>2, <1>3, <1>4, <2>2, <2>3 DEF Tiles
  <1>6. e < last' /\ Behind(e)' = last'
    BY <1>1, <1>2, <1>4 DEF Behind, HeaderSize
  <1>7. Tiles(T \cup {e})'
    BY <1>5, <1>6 DEF Tiles
  <1>8. last' \in Base .. End /\ left' = End - last'
    BY <1>1, <1>2, Constants DEF HeaderSize
  <1>9. QED BY <1>7, <1>8 DEF Space

LEMMA SpaceStep ==
  ASSUME IInv, Space, Fresh, NEW t \in Thread, Step(t)
  PROVE  Space'
  <1> USE DEF Running
  <1>0. Types
    BY DEF IInv
  <1>1. CASE EnterMalloc(t) /\ memblock # NULL
    BY <1>0, <1>1, SpaceKept DEF EnterMalloc
  <1>2. CASE EnterMalloc(t) /\ memblock = NULL
    BY <1>2, SpaceBegins DEF EnterMalloc
  <1>3. CASE Shift(t)
    BY <1>3, SpaceShifts
  <1>4. CASE Split(t)
    <2>1. \A a \in Header : a # last => hdr'[a].size = hdr[a].size
      BY <1>0, <1>4 DEF Split, Types
    <2>2. UNCHANGED <<last, left>>
      BY <1>4 DEF Split
    <2>3. QED BY <1>0, <2>1, <2>2, SpaceKept
  <1>5. CASE Enqueue(t)
    <2>1. ASSUME NEW a \in Header PROVE hdr'[a].size = hdr[a].size
      <3>1. /\ hdr' = [hdr EXCEPT ![current[t]].next = block[t]]
            /\ hdr[a] \in [next : Header \cup {NULL}, size : Size \cup {0}]
            /\ hdr \in [Header -> [next : Header \cup {NULL}, size : Size \cup {0}]]
        BY <1>0, <1>5 DEF Enqueue, Types
      <3>2. CASE a # current[t]
        BY <3>1, <3>2
      <3>3. CASE a = current[t]
        <4>1. hdr'[a] = [hdr[a] EXCEPT !.next = block[t]]
          BY <3>1, <3>3
        <4>2. QED BY <3>1, <4>1
      <3>4. QED BY <3>2, <3>3
    <2>2. UNCHANGED <<last, left>>
      BY <1>5 DEF Enqueue
    <2>3. QED BY <1>0, <2>1, <2>2, SpaceKept
  <1>6. CASE \/ InitFails(t) \/ Refuse(t) \/ EnterFree(t) \/ Walk(t) \/ CallMalloc(t)
             \/ Store(t) \/ CallFree(t) \/ SkipFree(t) \/ LeaveFree(t)
    <2>1. UNCHANGED <<last, left, hdr>>
      BY <1>6 DEF InitFails, Refuse, EnterFree, Walk, CallMalloc, Store, CallFree, SkipFree,
                  LeaveFree, allocator
    <2>2. QED BY <1>0, <2>1, SpaceKept
  <1>7. QED BY <1>1, <1>2, <1>3, <1>4, <1>5, <1>6 DEF Step

\* The pointers change by the address b at most, and the blocks in the hands
\* of the threads by the next one.
LEMMA LinksKept ==
  ASSUME Links, NEW b, Pointers' \subseteq Pointers \cup {NULL, Base, b},
         b \in {NULL, Base} \/ (b < last' /\ b \notin Held'),
         \A a \in Pointers \ {NULL, Base} : a < last => a < last' /\ a # last,
         Held' \subseteq Held \cup {last}
  PROVE  Links'
  <1> SUFFICES ASSUME NEW a \in Pointers', a \notin {NULL, Base}
               PROVE  a < last' /\ a \notin Held'
    BY DEF Links
  <1>1. CASE a = b
    BY <1>1
  <1>2. CASE a # b
    <2>1. a \in Pointers
      BY <1>2
    <2>2. a < last /\ a \notin Held
      BY <2>1 DEF Links
    <2>3. QED BY <2>1, <2>2
  <1>3. QED BY <1>1, <1>2

LEMMA PointersAreHeaders ==
  ASSUME TypeOK
  PROVE  Pointers \subseteq Header \cup {NULL}
  BY DEF TypeOK, Pointers

LEMMA BeforeLast ==
  ASSUME TypeOK, last # NULL
  PROVE  \A a \in Pointers \ {NULL} : a < last => a # last
  BY PointersAreHeaders, Constants DEF TypeOK

\* Popping follows the pointer of a block that is on a list.
LEMMA PopLinks ==
  ASSUME TypeOK, NEW t \in Thread, NEW k, NEW lists \in [0 .. SLAB_MAX -> Header \cup {NULL}],
         \A l \in 0 .. SLAB_MAX : lists[l] \in Pointers \cup {Base},
         Pop(t, k, lists), UNCHANGED hdr
  PROVE  Pointers' \subseteq Pointers \cup {Base}
  <1>1. \A a \in Header : hdr[a].next \in Pointers
    BY DEF Pointers
  <1>2. ASSUME NEW l \in 0 .. SLAB_MAX PROVE slabs'[l] \in Pointers \cup {Base}
    <2>1. CASE lists[k] = NULL \/ l # k
      <3>1. slabs'[l] = lists[l]
        BY <2>1 DEF Pop
      <3>2. QED BY <3>1
    <2>2. CASE lists[k] # NULL /\ l = k
      <3>1. lists[k] \in Header
        BY <2>2
      <3>2. slabs'[l] = hdr[lists[k]].next
        BY <2>2 DEF Pop
      <3>3. QED BY <1>1, <3>1, <3>2
    <2>3. QED BY <2>1, <2>2
  <1>3. QED BY <1>1, <1>2 DEF Pointers

LEMMA EnterMallocLinks ==
  ASSUME IInv, TypeOK, Links, Fresh, NEW t \in Thread, EnterMalloc(t)
  PROVE  Links'
  <1>1. Held' = Held
    BY OthersHold
  <1>2. UNCHANGED hdr /\ slabs \in [0 .. SLAB_MAX -> Header \cup {NULL}]
    BY DEF EnterMalloc, TypeOK
  <1>3. \A l \in 0 .. SLAB_MAX : slabs[l] \in Pointers
    BY DEF Pointers
  <1>4. CASE memblock # NULL
    <2>1. Pop(t, Slab(size[t]), slabs) /\ last' = last
      BY <1>4 DEF EnterMalloc
    <2>2. Pointers' \subseteq Pointers \cup {Base}
      BY <1>2, <1>3, <2>1, PopLinks
    <2>3. last # NULL
      BY <1>4, Constants DEF IInv, Types, Unallocated, Base, NULL
    <2>4. \A a \in Pointers \ {NULL, Base} : a < last => a < last' /\ a # last
      BY <2>1, <2>3, BeforeLast
    <2>5. QED BY <1>1, <2>2, <2>4, LinksKept
  <1>5. CASE memblock = NULL
    <2>1. Pop(t, Slab(size[t]), [slabs EXCEPT ![0] = Base])
      BY <1>5 DEF EnterMalloc
    <2> DEFINE lists == [slabs EXCEPT ![0] = Base]
    <2>2. /\ lists \in [0 .. SLAB_MAX -> Header \cup {NULL}]
          /\ \A l \in 0 .. SLAB_MAX : lists[l] \in Pointers \cup {Base}
      <3>1. Base \in Header
        BY Constants DEF Header, HeaderSize
      <3>2. QED BY <1>2, <1>3, <3>1
    <2>3. Pointers' \subseteq Pointers \cup {Base}
      <3> HIDE DEF lists
      <3>1. Pop(t, Slab(size[t]), lists)
        BY <2>1 DEF lists
      <3>2. QED BY <1>2, <2>2, <3>1, PopLinks
    <2>4. Pointers \subseteq {NULL, Base}
      <3>1. last = NULL
        BY <1>5 DEF Fresh, EnterMalloc, Running
      <3>2. \A a \in Header : ~(a < last)
        BY <3>1, Constants DEF NULL
      <3>3. QED BY <3>2, PointersAreHeaders DEF Links
    <2>5. QED BY <2>3, <2>4 DEF Links
  <1>6. QED BY <1>4, <1>5

LEMMA FreedLinks ==
  ASSUME IInv, TypeOK, Links, Space, NEW t \in Thread,
         block[t] \in Held, Held' = Held \ {block[t]},
         Pointers' \subseteq Pointers \cup {block[t]}, UNCHANGED last
  PROVE  Links'
  <1>1. PICK b : b = block[t]
    OBVIOUS
  <1>2. b \in Nat /\ hdr[b].size \in Nat /\ b + HeaderSize + hdr[b].size <= last
    BY <1>1, HeldInside DEF IInv
  <1>3. last \in Nat
    BY Constants DEF TypeOK, NULL
  <1>4. b < last /\ last # NULL
    BY <1>2, <1>3 DEF HeaderSize, NULL
  <1>5. \A a \in Pointers \ {NULL, Base} : a < last => a < last' /\ a # last
    BY <1>4, BeforeLast
  <1>6. QED BY <1>1, <1>4, <1>5, LinksKept

LEMMA ShiftLinks ==
  ASSUME IInv, TypeOK, Links, NEW t \in Thread, Shift(t)
  PROVE  Links'
  <1>1. Held' = Held \cup {last}
    BY ShiftTakes
  <1>2. Pointers' = Pointers
    BY DEF Shift, Pointers
  <1>3. /\ memblock = Base /\ last \in Base .. End /\ size[t] \in Size /\ size[t] \in Nat
        /\ block[t] = last
    BY Constants DEF IInv, Position, Unallocated, Shift, Running
  <1>4. last \in Nat /\ last' \in Nat /\ last < last' /\ last # NULL
    BY <1>3, Constants DEF Shift, Need, HeaderSize, NULL, Base
  <1>5. ASSUME NEW a \in Pointers \ {NULL, Base}, a < last
        PROVE  a < last' /\ a # last
    <2>1. a \in Nat
      BY PointersAreHeaders, Constants
    <2>2. QED BY <1>4, <1>5, <2>1
  <1>6. QED BY <1>1, <1>2, <1>5, LinksKept

LEMMA LinksStep ==
  ASSUME IInv, TypeOK, Walking, Links, Space, Fresh, NEW t \in Thread, Step(t)
  PROVE  Links'
  <1> USE DEF Running
  <1>1. CASE EnterMalloc(t)
    BY <1>1, EnterMallocLinks
  <1>2. CASE Shift(t)
    BY <1>2, ShiftLinks
  <1>3. CASE Enqueue(t)
    <2>1. /\ pc[t] \in {"free", "walk"} /\ UNCHANGED <<block, array>>
          /\ pc' = [pc EXCEPT ![t] = "freed"]
      BY <1>3 DEF Enqueue, GoTo, client
    <2>2. block[t] \in Held /\ Held' = Held \ {block[t]}
      BY <2>1, FreedGives
    <2>3. \A a \in Header : hdr'[a].next \in {hdr[a].next, block[t]}
      BY <1>3 DEF Enqueue, TypeOK
    <2>4. UNCHANGED <<slabs, last>>
      BY <1>3 DEF Enqueue
    <2>5. Pointers' \subseteq Pointers \cup {block[t]}
      BY <2>3, <2>4 DEF Pointers
    <2>6. QED BY <2>2, <2>4, <2>5, FreedLinks
  <1>4. CASE EnterFree(t) /\ pc' = [pc EXCEPT ![t] = "freed"]
    <2>1. block[t] \in Held /\ Held' = Held \ {block[t]}
      BY <1>4, FreedGives DEF EnterFree, client
    <2>2. \A k \in 0 .. SLAB_MAX : slabs'[k] \in {slabs[k], block[t]}
      BY <1>4 DEF EnterFree, TypeOK
    <2>3. UNCHANGED <<hdr, last>>
      BY <1>4 DEF EnterFree
    <2>4. Pointers' \subseteq Pointers \cup {block[t]}
      BY <2>2, <2>3 DEF Pointers
    <2>5. QED BY <2>1, <2>3, <2>4, FreedLinks
  <1>5. CASE Split(t) \/ (EnterFree(t) /\ pc' = [pc EXCEPT ![t] = "walk"])
    <2>1. Held' = Held
      BY <1>5, SplitHolds
    <2>2. UNCHANGED last
      BY <1>5 DEF Split, EnterFree
    <2>3. ASSUME NEW a \in Header PROVE hdr'[a].next = hdr[a].next
      <3>1. /\ hdr \in [Header -> [next : Header \cup {NULL}, size : Size \cup {0}]]
            /\ hdr[a] \in [next : Header \cup {NULL}, size : Size \cup {0}]
        BY DEF TypeOK
      <3>2. hdr' = hdr \/ hdr' = [hdr EXCEPT ![last].size = size[t]]
        BY <1>5 DEF Split, EnterFree
      <3>3. hdr'[a] = hdr[a] \/ hdr'[a] = [hdr[a] EXCEPT !.size = size[t]]
        BY <3>1, <3>2
      <3>4. QED BY <3>1, <3>3
    <2>4. UNCHANGED slabs
      <3>1. CASE Split(t)
        BY <3>1 DEF Split
      <3>2. CASE EnterFree(t) /\ pc' = [pc EXCEPT ![t] = "walk"]
        <4>1. [pc EXCEPT ![t] = "walk"][t] = "walk" /\ [pc EXCEPT ![t] = "freed"][t] = "freed"
          BY DEF TypeOK
        <4>2. pc' # [pc EXCEPT ![t] = "freed"]
          BY <3>2, <4>1
        <4>3. QED BY <3>2, <4>2 DEF EnterFree, GoTo
      <3>3. QED BY <1>5, <3>1, <3>2
    <2>5. Pointers' = Pointers
      BY <2>3, <2>4 DEF Pointers
    <2>6. QED BY <2>1, <2>2, <2>5 DEF Links
  <1>6. CASE \/ InitFails(t) \/ Refuse(t) \/ Walk(t) \/ CallMalloc(t)
             \/ Store(t) \/ CallFree(t) \/ SkipFree(t) \/ LeaveFree(t)
    <2>1. UNCHANGED <<last, hdr, slabs>>
      BY <1>6 DEF InitFails, Refuse, Walk, CallMalloc, Store, CallFree, SkipFree,
                  LeaveFree, allocator
    <2>2. Held' = Held
      BY <1>6, OthersHold, StoreHolds, LeaveFreeHolds
    <2>3. QED BY <2>1, <2>2 DEF Links, Pointers
  <1>7. QED BY <1>1, <1>2, <1>3, <1>4, <1>5, <1>6 DEF Step, EnterFree, GoTo

\* What Types leaves out of TypeOK.
Rest ==
  /\ slabs \in [0 .. SLAB_MAX -> Header \cup {NULL}]
  /\ last \in {NULL} \cup Base .. End
  /\ left \in 0 .. MEMBLOCK_SIZE
  /\ block \in [Thread -> Header \cup {NULL}]
  /\ current \in [Thread -> Header \cup {NULL}]
  /\ i \in [Thread -> 0 .. N + N \div 2]
  /\ process \in {"running", "exited", "aborted"}

LEMMA TypesAndRest == TypeOK <=> Types /\ Rest
  <1>1. N \in Nat /\ N \div 2 \in Nat
    OBVIOUS
  <1>2. TypeOK => Types
    BY <1>1 DEF TypeOK, Types
  <1>3. TypeOK => Rest
    BY DEF TypeOK, Rest
  <1>4. Types /\ Rest => TypeOK
    BY DEF TypeOK, Types, Rest
  <1>5. QED BY <1>2, <1>3, <1>4

\* The block that a thread frees has a size, and its list a slab.
LEMMA FreedHasSlab ==
  ASSUME IInv, NEW t \in Thread, pc[t] \in {"free", "walk"}
  PROVE  block[t] \in Header /\ Slab(hdr[block[t]].size) \in 0 .. SLAB_MAX
  <1>1. Types /\ Layout /\ Position(t)
    BY DEF IInv
  <1>2. /\ i[t] < Rounds(loop[t]) /\ i[t] \in Nat /\ loop[t] \in 1 .. 4
        /\ block[t] = array[t][i[t]] /\ block[t] # NULL
    BY <1>1 DEF Types, Position
  <1>3. i[t] \in Index
    BY <1>2, Rooms
  <1>4. i[t] \in Place /\ Content(t, i[t]) = block[t]
    BY <1>2, <1>3, Constants DEF Place, Content
  <1>5. Inside(block[t])
    BY <1>1, <1>2, <1>4 DEF Layout
  <1>6. QED BY <1>5, SlabOfSize DEF Inside

LEMMA EnterMallocRest ==
  ASSUME IInv, Rest, NEW t \in Thread, EnterMalloc(t)
  PROVE  Rest'
  <1>1. size[t] \in Size
    BY DEF IInv, Position, EnterMalloc, Running
  <1>2. PICK k \in 0 .. SLAB_MAX : k = Slab(size[t])
    BY <1>1, SlabOfSize
  <1>3. \A a \in Header : hdr[a].next \in Header \cup {NULL}
    BY DEF IInv, Types
  <1>4. Base \in Header /\ Base \in Base .. End
    BY Constants DEF Header, HeaderSize
  <1>5. PICK lists \in [0 .. SLAB_MAX -> Header \cup {NULL}] : Pop(t, k, lists)
    <2>1. CASE memblock # NULL
      BY <1>2, <2>1 DEF EnterMalloc, Rest
    <2>2. CASE memblock = NULL
      <3>1. [slabs EXCEPT ![0] = Base] \in [0 .. SLAB_MAX -> Header \cup {NULL}]
        BY <1>4 DEF Rest
      <3>2. QED BY <1>2, <2>2, <3>1 DEF EnterMalloc
    <2>3. QED BY <2>1, <2>2
  <1>6. lists[k] \in Header \cup {NULL}
    OBVIOUS
  <1>7. slabs' \in [0 .. SLAB_MAX -> Header \cup {NULL}]
    <2>1. CASE lists[k] = NULL
      BY <1>5, <2>1 DEF Pop
    <2>2. CASE lists[k] # NULL
      <3>1. hdr[lists[k]].next \in Header \cup {NULL}
        BY <1>3, <1>6, <2>2
      <3>2. slabs' = [lists EXCEPT ![k] = hdr[lists[k]].next]
        BY <1>5, <2>2 DEF Pop
      <3>3. QED BY <3>1, <3>2
    <2>3. QED BY <2>1, <2>2
  <1>8. block' \in [Thread -> Header \cup {NULL}]
    BY <1>5, <1>6 DEF Pop, Rest
  <1>9. /\ last' \in {NULL} \cup Base .. End
        /\ left' \in 0 .. MEMBLOCK_SIZE
        /\ UNCHANGED <<current, i, process>>
    BY <1>4 DEF EnterMalloc, Rest, client
  <1>10. QED BY <1>7, <1>8, <1>9 DEF Rest

LEMMA SplitShiftRest ==
  ASSUME IInv, Rest, NEW t \in Thread, Split(t) \/ Shift(t)
  PROVE  Rest'
  <1>1. /\ memblock = Base /\ last \in Base .. End /\ left = End - last /\ left >= Need(t)
        /\ size[t] \in Size /\ size[t] \in Nat /\ size[t] > 0
    BY Constants DEF IInv, Position, Unallocated, Shift, Split, Running
  <1>2. CASE Split(t)
    <2>1. last \in Header
      BY <1>1, Constants DEF Header, Need, HeaderSize
    <2>2. block' \in [Thread -> Header \cup {NULL}]
      BY <1>2, <2>1 DEF Split, Rest
    <2>3. UNCHANGED <<slabs, last, left, current, i, process>>
      BY <1>2 DEF Split, client
    <2>4. QED BY <2>2, <2>3 DEF Rest
  <1>3. CASE Shift(t)
    <2>1. block[t] = last
      BY <1>3 DEF IInv, Position, Shift, Running
    <2>2. last' \in Base .. End /\ left' \in 0 .. MEMBLOCK_SIZE
      <3>1. /\ left' = left - (size[t] + HeaderSize)
            /\ last' = last + size[t] + HeaderSize
            /\ left >= size[t] + HeaderSize
        BY <1>1, <1>3, <2>1, Constants DEF Shift, Need, HeaderSize
      <3>2. /\ size[t] + HeaderSize \in Nat /\ Base \in Nat /\ End \in Nat
            /\ MEMBLOCK_SIZE \in Nat
        BY <1>1, Constants DEF HeaderSize
      <3>3. last \in Base .. End /\ left = End - last /\ left \in 0 .. MEMBLOCK_SIZE
        BY <1>1 DEF Rest
      <3> DEFINE need == size[t] + HeaderSize
      <3>4. need \in Nat /\ left' = left - need /\ last' = last + need /\ left >= need
        BY <1>1, <3>1, <3>2, <3>3, Constants DEF HeaderSize
      <3> HIDE DEF need
      <3>5. QED BY <3>2, <3>3, <3>4
    <2>3. UNCHANGED <<slabs, block, current, i, process>>
      BY <1>3 DEF Shift, client
    <2>4. QED BY <2>2, <2>3 DEF Rest
  <1>4. QED BY <1>2, <1>3

LEMMA FreeRest ==
  ASSUME IInv, Rest, Walking, NEW t \in Thread, EnterFree(t) \/ Walk(t) \/ Enqueue(t)
  PROVE  Rest'
  <1>1. /\ UNCHANGED <<last, left, block, i, process>>
    BY DEF EnterFree, Walk, Enqueue, client, allocator
  <1>2. CASE EnterFree(t)
    <2>1. block[t] \in Header /\ Slab(hdr[block[t]].size) \in 0 .. SLAB_MAX
      BY <1>2, FreedHasSlab DEF EnterFree, Running
    <2>2. PICK k \in 0 .. SLAB_MAX : k = Slab(hdr[block[t]].size)
      BY <2>1
    <2>3. \/ slabs' = [slabs EXCEPT ![k] = block[t]] /\ UNCHANGED current
          \/ current' = [current EXCEPT ![t] = slabs[k]] /\ UNCHANGED slabs
      BY <1>2, <2>2 DEF EnterFree
    <2>4. /\ slabs' \in [0 .. SLAB_MAX -> Header \cup {NULL}]
          /\ current' \in [Thread -> Header \cup {NULL}]
      BY <2>1, <2>3 DEF Rest
    <2>5. QED BY <1>1, <2>4 DEF Rest
  <1>3. CASE Walk(t)
    <2>1. current[t] \in Header
      BY <1>3 DEF Walk, Running, Walking, Rest
    <2>2. hdr[current[t]].next \in Header \cup {NULL}
      BY <2>1 DEF IInv, Types
    <2>3. current' = [current EXCEPT ![t] = hdr[current[t]].next] /\ UNCHANGED slabs
      BY <1>3 DEF Walk, allocator
    <2>4. current' \in [Thread -> Header \cup {NULL}]
      BY <2>2, <2>3 DEF Rest
    <2>5. QED BY <1>1, <2>3, <2>4 DEF Rest
  <1>4. CASE Enqueue(t)
    BY <1>1, <1>4 DEF Enqueue, Rest
  <1>5. QED BY <1>2, <1>3, <1>4

LEMMA ClientRest ==
  ASSUME IInv, Rest, NEW t \in Thread,
         \/ InitFails(t) \/ Refuse(t) \/ CallMalloc(t) \/ CallFree(t)
         \/ Store(t) \/ SkipFree(t) \/ LeaveFree(t)
  PROVE  Rest'
  <1> USE DEF Running
  <1>1. Types /\ Position(t)
    BY DEF IInv
  <1>2. UNCHANGED <<slabs, last, left, current>>
    BY DEF InitFails, Refuse, CallMalloc, CallFree, Store, SkipFree, LeaveFree, allocator,
           locals
  <1>3. block' \in [Thread -> Header \cup {NULL}]
    <2>1. CASE CallFree(t)
      <3>1. i[t] \in Index
        BY <1>1, <2>1, Rooms DEF Types, Position, CallFree, InLoop
      <3>2. array[t][i[t]] \in Header \cup {NULL}
        BY <1>1, <3>1 DEF Types
      <3>3. QED BY <2>1, <3>2 DEF CallFree, Rest
    <2>2. CASE \/ InitFails(t) \/ Refuse(t) \/ CallMalloc(t)
               \/ Store(t) \/ SkipFree(t) \/ LeaveFree(t)
      <3>1. block' = block \/ block' = [block EXCEPT ![t] = NULL]
        BY <2>2 DEF InitFails, Refuse, CallMalloc, Store, SkipFree, LeaveFree, locals
      <3>2. QED BY <3>1 DEF Rest
    <2>3. QED BY <2>1, <2>2
  <1>4. i' \in [Thread -> 0 .. N + N \div 2]
    <2>1. CASE i' = i
      BY <2>1 DEF Rest
    <2>2. CASE Advance(t) /\ i[t] < Rounds(loop[t])
      <3>1. /\ i'[t] <= N + N \div 2 /\ i' \in [Thread -> Nat]
            /\ \A u \in Thread \ {t} : i'[u] = i[u]
        BY <1>1, <2>2, AdvanceSteps
      <3>2. \A u \in Thread : i'[u] \in 0 .. N + N \div 2
        BY <3>1 DEF Rest
      <3>3. QED BY <3>1, <3>2
    <2>3. i' = i \/ (Advance(t) /\ i[t] < Rounds(loop[t]))
      BY <1>1 DEF InitFails, Refuse, CallMalloc, CallFree, Store, SkipFree, LeaveFree, client,
                  InLoop, Position
    <2>4. QED BY <2>1, <2>2, <2>3
  <1>5. process' \in {"running", "exited", "aborted"}
    BY DEF InitFails, Refuse, CallMalloc, CallFree, Store, SkipFree, LeaveFree, Rest
  <1>6. QED BY <1>2, <1>3, <1>4, <1>5 DEF Rest

\* A thread walks over a list from a block on, and only to blocks.
LEMMA WalkingStep ==
  ASSUME IInv, TypeOK, Walking, NEW t \in Thread, Step(t)
  PROVE  Walking'
  <1> USE DEF Running, GoTo
  <1>1. Types
    BY DEF IInv
  <1>2. \A u \in Thread \ {t} : pc'[u] = pc[u] /\ current'[u] = current[u]
    <2>1. CASE Store(t) \/ SkipFree(t) \/ LeaveFree(t)
      <3>1. i[t] < Rounds(loop[t])
        BY <2>1 DEF IInv, Position, Store, SkipFree, LeaveFree, InLoop
      <3>2. UNCHANGED current
        BY <2>1 DEF Store, SkipFree, LeaveFree, locals
      <3>3. UNCHANGED pc \/ Advance(t)
        BY <2>1 DEF Store, SkipFree, LeaveFree
      <3>4. QED BY <1>1, <3>1, <3>2, <3>3, AdvanceSteps
    <2>2. CASE EnterFree(t) \/ Walk(t) \/ Enqueue(t)
      BY <2>2 DEF EnterFree, Walk, Enqueue, TypeOK
    <2>3. CASE \/ EnterMalloc(t) \/ InitFails(t) \/ Split(t) \/ Shift(t) \/ Refuse(t)
               \/ CallMalloc(t) \/ CallFree(t)
      BY <2>3 DEF EnterMalloc, InitFails, Split, Shift, Refuse, CallMalloc, CallFree, TypeOK
    <2>4. QED BY <2>1, <2>2, <2>3 DEF Step
  <1>3. pc'[t] = "walk" => current'[t] # NULL
    <2>1. CASE Store(t) \/ SkipFree(t) \/ LeaveFree(t)
      <3>1. i[t] < Rounds(loop[t])
        BY <2>1 DEF IInv, Position, Store, SkipFree, LeaveFree, InLoop
      <3>2. (UNCHANGED pc /\ pc[t] = "returned") \/ Advance(t)
        BY <2>1 DEF Store, SkipFree, LeaveFree
      <3>3. QED BY <1>1, <3>1, <3>2, AdvanceSteps
    <2>2. CASE EnterFree(t) \/ Walk(t) \/ Enqueue(t)
      BY <2>2 DEF EnterFree, Walk, Enqueue, TypeOK
    <2>3. CASE \/ EnterMalloc(t) \/ InitFails(t) \/ Split(t) \/ Shift(t) \/ Refuse(t)
               \/ CallMalloc(t) \/ CallFree(t)
      BY <2>3 DEF EnterMalloc, InitFails, Split, Shift, Refuse, CallMalloc, CallFree, TypeOK
    <2>4. QED BY <2>1, <2>2, <2>3 DEF Step
  <1>4. QED BY <1>2, <1>3 DEF Walking

LEMMA ListInvStep ==
  ASSUME IInv, IInv', ListInv, NEW t \in Thread, Step(t)
  PROVE  ListInv'
  <1>1. TypeOK /\ Rest /\ Walking /\ Fresh /\ Links /\ Space
    BY TypesAndRest DEF ListInv
  <1>2. Rest'
    BY <1>1, EnterMallocRest, SplitShiftRest, FreeRest, ClientRest DEF Step
  <1>3. TypeOK'
    <2>1. Types'
      BY DEF IInv
    <2>2. (TypeOK <=> Types /\ Rest)'
      BY TypesAndRest, PTL
    <2>3. QED BY <1>2, <2>1, <2>2
  <1>4. Walking'
    BY <1>1, WalkingStep
  <1>5. Links'
    BY <1>1, LinksStep
  <1>6. Space'
    BY <1>1, SpaceStep
  <1>7. Fresh'
    <2>1. CASE EnterMalloc(t)
      BY <1>1, <2>1, Constants DEF EnterMalloc, Fresh, NULL, Base
    <2>2. CASE Shift(t)
      BY <2>2, Constants DEF IInv, Position, Shift, Running, Fresh, NULL, Base
    <2>3. CASE \/ InitFails(t) \/ Split(t) \/ Refuse(t) \/ EnterFree(t) \/ Walk(t)
               \/ Enqueue(t) \/ CallMalloc(t) \/ Store(t) \/ CallFree(t) \/ SkipFree(t)
               \/ LeaveFree(t)
      <3>1. UNCHANGED <<memblock, last>> /\ process = "running"
        BY <2>3 DEF InitFails, Split, Refuse, EnterFree, Walk, Enqueue, CallMalloc, Store,
                    CallFree, SkipFree, LeaveFree, Running, InLoop, allocator
      <3>2. QED BY <1>1, <3>1 DEF Fresh
    <2>4. QED BY <2>1, <2>2, <2>3 DEF Step
  <1>8. QED BY <1>3, <1>4, <1>5, <1>6, <1>7 DEF ListInv

\* Steps of no thread.
LEMMA ListInvKept ==
  ASSUME IInv, ListInv, ProcessExit \/ UNCHANGED vars
  PROVE  ListInv'
  <1> USE DEF ListInv
  <1>1. UNCHANGED <<slabs, last, left, hdr, mutex, pc, size, block, current, loop, i, array>>
    BY DEF ProcessExit, vars, allocator, locals, client
  <1>2. /\ memblock' \in {NULL, memblock}
        /\ process' \in {"exited", process}
        /\ memblock' = memblock \/ process' = "exited"
    BY DEF ProcessExit, vars, allocator
  <1>3. TypeOK' /\ Walking' /\ Fresh'
    BY <1>1, <1>2 DEF TypeOK, Walking, Fresh
  <1>4. Held' = Held
    BY <1>1, HeldKept DEF Content
  <1>5. Links'
    BY <1>1, <1>4 DEF Links, Pointers
  <1>6. Space'
    BY <1>1, SpaceKept DEF IInv
  <1>7. QED BY <1>3, <1>5, <1>6

LEMMA InitListInv == Init => ListInv
  <1> SUFFICES ASSUME Init PROVE ListInv
    OBVIOUS
  <1>1. IInv
    BY InitIInv
  <1>2. Rest
    BY Constants DEF Init, Rest
  <1>3. TypeOK
    BY <1>1, <1>2, TypesAndRest DEF IInv
  <1>4. Pointers \subseteq {NULL}
    BY DEF Init, Pointers
  <1>5. QED BY <1>3, <1>4 DEF Init, ListInv, Walking, Fresh, Links, Space

LEMMA ListInvHolds == Spec => []ListInv
  <1>1. IInv /\ IInv' /\ ListInv /\ [Next]_vars => ListInv'
    BY ListInvStep, ListInvKept DEF Next, Ended
  <1>2. QED BY <1>1, InitListInv, InvariantHolds, PTL DEF Spec

LEMMA SpaceIsExact == ListInv => SpaceExact
  <1> SUFFICES ASSUME ListInv, last # NULL
               PROVE  /\ last + left = End
                      /\ \A a \in Blocks : a < last /\ NextBlock(a) <= last
    BY DEF SpaceExact
  <1>1. last \in Base .. End /\ left = End - last
    BY DEF ListInv, Space
  <1>2. PICK T : Tiles(T)
    BY DEF ListInv, Space
  <1>3. last \in Nat
    BY <1>1, Constants
  <1>4. \A a \in T : a \in Nat /\ a < last
    BY <1>2, Constants DEF Tiles
  <1>5. ASSUME NEW a \in T PROVE a < last /\ NextBlock(a) <= last
    <2>1. NextBlock(a) \in T \cup {last}
      BY <1>2 DEF Tiles, NextBlock, Behind
    <2> DEFINE n == NextBlock(a)
    <2> HIDE DEF n
    <2>2. n \in T \cup {last} => n <= last
      BY <1>3, <1>4
    <2>3. QED BY <1>4, <2>1, <2>2 DEF n
  <1>6. Blocks \subseteq T
    BY <1>2, BlocksAreTiles
  <1>7. QED BY <1>1, <1>5, <1>6, Constants

LEMMA ListedArePartOfNoHand == ListInv => ListedAreFree
  <1> SUFFICES ASSUME ListInv, NEW k \in DOMAIN slabs, NEW a \in Listed(k) \ {Base},
                      NEW t \in Thread
               PROVE  a \notin InHand(t)
    BY DEF ListedAreFree
  <1>1. k \in 0 .. SLAB_MAX
    BY DEF ListInv, TypeOK
  <1>2. a \in Pointers \ {NULL, Base}
    BY <1>1, ListedArePointed
  <1>3. a \notin Held
    BY <1>2 DEF ListInv, Links
  <1>4. QED BY <1>3 DEF Held

(* The variables keep their types: the room that is left is never below 0, *)
(* every size has a slab, and a pointer is NULL or leads to a header.      *)
THEOREM TypeCorrect == Spec => []TypeOK
  BY ListInvHolds, PTL DEF ListInv

(* The blocks that my_malloc splits off follow one another without a gap,  *)
(* and what it calls `size' of slab 0 is the room behind them.             *)
THEOREM SpaceIsAlwaysExact == Spec => []SpaceExact
  BY ListInvHolds, SpaceIsExact, PTL

(* A block that my_free has put into a list is in no thread's hand, in the *)
(* list it was freed to as in one that runs into that list; only the first *)
(* block, with which slab 0 begins, may be.                                *)
THEOREM ListedBlocksAreFree == Spec => []ListedAreFree
  BY ListInvHolds, ListedArePartOfNoHand, PTL
=============================================================================
