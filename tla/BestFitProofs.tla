--------------------------- MODULE BestFitProofs ---------------------------
(***************************************************************************)
(* Proofs about BestFit, for every size of the pool, every width of size_t,*)
(* any threads and any requests of at least the size of a header.  The     *)
(* list is a recursive function over the memory: by induction over the     *)
(* natural numbers, a set of addresses that tiles the pool is that list.   *)
(* allocate and deallocate are shown, word by word, to keep a tiling and   *)
(* to change one block of it; the steps of the threads follow from that    *)
(* and from what the mutex, or the thread's own pool, excludes.            *)
(***************************************************************************)
EXTENDS BestFit, FiniteSetTheorems, TLAPS

USE DEF HeaderSize, NULL, Base, NodeAddr, Address, PoolEnd

\* What the addresses of a pool need.
LEMMA PoolAssumption ==
  /\ PoolSize \in Nat /\ PoolSize > HeaderSize
  /\ Word \in Nat /\ Word > 2 * (PoolSize + Base)
  BY BestFitAssumption

USE PoolAssumption

-----------------------------------------------------------------------------
(* Induction over the natural numbers, from the fact that they are well    *)
(* founded.                                                                *)

LEMMA LeastNumber ==
  ASSUME NEW S, S \subseteq Nat, S # {}
  PROVE  \E n \in S : \A k \in S : ~(k < n)
  <1> DEFINE R == OpToRel(<, Nat)
  <1>1. IsWellFoundedOn(R, Nat)
    BY NatLessThanWellFounded, Zenon
  <1>2. \A k, n \in Nat : <<k, n>> \in R <=> k < n
    BY DEF OpToRel
  <1> HIDE DEF R
  <1>3. \E n \in S : \A k \in S : ~ (<<k, n>> \in R)
    BY <1>1, WFMin
  <1>4. QED BY <1>2, <1>3

LEMMA SetInduction ==
  ASSUME NEW S, 0 \in S, \A n \in Nat : n \in S => n + 1 \in S
  PROVE  \A n \in Nat : n \in S
  <1> SUFFICES ASSUME Nat \ S # {} PROVE FALSE
    OBVIOUS
  <1>1. PICK n \in Nat \ S : \A k \in Nat \ S : ~(k < n)
    BY LeastNumber
  <1>2. n # 0 /\ n - 1 \in Nat
    BY <1>1
  <1>3. n - 1 \in S
    BY <1>1, <1>2
  <1>4. QED BY <1>1, <1>2, <1>3

LEMMA IntervalInduction ==
  ASSUME NEW n \in Nat, NEW S, 0 \in S, \A k \in 0 .. n - 1 : k \in S => k + 1 \in S
  PROVE  0 .. n \subseteq S
  <1> DEFINE U == S \cup {k \in Nat : k > n}
  <1>1. 0 \in U /\ \A k \in Nat : k \in U => k + 1 \in U
    OBVIOUS
  <1> HIDE DEF U
  <1>2. \A k \in Nat : k \in U
    BY <1>1, SetInduction
  <1>3. QED BY <1>2 DEF U

-----------------------------------------------------------------------------
(* The list of a pool.                                                     *)

\* Where the walk over the list goes from address a.
Follow(m, a) == IF a \in NodeAddr THEN next(m, a) ELSE NULL

\* The recursion of ListNodes, from 0 to n.
IsWalk(m, first, n, f) ==
  f = [k \in 0 .. n |-> IF k = 0 THEN first ELSE Follow(m, f[k - 1])]

LEMMA WalkExists ==
  ASSUME NEW m, NEW first
  PROVE  \A n \in Nat : \E f : IsWalk(m, first, n, f)
  <1> DEFINE S == {n \in Nat : \E f : IsWalk(m, first, n, f)}
  <1>1. 0 \in S
    <2>1. IsWalk(m, first, 0, [k \in 0 .. 0 |-> first])
      BY DEF IsWalk
    <2>2. QED BY <2>1
  <1>2. ASSUME NEW n \in Nat, n \in S PROVE n + 1 \in S
    <2>1. PICK f : IsWalk(m, first, n, f)
      BY <1>2
    <2> DEFINE g == [k \in 0 .. n + 1 |-> IF k = n + 1 THEN Follow(m, f[n]) ELSE f[k]]
    <2>2. \A k \in 0 .. n + 1 : g[k] = IF k = 0 THEN first ELSE Follow(m, g[k - 1])
      <3> TAKE k \in 0 .. n + 1
      <3>1. CASE k = n + 1
        <4>1. g[k] = Follow(m, f[n]) /\ g[k - 1] = f[n] /\ k # 0
          BY <3>1
        <4>2. QED BY <4>1
      <3>2. CASE k \in 1 .. n
        <4>1. g[k] = f[k] /\ g[k - 1] = f[k - 1] /\ k # 0
          BY <3>2
        <4>2. f[k] = Follow(m, f[k - 1])
          BY <2>1, <3>2 DEF IsWalk
        <4>3. QED BY <4>1, <4>2
      <3>3. CASE k = 0
        BY <3>3, <2>1 DEF IsWalk
      <3>4. QED BY <3>1, <3>2, <3>3
    <2>3. g = [k \in 0 .. n + 1 |-> g[k]]
      OBVIOUS
    <2> HIDE DEF g
    <2>4. IsWalk(m, first, n + 1, g)
      BY <2>2, <2>3 DEF IsWalk
    <2>5. n + 1 \in Nat /\ \E h : IsWalk(m, first, n + 1, h)
      BY <2>4
    <2>6. QED BY <2>5
  <1> HIDE DEF S
  <1>3. \A n \in Nat : n \in S
    BY <1>1, <1>2, SetInduction
  <1>4. QED BY <1>3 DEF S

LEMMA WalkOverList ==
  ASSUME NEW m, NEW first
  PROVE  \E at : /\ \A a : a \in ListNodes(m, first)
                          <=> a \in NodeAddr /\ \E k \in 0 .. PoolSize : at[k] = a
                 /\ at[0] = first
                 /\ \A k \in 1 .. PoolSize : at[k] = Follow(m, at[k - 1])
  <1> DEFINE at == CHOOSE f : IsWalk(m, first, PoolSize, f)
  <1>1. IsWalk(m, first, PoolSize, at)
    <2>1. \E f : IsWalk(m, first, PoolSize, f)
      BY WalkExists
    <2>2. QED BY <2>1, Zenon
  <1>2. ListNodes(m, first) = {at[k] : k \in 0 .. PoolSize} \cap NodeAddr
    BY Zenon DEF ListNodes, Follow, IsWalk
  <1> HIDE DEF at
  <1>3. at[0] = first /\ \A k \in 1 .. PoolSize : at[k] = Follow(m, at[k - 1])
    BY <1>1 DEF IsWalk
  <1>4. QED BY <1>2, <1>3

\* Where the block at address a ends.
End(m, a) == a + HeaderSize + block_size(m, a)

\* The nodes of T follow one another in the memory m from the pool's first
\* word to its last.
Tiles(m, T) ==
  /\ m \in [Address -> 0 .. Word - 1]
  /\ T \subseteq NodeAddr /\ Base \in T
  /\ \A a \in T : IF next(m, a) = NULL THEN End(m, a) = PoolEnd
                  ELSE next(m, a) \in T /\ next(m, a) = End(m, a)
  /\ \A a, b \in T : a < b => End(m, a) <= b

\* What a tiling says in numbers.
LEMMA TileNumbers ==
  ASSUME NEW m, NEW T, Tiles(m, T), NEW a \in T
  PROVE  /\ a \in Nat /\ Base <= a /\ a <= PoolEnd - HeaderSize
         /\ {a, a + 1, a + 2} \subseteq Address
         /\ block_size(m, a) \in Nat /\ next(m, a) \in Nat
         /\ End(m, a) \in Nat /\ a + HeaderSize <= End(m, a) /\ End(m, a) <= PoolEnd
         /\ next(m, a) # NULL => a < next(m, a) /\ next(m, a) + HeaderSize <= PoolEnd
  <1>1. a \in Nat /\ Base <= a /\ a <= PoolEnd - HeaderSize
    BY DEF Tiles
  <1>2. {a, a + 1, a + 2} \subseteq Address
    BY <1>1
  <1>3. block_size(m, a) \in Nat /\ next(m, a) \in Nat
    <2>1. m \in [Address -> 0 .. Word - 1]
      BY DEF Tiles
    <2>2. m[a + 1] \in 0 .. Word - 1 /\ m[a + 2] \in 0 .. Word - 1
      BY <1>2, <2>1
    <2>3. QED BY <2>2 DEF block_size, next
  <1>4. End(m, a) \in Nat /\ a + HeaderSize <= End(m, a)
    BY <1>1, <1>3 DEF End
  <1>5. CASE next(m, a) = NULL
    BY <1>1, <1>2, <1>3, <1>4, <1>5 DEF Tiles
  <1>6. CASE next(m, a) # NULL
    <2>1. next(m, a) = End(m, a) /\ next(m, a) \in NodeAddr
      BY <1>6 DEF Tiles
    <2>2. QED BY <1>1, <1>2, <1>3, <1>4, <1>6, <2>1
  <1>7. QED BY <1>5, <1>6

\* Every node but the first is the next of another one.
LEMMA Predecessor ==
  ASSUME NEW m, NEW T, Tiles(m, T), NEW n \in T, n # Base
  PROVE  \E a \in T : a < n /\ next(m, a) = n
  <1> DEFINE D == {n - a : a \in {b \in T : b < n}}
  <1>0. \A a \in T : /\ a \in Nat /\ Base <= a /\ a + HeaderSize <= PoolEnd
                     /\ next(m, a) # NULL => a < next(m, a)
    BY TileNumbers
  <1>1. D \subseteq Nat /\ n - Base \in D
    BY <1>0 DEF Tiles
  <1>2. PICK d \in D : \A k \in D : ~(k < d)
    BY <1>1, LeastNumber
  <1>3. PICK a \in T : a < n /\ d = n - a
    BY <1>2
  <1>4. \A b \in T : b < n => b <= a
    <2> SUFFICES ASSUME NEW b \in T, b < n PROVE b <= a
      OBVIOUS
    <2>1. n - b \in D
      OBVIOUS
    <2>2. ~(n - b < n - a)
      BY <1>2, <1>3, <2>1
    <2>3. QED BY <2>2, <1>0
  <1>5. End(m, a) <= n /\ next(m, a) # NULL
    <2>1. End(m, a) <= n
      BY <1>3 DEF Tiles
    <2>2. next(m, a) = NULL => End(m, a) = PoolEnd
      BY DEF Tiles
    <2>3. QED BY <1>0, <2>1, <2>2
  <1>6. next(m, a) \in T /\ a < next(m, a) /\ next(m, a) <= n
    BY <1>0, <1>5 DEF Tiles
  <1>7. next(m, a) = n
    BY <1>0, <1>4, <1>6
  <1>8. QED BY <1>3, <1>7

\* A tiling is the list that begins at the pool's first word.
LEMMA TilesAreTheList ==
  ASSUME NEW m, NEW T, Tiles(m, T)
  PROVE  ListNodes(m, Base) = T
  <1>1. PICK at : /\ \A a : a \in ListNodes(m, Base)
                          <=> a \in NodeAddr /\ \E k \in 0 .. PoolSize : at[k] = a
                  /\ at[0] = Base
                  /\ \A k \in 1 .. PoolSize : at[k] = Follow(m, at[k - 1])
    <2> HIDE DEF Base, NULL, NodeAddr
    <2>1. QED BY WalkOverList
  <1> DEFINE Reached(k) == at[k] = NULL \/ (at[k] \in T /\ at[k] >= Base + k)
             S == {k \in 0 .. PoolSize : Reached(k)}
  <1>0. \A a \in T : /\ a \in Nat /\ Base <= a /\ a + HeaderSize <= PoolEnd
                     /\ next(m, a) # NULL => a < next(m, a) /\ next(m, a) \in T
    <2> TAKE a \in T
    <2>1. a \in Nat /\ Base <= a /\ a + HeaderSize <= PoolEnd
      BY TileNumbers
    <2>2. next(m, a) # NULL => a < next(m, a)
      BY TileNumbers
    <2>3. next(m, a) # NULL => next(m, a) \in T
      BY DEF Tiles
    <2>4. QED BY <2>1, <2>2, <2>3
  <1>2. 0 \in S
    BY <1>1 DEF Tiles
  <1>3. ASSUME NEW k \in 0 .. PoolSize - 1, k \in S PROVE k + 1 \in S
    <2> SUFFICES Reached(k + 1)
      OBVIOUS
    <2>1. k + 1 \in 1 .. PoolSize /\ (k + 1) - 1 = k
      OBVIOUS
    <2>2. at[k + 1] = Follow(m, at[k])
      BY <1>1, <2>1
    <2>3. Reached(k)
      BY <1>3
    <2>4. CASE at[k] = NULL
      BY <2>2, <2>4 DEF Follow
    <2>5. CASE at[k] \in T /\ at[k] >= Base + k
      <3>1. at[k + 1] = next(m, at[k])
        BY <2>2, <2>5 DEF Follow, Tiles
      <3>2. QED BY <3>1, <2>5, <1>0
    <2>6. QED BY <2>3, <2>4, <2>5
  <1>4. \A k \in 0 .. PoolSize : Reached(k)
    <2> HIDE DEF S
    <2>1. 0 .. PoolSize \subseteq S
      BY <1>2, <1>3, IntervalInduction
    <2>2. QED BY <2>1 DEF S
  <1>5. ListNodes(m, Base) \subseteq T
    <2> SUFFICES ASSUME NEW a \in ListNodes(m, Base) PROVE a \in T
      OBVIOUS
    <2>1. PICK k \in 0 .. PoolSize : at[k] = a
      BY <1>1
    <2>2. a # NULL
      <3>1. a \in NodeAddr
        BY <1>1
      <3>2. QED BY <3>1
    <2>3. Reached(k)
      BY <1>4
    <2>4. QED BY <2>1, <2>2, <2>3
  <1>6. T \subseteq ListNodes(m, Base)
    <2> DEFINE D == T \ ListNodes(m, Base)
    <2> SUFFICES ASSUME D # {} PROVE FALSE
      OBVIOUS
    <2>1. D \subseteq Nat
      BY <1>0
    <2>2. PICK n \in D : \A k \in D : ~(k < n)
      BY <2>1, LeastNumber
    <2>3. n # Base
      BY <1>1, <2>2
    <2>4. PICK a \in T : a < n /\ next(m, a) = n
      BY <2>2, <2>3, Predecessor
    <2>5. a \in ListNodes(m, Base)
      BY <2>2, <2>4
    <2>6. PICK k \in 0 .. PoolSize : at[k] = a
      BY <1>1, <2>5
    <2>7. a >= Base + k
      BY <1>0, <1>4, <2>4, <2>6
    <2>8. k + 1 \in 1 .. PoolSize /\ (k + 1) - 1 = k
      BY <1>0, <2>2, <2>4, <2>7
    <2>9. at[k + 1] = n
      <3>1. at[k + 1] = Follow(m, at[k])
        BY <1>1, <2>8
      <3>2. QED BY <3>1, <2>4, <2>6 DEF Follow, Tiles
    <2>10. n \in ListNodes(m, Base)
      <3>1. n \in NodeAddr
        BY <2>2 DEF Tiles
      <3>2. QED BY <1>1, <2>8, <2>9, <3>1
    <2>11. QED BY <2>2, <2>10
  <1>7. QED BY <1>5, <1>6

\* Before its first use a pool has no list.
LEMMA EmptyList ==
  ASSUME NEW m, NEW first, first = NULL
  PROVE  ListNodes(m, first) = {}
  <1>1. PICK at : /\ \A a : a \in ListNodes(m, first)
                          <=> a \in NodeAddr /\ \E k \in 0 .. PoolSize : at[k] = a
                  /\ at[0] = first
                  /\ \A k \in 1 .. PoolSize : at[k] = Follow(m, at[k - 1])
    BY WalkOverList
  <1> DEFINE S == {k \in 0 .. PoolSize : at[k] = NULL}
  <1>2. 0 \in S
    BY <1>1
  <1>3. ASSUME NEW k \in 0 .. PoolSize - 1, k \in S PROVE k + 1 \in S
    <2>1. k + 1 \in 1 .. PoolSize /\ (k + 1) - 1 = k
      OBVIOUS
    <2>2. QED BY <1>1, <1>3, <2>1 DEF Follow
  <1>4. \A k \in 0 .. PoolSize : at[k] = NULL
    <2> HIDE DEF S
    <2>1. 0 .. PoolSize \subseteq S
      BY <1>2, <1>3, IntervalInduction
    <2>2. QED BY <2>1 DEF S
  <1>5. QED BY <1>1, <1>4

-----------------------------------------------------------------------------
(* The functions on the block list.                                        *)

LEMMA SmallModulo ==
  ASSUME NEW x \in 0 .. Word - 1
  PROVE  x % Word = x
  OBVIOUS

\* What a word of the memory may be.
Value == 0 .. Word - 1

LEMMA TilesFreshPool ==
  /\ Tiles(FreshPool, {Base})
  /\ is_free(FreshPool, Base) /\ next(FreshPool, Base) = NULL
  /\ block_size(FreshPool, Base) = PoolSize - HeaderSize
  <1>1. FreshPool \in [Address -> 0 .. Word - 1]
    BY DEF FreshPool
  <1>2. {Base, Base + 1, Base + 2} \subseteq Address
    OBVIOUS
  <1>3. /\ FreshPool[Base] = 1
        /\ FreshPool[Base + 1] = PoolSize - HeaderSize
        /\ FreshPool[Base + 2] = 0
    BY <1>2 DEF FreshPool
  <1>4. QED BY <1>1, <1>3 DEF Tiles, End, is_free, block_size, next

\* The fields of node a are the same in both memories.
SameNode(m, n, a) ==
  /\ is_free(n, a) = is_free(m, a)
  /\ block_size(n, a) = block_size(m, a)
  /\ next(n, a) = next(m, a)

\* insert_block_node in the memory where node was marked and shortened.
LEMMA SplitWords ==
  ASSUME NEW m, NEW T, Tiles(m, T), NEW node \in T, NEW size \in Nat,
         HeaderSize <= size, size < block_size(m, node)
  PROVE  LET n == allocate(m, node, size) IN
         /\ n \in [Address -> Value]
         /\ {node + size, node + size + 1, node + size + 2} \subseteq Address
         /\ \A x \in Address :
              n[x] = CASE x = node -> 0
                       [] x = node + 1 -> size - HeaderSize
                       [] x = node + 2 -> node + size
                       [] x = node + size -> 1
                       [] x = node + size + 1 -> block_size(m, node) - size
                       [] x = node + size + 2 -> next(m, node)
                       [] OTHER -> m[x]
  <1> DEFINE new == node + size
             rest == block_size(m, node) - size
             m0 == Set(m, node, 0)
             m1 == Set(m0, node + 1, size - HeaderSize)
             m2 == Set(m1, new, 1)
             m3 == Set(m2, new + 1, rest)
             m4 == Set(m3, new + 2, next(m, node))
             m5 == Set(m4, node + 2, new)
  <1>1. /\ node \in Nat /\ Base <= node
        /\ {node, node + 1, node + 2} \subseteq Address
        /\ block_size(m, node) \in Nat /\ next(m, node) \in Nat
        /\ End(m, node) <= PoolEnd
        /\ next(m, node) # NULL => next(m, node) + HeaderSize <= PoolEnd
    BY TileNumbers
  <1>2. node + HeaderSize + block_size(m, node) <= PoolEnd
    BY <1>1 DEF End
  <1>3. /\ new \in Address /\ new + 1 \in Address /\ new + 2 \in Address
        /\ node \in Address /\ node + 1 \in Address /\ node + 2 \in Address
        /\ new \in Value /\ rest \in Value /\ rest > 0
        /\ size - HeaderSize \in Value
        /\ next(m, node) \in Value
        /\ 0 \in Value /\ 1 \in Value
    BY <1>1, <1>2 DEF Value
  <1>4. m \in [Address -> Value]
    BY DEF Tiles, Value
  <1> HIDE DEF Address
  <1>5. /\ m0 \in [Address -> Value]
        /\ \A x \in Address : m0[x] = IF x = node THEN 0 ELSE m[x]
    BY <1>3, <1>4 DEF Set
  <1> HIDE DEF m0
  <1>6. /\ m1 \in [Address -> Value]
        /\ \A x \in Address : m1[x] = IF x = node + 1 THEN size - HeaderSize ELSE m0[x]
    BY <1>3, <1>5 DEF Set
  <1> HIDE DEF m1, new, rest
  <1>7. /\ m2 \in [Address -> Value]
        /\ \A x \in Address : m2[x] = IF x = new THEN 1 ELSE m1[x]
    BY <1>3, <1>6 DEF Set
  <1> HIDE DEF m2
  <1>8. /\ m3 \in [Address -> Value]
        /\ \A x \in Address : m3[x] = IF x = new + 1 THEN rest ELSE m2[x]
    BY <1>3, <1>7 DEF Set
  <1> HIDE DEF m3
  <1>9. /\ m4 \in [Address -> Value]
        /\ \A x \in Address : m4[x] = IF x = new + 2 THEN next(m, node) ELSE m3[x]
    BY <1>3, <1>8 DEF Set
  <1> HIDE DEF m4
  <1>10. /\ m5 \in [Address -> Value]
         /\ \A x \in Address : m5[x] = IF x = node + 2 THEN new ELSE m4[x]
    BY <1>3, <1>9 DEF Set
  <1> HIDE DEF m5
  <1>11. allocate(m, node, size) = m5
    <2>1. (size - HeaderSize) % Word = size - HeaderSize
      BY <1>3, SmallModulo DEF Value
    <2>2. rest > 0
      BY <1>3
    <2>3. allocate(m, node, size) = insert_block_node(m1, node, rest)
      BY <2>1, <2>2 DEF allocate, rest, m1, m0
    <2>4. block_size(m1, node) = size - HeaderSize
      BY <1>3, <1>6 DEF block_size
    <2>5. (node + HeaderSize + block_size(m1, node)) % Word = new
      <3>1. node + HeaderSize + block_size(m1, node) = new
        BY <1>1, <2>4 DEF new
      <3>2. QED BY <3>1, <1>3, SmallModulo DEF Value
    <2>6. next(m3, node) = next(m, node)
      <3>1. node + 2 # new + 1 /\ node + 2 # new
        BY <1>1 DEF new
      <3>2. m3[node + 2] = m1[node + 2]
        BY <1>3, <1>7, <1>8, <3>1
      <3>3. m1[node + 2] = m[node + 2]
        BY <1>1, <1>3, <1>5, <1>6
      <3>4. QED BY <3>2, <3>3 DEF next
    <2>7. insert_block_node(m1, node, rest) = m5
      BY <2>5, <2>6 DEF insert_block_node, m5, m4, m3, m2
    <2>8. QED BY <2>3, <2>7
  <1>12. \A x \in Address :
           m5[x] = CASE x = node -> 0
                     [] x = node + 1 -> size - HeaderSize
                     [] x = node + 2 -> new
                     [] x = new -> 1
                     [] x = new + 1 -> rest
                     [] x = new + 2 -> next(m, node)
                     [] OTHER -> m[x]
    <2> TAKE x \in Address
    <2>1. node + HeaderSize <= new
      BY <1>1 DEF new
    <2>2. /\ node \in Nat /\ new \in Nat
          /\ node # node + 1 /\ node # node + 2 /\ node + 1 # node + 2
          /\ new # new + 1 /\ new # new + 2 /\ new + 1 # new + 2
          /\ {node, node + 1, node + 2} \cap {new, new + 1, new + 2} = {}
      BY <1>1, <2>1 DEF new
    <2> DEFINE a1 == node + 1  a2 == node + 2  b1 == new + 1  b2 == new + 2
    <2>3. m5[x] = IF x = a2 THEN new ELSE IF x = b2 THEN next(m, node)
                  ELSE IF x = b1 THEN rest ELSE IF x = new THEN 1
                  ELSE IF x = a1 THEN size - HeaderSize ELSE IF x = node THEN 0 ELSE m[x]
      BY <1>5, <1>6, <1>7, <1>8, <1>9, <1>10
    <2>4. /\ node # a1 /\ node # a2 /\ a1 # a2 /\ new # b1 /\ new # b2 /\ b1 # b2
          /\ {node, a1, a2} \cap {new, b1, b2} = {}
      BY <2>2
    <2> HIDE DEF a1, a2, b1, b2
    <2>5. m5[x] = CASE x = node -> 0
                    [] x = a1 -> size - HeaderSize
                    [] x = a2 -> new
                    [] x = new -> 1
                    [] x = b1 -> rest
                    [] x = b2 -> next(m, node)
                    [] OTHER -> m[x]
      BY <2>3, <2>4
    <2>6. QED BY <2>5 DEF a1, a2, b1, b2
  <1>13. QED BY <1>3, <1>10, <1>11, <1>12 DEF new, rest

\* The headers of two nodes do not overlap.
LEMMA HeadersApart ==
  ASSUME NEW m, NEW T, Tiles(m, T), NEW a \in T, NEW b \in T, a # b
  PROVE  {a, a + 1, a + 2} \cap {b, b + 1, b + 2} = {}
  <1>1. a \in Nat /\ b \in Nat
    BY TileNumbers
  <1>2. a + HeaderSize <= End(m, a) /\ b + HeaderSize <= End(m, b)
        /\ End(m, a) \in Nat /\ End(m, b) \in Nat
    BY TileNumbers
  <1>3. a < b \/ b < a
    BY <1>1
  <1>4. a + HeaderSize <= b \/ b + HeaderSize <= a
    <2>1. CASE a < b
      <3>1. End(m, a) <= b
        BY <2>1 DEF Tiles
      <3>2. QED BY <3>1, <1>1, <1>2
    <2>2. CASE b < a
      <3>1. End(m, b) <= a
        BY <2>2 DEF Tiles
      <3>2. QED BY <3>1, <1>1, <1>2
    <2>3. QED BY <1>3, <2>1, <2>2
  <1>5. QED BY <1>1, <1>4

\* A node is marked busy (0) or free (1): nothing else changes.
LEMMA MarkNode ==
  ASSUME NEW m, NEW T, Tiles(m, T), NEW node \in T, NEW v \in {0, 1}
  PROVE  LET n == Set(m, node, v) IN
         /\ Tiles(n, T)
         /\ is_free(n, node) <=> v = 1
         /\ block_size(n, node) = block_size(m, node) /\ next(n, node) = next(m, node)
         /\ \A a \in T \ {node} : SameNode(m, n, a)
  <1> DEFINE n == Set(m, node, v)
  <1>1. \A a \in T : a \in Address /\ a + 1 \in Address /\ a + 2 \in Address
    <2> TAKE a \in T
    <2>1. {a, a + 1, a + 2} \subseteq Address
      BY TileNumbers
    <2>2. QED BY <2>1
  <1>2. m \in [Address -> Value] /\ v \in Value
    BY DEF Tiles, Value
  <1>3. /\ n \in [Address -> Value]
        /\ \A x \in Address : n[x] = IF x = node THEN v ELSE m[x]
    BY <1>1, <1>2 DEF Set
  <1> HIDE DEF n
  <1>4. \A a \in T : a + 1 # node /\ a + 2 # node
    <2> TAKE a \in T
    <2>1. CASE a = node
      BY <2>1, TileNumbers
    <2>2. CASE a # node
      BY <2>2, HeadersApart
    <2>3. QED BY <2>1, <2>2
  <1>5. \A a \in T : block_size(n, a) = block_size(m, a) /\ next(n, a) = next(m, a)
    BY <1>1, <1>3, <1>4 DEF block_size, next
  <1>6. \A a \in T \ {node} : is_free(n, a) = is_free(m, a)
    BY <1>1, <1>3 DEF is_free
  <1>7. is_free(n, node) <=> v = 1
    BY <1>1, <1>3 DEF is_free
  <1>8. Tiles(n, T)
    BY <1>3, <1>5 DEF Tiles, End, Value
  <1>9. QED BY <1>5, <1>6, <1>7, <1>8 DEF n, SameNode

\* An exact fit: the node is marked.
LEMMA AllocateWhole ==
  ASSUME NEW m, NEW T, Tiles(m, T), NEW node \in T,
         NEW size, size = block_size(m, node)
  PROVE  LET n == allocate(m, node, size) IN
         /\ Tiles(n, T)
         /\ ~is_free(n, node)
         /\ block_size(n, node) = block_size(m, node) /\ next(n, node) = next(m, node)
         /\ \A a \in T \ {node} : SameNode(m, n, a)
  <1>1. block_size(m, node) \in Nat
    BY TileNumbers
  <1>2. allocate(m, node, size) = Set(m, node, 0)
    BY <1>1 DEF allocate
  <1>3. QED BY <1>2, MarkNode

\* A larger block is split.
LEMMA AllocateSplit ==
  ASSUME NEW m, NEW T, Tiles(m, T), NEW node \in T, NEW size \in Nat,
         HeaderSize <= size, size < block_size(m, node)
  PROVE  LET n == allocate(m, node, size)
             new == node + size
         IN
         /\ Tiles(n, T \cup {new}) /\ new \notin T
         /\ ~is_free(n, node)
         /\ block_size(n, node) = size - HeaderSize /\ next(n, node) = new
         /\ is_free(n, new)
         /\ block_size(n, new) = block_size(m, node) - size
         /\ next(n, new) = next(m, node)
         /\ \A a \in T \ {node} : SameNode(m, n, a)
  <1> DEFINE n == allocate(m, node, size)
             new == node + size
             U == T \cup {new}
  <1>1. /\ n \in [Address -> Value]
        /\ new \in Address /\ new + 1 \in Address /\ new + 2 \in Address
        /\ \A x \in Address :
             n[x] = CASE x = node -> 0
                      [] x = node + 1 -> size - HeaderSize
                      [] x = node + 2 -> new
                      [] x = new -> 1
                      [] x = new + 1 -> block_size(m, node) - size
                      [] x = new + 2 -> next(m, node)
                      [] OTHER -> m[x]
    BY SplitWords
  <1> HIDE DEF n, Address
  <1>2. \A a \in T : /\ a \in Nat /\ End(m, a) \in Nat /\ block_size(m, a) \in Nat
                     /\ a \in Address /\ a + 1 \in Address /\ a + 2 \in Address
                     /\ a + HeaderSize <= End(m, a) /\ End(m, a) <= PoolEnd
    <2> TAKE a \in T
    <2>1. {a, a + 1, a + 2} \subseteq Address
      BY TileNumbers
    <2>2. QED BY <2>1, TileNumbers
  <1>3. /\ new \in Nat /\ node \in Nat /\ node + HeaderSize <= new
        /\ new + HeaderSize <= End(m, node) /\ End(m, node) <= PoolEnd
    BY <1>2 DEF End
  \* Another node ends before this one or begins behind it.
  <1>4. \A a \in T \ {node} : a + HeaderSize <= node \/ End(m, node) <= a
    <2> TAKE a \in T \ {node}
    <2>1. CASE a < node
      <3>1. End(m, a) <= node
        BY <2>1 DEF Tiles
      <3>2. QED BY <3>1, <1>2
    <2>2. CASE node < a
      BY <2>2 DEF Tiles
    <2>3. QED BY <2>1, <2>2, <1>2
  <1>5. new \notin T
    <2> SUFFICES ASSUME new \in T PROVE FALSE
      OBVIOUS
    <2>1. new # node
      BY <1>3
    <2>2. new + HeaderSize <= node \/ End(m, node) <= new
      BY <1>4, <2>1
    <2>3. QED BY <1>2, <1>3, <2>2
  <1>6. ~is_free(n, node) /\ block_size(n, node) = size - HeaderSize /\ next(n, node) = new
    <2>1. n[node] = 0
      BY <1>1, <1>2
    <2>2. n[node + 1] = size - HeaderSize
      BY <1>1, <1>2
    <2>3. n[node + 2] = new
      BY <1>1, <1>2
    <2>4. QED BY <2>1, <2>2, <2>3 DEF is_free, block_size, next
  <1>7. /\ is_free(n, new) /\ block_size(n, new) = block_size(m, node) - size
        /\ next(n, new) = next(m, node)
    <2>1. n[new] = 1
      BY <1>1, <1>3
    <2>2. n[new + 1] = block_size(m, node) - size
      BY <1>1, <1>3
    <2>3. n[new + 2] = next(m, node)
      BY <1>1, <1>3
    <2>4. QED BY <2>1, <2>2, <2>3 DEF is_free, block_size, next
  <1>8. \A a \in T \ {node} : SameNode(m, n, a)
    <2> TAKE a \in T \ {node}
    <2>1. {a, a + 1, a + 2} \cap {node, node + 1, node + 2, new, new + 1, new + 2} = {}
      BY <1>2, <1>3, <1>4
    <2>2. n[a] = m[a] /\ n[a + 1] = m[a + 1] /\ n[a + 2] = m[a + 2]
      BY <1>1, <1>2, <2>1
    <2>3. QED BY <2>2 DEF SameNode, is_free, block_size, next
  <1>9. End(n, node) = new /\ End(n, new) = End(m, node)
    BY <1>2, <1>3, <1>6, <1>7 DEF End
  <1>10. \A a \in T \ {node} : End(n, a) = End(m, a) /\ next(n, a) = next(m, a)
    BY <1>8 DEF SameNode, End
  <1>11. Tiles(n, U)
    <2>1. U \subseteq NodeAddr /\ Base \in U
      <3>1. T \subseteq NodeAddr /\ Base \in T
        BY DEF Tiles
      <3>2. new \in NodeAddr
        <4>1. Base <= node
          BY <3>1
        <4>2. QED BY <4>1, <1>2, <1>3
      <3>3. QED BY <3>1, <3>2
    <2>2. \A a \in U : IF next(n, a) = NULL THEN End(n, a) = PoolEnd
                       ELSE next(n, a) \in U /\ next(n, a) = End(n, a)
      <3> TAKE a \in U
      <3>1. CASE a = node
        BY <3>1, <1>3, <1>6, <1>9
      <3>2. CASE a = new
        BY <3>2, <1>7, <1>9 DEF Tiles
      <3>3. CASE a \in T \ {node}
        BY <3>3, <1>10 DEF Tiles
      <3>4. QED BY <3>1, <3>2, <3>3
    <2>3. \A a, b \in U : a < b => End(n, a) <= b
      <3> SUFFICES ASSUME NEW a \in U, NEW b \in U, a < b PROVE End(n, a) <= b
        OBVIOUS
      <3>1. CASE a = node
        BY <3>1, <1>2, <1>3, <1>4, <1>9
      <3>2. CASE a = new
        BY <3>2, <1>2, <1>3, <1>4, <1>9
      <3>3. CASE a \in T \ {node}
        <4>1. CASE b \in T
          BY <3>3, <4>1, <1>10 DEF Tiles
        <4>2. CASE b = new
          <5>1. a < node
            BY <3>3, <4>2, <1>2, <1>3, <1>4
          <5>2. End(m, a) <= node
            BY <5>1 DEF Tiles
          <5>3. QED BY <3>3, <4>2, <5>2, <1>2, <1>3, <1>10
        <4>3. QED BY <4>1, <4>2
      <3>4. QED BY <3>1, <3>2, <3>3
    <2>4. n \in [Address -> 0 .. Word - 1]
      BY <1>1 DEF Value
    <2>5. QED BY <2>1, <2>2, <2>3, <2>4 DEF Tiles
  <1>12. QED BY <1>5, <1>6, <1>7, <1>8, <1>11 DEF n

\* merge takes the successor b of a into a.
LEMMA MergeNodes ==
  ASSUME NEW m, NEW T, Tiles(m, T), NEW a \in T, NEW b \in T, next(m, a) = b
  PROVE  LET n == merge(m, a, b) IN
         /\ Tiles(n, T \ {b})
         /\ is_free(n, a) = is_free(m, a)
         /\ block_size(n, a) = block_size(m, a) + block_size(m, b) + HeaderSize
         /\ next(n, a) = next(m, b)
         /\ \A c \in T \ {a, b} : SameNode(m, n, c)
  <1> DEFINE n == merge(m, a, b)
             U == T \ {b}
             m1 == Set(m, a + 2, next(m, b))
             sum == block_size(m, a) + block_size(m, b) + HeaderSize
  <1>1. b \in T /\ b = End(m, a)
    BY DEF Tiles
  <1>2. \A c \in T : /\ c \in Nat /\ End(m, c) \in Nat /\ block_size(m, c) \in Nat
                     /\ c \in Address /\ c + 1 \in Address /\ c + 2 \in Address
                     /\ c + HeaderSize <= End(m, c) /\ End(m, c) <= PoolEnd
    <2> TAKE c \in T
    <2>1. {c, c + 1, c + 2} \subseteq Address
      BY TileNumbers
    <2>2. QED BY <2>1, TileNumbers
  <1>3. a < b /\ sum \in Value /\ a + HeaderSize + sum = End(m, b)
    <2>1. a + HeaderSize + sum = End(m, b) /\ sum \in Nat
      BY <1>1, <1>2 DEF End
    <2>2. QED BY <2>1, <1>1, <1>2 DEF Value
  <1>4. m \in [Address -> Value] /\ next(m, b) \in Value
    BY <1>1, <1>2 DEF Tiles, Value, next
  <1> HIDE DEF Address
  <1>5. /\ m1 \in [Address -> Value]
        /\ \A x \in Address : m1[x] = IF x = a + 2 THEN next(m, b) ELSE m[x]
    BY <1>2, <1>4 DEF Set
  <1>6. /\ block_size(m1, a) = block_size(m, a)
        /\ block_size(m1, b) = block_size(m, b)
    <2>1. a + 1 # a + 2
      BY <1>2
    <2>2. b + 1 # a + 2
      <3>1. a + HeaderSize <= b
        BY <1>1, <1>2
      <3>2. QED BY <3>1, <1>1, <1>2
    <2>3. QED BY <1>1, <1>2, <1>5, <2>1, <2>2 DEF block_size
  <1>7. n = Set(m1, a + 1, sum)
    <2>1. sum % Word = sum
      BY <1>3, SmallModulo DEF Value
    <2>2. QED BY <1>6, <2>1 DEF merge
  <1> HIDE DEF m1, sum
  <1>8. /\ n \in [Address -> Value]
        /\ \A x \in Address : n[x] = IF x = a + 1 THEN sum ELSE m1[x]
    BY <1>2, <1>3, <1>5, <1>7 DEF Set
  <1> HIDE DEF n
  <1>9. is_free(n, a) = is_free(m, a) /\ block_size(n, a) = sum /\ next(n, a) = next(m, b)
    <2>1. a # a + 1 /\ a # a + 2 /\ a + 1 # a + 2
      BY <1>2
    <2>2. QED BY <1>2, <1>5, <1>8, <2>1 DEF is_free, block_size, next
  <1>10. \A c \in T \ {a, b} : SameNode(m, n, c)
    <2> TAKE c \in T \ {a, b}
    <2>1. {c, c + 1, c + 2} \cap {a, a + 1, a + 2} = {}
      BY HeadersApart
    <2>2. n[c] = m[c] /\ n[c + 1] = m[c + 1] /\ n[c + 2] = m[c + 2]
      BY <1>2, <1>5, <1>8, <2>1
    <2>3. QED BY <2>2 DEF SameNode, is_free, block_size, next
  <1>11. End(n, a) = End(m, b)
    BY <1>3, <1>9 DEF End
  <1>12. \A c \in T \ {a, b} : End(n, c) = End(m, c) /\ next(n, c) = next(m, c)
    BY <1>10 DEF SameNode, End
  \* No other node had b for its successor.
  <1>13. \A c \in T \ {a} : next(m, c) # b
    <2> SUFFICES ASSUME NEW c \in T \ {a}, next(m, c) = b PROVE FALSE
      OBVIOUS
    <2>1. End(m, c) = b /\ End(m, a) = b
      BY <1>1 DEF Tiles
    <2>2. ~(c < a) /\ ~(a < c)
      BY <1>1, <1>2, <1>3, <2>1 DEF Tiles
    <2>3. QED BY <1>2, <2>2
  <1>14. Tiles(n, U)
    <2>1. U \subseteq NodeAddr /\ Base \in U
      <3>1. T \subseteq NodeAddr /\ Base \in T
        BY DEF Tiles
      <3>2. b # Base
        <4>1. Base <= a
          BY <3>1
        <4>2. QED BY <4>1, <1>1, <1>2, <1>3
      <3>3. QED BY <3>1, <3>2
    <2>2. \A c \in U : IF next(n, c) = NULL THEN End(n, c) = PoolEnd
                       ELSE next(n, c) \in U /\ next(n, c) = End(n, c)
      <3> TAKE c \in U
      <3>1. CASE c = a
        <4>1. next(m, b) # b
          <5>1. b \in T \ {a}
            BY <1>1, <1>2, <1>3
          <5>2. QED BY <5>1, <1>13
        <4>2. QED BY <3>1, <4>1, <1>1, <1>9, <1>11 DEF Tiles
      <3>2. CASE c # a
        BY <3>2, <1>12, <1>13 DEF Tiles
      <3>3. QED BY <3>1, <3>2
    <2>3. \A c, d \in U : c < d => End(n, c) <= d
      <3> SUFFICES ASSUME NEW c \in U, NEW d \in U, c < d PROVE End(n, c) <= d
        OBVIOUS
      <3>1. CASE c = a
        <4>1. b <= d
          BY <3>1, <1>1 DEF Tiles
        <4>2. End(m, b) <= d
          BY <4>1, <1>1, <1>2 DEF Tiles
        <4>3. QED BY <3>1, <4>2, <1>11
      <3>2. CASE c # a
        BY <3>2, <1>12 DEF Tiles
      <3>3. QED BY <3>1, <3>2
    <2>4. n \in [Address -> 0 .. Word - 1]
      BY <1>8 DEF Value
    <2>5. QED BY <2>1, <2>2, <2>3, <2>4 DEF Tiles
  <1>15. QED BY <1>1, <1>3, <1>9, <1>10, <1>14 DEF n, sum

-----------------------------------------------------------------------------
(* What the calls make of the list.                                        *)

\* No two free nodes side by side.
NoFreePair(m, T) ==
  \A a \in T : next(m, a) # NULL => ~(is_free(m, a) /\ is_free(m, next(m, a)))

Busy(m, T) == {a \in T : ~is_free(m, a)}

\* The node that block b was cut from is there, and large enough: b may reach
\* into the next node's header, but not beyond it.
Backs(m, T, b) ==
  LET a == b.lo - HeaderSize IN
  /\ a \in Busy(m, T)
  /\ b.size <= block_size(m, a) + HeaderSize
  /\ b.size <= block_size(m, a) \/ next(m, a) # NULL

\* deallocate marks the node and merges it with its free neighbours; r is the
\* node that is left of them.
LEMMA DeallocateNodes ==
  ASSUME NEW m, NEW T, Tiles(m, T), NEW node \in T, NEW pred,
         pred = NULL \/ (pred \in T /\ next(m, pred) = node)
  PROVE  LET n == deallocate(m, node, pred)
             joinsPred == pred # NULL /\ is_free(m, pred)
             succ == next(m, node)
             joinsSucc == succ # NULL /\ is_free(m, succ)
             r == IF joinsPred THEN pred ELSE node
             U == {a \in T : ~(joinsSucc /\ a = succ) /\ ~(joinsPred /\ a = node)}
         IN
         /\ Tiles(n, U) /\ r \in U /\ is_free(n, r)
         /\ next(n, r) = IF joinsSucc THEN next(m, succ) ELSE succ
         /\ \A a \in U \ {r} : SameNode(m, n, a)
  <1> DEFINE m1 == Set(m, node, 1)
             succ == next(m, node)
             joinsSucc == succ # NULL /\ is_free(m, succ)
             m2 == IF joinsSucc THEN merge(m1, node, succ) ELSE m1
             T2 == IF joinsSucc THEN T \ {succ} ELSE T
             joinsPred == pred # NULL /\ is_free(m, pred)
             r == IF joinsPred THEN pred ELSE node
             U == IF joinsPred THEN T2 \ {node} ELSE T2
             n == IF joinsPred THEN merge(m2, pred, node) ELSE m2
             after == IF joinsSucc THEN next(m, succ) ELSE succ
  <1>1. /\ Tiles(m1, T) /\ is_free(m1, node) /\ next(m1, node) = succ
        /\ \A a \in T \ {node} : SameNode(m, m1, a)
    BY MarkNode
  <1>2. succ # NULL => succ \in T /\ node < succ
    BY TileNumbers DEF Tiles
  <1>3. pred # NULL => pred < node
    BY TileNumbers
  <1>4. \A a \in T : a \in Nat
    BY DEF Tiles
  <1> HIDE DEF m1
  <1>5. succ # NULL => (is_free(m1, succ) <=> is_free(m, succ)) /\ next(m1, succ) = next(m, succ)
    BY <1>1, <1>2, <1>4 DEF SameNode
  <1>6. /\ Tiles(m2, T2) /\ node \in T2 /\ is_free(m2, node) /\ next(m2, node) = after
        /\ \A a \in T2 \ {node} : SameNode(m, m2, a)
    <2>1. CASE joinsSucc
      <3>0. next(m1, node) = succ /\ succ \in T
        BY <1>1, <1>2, <2>1
      <3> HIDE DEF succ
      <3>1. LET k == merge(m1, node, succ) IN
            /\ Tiles(k, T \ {succ})
            /\ is_free(k, node) = is_free(m1, node)
            /\ next(k, node) = next(m1, succ)
            /\ \A c \in T \ {node, succ} : SameNode(m1, k, c)
        <4>1. Tiles(m1, T) /\ next(m1, node) = succ /\ succ \in T
          BY <1>1, <3>0
        <4>2. QED BY <4>1, MergeNodes
      <3>2. node \in T2
        BY <2>1, <1>2, <1>4
      <3>3. QED BY <3>1, <3>2, <2>1, <1>1, <1>5 DEF SameNode
    <2>2. CASE ~joinsSucc
      BY <2>2, <1>1
    <2>3. QED BY <2>1, <2>2
  <1>7. pred # NULL => pred \in T2 /\ pred # node
    BY <1>2, <1>3, <1>4
  <1> HIDE DEF m2
  <1>8. pred # NULL => (is_free(m2, pred) <=> is_free(m, pred)) /\ next(m2, pred) = node
    BY <1>6, <1>7 DEF SameNode
  <1>9. deallocate(m, node, pred) = n
    BY <1>1, <1>5, <1>8 DEF deallocate, m1, m2
  <1>10. /\ Tiles(n, U) /\ r \in U /\ is_free(n, r) /\ next(n, r) = after
         /\ \A a \in U \ {r} : SameNode(m, n, a)
    <2>1. CASE joinsPred
      <3> HIDE DEF T2, after
      <3>1. next(m2, pred) = node /\ pred \in T2
        BY <1>7, <1>8, <2>1
      <3>2. LET k == merge(m2, pred, node) IN
            /\ Tiles(k, T2 \ {node})
            /\ is_free(k, pred) = is_free(m2, pred)
            /\ next(k, pred) = next(m2, node)
            /\ \A c \in T2 \ {pred, node} : SameNode(m2, k, c)
        BY <1>6, <3>1, MergeNodes
      <3>3. QED BY <3>2, <2>1, <1>6, <1>7, <1>8 DEF SameNode
    <2>2. CASE ~joinsPred
      BY <2>2, <1>6
    <2>3. QED BY <2>1, <2>2
  <1>11. U = {a \in T : ~(joinsSucc /\ a = succ) /\ ~(joinsPred /\ a = node)}
    OBVIOUS
  <1> HIDE DEF U, n
  <1>12. QED BY <1>9, <1>10, <1>11 DEF after

\* A list whose blocks tile the pool, completely merged.
Sound(m, T) == Tiles(m, T) /\ NoFreePair(m, T)

\* my_malloc takes a free block that is large enough: it becomes busy, and
\* all that was busy stays as it was.
LEMMA AllocateEffect ==
  ASSUME NEW m, NEW T, Sound(m, T), NEW node \in T, is_free(m, node),
         NEW size \in Nat, HeaderSize <= size, size <= block_size(m, node),
         NEW lo, lo = node + HeaderSize
  PROVE  LET n == allocate(m, node, size) IN
         \E U : /\ Sound(n, U)
                /\ \A a : a \in Busy(n, U) <=> a \in Busy(m, T) \/ a = node
                /\ Backs(n, U, [lo |-> lo, size |-> size])
                /\ \A b : Backs(m, T, b) => Backs(n, U, b)
  <1> DEFINE n == allocate(m, node, size)
             b0 == [lo |-> lo, size |-> size]
  <1>1. \A a \in T : a \in Nat /\ block_size(m, a) \in Nat /\ next(m, a) \in Nat
    BY TileNumbers DEF Sound
  <1>2. Tiles(m, T) /\ NoFreePair(m, T)
    BY DEF Sound
  <1>3. b0.lo - HeaderSize = node /\ b0.size = size
    BY <1>1
  <1> HIDE DEF b0
  <1>4. CASE size = block_size(m, node)
    <2>1. /\ Tiles(n, T)
          /\ ~is_free(n, node)
          /\ block_size(n, node) = block_size(m, node) /\ next(n, node) = next(m, node)
          /\ \A a \in T \ {node} : SameNode(m, n, a)
      BY <1>2, <1>4, AllocateWhole
    <2> HIDE DEF n
    <2>2. NoFreePair(n, T)
      BY <1>2, <2>1 DEF NoFreePair, SameNode, Tiles
    <2>3. \A a : a \in Busy(n, T) <=> a \in Busy(m, T) \/ a = node
      BY <2>1 DEF Busy, SameNode
    <2>4. Backs(n, T, b0)
      BY <1>1, <1>3, <1>4, <2>1, <2>3 DEF Backs
    <2>5. ASSUME NEW b, Backs(m, T, b) PROVE Backs(n, T, b)
      <3>1. b.lo - HeaderSize \in T \ {node}
        BY <2>5 DEF Backs, Busy
      <3>2. SameNode(m, n, b.lo - HeaderSize)
        BY <2>1, <3>1
      <3>3. QED BY <2>3, <2>5, <3>2 DEF Backs, SameNode
    <2>6. QED BY <2>1, <2>2, <2>3, <2>4, <2>5 DEF Sound, n, b0
  <1>5. CASE size < block_size(m, node)
    <2> DEFINE new == node + size
               U == T \cup {new}
    <2>1. /\ Tiles(n, U) /\ new \notin T
          /\ ~is_free(n, node)
          /\ block_size(n, node) = size - HeaderSize /\ next(n, node) = new
          /\ is_free(n, new)
          /\ block_size(n, new) = block_size(m, node) - size
          /\ next(n, new) = next(m, node)
          /\ \A a \in T \ {node} : SameNode(m, n, a)
      <3>1. Tiles(m, T)
        BY <1>2
      <3> HIDE DEF HeaderSize
      <3>2. QED BY <3>1, <1>5, AllocateSplit
    <2>2. new # NULL
      BY <1>1
    <2> HIDE DEF n, new
    <2>3. NoFreePair(n, U)
      <3> SUFFICES ASSUME NEW a \in U, next(n, a) # NULL,
                          is_free(n, a), is_free(n, next(n, a))
                   PROVE  FALSE
        BY DEF NoFreePair
      <3>1. CASE a = new
        <4>1. next(m, node) # NULL /\ ~is_free(m, next(m, node)) /\ next(m, node) \in T
          BY <3>1, <2>1, <1>2 DEF NoFreePair, Tiles
        <4>2. next(m, node) # node
          BY <4>1
        <4>3. QED BY <3>1, <4>1, <4>2, <2>1 DEF SameNode
      <3>2. CASE a \in T
        <4>1. a # node
          BY <2>1
        <4>2. next(n, a) = next(m, a) /\ is_free(m, a)
          BY <2>1, <3>2, <4>1 DEF SameNode
        <4>3. next(m, a) \in T /\ ~is_free(m, next(m, a))
          BY <1>2, <3>2, <4>2 DEF NoFreePair, Tiles
        <4>4. QED BY <2>1, <4>2, <4>3 DEF SameNode
      <3>3. QED BY <3>1, <3>2
    <2>4. \A a : a \in Busy(n, U) <=> a \in Busy(m, T) \/ a = node
      BY <2>1 DEF Busy, SameNode
    <2>5. Backs(n, U, b0)
      <3>1. node \in Busy(n, U) /\ next(n, node) # NULL
        BY <2>1, <2>4, <2>2
      <3>2. size <= block_size(n, node) + HeaderSize
        BY <2>1
      <3>3. QED BY <1>3, <3>1, <3>2 DEF Backs
    <2>6. ASSUME NEW b, Backs(m, T, b) PROVE Backs(n, U, b)
      <3>1. b.lo - HeaderSize \in T \ {node}
        BY <2>6 DEF Backs, Busy
      <3>2. SameNode(m, n, b.lo - HeaderSize)
        BY <2>1, <3>1
      <3>3. QED BY <2>4, <2>6, <3>2 DEF Backs, SameNode
    <2>7. QED BY <2>1, <2>3, <2>4, <2>5, <2>6 DEF Sound, n, b0
  <1>6. QED BY <1>1, <1>4, <1>5

\* my_free of a busy node: that node is busy no longer, all others are as
\* they were, and there is no free pair.
LEMMA DeallocateEffect ==
  ASSUME NEW m, NEW T, Sound(m, T), NEW node \in T, ~is_free(m, node), NEW pred,
         (pred = NULL /\ node = Base) \/ (pred \in T /\ next(m, pred) = node)
  PROVE  LET n == deallocate(m, node, pred) IN
         \E U : /\ Sound(n, U)
                /\ \A a : a \in Busy(n, U) <=> a \in Busy(m, T) /\ a # node
                /\ \A b : Backs(m, T, b) /\ b.lo - HeaderSize # node => Backs(n, U, b)
  <1> DEFINE n == deallocate(m, node, pred)
             joinsPred == pred # NULL /\ is_free(m, pred)
             succ == next(m, node)
             joinsSucc == succ # NULL /\ is_free(m, succ)
             r == IF joinsPred THEN pred ELSE node
             U == {a \in T : ~(joinsSucc /\ a = succ) /\ ~(joinsPred /\ a = node)}
  <1>1. Tiles(m, T) /\ NoFreePair(m, T)
    BY DEF Sound
  <1>2. /\ Tiles(n, U) /\ r \in U /\ is_free(n, r)
        /\ next(n, r) = IF joinsSucc THEN next(m, succ) ELSE succ
        /\ \A a \in U \ {r} : SameNode(m, n, a)
    BY <1>1, DeallocateNodes
  <1>3. \A a \in T : next(m, a) # NULL => next(m, a) \in T /\ a < next(m, a)
    BY <1>1, TileNumbers DEF Tiles
  <1>4. \A a \in U : next(n, a) # NULL => next(n, a) \in U /\ a < next(n, a)
    <2> HIDE DEF n, U
    <2>1. QED BY <1>2, TileNumbers DEF Tiles
  <1>5. \A a \in T : a \in Nat /\ Base <= a
    BY <1>1, TileNumbers
  <1> HIDE DEF n
  \* A node whose successor this one is, is the predecessor.
  <1>6. \A a \in T : next(m, a) = node => a = pred
    <2> SUFFICES ASSUME NEW a \in T, next(m, a) = node, a # pred PROVE FALSE
      OBVIOUS
    <2>1. a < node /\ node # NULL
      BY <1>3, <1>5
    <2>2. pred \in T /\ next(m, pred) = node
      BY <2>1, <1>5
    <2>3. End(m, a) = node /\ End(m, pred) = node /\ pred < node
      BY <1>1, <1>3, <2>1, <2>2 DEF Tiles
    <2>4. ~(a < pred) /\ ~(pred < a)
      BY <1>1, <1>5, <2>1, <2>2, <2>3 DEF Tiles
    <2>5. QED BY <1>5, <2>2, <2>4
  <1>7. NoFreePair(n, U)
    <2> SUFFICES ASSUME NEW a \in U, next(n, a) # NULL,
                        is_free(n, a), is_free(n, next(n, a))
                 PROVE  FALSE
      BY DEF NoFreePair
    <2>1. next(n, a) \in U /\ a # next(n, a) /\ a \in T
      BY <1>4, <1>5
    <2>2. CASE a = r
      <3>1. next(n, r) # r /\ is_free(m, next(n, r))
        BY <1>2, <2>1, <2>2 DEF SameNode
      <3>2. CASE joinsSucc
        BY <3>1, <3>2, <1>1, <1>2, <1>3, <2>2 DEF NoFreePair
      <3>3. CASE ~joinsSucc
        BY <3>1, <3>3, <1>2, <2>2
      <3>4. QED BY <3>2, <3>3
    <2>3. CASE a # r
      <3>1. is_free(m, a) /\ next(n, a) = next(m, a)
        BY <1>2, <2>3 DEF SameNode
      <3>2. ~is_free(m, next(m, a))
        BY <1>1, <2>1, <3>1 DEF NoFreePair
      <3>3. next(m, a) = r
        BY <1>2, <2>1, <3>1, <3>2 DEF SameNode
      <3>4. r = node
        BY <3>2, <3>3
      <3>5. a = pred
        BY <1>6, <2>1, <3>3, <3>4
      <3>6. a # NULL
        BY <1>5, <2>1
      <3>7. QED BY <3>1, <3>4, <3>5, <3>6, <1>5
    <2>4. QED BY <2>2, <2>3
  <1>8. \A a : a \in Busy(n, U) <=> a \in Busy(m, T) /\ a # node
    BY <1>2 DEF Busy, SameNode
  <1>9. ASSUME NEW b, Backs(m, T, b), b.lo - HeaderSize # node PROVE Backs(n, U, b)
    <2>1. b.lo - HeaderSize \in Busy(n, U)
      BY <1>8, <1>9 DEF Backs
    <2>2. b.lo - HeaderSize \in U \ {r}
      BY <1>2, <2>1 DEF Busy
    <2>3. SameNode(m, n, b.lo - HeaderSize)
      BY <1>2, <2>2
    <2>4. QED BY <1>9, <2>1, <2>3 DEF Backs, SameNode
  <1>10. Sound(n, U)
    BY <1>2, <1>7 DEF Sound
  <1> HIDE DEF U
  <1>11. QED BY <1>8, <1>9, <1>10 DEF n

-----------------------------------------------------------------------------
(* The inductive invariant.                                                *)

\* The pools that have been used are tiled, without free neighbours.
Lists ==
  \A p \in Arena : head[p] # NULL => Sound(mem[p], Nodes(p))

\* Every block in the hand of a thread has a busy node of its own, and every
\* busy node a block.
Backed ==
  \A t \in args.threads : \A b \in InHand(t) :
    b \in Block /\ head[ArenaOf(t)] = Base /\ Backs(mem[ArenaOf(t)], Nodes(ArenaOf(t)), b)

OneEach ==
  \A t, u \in args.threads : \A b \in InHand(t), c \in InHand(u) :
    ArenaOf(t) = ArenaOf(u) /\ b.lo = c.lo => t = u /\ b = c

Covered ==
  \A p \in Arena : \A a \in Busy(mem[p], Nodes(p)) :
    \E t \in args.threads : ArenaOf(t) = p /\ \E b \in InHand(t) : b.lo = a + HeaderSize

Critical == {"scan", "fit", "allocated", "null", "find", "freed"}

MutexExact == ~PerThread => \A t \in Thread : mutex = t <=> pc[t] \in Critical

\* What a scan that has seen some nodes knows of the best fit.
Fitting(t, a) ==
  is_free(mem[ArenaOf(t)], a) /\ block_size(mem[ArenaOf(t)], a) >= req[t]

BestOf(t, seen) ==
  \/ best[t] = NULL /\ over[t] = INT_MAX /\ \A a \in seen : ~Fitting(t, a)
  \/ /\ best[t] \in seen /\ Fitting(t, best[t])
     /\ over[t] = block_size(mem[ArenaOf(t)], best[t]) - req[t]
     /\ \A a \in seen :
          Fitting(t, a) => over[t] <= block_size(mem[ArenaOf(t)], a) - req[t]

Seen(t) == {a \in Nodes(ArenaOf(t)) : current[t] = NULL \/ a < current[t]}

\* Where a walk of my_free is: not yet behind the node it looks for.
Finding(t) ==
  /\ current[t] \in Nodes(ArenaOf(t))
  /\ current[t] <= ptr[t] - HeaderSize
  /\ \/ previous[t] = NULL /\ current[t] = Base
     \/ /\ previous[t] \in Nodes(ArenaOf(t))
        /\ next(mem[ArenaOf(t)], previous[t]) = current[t]

\* What the place of a thread says of its variables.
Position(t) ==
  /\ pc[t] \in {"malloc", "scan", "fit", "allocated"} => req[t] \in Size
  /\ pc[t] \in {"scan", "fit", "allocated", "find"} => head[ArenaOf(t)] = Base
  /\ pc[t] = "scan" => current[t] \in Nodes(ArenaOf(t)) \cup {NULL} /\ BestOf(t, Seen(t))
  /\ pc[t] = "fit" => BestOf(t, Nodes(ArenaOf(t)))
  /\ pc[t] \in {"free", "find"} => \E b \in held[t] : b.lo = ptr[t]
  /\ pc[t] = "find" => Finding(t)
  /\ pc[t] = "freed" => Found(t)
  /\ pc[t] = "exit" => held[t] = {}

Positions == \A t \in args.threads : Position(t)

\* The threads that membench has not created.
Absent == \A t \in Thread \ args.threads : pc[t] = "idle" /\ held[t] = {}

Memory == Lists /\ Backed /\ OneEach /\ Covered

IInv ==
  /\ TypeOK /\ Memory /\ MutexExact /\ Positions /\ Absent
  /\ ~invalid /\ ~leaked /\ process # "crashed"

\* The hypothesis of the theorems: a request is at least as large as a
\* header.  The size that a smaller one leaves in the header wraps around.
HeaderFits == \A s \in Size : s >= HeaderSize

-----------------------------------------------------------------------------
(* What a step of a thread leaves alone.                                   *)

\* The variables of thread u do not change.
Keeps(u) ==
  /\ pc'[u] = pc[u] /\ req'[u] = req[u] /\ current'[u] = current[u]
  /\ best'[u] = best[u] /\ over'[u] = over[u] /\ previous'[u] = previous[u]
  /\ ptr'[u] = ptr[u] /\ held'[u] = held[u]

OthersKeep(t) == \A u \in Thread \ {t} : Keeps(u)

LEMMA Threads ==
  ASSUME TypeOK
  PROVE  /\ args.threads \subseteq Thread
         /\ \A t \in args.threads : ArenaOf(t) \in Arena
         /\ ~PerThread => "global" \in Arena
         /\ \A t \in args.threads : PerThread => t \in Arena
  <1>1. args \in Arguments /\ args \in [perThread : BOOLEAN, threads : SUBSET Thread,
                                        calls : Nat, held : Nat \ {0}]
    BY BestFitAssumption DEF TypeOK
  <1>2. args.threads \subseteq Thread
    BY <1>1
  <1>3. (IF args.perThread THEN args.threads ELSE {"global"}) \subseteq Arena
    BY <1>1 DEF Arena
  <1>4. QED BY <1>2, <1>3 DEF ArenaOf, PerThread

LEMMA InHandKept ==
  ASSUME NEW u, Keeps(u)
  PROVE  InHand(u)' = InHand(u)
  BY DEF Keeps, InHand

LEMMA PositionKept ==
  ASSUME NEW u, Keeps(u), args' = args, Position(u),
         \/ mem'[ArenaOf(u)] = mem[ArenaOf(u)] /\ head'[ArenaOf(u)] = head[ArenaOf(u)]
         \/ pc[u] \notin Critical
  PROVE  Position(u)'
  <1>1. ArenaOf(u)' = ArenaOf(u)
    BY DEF ArenaOf, PerThread
  <1>2. CASE pc[u] \notin Critical
    BY <1>2 DEF Position, Keeps, Critical
  <1>3. CASE mem'[ArenaOf(u)] = mem[ArenaOf(u)] /\ head'[ArenaOf(u)] = head[ArenaOf(u)]
    <2>1. Nodes(ArenaOf(u))' = Nodes(ArenaOf(u))
      BY <1>1, <1>3 DEF Nodes
    <2>2. Seen(u)' = Seen(u)
      BY <1>1, <2>1 DEF Seen, Keeps
    <2>3. \A a : Fitting(u, a)' = Fitting(u, a)
      BY <1>1, <1>3 DEF Fitting, Keeps, is_free, block_size
    <2>4. \A S : BestOf(u, S)' = BestOf(u, S)
      BY <1>1, <1>3, <2>3 DEF BestOf, Keeps
    <2>5. Finding(u)' = Finding(u)
      BY <1>1, <1>3, <2>1 DEF Finding, Keeps
    <2>6. QED BY <1>1, <1>3, <2>1, <2>2, <2>4, <2>5 DEF Position, Keeps, Found
  <1>4. QED BY <1>2, <1>3

\* What is in memory stays true when no word and no block in hand changes.
LEMMA MemoryKept ==
  ASSUME TypeOK, Memory, UNCHANGED <<args, mem, head>>,
         \A u \in args.threads : InHand(u)' = InHand(u)
  PROVE  Memory'
  <1>1. \A p : Nodes(p)' = Nodes(p)
    BY DEF Nodes
  <1>2. \A t : ArenaOf(t)' = ArenaOf(t)
    BY DEF ArenaOf, PerThread
  <1>3. Lists'
    BY <1>1 DEF Memory, Lists
  <1>4. Backed'
    BY <1>1, <1>2 DEF Memory, Backed
  <1>5. OneEach'
    BY <1>2 DEF Memory, OneEach
  <1>6. Covered'
    BY <1>1, <1>2 DEF Memory, Covered
  <1>7. QED BY <1>3, <1>4, <1>5, <1>6 DEF Memory

LEMMA AbsentKept ==
  ASSUME TypeOK, Absent, args' = args, NEW t \in args.threads, OthersKeep(t)
  PROVE  Absent'
  BY Threads DEF Absent, OthersKeep, Keeps

\* Steps that change no list.
LEMMA QuietStep ==
  ASSUME IInv, NEW t \in args.threads, UNCHANGED <<args, mem, head>>, OthersKeep(t),
         InHand(t)' = InHand(t), TypeOK', MutexExact', Position(t)',
         ~invalid', ~leaked', process' # "crashed"
  PROVE  IInv'
  <1>1. TypeOK /\ Memory /\ Positions /\ Absent /\ args.threads \subseteq Thread
    BY Threads DEF IInv
  <1>2. \A u \in args.threads : InHand(u)' = InHand(u)
    BY <1>1, InHandKept DEF OthersKeep
  <1>3. Memory'
    BY <1>1, <1>2, MemoryKept
  <1>4. Positions'
    <2> SUFFICES ASSUME NEW u \in args.threads PROVE Position(u)'
      BY DEF Positions
    <2>1. CASE u = t
      BY <2>1
    <2>2. CASE u # t
      <3>1. Keeps(u) /\ Position(u)
        BY <1>1, <2>2 DEF OthersKeep, Positions
      <3>2. QED BY <3>1, PositionKept
    <2>3. QED BY <2>1, <2>2
  <1>5. Absent'
    BY <1>1, AbsentKept
  <1>6. QED BY <1>3, <1>4, <1>5 DEF IInv

\* Steps that change the list of their thread's pool, alone in it.
LEMMA PoolStep ==
  ASSUME IInv, NEW t \in args.threads, args' = args, OthersKeep(t),
         \A p \in Arena \ {ArenaOf(t)} : mem'[p] = mem[p] /\ head'[p] = head[p],
         \A u \in Thread \ {t} : ~PerThread => pc[u] \notin Critical,
         TypeOK', Memory', MutexExact', Position(t)',
         ~invalid', ~leaked', process' # "crashed"
  PROVE  IInv'
  <1>1. TypeOK /\ Positions /\ Absent /\ args.threads \subseteq Thread
    BY Threads DEF IInv
  <1>2. Positions'
    <2> SUFFICES ASSUME NEW u \in args.threads PROVE Position(u)'
      BY DEF Positions
    <2>1. CASE u = t
      BY <2>1
    <2>2. CASE u # t
      <3>1. Keeps(u) /\ Position(u)
        BY <1>1, <2>2 DEF OthersKeep, Positions
      <3>2. \/ mem'[ArenaOf(u)] = mem[ArenaOf(u)] /\ head'[ArenaOf(u)] = head[ArenaOf(u)]
            \/ pc[u] \notin Critical
        <4>1. CASE PerThread
          <5>1. ArenaOf(u) # ArenaOf(t) /\ ArenaOf(u) \in Arena
            BY <1>1, <2>2, <4>1, Threads DEF ArenaOf
          <5>2. QED BY <5>1
        <4>2. CASE ~PerThread
          BY <1>1, <2>2, <4>2
        <4>3. QED BY <4>1, <4>2
      <3>3. QED BY <3>1, <3>2, PositionKept
    <2>3. QED BY <2>1, <2>2
  <1>3. Absent'
    BY <1>1, AbsentKept
  <1>4. QED BY <1>2, <1>3 DEF IInv

LEMMA MutexKept ==
  ASSUME MutexExact, args' = args, NEW t \in Thread, OthersKeep(t), mutex' = mutex,
         pc'[t] \in Critical <=> pc[t] \in Critical
  PROVE  MutexExact'
  BY DEF MutexExact, PerThread, OthersKeep, Keeps

LEMMA MutexTaken ==
  ASSUME TypeOK, MutexExact, args' = args, NEW t \in Thread, OthersKeep(t), Acquire(t),
         pc'[t] \in Critical
  PROVE  /\ MutexExact'
         /\ \A u \in Thread \ {t} : ~PerThread => pc[u] \notin Critical
  <1>1. NoOne \notin Thread
    BY BestFitAssumption
  <1>2. QED BY <1>1 DEF MutexExact, PerThread, OthersKeep, Keeps, Acquire

LEMMA MutexGiven ==
  ASSUME MutexExact, args' = args, NEW t \in Thread, OthersKeep(t), Release(t),
         pc[t] \in Critical, pc'[t] \notin Critical
  PROVE  MutexExact'
  <1>1. NoOne \notin Thread
    BY BestFitAssumption
  <1>2. QED BY <1>1 DEF MutexExact, PerThread, OthersKeep, Keeps, Release

LEMMA MutexExcludes ==
  ASSUME MutexExact, NEW t \in Thread, pc[t] \in Critical
  PROVE  \A u \in Thread \ {t} : ~PerThread => pc[u] \notin Critical
  BY DEF MutexExact

-----------------------------------------------------------------------------
(* my_malloc and my_free, step by step.                                    *)

LEMMA CallMallocStep ==
  ASSUME IInv, NEW t \in args.threads, CallMalloc(t)
  PROVE  IInv'
  <1>1. TypeOK /\ MutexExact /\ Positions /\ t \in Thread /\ ~invalid /\ ~leaked
    BY Threads DEF IInv
  <1>2. PICK s \in Size : req' = [req EXCEPT ![t] = s]
    BY DEF CallMalloc
  <1>3. /\ UNCHANGED <<args, mem, head, mutex, current, best, over, previous, ptr, held,
                       invalid, leaked, process>>
        /\ pc[t] = "idle" /\ pc' = [pc EXCEPT ![t] = "malloc"]
        /\ calls' = [calls EXCEPT ![t] = @ + 1] /\ calls[t] < args.calls
        /\ process = "running"
    BY DEF CallMalloc, Running, GoTo
  <1>4. OthersKeep(t)
    BY <1>1, <1>2, <1>3 DEF OthersKeep, Keeps, TypeOK
  <1>5. TypeOK'
    <2>1. args \in Arguments /\ args.calls \in Nat
      BY <1>1, BestFitAssumption DEF TypeOK
    <2>2. calls' \in [Thread -> 0 .. args.calls]
      BY <1>1, <1>3, <2>1 DEF TypeOK
    <2>3. pc' \in [Thread -> {"idle", "malloc", "scan", "fit", "allocated", "null",
                              "free", "find", "freed", "exit"}]
          /\ req' \in [Thread -> Size \cup {0}]
      BY <1>1, <1>2, <1>3 DEF TypeOK
    <2>4. QED BY <1>1, <1>3, <2>2, <2>3 DEF TypeOK
  <1>6. pc'[t] = "malloc" /\ req'[t] = s
    BY <1>1, <1>2, <1>3 DEF TypeOK
  <1>7. MutexExact'
    BY <1>1, <1>3, <1>4, <1>6, MutexKept DEF Critical
  <1>8. Position(t)'
    BY <1>6 DEF Position
  <1>9. InHand(t)' = InHand(t)
    BY <1>3, <1>6 DEF InHand
  <1>10. QED BY <1>1, <1>3, <1>4, <1>5, <1>7, <1>8, <1>9, QuietStep

LEMMA IntMax == INT_MAX \in Nat /\ INT_MAX > PoolSize /\ INT_MAX \in Value
  BY DEF INT_MAX, Value

\* The list of a pool that has been used.
LEMMA UsedPool ==
  ASSUME TypeOK, Lists, NEW p \in Arena, head[p] # NULL
  PROVE  head[p] = Base /\ Sound(mem[p], Nodes(p)) /\ Tiles(mem[p], Nodes(p))
  BY DEF TypeOK, Lists, Sound

\* init() makes one free block of the pool.
LEMMA FreshList ==
  ASSUME NEW T, T = ListNodes(FreshPool, Base)
  PROVE  T = {Base} /\ Sound(FreshPool, T) /\ Busy(FreshPool, T) = {}
  <1>1. Tiles(FreshPool, {Base}) /\ is_free(FreshPool, Base) /\ next(FreshPool, Base) = NULL
    BY TilesFreshPool
  <1>2. T = {Base}
    <2>1. ListNodes(FreshPool, Base) = {Base}
      BY <1>1, TilesAreTheList
    <2>2. QED BY <2>1
  <1>3. NoFreePair(FreshPool, {Base}) /\ Busy(FreshPool, {Base}) = {}
    BY <1>1 DEF NoFreePair, Busy
  <1>4. QED BY <1>1, <1>2, <1>3 DEF Sound

LEMMA StartScanStep ==
  ASSUME IInv, NEW t \in args.threads, StartScan(t)
  PROVE  IInv'
  <1>0. PICK p \in Arena : p = ArenaOf(t)
    BY Threads DEF IInv
  <1>1. /\ TypeOK /\ MutexExact /\ Memory /\ Positions /\ t \in Thread
        /\ ~invalid /\ ~leaked /\ p \in Arena /\ Position(t)
    BY <1>0, Threads DEF IInv, Positions
  <1>2. /\ IF head[p] = NULL
           THEN head' = [head EXCEPT ![p] = Base] /\ mem' = [mem EXCEPT ![p] = FreshPool]
           ELSE UNCHANGED <<head, mem>>
        /\ current' = [current EXCEPT ![t] = head'[p]]
        /\ best' = [best EXCEPT ![t] = NULL]
        /\ over' = [over EXCEPT ![t] = INT_MAX]
        /\ pc[t] = "malloc" /\ pc' = [pc EXCEPT ![t] = "scan"]
        /\ process = "running" /\ Acquire(t)
        /\ UNCHANGED <<args, req, previous, ptr, held, calls, invalid, leaked, process>>
    BY <1>0 DEF StartScan, InitAndScan, Running, GoTo
  <1>3. OthersKeep(t)
    BY <1>1, <1>2 DEF OthersKeep, Keeps, TypeOK
  <1>4. /\ pc'[t] = "scan" /\ best'[t] = NULL /\ over'[t] = INT_MAX /\ req'[t] = req[t]
        /\ current'[t] = head'[p] /\ held'[t] = held[t]
    BY <1>1, <1>2 DEF TypeOK
  <1>5. MutexExact' /\ \A u \in Thread \ {t} : ~PerThread => pc[u] \notin Critical
    BY <1>1, <1>2, <1>3, <1>4, MutexTaken DEF Critical
  <1>6. /\ head'[p] = Base /\ \A q \in Arena \ {p} : mem'[q] = mem[q] /\ head'[q] = head[q]
        /\ mem'[p] = IF head[p] = NULL THEN FreshPool ELSE mem[p]
        /\ head[p] # NULL => UNCHANGED <<mem, head>>
    BY <1>1, <1>2 DEF TypeOK
  <1>7. TypeOK'
    <2>1. mem' \in [Arena -> [Address -> 0 .. Word - 1]]
      <3>1. FreshPool \in [Address -> 0 .. Word - 1]
        BY TilesFreshPool DEF Tiles
      <3>2. QED BY <1>1, <1>2, <3>1 DEF TypeOK
    <2>2. head' \in [Arena -> {NULL, Base}]
      BY <1>1, <1>2 DEF TypeOK
    <2>3. pc' \in [Thread -> {"idle", "malloc", "scan", "fit", "allocated", "null",
                              "free", "find", "freed", "exit"}]
      BY <1>1, <1>2 DEF TypeOK
    <2>4. current' \in [Thread -> 0 .. Word - 1]
      <3>1. Base \in 0 .. Word - 1
        OBVIOUS
      <3>2. QED BY <1>1, <1>2, <1>6, <3>1 DEF TypeOK
    <2>5. best' \in [Thread -> NodeAddr \cup {NULL}]
      BY <1>1, <1>2 DEF TypeOK
    <2>6. over' \in [Thread -> 0 .. INT_MAX]
      BY <1>1, <1>2, IntMax DEF TypeOK
    <2>7. mutex' \in Thread \cup {NoOne}
      BY <1>1, <1>2 DEF TypeOK, Acquire
    <2>8. QED BY <1>1, <1>2, <2>1, <2>2, <2>3, <2>4, <2>5, <2>6, <2>7 DEF TypeOK
  <1>8. ArenaOf(t)' = p /\ \A u : ArenaOf(u)' = ArenaOf(u)
    BY <1>0, <1>2 DEF ArenaOf, PerThread
  <1>9. \A u \in args.threads : InHand(u)' = InHand(u)
    <2> TAKE u \in args.threads
    <2>1. CASE u = t
      BY <2>1, <1>2, <1>4 DEF InHand
    <2>2. CASE u # t
      BY <2>2, <1>1, <1>3, InHandKept, Threads DEF OthersKeep
    <2>3. QED BY <2>1, <2>2
  <1>10. Memory'
    <2>1. CASE head[p] # NULL
      BY <2>1, <1>1, <1>2, <1>6, <1>9, MemoryKept
    <2>2. CASE head[p] = NULL
      <3>1. Nodes(p)' = ListNodes(FreshPool, Base)
        BY <2>2, <1>6 DEF Nodes
      <3>2. Nodes(p)' = {Base} /\ Sound(FreshPool, Nodes(p)') /\ Busy(FreshPool, Nodes(p)') = {}
        BY <3>1, FreshList
      <3>3. \A q \in Arena \ {p} : Nodes(q)' = Nodes(q)
        BY <1>6 DEF Nodes
      <3>4. \A u \in args.threads : InHand(u) # {} => ArenaOf(u) # p
        BY <1>1, <2>2 DEF Memory, Backed
      <3>5. Lists'
        <4> SUFFICES ASSUME NEW q \in Arena, head'[q] # NULL PROVE Sound(mem'[q], Nodes(q)')
          BY DEF Lists
        <4>1. CASE q = p
          BY <4>1, <3>2, <1>6, <2>2
        <4>2. CASE q # p
          BY <4>2, <3>3, <1>1, <1>6 DEF Memory, Lists
        <4>3. QED BY <4>1, <4>2
      <3>6. Backed'
        <4> SUFFICES ASSUME NEW u \in args.threads, NEW b \in InHand(u)
                     PROVE  /\ b \in Block /\ head'[ArenaOf(u)'] = Base
                            /\ Backs(mem'[ArenaOf(u)'], Nodes(ArenaOf(u))', b)
          BY <1>2, <1>9 DEF Backed
        <4>1. PICK q \in Arena \ {p} : q = ArenaOf(u)
          BY <1>1, <3>4, Threads
        <4>2. /\ ArenaOf(u)' = q /\ Nodes(ArenaOf(u))' = Nodes(q) /\ Nodes(ArenaOf(u)) = Nodes(q)
              /\ mem'[q] = mem[q] /\ head'[q] = head[q]
          BY <4>1, <3>3, <1>6, <1>8 DEF Nodes
        <4>3. b \in Block /\ head[q] = Base /\ Backs(mem[q], Nodes(q), b)
          BY <1>1, <4>1, <4>2 DEF Memory, Backed
        <4>4. QED BY <4>2, <4>3
      <3>7. OneEach'
        BY <1>1, <1>2, <1>8, <1>9 DEF Memory, OneEach
      <3>8. Covered'
        <4> SUFFICES ASSUME NEW q \in Arena, NEW a \in Busy(mem'[q], Nodes(q)')
                     PROVE  \E u \in args.threads :
                              ArenaOf(u) = q /\ \E b \in InHand(u) : b.lo = a + HeaderSize
          BY <1>2, <1>8, <1>9 DEF Covered
        <4>1. q # p
          BY <3>2, <1>6, <2>2
        <4>2. QED BY <4>1, <3>3, <1>1, <1>6 DEF Memory, Covered
      <3>9. QED BY <3>5, <3>6, <3>7, <3>8 DEF Memory
    <2>3. QED BY <2>1, <2>2
  <1>11. Position(t)'
    <2>1. Tiles(mem'[p], Nodes(p)')
      BY <1>1, <1>6, <1>10 DEF Memory, Lists, Sound
    <2>2. Base \in Nodes(p)' /\ \A a \in Nodes(p)' : ~(a < Base)
      BY <2>1 DEF Tiles
    <2>3. Seen(t)' = {}
      BY <2>2, <1>4, <1>6, <1>8 DEF Seen
    <2>4. BestOf(t, {})'
      BY <1>4 DEF BestOf
    <2>5. BestOf(t, Seen(t))'
      BY <2>3, <2>4
    <2>6. req'[t] \in Size
      BY <1>1, <1>2, <1>4 DEF Position
    <2>7. QED BY <2>2, <2>5, <2>6, <1>4, <1>6, <1>8 DEF Position
  <1>12. QED BY <1>0, <1>1, <1>2, <1>3, <1>5, <1>6, <1>7, <1>10, <1>11, PoolStep

\* What a walk over a tiling has behind it and before it.
LEMMA NextNode ==
  ASSUME NEW m, NEW T, Tiles(m, T), NEW c \in T
  PROVE  /\ next(m, c) \in T \cup {NULL}
         /\ \A a \in T : (next(m, c) = NULL \/ a < next(m, c)) <=> (a < c \/ a = c)
         /\ \A a \in T : c < a => next(m, c) # NULL /\ next(m, c) <= a
  <1>1. \A a \in T : /\ a \in Nat /\ Base <= a /\ a + HeaderSize <= PoolEnd
                     /\ End(m, a) \in Nat /\ a < End(m, a)
    <2> TAKE a \in T
    <2>1. QED BY TileNumbers
  <1>2. IF next(m, c) = NULL THEN End(m, c) = PoolEnd
        ELSE next(m, c) \in T /\ next(m, c) = End(m, c)
    BY DEF Tiles
  <1>3. \A a \in T : c < a => End(m, c) <= a
    BY DEF Tiles
  <1>4. QED BY <1>1, <1>2, <1>3

LEMMA ScanStep ==
  ASSUME IInv, NEW t \in args.threads, Scan(t)
  PROVE  IInv'
  <1>0. PICK p \in Arena : p = ArenaOf(t)
    BY Threads DEF IInv
  <1>1. /\ TypeOK /\ MutexExact /\ Memory /\ t \in Thread /\ ~invalid /\ ~leaked
        /\ process # "crashed" /\ Position(t)
    BY <1>0, Threads DEF IInv, Positions
  <1>2. PICK m, T, c, r : m = mem[p] /\ T = Nodes(p) /\ c = current[t] /\ r = req[t]
    OBVIOUS
  <1>3. /\ pc[t] = "scan" /\ c # NULL
        /\ IF c \in NodeAddr THEN Look(t) ELSE Segfault(t)
    BY <1>2 DEF Scan, Running
  <1>4. c \in T /\ BestOf(t, Seen(t)) /\ r \in Size /\ head[p] = Base
    BY <1>0, <1>1, <1>2, <1>3 DEF Position
  <1>5. Tiles(m, T)
    BY <1>1, <1>2, <1>4, UsedPool DEF Memory
  <1>6. c \in NodeAddr /\ c \in Nat /\ block_size(m, c) \in Nat /\ block_size(m, c) < INT_MAX
    <2>1. block_size(m, c) <= PoolSize
      BY <1>4, <1>5, TileNumbers DEF End
    <2>2. QED BY <1>4, <1>5, <2>1, TileNumbers, IntMax
  <1>7. r \in Nat
    BY <1>4, BestFitAssumption, IntMax DEF INT_MAX
  <1>8. next(m, c) \in T \cup {NULL} /\ next(m, c) \in 0 .. Word - 1
    <2>1. m \in [Address -> 0 .. Word - 1] /\ c + 2 \in Address
      BY <1>6, <1>5 DEF Tiles
    <2>2. QED BY <1>4, <1>5, <2>1, NextNode DEF next
  <1> DEFINE overhead == block_size(m, c) - r
             fits == is_free(m, c) /\ block_size(m, c) >= r
  <1>9. /\ IF fits /\ overhead < over[t]
           THEN /\ best' = [best EXCEPT ![t] = c]
                /\ over' = [over EXCEPT ![t] = overhead]
           ELSE UNCHANGED <<best, over>>
        /\ IF fits /\ overhead = 0
           THEN pc' = [pc EXCEPT ![t] = "fit"] /\ UNCHANGED current
           ELSE current' = [current EXCEPT ![t] = next(m, c)] /\ UNCHANGED pc
        /\ UNCHANGED <<args, mem, head, mutex, req, previous, ptr, held, calls, invalid,
                       leaked, process>>
    BY <1>0, <1>2, <1>3, <1>6 DEF Look, Fits, GoTo
  <1>10. OthersKeep(t)
    BY <1>1, <1>9 DEF OthersKeep, Keeps, TypeOK
  <1>11. over[t] \in 0 .. INT_MAX /\ INT_MAX \in Nat
    BY <1>1, IntMax DEF TypeOK
  <1>12. TypeOK'
    <2>1. best' \in [Thread -> NodeAddr \cup {NULL}]
      BY <1>1, <1>6, <1>9 DEF TypeOK
    <2>2. over' \in [Thread -> 0 .. INT_MAX]
      <3>1. CASE fits /\ overhead < over[t]
        <4>1. overhead \in 0 .. INT_MAX
          BY <3>1, <1>6, <1>7, <1>11
        <4>2. QED BY <3>1, <4>1, <1>1, <1>9 DEF TypeOK
      <3>2. CASE ~(fits /\ overhead < over[t])
        BY <3>2, <1>1, <1>9 DEF TypeOK
      <3>3. QED BY <3>1, <3>2
    <2>3. pc' \in [Thread -> {"idle", "malloc", "scan", "fit", "allocated", "null",
                              "free", "find", "freed", "exit"}]
      BY <1>1, <1>9 DEF TypeOK
    <2>4. current' \in [Thread -> 0 .. Word - 1]
      BY <1>1, <1>8, <1>9 DEF TypeOK
    <2>5. QED BY <1>1, <1>9, <2>1, <2>2, <2>3, <2>4 DEF TypeOK
  <1>13. /\ pc'[t] \in {"scan", "fit"} /\ req'[t] = r
         /\ pc'[t] = "fit" <=> fits /\ overhead = 0
         /\ pc'[t] = "scan" => current'[t] = next(m, c)
         /\ IF fits /\ overhead < over[t] THEN best'[t] = c /\ over'[t] = overhead
            ELSE best'[t] = best[t] /\ over'[t] = over[t]
    BY <1>1, <1>2, <1>3, <1>9 DEF TypeOK
  <1>14. MutexExact'
    BY <1>1, <1>3, <1>9, <1>10, <1>13, MutexKept DEF Critical
  <1>15. InHand(t)' = InHand(t)
    BY <1>3, <1>9, <1>13 DEF InHand
  <1>16. /\ ArenaOf(t)' = p /\ ArenaOf(t) = p /\ Nodes(ArenaOf(t))' = T /\ Nodes(ArenaOf(t)) = T
         /\ mem'[p] = m /\ mem[p] = m /\ head'[p] = Base
    BY <1>0, <1>2, <1>4, <1>9 DEF ArenaOf, PerThread, Nodes
  <1> DEFINE fit(a) == is_free(m, a) /\ block_size(m, a) >= r
             BestIn(bst, ovr, S) ==
               \/ bst = NULL /\ ovr = INT_MAX /\ \A a \in S : ~fit(a)
               \/ /\ bst \in S /\ fit(bst) /\ ovr = block_size(m, bst) - r
                  /\ \A a \in S : fit(a) => ovr <= block_size(m, a) - r
             before == {a \in T : a < c}
  <1>17. BestIn(best[t], over[t], before)
    <2>1. Seen(t) = before
      BY <1>2, <1>3, <1>16 DEF Seen
    <2>2. QED BY <2>1, <1>2, <1>4, <1>16 DEF BestOf, Fitting
  <1>18. \A S : BestOf(t, S)' <=> BestIn(best'[t], over'[t], S)
    BY <1>13, <1>16 DEF BestOf, Fitting
  <1>19. \A a \in T : block_size(m, a) \in Nat /\ a \in Nat
    BY <1>5, TileNumbers
  <1>20. BestIn(best'[t], over'[t], before \cup {c})
    <2>1. CASE fits /\ overhead < over[t]
      <3>1. fit(c) /\ best'[t] = c /\ over'[t] = overhead
        BY <2>1, <1>13
      <3>2. \A a \in before : fit(a) => overhead <= block_size(m, a) - r
        BY <2>1, <1>6, <1>7, <1>11, <1>17, <1>19
      <3>3. QED BY <3>1, <3>2, <1>6, <1>7
    <2>2. CASE ~(fits /\ overhead < over[t])
      <3>1. best'[t] = best[t] /\ over'[t] = over[t]
        BY <2>2, <1>13
      <3>2. fit(c) => over[t] <= overhead /\ over[t] # INT_MAX
        BY <2>2, <1>6, <1>7, <1>11
      <3>3. QED BY <3>1, <3>2, <1>17
    <2>3. QED BY <2>1, <2>2
  <1>21. Position(t)'
    <2>1. CASE pc'[t] = "fit"
      <3>1. fits /\ overhead = 0
        BY <2>1, <1>13
      <3>2. over'[t] = 0 /\ best'[t] \in T /\ fit(best'[t])
            /\ over'[t] = block_size(m, best'[t]) - r
        <4>1. fit(c) /\ c \in before \cup {c}
          BY <3>1
        <4>2. over'[t] <= 0 /\ over'[t] \in Nat /\ best'[t] \in before \cup {c}
              /\ fit(best'[t]) /\ over'[t] = block_size(m, best'[t]) - r
          <5>1. over'[t] \in Nat
            BY <1>11, <1>13, <3>1
          <5>2. QED BY <4>1, <5>1, <1>20, <3>1
        <4>3. QED BY <4>2, <1>4
      <3>3. \A a \in T : fit(a) => over'[t] <= block_size(m, a) - r
        BY <3>2, <1>7, <1>19
      <3>4. BestOf(t, T)'
        BY <3>2, <3>3, <1>18
      <3>5. QED BY <2>1, <3>4, <1>4, <1>13, <1>16 DEF Position
    <2>2. CASE pc'[t] = "scan"
      <3>1. current'[t] = next(m, c)
        BY <2>2, <1>13
      <3>2. Seen(t)' = before \cup {c}
        <4>1. \A a \in T : (next(m, c) = NULL \/ a < next(m, c)) <=> (a < c \/ a = c)
          BY <1>4, <1>5, NextNode
        <4>2. QED BY <3>1, <4>1, <1>4, <1>16 DEF Seen
      <3>3. BestOf(t, Seen(t))'
        BY <3>2, <1>18, <1>20
      <3>4. QED BY <2>2, <3>1, <3>3, <1>4, <1>8, <1>13, <1>16 DEF Position
    <2>3. QED BY <1>13, <2>1, <2>2
  <1>22. QED BY <1>1, <1>9, <1>10, <1>12, <1>14, <1>15, <1>21, QuietStep

LEMMA EndScanStep ==
  ASSUME IInv, NEW t \in args.threads, EndScan(t)
  PROVE  IInv'
  <1>1. /\ TypeOK /\ MutexExact /\ t \in Thread /\ ~invalid /\ ~leaked
        /\ process # "crashed" /\ Position(t)
    BY Threads DEF IInv, Positions
  <1>2. /\ pc[t] = "scan" /\ current[t] = NULL /\ pc' = [pc EXCEPT ![t] = "fit"]
        /\ UNCHANGED <<args, mem, head, mutex, req, current, best, over, previous, ptr,
                       held, calls, invalid, leaked, process>>
    BY DEF EndScan, Running, GoTo, locals
  <1>3. OthersKeep(t) /\ pc'[t] = "fit"
    BY <1>1, <1>2 DEF OthersKeep, Keeps, TypeOK
  <1>4. TypeOK'
    BY <1>1, <1>2 DEF TypeOK
  <1>5. MutexExact'
    BY <1>1, <1>2, <1>3, MutexKept DEF Critical
  <1>6. InHand(t)' = InHand(t)
    BY <1>2, <1>3 DEF InHand
  <1>7. ArenaOf(t)' = ArenaOf(t) /\ Nodes(ArenaOf(t))' = Nodes(ArenaOf(t))
    BY <1>2 DEF ArenaOf, PerThread, Nodes
  <1>8. Seen(t) = Nodes(ArenaOf(t))
    BY <1>2 DEF Seen
  <1>9. BestOf(t, Nodes(ArenaOf(t))) /\ head[ArenaOf(t)] = Base /\ req[t] \in Size
    BY <1>1, <1>2, <1>8 DEF Position
  <1>10. BestOf(t, Nodes(ArenaOf(t)))'
    BY <1>2, <1>7, <1>9 DEF BestOf, Fitting
  <1>11. Position(t)'
    BY <1>2, <1>3, <1>7, <1>9, <1>10 DEF Position
  <1>12. QED BY <1>1, <1>2, <1>3, <1>4, <1>5, <1>6, <1>11, QuietStep

\* The number of a block's first word.
LEMMA HandNumbers ==
  ASSUME TypeOK, Memory, NEW t \in args.threads, NEW b \in InHand(t)
  PROVE  /\ b \in Block /\ b.lo \in Nat /\ b.size \in Nat
         /\ head[ArenaOf(t)] = Base /\ ArenaOf(t) \in Arena
         /\ Backs(mem[ArenaOf(t)], Nodes(ArenaOf(t)), b)
  <1>1. b \in Block /\ head[ArenaOf(t)] = Base /\ Backs(mem[ArenaOf(t)], Nodes(ArenaOf(t)), b)
    BY DEF Memory, Backed
  <1>2. Size \subseteq Nat
    BY BestFitAssumption, IntMax DEF INT_MAX
  <1>3. b.lo \in Address /\ b.size \in Size
    <2>1. b \in [lo : Address, size : Size]
      BY <1>1 DEF Block
    <2> HIDE DEF Address
    <2>2. QED BY <2>1
  <1>4. b.size \in Nat
    BY <1>2, <1>3
  <1>5. \A x \in Address : x \in Nat
    OBVIOUS
  <1>6. b.lo \in Nat
    <2> HIDE DEF Address
    <2>1. QED BY <1>3, <1>5
  <1>7. QED BY <1>1, <1>4, <1>6, Threads

LEMMA AllocateStep ==
  ASSUME HeaderFits, IInv, NEW t \in args.threads, Allocate(t)
  PROVE  IInv'
  <1>0. PICK p \in Arena : p = ArenaOf(t)
    BY Threads DEF IInv
  <1>1. /\ TypeOK /\ MutexExact /\ Memory /\ t \in Thread /\ ~invalid /\ ~leaked
        /\ process # "crashed" /\ Position(t)
    BY <1>0, Threads DEF IInv, Positions
  <1>2. PICK m, T, node, size, n :
          /\ m = mem[p] /\ T = Nodes(p) /\ node = best[t] /\ size = req[t]
          /\ n = allocate(m, node, size)
    OBVIOUS
  <1>3. /\ pc[t] = "fit" /\ node # NULL /\ process = "running"
        /\ mem' = [mem EXCEPT ![p] = n]
        /\ pc' = [pc EXCEPT ![t] = "allocated"]
        /\ UNCHANGED <<args, head, mutex, req, current, best, over, previous, ptr,
                       held, calls, invalid, leaked, process>>
    BY <1>0, <1>1, <1>2 DEF Allocate, Running, GoTo, locals, TypeOK
  <1>4. BestOf(t, T) /\ size \in Size /\ head[p] = Base
    BY <1>0, <1>1, <1>2, <1>3 DEF Position
  <1>5. node \in T /\ is_free(m, node) /\ block_size(m, node) >= size
    BY <1>0, <1>2, <1>3, <1>4 DEF BestOf, Fitting
  <1>6. Sound(m, T) /\ Tiles(m, T)
    BY <1>1, <1>2, <1>4, UsedPool DEF Memory
  <1>7. size \in Nat /\ HeaderSize <= size
    BY <1>4, BestFitAssumption, IntMax DEF INT_MAX, HeaderFits
  <1>8. PICK lo : lo = node + HeaderSize
    OBVIOUS
  <1> DEFINE new == [lo |-> lo, size |-> size]
  <1>9. node \in Nat /\ lo \in Address /\ block_size(m, node) \in Nat
    <2>1. /\ node \in Nat /\ Base <= node /\ block_size(m, node) \in Nat
          /\ node + HeaderSize + block_size(m, node) <= PoolEnd
      BY <1>5, <1>6, TileNumbers DEF End
    <2>2. QED BY <2>1, <1>5, <1>7, <1>8
  <1>10. PICK U : /\ Sound(n, U)
                  /\ \A a : a \in Busy(n, U) <=> a \in Busy(m, T) \/ a = node
                  /\ Backs(n, U, new)
                  /\ \A b : Backs(m, T, b) => Backs(n, U, b)
    BY <1>2, <1>5, <1>6, <1>7, <1>8, AllocateEffect
  <1>11. OthersKeep(t) /\ pc'[t] = "allocated" /\ held'[t] = held[t]
    BY <1>1, <1>3 DEF OthersKeep, Keeps, TypeOK
  <1>12. n \in [Address -> 0 .. Word - 1]
    BY <1>10 DEF Sound, Tiles
  <1>13. TypeOK'
    BY <1>1, <1>3, <1>12 DEF TypeOK
  <1>14. MutexExact' /\ \A u \in Thread \ {t} : ~PerThread => pc[u] \notin Critical
    <2>1. MutexExact'
      BY <1>1, <1>3, <1>11, MutexKept DEF Critical
    <2>2. QED BY <2>1, <1>1, <1>3, MutexExcludes DEF Critical
  <1>15. /\ \A u : ArenaOf(u)' = ArenaOf(u)
         /\ mem'[p] = n /\ \A q \in Arena \ {p} : mem'[q] = mem[q]
         /\ head'[p] = Base /\ head' = head
    BY <1>1, <1>3, <1>4 DEF ArenaOf, PerThread, TypeOK
  <1>16. Nodes(p)' = U /\ \A q \in Arena \ {p} : Nodes(q)' = Nodes(q)
    <2>1. ListNodes(n, Base) = U
      BY <1>10, TilesAreTheList DEF Sound
    <2>2. Nodes(p)' = ListNodes(n, Base)
      <3> HIDE DEF Base
      <3>1. QED BY <1>15 DEF Nodes
    <2>3. QED BY <2>1, <2>2, <1>15 DEF Nodes
  <1>17. /\ \A u \in args.threads \ {t} : InHand(u)' = InHand(u)
         /\ \A b : b \in InHand(t)' <=> b \in InHand(t) \/ b = new
    <2>1. \A u \in args.threads \ {t} : InHand(u)' = InHand(u)
      BY <1>1, <1>11, InHandKept, Threads DEF OthersKeep
    <2>2. InHand(t) = held[t]
      BY <1>3 DEF InHand
    <2>3. InHand(t)' = held[t] \cup {[lo |-> best[t] + HeaderSize, size |-> req[t]]}
      BY <1>3, <1>11 DEF InHand
    <2>4. QED BY <2>1, <2>2, <2>3, <1>2, <1>8
  \* No block that is in use begins where the new one does.
  <1>18. ASSUME NEW u \in args.threads, NEW b \in InHand(u), ArenaOf(u) = p
         PROVE  b.lo # lo
    <2>1. Backs(m, T, b) /\ b.lo \in Nat
      BY <1>1, <1>2, <1>18, HandNumbers
    <2>2. ~is_free(m, b.lo - HeaderSize)
      BY <2>1 DEF Backs, Busy
    <2>3. QED BY <2>2, <1>5, <1>8, <1>9
  <1>19. new \in Block /\ new.lo = lo
    BY <1>4, <1>9 DEF Block
  <1> HIDE DEF new
  <1>20. Memory'
    <2>1. Lists'
      <3> SUFFICES ASSUME NEW q \in Arena, head'[q] # NULL PROVE Sound(mem'[q], Nodes(q)')
        BY DEF Lists
      <3>1. CASE q = p
        BY <3>1, <1>10, <1>15, <1>16
      <3>2. CASE q # p
        BY <3>2, <1>1, <1>15, <1>16 DEF Memory, Lists
      <3>3. QED BY <3>1, <3>2
    <2>2. Backed'
      <3> SUFFICES ASSUME NEW u \in args.threads, NEW b \in InHand(u)'
                   PROVE  /\ b \in Block /\ head'[ArenaOf(u)'] = Base
                          /\ Backs(mem'[ArenaOf(u)'], Nodes(ArenaOf(u))', b)
        BY <1>3 DEF Backed
      <3>1. PICK q \in Arena : q = ArenaOf(u)
        BY <1>1, Threads
      <3>2. ArenaOf(u)' = q /\ Nodes(ArenaOf(u))' = Nodes(q)' /\ Nodes(ArenaOf(u)) = Nodes(q)
        BY <3>1, <1>15 DEF Nodes
      <3>3. CASE u = t /\ b = new
        BY <3>3, <3>1, <3>2, <1>0, <1>10, <1>15, <1>16, <1>19
      <3>4. CASE ~(u = t /\ b = new)
        <4>1. b \in InHand(u)
          BY <3>4, <1>17
        <4>2. b \in Block /\ head[q] = Base /\ Backs(mem[q], Nodes(q), b)
          BY <4>1, <3>1, <3>2, <1>1, HandNumbers
        <4>3. CASE q = p
          BY <4>2, <4>3, <3>2, <1>2, <1>10, <1>15, <1>16
        <4>4. CASE q # p
          BY <4>2, <4>4, <3>2, <1>15, <1>16
        <4>5. QED BY <4>3, <4>4
      <3>5. QED BY <3>3, <3>4
    <2>3. OneEach'
      <3> SUFFICES ASSUME NEW u \in args.threads, NEW v \in args.threads,
                          NEW b \in InHand(u)', NEW c \in InHand(v)',
                          ArenaOf(u) = ArenaOf(v), b.lo = c.lo
                   PROVE  u = v /\ b = c
        BY <1>3, <1>15 DEF OneEach
      <3>1. b \in InHand(u) \/ (u = t /\ b = new)
        BY <1>17
      <3>2. c \in InHand(v) \/ (v = t /\ c = new)
        BY <1>17
      <3>3. CASE b \in InHand(u) /\ c \in InHand(v)
        BY <3>3, <1>1 DEF Memory, OneEach
      <3>4. CASE b \in InHand(u) /\ v = t /\ c = new
        BY <3>4, <1>0, <1>18, <1>19
      <3>5. CASE u = t /\ b = new /\ c \in InHand(v)
        BY <3>5, <1>0, <1>18, <1>19
      <3>6. QED BY <3>1, <3>2, <3>3, <3>4, <3>5
    <2>4. Covered'
      <3> SUFFICES ASSUME NEW q \in Arena, NEW a \in Busy(mem'[q], Nodes(q)')
                   PROVE  \E u \in args.threads :
                            ArenaOf(u) = q /\ \E b \in InHand(u)' : b.lo = a + HeaderSize
        BY <1>3, <1>15 DEF Covered
      <3>1. CASE q = p /\ a = node
        <4>1. new \in InHand(t)' /\ new.lo = a + HeaderSize
          BY <3>1, <1>8, <1>17, <1>19
        <4>2. QED BY <4>1, <3>1, <1>0
      <3>2. CASE ~(q = p /\ a = node)
        <4>1. a \in Busy(mem[q], Nodes(q))
          BY <3>2, <1>2, <1>10, <1>15, <1>16
        <4>2. PICK u \in args.threads :
                ArenaOf(u) = q /\ \E b \in InHand(u) : b.lo = a + HeaderSize
          BY <4>1, <1>1 DEF Memory, Covered
        <4>3. QED BY <4>2, <1>17
      <3>3. QED BY <3>1, <3>2
    <2>5. QED BY <2>1, <2>2, <2>3, <2>4 DEF Memory
  <1>21. Position(t)'
    BY <1>0, <1>2, <1>3, <1>4, <1>11, <1>15 DEF Position
  <1>22. QED BY <1>0, <1>1, <1>3, <1>11, <1>13, <1>14, <1>15, <1>20, <1>21, PoolStep

LEMMA ReturnBlockStep ==
  ASSUME IInv, NEW t \in args.threads, ReturnBlock(t)
  PROVE  IInv'
  <1>1. /\ TypeOK /\ MutexExact /\ Memory /\ t \in Thread /\ ~invalid /\ ~leaked
        /\ process # "crashed"
    BY Threads DEF IInv
  <1>2. PICK new : new = [lo |-> best[t] + HeaderSize, size |-> req[t]]
    OBVIOUS
  <1>3. /\ pc[t] = "allocated" /\ pc' = [pc EXCEPT ![t] = "idle"] /\ Release(t)
        /\ held' = [held EXCEPT ![t] = @ \cup {new}]
        /\ req' = [req EXCEPT ![t] = 0]
        /\ current' = [current EXCEPT ![t] = NULL]
        /\ best' = [best EXCEPT ![t] = NULL]
        /\ over' = [over EXCEPT ![t] = 0]
        /\ previous' = [previous EXCEPT ![t] = NULL]
        /\ ptr' = [ptr EXCEPT ![t] = NULL]
        /\ UNCHANGED <<args, mem, head, calls, invalid, leaked, process>>
    BY <1>2 DEF ReturnBlock, Running, Return, GoTo
  <1>4. InHand(t) = held[t] \cup {new}
    BY <1>2, <1>3 DEF InHand
  <1>5. new \in Block
    BY <1>1, <1>4, HandNumbers
  <1>6. OthersKeep(t)
    BY <1>1, <1>3 DEF OthersKeep, Keeps, TypeOK
  <1>7. TypeOK'
    <2>1. held' \in [Thread -> SUBSET Block]
      BY <1>1, <1>3, <1>5 DEF TypeOK
    <2>2. over' \in [Thread -> 0 .. INT_MAX]
      BY <1>1, <1>3, IntMax DEF TypeOK
    <2>3. current' \in [Thread -> 0 .. Word - 1]
      BY <1>1, <1>3 DEF TypeOK
    <2>4. mutex' \in Thread \cup {NoOne}
      BY <1>1, <1>3 DEF TypeOK, Release
    <2>5. /\ pc' \in [Thread -> {"idle", "malloc", "scan", "fit", "allocated", "null",
                                 "free", "find", "freed", "exit"}]
          /\ req' \in [Thread -> Size \cup {0}]
          /\ best' \in [Thread -> NodeAddr \cup {NULL}]
          /\ previous' \in [Thread -> NodeAddr \cup {NULL}]
          /\ ptr' \in [Thread -> Address \cup {NULL}]
      BY <1>1, <1>3 DEF TypeOK
    <2>6. QED BY <1>1, <1>3, <2>1, <2>2, <2>3, <2>4, <2>5 DEF TypeOK
  <1>8. pc'[t] = "idle" /\ held'[t] = held[t] \cup {new}
    BY <1>1, <1>3 DEF TypeOK
  <1>9. MutexExact'
    BY <1>1, <1>3, <1>6, <1>8, MutexGiven DEF Critical
  <1>10. InHand(t)' = InHand(t)
    BY <1>4, <1>8 DEF InHand
  <1>11. Position(t)'
    BY <1>8 DEF Position
  <1>12. QED BY <1>1, <1>3, <1>6, <1>7, <1>9, <1>10, <1>11, QuietStep

LEMMA ReturnNullStep ==
  ASSUME IInv, NEW t \in args.threads, ReturnNull(t)
  PROVE  IInv'
  <1>1. /\ TypeOK /\ MutexExact /\ t \in Thread /\ ~invalid /\ ~leaked
        /\ process # "crashed"
    BY Threads DEF IInv
  <1>2. /\ pc[t] = "fit" /\ pc' = [pc EXCEPT ![t] = "null"]
        /\ UNCHANGED <<args, mem, head, mutex, req, current, best, over, previous, ptr,
                       held, calls, invalid, leaked, process>>
    BY DEF ReturnNull, Running, GoTo, locals
  <1>3. OthersKeep(t) /\ pc'[t] = "null"
    BY <1>1, <1>2 DEF OthersKeep, Keeps, TypeOK
  <1>4. TypeOK'
    BY <1>1, <1>2 DEF TypeOK
  <1>5. MutexExact'
    BY <1>1, <1>2, <1>3, MutexKept DEF Critical
  <1>6. InHand(t)' = InHand(t)
    BY <1>2, <1>3 DEF InHand
  <1>7. Position(t)'
    BY <1>3 DEF Position
  <1>8. QED BY <1>1, <1>2, <1>3, <1>4, <1>5, <1>6, <1>7, QuietStep

\* Everything but the process and the report of teardown stays.
LEMMA StateKept ==
  ASSUME IInv, UNCHANGED <<args, mem, head, mutex, pc, locals, held, calls, invalid>>,
         leaked' = FALSE, process' \in {"running", "exited", "aborted"}
  PROVE  IInv'
  <1>1. TypeOK /\ Memory /\ MutexExact /\ Positions /\ Absent /\ ~invalid
        /\ args.threads \subseteq Thread
    BY Threads DEF IInv
  <1>2. UNCHANGED <<args, mem, head, mutex, pc, req, current, best, over, previous, ptr,
                    held, calls, invalid>>
    BY DEF locals
  <1>3. TypeOK'
    BY <1>1, <1>2 DEF TypeOK
  <1>4. \A u : Keeps(u)
    BY <1>2 DEF Keeps
  <1>5. Memory'
    <2>1. \A u \in args.threads : InHand(u)' = InHand(u)
      BY <1>4, InHandKept
    <2>2. QED BY <2>1, <1>1, <1>2, MemoryKept
  <1>6. Positions'
    <2>1. \A u \in args.threads : Position(u)'
      BY <1>1, <1>2, <1>4, PositionKept DEF Positions
    <2>2. QED BY <1>2, <2>1 DEF Positions
  <1>7. MutexExact' /\ Absent' /\ ~invalid'
    BY <1>1, <1>2 DEF MutexExact, PerThread, Absent
  <1>8. QED BY <1>3, <1>5, <1>6, <1>7 DEF IInv

LEMMA AbortStep ==
  ASSUME IInv, NEW t \in args.threads, Abort(t)
  PROVE  IInv'
  <1>1. leaked = FALSE
    BY DEF IInv, TypeOK
  <1>2. QED BY <1>1, StateKept DEF Abort, locals

LEMMA CallFreeStep ==
  ASSUME IInv, NEW t \in args.threads, CallFree(t)
  PROVE  IInv'
  <1>1. /\ TypeOK /\ MutexExact /\ Memory /\ t \in Thread /\ ~invalid /\ ~leaked
        /\ process # "crashed"
    BY Threads DEF IInv
  <1>2. PICK b \in held[t] : ptr' = [ptr EXCEPT ![t] = b.lo]
    BY DEF CallFree
  <1>3. /\ pc[t] = "idle" /\ pc' = [pc EXCEPT ![t] = "free"]
        /\ UNCHANGED <<args, mem, head, mutex, req, current, best, over, previous, held,
                       calls, invalid, leaked, process>>
    BY DEF CallFree, Running, GoTo
  <1>4. b.lo \in Address
    <2>1. b \in [lo : Address, size : Size]
      BY <1>1, <1>2 DEF TypeOK, Block
    <2> HIDE DEF Address
    <2>2. QED BY <2>1
  <1>5. OthersKeep(t)
    BY <1>1, <1>2, <1>3 DEF OthersKeep, Keeps, TypeOK
  <1>6. pc'[t] = "free" /\ ptr'[t] = b.lo /\ held'[t] = held[t]
    BY <1>1, <1>2, <1>3 DEF TypeOK
  <1>7. TypeOK'
    <2>1. ptr' \in [Thread -> Address \cup {NULL}]
      BY <1>1, <1>2, <1>4 DEF TypeOK
    <2>2. QED BY <1>1, <1>3, <2>1 DEF TypeOK
  <1>8. MutexExact'
    BY <1>1, <1>3, <1>5, <1>6, MutexKept DEF Critical
  <1>9. InHand(t)' = InHand(t)
    BY <1>3, <1>6 DEF InHand
  <1>10. Position(t)'
    BY <1>2, <1>6 DEF Position
  <1>11. QED BY <1>1, <1>3, <1>5, <1>7, <1>8, <1>9, <1>10, QuietStep

LEMMA StartFindStep ==
  ASSUME IInv, NEW t \in args.threads, StartFind(t)
  PROVE  IInv'
  <1>0. PICK p \in Arena : p = ArenaOf(t)
    BY Threads DEF IInv
  <1>1. /\ TypeOK /\ MutexExact /\ Memory /\ t \in Thread /\ ~invalid /\ ~leaked
        /\ process # "crashed" /\ Position(t)
    BY <1>0, Threads DEF IInv, Positions
  <1>2. PICK m, T, c : m = mem[p] /\ T = Nodes(p) /\ c = head[p]
    OBVIOUS
  <1>3. /\ pc[t] = "free" /\ Acquire(t) /\ pc' = [pc EXCEPT ![t] = "find"]
        /\ previous' = [previous EXCEPT ![t] = NULL]
        /\ current' = [current EXCEPT ![t] = c]
        /\ UNCHANGED <<args, mem, head, req, best, over, ptr, held, calls, invalid, leaked,
                       process>>
    BY <1>0, <1>2 DEF StartFind, Running, GoTo
  <1>4. PICK b \in held[t] : b.lo = ptr[t]
    BY <1>1, <1>3 DEF Position
  <1>5. b \in InHand(t)
    BY <1>4 DEF InHand
  <1>6. c = Base /\ head[p] = Base /\ Backs(m, T, b) /\ b.lo \in Nat
    BY <1>0, <1>1, <1>2, <1>5, HandNumbers
  <1>7. Tiles(m, T)
    <2>1. head[p] # NULL
      BY <1>6
    <2>2. QED BY <2>1, <1>1, <1>2, UsedPool DEF Memory
  <1>8. Base \in T /\ Base <= b.lo - HeaderSize
    <2>1. b.lo - HeaderSize \in T
      BY <1>6 DEF Backs, Busy
    <2>2. Base <= b.lo - HeaderSize
      BY <2>1, <1>7, TileNumbers
    <2>3. Base \in T
      BY <1>7 DEF Tiles
    <2>4. QED BY <2>2, <2>3
  <1>9. OthersKeep(t)
    BY <1>1, <1>3 DEF OthersKeep, Keeps, TypeOK
  <1>10. /\ pc'[t] = "find" /\ ptr'[t] = b.lo /\ held'[t] = held[t]
         /\ previous'[t] = NULL /\ current'[t] = Base
    BY <1>1, <1>3, <1>4, <1>6 DEF TypeOK
  <1>11. TypeOK'
    <2>1. current' \in [Thread -> 0 .. Word - 1]
      <3>1. c \in 0 .. Word - 1
        BY <1>6
      <3>2. QED BY <1>1, <1>3, <3>1 DEF TypeOK
    <2>2. previous' \in [Thread -> NodeAddr \cup {NULL}]
      BY <1>1, <1>3 DEF TypeOK
    <2>3. mutex' \in Thread \cup {NoOne}
      BY <1>1, <1>3 DEF TypeOK, Acquire
    <2>4. pc' \in [Thread -> {"idle", "malloc", "scan", "fit", "allocated", "null",
                              "free", "find", "freed", "exit"}]
      BY <1>1, <1>3 DEF TypeOK
    <2>5. QED BY <1>1, <1>3, <2>1, <2>2, <2>3, <2>4 DEF TypeOK
  <1>12. MutexExact'
    BY <1>1, <1>3, <1>9, <1>10, MutexTaken DEF Critical
  <1>13. InHand(t)' = InHand(t)
    BY <1>3, <1>10 DEF InHand
  <1>14. ArenaOf(t)' = p /\ Nodes(ArenaOf(t))' = T /\ head'[p] = Base
    BY <1>0, <1>2, <1>3, <1>6 DEF ArenaOf, PerThread, Nodes
  <1>15. Finding(t)'
    BY <1>8, <1>10, <1>14 DEF Finding
  <1>16. Position(t)'
    BY <1>4, <1>10, <1>14, <1>15 DEF Position
  <1>17. QED BY <1>1, <1>3, <1>9, <1>11, <1>12, <1>13, <1>16, QuietStep

\* What a walk of my_free knows: its block's node is in the list, and busy.
LEMMA FindingNode ==
  ASSUME IInv, NEW t \in args.threads, pc[t] = "find", NEW p, p = ArenaOf(t)
  PROVE  /\ Tiles(mem[p], Nodes(p)) /\ Sound(mem[p], Nodes(p)) /\ head[p] = Base
         /\ current[t] \in Nodes(p) /\ current[t] <= ptr[t] - HeaderSize
         /\ ptr[t] - HeaderSize \in Busy(mem[p], Nodes(p))
         /\ \/ previous[t] = NULL /\ current[t] = Base
            \/ previous[t] \in Nodes(p) /\ next(mem[p], previous[t]) = current[t]
         /\ \E b \in held[t] : b.lo = ptr[t] /\ b.lo \in Nat
  <1>1. TypeOK /\ Memory /\ Position(t) /\ p \in Arena
    BY Threads DEF IInv, Positions
  <1>2. Finding(t) /\ head[p] = Base /\ \E b \in held[t] : b.lo = ptr[t]
    BY <1>1 DEF Position
  <1>3. PICK b \in held[t] : b.lo = ptr[t]
    BY <1>2
  <1>4. b \in InHand(t)
    BY <1>3 DEF InHand
  <1>5. Backs(mem[p], Nodes(p), b) /\ b.lo \in Nat
    BY <1>1, <1>4, HandNumbers
  <1>6. Tiles(mem[p], Nodes(p)) /\ Sound(mem[p], Nodes(p))
    BY <1>1, <1>2, UsedPool DEF Memory
  <1>7. QED BY <1>2, <1>3, <1>5, <1>6 DEF Finding, Backs

LEMMA FindStep ==
  ASSUME IInv, NEW t \in args.threads, Find(t)
  PROVE  IInv'
  <1>0. PICK p \in Arena : p = ArenaOf(t)
    BY Threads DEF IInv
  <1>1. /\ TypeOK /\ MutexExact /\ Memory /\ t \in Thread /\ ~invalid /\ ~leaked
        /\ process # "crashed" /\ Position(t)
    BY <1>0, Threads DEF IInv, Positions
  <1>2. PICK m, T, c, d : m = mem[p] /\ T = Nodes(p) /\ c = current[t] /\ d = next(m, c)
    OBVIOUS
  <1>3. pc[t] = "find" /\ c # ptr[t] - HeaderSize
    BY <1>2 DEF Find, Running, Found
  <1>4. /\ Tiles(m, T) /\ head[p] = Base /\ c \in T /\ c <= ptr[t] - HeaderSize
        /\ ptr[t] - HeaderSize \in T
    BY <1>0, <1>2, <1>3, FindingNode DEF Busy
  <1>5. c \in NodeAddr
    BY <1>4 DEF Tiles
  <1>6. /\ pc[t] = "find"
        /\ previous' = [previous EXCEPT ![t] = c]
        /\ current' = [current EXCEPT ![t] = d]
        /\ UNCHANGED <<args, mem, head, mutex, pc, req, best, over, ptr, held, calls,
                       invalid, leaked, process>>
    BY <1>0, <1>2, <1>5 DEF Find, Running
  <1>7. d \in T /\ d <= ptr[t] - HeaderSize
    <2>1. c \in Nat /\ ptr[t] - HeaderSize \in Nat
      BY <1>4, TileNumbers
    <2>2. c < ptr[t] - HeaderSize
      BY <1>3, <1>4, <2>1
    <2>3. QED BY <1>2, <1>4, <2>2, NextNode
  <1>8. OthersKeep(t)
    BY <1>1, <1>6 DEF OthersKeep, Keeps, TypeOK
  <1>9. /\ pc'[t] = "find" /\ ptr'[t] = ptr[t] /\ held'[t] = held[t]
        /\ previous'[t] = c /\ current'[t] = d
    BY <1>1, <1>6 DEF TypeOK
  <1>10. TypeOK'
    <2>1. current' \in [Thread -> 0 .. Word - 1]
      <3>1. d \in 0 .. Word - 1
        BY <1>4, <1>7 DEF Tiles
      <3>2. QED BY <1>1, <1>6, <3>1 DEF TypeOK
    <2>2. previous' \in [Thread -> NodeAddr \cup {NULL}]
      BY <1>1, <1>5, <1>6 DEF TypeOK
    <2>3. QED BY <1>1, <1>6, <2>1, <2>2 DEF TypeOK
  <1>11. MutexExact'
    BY <1>1, <1>6, <1>8, <1>9, MutexKept DEF Critical
  <1>12. InHand(t)' = InHand(t)
    BY <1>6, <1>9 DEF InHand
  <1>13. ArenaOf(t)' = p /\ Nodes(ArenaOf(t))' = T /\ head'[p] = Base /\ mem'[p] = m
    BY <1>0, <1>2, <1>4, <1>6 DEF ArenaOf, PerThread, Nodes
  <1>14. Finding(t)'
    BY <1>2, <1>4, <1>7, <1>9, <1>13 DEF Finding
  <1>15. Position(t)'
    <2>1. \E b \in held[t] : b.lo = ptr[t]
      BY <1>1, <1>3 DEF Position
    <2>2. QED BY <2>1, <1>9, <1>13, <1>14 DEF Position
  <1>16. QED BY <1>1, <1>6, <1>8, <1>10, <1>11, <1>12, <1>15, QuietStep

LEMMA DeallocateStep ==
  ASSUME IInv, NEW t \in args.threads, Deallocate(t)
  PROVE  IInv'
  <1>0. PICK p \in Arena : p = ArenaOf(t)
    BY Threads DEF IInv
  <1>1. /\ TypeOK /\ MutexExact /\ Memory /\ t \in Thread /\ ~invalid /\ ~leaked
        /\ process # "crashed"
    BY <1>0, Threads DEF IInv
  <1>2. PICK m, T, node, pred, n :
          /\ m = mem[p] /\ T = Nodes(p) /\ node = current[t] /\ pred = previous[t]
          /\ n = deallocate(m, node, pred)
    OBVIOUS
  <1>3. pc[t] = "find" /\ node = ptr[t] - HeaderSize
    BY <1>2 DEF Deallocate, Running, Found
  <1>4. PICK b0 \in held[t] : b0.lo = ptr[t] /\ b0.lo \in Nat
    BY <1>0, <1>3, FindingNode
  <1>5. /\ Tiles(m, T) /\ Sound(m, T) /\ head[p] = Base
        /\ node \in T /\ ~is_free(m, node)
        /\ (pred = NULL /\ node = Base) \/ (pred \in T /\ next(m, pred) = node)
        /\ b0.lo = node + HeaderSize
    <2>1. /\ Tiles(m, T) /\ Sound(m, T) /\ head[p] = Base
          /\ node \in Busy(m, T)
          /\ (pred = NULL /\ node = Base) \/ (pred \in T /\ next(m, pred) = node)
      BY <1>0, <1>2, <1>3, FindingNode
    <2>2. b0.lo = node + HeaderSize
      BY <1>3, <1>4
    <2>3. QED BY <2>1, <2>2 DEF Busy
  <1>6. next(m, node) \in NodeAddr \cup {NULL}
    BY <1>5, NextNode DEF Tiles
  <1>7. /\ mem' = [mem EXCEPT ![p] = n]
        /\ held' = [held EXCEPT ![t] = {b \in @ : b.lo # ptr[t]}]
        /\ pc' = [pc EXCEPT ![t] = "freed"]
        /\ UNCHANGED <<args, head, mutex, req, current, best, over, previous, ptr, calls,
                       invalid, leaked, process>>
    BY <1>0, <1>1, <1>2, <1>6 DEF Deallocate, Forget, GoTo, locals, TypeOK
  <1>8. PICK U : /\ Sound(n, U)
                 /\ \A a : a \in Busy(n, U) <=> a \in Busy(m, T) /\ a # node
                 /\ \A b : Backs(m, T, b) /\ b.lo - HeaderSize # node => Backs(n, U, b)
    BY <1>2, <1>5, DeallocateEffect
  <1>9. /\ OthersKeep(t) /\ pc'[t] = "freed"
        /\ held'[t] = {b \in held[t] : b.lo # ptr[t]}
    BY <1>1, <1>7 DEF OthersKeep, Keeps, TypeOK
  <1>10. TypeOK'
    <2>1. n \in [Address -> 0 .. Word - 1]
      BY <1>8 DEF Sound, Tiles
    <2>2. mem' \in [Arena -> [Address -> 0 .. Word - 1]]
      BY <1>1, <1>7, <2>1 DEF TypeOK
    <2>3. held' \in [Thread -> SUBSET Block]
      BY <1>1, <1>7 DEF TypeOK
    <2>4. pc' \in [Thread -> {"idle", "malloc", "scan", "fit", "allocated", "null",
                              "free", "find", "freed", "exit"}]
      BY <1>1, <1>7 DEF TypeOK
    <2>5. QED BY <1>1, <1>7, <2>2, <2>3, <2>4 DEF TypeOK
  <1>11. MutexExact' /\ \A u \in Thread \ {t} : ~PerThread => pc[u] \notin Critical
    <2>1. MutexExact'
      BY <1>1, <1>3, <1>7, <1>9, MutexKept DEF Critical
    <2>2. QED BY <2>1, <1>1, <1>3, MutexExcludes DEF Critical
  <1>12. /\ \A u : ArenaOf(u)' = ArenaOf(u)
         /\ mem'[p] = n /\ \A q \in Arena \ {p} : mem'[q] = mem[q]
         /\ head'[p] = Base /\ head' = head
    BY <1>1, <1>5, <1>7 DEF ArenaOf, PerThread, TypeOK
  <1>13. Nodes(p)' = U /\ \A q \in Arena \ {p} : Nodes(q)' = Nodes(q)
    <2>1. ListNodes(n, Base) = U
      BY <1>8, TilesAreTheList DEF Sound
    <2>2. Nodes(p)' = ListNodes(n, Base)
      <3> HIDE DEF Base
      <3>1. QED BY <1>12 DEF Nodes
    <2>3. QED BY <2>1, <2>2, <1>12 DEF Nodes
  <1>14. b0 \in InHand(t)
    BY <1>4 DEF InHand
  <1>15. /\ \A u \in args.threads \ {t} : InHand(u)' = InHand(u)
         /\ \A b : b \in InHand(t)' <=> b \in InHand(t) /\ b.lo # b0.lo
    <2>1. \A u \in args.threads \ {t} : InHand(u)' = InHand(u)
      BY <1>1, <1>9, InHandKept, Threads DEF OthersKeep
    <2>2. InHand(t) = held[t] /\ InHand(t)' = {b \in held[t] : b.lo # ptr[t]}
      BY <1>3, <1>9 DEF InHand
    <2>3. QED BY <2>1, <2>2, <1>4
  \* The other blocks in use begin elsewhere.
  <1>16. ASSUME NEW u \in args.threads, NEW b \in InHand(u)', ArenaOf(u) = p
         PROVE  b.lo # b0.lo
    <2>1. CASE u = t
      BY <2>1, <1>15
    <2>2. CASE u # t
      <3>1. b \in InHand(u)
        BY <2>2, <1>15
      <3>2. QED BY <3>1, <2>2, <1>0, <1>1, <1>14, <1>16 DEF Memory, OneEach
    <2>3. QED BY <2>1, <2>2
  <1>17. \A u \in args.threads : \A b : b \in InHand(u)' => b \in InHand(u)
    BY <1>15
  <1>18. Memory'
    <2>1. Lists'
      <3> SUFFICES ASSUME NEW q \in Arena, head'[q] # NULL PROVE Sound(mem'[q], Nodes(q)')
        BY DEF Lists
      <3>1. CASE q = p
        BY <3>1, <1>8, <1>12, <1>13
      <3>2. CASE q # p
        BY <3>2, <1>1, <1>12, <1>13 DEF Memory, Lists
      <3>3. QED BY <3>1, <3>2
    <2>2. Backed'
      <3> SUFFICES ASSUME NEW u \in args.threads, NEW b \in InHand(u)'
                   PROVE  /\ b \in Block /\ head'[ArenaOf(u)'] = Base
                          /\ Backs(mem'[ArenaOf(u)'], Nodes(ArenaOf(u))', b)
        BY <1>7 DEF Backed
      <3>1. PICK q \in Arena : q = ArenaOf(u)
        BY <1>1, Threads
      <3>2. ArenaOf(u)' = q /\ Nodes(ArenaOf(u))' = Nodes(q)' /\ Nodes(ArenaOf(u)) = Nodes(q)
        BY <3>1, <1>12 DEF Nodes
      <3>3. b \in InHand(u)
        BY <1>17
      <3>4. b \in Block /\ head[q] = Base /\ Backs(mem[q], Nodes(q), b) /\ b.lo \in Nat
        BY <3>1, <3>2, <3>3, <1>1, HandNumbers
      <3>5. CASE q = p
        <4>1. b.lo # b0.lo
          BY <1>16, <3>1, <3>5
        <4>2. b.lo - HeaderSize # node
          BY <4>1, <3>4, <1>3, <1>4
        <4>3. QED BY <4>2, <3>2, <3>4, <3>5, <1>2, <1>8, <1>12, <1>13
      <3>6. CASE q # p
        BY <3>6, <3>2, <3>4, <1>12, <1>13
      <3>7. QED BY <3>5, <3>6
    <2>3. OneEach'
      BY <1>1, <1>7, <1>12, <1>17 DEF Memory, OneEach
    <2>4. Covered'
      <3> SUFFICES ASSUME NEW q \in Arena, NEW a \in Busy(mem'[q], Nodes(q)')
                   PROVE  \E u \in args.threads :
                            ArenaOf(u) = q /\ \E b \in InHand(u)' : b.lo = a + HeaderSize
        BY <1>7, <1>12 DEF Covered
      <3>1. a \in Busy(mem[q], Nodes(q)) /\ (q = p => a # node)
        BY <1>2, <1>8, <1>12, <1>13
      <3>2. PICK u \in args.threads : \E b \in InHand(u) : ArenaOf(u) = q /\ b.lo = a + HeaderSize
        BY <3>1, <1>1 DEF Memory, Covered
      <3>3. PICK b \in InHand(u) : ArenaOf(u) = q /\ b.lo = a + HeaderSize
        BY <3>2
      <3>4. b \in InHand(u)'
        <4>1. CASE u # t
          BY <4>1, <1>15
        <4>2. CASE u = t
          <5>1. q = p /\ a \in T
            BY <4>2, <3>1, <3>3, <1>0, <1>2 DEF Busy
          <5>2. a \in Nat /\ node \in Nat
            BY <5>1, <1>5, TileNumbers
          <5>3. b.lo # b0.lo
            BY <5>1, <5>2, <3>1, <3>3, <1>5
          <5>4. QED BY <4>2, <5>3, <1>15
        <4>3. QED BY <4>1, <4>2
      <3>5. QED BY <3>3, <3>4
    <2>5. QED BY <2>1, <2>2, <2>3, <2>4 DEF Memory
  <1>19. Position(t)'
    BY <1>2, <1>3, <1>7, <1>9 DEF Position, Found
  <1>20. QED BY <1>0, <1>1, <1>7, <1>9, <1>10, <1>11, <1>12, <1>18, <1>19, PoolStep

LEMMA ReturnFreeStep ==
  ASSUME IInv, NEW t \in args.threads, ReturnFree(t)
  PROVE  IInv'
  <1>1. /\ TypeOK /\ MutexExact /\ Memory /\ t \in Thread /\ invalid = FALSE /\ ~leaked
        /\ process # "crashed" /\ Position(t)
    BY Threads DEF IInv, Positions, TypeOK
  <1>2. pc[t] = "freed"
    <2> SUFFICES ASSUME pc[t] = "find", current[t] = NULL PROVE FALSE
      BY DEF ReturnFree, Running
    <2>1. PICK p : p = ArenaOf(t)
      OBVIOUS
    <2>2. Tiles(mem[p], Nodes(p)) /\ current[t] \in Nodes(p)
      BY <2>1, FindingNode
    <2>3. QED BY <2>2 DEF Tiles
  <1>3. Found(t)
    BY <1>1, <1>2 DEF Position
  <1>4. /\ pc' = [pc EXCEPT ![t] = "idle"] /\ Release(t)
        /\ invalid' = FALSE
        /\ req' = [req EXCEPT ![t] = 0]
        /\ current' = [current EXCEPT ![t] = NULL]
        /\ best' = [best EXCEPT ![t] = NULL]
        /\ over' = [over EXCEPT ![t] = 0]
        /\ previous' = [previous EXCEPT ![t] = NULL]
        /\ ptr' = [ptr EXCEPT ![t] = NULL]
        /\ UNCHANGED <<args, mem, head, held, calls, leaked, process>>
    BY <1>1, <1>3 DEF ReturnFree, Return, GoTo
  <1>5. OthersKeep(t)
    BY <1>1, <1>4 DEF OthersKeep, Keeps, TypeOK
  <1>6. TypeOK'
    <2>1. over' \in [Thread -> 0 .. INT_MAX]
      BY <1>1, <1>4, IntMax DEF TypeOK
    <2>2. current' \in [Thread -> 0 .. Word - 1]
      BY <1>1, <1>4 DEF TypeOK
    <2>3. mutex' \in Thread \cup {NoOne}
      BY <1>1, <1>4 DEF TypeOK, Release
    <2>4. /\ pc' \in [Thread -> {"idle", "malloc", "scan", "fit", "allocated", "null",
                                 "free", "find", "freed", "exit"}]
          /\ req' \in [Thread -> Size \cup {0}]
          /\ best' \in [Thread -> NodeAddr \cup {NULL}]
          /\ previous' \in [Thread -> NodeAddr \cup {NULL}]
          /\ ptr' \in [Thread -> Address \cup {NULL}]
      BY <1>1, <1>4 DEF TypeOK
    <2>5. QED BY <1>1, <1>4, <2>1, <2>2, <2>3, <2>4 DEF TypeOK
  <1>7. pc'[t] = "idle" /\ held'[t] = held[t]
    BY <1>1, <1>4 DEF TypeOK
  <1>8. MutexExact'
    BY <1>1, <1>2, <1>4, <1>5, <1>7, MutexGiven DEF Critical
  <1>9. InHand(t)' = InHand(t)
    BY <1>2, <1>7 DEF InHand
  <1>10. Position(t)'
    BY <1>7 DEF Position
  <1>11. QED BY <1>1, <1>4, <1>5, <1>6, <1>8, <1>9, <1>10, QuietStep

\* A list without a busy node is one block: the whole pool.
LEMMA AllFree ==
  ASSUME NEW m, NEW T, Sound(m, T), Busy(m, T) = {}
  PROVE  /\ T = {Base} /\ is_free(m, Base)
         /\ next(m, Base) = NULL /\ block_size(m, Base) = PoolSize - HeaderSize
  <1>1. Tiles(m, T) /\ Base \in T /\ \A a \in T : is_free(m, a)
    BY DEF Sound, Tiles, Busy
  <1>2. next(m, Base) = NULL
    <2>1. next(m, Base) # NULL => next(m, Base) \in T
      BY <1>1 DEF Tiles
    <2>2. QED BY <2>1, <1>1 DEF Sound, NoFreePair
  <1>3. End(m, Base) = PoolEnd /\ block_size(m, Base) \in Nat
    BY <1>1, <1>2, TileNumbers DEF Tiles
  <1>4. block_size(m, Base) = PoolSize - HeaderSize
    BY <1>3 DEF End
  <1>5. \A a \in T : a = Base
    <2> TAKE a \in T
    <2>1. ~(Base < a)
      BY <1>1, <1>2, NextNode
    <2>2. a \in Nat /\ Base <= a
      BY <1>1, TileNumbers
    <2>3. QED BY <2>1, <2>2
  <1>6. QED BY <1>1, <1>2, <1>4, <1>5

\* When no thread of a pool has a block, teardown has nothing to report.
LEMMA NothingLeaks ==
  ASSUME TypeOK, Memory, NEW p \in Arena,
         \A t \in args.threads : ArenaOf(t) = p => InHand(t) = {}
  PROVE  ~TeardownWarns(p)
  <1> SUFFICES ASSUME head[p] # NULL
               PROVE  next(mem[p], Base) = NULL /\ block_size(mem[p], Base) = PoolSize - HeaderSize
    BY DEF TeardownWarns, TypeOK
  <1>1. Sound(mem[p], Nodes(p))
    BY UsedPool DEF Memory
  <1>2. Busy(mem[p], Nodes(p)) = {}
    BY DEF Memory, Covered
  <1>3. QED BY <1>1, <1>2, AllFree

LEMMA ThreadExitStep ==
  ASSUME IInv, NEW t \in args.threads, ThreadExit(t)
  PROVE  IInv'
  <1>1. /\ TypeOK /\ MutexExact /\ Memory /\ t \in Thread /\ ~invalid /\ leaked = FALSE
        /\ process # "crashed"
    BY Threads DEF IInv, TypeOK
  <1>2. /\ pc[t] = "idle" /\ held[t] = {} /\ pc' = [pc EXCEPT ![t] = "exit"]
        /\ leaked' = (leaked \/ (PerThread /\ TeardownWarns(t)))
        /\ UNCHANGED <<args, mem, head, mutex, req, current, best, over, previous, ptr,
                       held, calls, invalid, process>>
    BY DEF ThreadExit, Running, GoTo, locals
  <1>3. InHand(t) = {}
    BY <1>2 DEF InHand
  <1>4. leaked' = FALSE
    <2>1. CASE PerThread
      <3>1. t \in Arena /\ \A u \in args.threads : ArenaOf(u) = t => InHand(u) = {}
        BY <1>1, <1>3, <2>1, Threads DEF ArenaOf
      <3>2. QED BY <3>1, <1>1, <1>2, NothingLeaks
    <2>2. CASE ~PerThread
      BY <2>2, <1>1, <1>2
    <2>3. QED BY <2>1, <2>2
  <1>5. OthersKeep(t) /\ pc'[t] = "exit" /\ held'[t] = {}
    BY <1>1, <1>2 DEF OthersKeep, Keeps, TypeOK
  <1>6. TypeOK'
    BY <1>1, <1>2, <1>4 DEF TypeOK
  <1>7. MutexExact'
    BY <1>1, <1>2, <1>5, MutexKept DEF Critical
  <1>8. InHand(t)' = InHand(t)
    BY <1>2, <1>5 DEF InHand
  <1>9. Position(t)'
    BY <1>5 DEF Position
  <1>10. QED BY <1>1, <1>2, <1>4, <1>5, <1>6, <1>7, <1>8, <1>9, QuietStep

LEMMA ProcessExitStep ==
  ASSUME IInv, ProcessExit
  PROVE  IInv'
  <1>1. TypeOK /\ Memory /\ Positions /\ leaked = FALSE
    BY DEF IInv, TypeOK
  <1>2. leaked' = FALSE
    <2>1. CASE ~PerThread
      <3>1. \A u \in args.threads : InHand(u) = {}
        BY <1>1 DEF ProcessExit, Positions, Position, InHand
      <3>2. "global" \in Arena
        BY <1>1, <2>1, Threads
      <3>3. QED BY <3>1, <3>2, <1>1, NothingLeaks DEF ProcessExit
    <2>2. CASE PerThread
      BY <2>2, <1>1 DEF ProcessExit
    <2>3. QED BY <2>1, <2>2
  <1>3. QED BY <1>2, StateKept DEF ProcessExit, locals

LEMMA InitIInv == Init => IInv
  <1> SUFFICES ASSUME Init PROVE IInv
    OBVIOUS
  <1>1. args \in Arguments /\ args.calls \in Nat /\ args.threads \subseteq Thread
    BY BestFitAssumption DEF Init
  <1>2. TypeOK
    <2>1. mem \in [Arena -> [Address -> 0 .. Word - 1]]
      <3>1. 0 \in 0 .. Word - 1
        OBVIOUS
      <3> HIDE DEF Address
      <3>2. QED BY <3>1 DEF Init
    <2>2. /\ head \in [Arena -> {NULL, Base}]
          /\ mutex \in Thread \cup {NoOne}
          /\ pc \in [Thread -> {"idle", "malloc", "scan", "fit", "allocated", "null",
                                "free", "find", "freed", "exit"}]
          /\ req \in [Thread -> Size \cup {0}]
      BY DEF Init
    <2>3. /\ current \in [Thread -> 0 .. Word - 1]
          /\ over \in [Thread -> 0 .. INT_MAX]
          /\ calls \in [Thread -> 0 .. args.calls]
      BY <1>1, IntMax DEF Init
    <2>4. /\ best \in [Thread -> NodeAddr \cup {NULL}]
          /\ previous \in [Thread -> NodeAddr \cup {NULL}]
          /\ ptr \in [Thread -> Address \cup {NULL}]
          /\ held \in [Thread -> SUBSET Block]
          /\ invalid \in BOOLEAN /\ leaked \in BOOLEAN /\ process = "running"
      BY DEF Init
    <2>5. QED BY <1>1, <2>1, <2>2, <2>3, <2>4 DEF TypeOK
  <1>3. \A t \in Thread : InHand(t) = {} /\ pc[t] = "idle" /\ held[t] = {}
    BY DEF Init, InHand
  <1>4. \A p \in Arena : head[p] = NULL /\ Nodes(p) = {}
    <2> TAKE p \in Arena
    <2>1. head[p] = NULL
      BY DEF Init
    <2>2. QED BY <2>1, EmptyList DEF Nodes
  <1>5. Memory
    BY <1>1, <1>3, <1>4 DEF Memory, Lists, Backed, OneEach, Covered, Busy
  <1>6. Positions
    BY <1>1, <1>3 DEF Positions, Position
  <1>7. MutexExact /\ Absent
    BY <1>1, <1>3, BestFitAssumption DEF MutexExact, Absent, Critical, Init
  <1>8. QED BY <1>2, <1>5, <1>6, <1>7 DEF IInv, Init

LEMMA NextIInv ==
  ASSUME HeaderFits, IInv, [Next]_vars
  PROVE  IInv'
  <1>1. CASE UNCHANGED vars
    <2>1. leaked = FALSE
      BY DEF IInv, TypeOK
    <2>2. process \in {"running", "exited", "aborted"}
      BY DEF IInv, TypeOK
    <2>3. QED BY <1>1, <2>1, <2>2, StateKept DEF vars
  <1>2. CASE ProcessExit
    BY <1>2, ProcessExitStep
  <1>3. CASE \E t \in args.threads : Step(t)
    BY <1>3, CallMallocStep, StartScanStep, ScanStep, EndScanStep, AllocateStep,
       ReturnBlockStep, ReturnNullStep, AbortStep, CallFreeStep, StartFindStep, FindStep,
       DeallocateStep, ReturnFreeStep, ThreadExitStep DEF Step
  <1>4. QED BY <1>1, <1>2, <1>3 DEF Next, Ended

-----------------------------------------------------------------------------
(* The theorems.                                                           *)

(* The inductive invariant holds in every reachable state.                 *)
THEOREM InvariantHolds == HeaderFits => (Spec => []IInv)
  <1> SUFFICES ASSUME HeaderFits PROVE Spec => []IInv
    OBVIOUS
  <1>1. IInv /\ [Next]_vars => IInv'
    BY NextIInv
  <1>2. QED BY <1>1, InitIInv, PTL DEF Spec

LEMMA PoolIsTiled == IInv => ListTilesPool
  <1> SUFFICES ASSUME IInv, NEW p \in Arena, NEW a \in Nodes(p)
               PROVE  next(mem[p], a) = IF End(mem[p], a) = PoolEnd THEN NULL ELSE End(mem[p], a)
    BY DEF ListTilesPool, End
  <1>1. head[p] # NULL
    BY EmptyList DEF Nodes
  <1>2. Tiles(mem[p], Nodes(p))
    BY <1>1, UsedPool DEF IInv, Memory
  <1>3. CASE next(mem[p], a) = NULL
    BY <1>2, <1>3 DEF Tiles
  <1>4. CASE next(mem[p], a) # NULL
    <2>1. next(mem[p], a) = End(mem[p], a)
      BY <1>2, <1>4 DEF Tiles
    <2>2. next(mem[p], a) + HeaderSize <= PoolEnd /\ next(mem[p], a) \in Nat
      BY <1>2, <1>4, TileNumbers
    <2>3. QED BY <2>1, <2>2
  <1>5. QED BY <1>3, <1>4

LEMMA NoFreePairs == IInv => NoFreeNeighbours
  <1> SUFFICES ASSUME IInv PROVE NoFreeNeighbours
    OBVIOUS
  <1>1. ASSUME NEW p \in Arena, NEW a \in Nodes(p), next(mem[p], a) # NULL
        PROVE  ~(is_free(mem[p], a) /\ is_free(mem[p], next(mem[p], a)))
    <2>1. head[p] # NULL
      BY EmptyList DEF Nodes
    <2>2. Sound(mem[p], Nodes(p))
      BY <2>1, UsedPool DEF IInv, Memory
    <2>3. QED BY <1>1, <2>2 DEF Sound, NoFreePair
  <1>2. ~leaked
    BY DEF IInv
  <1>3. QED BY <1>1, <1>2 DEF NoFreeNeighbours

\* A thread that has a block in hand has been created by membench.
LEMMA OnlyCreated ==
  ASSUME IInv, NEW t \in Thread
  PROVE  /\ InHand(t) # {} => t \in args.threads
         /\ pc[t] # "idle" => t \in args.threads
  BY DEF IInv, Absent, InHand

LEMMA BusyIsExact == IInv => BusyExact
  <1> SUFFICES ASSUME IInv, NEW p \in Arena
               PROVE  LET users == {t \in Thread : ArenaOf(t) = p} IN
                      /\ {a + HeaderSize : a \in {n \in Nodes(p) : ~is_free(mem[p], n)}} =
                           UNION {{b.lo : b \in InHand(t)} : t \in users}
                      /\ \A t, u \in users :
                           t # u => {b.lo : b \in InHand(t)} \cap {b.lo : b \in InHand(u)} = {}
                      /\ ~invalid
    BY DEF BusyExact
  <1> DEFINE users == {t \in Thread : ArenaOf(t) = p}
  <1>1. TypeOK /\ Memory /\ ~invalid /\ args.threads \subseteq Thread
    BY Threads DEF IInv
  <1>2. ASSUME NEW x
        PROVE  (\E a \in Nodes(p) : ~is_free(mem[p], a) /\ x = a + HeaderSize)
               <=> \E t \in users : \E b \in InHand(t) : x = b.lo
    <2>1. ASSUME NEW a \in Nodes(p), ~is_free(mem[p], a), x = a + HeaderSize
          PROVE  \E t \in users : \E b \in InHand(t) : x = b.lo
      <3>1. a \in Busy(mem[p], Nodes(p))
        BY <2>1 DEF Busy
      <3>2. QED BY <3>1, <2>1, <1>1 DEF Memory, Covered
    <2>2. ASSUME NEW t \in users, NEW b \in InHand(t), x = b.lo
          PROVE  \E a \in Nodes(p) : ~is_free(mem[p], a) /\ x = a + HeaderSize
      <3>1. t \in args.threads /\ ArenaOf(t) = p
        BY OnlyCreated
      <3>2. b.lo \in Nat /\ Backs(mem[p], Nodes(p), b)
        BY <1>1, <3>1, HandNumbers
      <3>3. b.lo - HeaderSize \in Nodes(p) /\ ~is_free(mem[p], b.lo - HeaderSize)
        BY <3>2 DEF Backs, Busy
      <3>4. x = (b.lo - HeaderSize) + HeaderSize
        BY <2>2, <3>2
      <3>5. QED BY <3>3, <3>4
    <2>3. QED BY <2>1, <2>2
  <1>3. ASSUME NEW t \in users, NEW u \in users, t # u,
               NEW b \in InHand(t), NEW c \in InHand(u)
        PROVE  b.lo # c.lo
    <2>1. t \in args.threads /\ u \in args.threads /\ ArenaOf(t) = ArenaOf(u)
      BY OnlyCreated
    <2>2. QED BY <2>1, <1>1, <1>3 DEF Memory, OneEach
  <1>4. {a + HeaderSize : a \in {n \in Nodes(p) : ~is_free(mem[p], n)}} =
          UNION {{b.lo : b \in InHand(t)} : t \in users}
    <2> HIDE DEF users
    <2>1. ASSUME NEW x
          PROVE  x \in {a + HeaderSize : a \in {n \in Nodes(p) : ~is_free(mem[p], n)}}
                 <=> x \in UNION {{b.lo : b \in InHand(t)} : t \in users}
      BY <1>2
    <2>2. QED BY <2>1
  <1>5. \A t, u \in users :
          t # u => {b.lo : b \in InHand(t)} \cap {b.lo : b \in InHand(u)} = {}
    <2> HIDE DEF users
    <2>1. QED BY <1>3
  <1>6. QED BY <1>1, <1>4, <1>5

LEMMA BestIsFound == IInv => BestFitFound
  <1> SUFFICES ASSUME IInv, NEW t \in Thread, pc[t] = "fit"
               PROVE  LET m == mem[ArenaOf(t)]
                          fitting == {a \in Nodes(ArenaOf(t)) :
                                        is_free(m, a) /\ block_size(m, a) >= req[t]}
                      IN IF fitting = {}
                         THEN best[t] = NULL
                         ELSE /\ best[t] \in fitting
                              /\ \A a \in fitting : block_size(m, best[t]) <= block_size(m, a)
    BY DEF BestFitFound
  <1>1. PICK p \in Arena : p = ArenaOf(t)
    BY OnlyCreated, Threads DEF IInv
  <1>2. BestOf(t, Nodes(p)) /\ head[p] = Base /\ req[t] \in Size
    BY <1>1, OnlyCreated DEF IInv, Positions, Position
  <1>3. Tiles(mem[p], Nodes(p))
    BY <1>2, UsedPool DEF IInv, Memory
  <1>4. \A a \in Nodes(p) : block_size(mem[p], a) \in Nat
    BY <1>3, TileNumbers
  <1>5. req[t] \in Nat
    <2>1. Size \subseteq Nat
      BY BestFitAssumption, IntMax DEF INT_MAX
    <2>2. QED BY <1>2, <2>1
  <1>6. CASE best[t] = NULL /\ over[t] = INT_MAX /\ \A a \in Nodes(p) : ~Fitting(t, a)
    BY <1>1, <1>6 DEF Fitting
  <1>7. CASE /\ best[t] \in Nodes(p) /\ Fitting(t, best[t])
             /\ over[t] = block_size(mem[p], best[t]) - req[t]
             /\ \A a \in Nodes(p) : Fitting(t, a) => over[t] <= block_size(mem[p], a) - req[t]
    <2>1. \A a \in Nodes(p) : Fitting(t, a) => block_size(mem[p], best[t]) <= block_size(mem[p], a)
      BY <1>4, <1>5, <1>7
    <2>2. best[t] \in {a \in Nodes(p) : is_free(mem[p], a) /\ block_size(mem[p], a) >= req[t]}
      BY <1>1, <1>7 DEF Fitting
    <2>3. \A a \in Nodes(p) : is_free(mem[p], a) /\ block_size(mem[p], a) >= req[t]
                              => block_size(mem[p], best[t]) <= block_size(mem[p], a)
      BY <1>1, <2>1 DEF Fitting
    <2>4. QED BY <1>1, <2>2, <2>3
  <1>8. QED BY <1>1, <1>2, <1>6, <1>7 DEF BestOf

(* The variables keep their types: every word of a pool is a number of its *)
(* width, and the pointers of the functions lead to nodes or are NULL.     *)
THEOREM TypeCorrect == HeaderFits => (Spec => []TypeOK)
  <1>1. IInv => TypeOK
    BY DEF IInv
  <1>2. QED BY <1>1, InvariantHolds, PTL

(* The block list of a pool tiles it, whatever was allocated, split, freed *)
(* and merged: the headers that the code writes into the pool are exact.   *)
THEOREM ListAlwaysTilesPool == HeaderFits => (Spec => []ListTilesPool)
  BY PoolIsTiled, InvariantHolds, PTL

(* The busy blocks of the list are those that the threads have: no block   *)
(* is handed out twice or lost, and my_free always finds its block.        *)
THEOREM BusyAlwaysExact == HeaderFits => (Spec => []BusyExact)
  BY BusyIsExact, InvariantHolds, PTL

(* my_malloc takes a free block than which no fitting one is smaller, and  *)
(* answers NULL only if none fits, although it read the list in many steps.*)
THEOREM SearchFindsBestFit == HeaderFits => (Spec => []BestFitFound)
  BY BestIsFound, InvariantHolds, PTL

(* my_free merges completely: no two free blocks lie side by side, and     *)
(* teardown never warns of a leak.                                         *)
THEOREM FreeBlocksAreMerged == HeaderFits => (Spec => []NoFreeNeighbours)
  BY NoFreePairs, InvariantHolds, PTL

(* No walk over a list follows a pointer that leads out of the pool.       *)
THEOREM WalksStayInPool == HeaderFits => (Spec => [](process # "crashed"))
  <1>1. IInv => process # "crashed"
    BY DEF IInv
  <1>2. QED BY <1>1, InvariantHolds, PTL

-----------------------------------------------------------------------------
(* What the abstract heap sees.                                            *)

InUse(p) == UNION {InHand(t) : t \in {u \in Thread : ArenaOf(u) = p}}
HeapInUse == [p \in Arena |-> InUse(p)]
Refused == \E t \in Thread : pc[t] = "null"

LEMMA InUseWho ==
  ASSUME NEW p, NEW b
  PROVE  b \in InUse(p) <=> \E u \in Thread : ArenaOf(u) = p /\ b \in InHand(u)
  BY DEF InUse

\* The words of a block lie in the pool, although they may reach into the
\* header of the next node ...
LEMMA WordsInPool ==
  ASSUME NEW m, NEW T, Tiles(m, T), NEW b, Backs(m, T, b), b.lo \in Nat, b.size \in Nat
  PROVE  H!Words(b) \subseteq Address
  <1>1. PICK a : a = b.lo - HeaderSize
    OBVIOUS
  <1>2. /\ a \in T /\ b.size <= block_size(m, a) + HeaderSize
        /\ b.size <= block_size(m, a) \/ next(m, a) # NULL
    BY <1>1 DEF Backs, Busy
  <1>3. /\ a \in Nat /\ Base <= a /\ block_size(m, a) \in Nat
        /\ a + HeaderSize + block_size(m, a) <= PoolEnd
        /\ next(m, a) # NULL => next(m, a) + HeaderSize <= PoolEnd
    BY <1>2, TileNumbers DEF End
  <1>4. next(m, a) # NULL => next(m, a) = a + HeaderSize + block_size(m, a)
    BY <1>2 DEF Tiles, End
  <1>5. b.lo = a + HeaderSize
    BY <1>1
  <1>6. b.lo + b.size <= PoolEnd /\ Base <= b.lo
    BY <1>2, <1>3, <1>4, <1>5
  <1>7. QED BY <1>6 DEF H!Words

\* ... and never beyond it.
LEMMA WordsApart ==
  ASSUME NEW m, NEW T, Tiles(m, T),
         NEW b, Backs(m, T, b), b.lo \in Nat, b.size \in Nat,
         NEW c, Backs(m, T, c), c.lo \in Nat, c.size \in Nat,
         b.lo < c.lo
  PROVE  H!Words(b) \cap H!Words(c) = {}
  <1>1. PICK a, d : a = b.lo - HeaderSize /\ d = c.lo - HeaderSize
    OBVIOUS
  <1>2. a \in T /\ b.size <= block_size(m, a) + HeaderSize /\ d \in T
    BY <1>1 DEF Backs, Busy
  <1>3. a + HeaderSize + block_size(m, a) <= d
    <2>1. a < d
      BY <1>1
    <2>2. QED BY <1>2, <2>1 DEF Tiles, End
  <1>4. a \in Nat /\ d \in Nat /\ block_size(m, a) \in Nat
    BY <1>2, TileNumbers
  <1>5. b.lo = a + HeaderSize /\ c.lo = d + HeaderSize
    BY <1>1
  <1>6. b.lo + b.size <= c.lo
    BY <1>2, <1>3, <1>4, <1>5
  <1>7. QED BY <1>6 DEF H!Words

HandsApart ==
  \A p \in Arena : \A b \in InUse(p) :
    /\ b \in [lo : Address, size : Size] /\ H!Words(b) \subseteq Address
    /\ \A c \in InUse(p) : b = c \/ H!Disjoint(b, c)

LEMMA HandsAreApart == IInv => HandsApart
  <1> SUFFICES ASSUME IInv, NEW p \in Arena, NEW b \in InUse(p)
               PROVE  /\ b \in [lo : Address, size : Size] /\ H!Words(b) \subseteq Address
                      /\ \A c \in InUse(p) : b = c \/ H!Disjoint(b, c)
    BY DEF HandsApart
  <1>1. TypeOK /\ Memory
    BY DEF IInv
  <1>2. ASSUME NEW c \in InUse(p)
        PROVE  /\ c \in [lo : Address, size : Size] /\ c.lo \in Nat /\ c.size \in Nat
               /\ Tiles(mem[p], Nodes(p)) /\ Backs(mem[p], Nodes(p), c)
               /\ \E u \in args.threads : ArenaOf(u) = p /\ c \in InHand(u)
    <2>1. PICK u \in Thread : ArenaOf(u) = p /\ c \in InHand(u)
      BY InUseWho
    <2>2. u \in args.threads
      BY <2>1, OnlyCreated
    <2>3. /\ c \in Block /\ c.lo \in Nat /\ c.size \in Nat
          /\ head[p] = Base /\ Backs(mem[p], Nodes(p), c)
      BY <2>1, <2>2, <1>1, HandNumbers
    <2>4. head[p] # NULL
      BY <2>3
    <2>5. Tiles(mem[p], Nodes(p))
      BY <2>4, <1>1, UsedPool DEF Memory
    <2>6. QED BY <2>1, <2>2, <2>3, <2>5 DEF Block
  <1>3. b \in [lo : Address, size : Size] /\ H!Words(b) \subseteq Address
    BY <1>2, WordsInPool
  <1>4. ASSUME NEW c \in InUse(p), b # c PROVE H!Disjoint(b, c)
    <2>1. b.lo # c.lo
      BY <1>1, <1>2, <1>4 DEF Memory, OneEach
    <2>2. b.lo \in Nat /\ c.lo \in Nat
      BY <1>2
    <2>3. CASE b.lo < c.lo
      <3>1. H!Words(b) \cap H!Words(c) = {}
        BY <1>2, <2>3, WordsApart
      <3>2. QED BY <2>1, <3>1 DEF H!Disjoint
    <2>4. CASE c.lo < b.lo
      <3>1. H!Words(c) \cap H!Words(b) = {}
        BY <1>2, <2>4, WordsApart
      <3>2. QED BY <2>1, <3>1 DEF H!Disjoint
    <2>5. QED BY <2>1, <2>2, <2>3, <2>4
  <1>5. QED BY <1>3, <1>4

LEMMA InUseKept ==
  ASSUME args' = args, \A u \in Thread : InHand(u)' = InHand(u)
  PROVE  HeapInUse' = HeapInUse
  <1>1. ASSUME NEW p \in Arena PROVE InUse(p)' = InUse(p)
    <2>1. \A b : b \in InUse(p)' <=> \E u \in Thread : ArenaOf(u)' = p /\ b \in InHand(u)'
      BY DEF InUse
    <2>2. \A u : ArenaOf(u)' = ArenaOf(u)
      BY DEF ArenaOf, PerThread
    <2>3. \A b : b \in InUse(p)' <=> b \in InUse(p)
      BY <2>1, <2>2, InUseWho
    <2>4. QED BY <2>3
  <1>2. QED BY <1>1 DEF HeapInUse

LEMMA HeapKeeps ==
  ASSUME HeapInUse' = HeapInUse, Refused' = Refused
  PROVE  UNCHANGED H!vars
  BY DEF H!vars, HeapInUse, InUse, Refused

LEMMA MallocRefines ==
  ASSUME IInv, IInv', NEW t \in args.threads, Allocate(t)
  PROVE  \E p \in Arena : H!Malloc(p)
  <1>0. PICK p \in Arena : p = ArenaOf(t)
    BY Threads DEF IInv
  <1>1. /\ TypeOK /\ Memory /\ t \in Thread /\ args.threads \subseteq Thread
    BY Threads DEF IInv
  <1>2. PICK new : new = [lo |-> best[t] + HeaderSize, size |-> req[t]]
    OBVIOUS
  <1>3. /\ pc[t] = "fit" /\ best[t] # NULL /\ pc' = [pc EXCEPT ![t] = "allocated"]
        /\ UNCHANGED <<args, req, current, best, over, previous, ptr, held>>
    BY DEF Allocate, Running, GoTo, locals
  <1>4. OthersKeep(t) /\ pc'[t] = "allocated"
    BY <1>1, <1>3 DEF OthersKeep, Keeps, TypeOK
  <1>5. /\ \A u \in Thread \ {t} : InHand(u)' = InHand(u)
        /\ \A b : b \in InHand(t)' <=> b \in InHand(t) \/ b = new
    <2>1. \A u \in Thread \ {t} : InHand(u)' = InHand(u)
      BY <1>4, InHandKept DEF OthersKeep
    <2>2. InHand(t) = held[t]
      BY <1>3 DEF InHand
    <2>3. InHand(t)' = held[t] \cup {new}
      BY <1>2, <1>3, <1>4 DEF InHand
    <2>4. QED BY <2>1, <2>2, <2>3
  <1>6. \A u : ArenaOf(u)' = ArenaOf(u)
    BY <1>3 DEF ArenaOf, PerThread
  <1>7. \A q \in Arena : \A b : b \in InUse(q)' <=> b \in InUse(q) \/ (q = p /\ b = new)
    <2> TAKE q \in Arena
    <2> TAKE b
    <2>1. b \in InUse(q)' <=> \E u \in Thread : ArenaOf(u)' = q /\ b \in InHand(u)'
      BY DEF InUse
    <2>2. b \in InUse(q) <=> \E u \in Thread : ArenaOf(u) = q /\ b \in InHand(u)
      BY InUseWho
    <2>3. QED BY <2>1, <2>2, <1>0, <1>1, <1>5, <1>6
  <1>8. new \notin InUse(p)
    <2> SUFFICES ASSUME new \in InUse(p) PROVE FALSE
      OBVIOUS
    <2>1. PICK u \in Thread : ArenaOf(u) = p /\ new \in InHand(u)
      BY InUseWho
    <2>2. u \in args.threads
      BY <2>1, OnlyCreated
    <2>3. Backs(mem[p], Nodes(p), new)
      BY <1>1, <2>1, <2>2, HandNumbers
    <2>4. ~is_free(mem[p], new.lo - HeaderSize)
      BY <2>3 DEF Backs, Busy
    <2>5. BestFitFound
      BY BestIsFound
    <2>6. best[t] \in Nodes(p) /\ is_free(mem[p], best[t])
      BY <1>0, <1>1, <1>3, <2>5 DEF BestFitFound
    <2>7. best[t] \in Nat
      BY <1>1, <1>3 DEF TypeOK
    <2>8. new.lo - HeaderSize = best[t]
      BY <1>2, <2>7
    <2>9. QED BY <2>4, <2>6, <2>8
  <1>9. HandsApart'
    BY HandsAreApart, PTL
  <1>10. new \in [lo : Address, size : Size] /\ H!Words(new) \subseteq Address
         /\ \A c \in InUse(p) : H!Disjoint(new, c)
    <2>1. new \in InUse(p)'
      BY <1>7
    <2>2. \A c \in InUse(p) : c \in InUse(p)' /\ c # new
      BY <1>7, <1>8
    <2>3. QED BY <1>9, <2>1, <2>2 DEF HandsApart
  <1>11. HeapInUse' = [HeapInUse EXCEPT ![p] = @ \cup {new}]
    <2>1. \A q \in Arena : InUse(q)' = IF q = p THEN InUse(q) \cup {new} ELSE InUse(q)
      BY <1>7
    <2>2. QED BY <2>1 DEF HeapInUse
  <1>12. Refused' = Refused
    BY <1>1, <1>3, <1>4 DEF Refused, OthersKeep, Keeps
  <1>13. new \in HeapInUse'[p] \ HeapInUse[p] /\ HeapInUse[p] = InUse(p)
    BY <1>7, <1>8 DEF HeapInUse
  <1>14. H!Malloc(p)
    BY <1>10, <1>11, <1>12, <1>13 DEF H!Malloc, HeapInUse, InUse, Refused
  <1>15. QED BY <1>14

LEMMA FreeRefines ==
  ASSUME IInv, IInv', NEW t \in args.threads, Deallocate(t)
  PROVE  \E p \in Arena : H!Free(p)
  <1>0. PICK p \in Arena : p = ArenaOf(t)
    BY Threads DEF IInv
  <1>1. /\ TypeOK /\ Memory /\ t \in Thread /\ args.threads \subseteq Thread
    BY Threads DEF IInv
  <1>2. pc[t] = "find"
    BY DEF Deallocate, Running
  <1>3. PICK b0 \in held[t] : b0.lo = ptr[t]
    BY <1>0, <1>2, FindingNode
  <1>4. /\ held' = [held EXCEPT ![t] = {b \in @ : b.lo # ptr[t]}]
        /\ pc' = [pc EXCEPT ![t] = "freed"]
        /\ UNCHANGED <<args, req, current, best, over, previous, ptr>>
    <2>1. Tiles(mem[p], Nodes(p)) /\ current[t] \in Nodes(p)
      BY <1>0, <1>2, FindingNode
    <2>2. next(mem[p], current[t]) \in NodeAddr \cup {NULL}
      BY <2>1, NextNode DEF Tiles
    <2>3. QED BY <2>2, <1>0 DEF Deallocate, Forget, GoTo, locals
  <1>5. /\ OthersKeep(t) /\ pc'[t] = "freed"
        /\ held'[t] = {b \in held[t] : b.lo # ptr[t]}
    BY <1>1, <1>4 DEF OthersKeep, Keeps, TypeOK
  <1>6. /\ \A u \in Thread \ {t} : InHand(u)' = InHand(u)
        /\ \A b : b \in InHand(t)' <=> b \in InHand(t) /\ b.lo # b0.lo
        /\ b0 \in InHand(t)
    <2>1. \A u \in Thread \ {t} : InHand(u)' = InHand(u)
      BY <1>5, InHandKept DEF OthersKeep
    <2>2. InHand(t) = held[t] /\ InHand(t)' = {b \in held[t] : b.lo # ptr[t]}
      BY <1>2, <1>5 DEF InHand
    <2>3. QED BY <2>1, <2>2, <1>3
  <1>7. \A u : ArenaOf(u)' = ArenaOf(u)
    BY <1>4 DEF ArenaOf, PerThread
  \* Only t has a block that begins there.
  <1>8. ASSUME NEW u \in Thread, NEW b \in InHand(u), ArenaOf(u) = p
        PROVE  (u = t /\ b.lo = b0.lo => b = b0) /\ (u # t => b # b0)
    <2>1. u \in args.threads
      BY OnlyCreated
    <2>2. QED BY <1>0, <1>1, <1>6, <1>8, <2>1 DEF Memory, OneEach
  <1>9. \A q \in Arena : \A b : b \in InUse(q)' <=> b \in InUse(q) /\ ~(q = p /\ b = b0)
    <2> TAKE q \in Arena
    <2> TAKE b
    <2>1. b \in InUse(q)' <=> \E u \in Thread : ArenaOf(u)' = q /\ b \in InHand(u)'
      BY DEF InUse
    <2>2. b \in InUse(q) <=> \E u \in Thread : ArenaOf(u) = q /\ b \in InHand(u)
      BY InUseWho
    <2>3. \A u \in Thread : ArenaOf(u) = q =>
            (b \in InHand(u)' <=> b \in InHand(u) /\ ~(q = p /\ b = b0))
      <3> TAKE u \in Thread
      <3>1. CASE u = t
        BY <3>1, <1>0, <1>6, <1>8
      <3>2. CASE u # t
        BY <3>2, <1>6, <1>8
      <3>3. QED BY <3>1, <3>2
    <2>4. QED BY <2>1, <2>2, <2>3, <1>7
  <1>10. HeapInUse' = [HeapInUse EXCEPT ![p] = @ \ {b0}]
    <2>1. \A q \in Arena : InUse(q)' = IF q = p THEN InUse(q) \ {b0} ELSE InUse(q)
      BY <1>9
    <2>2. QED BY <2>1 DEF HeapInUse
  <1>11. Refused' = Refused
    BY <1>1, <1>2, <1>4, <1>5 DEF Refused, OthersKeep, Keeps
  <1>12. b0 \in HeapInUse[p]
    <2>1. b0 \in InUse(p)
      BY <1>0, <1>1, <1>6, InUseWho
    <2>2. QED BY <2>1 DEF HeapInUse
  <1>13. H!Free(p)
    BY <1>10, <1>11, <1>12 DEF H!Free, HeapInUse, InUse, Refused
  <1>14. QED BY <1>13

LEMMA RefuseRefines ==
  ASSUME IInv, NEW t \in args.threads, ReturnNull(t)
  PROVE  \E p \in Arena : H!Refuse(p)
  <1>0. PICK p \in Arena : p = ArenaOf(t)
    BY Threads DEF IInv
  <1>1. /\ TypeOK /\ Memory /\ t \in Thread /\ args.threads \subseteq Thread
        /\ Position(t)
    BY Threads DEF IInv, Positions
  <1>2. /\ pc[t] = "fit" /\ best[t] = NULL /\ pc' = [pc EXCEPT ![t] = "null"]
        /\ UNCHANGED <<args, req, current, best, over, previous, ptr, held>>
    BY DEF ReturnNull, Running, GoTo, locals
  <1>3. OthersKeep(t) /\ pc'[t] = "null"
    BY <1>1, <1>2 DEF OthersKeep, Keeps, TypeOK
  <1>4. HeapInUse' = HeapInUse
    <2>1. InHand(t)' = InHand(t)
      BY <1>2, <1>3 DEF InHand
    <2>2. \A u \in Thread : InHand(u)' = InHand(u)
      BY <1>3, <2>1, InHandKept DEF OthersKeep
    <2>3. QED BY <1>2, <2>2, InUseKept
  <1>5. Refused'
    BY <1>1, <1>3 DEF Refused
  \* An unused pool is one block: the request is larger than that.
  <1>6. HeapInUse[p] # {} \/ \E s \in Size : s > LargestBlock
    <2> SUFFICES ASSUME InUse(p) = {} PROVE \E s \in Size : s > LargestBlock
      BY DEF HeapInUse
    <2>1. head[p] = Base /\ req[t] \in Size
      BY <1>0, <1>1, <1>2 DEF Position
    <2>2. Sound(mem[p], Nodes(p))
      <3>1. head[p] # NULL
        BY <2>1
      <3>2. QED BY <3>1, <1>1, UsedPool DEF Memory
    <2>3. Busy(mem[p], Nodes(p)) = {}
      <3>1. \A u \in args.threads : ArenaOf(u) = p => InHand(u) = {}
        BY <1>1 DEF InUse
      <3>2. QED BY <3>1, <1>1 DEF Memory, Covered
    <2>4. /\ Nodes(p) = {Base} /\ is_free(mem[p], Base)
          /\ block_size(mem[p], Base) = LargestBlock
      BY <2>2, <2>3, AllFree DEF LargestBlock
    <2>5. ~(block_size(mem[p], Base) >= req[t])
      <3>1. BestFitFound
        BY BestIsFound
      <3>2. Base \in {a \in Nodes(p) : is_free(mem[p], a) /\ block_size(mem[p], a) >= req[t]}
            => best[t] \in Nodes(p)
        BY <1>0, <1>1, <1>2, <3>1 DEF BestFitFound
      <3>3. QED BY <2>4, <3>2, <1>2
    <2>6. req[t] \in Nat
      <3>1. Size \subseteq Nat
        BY BestFitAssumption, IntMax DEF INT_MAX
      <3>2. QED BY <3>1, <2>1
    <2>7. req[t] > LargestBlock
      BY <2>4, <2>5, <2>6 DEF LargestBlock
    <2>8. QED BY <2>1, <2>7
  <1>7. H!Refuse(p)
    BY <1>4, <1>5, <1>6 DEF H!Refuse, HeapInUse, InUse, Refused
  <1>8. QED BY <1>7

LEMMA QuietHeap ==
  ASSUME IInv, NEW t \in args.threads, args' = args, OthersKeep(t), InHand(t)' = InHand(t),
         pc[t] # "null", pc'[t] # "null"
  PROVE  UNCHANGED H!vars
  <1>1. \A u \in Thread : InHand(u)' = InHand(u)
    BY InHandKept DEF OthersKeep
  <1>2. Refused' = Refused
    BY DEF Refused, OthersKeep, Keeps
  <1>3. QED BY <1>1, <1>2, InUseKept, HeapKeeps

\* The other steps give no block and take none.
LEMMA OthersRefine ==
  ASSUME IInv, NEW t \in args.threads,
         \/ CallMalloc(t) \/ StartScan(t) \/ Scan(t) \/ EndScan(t) \/ ReturnBlock(t)
         \/ Abort(t) \/ CallFree(t) \/ StartFind(t) \/ Find(t) \/ ReturnFree(t)
         \/ ThreadExit(t)
  PROVE  UNCHANGED H!vars
  <1> USE DEF Running, GoTo, locals, Return, Segfault
  <1>1. TypeOK /\ t \in Thread
    BY Threads DEF IInv
  <1>2. CASE Abort(t) \/ UNCHANGED <<args, pc, locals, held>>
    <2>1. UNCHANGED <<args, pc, req, current, best, over, previous, ptr, held>>
      BY <1>2 DEF Abort
    <2>2. \A u : InHand(u)' = InHand(u)
      BY <2>1 DEF InHand
    <2>3. Refused' = Refused
      BY <2>1 DEF Refused
    <2>4. QED BY <2>1, <2>2, <2>3, InUseKept, HeapKeeps
  <1>3. CASE ReturnBlock(t)
    <2>1. pc[t] = "allocated" /\ pc'[t] = "idle" /\ args' = args /\ OthersKeep(t)
      BY <1>1, <1>3 DEF ReturnBlock, OthersKeep, Keeps, TypeOK
    <2>2. held'[t] = held[t] \cup {[lo |-> best[t] + HeaderSize, size |-> req[t]]}
      BY <1>1, <1>3 DEF ReturnBlock, TypeOK
    <2>3. InHand(t)' = InHand(t)
      BY <2>1, <2>2 DEF InHand
    <2>4. QED BY <2>1, <2>3, QuietHeap
  <1>4. CASE /\ OthersKeep(t) /\ args' = args /\ held'[t] = held[t]
             /\ {pc[t], pc'[t]} \cap {"allocated", "null"} = {}
    <2>1. InHand(t)' = InHand(t)
      BY <1>4 DEF InHand
    <2>2. QED BY <1>4, <2>1, QuietHeap
  <1>5. CASE CallMalloc(t) \/ EndScan(t) \/ CallFree(t) \/ StartFind(t) \/ ThreadExit(t)
    <2>1. OthersKeep(t) /\ args' = args /\ held'[t] = held[t]
      BY <1>1, <1>5 DEF CallMalloc, EndScan, CallFree, StartFind, ThreadExit,
                        OthersKeep, Keeps, TypeOK
    <2>2. {pc[t], pc'[t]} \cap {"allocated", "null"} = {}
      BY <1>1, <1>5 DEF CallMalloc, EndScan, CallFree, StartFind, ThreadExit, TypeOK
    <2>3. QED BY <2>1, <2>2, <1>4
  <1>6. CASE StartScan(t) \/ ReturnFree(t)
    <2>1. OthersKeep(t) /\ args' = args /\ held'[t] = held[t]
      BY <1>1, <1>6 DEF StartScan, InitAndScan, ReturnFree, OthersKeep, Keeps, TypeOK
    <2>2. {pc[t], pc'[t]} \cap {"allocated", "null"} = {}
      BY <1>1, <1>6 DEF StartScan, InitAndScan, ReturnFree, TypeOK
    <2>3. QED BY <2>1, <2>2, <1>4
  <1>7. CASE Scan(t)
    <2>1. CASE Segfault(t)
      BY <2>1, <1>2
    <2>2. CASE Look(t)
      <3>1. pc[t] = "scan" /\ args' = args /\ held'[t] = held[t]
        BY <1>7, <2>2 DEF Scan, Look
      <3>2. OthersKeep(t)
        BY <1>1, <2>2 DEF Look, OthersKeep, Keeps, TypeOK
      <3>3. pc'[t] \in {"scan", "fit"}
        BY <1>1, <2>2, <3>1 DEF Look, TypeOK
      <3>4. QED BY <3>1, <3>2, <3>3, <1>4
    <2>3. QED BY <1>7, <2>1, <2>2 DEF Scan
  <1>8. CASE Find(t)
    <2>1. CASE Segfault(t)
      BY <2>1, <1>2
    <2>2. CASE ~Segfault(t)
      <3>1. pc[t] = "find" /\ args' = args /\ held'[t] = held[t] /\ pc' = pc
        BY <1>8, <2>2 DEF Find
      <3>2. OthersKeep(t)
        BY <1>1, <1>8, <2>2 DEF Find, OthersKeep, Keeps, TypeOK
      <3>3. QED BY <3>1, <3>2, <1>4
    <2>3. QED BY <2>1, <2>2
  <1>9. QED BY <1>2, <1>3, <1>5, <1>6, <1>7, <1>8

LEMMA StepRefines ==
  ASSUME IInv, IInv', [Next]_vars
  PROVE  [H!Next]_(H!vars)
  <1>1. CASE UNCHANGED vars \/ ProcessExit
    <2>1. UNCHANGED <<args, pc, req, current, best, over, previous, ptr, held>>
      BY <1>1 DEF vars, locals, ProcessExit
    <2>2. \A u : InHand(u)' = InHand(u)
      BY <2>1 DEF InHand
    <2>3. Refused' = Refused
      BY <2>1 DEF Refused
    <2>4. QED BY <2>1, <2>2, <2>3, InUseKept, HeapKeeps
  <1>2. CASE \E t \in args.threads : Step(t)
    <2>1. PICK t \in args.threads : Step(t)
      BY <1>2
    <2>2. CASE Allocate(t)
      BY <2>2, MallocRefines DEF H!Next
    <2>3. CASE Deallocate(t)
      BY <2>3, FreeRefines DEF H!Next
    <2>4. CASE ReturnNull(t)
      BY <2>4, RefuseRefines DEF H!Next
    <2>5. CASE ~(Allocate(t) \/ Deallocate(t) \/ ReturnNull(t))
      BY <2>1, <2>5, OthersRefine DEF Step
    <2>6. QED BY <2>2, <2>3, <2>4, <2>5
  <1>3. QED BY <1>1, <1>2 DEF Next, Ended

LEMMA InitRefines == Init => H!Init
  <1> SUFFICES ASSUME Init PROVE H!Init
    OBVIOUS
  <1>1. \A t \in Thread : InHand(t) = {}
    BY DEF Init, InHand
  <1>2. HeapInUse = [p \in Arena |-> {}]
    BY <1>1 DEF HeapInUse, InUse
  <1>3. ~Refused
    BY DEF Refused, Init
  <1>4. QED BY <1>2, <1>3 DEF H!Init, HeapInUse, InUse, Refused

(* The allocator with its threads implements the abstract heap: a block    *)
(* that my_malloc returns lies in its pool and overlaps no block in use    *)
(* until it is freed, and a pool without any block in use refuses nothing  *)
(* that fits it.                                                           *)
THEOREM AllocatorImplementsHeap == HeaderFits => (Spec => ImplementsHeap)
  <1> SUFFICES ASSUME HeaderFits PROVE Spec => ImplementsHeap
    OBVIOUS
  <1>1. IInv /\ IInv' /\ [Next]_vars => [H!Next]_(H!vars)
    BY StepRefines
  <1>2. Spec => []IInv
    BY InvariantHolds
  <1>3. QED BY <1>1, <1>2, InitRefines, PTL DEF Spec, ImplementsHeap, H!Spec

(* Any two blocks that threads have in one pool, those of one thread as     *)
(* those of two, are apart.                                                *)
BlocksApart ==
  \A t, u \in Thread : \A b \in InHand(t), c \in InHand(u) :
    ArenaOf(t) = ArenaOf(u) /\ (t # u \/ b # c) => H!Disjoint(b, c)

LEMMA HandsOfThreadsApart == IInv => BlocksApart
  <1> SUFFICES ASSUME IInv, NEW t \in Thread, NEW u \in Thread,
                      NEW b \in InHand(t), NEW c \in InHand(u),
                      ArenaOf(t) = ArenaOf(u), t # u \/ b # c
               PROVE  H!Disjoint(b, c)
    BY DEF BlocksApart
  <1>1. t \in args.threads /\ u \in args.threads
    BY OnlyCreated
  <1>2. b # c
    BY <1>1 DEF IInv, Memory, OneEach
  <1>3. ArenaOf(t) \in Arena
    BY <1>1, Threads DEF IInv
  <1>4. b \in InUse(ArenaOf(t)) /\ c \in InUse(ArenaOf(t))
    BY InUseWho
  <1>5. QED BY <1>2, <1>3, <1>4, HandsAreApart DEF HandsApart

(* At no time do two threads, or a thread twice, have the same word of a   *)
(* pool: what a thread writes into the segment that my_malloc gave it is   *)
(* overwritten by no thread's segment until it is freed.  (The header of   *)
(* the next block is no segment: SegmentHasItsSize is about that.)         *)
THEOREM BlocksNeverOverlap == HeaderFits => (Spec => []BlocksApart)
  BY InvariantHolds, HandsOfThreadsApart, PTL
=============================================================================
