------------------------- MODULE PhilosophersProofs -------------------------
(***************************************************************************)
(* Proofs about Philosophers, for every number of philosophers above one   *)
(* and every number of meals.  IInv (typing, exact ownership and the loop  *)
(* counters) is inductive; mutual exclusion, the absence of circular waits *)
(* and the orderly shutdown follow from it.                                *)
(***************************************************************************)
EXTENDS Philosophers, TLAPS

USE PhilosophersAssumption

\* The left chopstick without modular arithmetic.
LEMMA LeftChopstick ==
  ASSUME NEW n \in Philosopher
  PROVE  LEFT_CHOPSTICK(n) = IF n = NUM_PHILOSOPHER - 1 THEN 0 ELSE n + 1
  <1>1. CASE n = NUM_PHILOSOPHER - 1
    BY <1>1 DEF Philosopher, LEFT_CHOPSTICK
  <1>2. CASE n # NUM_PHILOSOPHER - 1
    <2>1. n + 1 \in 0 .. NUM_PHILOSOPHER - 1
      BY <1>2 DEF Philosopher
    <2>2. QED BY <2>1, <1>2 DEF LEFT_CHOPSTICK
  <1>3. QED BY <1>1, <1>2

\* Both chopsticks of a philosopher exist, they are two different ones, and
\* the order in which dine() locks them is one of the two possible orders.
LEMMA TwoChopsticks ==
  ASSUME NEW n \in Philosopher
  PROVE  /\ First(n) \in Philosopher
         /\ Second(n) \in Philosopher
         /\ First(n) # Second(n)
         /\ \/ First(n) = LEFT_CHOPSTICK(n) /\ Second(n) = RIGHT_CHOPSTICK(n)
            \/ First(n) = RIGHT_CHOPSTICK(n) /\ Second(n) = LEFT_CHOPSTICK(n)
  BY LeftChopstick DEF First, Second, RIGHT_CHOPSTICK, Philosopher, IsOdd

\* NoOne is no philosopher.
LEMMA NoOneIsNobody == NoOne \notin Philosopher
  BY DEF NoOne, Philosopher

-----------------------------------------------------------------------------
\* The inductive invariant.
IInv == TypeOK /\ OwnershipExact /\ Bookkeeping

LEMMA InitIInv == Init => IInv
  <1> SUFFICES ASSUME Init PROVE IInv
    OBVIOUS
  <1>1. TypeOK
    <2>1. /\ created \in 0 .. NUM_PHILOSOPHER
          /\ joined \in 0 .. NUM_PHILOSOPHER
          /\ 0 \in 0 .. EAT_ITERATIONS
      BY DEF Init
    <2>2. /\ chopstick \in [Philosopher -> Philosopher \cup {NoOne}]
          /\ pc \in [Philosopher -> {"first", "second", "eating", "putRight", "done"}]
          /\ meals \in [Philosopher -> 0 .. EAT_ITERATIONS]
      BY <2>1 DEF Init
    <2>3. destroyed \in BOOLEAN
      BY DEF Init
    <2>4. QED BY <2>1, <2>2, <2>3 DEF TypeOK
  <1>2. OwnershipExact
    BY NoOneIsNobody DEF Init, OwnershipExact, Holds
  <1>3. Bookkeeping
    BY DEF Init, Bookkeeping, Philosopher
  <1>4. QED BY <1>1, <1>2, <1>3 DEF IInv

\* A philosopher that takes a free mutex c and from then on holds exactly c
\* on top of what it held keeps the ownership exact.
LEMMA TakeKeepsOwnership ==
  ASSUME IInv, NEW n \in Philosopher, NEW c \in Philosopher,
         chopstick[c] = NoOne,
         chopstick' = [chopstick EXCEPT ![c] = n],
         \A d \in Philosopher : Holds(n, d)' <=> Holds(n, d) \/ d = c,
         \A m \in Philosopher \ {n} : pc'[m] = pc[m]
  PROVE  OwnershipExact'
  <1> SUFFICES ASSUME NEW m \in Philosopher, NEW d \in Philosopher
               PROVE  chopstick'[d] = m <=> Holds(m, d)'
    BY DEF OwnershipExact
  <1>1. chopstick[d] = m <=> Holds(m, d)
    BY DEF IInv, OwnershipExact
  <1>2. chopstick'[d] = IF d = c THEN n ELSE chopstick[d]
    BY DEF IInv, TypeOK
  <1>3. CASE m = n
    BY <1>1, <1>2, <1>3
  <1>4. CASE m # n
    <2>1. Holds(m, d)' <=> Holds(m, d)
      BY <1>4 DEF Holds
    <2>2. chopstick[c] # m
      BY NoOneIsNobody
    <2>3. QED BY <1>1, <1>2, <1>4, <2>1, <2>2
  <1>5. QED BY <1>3, <1>4

\* A philosopher that gives back a mutex c that it holds, and from then on
\* holds what it held without c, keeps the ownership exact.
LEMMA PutKeepsOwnership ==
  ASSUME IInv, NEW n \in Philosopher, NEW c \in Philosopher,
         Holds(n, c),
         chopstick' = [chopstick EXCEPT ![c] = NoOne],
         \A d \in Philosopher : Holds(n, d)' <=> Holds(n, d) /\ d # c,
         \A m \in Philosopher \ {n} : pc'[m] = pc[m]
  PROVE  OwnershipExact'
  <1> SUFFICES ASSUME NEW m \in Philosopher, NEW d \in Philosopher
               PROVE  chopstick'[d] = m <=> Holds(m, d)'
    BY DEF OwnershipExact
  <1>1. chopstick[d] = m <=> Holds(m, d)
    BY DEF IInv, OwnershipExact
  <1>2. chopstick'[d] = IF d = c THEN NoOne ELSE chopstick[d]
    BY DEF IInv, TypeOK
  <1>3. NoOne # m
    BY NoOneIsNobody
  <1>4. CASE m = n
    BY <1>1, <1>2, <1>3, <1>4
  <1>5. CASE m # n
    <2>1. Holds(m, d)' <=> Holds(m, d)
      BY <1>5 DEF Holds
    <2>2. chopstick[c] = n
      BY DEF IInv, OwnershipExact
    <2>3. QED BY <1>1, <1>2, <1>3, <1>5, <2>1, <2>2
  <1>6. QED BY <1>4, <1>5

\* Every step of the system keeps the typing, the ownership and the counters.
LEMMA NextIInv == IInv /\ [Next]_vars => IInv'
  <1> SUFFICES ASSUME IInv, [Next]_vars PROVE IInv'
    OBVIOUS
  <1>1. ASSUME NEW n \in Philosopher, TakeFirst(n) PROVE IInv'
    <2> USE <1>1, TwoChopsticks DEF TakeFirst, Running
    <2>1. TypeOK'
      BY DEF IInv, TypeOK
    <2>2. OwnershipExact'
      <3>1. \A d \in Philosopher : Holds(n, d)' <=> Holds(n, d) \/ d = First(n)
        BY DEF IInv, TypeOK, Holds
      <3>2. \A m \in Philosopher \ {n} : pc'[m] = pc[m]
        BY DEF IInv, TypeOK
      <3>3. QED BY <3>1, <3>2, TakeKeepsOwnership
    <2>3. Bookkeeping'
      BY DEF IInv, TypeOK, Bookkeeping
    <2>4. QED BY <2>1, <2>2, <2>3 DEF IInv
  <1>2. ASSUME NEW n \in Philosopher, TakeSecond(n) PROVE IInv'
    <2> USE <1>2, TwoChopsticks DEF TakeSecond, Running
    <2>1. TypeOK'
      BY DEF IInv, TypeOK
    <2>2. OwnershipExact'
      <3>1. \A d \in Philosopher : Holds(n, d)' <=> Holds(n, d) \/ d = Second(n)
        BY DEF IInv, TypeOK, Holds
      <3>2. \A m \in Philosopher \ {n} : pc'[m] = pc[m]
        BY DEF IInv, TypeOK
      <3>3. QED BY <3>1, <3>2, TakeKeepsOwnership
    <2>3. Bookkeeping'
      BY DEF IInv, TypeOK, Bookkeeping
    <2>4. QED BY <2>1, <2>2, <2>3 DEF IInv
  <1>3. ASSUME NEW n \in Philosopher, PutLeft(n) PROVE IInv'
    <2> USE <1>3, TwoChopsticks DEF PutLeft, Running
    <2>1. TypeOK'
      BY DEF IInv, TypeOK
    <2>2. OwnershipExact'
      <3>1. Holds(n, LEFT_CHOPSTICK(n))
        BY DEF Holds
      <3>2. \A d \in Philosopher :
              Holds(n, d)' <=> Holds(n, d) /\ d # LEFT_CHOPSTICK(n)
        BY DEF IInv, TypeOK, Holds
      <3>3. \A m \in Philosopher \ {n} : pc'[m] = pc[m]
        BY DEF IInv, TypeOK
      <3>4. QED BY <3>1, <3>2, <3>3, PutKeepsOwnership
    <2>3. Bookkeeping'
      BY DEF IInv, TypeOK, Bookkeeping
    <2>4. QED BY <2>1, <2>2, <2>3 DEF IInv
  <1>4. ASSUME NEW n \in Philosopher, PutRight(n) PROVE IInv'
    <2> USE <1>4, TwoChopsticks DEF PutRight, Running
    <2>1. meals[n] \in 0 .. EAT_ITERATIONS - 1
      BY DEF IInv, TypeOK, Bookkeeping
    <2>2. TypeOK'
      BY <2>1 DEF IInv, TypeOK
    <2>3. OwnershipExact'
      <3>1. Holds(n, RIGHT_CHOPSTICK(n))
        BY DEF Holds
      <3>2. \A d \in Philosopher :
              Holds(n, d)' <=> Holds(n, d) /\ d # RIGHT_CHOPSTICK(n)
        BY DEF IInv, TypeOK, Holds
      <3>3. \A m \in Philosopher \ {n} : pc'[m] = pc[m]
        BY DEF IInv, TypeOK
      <3>4. QED BY <3>1, <3>2, <3>3, PutKeepsOwnership
    <2>4. Bookkeeping'
      BY <2>1 DEF IInv, TypeOK, Bookkeeping
    <2>5. QED BY <2>2, <2>3, <2>4 DEF IInv
  <1>5. CASE Main
    <2> USE <1>5 DEF Main, CreateThread, JoinThread, DestroyMutexes
    <2>1. TypeOK'
      <3>1. /\ chopstick' = chopstick
            /\ pc' = pc
            /\ meals' = meals
        OBVIOUS
      <3>2. created' \in 0 .. NUM_PHILOSOPHER /\ joined' \in 0 .. NUM_PHILOSOPHER
        BY DEF IInv, TypeOK
      <3>3. destroyed' \in BOOLEAN
        BY Zenon DEF IInv, TypeOK
      <3>4. QED BY <3>1, <3>2, <3>3 DEF IInv, TypeOK
    <2>2. OwnershipExact'
      BY DEF IInv, OwnershipExact, Holds
    <2>3. Bookkeeping'
      BY DEF IInv, TypeOK, Bookkeeping, Philosopher
    <2>4. QED BY <2>1, <2>2, <2>3 DEF IInv
  <1>6. CASE UNCHANGED vars
    BY <1>6 DEF vars, IInv, TypeOK, OwnershipExact, Holds, Bookkeeping
  <1>7. QED
    BY <1>1, <1>2, <1>3, <1>4, <1>5, <1>6 DEF Next, Exited, Dine

(* The inductive invariant holds in every reachable state: typing, exact   *)
(* ownership of the mutexes, and loop counters that agree with the threads'*)
(* positions.                                                              *)
THEOREM InvariantHolds == Spec => []IInv
  BY InitIInv, NextIInv, PTL DEF Spec

(* Variables keep their types; in particular nobody eats more often than   *)
(* EAT_ITERATIONS times.                                                   *)
THEOREM TypeCorrect == Spec => []TypeOK
  <1>1. IInv => TypeOK
    BY DEF IInv
  <1>2. QED BY <1>1, InvariantHolds, PTL

(* A mutex is owned by a philosopher exactly while its position in dine()  *)
(* says so.                                                                *)
THEOREM OwnershipIsExact == Spec => []OwnershipExact
  <1>1. IInv => OwnershipExact
    BY DEF IInv
  <1>2. QED BY <1>1, InvariantHolds, PTL

(* Mutual exclusion: two philosophers with a chopstick in common do not    *)
(* eat at the same time, whatever the size of the table.                   *)
THEOREM MutualExclusion == Spec => []NeighboursDontEatTogether
  <1>1. IInv => NeighboursDontEatTogether
    <2> SUFFICES ASSUME IInv,
                        NEW n \in Philosopher, NEW m \in Philosopher,
                        n # m, pc[n] = "eating", pc[m] = "eating",
                        NEW c \in {First(n), Second(n)} \cap {First(m), Second(m)}
                 PROVE  FALSE
      BY DEF NeighboursDontEatTogether
    <2>1. c \in Philosopher
      BY TwoChopsticks
    <2>2. Holds(n, c) /\ Holds(m, c)
      BY DEF Holds
    <2>3. chopstick[c] = n /\ chopstick[c] = m
      BY <2>1, <2>2 DEF IInv, OwnershipExact
    <2>4. QED BY <2>3
  <1>2. QED BY <1>1, InvariantHolds, PTL

(* The mutexes are destroyed after the last meal and while nobody holds    *)
(* one of them.                                                            *)
THEOREM OrderlyShutdown == Spec => []DestroyedWhenDone
  <1>1. IInv => DestroyedWhenDone
    <2> SUFFICES ASSUME IInv, destroyed, NEW n \in Philosopher
                 PROVE  /\ chopstick[n] = NoOne
                        /\ pc[n] = "done"
                        /\ meals[n] = EAT_ITERATIONS
      BY DEF DestroyedWhenDone
    <2>1. \A m \in Philosopher : pc[m] = "done"
      BY DEF IInv, Bookkeeping, Philosopher
    <2>2. \A m \in Philosopher : chopstick[n] # m
      BY <2>1 DEF IInv, OwnershipExact, Holds
    <2>3. chopstick[n] = NoOne
      BY <2>2 DEF IInv, TypeOK
    <2>4. QED BY <2>1, <2>3 DEF IInv, Bookkeeping
  <1>2. QED BY <1>1, InvariantHolds, PTL

-----------------------------------------------------------------------------
(* The argument against deadlock.  A chopstick is the second one of a and  *)
(* the first one of b only at one place of the table: where the numbering  *)
(* closes, and there only when the number of philosophers is odd.          *)
LEMMA ChainOnlyWhereTableCloses ==
  ASSUME NEW a \in Philosopher, NEW b \in Philosopher, Second(a) = First(b)
  PROVE  a = NUM_PHILOSOPHER - 1 /\ b = 0
  <1>1. /\ LEFT_CHOPSTICK(a) = IF a = NUM_PHILOSOPHER - 1 THEN 0 ELSE a + 1
        /\ LEFT_CHOPSTICK(b) = IF b = NUM_PHILOSOPHER - 1 THEN 0 ELSE b + 1
    BY LeftChopstick
  <1>2. a # b
    BY TwoChopsticks
  <1>3. ~IsOdd(a)
    BY <1>1, <1>2 DEF First, Second, RIGHT_CHOPSTICK, Philosopher, IsOdd
  <1>4. ~IsOdd(b)
    BY <1>1, <1>2, <1>3 DEF First, Second, RIGHT_CHOPSTICK, Philosopher, IsOdd
  <1>5. b = LEFT_CHOPSTICK(a)
    BY <1>3, <1>4 DEF First, Second, RIGHT_CHOPSTICK
  <1>6. QED BY <1>1, <1>3, <1>4, <1>5 DEF Philosopher, IsOdd

\* Who is blocked and is waited for has its first chopstick, the wanted one.
LEMMA BlockedHolder ==
  ASSUME IInv, NEW n \in Philosopher, Blocked(n)
  PROVE  /\ WaitsFor(n) \in Philosopher
         /\ Blocked(WaitsFor(n)) =>
              /\ Wanted(n) = First(WaitsFor(n))
              /\ Wanted(WaitsFor(n)) = Second(WaitsFor(n))
  <1>1. Wanted(n) \in Philosopher
    BY TwoChopsticks DEF Wanted
  <1>2. WaitsFor(n) \in Philosopher
    BY <1>1 DEF IInv, TypeOK, Blocked, WaitsFor
  <1>3. Holds(WaitsFor(n), Wanted(n))
    BY <1>1, <1>2 DEF IInv, OwnershipExact, WaitsFor
  <1>4. ASSUME Blocked(WaitsFor(n))
        PROVE  /\ Wanted(n) = First(WaitsFor(n))
               /\ Wanted(WaitsFor(n)) = Second(WaitsFor(n))
    BY <1>3, <1>4 DEF Blocked, Holds, Wanted
  <1>5. QED BY <1>2, <1>4

(* No deadlock, not even a partial one: a chain of philosophers that wait  *)
(* for each other has at most three waits, whatever the size of the table. *)
THEOREM DeadlockFree == Spec => []NoCircularWait
  <1>1. IInv => NoCircularWait
    <2> SUFFICES ASSUME IInv, NEW n \in Philosopher, Blocked(n),
                        Blocked(WaitsFor(n)),
                        Blocked(WaitsFor(WaitsFor(n))),
                        Blocked(WaitsFor(WaitsFor(WaitsFor(n))))
                 PROVE  FALSE
      BY DEF NoCircularWait
    <2> DEFINE one   == WaitsFor(n)
               two   == WaitsFor(one)
               three == WaitsFor(two)
    <2>1. one \in Philosopher /\ Wanted(one) = Second(one)
      BY BlockedHolder
    <2>2. two \in Philosopher /\ Second(one) = First(two) /\ Wanted(two) = Second(two)
      BY <2>1, BlockedHolder
    <2>3. three \in Philosopher /\ Second(two) = First(three)
      BY <2>2, BlockedHolder
    <2>4. two = 0 /\ two = NUM_PHILOSOPHER - 1
      BY <2>1, <2>2, <2>3, ChainOnlyWhereTableCloses
    <2>5. QED BY <2>4
  <1>2. QED BY <1>1, InvariantHolds, PTL
=============================================================================
