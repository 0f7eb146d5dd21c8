--------------------------- MODULE PollQueueProofs ---------------------------
(***************************************************************************)
(* Proofs about PollQueue, for every number of consumers and of ones, and  *)
(* so for both programs that the module stands for.  The assertion of      *)
(* myqueue_pop rests on the lock alone: nobody else is between a lock and  *)
(* an unlock while a consumer is between its test and its pop.  That the   *)
(* program implements WorkQueue rests on the order of the queue, on the    *)
(* consumers' sums, which the ones popped so far add up to, and on main's  *)
(* joining nobody who may still add to his sum.                            *)
(***************************************************************************)
EXTENDS PollQueue, FiniteSetTheorems, WellFoundedInduction, TLAPS

USE PollAssumption

\* The lock is held exactly by the thread between lock and unlock.
LockExact ==
  /\ \A c \in Consumer : owner = c <=> pc[c] \in {"test", "pop", "unlock"}
  /\ owner = MainThread <=> mainPc \in {"push", "unlock"}

\* main has a thread to create, a value to push or a thread to join as long
\* as it is at those places.
Bookkeeping ==
  /\ mainPc = "create" => created < NumConsumers
  /\ mainPc \in {"create", "lock"} => i = 0
  /\ mainPc = "push" => i < Ones + NumConsumers
  /\ mainPc \in {"create", "lock", "push", "unlock"} => joined = 0
  /\ mainPc = "join" => joined < NumConsumers

\* The inductive invariant.
IInv == TypeOK /\ LockExact /\ PopFindsValue /\ Bookkeeping

-----------------------------------------------------------------------------
(* The names of the threads are told apart.                                *)
LEMMA ThreadNames ==
  /\ MainThread \notin Consumer
  /\ NoOne \notin Consumer
  /\ NoOne # MainThread
  BY DEF MainThread, NoOne, Consumer

\* The queue after a push and after a pop.
LEMMA QueueOperations ==
  ASSUME NEW s \in Seq({0, 1})
  PROVE  /\ \A v \in {0, 1} : /\ myqueue_push(s, v) \in Seq({0, 1})
                              /\ ~myqueue_is_empty(myqueue_push(s, v))
         /\ ~myqueue_is_empty(s) => /\ myqueue_first(s) \in {0, 1}
                                    /\ myqueue_rest(s) \in Seq({0, 1})
  <1>1. \A v \in {0, 1} : Len(Append(s, v)) = Len(s) + 1 /\ Len(s) \in Nat
    OBVIOUS
  <1>2. \A v \in {0, 1} : Append(s, v) # <<>>
    BY <1>1
  <1>3. QED
    BY <1>2 DEF myqueue_is_empty, myqueue_push, myqueue_first, myqueue_rest

LEMMA InitIInv == Init => IInv
  BY ThreadNames DEF Init, IInv, TypeOK, LockExact, PopFindsValue, Bookkeeping, myqueue_init

-----------------------------------------------------------------------------
(* The steps of a consumer.                                                *)

LEMMA ConsumerIInv ==
  ASSUME IInv, NEW c \in Consumer, ThreadWork(c)
  PROVE  IInv'
  <1> USE DEF At, GoTo, mainVars
  <1>1. ASSUME Lock(c) PROVE IInv'
    <2> USE <1>1, ThreadNames DEF Lock
    <2>1. TypeOK'
      BY DEF IInv, TypeOK
    <2>2. LockExact'
      BY DEF IInv, TypeOK, LockExact
    <2>3. PopFindsValue'
      BY DEF IInv, TypeOK, LockExact, PopFindsValue
    <2>4. Bookkeeping'
      BY DEF IInv, TypeOK, Bookkeeping
    <2>5. QED BY <2>1, <2>2, <2>3, <2>4 DEF IInv
  <1>2. ASSUME FindEmpty(c) PROVE IInv'
    <2> USE <1>2, ThreadNames DEF FindEmpty
    <2>1. TypeOK'
      BY DEF IInv, TypeOK
    <2>2. LockExact'
      BY DEF IInv, TypeOK, LockExact
    <2>3. PopFindsValue'
      BY DEF IInv, TypeOK, LockExact, PopFindsValue
    <2>4. Bookkeeping'
      BY DEF IInv, TypeOK, Bookkeeping
    <2>5. QED BY <2>1, <2>2, <2>3, <2>4 DEF IInv
  <1>3. ASSUME FindValue(c) PROVE IInv'
    <2> USE <1>3, ThreadNames DEF FindValue
    <2>1. TypeOK'
      BY DEF IInv, TypeOK
    <2>2. LockExact'
      BY DEF IInv, TypeOK, LockExact
    <2>3. PopFindsValue'
      BY DEF IInv, TypeOK, LockExact, PopFindsValue
    <2>4. Bookkeeping'
      BY DEF IInv, TypeOK, Bookkeeping
    <2>5. QED BY <2>1, <2>2, <2>3, <2>4 DEF IInv
  <1>4. ASSUME Pop(c) PROVE IInv'
    <2> USE <1>4, ThreadNames DEF Pop
    <2>a. myqueue_first(q) \in {0, 1} /\ q' \in Seq({0, 1})
      BY QueueOperations DEF IInv, TypeOK
    <2>1. TypeOK'
      BY <2>a DEF IInv, TypeOK
    <2>2. LockExact'
      BY DEF IInv, TypeOK, LockExact
    <2>3. PopFindsValue'
      BY <2>a DEF IInv, TypeOK, LockExact, PopFindsValue
    <2>4. Bookkeeping'
      BY DEF IInv, TypeOK, Bookkeeping
    <2>5. QED BY <2>1, <2>2, <2>3, <2>4 DEF IInv
  <1>5. ASSUME Unlock(c) PROVE IInv'
    <2> USE <1>5, ThreadNames DEF Unlock
    <2>1. TypeOK'
      BY DEF IInv, TypeOK
    <2>2. LockExact'
      BY DEF IInv, TypeOK, LockExact
    <2>3. PopFindsValue'
      BY DEF IInv, TypeOK, LockExact, PopFindsValue
    <2>4. Bookkeeping'
      BY DEF IInv, TypeOK, Bookkeeping
    <2>5. QED BY <2>1, <2>2, <2>3, <2>4 DEF IInv
  <1>6. QED BY <1>1, <1>2, <1>3, <1>4, <1>5 DEF ThreadWork

-----------------------------------------------------------------------------
(* The steps of main.                                                      *)

LEMMA MainIInv ==
  ASSUME IInv, Main
  PROVE  IInv'
  <1> USE DEF consumerVars
  <1>1. ASSUME CreateThread PROVE IInv'
    <2> USE <1>1, ThreadNames DEF CreateThread
    <2>1. TypeOK'
      BY DEF IInv, TypeOK, Bookkeeping
    <2>2. LockExact'
      BY DEF IInv, TypeOK, LockExact
    <2>3. PopFindsValue'
      BY DEF IInv, TypeOK, LockExact, PopFindsValue
    <2>4. Bookkeeping'
      BY DEF IInv, TypeOK, Bookkeeping
    <2>5. QED BY <2>1, <2>2, <2>3, <2>4 DEF IInv
  <1>2. ASSUME CreateFails PROVE IInv'
    <2> USE <1>2, ThreadNames DEF CreateFails
    <2>1. TypeOK'
      BY DEF IInv, TypeOK, Bookkeeping
    <2>2. LockExact'
      BY DEF IInv, TypeOK, LockExact
    <2>3. PopFindsValue'
      BY DEF IInv, TypeOK, LockExact, PopFindsValue
    <2>4. Bookkeeping'
      BY DEF IInv, TypeOK, Bookkeeping
    <2>5. QED BY <2>1, <2>2, <2>3, <2>4 DEF IInv
  <1>3. ASSUME MainLock PROVE IInv'
    <2> USE <1>3, ThreadNames DEF MainLock
    <2>1. TypeOK'
      BY DEF IInv, TypeOK, Bookkeeping
    <2>2. LockExact'
      BY DEF IInv, TypeOK, LockExact
    <2>3. PopFindsValue'
      BY DEF IInv, TypeOK, LockExact, PopFindsValue
    <2>4. Bookkeeping'
      BY DEF IInv, TypeOK, Bookkeeping
    <2>5. QED BY <2>1, <2>2, <2>3, <2>4 DEF IInv
  <1>4. ASSUME Push PROVE IInv'
    <2> USE <1>4, ThreadNames DEF Push
    <2>a. q' \in Seq({0, 1}) /\ ~myqueue_is_empty(q')
      BY QueueOperations DEF IInv, TypeOK
    <2>1. TypeOK'
      BY <2>a DEF IInv, TypeOK, Bookkeeping
    <2>2. LockExact'
      BY DEF IInv, TypeOK, LockExact
    <2>3. PopFindsValue'
      BY <2>a DEF IInv, TypeOK, LockExact, PopFindsValue
    <2>4. Bookkeeping'
      BY DEF IInv, TypeOK, Bookkeeping
    <2>5. QED BY <2>1, <2>2, <2>3, <2>4 DEF IInv
  <1>5. ASSUME MainUnlock PROVE IInv'
    <2> USE <1>5, ThreadNames DEF MainUnlock
    <2>1. TypeOK'
      BY DEF IInv, TypeOK, Bookkeeping
    <2>2. LockExact'
      BY DEF IInv, TypeOK, LockExact
    <2>3. PopFindsValue'
      BY DEF IInv, TypeOK, LockExact, PopFindsValue
    <2>4. Bookkeeping'
      BY DEF IInv, TypeOK, Bookkeeping
    <2>5. QED BY <2>1, <2>2, <2>3, <2>4 DEF IInv
  <1>6. ASSUME Join PROVE IInv'
    <2> USE <1>6, ThreadNames DEF Join
    <2>a. sum[joined] \in Nat
      BY DEF IInv, TypeOK, Bookkeeping, Consumer
    <2>1. TypeOK'
      BY <2>a DEF IInv, TypeOK, Bookkeeping
    <2>2. LockExact'
      BY DEF IInv, TypeOK, LockExact
    <2>3. PopFindsValue'
      BY <2>a DEF IInv, TypeOK, LockExact, PopFindsValue
    <2>4. Bookkeeping'
      BY DEF IInv, TypeOK, Bookkeeping
    <2>5. QED BY <2>1, <2>2, <2>3, <2>4 DEF IInv
  <1>7. QED BY <1>1, <1>2, <1>3, <1>4, <1>5, <1>6 DEF Main

LEMMA NextIInv == IInv /\ [Next]_vars => IInv'
  <1> SUFFICES ASSUME IInv, [Next]_vars PROVE IInv'
    OBVIOUS
  <1>1. CASE UNCHANGED vars
    BY <1>1 DEF vars, consumerVars, mainVars, IInv, TypeOK, LockExact,
                PopFindsValue, Bookkeeping
  <1>2. CASE Main
    BY <1>2, MainIInv
  <1>3. CASE \E c \in Consumer : ThreadWork(c)
    BY <1>3, ConsumerIInv
  <1>4. QED BY <1>1, <1>2, <1>3 DEF Next, Exited

(* The inductive invariant holds in every reachable state.                 *)
THEOREM InvariantHolds == Spec => []IInv
  BY InitIInv, NextIInv, PTL DEF Spec

(* The variables keep their types: main pushes and joins as often as it    *)
(* should, and what is popped is a zero or a one.                          *)
THEOREM TypeCorrect == Spec => []TypeOK
  <1>1. IInv => TypeOK
    BY DEF IInv
  <1>2. QED BY <1>1, InvariantHolds, PTL

(* The lock is held exactly by the thread in its critical section.         *)
THEOREM LockIsExact == Spec => []LockExact
  <1>1. IInv => LockExact
    BY DEF IInv
  <1>2. QED BY <1>1, InvariantHolds, PTL

(* What a consumer has seen in the queue is still there when it pops: the  *)
(* assertion of myqueue_pop never fails.                                   *)
THEOREM PopAlwaysFinds == Spec => []PopFindsValue
  <1>1. IInv => PopFindsValue
    BY DEF IInv
  <1>2. QED BY <1>1, InvariantHolds, PTL

-----------------------------------------------------------------------------
(* The queue is first in, first out, and the consumers' sums are those of  *)
(* the ones among the popped values.                                       *)

\* What main pushes in round n, and the number of the values popped so far.
Value(n) == IF n >= Ones THEN 0 ELSE 1
Popped == i - Len(q)
Least(a, b) == IF a < b THEN a ELSE b

\* The queue is what has been pushed and not popped, and one consumer has
\* been told to stop for every zero among the rest.
Fifo ==
  /\ Popped \in Nat
  /\ \A k \in 1 .. Len(q) : q[k] = Value(Popped + k - 1)
  /\ Cardinality(Stopped) = IF Popped > Ones THEN Popped - Ones ELSE 0

\* A consumer runs until it has had its zero, and main has joined only
\* consumers that have ended.
Ending ==
  /\ \A c \in Consumer : /\ pc[c] \in {"lock", "test", "pop"} => nextValue[c] # 0
                         /\ pc[c] = "done" => nextValue[c] = 0
                         /\ c < joined => pc[c] = "done"
  /\ mainPc = "done" => joined = NumConsumers

\* f[n] is the sum of s[0] to s[n - 1].
AddsUp(f, s) ==
  /\ f \in [0 .. NumConsumers -> Nat]
  /\ f[0] = 0
  /\ \A c \in Consumer : f[c + 1] = f[c] + s[c]

\* Every one that has been popped is in one sum, and main has added up the
\* sums of the consumers that it has joined.
Sums ==
  \E f : /\ AddsUp(f, sum)
         /\ f[joined] = totalSum
         /\ f[NumConsumers] = Least(Popped, Ones)

\* What the refinement rests on; inductive together with IInv.
WInv == Fifo /\ Ending /\ Sums

LEMMA FiniteConsumers ==
  /\ IsFiniteSet(Consumer)
  /\ Cardinality(Consumer) = NumConsumers
  <1>1. IsFiniteSet(Consumer)
    BY FS_Interval DEF Consumer
  <1>2. Cardinality(Consumer) = IF 0 > NumConsumers - 1 THEN 0 ELSE NumConsumers - 1 - 0 + 1
    BY FS_Interval DEF Consumer
  <1>3. QED BY <1>1, <1>2

\* The counts are numbers.
LEMMA Numbers ==
  ASSUME IInv
  PROVE  /\ Len(q) \in Nat /\ i \in Nat /\ Popped \in Int /\ i = Popped + Len(q)
         /\ IsFiniteSet(Stopped) /\ Cardinality(Stopped) \in Nat
  <1>1. Len(q) \in Nat /\ i \in Nat
    BY DEF IInv, TypeOK
  <1>2. IsFiniteSet(Stopped) /\ Cardinality(Stopped) \in Nat
    BY FiniteConsumers, FS_Subset, FS_CardinalityType DEF Stopped
  <1>3. QED BY <1>1, <1>2 DEF Popped

LEMMA InitWInv == Init => WInv
  <1> SUFFICES ASSUME Init PROVE WInv
    OBVIOUS
  <1>1. q = <<>> /\ Len(q) = 0 /\ i = 0 /\ Popped = 0
    <2>1. q = <<>>
      BY DEF Init, myqueue_init
    <2>2. Len(q) = 0
      BY <2>1
    <2>3. i = 0
      BY DEF Init
    <2>4. Popped = 0
      BY <2>2, <2>3 DEF Popped
    <2>5. QED BY <2>1, <2>2, <2>3, <2>4
  <1>2. Stopped = {}
    BY DEF Init, Stopped
  <1>3. Fifo
    BY <1>1, <1>2, FS_EmptySet DEF Fifo
  <1>4. Ending
    BY DEF Init, Ending, Consumer
  <1>5. Sums
    <2> DEFINE f == [n \in 0 .. NumConsumers |-> 0]
    <2>1. AddsUp(f, sum)
      BY DEF AddsUp, Init, Consumer
    <2>2. f[joined] = totalSum /\ f[NumConsumers] = Least(Popped, Ones)
      BY <1>1 DEF Init, Least
    <2>3. QED BY <2>1, <2>2 DEF Sums
  <1>6. QED BY <1>3, <1>4, <1>5 DEF WInv

\* What a pop does to the queue, the stopped consumers and the sums.
LEMMA PopTakes ==
  ASSUME IInv, WInv, NEW c \in Consumer, Pop(c)
  PROVE  /\ Popped' = Popped + 1
         /\ Popped < Ones => Stopped' = Stopped /\ sum' = [sum EXCEPT ![c] = @ + 1]
         /\ Popped >= Ones => /\ Stopped' = Stopped \cup {c} /\ c \notin Stopped
                              /\ sum' = sum
         /\ Fifo'
  <1>1. q \in Seq({0, 1}) /\ nextValue \in [Consumer -> {-1, 0, 1}] /\ sum \in [Consumer -> Nat]
    BY DEF IInv, TypeOK
  <1>2. /\ q' = Tail(q) /\ Len(q) > 0 /\ i' = i
        /\ nextValue' = [nextValue EXCEPT ![c] = q[1]]
        /\ sum' = [sum EXCEPT ![c] = @ + q[1]]
    BY <1>1 DEF Pop, mainVars, myqueue_first, myqueue_rest, myqueue_is_empty
  <1>3. Len(q') = Len(q) - 1 /\ \A k \in 1 .. Len(q') : q'[k] = q[k + 1]
    BY <1>1, <1>2
  <1>4. Popped' = Popped + 1 /\ Popped \in Nat
    BY <1>2, <1>3, Numbers DEF Popped, WInv, Fifo
  <1>5. nextValue[c] # 0
    BY DEF Pop, At, WInv, Ending
  <1>6. q[1] = Value(Popped)
    <2>1. 1 \in 1 .. Len(q) /\ Popped + 1 - 1 = Popped
      BY <1>2, <1>4, Numbers
    <2>2. QED BY <2>1 DEF WInv, Fifo
  <1>7. ASSUME Popped < Ones
        PROVE  Stopped' = Stopped /\ sum' = [sum EXCEPT ![c] = @ + 1]
    <2>1. q[1] = 1
      BY <1>4, <1>6, <1>7 DEF Value
    <2>2. Stopped' = Stopped
      BY <2>1, <1>1, <1>2, <1>5 DEF Stopped
    <2>3. QED BY <2>1, <2>2, <1>2
  <1>8. ASSUME Popped >= Ones
        PROVE  Stopped' = Stopped \cup {c} /\ c \notin Stopped /\ sum' = sum
    <2>1. q[1] = 0
      BY <1>4, <1>6, <1>8 DEF Value
    <2>2. Stopped' = Stopped \cup {c} /\ c \notin Stopped
      BY <2>1, <1>1, <1>2, <1>5 DEF Stopped
    <2>3. sum' = sum
      BY <2>1, <1>1, <1>2
    <2>4. QED BY <2>2, <2>3
  <1>9. Fifo'
    <2>1. \A k \in 1 .. Len(q') : q'[k] = Value(Popped' + k - 1)
      <3> SUFFICES ASSUME NEW k \in 1 .. Len(q')
                   PROVE  q'[k] = Value(Popped' + k - 1)
        OBVIOUS
      <3>1. k + 1 \in 1 .. Len(q)
        BY <1>3, Numbers
      <3>2. q'[k] = Value(Popped + (k + 1) - 1)
        BY <3>1, <1>3 DEF WInv, Fifo
      <3>3. Popped + (k + 1) - 1 = Popped' + k - 1
        BY <1>4
      <3>4. QED BY <3>2, <3>3
    <2>2. Cardinality(Stopped') = IF Popped' > Ones THEN Popped' - Ones ELSE 0
      <3>1. CASE Popped < Ones
        BY <3>1, <1>4, <1>7 DEF WInv, Fifo
      <3>2. CASE Popped >= Ones
        <4>1. Cardinality(Stopped') = Cardinality(Stopped) + 1
          BY <3>2, <1>8, Numbers, FS_AddElement
        <4>2. QED BY <4>1, <3>2, <1>4, Numbers DEF WInv, Fifo
      <3>3. QED BY <3>1, <3>2, <1>4
    <2>3. QED BY <1>4, <2>1, <2>2 DEF Fifo
  <1>10. QED BY <1>4, <1>7, <1>8, <1>9

\* One more in the sum of consumer c is one more in every total beyond c.
LEMMA AddOne ==
  ASSUME NEW f, NEW s \in [Consumer -> Nat], AddsUp(f, s), NEW c \in Consumer
  PROVE  \E g : /\ AddsUp(g, [s EXCEPT ![c] = @ + 1])
                /\ \A n \in 0 .. c : g[n] = f[n]
                /\ g[NumConsumers] = f[NumConsumers] + 1
  <1> DEFINE g == [n \in 0 .. NumConsumers |-> IF n > c THEN f[n] + 1 ELSE f[n]]
             t == [s EXCEPT ![c] = @ + 1]
  <1>1. \A n \in 0 .. NumConsumers : f[n] \in Nat
    BY DEF AddsUp
  <1>2. g \in [0 .. NumConsumers -> Nat] /\ g[0] = 0
    BY <1>1 DEF AddsUp, Consumer
  <1>3. \A d \in Consumer : g[d + 1] = g[d] + t[d]
    <2> TAKE d \in Consumer
    <2>1. d \in 0 .. NumConsumers /\ d + 1 \in 0 .. NumConsumers /\ s[d] \in Nat
      BY DEF Consumer
    <2>2. f[d + 1] = f[d] + s[d]
      BY DEF AddsUp
    <2>3. f[d] \in Nat
      BY <2>1, <1>1
    <2>4. CASE d = c
      <3>1. g[d + 1] = f[d + 1] + 1 /\ g[d] = f[d] /\ t[d] = s[d] + 1
        BY <2>1, <2>4 DEF Consumer
      <3>2. QED BY <3>1, <2>1, <2>2, <2>3
    <2>5. CASE d # c
      BY <2>1, <2>2, <2>5, <1>1 DEF Consumer
    <2>6. QED BY <2>4, <2>5
  <1>4. \A n \in 0 .. c : g[n] = f[n]
    BY DEF Consumer
  <1>5. g[NumConsumers] = f[NumConsumers] + 1
    BY DEF Consumer
  <1> HIDE DEF g
  <1>6. QED BY <1>2, <1>3, <1>4, <1>5 DEF AddsUp

LEMMA NextWInv == IInv /\ WInv /\ [Next]_vars => WInv'
  <1> SUFFICES ASSUME IInv, WInv, [Next]_vars PROVE WInv'
    OBVIOUS
  <1>a. /\ q \in Seq({0, 1}) /\ joined \in 0 .. NumConsumers
        /\ pc \in [Consumer -> {"lock", "test", "pop", "unlock", "done"}]
        /\ nextValue \in [Consumer -> {-1, 0, 1}] /\ sum \in [Consumer -> Nat]
    BY DEF IInv, TypeOK
  <1>b. ASSUME q' = q, i' = i, nextValue' = nextValue
        PROVE  Fifo' /\ Popped' = Popped /\ Stopped' = Stopped
    BY <1>b DEF WInv, Fifo, Popped, Stopped
  <1>c. ASSUME Popped' = Popped, sum' = sum, joined' = joined, totalSum' = totalSum
        PROVE  Sums'
    BY <1>c DEF WInv, Sums
  <1>1. ASSUME NEW c \in Consumer, Lock(c) \/ FindEmpty(c) \/ FindValue(c) \/ Unlock(c)
        PROVE  WInv'
    <2>1. /\ q' = q /\ i' = i /\ nextValue' = nextValue /\ sum' = sum
          /\ joined' = joined /\ totalSum' = totalSum /\ mainPc' = mainPc
          /\ pc[c] # "done"
      BY <1>1 DEF Lock, FindEmpty, FindValue, Unlock, mainVars, At
    <2>2. Ending'
      <3>1. \A d \in Consumer : d # c => pc'[d] = pc[d]
        BY <1>1, <1>a DEF Lock, FindEmpty, FindValue, Unlock, GoTo
      <3>2. /\ pc'[c] \in {"lock", "test", "pop"} => nextValue[c] # 0
            /\ pc'[c] = "done" => nextValue[c] = 0
        BY <1>1, <1>a DEF Lock, FindEmpty, FindValue, Unlock, GoTo, At, WInv, Ending
      <3>3. QED BY <3>1, <3>2, <2>1 DEF WInv, Ending
    <2>3. QED BY <2>1, <2>2, <1>b, <1>c DEF WInv
  <1>2. ASSUME NEW c \in Consumer, Pop(c) PROVE WInv'
    <2>1. /\ joined' = joined /\ totalSum' = totalSum /\ mainPc' = mainPc
          /\ pc' = [pc EXCEPT ![c] = "unlock"] /\ pc[c] = "pop"
          /\ nextValue' = [nextValue EXCEPT ![c] = myqueue_first(q)]
      BY <1>2 DEF Pop, mainVars, At, GoTo
    <2>2. Ending'
      BY <2>1, <1>a DEF WInv, Ending
    <2>3. Sums'
      <3>1. PICK f : /\ AddsUp(f, sum) /\ f[joined] = totalSum
                     /\ f[NumConsumers] = Least(Popped, Ones)
        BY DEF WInv, Sums
      <3>2. Popped \in Nat /\ joined \in 0 .. c
        BY <2>1, <1>a DEF WInv, Fifo, Ending, Consumer
      <3>3. CASE Popped < Ones
        <4>1. PICK g : /\ AddsUp(g, [sum EXCEPT ![c] = @ + 1])
                       /\ \A n \in 0 .. c : g[n] = f[n]
                       /\ g[NumConsumers] = f[NumConsumers] + 1
          BY <3>1, <1>a, AddOne
        <4>2. AddsUp(g, sum')
          BY <4>1, <3>3, <1>2, PopTakes
        <4>3. g[NumConsumers] = Least(Popped', Ones)
          BY <4>1, <3>1, <3>2, <3>3, <1>2, PopTakes DEF Least
        <4>4. QED BY <4>1, <4>2, <4>3, <3>1, <3>2, <2>1 DEF Sums
      <3>4. CASE Popped >= Ones
        <4>1. sum' = sum /\ Least(Popped', Ones) = Least(Popped, Ones)
          BY <3>2, <3>4, <1>2, PopTakes DEF Least
        <4>2. QED BY <4>1, <3>1, <2>1 DEF Sums
      <3>5. QED BY <3>2, <3>3, <3>4
    <2>4. QED BY <2>2, <2>3, <1>2, PopTakes DEF WInv
  <1>3. CASE CreateThread \/ CreateFails \/ MainLock \/ MainUnlock
    <2>1. /\ q' = q /\ i' = i /\ nextValue' = nextValue /\ sum' = sum /\ pc' = pc
          /\ joined' = joined /\ totalSum' = totalSum /\ mainPc' # "done"
      BY <1>3 DEF CreateThread, CreateFails, MainLock, MainUnlock, consumerVars
    <2>2. Ending'
      BY <2>1 DEF WInv, Ending
    <2>3. QED BY <2>1, <2>2, <1>b, <1>c DEF WInv
  <1>4. CASE Push
    <2>1. /\ q' = Append(q, Value(i)) /\ i' = i + 1 /\ Stopped' = Stopped
          /\ nextValue' = nextValue /\ sum' = sum /\ pc' = pc
          /\ joined' = joined /\ totalSum' = totalSum /\ mainPc' # "done"
      BY <1>4 DEF Push, consumerVars, myqueue_push, Value, Stopped
    <2>2. /\ Len(q') = Len(q) + 1
          /\ \A k \in 1 .. Len(q) : q'[k] = q[k]
          /\ q'[Len(q) + 1] = Value(i)
      BY <2>1, <1>a
    <2>3. Popped' = Popped /\ Popped \in Nat
      BY <2>1, <2>2, Numbers DEF Popped, WInv, Fifo
    <2>4. \A k \in 1 .. Len(q') : q'[k] = Value(Popped' + k - 1)
      <3> SUFFICES ASSUME NEW k \in 1 .. Len(q')
                   PROVE  q'[k] = Value(Popped' + k - 1)
        OBVIOUS
      <3>1. CASE k \in 1 .. Len(q)
        BY <3>1, <2>2, <2>3 DEF WInv, Fifo
      <3>2. CASE k = Len(q) + 1
        <4>1. Popped' + k - 1 = i
          BY <3>2, <2>3, Numbers
        <4>2. QED BY <4>1, <3>2, <2>2
      <3>3. QED BY <3>1, <3>2, <2>2, Numbers
    <2>5. Fifo'
      BY <2>1, <2>3, <2>4 DEF WInv, Fifo
    <2>6. Ending'
      BY <2>1 DEF WInv, Ending
    <2>7. QED BY <2>1, <2>3, <2>5, <2>6, <1>c DEF WInv
  <1>5. CASE Join
    <2>1. /\ q' = q /\ i' = i /\ nextValue' = nextValue /\ sum' = sum /\ pc' = pc
          /\ joined' = joined + 1 /\ totalSum' = totalSum + sum[joined]
          /\ pc[joined] = "done" /\ joined \in Consumer
          /\ mainPc' = "done" => joined' = NumConsumers
      BY <1>5 DEF Join, consumerVars, IInv, TypeOK, Bookkeeping, Consumer
    <2>2. Ending'
      <3>1. \A d \in Consumer : d < joined' => d < joined \/ d = joined
        BY <2>1, <1>a DEF Consumer
      <3>2. QED BY <2>1, <3>1 DEF WInv, Ending
    <2>3. Sums'
      <3>1. PICK f : /\ AddsUp(f, sum) /\ f[joined] = totalSum
                     /\ f[NumConsumers] = Least(Popped, Ones)
        BY DEF WInv, Sums
      <3>2. f[joined'] = totalSum'
        BY <3>1, <2>1 DEF AddsUp
      <3>3. QED BY <3>1, <3>2, <2>1, <1>b DEF Sums
    <2>4. QED BY <2>1, <2>2, <2>3, <1>b DEF WInv
  <1>6. CASE UNCHANGED vars
    <2>1. /\ q' = q /\ i' = i /\ nextValue' = nextValue /\ sum' = sum /\ pc' = pc
          /\ joined' = joined /\ totalSum' = totalSum /\ mainPc' = mainPc
      BY <1>6 DEF vars, consumerVars, mainVars
    <2>2. Ending'
      BY <2>1 DEF WInv, Ending
    <2>3. QED BY <2>1, <2>2, <1>b, <1>c DEF WInv
  <1>7. QED
    BY <1>1, <1>2, <1>3, <1>4, <1>5, <1>6 DEF Next, Main, ThreadWork, Exited

(* What the refinement rests on holds in every reachable state.            *)
LEMMA WInvariantHolds == Spec => [](IInv /\ WInv)
  BY InitIInv, NextIInv, InitWInv, NextWInv, PTL DEF Spec

-----------------------------------------------------------------------------
(* The program implements WorkQueue.                                       *)

LEMMA LeastNumber ==
  ASSUME NEW S, S \subseteq Nat, S # {}
  PROVE  \E n \in S : \A k \in S : ~(k < n)
  <1> DEFINE R == OpToRel(<, Nat)
  <1>1. IsWellFoundedOn(R, Nat)
    BY NatLessThanWellFounded, Zenon
  <1>2. \A k, n \in Nat : <<k, n>> \in R <=> k < n
    BY DEF OpToRel
  <1> HIDE DEF R
  <1>3. \E n \in S : \A k \in S : ~ (<<k, n>> \in R)
    BY <1>1, WFMin
  <1>4. QED BY <1>2, <1>3

\* The recursion of Total, of which AddsUp is a solution.
Recursion(f, s) ==
  f = [n \in 0 .. NumConsumers |-> IF n = 0 THEN 0 ELSE f[n - 1] + s[n - 1]]

LEMMA AddsUpSolves ==
  ASSUME NEW f, NEW s, AddsUp(f, s)
  PROVE  Recursion(f, s)
  <1>1. \A n \in 0 .. NumConsumers : f[n] = IF n = 0 THEN 0 ELSE f[n - 1] + s[n - 1]
    <2> TAKE n \in 0 .. NumConsumers
    <2>1. CASE n = 0
      BY <2>1 DEF AddsUp
    <2>2. CASE n # 0
      <3>1. n - 1 \in Consumer /\ (n - 1) + 1 = n
        BY <2>2 DEF Consumer
      <3>2. f[(n - 1) + 1] = f[n - 1] + s[n - 1]
        BY <3>1 DEF AddsUp
      <3>3. QED BY <3>1, <3>2, <2>2
    <2>3. QED BY <2>1, <2>2
  <1>2. f = [n \in 0 .. NumConsumers |-> f[n]]
    BY DEF AddsUp
  <1>3. QED BY <1>1, <1>2 DEF Recursion

\* It is the only one.
LEMMA OneSolution ==
  ASSUME NEW f, NEW g, NEW s, Recursion(f, s), Recursion(g, s)
  PROVE  f[NumConsumers] = g[NumConsumers]
  <1> DEFINE S == {n \in 0 .. NumConsumers : f[n] # g[n]}
  <1>1. SUFFICES ASSUME S # {} PROVE FALSE
    BY <1>1
  <1>2. PICK n \in S : \A k \in S : ~(k < n)
    <2>1. S \subseteq Nat
      OBVIOUS
    <2> HIDE DEF S
    <2>2. QED BY <2>1, <1>1, LeastNumber
  <1>3. /\ f[n] = IF n = 0 THEN 0 ELSE f[n - 1] + s[n - 1]
        /\ g[n] = IF n = 0 THEN 0 ELSE g[n - 1] + s[n - 1]
    BY DEF Recursion
  <1>4. n # 0 /\ n - 1 \in 0 .. NumConsumers /\ n - 1 < n
    BY <1>3
  <1>5. f[n - 1] = g[n - 1]
    BY <1>2, <1>4
  <1>6. QED BY <1>3, <1>4, <1>5

LEMMA TotalIs ==
  ASSUME NEW f, AddsUp(f, sum)
  PROVE  WQ!Total = f[NumConsumers]
  <1> DEFINE upTo == CHOOSE g : Recursion(g, sum)
  <1>1. Recursion(f, sum)
    BY AddsUpSolves
  <1>2. Recursion(upTo, sum)
    BY <1>1, Zenon
  <1>3. WQ!Total = upTo[NumConsumers]
    BY Zenon DEF WQ!Total, Recursion
  <1> HIDE DEF upTo
  <1>4. QED BY <1>1, <1>2, <1>3, OneSolution

\* The ones that are left are those that have not been popped.
LEMMA LeftIs == IInv /\ WInv => Left = Ones - Least(Popped, Ones)
  <1> SUFFICES ASSUME IInv, WInv PROVE Left = Ones - Least(Popped, Ones)
    OBVIOUS
  <1> DEFINE m == IF i <= Ones THEN Len(q)
                  ELSE IF Popped >= Ones THEN 0 ELSE Ones - Popped
  <1>1. Popped \in Nat /\ m \in Nat /\ m <= Len(q)
    BY Numbers DEF WInv, Fifo
  <1>2. \A k \in 1 .. Len(q) : q[k] = IF k <= m THEN 1 ELSE 0
    <2> SUFFICES ASSUME NEW k \in 1 .. Len(q)
                 PROVE  q[k] = IF k <= m THEN 1 ELSE 0
      OBVIOUS
    <2>1. q[k] = IF Popped + k - 1 >= Ones THEN 0 ELSE 1
      BY DEF WInv, Fifo, Value
    <2>2. Popped + k - 1 >= Ones <=> ~(k <= m)
      BY <1>1, Numbers
    <2>3. QED BY <2>1, <2>2
  <1>3. OnesQueued = m
    <2> HIDE DEF m
    <2>1. {k \in 1 .. Len(q) : q[k] = 1} = 1 .. m
      BY <1>1, <1>2, Numbers
    <2>2. Cardinality(1 .. m) = IF 1 > m THEN 0 ELSE m - 1 + 1
      BY <1>1, FS_Interval
    <2>3. Cardinality(1 .. m) = m
      BY <2>2, <1>1
    <2>4. QED BY <2>1, <2>3 DEF OnesQueued
  <1>4. OnesToPush = IF i < Ones THEN Ones - i ELSE 0
    BY DEF OnesToPush
  <1>5. Ones \in Nat /\ Len(q) \in Nat /\ i \in Nat /\ i = Popped + Len(q)
    BY Numbers
  <1>6. m + OnesToPush = IF Popped < Ones THEN Ones - Popped ELSE 0
    <2>1. CASE i < Ones
      <3>1. OnesToPush = Ones - i /\ m = Len(q) /\ Popped < Ones
        BY <2>1, <1>1, <1>4, <1>5
      <3> HIDE DEF m
      <3>2. QED BY <3>1, <1>1, <1>5
    <2>2. CASE i >= Ones
      <3>1. OnesToPush = 0
        BY <2>2, <1>4, <1>5
      <3>2. m = IF Popped < Ones THEN Ones - Popped ELSE 0
        BY <2>2, <1>1, <1>5
      <3>3. QED BY <3>1, <3>2, <1>1
    <2>3. QED BY <2>1, <2>2, <1>5
  <1> HIDE DEF m
  <1>7. OnesToPush \in Int
    BY <1>4, <1>5
  <1>8. Left = IF Popped < Ones THEN Ones - Popped ELSE 0
    BY <1>1, <1>3, <1>6, <1>7 DEF Left
  <1>9. QED BY <1>1, <1>5, <1>8 DEF Least

LEMMA InitRefines == Init => WQ!Init
  <1> SUFFICES ASSUME Init PROVE WQ!Init
    OBVIOUS
  <1>1. IInv /\ WInv
    BY InitIInv, InitWInv
  <1>2. Left = Ones - Least(Popped, Ones)
    BY <1>1, LeftIs
  <1>3. Len(q) = 0
    BY DEF Init, myqueue_init
  <1>4. i = 0
    BY DEF Init
  <1>5. Left = Ones
    BY <1>2, <1>3, <1>4 DEF Popped, Least
  <1>6. Stopped = {} /\ Outcome = "working"
    BY DEF Init, Stopped, Outcome
  <1>7. QED BY <1>5, <1>6 DEF Init, WQ!Init, WQ!Consumer, Consumer

LEMMA StepRefines ==
  IInv /\ WInv /\ IInv' /\ WInv' /\ [Next]_vars => [WQ!Next]_(WQ!vars)
  <1> SUFFICES ASSUME IInv, WInv, IInv', WInv', [Next]_vars
               PROVE  [WQ!Next]_(WQ!vars)
    OBVIOUS
  <1>a. /\ Left = Ones - Least(Popped, Ones)
        /\ Left' = Ones - Least(Popped', Ones)
    <2>1. (IInv /\ WInv => Left = Ones - Least(Popped, Ones))'
      BY LeftIs, PTL
    <2>2. QED BY <2>1, LeftIs
  <1>b. Popped \in Nat
    BY DEF WInv, Fifo
  <1>c. ASSUME Popped' = Popped, nextValue' = nextValue, sum' = sum, Outcome' = Outcome
        PROVE  UNCHANGED WQ!vars
    BY <1>a, <1>c DEF WQ!vars, Stopped
  <1>1. ASSUME NEW c \in Consumer, Lock(c) \/ FindEmpty(c) \/ FindValue(c) \/ Unlock(c)
        PROVE  UNCHANGED WQ!vars
    BY <1>1, <1>c DEF Lock, FindEmpty, FindValue, Unlock, mainVars, Popped, Outcome
  <1>2. ASSUME NEW c \in Consumer, Pop(c) PROVE WQ!Take(c) \/ WQ!Stop(c)
    <2>1. Outcome = "working" /\ Outcome' = "working"
      <3>1. mainPc # "failed" /\ pc[c] = "pop" /\ mainPc' = mainPc
        BY <1>2 DEF Pop, At, mainVars
      <3>2. mainPc # "done"
        BY <3>1 DEF WInv, Ending, Consumer
      <3>3. QED BY <3>1, <3>2 DEF Outcome
    <2>2. c \notin Stopped
      BY <1>2 DEF Pop, At, WInv, Ending, Stopped
    <2>3. CASE Popped < Ones
      <3>1. Left > 0 /\ Left' = Left - 1
        BY <2>3, <1>a, <1>b, <1>2, PopTakes DEF Least
      <3>2. Stopped' = Stopped /\ sum' = [sum EXCEPT ![c] = @ + 1]
        BY <2>3, <1>2, PopTakes
      <3>3. QED BY <3>1, <3>2, <2>1, <2>2 DEF WQ!Take
    <2>4. CASE Popped >= Ones
      <3>1. Left = 0 /\ Left' = 0
        BY <2>4, <1>a, <1>b, <1>2, PopTakes DEF Least
      <3>2. Stopped' = Stopped \cup {c} /\ sum' = sum
        BY <2>4, <1>2, PopTakes
      <3>3. QED BY <3>1, <3>2, <2>1, <2>2 DEF WQ!Stop
    <2>5. QED BY <2>3, <2>4, <1>b
  <1>3. CASE CreateThread \/ MainLock \/ MainUnlock
    BY <1>3, <1>c DEF CreateThread, MainLock, MainUnlock, consumerVars, Popped, Outcome
  <1>4. CASE CreateFails
    <2>1. /\ q' = q /\ i' = i /\ nextValue' = nextValue /\ sum' = sum
          /\ i = 0 /\ mainPc = "create" /\ mainPc' = "failed"
      BY <1>4 DEF CreateFails, consumerVars, IInv, Bookkeeping
    <2>2. Popped = 0 /\ Popped' = Popped
      BY <2>1, <1>b, Numbers DEF Popped
    <2>3. Left = Ones /\ Left' = Left
      BY <2>2, <1>a DEF Least
    <2>4. Stopped = {} /\ Stopped' = Stopped
      <3>1. Cardinality(Stopped) = 0
        BY <2>2 DEF WInv, Fifo
      <3>2. QED BY <3>1, <2>1, Numbers, FS_EmptySet DEF Stopped
    <2>5. Outcome = "working" /\ Outcome' = "failed"
      BY <2>1 DEF Outcome
    <2>6. QED BY <2>1, <2>3, <2>4, <2>5 DEF WQ!Next, WQ!Fail
  <1>5. CASE Push
    <2>1. /\ q' = Append(q, Value(i)) /\ i' = i + 1
          /\ nextValue' = nextValue /\ sum' = sum
          /\ mainPc = "push" /\ mainPc' \in {"push", "unlock"}
      BY <1>5 DEF Push, consumerVars, myqueue_push, Value
    <2>2. Len(q') = Len(q) + 1
      BY <2>1 DEF IInv, TypeOK
    <2>3. Popped' = Popped
      BY <2>1, <2>2, Numbers DEF Popped
    <2>4. Outcome' = Outcome
      BY <2>1 DEF Outcome
    <2>5. QED BY <2>1, <2>3, <2>4, <1>c
  <1>6. CASE Join
    <2>1. /\ q' = q /\ i' = i /\ nextValue' = nextValue /\ sum' = sum
          /\ mainPc = "join" /\ mainPc' \in {"join", "done"}
          /\ Popped' = Popped
      BY <1>6 DEF Join, consumerVars, Popped
    <2>2. CASE mainPc' = "join"
      BY <2>1, <2>2, <1>c DEF Outcome
    <2>3. CASE mainPc' = "done"
      <3>1. Stopped' = Stopped /\ Stopped = Consumer
        <4>1. /\ joined' = NumConsumers
              /\ \A c \in Consumer : c < joined' => nextValue'[c] = 0
          BY <2>3 DEF WInv, Ending
        <4>2. QED BY <4>1, <2>1 DEF Stopped, Consumer
      <3>2. Popped > Ones
        <4>1. Cardinality(Stopped) = NumConsumers
          BY <3>1, FiniteConsumers
        <4>2. QED BY <4>1, <1>b DEF WInv, Fifo
      <3>3. Least(Popped, Ones) = Ones /\ Left = 0 /\ Left' = 0
        BY <3>2, <1>a, <1>b, <2>1 DEF Least
      <3>4. WQ!Total = Ones /\ totalSum' = Ones
        <4>1. PICK f : /\ AddsUp(f, sum') /\ f[joined'] = totalSum'
                       /\ f[NumConsumers] = Least(Popped', Ones)
          BY DEF WInv, Sums
        <4>2. joined' = NumConsumers
          BY <2>3 DEF WInv, Ending
        <4>3. QED BY <4>1, <4>2, <3>3, <2>1, TotalIs
      <3>5. Outcome = "working" /\ Outcome' = "reported"
        BY <2>1, <2>3, <3>4 DEF Outcome
      <3>6. QED
        BY <3>1, <3>3, <3>4, <3>5, <2>1 DEF WQ!Next, WQ!Report, WQ!Consumer, Consumer
    <2>4. QED BY <2>1, <2>2, <2>3
  <1>7. CASE UNCHANGED vars
    BY <1>7, <1>c DEF vars, consumerVars, mainVars, Popped, Outcome
  <1>8. Consumer = WQ!Consumer
    BY DEF Consumer, WQ!Consumer
  <1>9. QED
    BY <1>1, <1>2, <1>3, <1>4, <1>5, <1>6, <1>7, <1>8
    DEF Next, Main, ThreadWork, Exited, WQ!Next

(* The program implements the abstract queue of work: every one is added   *)
(* to one sum, once, no consumer stops while there is work, and what main  *)
(* prints is the number of ones.                                           *)
THEOREM ProgramImplementsWorkQueue == Spec => ImplementsWorkQueue
  BY WInvariantHolds, InitRefines, StepRefines, PTL
  DEF Spec, ImplementsWorkQueue, WQ!Spec
=============================================================================
