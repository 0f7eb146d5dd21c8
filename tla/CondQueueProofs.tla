-------------------------- MODULE CondQueueProofs --------------------------
(***************************************************************************)
(* Proofs about CondQueue, for every number of consumers and every number  *)
(* of ones.  IInv (typing, the exact mutex, the values found and the       *)
(* counters) is inductive.  On top of it the absence of lost wakeups is    *)
(* inductive too: a thread that falls asleep has seen an empty queue, and  *)
(* every push is followed by a signal that adds one thread to those that   *)
(* are awake.  That the program implements WorkQueue rests on the order of *)
(* the queue and on the sums: what the consumers have added, or have       *)
(* popped and are about to add, is the number of the ones popped.          *)
(***************************************************************************)
EXTENDS CondQueue, FiniteSetTheorems, WellFoundedInduction, TLAPS

USE QueueAssumption

\* How the loop counters and the popped values agree with the positions of
\* the threads: who is between a pop and its addition has a value of the
\* queue, who waits has not been told to stop, and main has still a value to
\* push, or a thread to join, while it is at those places.
Bookkeeping ==
  /\ \A c \in Consumer :
       /\ pc[c] \in {"unlock", "add"} => nextValue[c] \in {0, 1}
       /\ pc[c] \in {"lock", "test", "wait", "pop"} => nextValue[c] # 0
  /\ \A c \in waiting : pc[c] = "wait"
  /\ mainPc \in {"lock", "push", "signal", "unlock"} => i < Ones + NumConsumers
  /\ mainPc = "create" => i = 0
  /\ mainPc \in {"create", "lock", "push", "signal", "unlock"} => joined = 0
  /\ mainPc = "join" => joined < NumConsumers

\* The inductive invariant.
IInv == TypeOK /\ MutexExact /\ PopFindsValue /\ Bookkeeping

-----------------------------------------------------------------------------
(* The names of the threads are told apart.                                *)

LEMMA ThreadNames ==
  /\ MainThread \notin Consumer
  /\ NoOne \notin Consumer
  /\ NoOne # MainThread
  BY DEF MainThread, NoOne, Consumer

\* What main pushes is a zero or a one.
LEMMA PushedValue ==
  ASSUME NEW n \in Nat
  PROVE  NewValue(n) \in {0, 1}
  BY DEF NewValue

\* The queue after a push and after a pop.
LEMMA QueueOperations ==
  ASSUME NEW s \in Seq({0, 1})
  PROVE  /\ Len(s) \in Nat
         /\ myqueue_is_empty(s) <=> Len(s) = 0
         /\ \A v \in {0, 1} : /\ myqueue_push(s, v) \in Seq({0, 1})
                              /\ Len(myqueue_push(s, v)) = Len(s) + 1
         /\ Len(s) > 0 => /\ myqueue_first(s) \in {0, 1}
                          /\ myqueue_rest(s) \in Seq({0, 1})
                          /\ Len(myqueue_rest(s)) = Len(s) - 1
  BY DEF myqueue_is_empty, myqueue_push, myqueue_first, myqueue_rest

LEMMA InitIInv == Init => IInv
  <1> SUFFICES ASSUME Init PROVE IInv
    OBVIOUS
  <1>1. TypeOK
    BY DEF Init, TypeOK, myqueue_init
  <1>2. MutexExact
    BY ThreadNames DEF Init, MutexExact
  <1>3. PopFindsValue
    BY DEF Init, PopFindsValue
  <1>4. Bookkeeping
    BY DEF Init, Bookkeeping
  <1>5. QED BY <1>1, <1>2, <1>3, <1>4 DEF IInv

-----------------------------------------------------------------------------
(* The steps of a consumer.                                                *)

LEMMA ConsumerIInv ==
  ASSUME IInv, NEW c \in Consumer, ThreadWork(c) \/ SpuriousWakeup(c)
  PROVE  IInv'
  <1> USE DEF At, GoTo, consumerVars, mainVars
  <1>1. ASSUME Lock(c) PROVE IInv'
    <2> USE <1>1, ThreadNames DEF Lock
    <2>1. TypeOK'
      BY DEF IInv, TypeOK
    <2>2. MutexExact'
      BY DEF IInv, TypeOK, MutexExact
    <2>3. PopFindsValue'
      BY DEF IInv, TypeOK, MutexExact, PopFindsValue
    <2>4. Bookkeeping'
      BY DEF IInv, TypeOK, Bookkeeping
    <2>5. QED BY <2>1, <2>2, <2>3, <2>4 DEF IInv
  <1>2. ASSUME LeaveLoop(c) PROVE IInv'
    <2> USE <1>2, ThreadNames DEF LeaveLoop
    <2>1. TypeOK'
      BY DEF IInv, TypeOK
    <2>2. MutexExact'
      BY DEF IInv, TypeOK, MutexExact
    <2>3. PopFindsValue'
      BY DEF IInv, TypeOK, MutexExact, PopFindsValue
    <2>4. Bookkeeping'
      BY DEF IInv, TypeOK, Bookkeeping
    <2>5. QED BY <2>1, <2>2, <2>3, <2>4 DEF IInv
  <1>3. ASSUME CondWait(c) PROVE IInv'
    <2> USE <1>3, ThreadNames DEF CondWait
    <2>1. TypeOK'
      BY DEF IInv, TypeOK
    <2>2. MutexExact'
      BY DEF IInv, TypeOK, MutexExact
    <2>3. PopFindsValue'
      BY DEF IInv, TypeOK, MutexExact, PopFindsValue
    <2>4. Bookkeeping'
      BY DEF IInv, TypeOK, Bookkeeping
    <2>5. QED BY <2>1, <2>2, <2>3, <2>4 DEF IInv
  <1>4. ASSUME SpuriousWakeup(c) PROVE IInv'
    <2> USE <1>4, ThreadNames DEF SpuriousWakeup
    <2>1. TypeOK'
      BY DEF IInv, TypeOK
    <2>2. MutexExact'
      BY DEF IInv, TypeOK, MutexExact
    <2>3. PopFindsValue'
      BY DEF IInv, TypeOK, MutexExact, PopFindsValue
    <2>4. Bookkeeping'
      BY DEF IInv, TypeOK, Bookkeeping
    <2>5. QED BY <2>1, <2>2, <2>3, <2>4 DEF IInv
  <1>5. ASSUME Relock(c) PROVE IInv'
    <2> USE <1>5, ThreadNames DEF Relock
    <2>1. TypeOK'
      BY DEF IInv, TypeOK
    <2>2. MutexExact'
      BY DEF IInv, TypeOK, MutexExact
    <2>3. PopFindsValue'
      BY DEF IInv, TypeOK, MutexExact, PopFindsValue
    <2>4. Bookkeeping'
      BY DEF IInv, TypeOK, Bookkeeping
    <2>5. QED BY <2>1, <2>2, <2>3, <2>4 DEF IInv
  <1>6. ASSUME Pop(c) PROVE IInv'
    <2> USE <1>6, ThreadNames DEF Pop
    <2>1. Len(q) > 0 /\ q' = myqueue_rest(q) /\ nextValue'[c] \in {0, 1}
      BY QueueOperations DEF IInv, TypeOK
    <2>2. TypeOK'
      BY <2>1, QueueOperations DEF IInv, TypeOK
    <2>3. MutexExact'
      BY DEF IInv, TypeOK, MutexExact
    <2>4. PopFindsValue'
      BY DEF IInv, TypeOK, MutexExact, PopFindsValue
    <2>5. Bookkeeping'
      BY <2>1 DEF IInv, TypeOK, Bookkeeping
    <2>6. QED BY <2>2, <2>3, <2>4, <2>5 DEF IInv
  <1>7. ASSUME Unlock(c) PROVE IInv'
    <2> USE <1>7, ThreadNames DEF Unlock
    <2>1. TypeOK'
      BY DEF IInv, TypeOK
    <2>2. MutexExact'
      BY DEF IInv, TypeOK, MutexExact
    <2>3. PopFindsValue'
      BY DEF IInv, TypeOK, MutexExact, PopFindsValue
    <2>4. Bookkeeping'
      BY DEF IInv, TypeOK, Bookkeeping
    <2>5. QED BY <2>1, <2>2, <2>3, <2>4 DEF IInv
  <1>8. ASSUME Add(c) PROVE IInv'
    <2> USE <1>8, ThreadNames DEF Add
    <2>1. nextValue[c] \in {0, 1}
      BY DEF IInv, Bookkeeping
    <2>2. TypeOK'
      BY <2>1 DEF IInv, TypeOK
    <2>3. MutexExact'
      BY DEF IInv, TypeOK, MutexExact
    <2>4. PopFindsValue'
      BY DEF IInv, TypeOK, MutexExact, PopFindsValue
    <2>5. Bookkeeping'
      BY <2>1 DEF IInv, TypeOK, Bookkeeping
    <2>6. QED BY <2>2, <2>3, <2>4, <2>5 DEF IInv
  <1>9. QED
    BY <1>1, <1>2, <1>3, <1>4, <1>5, <1>6, <1>7, <1>8 DEF ThreadWork

-----------------------------------------------------------------------------
(* The steps of main.                                                      *)

LEMMA MainIInv ==
  ASSUME IInv, Main
  PROVE  IInv'
  <1> USE DEF consumerVars
  <1>1. ASSUME CreateThread PROVE IInv'
    <2> USE <1>1, ThreadNames DEF CreateThread
    <2>1. TypeOK'
      BY DEF IInv, TypeOK
    <2>2. MutexExact'
      BY DEF IInv, TypeOK, MutexExact
    <2>3. PopFindsValue'
      BY DEF IInv, TypeOK, PopFindsValue
    <2>4. Bookkeeping'
      BY DEF IInv, TypeOK, Bookkeeping
    <2>5. QED BY <2>1, <2>2, <2>3, <2>4 DEF IInv
  <1>2. ASSUME CreateFails PROVE IInv'
    <2> USE <1>2, ThreadNames DEF CreateFails
    <2>1. TypeOK'
      BY DEF IInv, TypeOK
    <2>2. MutexExact'
      BY DEF IInv, TypeOK, MutexExact
    <2>3. PopFindsValue'
      BY DEF IInv, TypeOK, PopFindsValue
    <2>4. Bookkeeping'
      BY DEF IInv, TypeOK, Bookkeeping
    <2>5. QED BY <2>1, <2>2, <2>3, <2>4 DEF IInv
  <1>3. ASSUME MainLock PROVE IInv'
    <2> USE <1>3, ThreadNames DEF MainLock
    <2>1. TypeOK'
      BY DEF IInv, TypeOK
    <2>2. MutexExact'
      BY DEF IInv, TypeOK, MutexExact
    <2>3. PopFindsValue'
      BY DEF IInv, TypeOK, PopFindsValue
    <2>4. Bookkeeping'
      BY DEF IInv, TypeOK, Bookkeeping
    <2>5. QED BY <2>1, <2>2, <2>3, <2>4 DEF IInv
  <1>4. ASSUME Push PROVE IInv'
    <2> USE <1>4, ThreadNames DEF Push
    <2>1. q' \in Seq({0, 1}) /\ Len(q') > 0
      <3>1. q \in Seq({0, 1}) /\ i \in Nat
        BY DEF IInv, TypeOK
      <3>2. NewValue(i) \in {0, 1}
        BY <3>1, PushedValue
      <3>3. QED BY <3>1, <3>2, QueueOperations
    <2>2. TypeOK'
      BY <2>1 DEF IInv, TypeOK
    <2>3. MutexExact'
      BY DEF IInv, TypeOK, MutexExact
    <2>4. PopFindsValue'
      BY <2>1, QueueOperations DEF IInv, TypeOK, PopFindsValue
    <2>5. Bookkeeping'
      BY DEF IInv, TypeOK, Bookkeeping
    <2>6. QED BY <2>2, <2>3, <2>4, <2>5 DEF IInv
  <1>5. ASSUME Signal PROVE IInv'
    <2> USE <1>5, ThreadNames DEF Signal
    <2>1. TypeOK'
      BY DEF IInv, TypeOK
    <2>2. MutexExact'
      BY DEF IInv, TypeOK, MutexExact
    <2>3. PopFindsValue'
      BY DEF IInv, TypeOK, PopFindsValue
    <2>4. Bookkeeping'
      BY DEF IInv, TypeOK, Bookkeeping
    <2>5. QED BY <2>1, <2>2, <2>3, <2>4 DEF IInv
  <1>6. ASSUME MainUnlock PROVE IInv'
    <2> USE <1>6, ThreadNames DEF MainUnlock
    <2>1. TypeOK'
      BY DEF IInv, TypeOK, Bookkeeping
    <2>2. MutexExact'
      BY DEF IInv, TypeOK, MutexExact
    <2>3. PopFindsValue'
      BY DEF IInv, TypeOK, PopFindsValue
    <2>4. Bookkeeping'
      BY DEF IInv, TypeOK, Bookkeeping
    <2>5. QED BY <2>1, <2>2, <2>3, <2>4 DEF IInv
  <1>7. ASSUME Join PROVE IInv'
    <2> USE <1>7, ThreadNames DEF Join
    <2>1. joined \in Consumer /\ sum[joined] \in Nat
      BY DEF IInv, TypeOK, Bookkeeping, Consumer
    <2>2. TypeOK'
      BY <2>1 DEF IInv, TypeOK, Bookkeeping
    <2>3. MutexExact'
      BY DEF IInv, TypeOK, MutexExact
    <2>4. PopFindsValue'
      BY DEF IInv, TypeOK, PopFindsValue
    <2>5. Bookkeeping'
      BY DEF IInv, TypeOK, Bookkeeping
    <2>6. QED BY <2>2, <2>3, <2>4, <2>5 DEF IInv
  <1>8. QED
    BY <1>1, <1>2, <1>3, <1>4, <1>5, <1>6, <1>7 DEF Main

LEMMA NextIInv == IInv /\ [Next]_vars => IInv'
  <1> SUFFICES ASSUME IInv, [Next]_vars PROVE IInv'
    OBVIOUS
  <1>1. CASE UNCHANGED vars
    BY <1>1 DEF vars, consumerVars, mainVars, IInv, TypeOK, MutexExact,
                PopFindsValue, Bookkeeping
  <1>2. CASE Main
    BY <1>2, MainIInv
  <1>3. CASE \E c \in Consumer : ThreadWork(c) \/ SpuriousWakeup(c)
    BY <1>3, ConsumerIInv
  <1>4. QED BY <1>1, <1>2, <1>3 DEF Next, Exited

(* The inductive invariant holds in every reachable state.                 *)
THEOREM InvariantHolds == Spec => []IInv
  BY InitIInv, NextIInv, PTL DEF Spec

(* Variables keep their types; in particular main never counts past the    *)
(* values it has to push and the threads it has to join.                   *)
THEOREM TypeCorrect == Spec => []TypeOK
  <1>1. IInv => TypeOK
    BY DEF IInv
  <1>2. QED BY <1>1, InvariantHolds, PTL

(* The mutex is held exactly by the thread in its critical section, so the *)
(* queue is never touched by two threads at once.                          *)
THEOREM MutexIsExact == Spec => []MutexExact
  <1>1. IInv => MutexExact
    BY DEF IInv
  <1>2. QED BY <1>1, InvariantHolds, PTL

(* A consumer that leaves its waiting loop finds a value: myqueue_pop's    *)
(* assertion never fails, whatever wakes the thread.                       *)
THEOREM PopAlwaysFinds == Spec => []PopFindsValue
  <1>1. IInv => PopFindsValue
    BY DEF IInv
  <1>2. QED BY <1>1, InvariantHolds, PTL

-----------------------------------------------------------------------------
(* No lost wakeup.                                                         *)

LEMMA FiniteConsumers ==
  /\ IsFiniteSet(Consumer)
  /\ Cardinality(Consumer) = NumConsumers
  BY FS_Interval DEF Consumer

\* The threads that are awake can be counted.
LEMMA AwakeFinite ==
  /\ IsFiniteSet(Awake)
  /\ Cardinality(Awake) \in Nat
  BY FiniteConsumers, FS_Subset, FS_CardinalityType DEF Awake

\* Init has nobody waiting.
LEMMA InitNoLostWakeup == Init => NoLostWakeup
  BY DEF Init, NoLostWakeup

\* A step that leaves the queue, the wait set and the popped values alone,
\* and is neither the push nor the signal, cannot lose a wakeup.
LEMMA OtherStepsLoseNoWakeup ==
  ASSUME NoLostWakeup, UNCHANGED <<q, waiting, nextValue>>,
         mainPc = "signal" <=> mainPc' = "signal"
  PROVE  NoLostWakeup'
  BY DEF NoLostWakeup, Awake

LEMMA NextNoLostWakeup == IInv /\ NoLostWakeup /\ [Next]_vars => NoLostWakeup'
  <1> SUFFICES ASSUME IInv, NoLostWakeup, [Next]_vars, waiting' # {}
               PROVE  Len(q') <= Cardinality(Awake') + (IF mainPc' = "signal" THEN 1 ELSE 0)
    BY DEF NoLostWakeup
  <1> DEFINE Goal == Len(q') <= Cardinality(Awake') + (IF mainPc' = "signal" THEN 1 ELSE 0)
  <1>a. /\ IsFiniteSet(Awake) /\ IsFiniteSet(Awake')
        /\ Cardinality(Awake) \in Nat /\ Cardinality(Awake') \in Nat
    <2>1. Awake' \subseteq Consumer
      BY DEF Awake
    <2>2. QED BY <2>1, AwakeFinite, FiniteConsumers, FS_Subset, FS_CardinalityType
  <1>b. q \in Seq({0, 1}) /\ Len(q) \in Nat
    BY DEF IInv, TypeOK
  <1>c. NoLostWakeup' => Goal
    BY DEF NoLostWakeup
  <1>1. ASSUME NEW c \in Consumer,
               Lock(c) \/ LeaveLoop(c) \/ Relock(c) \/ Unlock(c) \/ Add(c)
        PROVE  Goal
    BY <1>1, <1>c, OtherStepsLoseNoWakeup
       DEF Lock, LeaveLoop, Relock, Unlock, Add, mainVars
  <1>2. ASSUME NEW c \in Consumer, CondWait(c) PROVE Goal
    <2>1. Len(q') = 0
      BY <1>2 DEF CondWait, myqueue_is_empty
    <2>2. QED BY <2>1, <1>a
  <1>3. ASSUME NEW c \in Consumer, SpuriousWakeup(c) PROVE Goal
    <2>1. Awake' = Awake \cup {c}
      BY <1>3 DEF SpuriousWakeup, consumerVars, Awake, IInv, Bookkeeping
    <2>2. Cardinality(Awake') >= Cardinality(Awake)
      BY <2>1, <1>a, FS_AddElement
    <2>3. waiting # {} /\ q' = q /\ mainPc' = mainPc
      BY <1>3 DEF SpuriousWakeup, mainVars
    <2>4. QED BY <2>2, <2>3, <1>a, <1>b DEF NoLostWakeup
  <1>4. ASSUME NEW c \in Consumer, Pop(c) PROVE Goal
    <2>1. /\ waiting' = waiting /\ mainPc' = mainPc
          /\ \A d \in Consumer \ {c} : nextValue'[d] = nextValue[d]
      BY <1>4 DEF Pop, mainVars, IInv, TypeOK
    <2>2. Awake \ {c} \subseteq Awake'
      BY <2>1 DEF Awake
    <2>3. Cardinality(Awake \ {c}) <= Cardinality(Awake')
      BY <2>2, <1>a, FS_Subset
    <2>4. Cardinality(Awake \ {c}) >= Cardinality(Awake) - 1
      <3>1. Cardinality(Awake \ {c})
              = IF c \in Awake THEN Cardinality(Awake) - 1 ELSE Cardinality(Awake)
        BY <1>a, FS_RemoveElement
      <3>2. QED BY <3>1, <1>a
    <2>5. Cardinality(Awake \ {c}) \in Nat
      BY <1>a, FS_RemoveElement, FS_CardinalityType
    <2>6. Len(q') = Len(q) - 1
      BY <1>4, <1>b DEF Pop, myqueue_is_empty, myqueue_rest
    <2>7. QED BY <2>1, <2>3, <2>4, <2>5, <2>6, <1>a, <1>b DEF NoLostWakeup
  <1>5. ASSUME CreateThread \/ CreateFails \/ MainLock \/ MainUnlock \/ Join PROVE Goal
    BY <1>5, <1>c, OtherStepsLoseNoWakeup
       DEF CreateThread, CreateFails, MainLock, MainUnlock, Join, consumerVars
  <1>6. ASSUME Push PROVE Goal
    <2>1. /\ Awake' = Awake /\ waiting' = waiting
          /\ mainPc = "push" /\ mainPc' = "signal"
      BY <1>6 DEF Push, consumerVars, Awake
    <2>2. Len(q') = Len(q) + 1
      BY <1>6, <1>b DEF Push, myqueue_push
    <2>3. QED BY <2>1, <2>2, <1>a, <1>b DEF NoLostWakeup
  <1>7. ASSUME Signal PROVE Goal
    <2>1. /\ q' = q /\ nextValue' = nextValue
          /\ mainPc = "signal" /\ mainPc' = "unlock"
          /\ waiting # {}
      BY <1>7 DEF Signal, consumerVars
    <2>2. PICK c \in waiting : waiting' = waiting \ {c}
      BY <1>7, <2>1 DEF Signal
    <2>3. c \in Consumer /\ nextValue[c] # 0 /\ c \notin Awake
      BY <2>2 DEF IInv, TypeOK, Bookkeeping, Awake
    <2>4. Awake' = Awake \cup {c}
      BY <2>1, <2>2, <2>3 DEF Awake
    <2>5. Cardinality(Awake') = Cardinality(Awake) + 1
      BY <2>3, <2>4, <1>a, FS_AddElement
    <2>6. QED BY <2>1, <2>5, <1>a, <1>b DEF NoLostWakeup
  <1>8. ASSUME UNCHANGED vars PROVE Goal
    BY <1>8, <1>c, OtherStepsLoseNoWakeup DEF vars, consumerVars, mainVars
  <1>9. QED
    <2> HIDE DEF Goal
    <2>1. ASSUME NEW c \in Consumer, ThreadWork(c) \/ SpuriousWakeup(c) PROVE Goal
      BY <2>1, <1>1, <1>2, <1>3, <1>4 DEF ThreadWork
    <2>2. ASSUME Main PROVE Goal
      BY <2>2, <1>5, <1>6, <1>7 DEF Main
    <2>3. Goal
      BY <2>1, <2>2, <1>8 DEF Next, Exited
    <2>4. QED BY <2>3 DEF Goal

(* No lost wakeup, for every number of consumers: while threads wait, each *)
(* value of the queue has a thread that is awake and will come back for it *)
(* (or main is about to signal it).                                        *)
THEOREM WakeupsAreNotLost == Spec => []NoLostWakeup
  BY InvariantHolds, InitNoLostWakeup, NextNoLostWakeup, PTL DEF Spec

-----------------------------------------------------------------------------
(* One terminating zero for each consumer.                                 *)

\* The values that the consumers have taken out of the queue.
Popped == Pushed - Len(q)

\* The queue is the end of the sequence of values that main has pushed, and
\* there is one stopped consumer for every zero that has been popped.
Fifo ==
  /\ Popped \in Nat
  /\ \A k \in 1 .. Len(q) : q[k] = NewValue(Popped + k - 1)
  /\ Cardinality(Stopped) = IF Popped > Ones THEN Popped - Ones ELSE 0

\* What the counts are in numbers.
LEMMA Numbers ==
  ASSUME IInv
  PROVE  /\ Len(q) \in Nat /\ Pushed \in Nat /\ Popped \in Int
         /\ Pushed = Popped + Len(q)
         /\ Pushed <= Ones + NumConsumers
         /\ IsFiniteSet(Stopped) /\ Cardinality(Stopped) \in Nat
  <1>1. Len(q) \in Nat
    BY DEF IInv, TypeOK
  <1>2. Pushed \in Nat /\ Pushed <= Ones + NumConsumers
    BY DEF IInv, TypeOK, Bookkeeping, Pushed
  <1>3. IsFiniteSet(Stopped) /\ Cardinality(Stopped) \in Nat
    BY FiniteConsumers, FS_Subset, FS_CardinalityType DEF Stopped
  <1>4. QED BY <1>1, <1>2, <1>3 DEF Popped

LEMMA InitFifo == Init => Fifo
  <1> SUFFICES ASSUME Init PROVE Fifo
    OBVIOUS
  <1>1. q = <<>> /\ Len(q) = 0 /\ Pushed = 0 /\ Popped = 0
    BY DEF Init, myqueue_init, Pushed, Popped
  <1>2. Stopped = {}
    BY DEF Init, Stopped
  <1>3. QED BY <1>1, <1>2, FS_EmptySet DEF Fifo

LEMMA NextFifo == IInv /\ Fifo /\ [Next]_vars => Fifo'
  <1> SUFFICES ASSUME IInv, Fifo, [Next]_vars PROVE Fifo'
    OBVIOUS
  <1>a. q \in Seq({0, 1})
    BY DEF IInv, TypeOK
  <1>b. ASSUME q' = q, nextValue' = nextValue, Pushed' = Pushed PROVE Fifo'
    BY <1>b DEF Fifo, Popped, Stopped
  <1>1. ASSUME NEW c \in Consumer,
               \/ Lock(c) \/ LeaveLoop(c) \/ CondWait(c) \/ SpuriousWakeup(c)
               \/ Relock(c) \/ Unlock(c) \/ Add(c)
        PROVE  Fifo'
    BY <1>1, <1>b DEF Lock, LeaveLoop, CondWait, SpuriousWakeup, Relock, Unlock,
                      Add, consumerVars, mainVars, Pushed
  <1>2. ASSUME NEW c \in Consumer, Pop(c) PROVE Fifo'
    <2>1. /\ q' = Tail(q) /\ Len(q) > 0
          /\ nextValue' = [nextValue EXCEPT ![c] = q[1]]
          /\ Pushed' = Pushed
      BY <1>2, <1>a DEF Pop, mainVars, Pushed, myqueue_first, myqueue_rest, myqueue_is_empty
    <2>2. Len(q') = Len(q) - 1 /\ \A k \in 1 .. Len(q') : q'[k] = q[k + 1]
      BY <2>1, <1>a
    <2>3. Popped' = Popped + 1 /\ Popped \in Nat
      BY <2>1, <2>2, Numbers DEF Popped, Fifo
    <2>4. \A k \in 1 .. Len(q') : q'[k] = NewValue(Popped' + k - 1)
      <3> SUFFICES ASSUME NEW k \in 1 .. Len(q')
                   PROVE  q'[k] = NewValue(Popped' + k - 1)
        OBVIOUS
      <3>1. k + 1 \in 1 .. Len(q)
        BY <2>2, Numbers
      <3>2. q'[k] = NewValue(Popped + (k + 1) - 1)
        BY <3>1, <2>2 DEF Fifo
      <3>3. Popped + (k + 1) - 1 = Popped' + k - 1
        BY <2>3
      <3>4. QED BY <3>2, <3>3
    <2>5. q[1] = NewValue(Popped)
      <3>1. 1 \in 1 .. Len(q) /\ Popped + 1 - 1 = Popped
        BY <2>1, <2>3, Numbers
      <3>2. QED BY <3>1 DEF Fifo
    <2>6. nextValue[c] # 0
      BY <1>2 DEF Pop, At, IInv, Bookkeeping
    <2>7. Cardinality(Stopped') = IF Popped' > Ones THEN Popped' - Ones ELSE 0
      <3>1. CASE Popped < Ones
        <4>1. q[1] = 1
          BY <3>1, <2>3, <2>5 DEF NewValue
        <4>2. Stopped' = Stopped
          BY <4>1, <2>1, <2>6 DEF Stopped, IInv, TypeOK
        <4>3. QED BY <4>2, <3>1, <2>3 DEF Fifo
      <3>2. CASE Popped >= Ones
        <4>1. q[1] = 0
          BY <3>2, <2>3, <2>5 DEF NewValue
        <4>2. Stopped' = Stopped \cup {c} /\ c \notin Stopped
          BY <4>1, <2>1, <2>6 DEF Stopped, IInv, TypeOK
        <4>3. Cardinality(Stopped') = Cardinality(Stopped) + 1
          BY <4>2, Numbers, FS_AddElement
        <4>4. QED BY <4>3, <3>2, <2>3, Numbers DEF Fifo
      <3>3. QED BY <3>1, <3>2, <2>3
    <2>8. QED BY <2>3, <2>4, <2>7 DEF Fifo
  <1>3. CASE CreateThread \/ CreateFails \/ MainLock \/ Signal \/ MainUnlock \/ Join
    <2>1. q' = q /\ nextValue' = nextValue
      BY <1>3 DEF CreateThread, CreateFails, MainLock, Signal, MainUnlock, Join, consumerVars
    <2>2. Pushed' = Pushed
      BY <1>3 DEF CreateThread, CreateFails, MainLock, Signal, MainUnlock, Join,
                  Pushed, IInv, TypeOK
    <2>3. QED BY <2>1, <2>2, <1>b
  <1>4. CASE Push
    <2>1. /\ q' = Append(q, NewValue(Pushed))
          /\ Pushed' = Pushed + 1
          /\ Stopped' = Stopped
      BY <1>4 DEF Push, consumerVars, myqueue_push, Pushed, Stopped, IInv, TypeOK
    <2>2. /\ Len(q') = Len(q) + 1
          /\ \A k \in 1 .. Len(q) : q'[k] = q[k]
          /\ q'[Len(q) + 1] = NewValue(Pushed)
      BY <2>1, <1>a
    <2>3. Popped' = Popped /\ Popped \in Nat
      BY <2>1, <2>2, Numbers DEF Popped, Fifo
    <2>4. \A k \in 1 .. Len(q') : q'[k] = NewValue(Popped' + k - 1)
      <3> SUFFICES ASSUME NEW k \in 1 .. Len(q')
                   PROVE  q'[k] = NewValue(Popped' + k - 1)
        OBVIOUS
      <3>1. CASE k \in 1 .. Len(q)
        BY <3>1, <2>2, <2>3 DEF Fifo
      <3>2. CASE k = Len(q) + 1
        <4>1. Popped' + k - 1 = Pushed
          BY <3>2, <2>3, Numbers
        <4>2. QED BY <4>1, <3>2, <2>2
      <3>3. QED BY <3>1, <3>2, <2>2, Numbers
    <2>5. QED BY <2>1, <2>3, <2>4 DEF Fifo
  <1>5. CASE UNCHANGED vars
    BY <1>5, <1>b DEF vars, consumerVars, mainVars, Pushed
  <1>6. QED
    BY <1>1, <1>2, <1>3, <1>4, <1>5 DEF Next, Main, ThreadWork, Exited

\* The values in the queue, counted: first ones, then zeroes.
LEMMA QueueContents ==
  ASSUME IInv, Fifo
  PROVE  /\ OnesQueued = IF Pushed <= Ones THEN Len(q)
                         ELSE IF Popped >= Ones THEN 0 ELSE Ones - Popped
         /\ Cardinality({k \in 1 .. Len(q) : q[k] = 0}) = Len(q) - OnesQueued
  <1> DEFINE m == IF Pushed <= Ones THEN Len(q)
                  ELSE IF Popped >= Ones THEN 0 ELSE Ones - Popped
  <1>1. Popped \in Nat /\ m \in Nat /\ m <= Len(q)
    BY Numbers DEF Fifo
  <1>2. \A k \in 1 .. Len(q) : q[k] = IF k <= m THEN 1 ELSE 0
    <2> SUFFICES ASSUME NEW k \in 1 .. Len(q)
                 PROVE  q[k] = IF k <= m THEN 1 ELSE 0
      OBVIOUS
    <2>1. q[k] = IF Popped + k - 1 >= Ones THEN 0 ELSE 1
      BY DEF Fifo, NewValue
    <2>2. Popped + k - 1 >= Ones <=> ~(k <= m)
      BY <1>1, Numbers
    <2>3. QED BY <2>1, <2>2
  <1> HIDE DEF m
  <1>3. /\ {k \in 1 .. Len(q) : q[k] = 1} = 1 .. m
        /\ {k \in 1 .. Len(q) : q[k] = 0} = (m + 1) .. Len(q)
    BY <1>1, <1>2, Numbers
  <1>4. /\ Cardinality(1 .. m) = m
        /\ Cardinality((m + 1) .. Len(q)) = Len(q) - m
    <2>1. 1 \in Int /\ m \in Int /\ m + 1 \in Int /\ Len(q) \in Int
      BY <1>1, Numbers
    <2>2. Cardinality(1 .. m) = IF 1 > m THEN 0 ELSE m - 1 + 1
      BY <2>1, FS_Interval
    <2>3. Cardinality((m + 1) .. Len(q))
            = IF m + 1 > Len(q) THEN 0 ELSE Len(q) - (m + 1) + 1
      BY <2>1, FS_Interval
    <2>4. QED BY <2>2, <2>3, <1>1, Numbers
  <1>5. QED BY <1>3, <1>4 DEF OnesQueued, m

(* One terminating zero for each consumer, for every number of both: no    *)
(* consumer is told to stop while there are ones, and every consumer that  *)
(* has not been told to stop will find a zero of its own.                  *)
THEOREM EveryConsumerGetsItsZero == Spec => []OneZeroEach
  <1>1. IInv /\ Fifo => OneZeroEach
    <2> SUFFICES ASSUME IInv, Fifo PROVE OneZeroEach
      OBVIOUS
    <2>1. /\ OnesToPush = IF Pushed < Ones THEN Ones - Pushed ELSE 0
          /\ Popped \in Nat
          /\ Cardinality(Stopped) = IF Popped > Ones THEN Popped - Ones ELSE 0
      BY DEF OnesToPush, Fifo
    <2>2. Stopped # {} => OnesToPush = 0 /\ OnesQueued = 0
      <3> HAVE Stopped # {}
      <3>1. Cardinality(Stopped) # 0
        BY Numbers, FS_EmptySet
      <3>2. Popped > Ones /\ Pushed > Ones
        BY <3>1, <2>1, Numbers
      <3>3. QED BY <3>2, <2>1, QueueContents, Numbers
    <2>3. Cardinality(Consumer \ Stopped)
            = (Ones + NumConsumers - Pushed) - OnesToPush
                + Cardinality({k \in 1 .. Len(q) : q[k] = 0})
      <3>1. Cardinality(Consumer \ Stopped) = NumConsumers - Cardinality(Stopped)
        <4>1. /\ Cardinality(Consumer \ Stopped)
                   = Cardinality(Consumer) - Cardinality(Consumer \cap Stopped)
              /\ Consumer \cap Stopped = Stopped
          BY FiniteConsumers, FS_Difference DEF Stopped
        <4>2. QED BY <4>1, FiniteConsumers
      <3> DEFINE zeroes == Cardinality({k \in 1 .. Len(q) : q[k] = 0})
      <3>2. zeroes = Len(q) - OnesQueued
        BY QueueContents
      <3>3. OnesQueued = IF Pushed <= Ones THEN Len(q)
                         ELSE IF Popped >= Ones THEN 0 ELSE Ones - Popped
        BY QueueContents
      <3>4. /\ Len(q) \in Nat /\ Pushed = Popped + Len(q)
            /\ NumConsumers \in Nat /\ Ones \in Nat
        BY Numbers
      <3> HIDE DEF zeroes
      <3>5. Cardinality(Consumer \ Stopped)
              = (Ones + NumConsumers - Pushed) - OnesToPush + zeroes
        <4>1. /\ Pushed \in Int /\ OnesToPush \in Int /\ OnesQueued \in Int
              /\ zeroes \in Int /\ Cardinality(Stopped) \in Int
          BY <3>2, <3>3, <3>4, <2>1
        <4>2. zeroes = IF Pushed <= Ones THEN 0
                       ELSE IF Popped >= Ones THEN Len(q) ELSE Pushed - Ones
          BY <4>1, <3>2, <3>3, <3>4, <2>1
        <4>3. (Ones + NumConsumers - Pushed) - OnesToPush + zeroes
                = NumConsumers - Cardinality(Stopped)
          <5>1. CASE Pushed < Ones
            <6>1. OnesToPush = Ones - Pushed /\ zeroes = 0 /\ Cardinality(Stopped) = 0
              BY <5>1, <4>1, <4>2, <3>4, <2>1
            <6>2. QED BY <6>1, <4>1, <3>4
          <5>2. CASE Pushed >= Ones /\ Popped < Ones
            <6>1. OnesToPush = 0 /\ zeroes = Pushed - Ones /\ Cardinality(Stopped) = 0
              BY <5>2, <4>1, <4>2, <3>4, <2>1
            <6>2. QED BY <6>1, <4>1, <3>4
          <5>3. CASE Popped >= Ones
            <6>1. OnesToPush = 0 /\ zeroes = Len(q) /\ Cardinality(Stopped) = Popped - Ones
              BY <5>3, <4>1, <4>2, <3>4, <2>1
            <6>2. QED BY <6>1, <4>1, <3>4, <2>1
          <5>4. QED BY <5>1, <5>2, <5>3, <4>1, <3>4, <2>1
        <4>4. QED BY <3>1, <4>3
      <3>6. QED BY <3>5 DEF zeroes
    <2>4. QED BY <2>2, <2>3 DEF OneZeroEach
  <1>2. QED BY <1>1, InvariantHolds, InitFifo, NextFifo, PTL DEF Spec

-----------------------------------------------------------------------------
(* What the consumers have taken is what has been popped.                  *)

Least(a, b) == IF a < b THEN a ELSE b

\* A consumer ends with a zero, and main has joined only consumers that have
\* ended.
Ending ==
  /\ \A c \in Consumer : /\ pc[c] = "done" => nextValue[c] = 0
                         /\ c < joined => pc[c] = "done"
  /\ mainPc = "done" => joined = NumConsumers

\* f[n] is the sum of s[0] to s[n - 1].
AddsUp(f, s) ==
  /\ f \in [0 .. NumConsumers -> Nat]
  /\ f[0] = 0
  /\ \A c \in Consumer : f[c + 1] = f[c] + s[c]

\* Every one that has been popped is in one sum or on its way there, and main
\* has added up the sums of the consumers that it has joined.
Sums ==
  \E f : /\ AddsUp(f, Taken)
         /\ f[joined] = totalSum
         /\ f[NumConsumers] = Least(Popped, Ones)

\* What the refinement rests on; inductive together with IInv.
WInv == Fifo /\ Ending /\ Sums

LEMMA InitWInv == Init => WInv
  <1> SUFFICES ASSUME Init PROVE WInv
    OBVIOUS
  <1>1. Len(q) = 0
    BY DEF Init, myqueue_init
  <1>2. Popped = 0
    BY <1>1 DEF Init, Pushed, Popped
  <1>3. Ending
    BY DEF Init, Ending, Consumer
  <1>4. Taken = [c \in Consumer |-> 0]
    BY DEF Init, Taken, InFlight
  <1>5. Sums
    <2> DEFINE f == [n \in 0 .. NumConsumers |-> 0]
    <2>1. AddsUp(f, Taken)
      BY <1>4 DEF AddsUp, Consumer
    <2>2. f[joined] = totalSum /\ f[NumConsumers] = Least(Popped, Ones)
      BY <1>2 DEF Init, Least
    <2>3. QED BY <2>1, <2>2 DEF Sums
  <1>6. QED BY <1>3, <1>5, InitFifo DEF WInv

LEMMA TakenType ==
  ASSUME IInv
  PROVE  Taken \in [Consumer -> Nat] /\ \A c \in Consumer : InFlight(c) \in {0, 1}
  <1>1. \A c \in Consumer : InFlight(c) \in {0, 1} /\ sum[c] \in Nat
    BY DEF IInv, TypeOK, Bookkeeping, InFlight
  <1>2. QED BY <1>1 DEF Taken

\* What a pop does to the stopped consumers and to what has been taken.
LEMMA PopTakes ==
  ASSUME IInv, WInv, NEW c \in Consumer, Pop(c)
  PROVE  /\ Popped' = Popped + 1
         /\ Popped < Ones => Stopped' = Stopped /\ Taken' = [Taken EXCEPT ![c] = @ + 1]
         /\ Popped >= Ones => /\ Stopped' = Stopped \cup {c} /\ c \notin Stopped
                              /\ Taken' = Taken
  <1>1. /\ q \in Seq({0, 1}) /\ nextValue \in [Consumer -> {-1, 0, 1}]
        /\ sum \in [Consumer -> Nat]
        /\ pc \in [Consumer -> {"lock", "test", "wait", "pop", "unlock", "add", "done"}]
    BY DEF IInv, TypeOK
  <1>2. /\ q' = Tail(q) /\ Len(q) > 0 /\ Pushed' = Pushed /\ sum' = sum
        /\ nextValue' = [nextValue EXCEPT ![c] = q[1]]
        /\ pc[c] = "pop" /\ pc' = [pc EXCEPT ![c] = "unlock"]
    BY <1>1 DEF Pop, At, GoTo, mainVars, Pushed, myqueue_first, myqueue_rest, myqueue_is_empty
  <1>3. Len(q') = Len(q) - 1
    BY <1>1, <1>2
  <1>4. Popped' = Popped + 1 /\ Popped \in Nat
    BY <1>2, <1>3, Numbers DEF Popped, WInv, Fifo
  <1>5. nextValue[c] # 0
    BY <1>2 DEF IInv, Bookkeeping
  <1>6. q[1] = NewValue(Popped)
    <2>1. 1 \in 1 .. Len(q) /\ Popped + 1 - 1 = Popped
      BY <1>2, <1>4, Numbers
    <2>2. QED BY <2>1 DEF WInv, Fifo
  <1>7. /\ \A d \in Consumer \ {c} : Taken'[d] = Taken[d]
        /\ Taken[c] = sum[c] /\ Taken'[c] = sum[c] + q[1]
    BY <1>1, <1>2 DEF Taken, InFlight
  <1>8. ASSUME Popped < Ones
        PROVE  Stopped' = Stopped /\ Taken' = [Taken EXCEPT ![c] = @ + 1]
    <2>1. q[1] = 1
      BY <1>4, <1>6, <1>8 DEF NewValue
    <2>2. Stopped' = Stopped
      BY <2>1, <1>1, <1>2, <1>5 DEF Stopped
    <2>3. Taken' = [Taken EXCEPT ![c] = @ + 1]
      BY <2>1, <1>7 DEF Taken
    <2>4. QED BY <2>2, <2>3
  <1>9. ASSUME Popped >= Ones
        PROVE  Stopped' = Stopped \cup {c} /\ c \notin Stopped /\ Taken' = Taken
    <2>1. q[1] = 0
      BY <1>4, <1>6, <1>9 DEF NewValue
    <2>2. Stopped' = Stopped \cup {c} /\ c \notin Stopped
      BY <2>1, <1>1, <1>2, <1>5 DEF Stopped
    <2>3. Taken'[c] = Taken[c]
      BY <2>1, <1>1, <1>7
    <2>4. Taken' = Taken
      BY <2>3, <1>7 DEF Taken
    <2>5. QED BY <2>2, <2>4
  <1>10. QED BY <1>4, <1>8, <1>9

\* No other step of a consumer takes anything.
LEMMA OthersTakeNothing ==
  ASSUME IInv, NEW c \in Consumer,
         \/ Lock(c) \/ LeaveLoop(c) \/ CondWait(c) \/ SpuriousWakeup(c)
         \/ Relock(c) \/ Unlock(c) \/ Add(c)
  PROVE  /\ Popped' = Popped /\ Taken' = Taken /\ nextValue' = nextValue
         /\ joined' = joined /\ totalSum' = totalSum /\ mainPc' = mainPc
         /\ \A d \in Consumer \ {c} : pc'[d] = pc[d]
         /\ pc[c] # "done" /\ (pc'[c] = "done" => nextValue[c] = 0)
  <1>1. /\ sum \in [Consumer -> Nat]
        /\ pc \in [Consumer -> {"lock", "test", "wait", "pop", "unlock", "add", "done"}]
        /\ \A d \in Consumer : InFlight(d) \in {0, 1}
    BY TakenType DEF IInv, TypeOK
  <1>2. /\ q' = q /\ Pushed' = Pushed /\ nextValue' = nextValue
        /\ joined' = joined /\ totalSum' = totalSum /\ mainPc' = mainPc
    BY DEF Lock, LeaveLoop, CondWait, SpuriousWakeup, Relock, Unlock, Add,
           consumerVars, mainVars, Pushed
  <1>3. /\ \A d \in Consumer \ {c} : pc'[d] = pc[d] /\ sum'[d] = sum[d]
        /\ pc[c] # "done" /\ (pc'[c] = "done" => nextValue[c] = 0)
    BY <1>1 DEF Lock, LeaveLoop, CondWait, SpuriousWakeup, Relock, Unlock, Add,
                At, GoTo, consumerVars
  <1>4. sum'[c] + InFlight(c)' = sum[c] + InFlight(c)
    <2>1. CASE Add(c)
      <3>1. /\ sum'[c] = sum[c] + nextValue[c] /\ pc[c] = "add"
            /\ pc'[c] \in {"lock", "done"}
        BY <2>1, <1>1 DEF Add, At, GoTo
      <3>2. InFlight(c) = nextValue[c] /\ InFlight(c)' = 0
        BY <3>1 DEF InFlight
      <3>3. QED BY <3>1, <3>2, <1>1
    <2>2. CASE Unlock(c)
      <3>1. sum' = sum /\ pc[c] = "unlock" /\ pc'[c] = "add"
        BY <2>2, <1>1 DEF Unlock, At, GoTo
      <3>2. QED BY <3>1, <1>2 DEF InFlight
    <2>3. CASE \/ Lock(c) \/ LeaveLoop(c) \/ CondWait(c) \/ SpuriousWakeup(c)
               \/ Relock(c)
      <3>1. /\ sum' = sum /\ pc[c] \notin {"unlock", "add"}
            /\ pc'[c] \notin {"unlock", "add"}
        BY <2>3, <1>1 DEF Lock, LeaveLoop, CondWait, SpuriousWakeup, Relock, At, GoTo,
                          consumerVars
      <3>2. QED BY <3>1 DEF InFlight
    <2>4. QED BY <2>1, <2>2, <2>3
  <1>5. \A d \in Consumer \ {c} : InFlight(d)' = InFlight(d)
    BY <1>2, <1>3 DEF InFlight
  <1>6. \A d \in Consumer : sum'[d] + InFlight(d)' = sum[d] + InFlight(d)
    BY <1>3, <1>4, <1>5
  <1>7. Taken' = Taken
    BY <1>6 DEF Taken
  <1>8. QED BY <1>2, <1>3, <1>7 DEF Popped

\* No step of main takes anything.
LEMMA MainTakesNothing ==
  ASSUME IInv, WInv,
         \/ CreateThread \/ CreateFails \/ MainLock \/ Push \/ Signal
         \/ MainUnlock \/ Join \/ UNCHANGED vars
  PROVE  /\ Popped' = Popped /\ Taken' = Taken /\ nextValue' = nextValue /\ pc' = pc
  <1>1. nextValue' = nextValue /\ pc' = pc /\ sum' = sum
    BY DEF CreateThread, CreateFails, MainLock, Push, Signal, MainUnlock, Join,
           vars, consumerVars
  <1>2. Taken' = Taken
    BY <1>1 DEF Taken, InFlight
  <1>3. Popped' = Popped
    <2>1. CASE Push
      <3>1. q' = Append(q, NewValue(i)) /\ Pushed' = Pushed + 1
        BY <2>1 DEF Push, myqueue_push, Pushed, IInv, TypeOK
      <3>2. Len(q') = Len(q) + 1
        BY <3>1 DEF IInv, TypeOK
      <3>3. QED BY <3>1, <3>2, Numbers DEF Popped
    <2>2. CASE CreateThread \/ CreateFails \/ MainLock \/ Signal \/ MainUnlock \/ Join
      <3>1. q' = q
        BY <2>2 DEF CreateThread, CreateFails, MainLock, Signal, MainUnlock, Join
      <3>2. Pushed' = Pushed
        BY <2>2 DEF CreateThread, CreateFails, MainLock, Signal, MainUnlock, Join,
                    Pushed, IInv, TypeOK
      <3>3. QED BY <3>1, <3>2 DEF Popped
    <2>3. CASE UNCHANGED vars
      BY <2>3 DEF vars, mainVars, Popped, Pushed
    <2>4. QED BY <2>1, <2>2, <2>3
  <1>4. QED BY <1>1, <1>2, <1>3

\* One more in the sum of consumer c is one more in every total beyond c.
LEMMA AddOne ==
  ASSUME NEW f, NEW s \in [Consumer -> Nat], AddsUp(f, s), NEW c \in Consumer
  PROVE  \E g : /\ AddsUp(g, [s EXCEPT ![c] = @ + 1])
                /\ \A n \in 0 .. c : g[n] = f[n]
                /\ g[NumConsumers] = f[NumConsumers] + 1
  <1> DEFINE g == [n \in 0 .. NumConsumers |-> IF n > c THEN f[n] + 1 ELSE f[n]]
             t == [s EXCEPT ![c] = @ + 1]
  <1>1. \A n \in 0 .. NumConsumers : f[n] \in Nat
    BY DEF AddsUp
  <1>2. g \in [0 .. NumConsumers -> Nat] /\ g[0] = 0
    BY <1>1 DEF AddsUp, Consumer
  <1>3. \A d \in Consumer : g[d + 1] = g[d] + t[d]
    <2> TAKE d \in Consumer
    <2>1. d \in 0 .. NumConsumers /\ d + 1 \in 0 .. NumConsumers /\ s[d] \in Nat
      BY DEF Consumer
    <2>2. f[d + 1] = f[d] + s[d]
      BY DEF AddsUp
    <2>3. f[d] \in Nat
      BY <2>1, <1>1
    <2>4. CASE d = c
      <3>1. g[d + 1] = f[d + 1] + 1 /\ g[d] = f[d] /\ t[d] = s[d] + 1
        BY <2>1, <2>4 DEF Consumer
      <3>2. QED BY <3>1, <2>1, <2>2, <2>3
    <2>5. CASE d # c
      BY <2>1, <2>2, <2>5, <1>1 DEF Consumer
    <2>6. QED BY <2>4, <2>5
  <1>4. \A n \in 0 .. c : g[n] = f[n]
    BY DEF Consumer
  <1>5. g[NumConsumers] = f[NumConsumers] + 1
    BY DEF Consumer
  <1> HIDE DEF g
  <1>6. QED BY <1>2, <1>3, <1>4, <1>5 DEF AddsUp

LEMMA NextWInv == IInv /\ WInv /\ [Next]_vars => WInv'
  <1> SUFFICES ASSUME IInv, WInv, [Next]_vars PROVE WInv'
    OBVIOUS
  <1>a. joined \in 0 .. NumConsumers /\ Taken \in [Consumer -> Nat]
    BY TakenType DEF IInv, TypeOK
  <1>b. Fifo'
    BY NextFifo DEF WInv
  <1>c. ASSUME Popped' = Popped, Taken' = Taken, joined' = joined, totalSum' = totalSum
        PROVE  Sums'
    BY <1>c DEF WInv, Sums
  <1>1. ASSUME NEW c \in Consumer,
               \/ Lock(c) \/ LeaveLoop(c) \/ CondWait(c) \/ SpuriousWakeup(c)
               \/ Relock(c) \/ Unlock(c) \/ Add(c)
        PROVE  WInv'
    <2>1. /\ Popped' = Popped /\ Taken' = Taken /\ nextValue' = nextValue
          /\ joined' = joined /\ totalSum' = totalSum /\ mainPc' = mainPc
          /\ \A d \in Consumer \ {c} : pc'[d] = pc[d]
          /\ pc[c] # "done" /\ (pc'[c] = "done" => nextValue[c] = 0)
      BY <1>1, OthersTakeNothing
    <2>2. Ending'
      BY <2>1 DEF WInv, Ending
    <2>3. QED BY <2>1, <2>2, <1>b, <1>c DEF WInv
  <1>2. ASSUME NEW c \in Consumer, Pop(c) PROVE WInv'
    <2>1. /\ joined' = joined /\ totalSum' = totalSum /\ mainPc' = mainPc
          /\ pc[c] = "pop" /\ pc'[c] = "unlock"
          /\ \A d \in Consumer \ {c} : pc'[d] = pc[d] /\ nextValue'[d] = nextValue[d]
      BY <1>2 DEF Pop, mainVars, At, GoTo, IInv, TypeOK
    <2>2. Ending'
      BY <2>1 DEF WInv, Ending
    <2>3. Sums'
      <3>1. PICK f : /\ AddsUp(f, Taken) /\ f[joined] = totalSum
                     /\ f[NumConsumers] = Least(Popped, Ones)
        BY DEF WInv, Sums
      <3>2. Popped \in Nat /\ joined \in 0 .. c
        BY <2>1, <1>a DEF WInv, Fifo, Ending, Consumer
      <3>3. CASE Popped < Ones
        <4>1. PICK g : /\ AddsUp(g, [Taken EXCEPT ![c] = @ + 1])
                       /\ \A n \in 0 .. c : g[n] = f[n]
                       /\ g[NumConsumers] = f[NumConsumers] + 1
          BY <3>1, <1>a, AddOne
        <4>2. AddsUp(g, Taken')
          BY <4>1, <3>3, <1>2, PopTakes
        <4>3. g[NumConsumers] = Least(Popped', Ones)
          BY <4>1, <3>1, <3>2, <3>3, <1>2, PopTakes DEF Least
        <4>4. QED BY <4>1, <4>2, <4>3, <3>1, <3>2, <2>1 DEF Sums
      <3>4. CASE Popped >= Ones
        <4>1. Taken' = Taken /\ Least(Popped', Ones) = Least(Popped, Ones)
          BY <3>2, <3>4, <1>2, PopTakes DEF Least
        <4>2. QED BY <4>1, <3>1, <2>1 DEF Sums
      <3>5. QED BY <3>2, <3>3, <3>4
    <2>4. QED BY <2>2, <2>3, <1>b DEF WInv
  <1>3. CASE \/ CreateThread \/ CreateFails \/ MainLock \/ Push \/ Signal
             \/ MainUnlock \/ UNCHANGED vars
    <2>1. /\ Popped' = Popped /\ Taken' = Taken /\ nextValue' = nextValue /\ pc' = pc
      BY <1>3, MainTakesNothing
    <2>2. /\ joined' = joined /\ totalSum' = totalSum
          /\ mainPc' = "done" => mainPc = "done"
      BY <1>3 DEF CreateThread, CreateFails, MainLock, Push, Signal, MainUnlock,
                  vars, mainVars
    <2>3. Ending'
      BY <2>1, <2>2 DEF WInv, Ending
    <2>4. QED BY <2>1, <2>2, <2>3, <1>b, <1>c DEF WInv
  <1>4. CASE Join
    <2>1. /\ Popped' = Popped /\ Taken' = Taken /\ nextValue' = nextValue /\ pc' = pc
      BY <1>4, MainTakesNothing
    <2>2. /\ joined' = joined + 1 /\ totalSum' = totalSum + sum[joined]
          /\ pc[joined] = "done" /\ joined \in Consumer
          /\ mainPc' = "done" => joined' = NumConsumers
      BY <1>4 DEF Join, IInv, TypeOK, Bookkeeping, Consumer
    <2>3. Ending'
      <3>1. \A d \in Consumer : d < joined' => d < joined \/ d = joined
        BY <2>2, <1>a DEF Consumer
      <3>2. QED BY <2>1, <2>2, <3>1 DEF WInv, Ending
    <2>4. Taken[joined] = sum[joined]
      <3>1. InFlight(joined) = 0 /\ sum[joined] \in Nat
        BY <2>2 DEF InFlight, IInv, TypeOK
      <3>2. QED BY <3>1, <2>2 DEF Taken
    <2>5. Sums'
      <3>1. PICK f : /\ AddsUp(f, Taken) /\ f[joined] = totalSum
                     /\ f[NumConsumers] = Least(Popped, Ones)
        BY DEF WInv, Sums
      <3>2. f[joined'] = totalSum'
        BY <3>1, <2>2, <2>4 DEF AddsUp
      <3>3. QED BY <3>1, <3>2, <2>1 DEF Sums
    <2>6. QED BY <2>3, <2>5, <1>b DEF WInv
  <1>5. QED
    BY <1>1, <1>2, <1>3, <1>4 DEF Next, Main, ThreadWork, Exited

(* What the refinement rests on holds in every reachable state.            *)
LEMMA WInvariantHolds == Spec => [](IInv /\ WInv)
  BY InitIInv, NextIInv, InitWInv, NextWInv, PTL DEF Spec

-----------------------------------------------------------------------------
(* The program implements the safe part of WorkQueue.                      *)

LEMMA LeastNumber ==
  ASSUME NEW S, S \subseteq Nat, S # {}
  PROVE  \E n \in S : \A k \in S : ~(k < n)
  <1> DEFINE R == OpToRel(<, Nat)
  <1>1. IsWellFoundedOn(R, Nat)
    BY NatLessThanWellFounded, Zenon
  <1>2. \A k, n \in Nat : <<k, n>> \in R <=> k < n
    BY DEF OpToRel
  <1> HIDE DEF R
  <1>3. \E n \in S : \A k \in S : ~ (<<k, n>> \in R)
    BY <1>1, WFMin
  <1>4. QED BY <1>2, <1>3

\* The recursion of Total, of which AddsUp is a solution.
Recursion(f, s) ==
  f = [n \in 0 .. NumConsumers |-> IF n = 0 THEN 0 ELSE f[n - 1] + s[n - 1]]

LEMMA AddsUpSolves ==
  ASSUME NEW f, NEW s, AddsUp(f, s)
  PROVE  Recursion(f, s)
  <1>1. \A n \in 0 .. NumConsumers : f[n] = IF n = 0 THEN 0 ELSE f[n - 1] + s[n - 1]
    <2> TAKE n \in 0 .. NumConsumers
    <2>1. CASE n = 0
      BY <2>1 DEF AddsUp
    <2>2. CASE n # 0
      <3>1. n - 1 \in Consumer /\ (n - 1) + 1 = n
        BY <2>2 DEF Consumer
      <3>2. f[(n - 1) + 1] = f[n - 1] + s[n - 1]
        BY <3>1 DEF AddsUp
      <3>3. QED BY <3>1, <3>2, <2>2
    <2>3. QED BY <2>1, <2>2
  <1>2. f = [n \in 0 .. NumConsumers |-> f[n]]
    BY DEF AddsUp
  <1>3. QED BY <1>1, <1>2 DEF Recursion

\* It is the only one.
LEMMA OneSolution ==
  ASSUME NEW f, NEW g, NEW s, Recursion(f, s), Recursion(g, s)
  PROVE  f[NumConsumers] = g[NumConsumers]
  <1> DEFINE S == {n \in 0 .. NumConsumers : f[n] # g[n]}
  <1>1. SUFFICES ASSUME S # {} PROVE FALSE
    BY <1>1
  <1>2. PICK n \in S : \A k \in S : ~(k < n)
    <2>1. S \subseteq Nat
      OBVIOUS
    <2> HIDE DEF S
    <2>2. QED BY <2>1, <1>1, LeastNumber
  <1>3. /\ f[n] = IF n = 0 THEN 0 ELSE f[n - 1] + s[n - 1]
        /\ g[n] = IF n = 0 THEN 0 ELSE g[n - 1] + s[n - 1]
    BY DEF Recursion
  <1>4. n # 0 /\ n - 1 \in 0 .. NumConsumers /\ n - 1 < n
    BY <1>3
  <1>5. f[n - 1] = g[n - 1]
    BY <1>2, <1>4
  <1>6. QED BY <1>3, <1>4, <1>5

LEMMA TotalIs ==
  ASSUME NEW f, AddsUp(f, Taken)
  PROVE  WQ!Total = f[NumConsumers]
  <1> DEFINE upTo == CHOOSE g : Recursion(g, Taken)
  <1>1. Recursion(f, Taken)
    BY AddsUpSolves
  <1>2. Recursion(upTo, Taken)
    BY <1>1, Zenon
  <1>3. WQ!Total = upTo[NumConsumers]
    BY Zenon DEF WQ!Total, Recursion
  <1> HIDE DEF upTo
  <1>4. QED BY <1>1, <1>2, <1>3, OneSolution

\* The ones that are left are those that have not been popped.
LEMMA LeftIs == IInv /\ WInv => Left = Ones - Least(Popped, Ones)
  <1> SUFFICES ASSUME IInv, WInv PROVE Left = Ones - Least(Popped, Ones)
    OBVIOUS
  <1>1. OnesQueued = IF Pushed <= Ones THEN Len(q)
                     ELSE IF Popped >= Ones THEN 0 ELSE Ones - Popped
    BY QueueContents DEF WInv
  <1>2. OnesToPush = IF Pushed < Ones THEN Ones - Pushed ELSE 0
    BY DEF OnesToPush
  <1>3. /\ Popped \in Nat /\ Len(q) \in Nat /\ Pushed \in Nat /\ Ones \in Nat
        /\ Pushed = Popped + Len(q)
    BY Numbers DEF WInv, Fifo
  <1>4. OnesQueued + OnesToPush = IF Popped < Ones THEN Ones - Popped ELSE 0
    <2>1. CASE Pushed < Ones
      <3>1. OnesToPush = Ones - Pushed /\ OnesQueued = Len(q) /\ Popped < Ones
        BY <2>1, <1>1, <1>2, <1>3
      <3>2. QED BY <3>1, <1>3
    <2>2. CASE Pushed >= Ones
      <3>1. OnesToPush = 0
        BY <2>2, <1>2, <1>3
      <3>2. OnesQueued = IF Popped < Ones THEN Ones - Popped ELSE 0
        BY <2>2, <1>1, <1>3
      <3>3. QED BY <3>1, <3>2, <1>3
    <2>3. QED BY <2>1, <2>2, <1>3
  <1>5. OnesToPush \in Int /\ OnesQueued \in Int
    BY <1>1, <1>2, <1>3
  <1>6. Left = IF Popped < Ones THEN Ones - Popped ELSE 0
    BY <1>4, <1>5 DEF Left
  <1>7. QED BY <1>3, <1>6 DEF Least

LEMMA InitRefines == Init => WQ!Init
  <1> SUFFICES ASSUME Init PROVE WQ!Init
    OBVIOUS
  <1>1. IInv /\ WInv
    BY InitIInv, InitWInv
  <1>2. Left = Ones - Least(Popped, Ones)
    BY <1>1, LeftIs
  <1>3. Len(q) = 0
    BY DEF Init, myqueue_init
  <1>4. Pushed = 0
    BY DEF Init, Pushed
  <1>5. Left = Ones
    BY <1>2, <1>3, <1>4 DEF Popped, Least
  <1>6. Stopped = {} /\ Outcome = "working"
    BY DEF Init, Stopped, Outcome
  <1>7. Taken = [c \in Consumer |-> 0]
    BY DEF Init, Taken, InFlight
  <1>8. QED BY <1>5, <1>6, <1>7 DEF WQ!Init, WQ!Consumer, Consumer

LEMMA StepRefines ==
  IInv /\ WInv /\ IInv' /\ WInv' /\ [Next]_vars => [WQ!Next]_(WQ!vars)
  <1> SUFFICES ASSUME IInv, WInv, IInv', WInv', [Next]_vars
               PROVE  [WQ!Next]_(WQ!vars)
    OBVIOUS
  <1>a. /\ Left = Ones - Least(Popped, Ones)
        /\ Left' = Ones - Least(Popped', Ones)
    <2>1. (IInv /\ WInv => Left = Ones - Least(Popped, Ones))'
      BY LeftIs, PTL
    <2>2. QED BY <2>1, LeftIs
  <1>b. Popped \in Nat
    BY DEF WInv, Fifo
  <1>c. ASSUME Popped' = Popped, nextValue' = nextValue, Taken' = Taken, Outcome' = Outcome
        PROVE  UNCHANGED WQ!vars
    BY <1>a, <1>c DEF WQ!vars, Stopped
  <1>1. ASSUME NEW c \in Consumer,
               \/ Lock(c) \/ LeaveLoop(c) \/ CondWait(c) \/ SpuriousWakeup(c)
               \/ Relock(c) \/ Unlock(c) \/ Add(c)
        PROVE  UNCHANGED WQ!vars
    <2>1. /\ Popped' = Popped /\ Taken' = Taken /\ nextValue' = nextValue
          /\ totalSum' = totalSum /\ mainPc' = mainPc
      BY <1>1, OthersTakeNothing
    <2>2. QED BY <2>1, <1>c DEF Outcome
  <1>2. ASSUME NEW c \in Consumer, Pop(c) PROVE WQ!Take(c) \/ WQ!Stop(c)
    <2>1. Outcome = "working" /\ Outcome' = "working"
      <3>1. mainPc # "failed" /\ pc[c] = "pop" /\ mainPc' = mainPc
        BY <1>2 DEF Pop, At, mainVars
      <3>2. mainPc # "done"
        BY <3>1 DEF WInv, Ending, Consumer
      <3>3. QED BY <3>1, <3>2 DEF Outcome
    <2>2. c \notin Stopped
      BY <1>2 DEF Pop, At, IInv, Bookkeeping, Stopped
    <2>3. CASE Popped < Ones
      <3>1. Left > 0 /\ Left' = Left - 1
        BY <2>3, <1>a, <1>b, <1>2, PopTakes DEF Least
      <3>2. Stopped' = Stopped /\ Taken' = [Taken EXCEPT ![c] = @ + 1]
        BY <2>3, <1>2, PopTakes
      <3>3. QED BY <3>1, <3>2, <2>1, <2>2 DEF WQ!Take
    <2>4. CASE Popped >= Ones
      <3>1. Left = 0 /\ Left' = 0
        BY <2>4, <1>a, <1>b, <1>2, PopTakes DEF Least
      <3>2. Stopped' = Stopped \cup {c} /\ Taken' = Taken
        BY <2>4, <1>2, PopTakes
      <3>3. QED BY <3>1, <3>2, <2>1, <2>2 DEF WQ!Stop
    <2>5. QED BY <2>3, <2>4, <1>b
  <1>3. CASE CreateThread \/ MainLock \/ Push \/ Signal \/ MainUnlock \/ UNCHANGED vars
    <2>1. Popped' = Popped /\ Taken' = Taken /\ nextValue' = nextValue
      BY <1>3, MainTakesNothing
    <2>2. Outcome' = Outcome
      BY <1>3 DEF CreateThread, MainLock, Push, Signal, MainUnlock, vars, mainVars, Outcome
    <2>3. QED BY <2>1, <2>2, <1>c
  <1>4. CASE CreateFails
    <2>1. Popped' = Popped /\ Taken' = Taken /\ nextValue' = nextValue
      BY <1>4, MainTakesNothing
    <2>2. mainPc = "create" /\ mainPc' = "failed" /\ Pushed = 0
      BY <1>4 DEF CreateFails, IInv, Bookkeeping, Pushed
    <2>3. Popped = 0
      BY <2>2, <1>b, Numbers
    <2>4. Left = Ones /\ Left' = Left
      BY <2>1, <2>3, <1>a DEF Least
    <2>5. Stopped = {} /\ Stopped' = Stopped
      <3>1. Cardinality(Stopped) = 0
        BY <2>3 DEF WInv, Fifo
      <3>2. QED BY <3>1, <2>1, Numbers, FS_EmptySet DEF Stopped
    <2>6. Outcome = "working" /\ Outcome' = "failed"
      BY <2>2 DEF Outcome
    <2>7. QED BY <2>1, <2>4, <2>5, <2>6 DEF WQ!Next, WQ!Fail
  <1>5. CASE Join
    <2>1. Popped' = Popped /\ Taken' = Taken /\ nextValue' = nextValue
      BY <1>5, MainTakesNothing
    <2>2. mainPc = "join" /\ mainPc' \in {"join", "done"}
      BY <1>5 DEF Join
    <2>3. CASE mainPc' = "join"
      BY <2>1, <2>2, <2>3, <1>c DEF Outcome
    <2>4. CASE mainPc' = "done"
      <3>1. Stopped' = Stopped /\ Stopped = Consumer
        <4>1. /\ joined' = NumConsumers
              /\ \A c \in Consumer : c < joined' => nextValue'[c] = 0
          BY <2>4 DEF WInv, Ending
        <4>2. QED BY <4>1, <2>1 DEF Stopped, Consumer
      <3>2. Popped > Ones
        <4>1. Cardinality(Stopped) = NumConsumers
          BY <3>1, FiniteConsumers
        <4>2. QED BY <4>1, <1>b DEF WInv, Fifo
      <3>3. Least(Popped, Ones) = Ones /\ Left = 0 /\ Left' = 0
        BY <3>2, <1>a, <1>b, <2>1 DEF Least
      <3>4. WQ!Total = Ones /\ totalSum' = Ones
        <4>1. PICK f : /\ AddsUp(f, Taken') /\ f[joined'] = totalSum'
                       /\ f[NumConsumers] = Least(Popped', Ones)
          BY DEF WInv, Sums
        <4>2. joined' = NumConsumers
          BY <2>4 DEF WInv, Ending
        <4>3. QED BY <4>1, <4>2, <3>3, <2>1, TotalIs
      <3>5. Outcome = "working" /\ Outcome' = "reported"
        BY <2>2, <2>4, <3>4 DEF Outcome
      <3>6. QED
        BY <3>1, <3>3, <3>4, <3>5, <2>1 DEF WQ!Next, WQ!Report, WQ!Consumer, Consumer
    <2>5. QED BY <2>2, <2>3, <2>4
  <1>6. Consumer = WQ!Consumer
    BY DEF Consumer, WQ!Consumer
  <1>7. QED
    BY <1>1, <1>2, <1>3, <1>4, <1>5, <1>6 DEF Next, Main, ThreadWork, Exited, WQ!Next

(* The program implements the abstract queue of work, its liveness left    *)
(* aside: every one is added to one sum, once, no consumer stops while     *)
(* there is work, and what main prints is the number of ones.              *)
THEOREM ProgramImplementsWorkQueue == Spec => WQ!Spec
  BY WInvariantHolds, InitRefines, StepRefines, PTL DEF Spec, WQ!Spec
=============================================================================
