----------------------------- MODULE CondQueue -----------------------------
(***************************************************************************)
(* exercise07/task2/task2.c: main creates the consumer threads, pushes     *)
(* Ones ones and one terminating zero per consumer, each under the mutex   *)
(* and followed by pthread_cond_signal, and then joins the consumers and   *)
(* adds up their sums.  A consumer pops a value under the mutex, waiting   *)
(* on the condition variable while the queue is empty, and adds it to its  *)
(* sum after the unlock; it stops when the value was zero.                 *)
(***************************************************************************)
EXTENDS Integers, FiniteSets, MyQueue

CONSTANTS NumConsumers,  (* 50 in the source *)
          Ones           (* 10000 in the source *)

ASSUME QueueAssumption ==
  /\ NumConsumers \in Nat \ {0}
  /\ Ones \in Nat

Consumer == 0 .. NumConsumers - 1
MainThread == NumConsumers
NoOne == NumConsumers + 1

VARIABLES
  q,          \* the queue
  owner,      \* who holds the mutex "lock", or NoOne
  waiting,    \* the threads blocked in pthread_cond_wait on q_cv
  pc,         \* pc[c]: where consumer c is in thread_work()
  nextValue,  \* nextValue[c] of thread_work()
  sum,        \* sum[c] of thread_work()
  mainPc,     \* where main is
  created,    \* the threads 0 .. created - 1 exist
  i,          \* main's loop counter of the pushing loop
  joined,     \* the threads 0 .. joined - 1 have been joined
  totalSum    \* totalSum of main

consumerVars == <<pc, nextValue, sum>>
mainVars == <<mainPc, created, i, joined, totalSum>>
vars == <<q, owner, waiting, consumerVars, mainVars>>

Init ==
  /\ q = myqueue_init
  /\ owner = NoOne
  /\ waiting = {}
  /\ pc = [c \in Consumer |-> "lock"]
  /\ nextValue = [c \in Consumer |-> -1]
  /\ sum = [c \in Consumer |-> 0]
  /\ mainPc = "create"
  /\ created = 0
  /\ i = 0
  /\ joined = 0
  /\ totalSum = 0

-----------------------------------------------------------------------------
(* thread_work().  A failed pthread_create makes main exit the process, so *)
(* no consumer runs after it.                                              *)

At(c, l) == c < created /\ mainPc # "failed" /\ pc[c] = l
GoTo(c, l) == pc' = [pc EXCEPT ![c] = l]

Lock(c) ==
  /\ At(c, "lock")
  /\ owner = NoOne
  /\ owner' = c
  /\ GoTo(c, "test")
  /\ UNCHANGED <<q, waiting, nextValue, sum, mainVars>>

\* The test of the while loop is passed: the queue is not empty.
LeaveLoop(c) ==
  /\ At(c, "test")
  /\ ~myqueue_is_empty(q)
  /\ GoTo(c, "pop")
  /\ UNCHANGED <<q, owner, waiting, nextValue, sum, mainVars>>

CondWait(c) ==
  /\ At(c, "test")
  /\ myqueue_is_empty(q)
  /\ owner' = NoOne
  /\ waiting' = waiting \cup {c}
  /\ GoTo(c, "wait")
  /\ UNCHANGED <<q, nextValue, sum, mainVars>>

\* POSIX lets pthread_cond_wait return without a signal.
SpuriousWakeup(c) ==
  /\ At(c, "wait")
  /\ c \in waiting
  /\ waiting' = waiting \ {c}
  /\ UNCHANGED <<q, owner, consumerVars, mainVars>>

\* Mutant of Relock: "if" instead of "while" around pthread_cond_wait.
Relock_NoRetest(c) ==
  /\ At(c, "wait")
  /\ c \notin waiting
  /\ owner = NoOne
  /\ owner' = c
  /\ GoTo(c, "pop")
  /\ UNCHANGED <<q, waiting, nextValue, sum, mainVars>>

\* A woken thread returns from pthread_cond_wait with the mutex locked
\* again, and goes back to the test.
Relock(c) ==
  /\ At(c, "wait")
  /\ c \notin waiting
  /\ owner = NoOne
  /\ owner' = c
  /\ GoTo(c, "test")
  /\ UNCHANGED <<q, waiting, nextValue, sum, mainVars>>

Pop(c) ==
  /\ At(c, "pop")
  /\ ~myqueue_is_empty(q)
  /\ nextValue' = [nextValue EXCEPT ![c] = myqueue_first(q)]
  /\ q' = myqueue_rest(q)
  /\ GoTo(c, "unlock")
  /\ UNCHANGED <<owner, waiting, sum, mainVars>>

Unlock(c) ==
  /\ At(c, "unlock")
  /\ owner' = NoOne
  /\ GoTo(c, "add")
  /\ UNCHANGED <<q, waiting, nextValue, sum, mainVars>>

Add(c) ==
  /\ At(c, "add")
  /\ sum' = [sum EXCEPT ![c] = @ + nextValue[c]]
  /\ GoTo(c, IF nextValue[c] # 0 THEN "lock" ELSE "done")
  /\ UNCHANGED <<q, owner, waiting, nextValue, mainVars>>

ThreadWork(c) ==
  \/ Lock(c) \/ LeaveLoop(c) \/ CondWait(c) \/ Relock(c)
  \/ Pop(c) \/ Unlock(c) \/ Add(c)

-----------------------------------------------------------------------------
(* main().                                                                 *)

CreateThread ==
  /\ mainPc = "create"
  /\ created < NumConsumers
  /\ created' = created + 1
  /\ mainPc' = IF created + 1 = NumConsumers THEN "lock" ELSE "create"
  /\ UNCHANGED <<q, owner, waiting, consumerVars, i, joined, totalSum>>

\* exit(EXIT_FAILURE): the threads created so far end with the process.
CreateFails ==
  /\ mainPc = "create"
  /\ created < NumConsumers
  /\ mainPc' = "failed"
  /\ UNCHANGED <<q, owner, waiting, consumerVars, created, i, joined, totalSum>>

MainLock ==
  /\ mainPc = "lock"
  /\ owner = NoOne
  /\ owner' = MainThread
  /\ mainPc' = "push"
  /\ UNCHANGED <<q, waiting, consumerVars, created, i, joined, totalSum>>

\* Mutant of NewValue: the zeroes start one value too early.
NewValue_OneEarly(n) == IF n >= Ones - 1 THEN 0 ELSE 1

\* newValue of the loop's n-th round.
NewValue(n) == IF n >= Ones THEN 0 ELSE 1

Push ==
  /\ mainPc = "push"
  /\ q' = myqueue_push(q, NewValue(i))
  /\ mainPc' = "signal"
  /\ UNCHANGED <<owner, waiting, consumerVars, created, i, joined, totalSum>>

\* Mutant of Signal: only the push into an empty queue is signalled.
Signal_OnlyFirst ==
  /\ mainPc = "signal"
  /\ IF waiting = {} \/ Len(q) > 1
     THEN waiting' = waiting
     ELSE \E c \in waiting : waiting' = waiting \ {c}
  /\ mainPc' = "unlock"
  /\ UNCHANGED <<q, owner, consumerVars, created, i, joined, totalSum>>

\* pthread_cond_signal wakes one of the waiting threads, if there is one.
Signal ==
  /\ mainPc = "signal"
  /\ IF waiting = {}
     THEN waiting' = waiting
     ELSE \E c \in waiting : waiting' = waiting \ {c}
  /\ mainPc' = "unlock"
  /\ UNCHANGED <<q, owner, consumerVars, created, i, joined, totalSum>>

\* Mutant of MainUnlock: one terminating zero is missing.
MainUnlock_OneLess ==
  /\ mainPc = "unlock"
  /\ owner' = NoOne
  /\ i' = i + 1
  /\ mainPc' = IF i + 1 < Ones + NumConsumers - 1 THEN "lock" ELSE "join"
  /\ UNCHANGED <<q, waiting, consumerVars, created, joined, totalSum>>

MainUnlock ==
  /\ mainPc = "unlock"
  /\ owner' = NoOne
  /\ i' = i + 1
  /\ mainPc' = IF i + 1 < Ones + NumConsumers THEN "lock" ELSE "join"
  /\ UNCHANGED <<q, waiting, consumerVars, created, joined, totalSum>>

\* pthread_join, then totalSum += threadSum.
Join ==
  /\ mainPc = "join"
  /\ pc[joined] = "done"
  /\ totalSum' = totalSum + sum[joined]
  /\ joined' = joined + 1
  /\ mainPc' = IF joined + 1 < NumConsumers THEN "join" ELSE "done"
  /\ UNCHANGED <<q, owner, waiting, consumerVars, created, i>>

Main ==
  \/ CreateThread \/ CreateFails \/ MainLock \/ Push \/ Signal \/ MainUnlock
  \/ Join

\* The process has ended, with either exit status.
Exited == mainPc \in {"done", "failed"} /\ UNCHANGED vars

Next ==
  \/ Main
  \/ Exited
  \/ \E c \in Consumer : ThreadWork(c) \/ SpuriousWakeup(c)

Spec == Init /\ [][Next]_vars

\* Every thread keeps running while it is not blocked.  A condition variable
\* that woke its waiters without end would keep the mutex busy, so spurious
\* wakeups are assumed to cease.
Fairness ==
  /\ WF_vars(Main)
  /\ \A c \in Consumer : WF_vars(ThreadWork(c))
  /\ <>[][\A c \in Consumer : ~SpuriousWakeup(c)]_vars

FairSpec == Spec /\ Fairness

-----------------------------------------------------------------------------
(* Type invariant.                                                         *)
TypeOK ==
  /\ q \in Seq({0, 1})
  /\ owner \in Consumer \cup {MainThread, NoOne}
  /\ waiting \subseteq Consumer
  /\ pc \in [Consumer -> {"lock", "test", "wait", "pop", "unlock", "add", "done"}]
  /\ nextValue \in [Consumer -> {-1, 0, 1}]
  /\ sum \in [Consumer -> Nat]
  /\ mainPc \in {"create", "lock", "push", "signal", "unlock", "join", "done", "failed"}
  /\ created \in 0 .. NumConsumers
  /\ i \in 0 .. Ones + NumConsumers
  /\ joined \in 0 .. NumConsumers
  /\ totalSum \in Nat

(* The mutex is held exactly by the thread that is in its critical         *)
(* section: q is never touched by two threads, no unlock is missing and    *)
(* pthread_cond_wait gives the mutex back.                                 *)
MutexExact ==
  /\ \A c \in Consumer : owner = c <=> pc[c] \in {"test", "pop", "unlock"}
  /\ owner = MainThread <=> mainPc \in {"push", "signal", "unlock"}

(* The assertion of myqueue_pop: a consumer that is about to pop finds a   *)
(* value, also after a wakeup that another consumer was faster to use.     *)
PopFindsValue == \A c \in Consumer : pc[c] = "pop" => ~myqueue_is_empty(q)

\* The values main has pushed, and the ones it has still to push.
Pushed == i + (IF mainPc \in {"signal", "unlock"} THEN 1 ELSE 0)
OnesToPush == IF Pushed < Ones THEN Ones - Pushed ELSE 0

\* The ones in the queue, and what consumer c has popped and not added yet.
OnesQueued == Cardinality({k \in 1 .. Len(q) : q[k] = 1})
InFlight(c) == IF pc[c] \in {"unlock", "add"} THEN nextValue[c] ELSE 0
Stopped == {c \in Consumer : nextValue[c] = 0}

(* A terminating zero is only reached when all the ones before it have     *)
(* been taken, and every consumer that has not had one will get one.       *)
OneZeroEach ==
  /\ Stopped # {} => OnesToPush = 0 /\ OnesQueued = 0
  /\ mainPc # "failed" =>
       Cardinality(Consumer \ Stopped)
         = (Ones + NumConsumers - Pushed) - OnesToPush
             + Cardinality({k \in 1 .. Len(q) : q[k] = 0})

(* No lost wakeup: while threads wait, every value in the queue has a      *)
(* thread that is awake and will come back for it, or main is on its way   *)
(* to signal the value it has just pushed.                                 *)
Awake == {c \in Consumer : c \notin waiting /\ nextValue[c] # 0}

NoLostWakeup ==
  waiting # {} =>
    Len(q) <= Cardinality(Awake) + (IF mainPc = "signal" THEN 1 ELSE 0)

\* The ones that no consumer has taken, what each has taken (what it has
\* popped is taken), and what main has come to.
Left == OnesToPush + OnesQueued
Taken == [c \in Consumer |-> sum[c] + InFlight(c)]
Outcome == CASE mainPc = "done" /\ totalSum = Ones -> "reported"
             [] mainPc = "done" /\ totalSum # Ones -> "wrong total"
             [] mainPc = "failed" -> "failed"
             [] OTHER -> "working"

WQ == INSTANCE WorkQueue
        WITH left <- Left, sum <- Taken, stopped <- Stopped, outcome <- Outcome

(* The program implements the abstract queue of work: every one is added   *)
(* to one sum, once, no consumer stops while there is work, and main gets  *)
(* to its report and prints Ones.                                          *)
ImplementsWorkQueue == WQ!FairSpec
=============================================================================
