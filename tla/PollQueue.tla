----------------------------- MODULE PollQueue -----------------------------
(***************************************************************************)
(* exercise06/task2/task2.c (pthread mutex) and exercise07/task1/task1.c   *)
(* (pthread spinlock): the same program with two kinds of lock.  main      *)
(* creates the consumers and pushes all the ones and the terminating       *)
(* zeroes under one hold of the lock; a consumer polls the queue under the *)
(* lock until it pops a zero.                                              *)
(***************************************************************************)
EXTENDS Integers, FiniteSets, MyQueue

CONSTANTS NumConsumers,  (* 5 in exercise06, 50 in exercise07 *)
          Ones           (* 10000 in both                     *)

ASSUME PollAssumption ==
  /\ NumConsumers \in Nat \ {0}
  /\ Ones \in Nat

Consumer == 0 .. NumConsumers - 1
MainThread == NumConsumers
NoOne == NumConsumers + 1

VARIABLES
  q,          \* the queue
  owner,      \* who holds "lock", or NoOne
  pc,         \* pc[c]: where consumer c is in thread_work()
  nextValue,  \* nextValue[c] of thread_work()
  sum,        \* sum[c] of thread_work()
  mainPc,     \* where main is
  created,    \* the threads 0 .. created - 1 exist
  i,          \* main's loop counter of the pushing loop
  joined,     \* the threads 0 .. joined - 1 have been joined
  totalSum    \* totalSum of main

consumerVars == <<pc, nextValue, sum>>
mainVars == <<mainPc, created, i, joined, totalSum>>
vars == <<q, owner, consumerVars, mainVars>>

Init ==
  /\ q = myqueue_init
  /\ owner = NoOne
  /\ pc = [c \in Consumer |-> "lock"]
  /\ nextValue = [c \in Consumer |-> -1]
  /\ sum = [c \in Consumer |-> 0]
  /\ mainPc = "create"
  /\ created = 0
  /\ i = 0
  /\ joined = 0
  /\ totalSum = 0

-----------------------------------------------------------------------------
(* thread_work().                                                          *)

At(c, l) == c < created /\ mainPc # "failed" /\ pc[c] = l
GoTo(c, l) == pc' = [pc EXCEPT ![c] = l]

\* Mutant of Lock: the test of the queue is not protected by the lock.
Lock_Unprotected(c) ==
  /\ At(c, "lock")
  /\ GoTo(c, "test")
  /\ UNCHANGED <<q, owner, nextValue, sum, mainVars>>

Lock(c) ==
  /\ At(c, "lock")
  /\ owner = NoOne
  /\ owner' = c
  /\ GoTo(c, "test")
  /\ UNCHANGED <<q, nextValue, sum, mainVars>>

FindEmpty(c) ==
  /\ At(c, "test")
  /\ myqueue_is_empty(q)
  /\ GoTo(c, "unlock")
  /\ UNCHANGED <<q, owner, nextValue, sum, mainVars>>

FindValue(c) ==
  /\ At(c, "test")
  /\ ~myqueue_is_empty(q)
  /\ GoTo(c, "pop")
  /\ UNCHANGED <<q, owner, nextValue, sum, mainVars>>

\* Pops and adds; the assertion of myqueue_pop is a guard.
Pop(c) ==
  /\ At(c, "pop")
  /\ ~myqueue_is_empty(q)
  /\ nextValue' = [nextValue EXCEPT ![c] = myqueue_first(q)]
  /\ sum' = [sum EXCEPT ![c] = @ + myqueue_first(q)]
  /\ q' = myqueue_rest(q)
  /\ GoTo(c, "unlock")
  /\ UNCHANGED <<owner, mainVars>>

\* Mutant of Unlock: a consumer that has had its zero goes on.
Unlock_GoesOn(c) ==
  /\ At(c, "unlock")
  /\ owner' = NoOne
  /\ GoTo(c, "lock")
  /\ UNCHANGED <<q, nextValue, sum, mainVars>>

Unlock(c) ==
  /\ At(c, "unlock")
  /\ owner' = NoOne
  /\ GoTo(c, IF nextValue[c] # 0 THEN "lock" ELSE "done")
  /\ UNCHANGED <<q, nextValue, sum, mainVars>>

ThreadWork(c) ==
  Lock(c) \/ FindEmpty(c) \/ FindValue(c) \/ Pop(c) \/ Unlock(c)

-----------------------------------------------------------------------------
(* main().                                                                 *)

CreateThread ==
  /\ mainPc = "create"
  /\ created' = created + 1
  /\ mainPc' = IF created + 1 = NumConsumers THEN "lock" ELSE "create"
  /\ UNCHANGED <<q, owner, consumerVars, i, joined, totalSum>>

CreateFails ==
  /\ mainPc = "create"
  /\ mainPc' = "failed"
  /\ UNCHANGED <<q, owner, consumerVars, created, i, joined, totalSum>>

MainLock ==
  /\ mainPc = "lock"
  /\ owner = NoOne
  /\ owner' = MainThread
  /\ mainPc' = "push"
  /\ UNCHANGED <<q, consumerVars, created, i, joined, totalSum>>

\* The loop's i-th round; the lock is kept from the first to the last.
Push ==
  /\ mainPc = "push"
  /\ q' = myqueue_push(q, IF i >= Ones THEN 0 ELSE 1)
  /\ i' = i + 1
  /\ mainPc' = IF i + 1 < Ones + NumConsumers THEN "push" ELSE "unlock"
  /\ UNCHANGED <<owner, consumerVars, created, joined, totalSum>>

MainUnlock ==
  /\ mainPc = "unlock"
  /\ owner' = NoOne
  /\ mainPc' = "join"
  /\ UNCHANGED <<q, consumerVars, created, i, joined, totalSum>>

\* Mutant of Join: the sum is read without waiting for the thread.
Join_NoWait ==
  /\ mainPc = "join"
  /\ totalSum' = totalSum + sum[joined]
  /\ joined' = joined + 1
  /\ mainPc' = IF joined + 1 < NumConsumers THEN "join" ELSE "done"
  /\ UNCHANGED <<q, owner, consumerVars, created, i>>

Join ==
  /\ mainPc = "join"
  /\ pc[joined] = "done"
  /\ totalSum' = totalSum + sum[joined]
  /\ joined' = joined + 1
  /\ mainPc' = IF joined + 1 < NumConsumers THEN "join" ELSE "done"
  /\ UNCHANGED <<q, owner, consumerVars, created, i>>

Main ==
  CreateThread \/ CreateFails \/ MainLock \/ Push \/ MainUnlock \/ Join

Exited == mainPc \in {"done", "failed"} /\ UNCHANGED vars

Next == Main \/ Exited \/ \E c \in Consumer : ThreadWork(c)

Spec == Init /\ [][Next]_vars

\* Threads that are not blocked keep running.  Neither lock is fair, so
\* nothing is assumed about who gets it: while main has not had it, the
\* consumers may poll the empty queue for ever.
Fairness == WF_vars(Main) /\ \A c \in Consumer : WF_vars(ThreadWork(c))

FairSpec == Spec /\ Fairness

-----------------------------------------------------------------------------
(* Type invariant.                                                         *)
TypeOK ==
  /\ q \in Seq({0, 1})
  /\ owner \in Consumer \cup {MainThread, NoOne}
  /\ pc \in [Consumer -> {"lock", "test", "pop", "unlock", "done"}]
  /\ nextValue \in [Consumer -> {-1, 0, 1}]
  /\ sum \in [Consumer -> Nat]
  /\ mainPc \in {"create", "lock", "push", "unlock", "join", "done", "failed"}
  /\ created \in 0 .. NumConsumers
  /\ i \in 0 .. Ones + NumConsumers
  /\ joined \in 0 .. NumConsumers
  /\ totalSum \in Nat

(* The assertion of myqueue_pop holds: what a consumer has seen in the     *)
(* queue is still there when it pops.                                      *)
PopFindsValue == \A c \in Consumer : pc[c] = "pop" => ~myqueue_is_empty(q)

OnesToPush == IF i < Ones THEN Ones - i ELSE 0
OnesQueued == Cardinality({k \in 1 .. Len(q) : q[k] = 1})
Stopped == {c \in Consumer : nextValue[c] = 0}

\* The ones that no consumer has taken, and what main has come to.
Left == OnesToPush + OnesQueued
Outcome == CASE mainPc = "done" /\ totalSum = Ones -> "reported"
             [] mainPc = "done" /\ totalSum # Ones -> "wrong total"
             [] mainPc = "failed" -> "failed"
             [] OTHER -> "working"

WQ == INSTANCE WorkQueue WITH left <- Left, stopped <- Stopped, outcome <- Outcome

(* The program implements the abstract queue of work, but for its promise  *)
(* to get anywhere, which would need a fair lock.                          *)
ImplementsWorkQueue == WQ!Spec

(* Once main has had the lock, every consumer finds its zero and main      *)
(* reports, whoever wins the lock: no acquisition finds the queue empty.   *)
DrainsOncePushed == mainPc = "push" ~> mainPc = "done"
=============================================================================
