---------------------------- MODULE Philosophers ----------------------------
(***************************************************************************)
(* exercise06/task3/philosophers.c: NUM_PHILOSOPHER threads around a       *)
(* table, one pthread mutex per chopstick.  A philosopher locks its two    *)
(* chopsticks one after the other, in an order that depends on whether its *)
(* number is odd, eats, and unlocks them one after the other.  main        *)
(* creates the threads, joins them in order and then destroys the mutexes. *)
(***************************************************************************)
EXTENDS Naturals

CONSTANTS NUM_PHILOSOPHER,  (* the number of philosophers and chopsticks *)
          EAT_ITERATIONS    (* how often every philosopher eats          *)

ASSUME PhilosophersAssumption ==
  /\ NUM_PHILOSOPHER \in Nat /\ NUM_PHILOSOPHER > 1
  /\ EAT_ITERATIONS \in Nat /\ EAT_ITERATIONS > 0

Philosopher == 0 .. NUM_PHILOSOPHER - 1
NoOne == NUM_PHILOSOPHER   \* the "owner" of a mutex that nobody holds

VARIABLES
  chopstick,  \* chopstick[c]: the philosopher that holds mutex c, or NoOne
  pc,         \* pc[n]: where philosopher n is in dine()
  meals,      \* meals[n]: the loop counter i of philosopher n
  created,    \* main has created the threads 0 .. created - 1
  joined,     \* main has joined the threads 0 .. joined - 1
  destroyed   \* main has destroyed the mutexes

vars == <<chopstick, pc, meals, created, joined, destroyed>>

RIGHT_CHOPSTICK(n) == n
LEFT_CHOPSTICK(n)  == (n + 1) % NUM_PHILOSOPHER

\* Mutant of IsOdd: every philosopher starts on its right, the exercise's
\* original program.
IsOdd_AllRightFirst(n) == FALSE

IsOdd(n) == n % 2 = 1

\* The mutex that dine() locks first, and the one it locks second.
First(n)  == IF IsOdd(n) THEN LEFT_CHOPSTICK(n) ELSE RIGHT_CHOPSTICK(n)
Second(n) == IF IsOdd(n) THEN RIGHT_CHOPSTICK(n) ELSE LEFT_CHOPSTICK(n)

Init ==
  /\ chopstick = [c \in Philosopher |-> NoOne]
  /\ pc = [n \in Philosopher |-> "first"]
  /\ meals = [n \in Philosopher |-> 0]
  /\ created = 0
  /\ joined = 0
  /\ destroyed = FALSE

-----------------------------------------------------------------------------
(* dine(), one action per mutex call.  usleep() is the time between       *)
(* TakeSecond and PutLeft.                                                 *)

Running(n, at) == n < created /\ pc[n] = at

TakeFirst(n) ==
  /\ Running(n, "first")
  /\ chopstick[First(n)] = NoOne
  /\ chopstick' = [chopstick EXCEPT ![First(n)] = n]
  /\ pc' = [pc EXCEPT ![n] = "second"]
  /\ UNCHANGED <<meals, created, joined, destroyed>>

\* Mutant of TakeSecond: an attempt to lock whose failure is not looked at.
TakeSecond_IgnoresBusy(n) ==
  /\ Running(n, "second")
  /\ chopstick' = [chopstick EXCEPT ![Second(n)] = n]
  /\ pc' = [pc EXCEPT ![n] = "eating"]
  /\ UNCHANGED <<meals, created, joined, destroyed>>

TakeSecond(n) ==
  /\ Running(n, "second")
  /\ chopstick[Second(n)] = NoOne
  /\ chopstick' = [chopstick EXCEPT ![Second(n)] = n]
  /\ pc' = [pc EXCEPT ![n] = "eating"]
  /\ UNCHANGED <<meals, created, joined, destroyed>>

PutLeft(n) ==
  /\ Running(n, "eating")
  /\ chopstick' = [chopstick EXCEPT ![LEFT_CHOPSTICK(n)] = NoOne]
  /\ pc' = [pc EXCEPT ![n] = "putRight"]
  /\ UNCHANGED <<meals, created, joined, destroyed>>

PutRight(n) ==
  /\ Running(n, "putRight")
  /\ chopstick' = [chopstick EXCEPT ![RIGHT_CHOPSTICK(n)] = NoOne]
  /\ meals' = [meals EXCEPT ![n] = @ + 1]
  /\ pc' = [pc EXCEPT ![n] = IF meals[n] + 1 < EAT_ITERATIONS
                             THEN "first" ELSE "done"]
  /\ UNCHANGED <<created, joined, destroyed>>

Dine(n) == TakeFirst(n) \/ TakeSecond(n) \/ PutLeft(n) \/ PutRight(n)

-----------------------------------------------------------------------------
(* main().                                                                 *)

CreateThread ==
  /\ created < NUM_PHILOSOPHER
  /\ created' = created + 1
  /\ UNCHANGED <<chopstick, pc, meals, joined, destroyed>>

\* Mutant of JoinThread: main does not wait for the thread it joins.
JoinThread_NoWait ==
  /\ created = NUM_PHILOSOPHER
  /\ joined < NUM_PHILOSOPHER
  /\ joined' = joined + 1
  /\ UNCHANGED <<chopstick, pc, meals, created, destroyed>>

JoinThread ==
  /\ created = NUM_PHILOSOPHER
  /\ joined < NUM_PHILOSOPHER
  /\ pc[joined] = "done"
  /\ joined' = joined + 1
  /\ UNCHANGED <<chopstick, pc, meals, created, destroyed>>

DestroyMutexes ==
  /\ joined = NUM_PHILOSOPHER
  /\ ~destroyed
  /\ destroyed' = TRUE
  /\ UNCHANGED <<chopstick, pc, meals, created, joined>>

Main == CreateThread \/ JoinThread \/ DestroyMutexes

\* The process has exited: it takes no step any more.
Exited == destroyed /\ UNCHANGED vars

Next == Main \/ Exited \/ \E n \in Philosopher : Dine(n)

Spec == Init /\ [][Next]_vars

\* Every thread keeps running while it is not blocked: the kernel preempts.
\* Nothing is assumed about who gets a mutex that several threads wait for.
Fairness == WF_vars(Main) /\ \A n \in Philosopher : WF_vars(Dine(n))

FairSpec == Spec /\ Fairness

-----------------------------------------------------------------------------
(* Type invariant of the threads' and the mutexes' state.                  *)
TypeOK ==
  /\ chopstick \in [Philosopher -> Philosopher \cup {NoOne}]
  /\ pc \in [Philosopher -> {"first", "second", "eating", "putRight", "done"}]
  /\ meals \in [Philosopher -> 0 .. EAT_ITERATIONS]
  /\ created \in 0 .. NUM_PHILOSOPHER
  /\ joined \in 0 .. NUM_PHILOSOPHER
  /\ destroyed \in BOOLEAN

\* What philosopher n holds at each point of dine().
Holds(n, c) ==
  \/ pc[n] = "second" /\ c = First(n)
  \/ pc[n] = "eating" /\ c \in {First(n), Second(n)}
  \/ pc[n] = "putRight" /\ c = RIGHT_CHOPSTICK(n)

(* The owner recorded in a mutex is the philosopher whose position in      *)
(* dine() says that it holds that chopstick, and nobody else's says so:    *)
(* no unlock without the lock, no lock lost, no chopstick in two hands.    *)
OwnershipExact ==
  \A n \in Philosopher, c \in Philosopher : chopstick[c] = n <=> Holds(n, c)

(* Two philosophers that share a chopstick never eat at the same time      *)
(* (usleep at line 27 runs with both mutexes held).                        *)
NeighboursDontEatTogether ==
  \A n \in Philosopher, m \in Philosopher :
    /\ n # m
    /\ pc[n] = "eating"
    /\ pc[m] = "eating"
    => {First(n), Second(n)} \cap {First(m), Second(m)} = {}

\* The mutex that n wants next; n is stuck on it while somebody holds it.
Wanted(n)  == IF pc[n] = "first" THEN First(n) ELSE Second(n)
Blocked(n) == pc[n] \in {"first", "second"} /\ chopstick[Wanted(n)] # NoOne
WaitsFor(n) == chopstick[Wanted(n)]

(* No deadlock, not even among a few of the threads: whoever is blocked    *)
(* waits for a philosopher that is not blocked, or for one that waits for  *)
(* such a philosopher, or for one that waits for one of those.  So the     *)
(* waits-for relation has no cycle, and no chain of more than three waits. *)
NoCircularWait ==
  \A n \in Philosopher :
    Blocked(n) =>
      LET one == WaitsFor(n) IN
      Blocked(one) =>
        LET two == WaitsFor(one) IN
        Blocked(two) => ~Blocked(WaitsFor(two))

(* pthread_mutex_destroy (line 50) is called when no philosopher holds or  *)
(* wants a mutex any more, and everybody has eaten EAT_ITERATIONS times.   *)
DestroyedWhenDone ==
  destroyed =>
    \A n \in Philosopher :
      chopstick[n] = NoOne /\ pc[n] = "done" /\ meals[n] = EAT_ITERATIONS

\* How far a thread has got and how often it has eaten agree, and main has
\* joined only threads that are done: with TypeOK and OwnershipExact this is
\* inductive (PhilosophersProofs).
Bookkeeping ==
  /\ \A n \in Philosopher : pc[n] = "done" <=> meals[n] = EAT_ITERATIONS
  /\ \A n \in Philosopher : n < joined => pc[n] = "done"
  /\ destroyed => joined = NUM_PHILOSOPHER

(* Every philosopher finishes its meals, main joins them all and the       *)
(* process exits.                                                          *)
Termination == <>destroyed
=============================================================================
