------------------------------ MODULE WorkQueue ------------------------------
(***************************************************************************)
(* What the three queue programs promise (exercise06/task2,                *)
(* exercise07/task1 and exercise07/task2): Ones units of work are added up *)
(* by the consumer threads, every unit once; a consumer stops when no work *)
(* is left; main reports the total when all of them have stopped.  How the *)
(* work travels (queue, lock, condition variable, terminating zeroes) is   *)
(* left to CondQueue and PollQueue, which implement this module.           *)
(***************************************************************************)
EXTENDS Naturals

CONSTANTS NumConsumers,  (* the number of threads that main creates     *)
          Ones           (* the number of ones that main hands out      *)

Consumer == 0 .. NumConsumers - 1

VARIABLES
  left,     \* the ones that no consumer has taken yet
  sum,      \* sum[c]: the ones that consumer c has taken
  stopped,  \* the consumers that will take no more
  outcome   \* "working", "reported" or "failed"

vars == <<left, sum, stopped, outcome>>

\* What the consumers have taken together, added up one after the other.
Total ==
  LET upTo[n \in 0 .. NumConsumers] == IF n = 0 THEN 0 ELSE upTo[n - 1] + sum[n - 1]
  IN  upTo[NumConsumers]

Init ==
  /\ left = Ones
  /\ sum = [c \in Consumer |-> 0]
  /\ stopped = {}
  /\ outcome = "working"

Take(c) ==
  /\ outcome = "working"
  /\ c \notin stopped
  /\ left > 0
  /\ left' = left - 1
  /\ sum' = [sum EXCEPT ![c] = @ + 1]
  /\ UNCHANGED <<stopped, outcome>>

Stop(c) ==
  /\ outcome = "working"
  /\ c \notin stopped
  /\ left = 0
  /\ stopped' = stopped \cup {c}
  /\ UNCHANGED <<left, sum, outcome>>

\* The report is only made of a complete total.
Report ==
  /\ outcome = "working"
  /\ stopped = Consumer
  /\ Total = Ones
  /\ outcome' = "reported"
  /\ UNCHANGED <<left, sum, stopped>>

\* A thread could not be created: the program exits before any work is done.
Fail ==
  /\ outcome = "working"
  /\ left = Ones
  /\ stopped = {}
  /\ outcome' = "failed"
  /\ UNCHANGED <<left, sum, stopped>>

Next == Report \/ Fail \/ \E c \in Consumer : Take(c) \/ Stop(c)

Spec == Init /\ [][Next]_vars

\* Work goes on until there is an outcome.
FairSpec == Spec /\ WF_vars(Next)
=============================================================================
