------------------------------- MODULE ShmSum -------------------------------
(***************************************************************************)
(* exercise05: program a (task1_a, task2_a) writes N into shared memory,   *)
(* makes a FIFO and waits at it for the result; program b forks a producer *)
(* and a consumer over the shared memory, waits for both and sends the     *)
(* result.  task2_b guards the memory with a named semaphore, task1_b does *)
(* not.  The programs are started again and again and can be interrupted;  *)
(* the semaphore and the FIFO outlive them.                                *)
(*                                                                         *)
(* What the code does to the data: program b maps the memory for reading   *)
(* only, so that the first sprintf of the producer, between sem_wait and   *)
(* sem_post, and the last one of the consumer end in SIGSEGV; and it uses  *)
(* the pointer where the value it points to is meant, so that the number   *)
(* of rounds depends on where mmap has put the memory and can be negative, *)
(* and the result that is sent is an address.                              *)
(***************************************************************************)
EXTENDS Integers

CONSTANTS Rounds,   (* the N that program b can come to, 0 if negative *)
          Value,    (* 2: what sem_open creates the semaphore with     *)
          MaxRuns   (* how often each program is started               *)

None == -1   \* a semaphore that does not exist

ASSUME ShmSumAssumption ==
  /\ Rounds \subseteq Nat
  /\ Value \in Nat
  /\ MaxRuns \in Nat

Child == {"producer", "consumer"}

VARIABLES
  semaphore, \* the value of SEM_TASK2_B
  lost,      \* how often a process died between sem_wait and sem_post
  fifo,      \* FIFO_WITH_RESULT has a name in the directory
  pipe,      \* what is in it: "closed", "open", "result" or "eof"
  a,         \* where program a is
  b,         \* where the parent of program b is
  at,        \* at[c]: where child c of program b is
  task,      \* 2 if this program b is task2_b
  n,         \* N of this run's children
  round,     \* round[c]: the loop counter of child c
  first,     \* the semaphore's value when this run of task2_b found it
  runsA, runsB

sumVars == <<semaphore, lost, fifo, pipe, a, b, at, task, n, round, first, runsA, runsB>>
aVars == <<a, runsA>>
runVars == <<task, n, first, runsB>>
childVars == <<at, round>>

SumInit ==
  /\ semaphore = None
  /\ lost = 0
  /\ fifo = FALSE
  /\ pipe = "closed"
  /\ a = "off"
  /\ b = "off"
  /\ at = [c \in Child |-> "none"]
  /\ task = 1
  /\ n = 0
  /\ round = [c \in Child |-> 1]
  /\ first = None
  /\ runsA = 0 /\ runsB = 0

-----------------------------------------------------------------------------
(* Program a.                                                              *)

Off(p) == p \in {"off", "done", "failed"}   \* not started, or over

StartA ==
  /\ Off(a)
  /\ runsA < MaxRuns
  /\ runsA' = runsA + 1
  /\ a' = "mkfifo"
  /\ UNCHANGED <<semaphore, lost, fifo, pipe, b, runVars, childVars>>

\* mkfifo, after N has been written: it fails if a FIFO was left behind.
MakeFifo ==
  /\ a = "mkfifo"
  /\ fifo' = TRUE
  /\ a' = IF fifo THEN "failed" ELSE "open"
  /\ UNCHANGED <<semaphore, lost, pipe, runsA, b, runVars, childVars>>

\* read returns the result, or nothing if the writer is gone without it.
Read ==
  /\ a = "read"
  /\ pipe \in {"result", "eof"}
  /\ a' = "unlink"
  /\ pipe' = "closed"
  /\ UNCHANGED <<semaphore, lost, fifo, runsA, b, runVars, childVars>>

\* unlink and close.
Unlink ==
  /\ a = "unlink"
  /\ fifo' = FALSE
  /\ a' = "done"
  /\ UNCHANGED <<semaphore, lost, pipe, runsA, b, runVars, childVars>>

\* SIGINT while program a waits: its FIFO stays.
InterruptA ==
  /\ a \in {"open", "read"}
  /\ a' = "failed"
  /\ pipe' = "closed"
  /\ UNCHANGED <<semaphore, lost, fifo, runsA, b, runVars, childVars>>

-----------------------------------------------------------------------------
(* Program b: the parent.                                                  *)

\* mmap chooses the address, and fails if there is no shared memory, which
\* is an address as well; sem_open with O_CREAT keeps the value of a
\* semaphore that exists; two forks.
StartB ==
  /\ Off(b)
  /\ runsB < MaxRuns
  /\ runsB' = runsB + 1
  /\ task' \in {1, 2}
  /\ semaphore' = IF task' = 2 /\ semaphore = None THEN Value ELSE semaphore
  /\ first' = semaphore'
  /\ n' \in Rounds
  /\ round' = [c \in Child |-> 1]
  /\ at' = [c \in Child |-> "test"]
  /\ b' = "wait"
  /\ UNCHANGED <<lost, fifo, pipe, aVars>>

\* while(wait(0) > 0)
WaitChildren ==
  /\ b = "wait"
  /\ \A c \in Child : at[c] \in {"exited", "killed"}
  /\ b' = "open"
  /\ UNCHANGED <<semaphore, lost, fifo, pipe, aVars, runVars, childVars>>

OpenFails ==
  /\ b = "open"
  /\ ~fifo
  /\ b' = "failed"
  /\ UNCHANGED <<semaphore, lost, fifo, pipe, aVars, runVars, childVars>>

\* Opening the FIFO blocks until there is a reader and a writer.
Rendezvous ==
  /\ a = "open" /\ b = "open"
  /\ fifo
  /\ a' = "read" /\ b' = "write"
  /\ pipe' = "open"
  /\ UNCHANGED <<semaphore, lost, fifo, runsA, runVars, childVars>>

\* SIGPIPE if the reader is gone.
Write ==
  /\ b = "write"
  /\ pipe' = IF a = "read" THEN "result" ELSE "closed"
  /\ b' = IF a = "read" THEN "done" ELSE "failed"
  /\ UNCHANGED <<semaphore, lost, fifo, aVars, runVars, childVars>>

-----------------------------------------------------------------------------
(* Program b: the children.                                                *)

MoveTo(c, to) == at' = [at EXCEPT ![c] = to]

\* sem_wait and sem_post, which task1_b has not.
Down == IF task = 2 THEN semaphore > 0 /\ semaphore' = semaphore - 1
                    ELSE UNCHANGED semaphore

\* Mutant of Up: a call is missing.
Up_Missing == UNCHANGED semaphore

Up == semaphore' = IF task = 2 THEN semaphore + 1 ELSE semaphore

\* i <= N, and sem_wait.
SemWait(c) ==
  /\ at[c] = "test"
  /\ round[c] <= n
  /\ Down
  /\ MoveTo(c, "critical")
  /\ UNCHANGED <<lost, fifo, pipe, aVars, b, runVars, round>>

\* The children of task2_b between sem_wait and sem_post.
Holds(c) == IF task = 2 /\ at[c] = "critical" THEN 1 ELSE 0
Holders == Holds("producer") + Holds("consumer")

\* sprintf into the mapping: SIGSEGV, and nobody posts the semaphore.
Produce ==
  /\ at["producer"] = "critical"
  /\ MoveTo("producer", "killed")
  /\ lost' = lost + Holds("producer")
  /\ UNCHANGED <<semaphore, fifo, pipe, aVars, b, runVars, round>>

\* The addition and sem_post.
Consume ==
  /\ at["consumer"] = "critical"
  /\ Up
  /\ round' = [round EXCEPT !["consumer"] = @ + 1]
  /\ MoveTo("consumer", "test")
  /\ UNCHANGED <<lost, fifo, pipe, aVars, b, runVars>>

\* After the loop the producer exits; the consumer writes its sum into the
\* mapping: SIGSEGV.
LeaveLoop(c) ==
  /\ at[c] = "test"
  /\ round[c] > n
  /\ MoveTo(c, IF c = "producer" THEN "exited" ELSE "killed")
  /\ UNCHANGED <<semaphore, lost, fifo, pipe, aVars, b, runVars, round>>

\* SIGINT ends program b and its children.
InterruptB ==
  /\ ~Off(b)
  /\ b' = "failed"
  /\ at' = [c \in Child |-> IF at[c] = "exited" THEN "exited" ELSE "killed"]
  /\ lost' = lost + Holders
  /\ pipe' = IF b = "write" /\ a = "read" THEN "eof" ELSE pipe
  /\ UNCHANGED <<semaphore, fifo, aVars, runVars, round>>

-----------------------------------------------------------------------------
A == MakeFifo \/ Read \/ Unlink
B == WaitChildren \/ OpenFails \/ Write
Run(c) == SemWait(c) \/ LeaveLoop(c)

SumNext ==
  \/ StartA \/ A \/ InterruptA
  \/ StartB \/ B \/ InterruptB \/ Rendezvous
  \/ Produce \/ Consume \/ \E c \in Child : Run(c)

SumSpec == SumInit /\ [][SumNext]_sumVars

\* A process that can run does; nobody has to start or to interrupt one.
SumFairness ==
  /\ WF_sumVars(A) /\ WF_sumVars(B) /\ WF_sumVars(Rendezvous)
  /\ WF_sumVars(Produce) /\ WF_sumVars(Consume)
  /\ \A c \in Child : WF_sumVars(Run(c))

SumFairSpec == SumSpec /\ SumFairness

-----------------------------------------------------------------------------
SumTypeOK ==
  /\ semaphore \in Nat \cup {None}
  /\ lost \in Nat
  /\ fifo \in BOOLEAN
  /\ pipe \in {"closed", "open", "result", "eof"}
  /\ a \in {"off", "mkfifo", "open", "read", "unlink", "done", "failed"}
  /\ b \in {"off", "wait", "open", "write", "done", "failed"}
  /\ at \in [Child -> {"none", "test", "critical", "exited", "killed"}]
  /\ task \in {1, 2}
  /\ n \in Nat
  /\ round \in [Child -> Nat]
  /\ first \in Nat \cup {None}
  /\ runsA \in 0 .. MaxRuns /\ runsB \in 0 .. MaxRuns

(* Over all runs the semaphore has lost exactly what processes took with   *)
(* them when they died inside the critical section.                        *)
SemaphoreExact ==
  semaphore # None => semaphore + lost + Holders = Value

(* A run of program b gets past its children if it found the semaphore at  *)
(* 2 or has none.  One that finds 1 can hang, since its producer dies with *)
(* it, and one that finds 0 does if there is a round to go.  And a program *)
(* a that has met its program b ends well, with the result or, if b was    *)
(* interrupted, without, and its FIFO is gone.                             *)
HealthyRunEnds ==
  /\ b = "wait" /\ (task = 1 \/ first > 1) ~> b # "wait"
  /\ a = "read" ~> a = "failed" \/ (a = "done" /\ ~fifo)
=============================================================================
