------------------------------- MODULE Trains -------------------------------
(***************************************************************************)
(* exercise11/trains.c: trains are processes that share an array of        *)
(* platforms, guarded by a named semaphore.  main clears the platforms,    *)
(* opens the semaphore, forks the trains and waits for them.  The shared   *)
(* memory and the semaphore outlive the program and are never unlinked, so *)
(* the model runs the program several times; a run can be interrupted, and *)
(* the trains that a failing fork leaves behind go on during later runs.   *)
(* sleep and the clock are left out: a sleep takes any time.               *)
(***************************************************************************)
EXTENDS Integers, FiniteSets, FiniteSetsExt

CONSTANTS NUM_PLANES,     (* 7 in the source: entries of train_array      *)
          NumForked,      (* 6 in the source: rounds of the fork loop     *)
          NUM_PLATFORMS,  (* 3 in the source                              *)
          MaxRuns         (* how often the program is started             *)

ASSUME TrainsAssumption ==
  /\ NUM_PLANES \in Nat /\ NumForked \in 0 .. NUM_PLANES
  /\ NUM_PLATFORMS \in Nat
  /\ MaxRuns \in Nat

Train == 0 .. NumForked - 1
Process == (1 .. MaxRuns) \X Train   \* <<r, i>>: train i of the r-th run
Platform == 0 .. NUM_PLATFORMS - 1
None == -1

VARIABLES
  platform,           \* the shared array: 0 is free, 1 occupied
  semaphore,          \* its value, or None as long as it does not exist
  pc,                 \* pc[t]: where the train's process t is
  platform_occupied,  \* platform_occupied[t] of child_process
  mainPc,             \* where main is
  forked,             \* main's loop counter of the fork loop
  n,                  \* main's loop counter of the wait loop
  runs,               \* how often the program has been started
  disturbed           \* the platforms that main has cleared under a train

shared == <<platform, semaphore>>
children == <<pc, platform_occupied>>
mainVars == <<mainPc, forked, n, runs, disturbed>>
vars == <<shared, children, mainVars>>

Init ==
  /\ platform = [p \in Platform |-> 0]
  /\ semaphore = None
  /\ pc = [t \in Process |-> "none"]
  /\ platform_occupied = [t \in Process |-> None]
  /\ mainPc = "ended"
  /\ forked = 0
  /\ n = 0
  /\ runs = 0
  /\ disturbed = {}

-----------------------------------------------------------------------------
(* child_process.                                                          *)

At(t, l) == pc[t] = l
GoTo(t, l) == pc' = [pc EXCEPT ![t] = l]

\* sem_open and sleep(arrival).
Arrive(t) ==
  /\ At(t, "arriving")
  /\ platform_occupied' = [platform_occupied EXCEPT ![t] = None]
  /\ GoTo(t, "wait1")
  /\ UNCHANGED <<shared, mainVars>>

Wait(t, from, to) ==
  /\ At(t, from)
  /\ semaphore > 0
  /\ semaphore' = semaphore - 1
  /\ GoTo(t, to)
  /\ UNCHANGED <<platform, platform_occupied, mainVars>>

\* Mutant of Post: the semaphore is not raised.
Post_Forgotten(t, from, to) ==
  /\ At(t, from)
  /\ GoTo(t, to)
  /\ UNCHANGED <<platform, semaphore, platform_occupied, mainVars>>

Post(t, from, to) ==
  /\ At(t, from)
  /\ semaphore' = semaphore + 1
  /\ GoTo(t, to)
  /\ UNCHANGED <<platform, platform_occupied, mainVars>>

SemWaitSearch(t) == Wait(t, "wait1", "search")
SemWaitLeave(t) == Wait(t, "wait2", "free")

Free == {p \in Platform : platform[p] = 0}

\* The loop over the platforms takes the first that is free.
Search(t) ==
  /\ At(t, "search")
  /\ IF Free = {} THEN UNCHANGED <<platform, platform_occupied>>
     ELSE /\ platform' = [platform EXCEPT ![Min(Free)] = 1]
          /\ platform_occupied' = [platform_occupied EXCEPT ![t] = Min(Free)]
  /\ GoTo(t, "post1")
  /\ UNCHANGED <<semaphore, mainVars>>

SemPostSearch(t) == Post(t, "post1", "test")

\* Boarding, or another attempt a second later.
Board(t) ==
  /\ At(t, "test")
  /\ platform_occupied[t] # None
  /\ GoTo(t, "boarding")
  /\ UNCHANGED <<shared, platform_occupied, mainVars>>

Retry(t) ==
  /\ At(t, "test")
  /\ platform_occupied[t] = None
  /\ GoTo(t, "wait1")
  /\ UNCHANGED <<shared, platform_occupied, mainVars>>

\* sleep(remaining_boarding_time).
EndBoarding(t) ==
  /\ At(t, "boarding")
  /\ GoTo(t, "wait2")
  /\ UNCHANGED <<shared, platform_occupied, mainVars>>

Leave(t) ==
  /\ At(t, "free")
  /\ platform' = [platform EXCEPT ![platform_occupied[t]] = 0]
  /\ GoTo(t, "post2")
  /\ UNCHANGED <<semaphore, platform_occupied, mainVars>>

\* The last sem_post, then sem_close and exit.
SemPostLeave(t) == Post(t, "post2", "exited")

Child(t) ==
  \/ Arrive(t) \/ SemWaitSearch(t) \/ Search(t) \/ SemPostSearch(t)
  \/ Board(t) \/ Retry(t) \/ EndBoarding(t)
  \/ SemWaitLeave(t) \/ Leave(t) \/ SemPostLeave(t)

-----------------------------------------------------------------------------
(* main.                                                                   *)

\* The children of the present run; those of earlier runs are orphans.
Own == {t \in Process : t[1] = runs}

\* Nothing keeps the program from being started over the trains that an
\* earlier run has left behind.
Start ==
  /\ mainPc \in {"ended", "failed", "killed"}
  /\ runs < MaxRuns
  /\ runs' = runs + 1
  /\ forked' = 0
  /\ mainPc' = "clear"
  /\ UNCHANGED <<shared, children, n, disturbed>>

\* The trains at platform p.
TrainsAt(p) ==
  {t \in Process : /\ platform_occupied[t] = p
                   /\ pc[t] \in {"post1", "test", "boarding", "wait2", "free"}}

\* Mutant of ClearPlatforms: the shared memory is taken to be new.
ClearPlatforms_Skipped ==
  /\ mainPc = "clear"
  /\ mainPc' = "open"
  /\ UNCHANGED <<shared, children, forked, n, runs, disturbed>>

\* The shared memory is opened and cleared, without the semaphore and
\* whoever is there.  A search of an orphan comes before it or after it.
ClearPlatforms ==
  /\ mainPc = "clear"
  /\ platform' = [p \in Platform |-> 0]
  /\ disturbed' = disturbed \cup {p \in Platform : TrainsAt(p) # {}}
  /\ mainPc' = "open"
  /\ UNCHANGED <<semaphore, children, forked, n, runs>>

\* sem_open with O_CREAT sets the value 1 only if it creates the semaphore.
OpenSemaphore ==
  /\ mainPc = "open"
  /\ semaphore' = IF semaphore = None THEN 1 ELSE semaphore
  /\ mainPc' = "fork"
  /\ UNCHANGED <<platform, children, forked, n, runs, disturbed>>

Fork ==
  /\ mainPc = "fork"
  /\ forked < NumForked
  /\ pc' = [pc EXCEPT ![<<runs, forked>>] = "arriving"]
  /\ forked' = forked + 1
  /\ UNCHANGED <<shared, platform_occupied, mainPc, n, runs, disturbed>>

\* main exits, the trains that have been forked go on.
ForkFails ==
  /\ mainPc = "fork"
  /\ forked < NumForked
  /\ mainPc' = "failed"
  /\ UNCHANGED <<shared, children, forked, n, runs, disturbed>>

EndForking ==
  /\ mainPc = "fork"
  /\ forked = NumForked
  /\ n' = NUM_PLANES
  /\ mainPc' = "wait"
  /\ UNCHANGED <<shared, children, forked, runs, disturbed>>

\* Mutant of WaitForChild: wait is taken to return at once.
WaitForChild_NoBlock ==
  /\ mainPc = "wait"
  /\ n > 0
  /\ n' = n - 1
  /\ UNCHANGED <<shared, children, mainPc, forked, runs, disturbed>>

\* wait reaps a child that has exited, blocks while there are only others,
\* and fails at once when there are none.
WaitForChild ==
  /\ mainPc = "wait"
  /\ n > 0
  /\ \/ \E t \in Own : At(t, "exited") /\ GoTo(t, "none")
     \/ (\A t \in Own : At(t, "none")) /\ UNCHANGED pc
  /\ n' = n - 1
  /\ UNCHANGED <<shared, platform_occupied, mainPc, forked, runs, disturbed>>

End ==
  /\ mainPc = "wait"
  /\ n = 0
  /\ mainPc' = "ended"
  /\ UNCHANGED <<shared, children, forked, n, runs, disturbed>>

Main ==
  \/ ClearPlatforms \/ OpenSemaphore \/ Fork \/ ForkFails \/ EndForking
  \/ WaitForChild \/ End

\* SIGINT ends main and its trains wherever they are: no handler is
\* installed.  What is shared stays as it is.  Orphans get no signal: the
\* terminal is not theirs any more.
Interrupt ==
  /\ mainPc \in {"clear", "open", "fork", "wait"}
  /\ pc' = [t \in Process |-> IF t \in Own THEN "none" ELSE pc[t]]
  /\ mainPc' = "killed"
  /\ UNCHANGED <<shared, platform_occupied, forked, n, runs, disturbed>>

Next == Start \/ Interrupt \/ Main \/ \E t \in Process : Child(t)

Spec == Init /\ [][Next]_vars

\* Processes that are not blocked go on.  A train that looks for a platform
\* sleeps between its attempts, so that the others get the semaphore: who
\* can have it again and again will have it.
Fairness ==
  /\ WF_vars(Main)
  /\ \A t \in Process : /\ WF_vars(Child(t))
                        /\ SF_vars(SemWaitSearch(t))
                        /\ SF_vars(SemWaitLeave(t))

FairSpec == Spec /\ Fairness

-----------------------------------------------------------------------------
(* Type invariant.                                                         *)
TypeOK ==
  /\ platform \in [Platform -> {0, 1}]
  /\ semaphore \in {None, 0, 1}
  /\ pc \in [Process -> {"none", "arriving", "wait1", "search", "post1", "test",
                         "boarding", "wait2", "free", "post2", "exited"}]
  /\ platform_occupied \in [Process -> Platform \cup {None}]
  /\ mainPc \in {"clear", "open", "fork", "wait", "ended", "failed", "killed"}
  /\ forked \in 0 .. NumForked
  /\ n \in 0 .. NUM_PLANES
  /\ runs \in 0 .. MaxRuns
  /\ disturbed \subseteq Platform

InSection(t) == pc[t] \in {"search", "post1", "free", "post2"}

(* At most one process is between sem_wait and sem_post, also in a run     *)
(* after one that was interrupted there, and with orphans about.           *)
OneInSection ==
  \A t, u \in Process : InSection(t) /\ InSection(u) =>
    t = u /\ semaphore = 0

(* A platform is marked exactly while one train is at it; what an          *)
(* interrupted run has left in the shared memory misleads no later run.    *)
(* Nothing else takes this from a platform than main's clearing it under   *)
(* an orphan, and even then it is free again when the last train has left. *)
PlatformsExact ==
  mainPc \notin {"killed", "clear"} =>
    \A p \in Platform :
      /\ p \notin disturbed => platform[p] = Cardinality(TrainsAt(p))
      /\ TrainsAt(p) = {} => platform[p] = 0

(* The program ends after all its trains have left, however many orphans   *)
(* of an earlier run come between; a platform is marked then only if an    *)
(* orphan is at it.                                                        *)
EndsAfterAllTrains ==
  mainPc = "ended" =>
    /\ \A t \in Own : pc[t] = "none"
    /\ \A p \in Platform : platform[p] = 1 => \E t \in Process \ Own : t \in TrainsAt(p)

(* A run that finds the semaphore as it should be ends, unless it is       *)
(* interrupted or a fork fails: every train gets a platform in the end,    *)
(* also from the orphans of an earlier run.                                *)
(* After an interrupt between sem_wait and sem_post the semaphore stays at *)
(* 0, and nothing of this holds for later runs.                            *)
HealthyRunEnds ==
  mainPc = "fork" /\ forked = 0 /\ semaphore = 1
    ~> mainPc \in {"ended", "failed", "killed"}
=============================================================================
