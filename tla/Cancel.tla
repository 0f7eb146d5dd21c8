------------------------------- MODULE Cancel -------------------------------
(***************************************************************************)
(* exercise06/task1/task1.c: main creates threads that each make a file    *)
(* and sleep, then cancels and detaches some of them and joins the others. *)
(* A cancelled thread is to delete its file.  It takes no request before   *)
(* its file exists and the handler that deletes it is in place; then it is *)
(* cancelled wherever it is.  The sleeps give no guarantee: a thread may   *)
(* not have started, or be over, when it is cancelled.  exit(), from main  *)
(* or from a thread, ends all threads.                                     *)
(***************************************************************************)
EXTENDS Integers

CONSTANT NumThreads   \* 10 in the source

ASSUME NumThreadsAssumption == NumThreads \in Nat

Thread == 0 .. NumThreads - 1

VARIABLES
  pc,        \* pc[t]: where thread t is
  file,      \* file[t]: "none", "there", "failed" (fopen) or "removed"
  handler,   \* the threads whose cleanup handler is pushed
  requested, \* the threads that pthread_cancel was called for
  joined,    \* the threads that pthread_join has returned for
  i,         \* the counter of main's loops
  mainPc,    \* "create", "decide", "detach" or "join"
  process    \* "running", "success" or "failure"

vars == <<pc, file, handler, requested, joined, i, mainPc, process>>
mainVars == <<requested, joined, i, mainPc>>

Init ==
  /\ pc = [t \in Thread |-> "none"]
  /\ file = [t \in Thread |-> "none"]
  /\ handler = {}
  /\ requested = {}
  /\ joined = {}
  /\ i = 0
  /\ mainPc = "create"
  /\ process = "running"

Running(t, at) == process = "running" /\ pc[t] = at
GoTo(t, at) == pc' = [pc EXCEPT ![t] = at]

Over == {"returned", "cancelled", "perished"}   \* the thread is no more

-----------------------------------------------------------------------------
(* thread_work_load.                                                       *)

\* pthread_setcancelstate(PTHREAD_CANCEL_DISABLE): not a cancellation point,
\* so that a request that is already there has no effect.
DisableCancel(t) ==
  /\ Running(t, "start")
  /\ GoTo(t, "disabled")
  /\ UNCHANGED <<file, handler, mainVars, process>>

\* The result of fopen is not looked at.
CreateFile(t) ==
  /\ Running(t, "disabled")
  /\ \E f \in {"there", "failed"} : file' = [file EXCEPT ![t] = f]
  /\ GoTo(t, "opened")
  /\ UNCHANGED <<handler, mainVars, process>>

\* pthread_cleanup_push; cancellation stays disabled until it is there.
PushHandler(t) ==
  /\ Running(t, "opened")
  /\ handler' = handler \cup {t}
  /\ GoTo(t, "pushed")
  /\ UNCHANGED <<file, mainVars, process>>

\* PTHREAD_CANCEL_ENABLE, still deferred; then PTHREAD_CANCEL_ASYNCHRONOUS.
EnableCancel(t) ==
  /\ Running(t, "pushed")
  /\ GoTo(t, "enabled")
  /\ UNCHANGED <<file, handler, mainVars, process>>

SetAsynchronous(t) ==
  /\ Running(t, "enabled")
  /\ GoTo(t, "sleeping")
  /\ UNCHANGED <<file, handler, mainVars, process>>

\* Mutant of PopHandler: pthread_cleanup_pop(1), the handler is executed.
PopHandler_Executes(t) ==
  /\ Running(t, "sleeping")
  /\ handler' = handler \ {t}
  /\ file' = [file EXCEPT ![t] = "removed"]
  /\ GoTo(t, "popped")
  /\ UNCHANGED <<mainVars, process>>

\* sleep returns, and pthread_cleanup_pop(0).
PopHandler(t) ==
  /\ Running(t, "sleeping")
  /\ handler' = handler \ {t}
  /\ GoTo(t, "popped")
  /\ UNCHANGED <<file, mainVars, process>>

Return(t) ==
  /\ Running(t, "popped")
  /\ GoTo(t, "returned")
  /\ UNCHANGED <<file, handler, mainVars, process>>

\* Mutant of Cancellable: cancellation is not disabled before the handler.
Cancellable_Early == {"disabled", "opened", "sleeping"}

\* Where a request makes the thread leave for its handler: anywhere between
\* the two calls that make it asynchronous and take the handler away.
Cancellable == {"sleeping"}

TakeRequest(t) ==
  /\ process = "running"
  /\ t \in requested
  /\ pc[t] \in Cancellable
  /\ GoTo(t, "acting")
  /\ UNCHANGED <<file, handler, mainVars, process>>

\* Cancelled when the handler is gone and the thread not yet over.
Perish(t) ==
  /\ Running(t, "popped")
  /\ t \in requested
  /\ GoTo(t, "perished")
  /\ UNCHANGED <<file, handler, mainVars, process>>

\* thread_cleanup, if the handler is there.  It exits if remove fails.
Cleanup(t) ==
  /\ Running(t, "acting")
  /\ IF t \in handler /\ file[t] # "there"
     THEN process' = "failure" /\ UNCHANGED <<pc, file, handler>>
     ELSE /\ file' = [file EXCEPT ![t] = IF t \in handler THEN "removed" ELSE @]
          /\ handler' = handler \ {t}
          /\ GoTo(t, "cancelled")
          /\ UNCHANGED process
  /\ UNCHANGED mainVars

-----------------------------------------------------------------------------
(* main.                                                                   *)

Main(at) == process = "running" /\ mainPc = at

CreateThread ==
  /\ Main("create")
  /\ i < NumThreads
  /\ GoTo(i, "start")
  /\ i' = i + 1
  /\ UNCHANGED <<file, handler, requested, joined, mainPc, process>>

Fail == process' = "failure" /\ UNCHANGED <<pc, file, handler, mainVars>>

CreateFails == Main("create") /\ i < NumThreads /\ Fail

\* sleep(1), and the second loop.
EndCreating ==
  /\ Main("create")
  /\ i = NumThreads
  /\ i' = 0
  /\ mainPc' = "decide"
  /\ UNCHANGED <<pc, file, handler, requested, joined, process>>

\* random_gen(0, 1).
Spare ==
  /\ Main("decide")
  /\ i < NumThreads
  /\ mainPc' = "join"
  /\ UNCHANGED <<pc, file, handler, requested, joined, i, process>>

RequestCancel ==
  /\ Main("decide")
  /\ i < NumThreads
  /\ requested' = requested \cup {i}
  /\ mainPc' = "detach"
  /\ UNCHANGED <<pc, file, handler, joined, i, process>>

\* pthread_cancel reports ESRCH for a thread that is over, or succeeds:
\* that depends on the C library.
CancelFails == Main("decide") /\ i < NumThreads /\ pc[i] \in Over /\ Fail

\* Mutant of NextThread: the same thread once more.
NextThread_Same == mainPc' = "decide" /\ UNCHANGED i

NextThread == i' = i + 1 /\ mainPc' = "decide"

Detach ==
  /\ Main("detach")
  /\ NextThread
  /\ UNCHANGED <<pc, file, handler, requested, joined, process>>

Join ==
  /\ Main("join")
  /\ pc[i] \in Over
  /\ joined' = joined \cup {i}
  /\ NextThread
  /\ UNCHANGED <<pc, file, handler, requested, process>>

\* return from main: the threads that are left end where they are.
ReturnFromMain ==
  /\ Main("decide")
  /\ i = NumThreads
  /\ process' = "success"
  /\ UNCHANGED <<pc, file, handler, mainVars>>

Ended == process # "running" /\ UNCHANGED vars

Step(t) ==
  \/ DisableCancel(t) \/ CreateFile(t) \/ PushHandler(t) \/ EnableCancel(t)
  \/ SetAsynchronous(t) \/ PopHandler(t) \/ Return(t) \/ TakeRequest(t)
  \/ Perish(t) \/ Cleanup(t)

MainStep ==
  \/ CreateThread \/ CreateFails \/ EndCreating \/ Spare \/ RequestCancel
  \/ CancelFails \/ Detach \/ Join \/ ReturnFromMain

Next == MainStep \/ Ended \/ \E t \in Thread : Step(t)

Spec == Init /\ [][Next]_vars

\* Every thread that can run does: sleeps end, and threads are scheduled.
Fairness == WF_vars(MainStep) /\ \A t \in Thread : WF_vars(Step(t))

FairSpec == Spec /\ Fairness

-----------------------------------------------------------------------------
TypeOK ==
  /\ pc \in [Thread -> {"none", "start", "disabled", "opened", "pushed", "enabled",
                        "sleeping", "popped", "acting"} \cup Over]
  /\ file \in [Thread -> {"none", "there", "failed", "removed"}]
  /\ handler \subseteq Thread /\ requested \subseteq Thread /\ joined \subseteq Thread
  /\ i \in 0 .. NumThreads
  /\ mainPc \in {"create", "decide", "detach", "join"}
  /\ process \in {"running", "success", "failure"}

(* A thread that main has not cancelled keeps its file until it is joined  *)
(* and after that, whatever happens to the others.                         *)
SparedKeepFile ==
  \A t \in joined : t \notin requested /\ file[t] \in {"there", "failed"}

(* No request takes effect before the file can be deleted: a thread that   *)
(* dies of one has deleted its file, unless it had already slept to its    *)
(* end.  Only threads that main has cancelled do either.                    *)
CancelledDeleteFile ==
  \A t \in Thread :
    /\ pc[t] = "acting" => t \in requested \cap handler
    /\ pc[t] = "cancelled" => t \in requested /\ file[t] = "removed"

(* The process ends: main joins only threads that return in time, and a   *)
(* handler that cannot remove its file ends it as well.                    *)
Termination == <>(process # "running")
=============================================================================
