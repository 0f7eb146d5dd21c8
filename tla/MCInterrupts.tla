---------------------------- MODULE MCInterrupts ----------------------------
(***************************************************************************)
(* The two programs about interrupts, for TLC: Cancel, about threads that  *)
(* are cancelled, and Signals, about processes that send each other        *)
(* signals.  They share nothing, so that one of them runs while the other  *)
(* has already ended; every behaviour of either is one of InterruptSpec.   *)
(***************************************************************************)
EXTENDS Cancel, Signals

\* The first pthread_create has failed: nothing moves any more.
CancelOver ==
  /\ pc = [t \in Thread |-> "none"]
  /\ file = [t \in Thread |-> "none"]
  /\ handler = {} /\ requested = {} /\ joined = {}
  /\ i = 0
  /\ mainPc = "create"
  /\ process = "failure"

\* The child has taken SIGUSR2 and the parent SIGCHLD.
SignalsOver ==
  /\ pp = "done"
  /\ pAlarm = TRUE /\ pActs = TRUE /\ sent = TRUE /\ pPending = FALSE
  /\ cp = "childDone"
  /\ cAlarm = "over"
  /\ pending = {}
  /\ resume = "loop"

InterruptInit == (Init /\ SignalsOver) \/ (CancelOver /\ SigInit)

InterruptNext == (Next /\ UNCHANGED sigVars) \/ (SigNext /\ UNCHANGED vars)

InterruptSpec ==
  InterruptInit /\ [][InterruptNext]_<<vars, sigVars>> /\ Fairness /\ SigFairness
=============================================================================
