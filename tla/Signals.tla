------------------------------ MODULE Signals ------------------------------
(***************************************************************************)
(* exercise02/task3.c: the parent sends SIGUSR2 once and SIGUSR1 again and *)
(* again at its alarms; the child blocks SIGUSR2 until its own alarm and   *)
(* ends by it; SIGCHLD ends the parent.  A signal that comes before its    *)
(* handler is installed does what it does by default: SIGUSR1 and SIGUSR2  *)
(* kill, SIGCHLD is ignored.  The alarms are 3 and 13 seconds away, but    *)
(* nothing makes a process run in that time: they go off at any time.      *)
(***************************************************************************)
VARIABLES
  pp,       \* where the parent is: "start", "forked", "ready", "loop", or in
            \* sendSignalToChild: "usr2", "usr1", "again"; or "done"
  pAlarm,   \* the parent's alarm is set
  pActs,    \* the parent's handler of SIGCHLD is installed
  sent,     \* initialSignalSent
  pPending, \* SIGCHLD was sent to the parent and not yet taken
  cp,       \* where the child is: "none", "start", "blocked", "alarmed",
            \* "usr1ready", "loop", "unblocked" (in childAlarmHandler);
            \* "childDone" (by sigusr2Handler) or "killed"
  cAlarm,   \* the child's alarm: "off", "set" or "over"
  pending,  \* the signals that wait for the child
  resume    \* where childAlarmHandler returns to

sigVars == <<pp, pAlarm, pActs, sent, pPending, cp, cAlarm, pending, resume>>
parentFields == <<pp, pAlarm, pActs, sent>>
childFields == <<cp, cAlarm, resume>>

SigInit ==
  /\ pp = "start"
  /\ pAlarm = FALSE /\ pActs = FALSE /\ sent = FALSE /\ pPending = FALSE
  /\ cp = "none"
  /\ cAlarm = "off"
  /\ pending = {}
  /\ resume = "none"

Dead == cp \in {"childDone", "killed"}

-----------------------------------------------------------------------------
(* The parent.                                                             *)

ParentAt(from, to) == pp = from /\ pp' = to

Fork ==
  /\ ParentAt("start", "forked")
  /\ cp' = "start"
  /\ UNCHANGED <<pAlarm, pActs, sent, pPending, cAlarm, pending, resume>>

\* Mutant of InstallChildTermination: the call is missing.
InstallChildTermination_Missing ==
  /\ ParentAt("forked", "ready")
  /\ UNCHANGED <<pAlarm, pActs, sent, pPending, childFields, pending>>

InstallChildTermination ==
  /\ ParentAt("forked", "ready")
  /\ pActs' = TRUE
  /\ UNCHANGED <<pAlarm, sent, pPending, childFields, pending>>

FirstAlarm ==
  /\ ParentAt("ready", "loop")
  /\ pAlarm' = TRUE
  /\ UNCHANGED <<pActs, sent, pPending, childFields, pending>>

\* SIGALRM, in pause: sendSignalToChild.
SendSignalToChild ==
  /\ pAlarm
  /\ ParentAt("loop", IF sent THEN "usr1" ELSE "usr2")
  /\ pAlarm' = FALSE
  /\ UNCHANGED <<pActs, sent, pPending, childFields, pending>>

\* kill(child_pid, signal); a dead child is a zombie, and nothing happens.
Kill(signal) == pending' = IF Dead THEN pending ELSE pending \cup {signal}

KillUsr2 ==
  /\ ParentAt("usr2", "usr1")
  /\ Kill("USR2")
  /\ UNCHANGED <<pAlarm, pActs, sent, pPending, childFields>>

\* SIGUSR1, and initialSignalSent the first time.
KillUsr1 ==
  /\ ParentAt("usr1", "again")
  /\ Kill("USR1")
  /\ sent' = TRUE
  /\ UNCHANGED <<pAlarm, pActs, pPending, childFields>>

NextAlarm ==
  /\ ParentAt("again", "loop")
  /\ pAlarm' = TRUE
  /\ UNCHANGED <<pActs, sent, pPending, childFields, pending>>

\* SIGCHLD: ignored, or childTerminationHandler, whose test is always true.
ChildTermination ==
  /\ pPending
  /\ pp # "done"
  /\ pPending' = FALSE
  /\ pp' = IF pActs THEN "done" ELSE pp
  /\ UNCHANGED <<pAlarm, pActs, sent, childFields, pending>>

-----------------------------------------------------------------------------
(* The child.                                                              *)

ChildAt(from, to) == cp = from /\ cp' = to

Setup == UNCHANGED <<parentFields, pPending, pending, resume>>

BlockUsr2 == ChildAt("start", "blocked") /\ UNCHANGED cAlarm /\ Setup

\* signal(SIGALRM), alarm(13).
SetAlarm == ChildAt("blocked", "alarmed") /\ cAlarm' = "set" /\ Setup

InstallUsr1 == ChildAt("alarmed", "usr1ready") /\ UNCHANGED cAlarm /\ Setup
InstallUsr2 == ChildAt("usr1ready", "loop") /\ UNCHANGED cAlarm /\ Setup

\* The alarm, wherever the child is since it was set: childAlarmHandler
\* unblocks SIGUSR2.
ChildAlarm ==
  /\ cAlarm = "set"
  /\ ~Dead
  /\ cAlarm' = "over"
  /\ resume' = cp
  /\ cp' = "unblocked"
  /\ UNCHANGED <<parentFields, pPending, pending>>

\* The handler returns, and with it the old mask: SIGUSR2 is blocked again.
\* A SIGUSR2 that waits has been taken before.
EndChildAlarm ==
  /\ cp = "unblocked"
  /\ "USR2" \notin pending
  /\ cp' = resume
  /\ UNCHANGED <<parentFields, pPending, cAlarm, pending, resume>>

\* Where the child is, or will be when the handler returns.
Position == IF cp = "unblocked" THEN resume ELSE cp

Handles(signal) ==
  Position \in IF signal = "USR1" THEN {"usr1ready", "loop"} ELSE {"loop"}

\* Mutant of Blocked: SIGUSR2 is not blocked in the child.
Blocked_Never(signal) == FALSE

Blocked(signal) == signal = "USR2" /\ cp \notin {"start", "unblocked"}

\* The child takes a signal: sigusr1Handler prints, sigusr2Handler exits,
\* and without its handler a signal kills.  A dying child sends SIGCHLD.
Take(signal) ==
  /\ ~Dead
  /\ signal \in pending
  /\ ~Blocked(signal)
  /\ pending' = pending \ {signal}
  /\ cp' = CASE ~Handles(signal) -> "killed"
             [] Handles(signal) /\ signal = "USR2" -> "childDone"
             [] OTHER -> cp
  /\ pPending' = Dead'
  /\ UNCHANGED <<parentFields, cAlarm, resume>>

-----------------------------------------------------------------------------
ParentSteps ==
  \/ Fork \/ InstallChildTermination \/ FirstAlarm \/ SendSignalToChild
  \/ KillUsr2 \/ KillUsr1 \/ NextAlarm \/ ChildTermination

ChildSteps ==
  \/ BlockUsr2 \/ SetAlarm \/ InstallUsr1 \/ InstallUsr2
  \/ ChildAlarm \/ EndChildAlarm
  \/ \E signal \in {"USR1", "USR2"} : Take(signal)

BothEnded == pp = "done" /\ UNCHANGED sigVars

SigNext == ParentSteps \/ ChildSteps \/ BothEnded

SigSpec == SigInit /\ [][SigNext]_sigVars

\* Both processes run, alarms go off and signals are taken.
SigFairness ==
  /\ WF_sigVars(Fork \/ InstallChildTermination \/ FirstAlarm \/ KillUsr2 \/ KillUsr1 \/ NextAlarm)
  /\ WF_sigVars(SendSignalToChild) /\ WF_sigVars(ChildTermination)
  /\ WF_sigVars(BlockUsr2 \/ SetAlarm \/ InstallUsr1 \/ InstallUsr2 \/ EndChildAlarm)
  /\ WF_sigVars(ChildAlarm)
  /\ \A signal \in {"USR1", "USR2"} : WF_sigVars(Take(signal))

SigFairSpec == SigSpec /\ SigFairness

-----------------------------------------------------------------------------
(* The child ends by sigusr2Handler only after its alarm, although SIGUSR2 *)
(* is sent long before: it is blocked before its handler is installed, and *)
(* only childAlarmHandler lets it through.                                 *)
BlockedUntilAlarm == cp = "childDone" => cAlarm = "over"

\* The child's alarm was over before SIGUSR2 came: it stays blocked.
Overtaken == cAlarm = "over" /\ cp # "unblocked" /\ ~Dead

(* Both processes end, unless the child's alarm overtakes the signal that  *)
(* it is to let through.  In particular SIGCHLD is never lost, although    *)
(* its handler is installed after the fork: the child dies of nothing but  *)
(* signals that the parent sends later.                                    *)
EndsUnlessOvertaken == <>(pp = "done" \/ Overtaken)
=============================================================================
