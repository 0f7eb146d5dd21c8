---------------------------- MODULE MCScheduler ----------------------------
(* Inputs of Scheduler for TLC. *)
EXTENDS Scheduler

Proc(a, s, p) == [arrival |-> a, service |-> s, priority |-> p]

\* All inputs of two processes and of three, with arrivals in the middle and
\* at the end of a quantum and services shorter and longer than it.
Procs(arrivals, services) ==
  {Proc(a, s, p) : a \in arrivals, s \in services, p \in 0 .. 1}
MCPairs == LET P == Procs({0, 1, 4}, {1, 2, 5}) IN P \X P
MCTriples == LET P == Procs({0, 4}, {1, 5}) IN P \X P \X P

\* exercise08/input.csv; A, B, C, D and E are the processes 1 to 5.
MCInput == <<Proc(0, 7, 2), Proc(3, 3, 1), Proc(4, 2, 3), Proc(6, 5, 2), Proc(8, 2, 3)>>

\* exercise08/example_output.log, but for the lottery.
ExampleOutput ==
  [srt                |-> <<1,1,1, 2,2,2, 3,3, 5,5, 1,1,1,1, 4,4,4,4,4>>,
   round_robin        |-> <<1,1,1, 2, 1, 3, 2, 1, 4, 3, 2, 5, 1, 4, 5, 1, 4,4,4>>,
   round_robin_q4     |-> <<1,1,1,1, 2,2,2, 3,3, 1,1,1, 4,4,4,4, 5,5, 4>>,
   hpf_preemptive     |-> <<1,1,1,1, 3,3, 1,1, 5,5, 1, 4,4,4,4,4, 2,2,2>>,
   hpf_non_preemptive |-> <<1,1,1,1,1,1,1, 3,3, 5,5, 4,4,4,4,4, 2,2,2>>]

(* The schedules of input.csv are those of the reference output that the   *)
(* exercise gives, ties, arrivals and re-appended processes included.      *)
MatchesExampleOutput ==
  phase = "done" /\ procs = MCInput /\ scheduler # "lottery" =>
    proc_names = ExampleOutput[scheduler]

\* Longer inputs: processes arrive while others are in the middle of a
\* quantum, the array grows and shrinks, and a process is too long to get a
\* ticket of the lottery.
MCLong == {
  MCInput,
  <<Proc(0, 5, 0), Proc(2, 6, 1), Proc(2, 1, 1), Proc(6, 5, 2)>>,
  <<Proc(0, 4, 1), Proc(1, 4, 1), Proc(4, 4, 3), Proc(8, 1, 2)>>,
  <<Proc(0, 1, 0), Proc(0, 2, 1), Proc(0, 1, 2), Proc(0, 2, 2), Proc(0, 1, 0)>>,
  <<Proc(0, 31, 0), Proc(3, 2, 1)>> }

MCWorkloads == MCPairs \cup MCTriples \cup MCLong
=============================================================================
