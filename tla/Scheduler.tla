----------------------------- MODULE Scheduler -----------------------------
(***************************************************************************)
(* exercise08: main computes and prints the schedules of one list of       *)
(* processes under six schedulers, one after the other, on the same        *)
(* process_t records.  compute_schedule_ keeps the array of ready          *)
(* processes and asks the scheduler once per time step which one runs.     *)
(* A process is its index in the input file.                               *)
(***************************************************************************)
EXTENDS Integers, FiniteSets, MyArray

CONSTANTS Workloads,        (* the inputs: sequences of records
                               [arrival, service, priority]            *)
          MAX_TIMESTEPS,    (* 1000 in the source                      *)
          RoundRobinQuantum,(* 4 in the source                         *)
          LotteryQuantum,   (* 3 in the source                         *)
          TicketPool        (* 30 in the source                        *)

\* The lottery divides by the service time: it is not 0.
ASSUME SchedulerAssumption ==
  /\ Workloads \subseteq Seq([arrival : Nat, service : Nat \ {0}, priority : Nat])
  /\ MAX_TIMESTEPS \in Nat \ {0}
  /\ RoundRobinQuantum \in Nat \ {0}
  /\ LotteryQuantum \in Nat \ {0}
  /\ TicketPool \in Nat

\* The calls of compute_schedule in main, in their order.
Schedulers == <<"srt", "round_robin", "round_robin_q4", "hpf_preemptive",
                "hpf_non_preemptive", "lottery">>

None == 0

VARIABLES
  procs,     \* the input: procs[k] is the k-th process
  run,       \* the number of the current call of compute_schedule
  phase,     \* "init", "loop" (in the for loop) or "done" (printed)
  timestep,
  list,      \* the array of ready processes
  prev_proc, \* a process that its scheduler took out of the list, or None
  remaining, \* remaining[k]: remaining_time of process k
  user1, user2, user3,   \* the schedulers' fields of the process records
  proc_names \* the recorded schedule

users == <<user1, user2, user3>>
vars == <<procs, run, phase, timestep, list, prev_proc, remaining, users,
          proc_names>>

Process == DOMAIN procs
scheduler == Schedulers[run]

Init ==
  /\ procs \in Workloads
  /\ run = 1
  /\ phase = "init"
  /\ timestep = 0
  /\ list = my_array_init
  /\ prev_proc = None
  /\ remaining = [k \in Process |-> 0]
  /\ user1 = [k \in Process |-> 0]
  /\ user2 = [k \in Process |-> 0]
  /\ user3 = [k \in Process |-> 0]
  /\ proc_names = <<>>

init_processes ==
  /\ remaining' = [k \in Process |-> procs[k].service]
  /\ user1' = [k \in Process |-> 0]
  /\ user2' = [k \in Process |-> 0]
  /\ user3' = [k \in Process |-> 0]

StartSchedule ==
  /\ phase = "init"
  /\ init_processes
  /\ timestep' = 0
  /\ list' = my_array_init
  /\ prev_proc' = None
  /\ proc_names' = <<>>
  /\ phase' = "loop"
  /\ UNCHANGED <<procs, run>>

-----------------------------------------------------------------------------
(* The list that a time step begins with.                                  *)

\* The first loop: my_array_delete(list, i--) looks at every element once.
\* after[n] is the array when it has looked at n of them.
RemoveFinished(array) ==
  LET size == my_array_size(array)
      after[n \in 0 .. size] ==
        IF n = 0 THEN array
        ELSE LET a == after[n - 1]
                 i == (n - 1) - (size - my_array_size(a))
             IN IF remaining[my_array_get(a, i)] = 0 THEN my_array_delete(a, i) ELSE a
  IN after[size]

\* Mutant of AddArrived: everybody who has arrived by now is added.
AddArrived_Again(array) ==
  LET after[k \in 0 .. Len(procs)] ==
        IF k = 0 THEN array
        ELSE IF procs[k].arrival <= timestep THEN my_array_push_back(after[k - 1], k)
        ELSE after[k - 1]
  IN after[Len(procs)]

\* The second loop: who arrives at this time step, in the file's order.
AddArrived(array) ==
  LET after[k \in 0 .. Len(procs)] ==
        IF k = 0 THEN array
        ELSE IF procs[k].arrival = timestep THEN my_array_push_back(after[k - 1], k)
        ELSE after[k - 1]
  IN after[Len(procs)]

\* Mutant of ReadyList: the process of the last time step goes before the
\* new arrivals.
ReadyList_PrevFirst ==
  LET finishedOut == RemoveFinished(list) IN
  AddArrived(IF prev_proc = None THEN finishedOut
             ELSE my_array_push_back(finishedOut, prev_proc))

ReadyList ==
  LET arrivedIn == AddArrived(RemoveFinished(list)) IN
  IF prev_proc = None THEN arrivedIn ELSE my_array_push_back(arrivedIn, prev_proc)

-----------------------------------------------------------------------------
(* One time step.                                                          *)

\* The loops of the schedulers: an element replaces the one selected before
\* if it beats it; beats[p] are those that p beats.
Scan(items, beats) ==
  LET selected[n \in 1 .. Len(items)] ==
        IF n = 1 THEN items[1]
        ELSE LET p == selected[n - 1]
             IN IF p \in beats[items[n]] THEN items[n] ELSE p
  IN selected[Len(items)]

\* The loop has not ended, scheduler s is called with a non-empty list.
Calls(s) ==
  /\ phase = "loop"
  /\ scheduler = s
  /\ timestep < MAX_TIMESTEPS - 1
  /\ my_array_size(ReadyList) > 0

\* What compute_schedule_ does with the process p that the scheduler has
\* chosen, and with the list that it has left.
Dispatch(p, left) ==
  /\ remaining' = [remaining EXCEPT ![p] = @ - 1]
  /\ list' = left
  /\ prev_proc' = IF my_array_size(left) + 1 = my_array_size(ReadyList)
                     /\ remaining'[p] > 0
                  THEN p ELSE None
  /\ proc_names' = Append(proc_names, p)
  /\ timestep' = timestep + 1
  /\ UNCHANGED <<procs, run, phase>>

srt ==
  /\ Calls("srt")
  /\ Dispatch(Scan(ReadyList.items,
                   [p \in Process |-> {q \in Process : remaining[p] < remaining[q]}]),
              ReadyList)
  /\ UNCHANGED users

round_robin ==
  /\ Calls("round_robin")
  /\ Dispatch(my_array_get(ReadyList, 0), my_array_delete(ReadyList, 0))
  /\ UNCHANGED users

\* Mutant of round_robin_q4: at the end of its quantum a process stays where
\* it is.
round_robin_q4_Stays ==
  /\ Calls("round_robin_q4")
  /\ LET selected == my_array_get(ReadyList, 0)
         used == user1[selected] + 1
     IN /\ user1' = [user1 EXCEPT ![selected] =
                        IF used = RoundRobinQuantum THEN 0 ELSE used]
        /\ Dispatch(selected, ReadyList)
  /\ UNCHANGED <<user2, user3>>

round_robin_q4 ==
  /\ Calls("round_robin_q4")
  /\ LET selected == my_array_get(ReadyList, 0)
         used == user1[selected] + 1
     IN IF used = RoundRobinQuantum
        THEN /\ user1' = [user1 EXCEPT ![selected] = 0]
             /\ Dispatch(selected, my_array_delete(ReadyList, 0))
        ELSE /\ user1' = [user1 EXCEPT ![selected] = used]
             /\ Dispatch(selected, ReadyList)
  /\ UNCHANGED <<user2, user3>>

HigherPriority(p, q) == procs[p].priority > procs[q].priority

hpf_preemptive ==
  /\ Calls("hpf_preemptive")
  /\ Dispatch(Scan(ReadyList.items,
                   [p \in Process |-> {q \in Process : HigherPriority(p, q)}]),
              ReadyList)
  /\ UNCHANGED users

\* Mutant of hpf_non_preemptive: the mark of the challenger is looked at.
hpf_non_preemptive_WrongMark ==
  /\ Calls("hpf_non_preemptive")
  /\ LET selected == Scan(ReadyList.items,
                          [p \in Process |->
                             {q \in Process : user1[p] # 1 /\ HigherPriority(p, q)}])
     IN /\ user1' = [user1 EXCEPT ![selected] = 1]
        /\ Dispatch(selected, ReadyList)
  /\ UNCHANGED <<user2, user3>>

\* user1 = 1 marks the process that has begun to run.
hpf_non_preemptive ==
  /\ Calls("hpf_non_preemptive")
  /\ LET selected == Scan(ReadyList.items,
                          [p \in Process |->
                             {q \in Process : user1[q] # 1 /\ HigherPriority(p, q)}])
     IN /\ user1' = [user1 EXCEPT ![selected] = 1]
        /\ Dispatch(selected, ReadyList)
  /\ UNCHANGED <<user2, user3>>

-----------------------------------------------------------------------------
(* lottery.  scheduler_rand seeds the generator with the time step at every*)
(* call, so that all tickets drawn in a step, and the number they are      *)
(* compared with, are one number: who has a ticket at all wins, and of     *)
(* those the last one in the list.  The coin is an arbitrary choice.       *)

Working(items) == SelectInSeq(items, LAMBDA p : user1[p] = 1)

\* find_and_compensate_working_p finds a process that keeps running.
LotteryContinues ==
  /\ Calls("lottery")
  /\ LET w == Working(ReadyList.items) IN
       /\ w # 0
       /\ user2[ReadyList.items[w]] # LotteryQuantum
       /\ Dispatch(ReadyList.items[w], ReadyList)
  /\ UNCHANGED users

\* The tickets of p with a compensation of comp (0 counts as 1).
Tickets(p, comp) ==
  (TicketPool \div procs[p].service) * (IF comp > 0 THEN comp ELSE 1)

\* The drawing, with the fields as find_and_compensate_working_p left them.
\* Without a ticket in the list the winner's name is uninitialized.
Draw(u1, u2, u3) ==
  LET items == ReadyList.items
      holders == {k \in DOMAIN items : Tickets(items[k], u3[items[k]]) > 0}
  IN \E k \in DOMAIN items :
       /\ holders # {} => k \in holders /\ \A j \in holders : j <= k
       /\ user1' = [u1 EXCEPT ![items[k]] = 1]
       /\ user2' = [u2 EXCEPT ![items[k]] = @ + 1]
       /\ user3' = [p \in Process |-> IF p \in Range(items) THEN 0 ELSE u3[p]]
       /\ Dispatch(items[k], ReadyList)

\* Nobody is working: the last winner has finished.
LotteryDraws ==
  /\ Calls("lottery")
  /\ Working(ReadyList.items) = 0
  /\ Draw(user1, user2, user3)

\* Mutant of LotteryYields: the process that yields keeps its mark.
LotteryYields_Marked ==
  /\ Calls("lottery")
  /\ LET w == Working(ReadyList.items)
         p == ReadyList.items[w]
         compensation == IF user2[p] < LotteryQuantum THEN 1 \div user2[p] ELSE user3[p]
     IN /\ w # 0
        /\ Draw(user1, [user2 EXCEPT ![p] = 0], [user3 EXCEPT ![p] = compensation])

\* The working process yields, with compensation if that is early, or its
\* quantum is used up.
LotteryYields ==
  /\ Calls("lottery")
  /\ LET w == Working(ReadyList.items)
         p == ReadyList.items[w]
         compensation == IF user2[p] < LotteryQuantum THEN 1 \div user2[p] ELSE user3[p]
     IN /\ w # 0
        /\ Draw([user1 EXCEPT ![p] = 0], [user2 EXCEPT ![p] = 0],
                [user3 EXCEPT ![p] = compensation])

-----------------------------------------------------------------------------
\* Mutant of EndSchedule: the schedule ends when one process is left.
EndSchedule_OneLeft ==
  /\ phase = "loop"
  /\ timestep = MAX_TIMESTEPS - 1 \/ my_array_size(ReadyList) <= 1
  /\ phase' = "done"
  /\ UNCHANGED <<procs, run, timestep, list, prev_proc, remaining, users,
                 proc_names>>

\* The loop ends at the bound, or when nothing is left to schedule.
EndSchedule ==
  /\ phase = "loop"
  /\ timestep = MAX_TIMESTEPS - 1 \/ my_array_size(ReadyList) = 0
  /\ phase' = "done"
  /\ UNCHANGED <<procs, run, timestep, list, prev_proc, remaining, users,
                 proc_names>>

\* print_schedule, then main's next call.
NextSchedule ==
  /\ phase = "done"
  /\ run < Len(Schedulers)
  /\ run' = run + 1
  /\ phase' = "init"
  /\ UNCHANGED <<procs, timestep, list, prev_proc, remaining, users, proc_names>>

Finished == phase = "done" /\ run = Len(Schedulers)

Exited == Finished /\ UNCHANGED vars

Next ==
  \/ StartSchedule
  \/ srt \/ round_robin \/ round_robin_q4 \/ hpf_preemptive
  \/ hpf_non_preemptive
  \/ LotteryContinues \/ LotteryDraws \/ LotteryYields
  \/ EndSchedule \/ NextSchedule \/ Exited

Spec == Init /\ [][Next]_vars

-----------------------------------------------------------------------------
(* Type invariant; the array never holds more than it has room for.        *)
TypeOK ==
  /\ run \in DOMAIN Schedulers
  /\ phase \in {"init", "loop", "done"}
  /\ timestep \in 0 .. MAX_TIMESTEPS - 1
  /\ list.items \in Seq(Process) /\ my_array_size(list) <= list.capacity
  /\ prev_proc \in Process \cup {None}
  /\ remaining \in [Process -> Int]
  /\ user1 \in [Process -> Nat]
  /\ user2 \in [Process -> Nat]
  /\ user3 \in [Process -> Nat]
  /\ proc_names \in Seq(Process) /\ Len(proc_names) < MAX_TIMESTEPS

\* The processes that may run at the current time step.
Viable == {k \in Process : procs[k].arrival <= timestep /\ remaining[k] > 0}

(* exercise08/README.md: "Only processes that can already be executed and  *)
(* have not finished are provided to the scheduling function" (and each    *)
(* once): whatever a scheduler took out of the list is back in it, and the *)
(* removal of finished processes, the arrivals and the re-appended process *)
(* neither lose one nor list one twice.                                    *)
OnlyViableProvided ==
  phase = "loop" =>
    /\ Range(ReadyList.items) = Viable
    /\ Len(ReadyList.items) = Cardinality(Viable)
    /\ Len(ReadyList.items) <= ReadyList.capacity

\* A time step in which a process is scheduled, and which one.
Scheduled == phase = "loop" /\ phase' = "loop"
Ran == Last(proc_names')

\* The process that ran last has not finished; it runs again.
Unfinished == proc_names # <<>> /\ Last(proc_names) \in Viable
GoesOn == Unfinished /\ Ran = Last(proc_names)

\* Process p comes before k where they are equally eligible.
FirstCome(p, k) ==
  \/ procs[p].arrival < procs[k].arrival
  \/ procs[p].arrival = procs[k].arrival /\ p <= k

(* srt runs a process with the shortest remaining time, hpf_preemptive one *)
(* of the highest priority, at every time step, and hpf_non_preemptive one *)
(* of the highest priority when the one that ran has finished, which it    *)
(* never takes the processor from although it only looks at the mark of    *)
(* the process it would drop; and of several such they run the one that    *)
(* came first (exercise08/README.md, additional notes).                    *)
PicksFirstBest ==
  [][Scheduled =>
       \A k \in Viable :
         /\ scheduler = "srt" =>
              \/ remaining[Ran] < remaining[k]
              \/ remaining[Ran] = remaining[k] /\ FirstCome(Ran, k)
         /\ scheduler \in {"hpf_preemptive", "hpf_non_preemptive"} =>
              \/ scheduler = "hpf_non_preemptive" /\ GoesOn
              \/ HigherPriority(Ran, k)
              \/ procs[Ran].priority = procs[k].priority /\ FirstCome(Ran, k)
         /\ scheduler = "hpf_non_preemptive" => GoesOn \/ ~Unfinished
    ]_vars

\* How long process k has been ready without running.
Waited(k) ==
  LET runs == {n \in 1 .. Len(proc_names) : proc_names[n] = k}
      since == {procs[k].arrival} \cup runs
  IN timestep - (CHOOSE n \in since : \A m \in since : m <= n)

(* Round robin starves nobody: a ready process waits for at most one       *)
(* quantum of every other process, whatever arrives meanwhile.             *)
BoundedWaiting ==
  phase = "loop" =>
    \A k \in Viable :
      /\ scheduler = "round_robin" => Waited(k) <= Cardinality(Process) - 1
      /\ scheduler = "round_robin_q4" =>
           Waited(k) <= (Cardinality(Process) - 1) * RoundRobinQuantum

(* In the lottery one process at most is marked as working, it is the one  *)
(* that ran last, and it has run, so that the division 1 / user2 of its    *)
(* compensation is defined.                                                *)
OneWorking ==
  phase = "loop" /\ scheduler = "lottery" =>
    \A k \in Viable :
      user1[k] # 0 => /\ user1[k] = 1 /\ user2[k] >= 1
                      /\ proc_names # <<>> /\ Last(proc_names) = k

\* The units of service time that those who arrive by time t ask for.
Work(t) ==
  UNION {{k} \X (1 .. procs[k].service) :
           k \in {q \in Process : procs[q].arrival <= t}}

\* Until the last arrival there has always been more work than time.
NoIdleGap ==
  \A k \in Process : \A t \in 0 .. procs[k].arrival - 1 : Cardinality(Work(t)) > t

\* How many time steps the schedule gives to process k.
TimeOf(k) == Cardinality({n \in DOMAIN proc_names : proc_names[n] = k})

(* exercise08/README.md: "The framework begins its simulation at time step *)
(* 0, and runs until all processes have been serviced", each for its       *)
(* service time.  compute_schedule_ ends at the first time step in which   *)
(* nobody is ready, also if processes are still to come: the run           *)
(* idle_gap shows an input of which this is false.                         *)
EverybodyIsServed == phase = "done" => \A k \in Process : TimeOf(k) = procs[k].service

(* It is true of the inputs without an idle gap: no scheduler gives a      *)
(* process more time than it asks for or wastes a time step, so that the   *)
(* work never runs out before the last process is there, and at the end    *)
(* everybody has been given his service time, no more and no less.         *)
ServedWithoutGaps == NoIdleGap => EverybodyIsServed
=============================================================================
