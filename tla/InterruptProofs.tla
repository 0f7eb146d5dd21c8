--------------------------- MODULE InterruptProofs ---------------------------
(***************************************************************************)
(* Proofs about the programs whose processes and threads are ended from    *)
(* outside, wherever they are: ShmSum, whose processes die with a semaphore*)
(* in their hands; Cancel, whose threads are cancelled; and Signals, whose *)
(* child is ended by its parent.  They have nothing in common but this;    *)
(* the definitions of ShmSum and Signals have names of their own (SumInit, *)
(* SigInit) so that the three can be extended together.                    *)
(***************************************************************************)
EXTENDS ShmSum, Cancel, Signals, TLAPS

USE ShmSumAssumption, NumThreadsAssumption

\* Children run only while their parent waits for them.
Waited == b # "wait" => \A c \in Child : at[c] \in {"none", "exited", "killed"}

\* As long as there is no semaphore, nothing has been taken from it, and no
\* process is there that could.
NotYetCreated ==
  semaphore = None =>
    /\ lost = 0
    /\ task = 2 => \A c \in Child : at[c] \in {"none", "exited", "killed"}

\* The inductive invariant.
SumInv == SumTypeOK /\ SemaphoreExact /\ Waited /\ NotYetCreated

-----------------------------------------------------------------------------
\* Who is between sem_wait and sem_post, as far as it counts.
LEMMA HoldersNumber ==
  ASSUME SumTypeOK
  PROVE  /\ Holds("producer") \in {0, 1} /\ Holds("consumer") \in {0, 1}
         /\ Holders = Holds("producer") + Holds("consumer")
         /\ lost \in Nat
         /\ semaphore \in Nat \/ semaphore = None
         /\ Value \in Nat
  BY DEF Holders, Holds, SumTypeOK

LEMMA SumInitInv == SumInit => SumInv
  <1> SUFFICES ASSUME SumInit PROVE SumInv
    OBVIOUS
  <1>1. SumTypeOK
    <2>1. at \in [Child -> {"none"}] /\ round \in [Child -> {1}]
      BY DEF SumInit
    <2>2. semaphore = None /\ first = None /\ fifo \in BOOLEAN
      BY DEF SumInit
    <2>3. QED BY <2>1, <2>2 DEF SumInit, SumTypeOK
  <1>2. SemaphoreExact /\ Waited /\ NotYetCreated
    BY DEF SumInit, SemaphoreExact, Waited, NotYetCreated
  <1>3. QED BY <1>1, <1>2 DEF SumInv

\* Steps that leave the semaphore and the children alone and program b
\* waiting, or not, as it was.
LEMMA OtherSteps ==
  ASSUME SumInv, SumTypeOK', UNCHANGED <<semaphore, lost, at, task>>,
         b' = "wait" <=> b = "wait"
  PROVE  SumInv'
  BY DEF SumInv, SemaphoreExact, Holders, Holds, Waited, NotYetCreated

(* Program a, and program b once its children are over.                    *)

LEMMA ProgramA ==
  ASSUME SumInv, StartA \/ A \/ InterruptA \/ Rendezvous
  PROVE  SumInv'
  <1> USE DEF aVars, runVars, childVars
  <1>1. ASSUME StartA PROVE SumInv'
    <2>1. SumTypeOK'
      BY <1>1 DEF StartA, SumInv, SumTypeOK
    <2>2. QED BY <1>1, <2>1, OtherSteps DEF StartA
  <1>2. ASSUME MakeFifo PROVE SumInv'
    <2>1. SumTypeOK'
      BY <1>2 DEF MakeFifo, SumInv, SumTypeOK
    <2>2. QED BY <1>2, <2>1, OtherSteps DEF MakeFifo
  <1>3. ASSUME Read PROVE SumInv'
    <2>1. SumTypeOK'
      BY <1>3 DEF Read, SumInv, SumTypeOK
    <2>2. QED BY <1>3, <2>1, OtherSteps DEF Read
  <1>4. ASSUME Unlink PROVE SumInv'
    <2>1. SumTypeOK'
      BY <1>4 DEF Unlink, SumInv, SumTypeOK
    <2>2. QED BY <1>4, <2>1, OtherSteps DEF Unlink
  <1>5. ASSUME InterruptA PROVE SumInv'
    <2>1. SumTypeOK'
      BY <1>5 DEF InterruptA, SumInv, SumTypeOK
    <2>2. QED BY <1>5, <2>1, OtherSteps DEF InterruptA
  <1>6. ASSUME Rendezvous PROVE SumInv'
    <2>1. SumTypeOK'
      BY <1>6 DEF Rendezvous, SumInv, SumTypeOK
    <2>2. QED BY <1>6, <2>1, OtherSteps DEF Rendezvous
  <1>7. QED BY <1>1, <1>2, <1>3, <1>4, <1>5, <1>6 DEF A

LEMMA ParentOfB ==
  ASSUME SumInv, StartB \/ B
  PROVE  SumInv'
  <1> USE DEF aVars, runVars, childVars
  <1>1. ASSUME StartB PROVE SumInv'
    <2> USE <1>1 DEF StartB
    <2>1. SumTypeOK'
      BY DEF SumInv, SumTypeOK, None
    <2>2. Holders = 0 /\ Holders' = 0
      BY DEF SumInv, Waited, Off, Holders, Holds, Child
    <2>3. SemaphoreExact'
      BY <2>2 DEF SumInv, SemaphoreExact, NotYetCreated, SumTypeOK, None
    <2>4. Waited'
      BY DEF Waited
    <2>5. NotYetCreated'
      BY DEF SumInv, NotYetCreated, None
    <2>6. QED BY <2>1, <2>3, <2>4, <2>5 DEF SumInv
  <1>2. ASSUME WaitChildren PROVE SumInv'
    <2> USE <1>2 DEF WaitChildren
    <2>1. SumTypeOK'
      BY DEF SumInv, SumTypeOK
    <2>2. SemaphoreExact'
      BY DEF SumInv, SemaphoreExact, Holders, Holds
    <2>3. Waited'
      BY DEF Waited
    <2>4. NotYetCreated'
      BY DEF SumInv, NotYetCreated
    <2>5. QED BY <2>1, <2>2, <2>3, <2>4 DEF SumInv
  <1>3. ASSUME OpenFails PROVE SumInv'
    <2>1. SumTypeOK'
      BY <1>3 DEF OpenFails, SumInv, SumTypeOK
    <2>2. QED BY <1>3, <2>1, OtherSteps DEF OpenFails
  <1>4. ASSUME Write PROVE SumInv'
    <2>1. SumTypeOK'
      BY <1>4 DEF Write, SumInv, SumTypeOK
    <2>2. QED BY <1>4, <2>1, OtherSteps DEF Write
  <1>5. QED BY <1>1, <1>2, <1>3, <1>4 DEF B

(* The children, and the interrupt that ends them.                         *)

LEMMA Children ==
  ASSUME SumInv, Produce \/ Consume \/ InterruptB \/ \E c \in Child : Run(c)
  PROVE  SumInv'
  <1> USE DEF aVars, runVars, childVars, MoveTo
  <1>1. ASSUME NEW c \in Child, SemWait(c) PROVE SumInv'
    <2> USE <1>1 DEF SemWait
    <2>1. SumTypeOK'
      BY DEF SumInv, SumTypeOK, Down
    <2>2. task = 2 => semaphore \in Nat /\ semaphore' = semaphore - 1
      BY DEF SumInv, NotYetCreated, SumTypeOK, Down, None
    <2>3. task = 2 => Holders' = Holders + 1
      BY DEF Holders, Holds, Child, SumInv, SumTypeOK
    <2>4. task = 1 => Holders' = Holders /\ UNCHANGED semaphore
      BY DEF Holders, Holds, Down
    <2>5. SemaphoreExact'
      BY <2>2, <2>3, <2>4, HoldersNumber DEF SumInv, SemaphoreExact, SumTypeOK, None
    <2>6. Waited'
      BY DEF SumInv, Waited
    <2>7. NotYetCreated'
      BY <2>2, <2>4 DEF SumInv, NotYetCreated, SumTypeOK, Down, None
    <2>8. QED BY <2>1, <2>5, <2>6, <2>7 DEF SumInv
  <1>2. ASSUME NEW c \in Child, LeaveLoop(c) PROVE SumInv'
    <2> USE <1>2 DEF LeaveLoop
    <2>1. SumTypeOK'
      BY DEF SumInv, SumTypeOK
    <2>2. Holders' = Holders
      BY DEF Holders, Holds, Child, SumInv, SumTypeOK
    <2>3. SemaphoreExact'
      BY <2>2 DEF SumInv, SemaphoreExact
    <2>4. Waited'
      BY DEF SumInv, Waited, SumTypeOK
    <2>5. NotYetCreated'
      BY DEF SumInv, NotYetCreated, SumTypeOK
    <2>6. QED BY <2>1, <2>3, <2>4, <2>5 DEF SumInv
  <1>3. ASSUME Produce PROVE SumInv'
    <2> USE <1>3 DEF Produce
    <2>1. SumTypeOK'
      <3>1. lost' \in Nat
        BY HoldersNumber DEF SumInv
      <3>2. QED BY <3>1 DEF SumInv, SumTypeOK
    <2>2. Holders = Holds("consumer") + Holds("producer") /\ Holders' = Holds("consumer")
      BY HoldersNumber DEF Holders, Holds, Child, SumInv, SumTypeOK
    <2>3. SemaphoreExact'
      BY <2>2, HoldersNumber DEF SumInv, SemaphoreExact
    <2>4. Waited'
      BY DEF SumInv, Waited, SumTypeOK
    <2>5. NotYetCreated'
      BY DEF SumInv, NotYetCreated, SumTypeOK, Holds, Child
    <2>6. QED BY <2>1, <2>3, <2>4, <2>5 DEF SumInv
  <1>4. ASSUME Consume PROVE SumInv'
    <2> USE <1>4 DEF Consume
    <2>1. task = 2 => semaphore \in Nat /\ semaphore' = semaphore + 1
      BY DEF SumInv, NotYetCreated, SumTypeOK, Up, Child
    <2>2. task = 1 => UNCHANGED semaphore
      BY DEF Up
    <2>3. SumTypeOK'
      BY <2>1, <2>2 DEF SumInv, SumTypeOK, Child
    <2>4. /\ Holders' \in Nat
          /\ task = 2 => Holders = Holders' + 1
          /\ task = 1 => Holders' = Holders
      BY HoldersNumber DEF Holders, Holds, Child, SumInv, SumTypeOK
    <2>5. SemaphoreExact'
      <3>1. CASE task = 2
        BY <3>1, <2>1, <2>4, HoldersNumber DEF SumInv, SemaphoreExact, None
      <3>2. CASE task = 1
        BY <3>2, <2>2, <2>4 DEF SumInv, SemaphoreExact
      <3>3. QED BY <3>1, <3>2 DEF SumInv, SumTypeOK
    <2>6. Waited'
      BY DEF SumInv, Waited, Child
    <2>7. NotYetCreated'
      BY <2>1, <2>2 DEF SumInv, NotYetCreated, SumTypeOK, None
    <2>8. QED BY <2>3, <2>5, <2>6, <2>7 DEF SumInv
  <1>5. ASSUME InterruptB PROVE SumInv'
    <2> USE <1>5 DEF InterruptB
    <2>1. SumTypeOK'
      BY HoldersNumber DEF SumInv, SumTypeOK
    <2>2. Holders' = 0
      BY DEF Holders, Holds, Child
    <2>3. SemaphoreExact'
      BY <2>2, HoldersNumber DEF SumInv, SemaphoreExact
    <2>4. Waited'
      BY DEF Waited
    <2>5. NotYetCreated'
      BY DEF SumInv, NotYetCreated, Holders, Holds, Child
    <2>6. QED BY <2>1, <2>3, <2>4, <2>5 DEF SumInv
  <1>6. QED BY <1>1, <1>2, <1>3, <1>4, <1>5 DEF Run

LEMMA SumNextInv == SumInv /\ [SumNext]_sumVars => SumInv'
  <1> SUFFICES ASSUME SumInv, [SumNext]_sumVars PROVE SumInv'
    OBVIOUS
  <1>1. CASE UNCHANGED sumVars
    BY <1>1 DEF sumVars, aVars, runVars, childVars, SumInv, SumTypeOK, SemaphoreExact,
                Holders, Holds, Waited, NotYetCreated
  <1>2. CASE SumNext
    BY <1>2, ProgramA, ParentOfB, Children DEF SumNext
  <1>3. QED BY <1>1, <1>2

(* The inductive invariant holds in every reachable state.                 *)
THEOREM SumInvariantHolds == SumSpec => []SumInv
  BY SumInitInv, SumNextInv, PTL DEF SumSpec

(* Variables keep their types; in particular the semaphore is never below  *)
(* zero.                                                                   *)
THEOREM SumTypeCorrect == SumSpec => []SumTypeOK
  <1>1. SumInv => SumTypeOK
    BY DEF SumInv
  <1>2. QED BY <1>1, SumInvariantHolds, PTL

(* Over all runs the semaphore has lost exactly what processes took with   *)
(* them when they died between sem_wait and sem_post.                      *)
THEOREM SemaphoreIsExact == SumSpec => []SemaphoreExact
  <1>1. SumInv => SemaphoreExact
    BY DEF SumInv
  <1>2. QED BY <1>1, SumInvariantHolds, PTL

-----------------------------------------------------------------------------
(* Cancel.                                                                 *)

\* The handler is in place from its push to its pop or its execution, and
\* from the creation of the file to its removal fopen's outcome stands.
\* Only a request makes a thread act or perish.
Placed ==
  /\ \A t \in Thread :
       /\ t \in handler <=> pc[t] \in {"pushed", "enabled", "sleeping", "acting"}
       /\ pc[t] \in {"opened", "pushed", "enabled", "sleeping", "popped", "acting",
                     "returned", "perished"} => file[t] \in {"there", "failed"}
       /\ pc[t] = "cancelled" => file[t] = "removed"
       /\ pc[t] \in {"acting", "cancelled", "perished"} => t \in requested
       /\ t \in joined => pc[t] = "returned"

\* main creates one thread after the other, and then joins or cancels.
Dealt ==
  /\ joined \cap requested = {}
  /\ mainPc = "create" =>
       /\ joined = {} /\ requested = {}
       /\ \A t \in Thread : t >= i => pc[t] = "none"
  /\ \A t \in joined : t < i
  /\ \A t \in requested : t < i \/ (t = i /\ mainPc = "detach")
  /\ mainPc \in {"detach", "join"} => i < NumThreads

\* The inductive invariant.
CancelInv == TypeOK /\ Placed /\ Dealt

-----------------------------------------------------------------------------
LEMMA CancelInit == Init => CancelInv
  BY DEF Init, CancelInv, TypeOK, Placed, Dealt, Thread

(* The steps of a thread.                                                  *)

LEMMA CancelSteps ==
  ASSUME CancelInv, NEW t \in Thread, Step(t)
  PROVE  CancelInv'
  <1> USE DEF Running, GoTo, mainVars, Over
  <1>1. ASSUME DisableCancel(t) PROVE CancelInv'
    <2> USE <1>1 DEF DisableCancel
    <2>1. TypeOK'
      BY DEF CancelInv, TypeOK
    <2>2. Placed'
      BY DEF CancelInv, TypeOK, Placed
    <2>3. Dealt'
      BY DEF CancelInv, TypeOK, Dealt
    <2>4. QED BY <2>1, <2>2, <2>3 DEF CancelInv
  <1>2. ASSUME CreateFile(t) PROVE CancelInv'
    <2> USE <1>2 DEF CreateFile
    <2>1. TypeOK'
      BY DEF CancelInv, TypeOK
    <2>2. Placed'
      BY DEF CancelInv, TypeOK, Placed
    <2>3. Dealt'
      BY DEF CancelInv, TypeOK, Dealt
    <2>4. QED BY <2>1, <2>2, <2>3 DEF CancelInv
  <1>3. ASSUME PushHandler(t) PROVE CancelInv'
    <2> USE <1>3 DEF PushHandler
    <2>1. TypeOK'
      BY DEF CancelInv, TypeOK
    <2>2. Placed'
      BY DEF CancelInv, TypeOK, Placed
    <2>3. Dealt'
      BY DEF CancelInv, TypeOK, Dealt
    <2>4. QED BY <2>1, <2>2, <2>3 DEF CancelInv
  <1>4. ASSUME EnableCancel(t) PROVE CancelInv'
    <2> USE <1>4 DEF EnableCancel
    <2>1. TypeOK'
      BY DEF CancelInv, TypeOK
    <2>2. Placed'
      BY DEF CancelInv, TypeOK, Placed
    <2>3. Dealt'
      BY DEF CancelInv, TypeOK, Dealt
    <2>4. QED BY <2>1, <2>2, <2>3 DEF CancelInv
  <1>5. ASSUME SetAsynchronous(t) PROVE CancelInv'
    <2> USE <1>5 DEF SetAsynchronous
    <2>1. TypeOK'
      BY DEF CancelInv, TypeOK
    <2>2. Placed'
      BY DEF CancelInv, TypeOK, Placed
    <2>3. Dealt'
      BY DEF CancelInv, TypeOK, Dealt
    <2>4. QED BY <2>1, <2>2, <2>3 DEF CancelInv
  <1>6. ASSUME PopHandler(t) PROVE CancelInv'
    <2> USE <1>6 DEF PopHandler
    <2>1. TypeOK'
      BY DEF CancelInv, TypeOK
    <2>2. Placed'
      BY DEF CancelInv, TypeOK, Placed
    <2>3. Dealt'
      BY DEF CancelInv, TypeOK, Dealt
    <2>4. QED BY <2>1, <2>2, <2>3 DEF CancelInv
  <1>7. ASSUME Return(t) PROVE CancelInv'
    <2> USE <1>7 DEF Return
    <2>1. TypeOK'
      BY DEF CancelInv, TypeOK
    <2>2. Placed'
      BY DEF CancelInv, TypeOK, Placed
    <2>3. Dealt'
      BY DEF CancelInv, TypeOK, Dealt
    <2>4. QED BY <2>1, <2>2, <2>3 DEF CancelInv
  <1>8. ASSUME TakeRequest(t) PROVE CancelInv'
    <2> USE <1>8 DEF TakeRequest, Cancellable
    <2>1. TypeOK'
      BY DEF CancelInv, TypeOK
    <2>2. Placed'
      BY DEF CancelInv, TypeOK, Placed
    <2>3. Dealt'
      BY DEF CancelInv, TypeOK, Dealt
    <2>4. QED BY <2>1, <2>2, <2>3 DEF CancelInv
  <1>9. ASSUME Perish(t) PROVE CancelInv'
    <2> USE <1>9 DEF Perish
    <2>1. TypeOK'
      BY DEF CancelInv, TypeOK
    <2>2. Placed'
      BY DEF CancelInv, TypeOK, Placed
    <2>3. Dealt'
      BY DEF CancelInv, TypeOK, Dealt
    <2>4. QED BY <2>1, <2>2, <2>3 DEF CancelInv
  <1>10. ASSUME Cleanup(t) PROVE CancelInv'
    <2> USE <1>10 DEF Cleanup
    <2>1. TypeOK'
      BY DEF CancelInv, TypeOK
    <2>2. Placed'
      BY DEF CancelInv, TypeOK, Placed
    <2>3. Dealt'
      BY DEF CancelInv, TypeOK, Dealt
    <2>4. QED BY <2>1, <2>2, <2>3 DEF CancelInv
  <1>11. QED
    BY <1>1, <1>2, <1>3, <1>4, <1>5, <1>6, <1>7, <1>8, <1>9, <1>10 DEF Step

(* The steps of main.                                                      *)

LEMMA CancelMain ==
  ASSUME CancelInv, MainStep
  PROVE  CancelInv'
  <1> USE DEF Main, GoTo, Fail, NextThread, mainVars, Over, Thread
  <1>1. ASSUME CreateThread PROVE CancelInv'
    <2> USE <1>1 DEF CreateThread
    <2>1. TypeOK'
      BY DEF CancelInv, TypeOK, Dealt
    <2>2. Placed'
      BY DEF CancelInv, TypeOK, Placed, Dealt
    <2>3. Dealt'
      BY DEF CancelInv, TypeOK, Dealt
    <2>4. QED BY <2>1, <2>2, <2>3 DEF CancelInv
  <1>2. ASSUME CreateFails PROVE CancelInv'
    <2> USE <1>2 DEF CreateFails
    <2>1. TypeOK'
      BY DEF CancelInv, TypeOK, Dealt
    <2>2. Placed'
      BY DEF CancelInv, TypeOK, Placed, Dealt
    <2>3. Dealt'
      BY DEF CancelInv, TypeOK, Dealt
    <2>4. QED BY <2>1, <2>2, <2>3 DEF CancelInv
  <1>3. ASSUME EndCreating PROVE CancelInv'
    <2> USE <1>3 DEF EndCreating
    <2>1. TypeOK'
      BY DEF CancelInv, TypeOK, Dealt
    <2>2. Placed'
      BY DEF CancelInv, TypeOK, Placed, Dealt
    <2>3. Dealt'
      BY DEF CancelInv, TypeOK, Dealt
    <2>4. QED BY <2>1, <2>2, <2>3 DEF CancelInv
  <1>4. ASSUME Spare PROVE CancelInv'
    <2> USE <1>4 DEF Spare
    <2>1. TypeOK'
      BY DEF CancelInv, TypeOK, Dealt
    <2>2. Placed'
      BY DEF CancelInv, TypeOK, Placed, Dealt
    <2>3. Dealt'
      BY DEF CancelInv, TypeOK, Dealt
    <2>4. QED BY <2>1, <2>2, <2>3 DEF CancelInv
  <1>5. ASSUME RequestCancel PROVE CancelInv'
    <2> USE <1>5 DEF RequestCancel
    <2>1. TypeOK'
      BY DEF CancelInv, TypeOK, Dealt
    <2>2. Placed'
      BY DEF CancelInv, TypeOK, Placed, Dealt
    <2>3. Dealt'
      BY DEF CancelInv, TypeOK, Dealt
    <2>4. QED BY <2>1, <2>2, <2>3 DEF CancelInv
  <1>6. ASSUME CancelFails PROVE CancelInv'
    <2> USE <1>6 DEF CancelFails
    <2>1. TypeOK'
      BY DEF CancelInv, TypeOK, Dealt
    <2>2. Placed'
      BY DEF CancelInv, TypeOK, Placed, Dealt
    <2>3. Dealt'
      BY DEF CancelInv, TypeOK, Dealt
    <2>4. QED BY <2>1, <2>2, <2>3 DEF CancelInv
  <1>7. ASSUME Detach PROVE CancelInv'
    <2> USE <1>7 DEF Detach
    <2>1. TypeOK'
      BY DEF CancelInv, TypeOK, Dealt
    <2>2. Placed'
      BY DEF CancelInv, TypeOK, Placed, Dealt
    <2>3. Dealt'
      BY DEF CancelInv, TypeOK, Dealt
    <2>4. QED BY <2>1, <2>2, <2>3 DEF CancelInv
  <1>8. ASSUME Join PROVE CancelInv'
    <2> USE <1>8 DEF Join
    <2>1. TypeOK'
      BY DEF CancelInv, TypeOK, Dealt
    <2>2. Placed'
      BY DEF CancelInv, TypeOK, Placed, Dealt
    <2>3. Dealt'
      BY DEF CancelInv, TypeOK, Dealt
    <2>4. QED BY <2>1, <2>2, <2>3 DEF CancelInv
  <1>9. ASSUME ReturnFromMain PROVE CancelInv'
    <2> USE <1>9 DEF ReturnFromMain
    <2>1. TypeOK'
      BY DEF CancelInv, TypeOK, Dealt
    <2>2. Placed'
      BY DEF CancelInv, TypeOK, Placed, Dealt
    <2>3. Dealt'
      BY DEF CancelInv, TypeOK, Dealt
    <2>4. QED BY <2>1, <2>2, <2>3 DEF CancelInv
  <1>10. QED
    BY <1>1, <1>2, <1>3, <1>4, <1>5, <1>6, <1>7, <1>8, <1>9 DEF MainStep

LEMMA CancelNext ==
  CancelInv /\ [Next]_vars => CancelInv'
  <1> SUFFICES ASSUME CancelInv, [Next]_vars
               PROVE  CancelInv'
    OBVIOUS
  <1>1. CASE UNCHANGED vars
    BY <1>1 DEF vars, mainVars, CancelInv, TypeOK, Placed, Dealt
  <1>2. CASE MainStep
    BY <1>2, CancelMain
  <1>3. CASE \E t \in Thread : Step(t)
    BY <1>3, CancelSteps
  <1>4. QED BY <1>1, <1>2, <1>3 DEF Next, Ended

(* The inductive invariant holds in every reachable state.                 *)
THEOREM CancelInvariantHolds == Spec => []CancelInv
  <1>1. Init => CancelInv
    BY CancelInit
  <1>2. CancelInv /\ [Next]_vars => CancelInv'
    BY CancelNext
  <1>3. QED BY <1>1, <1>2, PTL DEF Spec

(* Variables keep their types; main never counts past its threads.         *)
THEOREM CancelTypeCorrect == Spec => []TypeOK
  <1>1. CancelInv => TypeOK
    BY DEF CancelInv
  <1>2. QED BY <1>1, CancelInvariantHolds, PTL

(* A thread that main has joined was not cancelled and keeps its file,     *)
(* whatever happens to the other threads.                                  *)
THEOREM SparedThreadsKeepTheirFiles == Spec => []SparedKeepFile
  <1>1. CancelInv => SparedKeepFile
    BY DEF CancelInv, TypeOK, Placed, Dealt, SparedKeepFile
  <1>2. QED BY <1>1, CancelInvariantHolds, PTL

(* A thread that a request makes act has its handler in place, and one     *)
(* that was cancelled has deleted its file.                                *)
THEOREM CancelledThreadsDeleteTheirFiles == Spec => []CancelledDeleteFile
  <1>1. CancelInv => CancelledDeleteFile
    BY DEF CancelInv, Placed, CancelledDeleteFile
  <1>2. QED BY <1>1, CancelInvariantHolds, PTL

-----------------------------------------------------------------------------
(* Signals.                                                                *)

\* SIGUSR2 is let through in childAlarmHandler alone: where its handler is
\* installed it is blocked, outside of that function.
LetThrough == cp \in {"unblocked", "childDone"} => cAlarm = "over"

LEMMA ChildLetsThrough ==
  ASSUME LetThrough, ChildSteps PROVE LetThrough'
  <1>1. CASE BlockUsr2
    BY <1>1 DEF BlockUsr2, ChildAt, LetThrough
  <1>2. CASE SetAlarm
    BY <1>2 DEF SetAlarm, ChildAt, LetThrough
  <1>3. CASE InstallUsr1
    BY <1>3 DEF InstallUsr1, ChildAt, LetThrough
  <1>4. CASE InstallUsr2
    BY <1>4 DEF InstallUsr2, ChildAt, LetThrough
  <1>5. CASE ChildAlarm
    BY <1>5 DEF ChildAlarm, LetThrough
  <1>6. CASE EndChildAlarm
    BY <1>6 DEF EndChildAlarm, LetThrough
  <1>7. ASSUME NEW signal \in {"USR1", "USR2"}, Take(signal) PROVE LetThrough'
    <2>1. cAlarm' = cAlarm /\ ~Blocked(signal)
      BY <1>7 DEF Take
    <2>2. CASE ~Handles(signal)
      <3>1. cp' = "killed"
        BY <1>7, <2>2 DEF Take
      <3>2. QED BY <2>1, <3>1 DEF LetThrough
    <2>3. CASE signal = "USR2" /\ Handles(signal)
      <3>1. Position = "loop"
        BY <2>3 DEF Handles
      <3>2. cp = "unblocked"
        BY <2>1, <2>3, <3>1 DEF Blocked, Position
      <3>3. QED BY <2>1, <3>2 DEF LetThrough
    <2>4. CASE signal # "USR2" /\ Handles(signal)
      <3>1. cp' = cp
        BY <1>7, <2>4 DEF Take
      <3>2. QED BY <2>1, <3>1 DEF LetThrough
    <2>5. QED BY <2>2, <2>3, <2>4
  <1>8. QED BY <1>1, <1>2, <1>3, <1>4, <1>5, <1>6, <1>7 DEF ChildSteps

(* The child ends by sigusr2Handler only after its own alarm, although     *)
(* SIGUSR2 is sent long before and may come at any point of its setup.     *)
THEOREM EndsAfterItsAlarm == SigSpec => []BlockedUntilAlarm
  <1>1. SigInit => LetThrough
    BY DEF SigInit, LetThrough
  <1>2. LetThrough /\ [SigNext]_sigVars => LetThrough'
    <2> SUFFICES ASSUME LetThrough, [SigNext]_sigVars PROVE LetThrough'
      OBVIOUS
    <2>1. CASE ParentSteps
      <3>1. CASE Fork
        BY <3>1 DEF Fork, LetThrough
      <3>2. CASE ~Fork
        BY <2>1, <3>2 DEF ParentSteps, InstallChildTermination, FirstAlarm,
           SendSignalToChild, KillUsr2, KillUsr1, NextAlarm, ChildTermination,
           childFields, LetThrough
      <3>3. QED BY <3>1, <3>2
    <2>2. CASE ChildSteps
      BY <2>2, ChildLetsThrough
    <2>3. CASE UNCHANGED sigVars
      BY <2>3 DEF sigVars, LetThrough
    <2>4. QED BY <2>1, <2>2, <2>3 DEF SigNext, BothEnded
  <1>3. LetThrough => BlockedUntilAlarm
    BY DEF LetThrough, BlockedUntilAlarm
  <1>4. QED BY <1>1, <1>2, <1>3, PTL DEF SigSpec
=============================================================================
