---------------------------- MODULE TrainsProofs ----------------------------
(***************************************************************************)
(* Proofs about Trains, for every number of trains, of platforms and of    *)
(* runs, with interrupts and failing forks.  The semaphore keeps trains    *)
(* apart in every run, since it is only created once.  The platforms are   *)
(* exact because a train that looks for one holds none, and because main   *)
(* has no train of its own when it clears them: only orphans can be there, *)
(* and those platforms are disturbed.  It does not end before it has       *)
(* reaped every train that it has forked.                                  *)
(***************************************************************************)
EXTENDS Trains, FiniteSetTheorems, WellFoundedInduction, TLAPS

USE TrainsAssumption

Gone == \A t \in Own : pc[t] = "none"

\* The processes that main has forked and not yet reaped.
Unreaped == {t \in Own : pc[t] # "none"}

\* What a train's position says of its platform, and main's of its trains.
Bookkeeping ==
  /\ \A t \in Process :
       /\ pc[t] \in {"wait1", "search"} => platform_occupied[t] = None
       /\ pc[t] \in {"boarding", "wait2", "free"} => platform_occupied[t] # None
       /\ t[1] > runs => pc[t] = "none"
  /\ runs = 0 => mainPc = "ended"
  /\ mainPc \in {"clear", "open", "ended", "killed"} => Gone
  /\ mainPc = "fork" => \A t \in Own : t[2] >= forked => pc[t] = "none"
  /\ mainPc = "wait" => Cardinality(Unreaped) <= n

\* The inductive invariant.
IInv == TypeOK /\ OneInSection /\ PlatformsExact /\ Bookkeeping

-----------------------------------------------------------------------------
(* Sets of trains and of platforms.                                        *)

\* A nonempty set of numbers has a least one.
LEMMA LeastNumber ==
  ASSUME NEW S, S \subseteq Nat, S # {}
  PROVE  Min(S) \in S
  <1> DEFINE R == {ss \in Nat \X Nat : ss[1] < ss[2]}
  <1>1. IsWellFoundedOn(R, Nat)
    BY NatLessThanWellFounded DEF OpToRel
  <1> HIDE DEF R
  <1>2. PICK x \in S : \A y \in S : ~ (<<y, x>> \in R)
    BY <1>1, WFMin
  <1>3. ASSUME NEW y \in S PROVE x =< y
    <2>1. x \in Nat /\ y \in Nat
      OBVIOUS
    <2>2. <<y, x>> \in R <=> y < x
      BY <2>1 DEF R
    <2>3. QED BY <1>2, <2>1, <2>2
  <1>4. QED BY <1>3 DEF Min

LEMMA FiniteProcesses ==
  /\ IsFiniteSet(Process)
  /\ TypeOK => IsFiniteSet(Own) /\ Cardinality(Own) <= NumForked
  <1>1. IsFiniteSet(Train) /\ Cardinality(Train) = NumForked
    <2>1. 0 \in Int /\ NumForked - 1 \in Int /\ NumForked \in Nat
      OBVIOUS
    <2>2. QED BY <2>1, FS_Interval DEF Train
  <1>2. IsFiniteSet(1 .. MaxRuns)
    BY FS_Interval
  <1>3. IsFiniteSet(Process)
    BY <1>1, <1>2, FS_Product DEF Process
  <1>4. ASSUME TypeOK PROVE IsFiniteSet(Own) /\ Cardinality(Own) <= NumForked
    <2>a. IsFiniteSet({runs}) /\ Cardinality({runs}) = 1
      BY FS_Singleton
    <2>b. /\ IsFiniteSet({runs} \X Train)
          /\ Cardinality({runs} \X Train) = Cardinality({runs}) * Cardinality(Train)
      BY <1>1, <2>a, FS_Product
    <2>1. IsFiniteSet({runs} \X Train) /\ Cardinality({runs} \X Train) = NumForked
      BY <1>1, <2>a, <2>b
    <2>2. Own \subseteq {runs} \X Train
      BY DEF Own, Process
    <2>3. Cardinality(Own) <= Cardinality({runs} \X Train) /\ IsFiniteSet(Own)
      BY <2>1, <2>2, FS_Subset
    <2>4. QED BY <2>1, <2>3
  <1>5. QED BY <1>3, <1>4

LEMMA FiniteSetsOfProcesses ==
  ASSUME NEW S \in SUBSET Process
  PROVE  IsFiniteSet(S) /\ Cardinality(S) \in Nat
  BY FiniteProcesses, FS_Subset, FS_CardinalityType

\* An exact platform is free if and only if no train is at it, and taken if
\* and only if one is.
LEMMA ExactPlatform ==
  ASSUME TypeOK, NEW p \in Platform, platform[p] = Cardinality(TrainsAt(p))
  PROVE  /\ platform[p] = 0 <=> TrainsAt(p) = {}
         /\ \A t \in TrainsAt(p) : platform[p] = 1 /\ TrainsAt(p) = {t}
  <1>1. IsFiniteSet(TrainsAt(p)) /\ platform[p] \in {0, 1}
    BY FiniteSetsOfProcesses DEF TrainsAt, TypeOK
  <1>2. platform[p] = 0 <=> TrainsAt(p) = {}
    BY <1>1, FS_EmptySet
  <1>3. platform[p] = 1 <=> \E t : TrainsAt(p) = {t}
    BY <1>1, FS_Singleton
  <1>4. QED BY <1>1, <1>2, <1>3

\* Steps that leave the platforms and the trains at them alone.
LEMMA PlatformsKept ==
  ASSUME PlatformsExact, UNCHANGED <<platform, disturbed>>,
         mainPc' \notin {"killed", "clear"} => mainPc \notin {"killed", "clear"},
         \A p \in Platform : TrainsAt(p)' = TrainsAt(p)
  PROVE  PlatformsExact'
  BY DEF PlatformsExact

LEMMA InitIInv == Init => IInv
  <1> SUFFICES ASSUME Init PROVE IInv
    OBVIOUS
  <1>1. TypeOK
    BY DEF Init, TypeOK
  <1>2. OneInSection
    BY DEF Init, OneInSection, InSection
  <1>3. PlatformsExact
    <2>1. \A p \in Platform : TrainsAt(p) = {}
      BY DEF Init, TrainsAt
    <2>2. QED BY <2>1, FS_EmptySet DEF Init, PlatformsExact
  <1>4. Bookkeeping
    BY DEF Init, Bookkeeping, Gone, Own, Process
  <1>5. QED BY <1>1, <1>2, <1>3, <1>4 DEF IInv

-----------------------------------------------------------------------------
(* The steps of a train.                                                   *)

LEMMA ChildIInv ==
  ASSUME IInv, NEW t \in Process, Child(t)
  PROVE  IInv'
  <1> USE DEF At, GoTo, shared, mainVars
  <1>a. pc[t] # "none" /\ pc'[t] # "none" /\ (\A u \in Process \ {t} : pc'[u] = pc[u])
    BY DEF Child, Arrive, SemWaitSearch, Search, SemPostSearch, Board, Retry, EndBoarding,
           SemWaitLeave, Leave, SemPostLeave, Wait, Post, IInv, TypeOK
  <1>b. UNCHANGED mainVars
    BY DEF Child, Arrive, SemWaitSearch, Search, SemPostSearch, Board, Retry, EndBoarding,
           SemWaitLeave, Leave, SemPostLeave, Wait, Post
  <1>c. Own' = Own /\ Unreaped' = Unreaped /\ (Gone => Gone')
        /\ \A u \in Process : pc'[u] = "none" <=> pc[u] = "none"
    BY <1>a, <1>b DEF Own, Unreaped, Gone
  <1>e. ASSUME \/ pc'[t] \notin {"wait1", "search", "boarding", "wait2", "free"}
               \/ pc'[t] \in {"wait1", "search"} /\ platform_occupied'[t] = None
               \/ pc'[t] \in {"boarding", "wait2", "free"} /\ platform_occupied'[t] # None,
               \A u \in Process \ {t} : platform_occupied'[u] = platform_occupied[u]
        PROVE  Bookkeeping'
    <2>1. Own \subseteq Process
      BY DEF Own
    <2>2. QED BY <2>1, <1>a, <1>b, <1>c, <1>e DEF IInv, Bookkeeping
  <1>1. ASSUME Arrive(t) PROVE IInv'
    <2> USE <1>1 DEF Arrive
    <2>1. TypeOK'
      BY DEF IInv, TypeOK
    <2>2. OneInSection'
      BY DEF IInv, TypeOK, OneInSection, InSection
    <2>3. PlatformsExact'
      <3>1. \A p \in Platform : TrainsAt(p)' = TrainsAt(p)
        BY DEF IInv, TypeOK, Bookkeeping, TrainsAt, None, Platform
      <3>2. QED BY <3>1, PlatformsKept DEF IInv
    <2>4. Bookkeeping'
      BY <1>e DEF IInv, TypeOK, Bookkeeping
    <2>5. QED BY <2>1, <2>2, <2>3, <2>4 DEF IInv
  <1>2. ASSUME SemWaitSearch(t) PROVE IInv'
    <2> USE <1>2 DEF SemWaitSearch, Wait
    <2>a. semaphore = 1 /\ semaphore' = 0 /\ \A u \in Process : ~ InSection(u)
      BY DEF IInv, TypeOK, OneInSection, None
    <2>1. TypeOK'
      BY <2>a DEF IInv, TypeOK
    <2>2. OneInSection'
      BY <2>a DEF IInv, TypeOK, OneInSection, InSection
    <2>3. PlatformsExact'
      <3>1. \A p \in Platform : TrainsAt(p)' = TrainsAt(p)
        BY DEF IInv, TypeOK, Bookkeeping, TrainsAt, None, Platform
      <3>2. QED BY <3>1, PlatformsKept DEF IInv
    <2>4. Bookkeeping'
      BY <1>e DEF IInv, TypeOK, Bookkeeping
    <2>5. QED BY <2>1, <2>2, <2>3, <2>4 DEF IInv
  <1>3. ASSUME Search(t) PROVE IInv'
    <2> USE <1>3 DEF Search
    <2>1. CASE Free = {}
      <3>1. TypeOK'
        BY <2>1 DEF IInv, TypeOK
      <3>2. OneInSection'
        BY <2>1 DEF IInv, TypeOK, OneInSection, InSection
      <3>3. PlatformsExact'
        <4>1. \A p \in Platform : TrainsAt(p)' = TrainsAt(p)
          BY <2>1 DEF IInv, TypeOK, Bookkeeping, TrainsAt, None, Platform
        <4>2. QED BY <2>1, <4>1, PlatformsKept DEF IInv
      <3>4. Bookkeeping'
        BY <2>1, <1>e DEF IInv, TypeOK, Bookkeeping
      <3>5. QED BY <3>1, <3>2, <3>3, <3>4 DEF IInv
    <2>2. CASE Free # {}
      <3> DEFINE m == Min(Free)
      <3>1. m \in Platform /\ platform[m] = 0
        BY <2>2, LeastNumber DEF Free, Platform
      <3>2. /\ platform' = [platform EXCEPT ![m] = 1]
            /\ platform_occupied' = [platform_occupied EXCEPT ![t] = m]
        BY <2>2
      <3> HIDE DEF m
      <3>3. TypeOK'
        BY <3>1, <3>2 DEF IInv, TypeOK
      <3>4. OneInSection'
        BY DEF IInv, TypeOK, OneInSection, InSection
      <3>5. PlatformsExact'
        <4> SUFFICES ASSUME mainPc \notin {"killed", "clear"}, NEW p \in Platform
                     PROVE  /\ p \notin disturbed => platform'[p] = Cardinality(TrainsAt(p)')
                            /\ TrainsAt(p)' = {} => platform'[p] = 0
          BY DEF PlatformsExact
        <4>1. CASE p = m
          <5>1. TrainsAt(p)' = TrainsAt(p) \cup {t} /\ platform'[p] = 1
            BY <4>1, <3>1, <3>2 DEF IInv, TypeOK, TrainsAt
          <5>2. ASSUME p \notin disturbed PROVE TrainsAt(p) = {}
            BY <5>2, <4>1, <3>1, ExactPlatform DEF IInv, PlatformsExact
          <5>3. p \notin disturbed => Cardinality(TrainsAt(p)') = 1
            BY <5>1, <5>2, FS_Singleton
          <5>4. QED BY <5>1, <5>3
        <4>2. CASE p # m
          <5>1. TrainsAt(p)' = TrainsAt(p)
            BY <4>2, <3>2 DEF IInv, TypeOK, TrainsAt
          <5>2. platform'[p] = platform[p]
            BY <4>2, <3>2 DEF IInv, TypeOK
          <5>3. QED BY <5>1, <5>2 DEF IInv, PlatformsExact
        <4>3. QED BY <4>1, <4>2
      <3>6. Bookkeeping'
        BY <3>2, <1>e DEF IInv, TypeOK, Bookkeeping
      <3>7. QED BY <3>3, <3>4, <3>5, <3>6 DEF IInv
    <2>3. QED BY <2>1, <2>2
  <1>4. ASSUME SemPostSearch(t) PROVE IInv'
    <2> USE <1>4 DEF SemPostSearch, Post
    <2>1. TypeOK'
      BY DEF IInv, TypeOK, OneInSection, InSection
    <2>2. OneInSection'
      BY DEF IInv, TypeOK, OneInSection, InSection
    <2>3. PlatformsExact'
      <3>1. \A p \in Platform : TrainsAt(p)' = TrainsAt(p)
        BY DEF IInv, TypeOK, Bookkeeping, TrainsAt, None, Platform
      <3>2. QED BY <3>1, PlatformsKept DEF IInv
    <2>4. Bookkeeping'
      BY <1>e DEF IInv, TypeOK, Bookkeeping
    <2>5. QED BY <2>1, <2>2, <2>3, <2>4 DEF IInv
  <1>5. ASSUME Board(t) PROVE IInv'
    <2> USE <1>5 DEF Board
    <2>1. TypeOK'
      BY DEF IInv, TypeOK
    <2>2. OneInSection'
      BY DEF IInv, TypeOK, OneInSection, InSection
    <2>3. PlatformsExact'
      <3>1. \A p \in Platform : TrainsAt(p)' = TrainsAt(p)
        BY DEF IInv, TypeOK, Bookkeeping, TrainsAt, None, Platform
      <3>2. QED BY <3>1, PlatformsKept DEF IInv
    <2>4. Bookkeeping'
      BY <1>e DEF IInv, TypeOK, Bookkeeping
    <2>5. QED BY <2>1, <2>2, <2>3, <2>4 DEF IInv
  <1>6. ASSUME Retry(t) PROVE IInv'
    <2> USE <1>6 DEF Retry
    <2>1. TypeOK'
      BY DEF IInv, TypeOK
    <2>2. OneInSection'
      BY DEF IInv, TypeOK, OneInSection, InSection
    <2>3. PlatformsExact'
      <3>1. \A p \in Platform : TrainsAt(p)' = TrainsAt(p)
        BY DEF IInv, TypeOK, Bookkeeping, TrainsAt, None, Platform
      <3>2. QED BY <3>1, PlatformsKept DEF IInv
    <2>4. Bookkeeping'
      BY <1>e DEF IInv, TypeOK, Bookkeeping
    <2>5. QED BY <2>1, <2>2, <2>3, <2>4 DEF IInv
  <1>7. ASSUME EndBoarding(t) PROVE IInv'
    <2> USE <1>7 DEF EndBoarding
    <2>1. TypeOK'
      BY DEF IInv, TypeOK
    <2>2. OneInSection'
      BY DEF IInv, TypeOK, OneInSection, InSection
    <2>3. PlatformsExact'
      <3>1. \A p \in Platform : TrainsAt(p)' = TrainsAt(p)
        BY DEF IInv, TypeOK, Bookkeeping, TrainsAt, None, Platform
      <3>2. QED BY <3>1, PlatformsKept DEF IInv
    <2>4. Bookkeeping'
      BY <1>e DEF IInv, TypeOK, Bookkeeping
    <2>5. QED BY <2>1, <2>2, <2>3, <2>4 DEF IInv
  <1>8. ASSUME SemWaitLeave(t) PROVE IInv'
    <2> USE <1>8 DEF SemWaitLeave, Wait
    <2>a. semaphore = 1 /\ semaphore' = 0 /\ \A u \in Process : ~ InSection(u)
      BY DEF IInv, TypeOK, OneInSection, None
    <2>1. TypeOK'
      BY <2>a DEF IInv, TypeOK
    <2>2. OneInSection'
      BY <2>a DEF IInv, TypeOK, OneInSection, InSection
    <2>3. PlatformsExact'
      <3>1. \A p \in Platform : TrainsAt(p)' = TrainsAt(p)
        BY DEF IInv, TypeOK, Bookkeeping, TrainsAt, None, Platform
      <3>2. QED BY <3>1, PlatformsKept DEF IInv
    <2>4. Bookkeeping'
      BY <1>e DEF IInv, TypeOK, Bookkeeping
    <2>5. QED BY <2>1, <2>2, <2>3, <2>4 DEF IInv
  <1>9. ASSUME Leave(t) PROVE IInv'
    <2> USE <1>9 DEF Leave
    <2> DEFINE m == platform_occupied[t]
    <2>1. m \in Platform /\ t \in TrainsAt(m)
      BY DEF IInv, TypeOK, Bookkeeping, TrainsAt
    <2>2. TypeOK'
      BY DEF IInv, TypeOK
    <2>3. OneInSection'
      BY DEF IInv, TypeOK, OneInSection, InSection
    <2>4. PlatformsExact'
      <3> SUFFICES ASSUME mainPc \notin {"killed", "clear"}, NEW p \in Platform
                   PROVE  /\ p \notin disturbed => platform'[p] = Cardinality(TrainsAt(p)')
                          /\ TrainsAt(p)' = {} => platform'[p] = 0
        BY DEF PlatformsExact
      <3>1. CASE p = m
        <4>1. TrainsAt(p)' = TrainsAt(p) \ {t} /\ platform'[p] = 0
          BY <2>1, <3>1 DEF IInv, TypeOK, TrainsAt
        <4>2. ASSUME p \notin disturbed PROVE TrainsAt(p) = {t}
          BY <4>2, <2>1, <3>1, ExactPlatform DEF IInv, PlatformsExact
        <4>3. p \notin disturbed => TrainsAt(p)' = {}
          BY <4>1, <4>2
        <4>4. QED BY <4>1, <4>3, FS_EmptySet
      <3>2. CASE p # m
        <4>1. TrainsAt(p)' = TrainsAt(p) /\ platform'[p] = platform[p]
          BY <3>2 DEF IInv, TypeOK, TrainsAt
        <4>2. QED BY <4>1 DEF IInv, PlatformsExact
      <3>3. QED BY <3>1, <3>2
    <2>5. Bookkeeping'
      BY <1>e DEF IInv, TypeOK
    <2>6. QED BY <2>2, <2>3, <2>4, <2>5 DEF IInv
  <1>10. ASSUME SemPostLeave(t) PROVE IInv'
    <2> USE <1>10 DEF SemPostLeave, Post
    <2>1. TypeOK'
      BY DEF IInv, TypeOK, OneInSection, InSection
    <2>2. OneInSection'
      BY DEF IInv, TypeOK, OneInSection, InSection
    <2>3. PlatformsExact'
      <3>1. \A p \in Platform : TrainsAt(p)' = TrainsAt(p)
        BY DEF IInv, TypeOK, Bookkeeping, TrainsAt, None, Platform
      <3>2. QED BY <3>1, PlatformsKept DEF IInv
    <2>4. Bookkeeping'
      BY <1>e DEF IInv, TypeOK, Bookkeeping
    <2>5. QED BY <2>1, <2>2, <2>3, <2>4 DEF IInv
  <1>11. QED
    BY <1>1, <1>2, <1>3, <1>4, <1>5, <1>6, <1>7, <1>8, <1>9, <1>10 DEF Child

-----------------------------------------------------------------------------
(* The steps of main, its start and its interrupt.                         *)

LEMMA MainIInv ==
  ASSUME IInv, Start \/ Interrupt \/ Main
  PROVE  IInv'
  <1> USE DEF At, GoTo, shared, children
  <1>1. ASSUME Start PROVE IInv'
    <2> USE <1>1 DEF Start
    <2>1. TypeOK'
      BY DEF IInv, TypeOK
    <2>2. OneInSection'
      BY DEF IInv, OneInSection, InSection
    <2>3. PlatformsExact'
      BY DEF PlatformsExact
    <2>4. Bookkeeping'
      BY DEF IInv, TypeOK, Bookkeeping, Gone, Own, Process
    <2>5. QED BY <2>1, <2>2, <2>3, <2>4 DEF IInv
  <1>2. ASSUME Interrupt PROVE IInv'
    <2> USE <1>2 DEF Interrupt
    <2>1. TypeOK'
      BY DEF IInv, TypeOK
    <2>2. OneInSection'
      BY DEF IInv, TypeOK, OneInSection, InSection
    <2>3. PlatformsExact'
      BY DEF PlatformsExact
    <2>4. Bookkeeping'
      BY DEF IInv, TypeOK, Bookkeeping, Gone, Own
    <2>5. QED BY <2>1, <2>2, <2>3, <2>4 DEF IInv
  <1>3. ASSUME ClearPlatforms PROVE IInv'
    <2> USE <1>3 DEF ClearPlatforms
    <2>1. TypeOK'
      BY DEF IInv, TypeOK
    <2>2. OneInSection'
      BY DEF IInv, TypeOK, OneInSection, InSection
    <2>3. PlatformsExact'
      <3>1. \A p \in Platform : TrainsAt(p)' = TrainsAt(p) /\ platform'[p] = 0
        BY DEF TrainsAt
      <3>2. \A p \in Platform : p \notin disturbed' => TrainsAt(p) = {}
        OBVIOUS
      <3>3. QED BY <3>1, <3>2, FS_EmptySet DEF PlatformsExact
    <2>4. Bookkeeping'
      BY DEF IInv, Bookkeeping, Gone, Own
    <2>5. QED BY <2>1, <2>2, <2>3, <2>4 DEF IInv
  <1>4. ASSUME OpenSemaphore PROVE IInv'
    <2> USE <1>4 DEF OpenSemaphore
    <2>1. TypeOK'
      BY DEF IInv, TypeOK
    <2>2. OneInSection'
      BY DEF IInv, TypeOK, OneInSection, InSection, None
    <2>3. PlatformsExact'
      <3>1. \A p \in Platform : TrainsAt(p)' = TrainsAt(p)
        BY DEF TrainsAt, IInv, TypeOK, Bookkeeping
      <3>2. QED BY <3>1, PlatformsKept DEF IInv
    <2>4. Bookkeeping'
      BY DEF IInv, Bookkeeping, Gone, Own
    <2>5. QED BY <2>1, <2>2, <2>3, <2>4 DEF IInv
  <1>5. ASSUME Fork PROVE IInv'
    <2> USE <1>5 DEF Fork
    <2> DEFINE new == <<runs, forked>>
    <2>a. new \in Own /\ pc[new] = "none" /\ new[2] = forked
      BY DEF IInv, TypeOK, Bookkeeping, Own, Process, Train
    <2>b. new \in Process /\ pc' = [pc EXCEPT ![new] = "arriving"]
      BY <2>a DEF Own
    <2>c. \A t \in Own : t[2] >= forked + 1 => t # new /\ t[2] >= forked
      BY <2>a DEF Own, Process, Train, IInv, TypeOK
    <2> HIDE DEF new
    <2>1. TypeOK'
      <3>1. pc' \in [Process -> {"none", "arriving", "wait1", "search", "post1", "test",
                                "boarding", "wait2", "free", "post2", "exited"}]
        BY <2>b DEF IInv, TypeOK
      <3>2. forked' \in 0 .. NumForked
        BY DEF IInv, TypeOK
      <3>3. QED BY <3>1, <3>2 DEF IInv, TypeOK
    <2>2. OneInSection'
      BY <2>b DEF IInv, TypeOK, OneInSection, InSection
    <2>3. PlatformsExact'
      <3>1. \A p \in Platform : TrainsAt(p)' = TrainsAt(p)
        BY <2>a, <2>b DEF TrainsAt, IInv, TypeOK, Bookkeeping
      <3>2. QED BY <3>1, PlatformsKept DEF IInv
    <2>4. Bookkeeping'
      BY <2>a, <2>b, <2>c DEF IInv, TypeOK, Bookkeeping, Own
    <2>5. QED BY <2>1, <2>2, <2>3, <2>4 DEF IInv
  <1>6. ASSUME ForkFails PROVE IInv'
    <2> USE <1>6 DEF ForkFails
    <2>1. TypeOK'
      BY DEF IInv, TypeOK
    <2>2. OneInSection'
      BY DEF IInv, TypeOK, OneInSection, InSection
    <2>3. PlatformsExact'
      <3>1. \A p \in Platform : TrainsAt(p)' = TrainsAt(p)
        BY DEF TrainsAt, IInv, TypeOK, Bookkeeping
      <3>2. QED BY <3>1, PlatformsKept DEF IInv
    <2>4. Bookkeeping'
      BY DEF IInv, Bookkeeping, Gone
    <2>5. QED BY <2>1, <2>2, <2>3, <2>4 DEF IInv
  <1>7. ASSUME EndForking PROVE IInv'
    <2> USE <1>7 DEF EndForking
    <2>1. TypeOK'
      BY DEF IInv, TypeOK
    <2>2. OneInSection'
      BY DEF IInv, TypeOK, OneInSection, InSection
    <2>3. PlatformsExact'
      <3>1. \A p \in Platform : TrainsAt(p)' = TrainsAt(p)
        BY DEF TrainsAt, IInv, TypeOK, Bookkeeping
      <3>2. QED BY <3>1, PlatformsKept DEF IInv
    <2>4. Bookkeeping'
      <3>1. Cardinality(Unreaped') <= n'
        <4>1. Unreaped \subseteq Own /\ Unreaped' = Unreaped
          BY DEF Unreaped, Own
        <4>2. Cardinality(Unreaped) <= Cardinality(Own)
          BY <4>1, FiniteProcesses, FS_Subset DEF IInv
        <4>3. Cardinality(Own) \in Nat /\ Cardinality(Unreaped) \in Nat
          BY <4>1, FiniteSetsOfProcesses DEF Own
        <4>4. QED BY <4>1, <4>2, <4>3, FiniteProcesses DEF IInv
      <3>2. QED BY <3>1 DEF IInv, Bookkeeping
    <2>5. QED BY <2>1, <2>2, <2>3, <2>4 DEF IInv
  <1>8. ASSUME WaitForChild PROVE IInv'
    <2> USE <1>8 DEF WaitForChild
    <2>1. TypeOK'
      BY DEF IInv, TypeOK
    <2>2. OneInSection'
      BY DEF IInv, TypeOK, OneInSection, InSection
    <2>3. PlatformsExact'
      <3>1. \A p \in Platform : TrainsAt(p)' = TrainsAt(p)
        BY DEF TrainsAt, IInv, TypeOK
      <3>2. QED BY <3>1, PlatformsKept DEF IInv
    <2>4. Bookkeeping'
      <3>1. Cardinality(Unreaped') <= n'
        <4>1. Unreaped \in SUBSET Process /\ n \in Nat /\ Cardinality(Unreaped) <= n
          BY DEF Unreaped, Own, IInv, TypeOK, Bookkeeping
        <4>2. CASE \E t \in Own : At(t, "exited") /\ GoTo(t, "none")
          <5>1. PICK t \in Own : At(t, "exited") /\ GoTo(t, "none")
            BY <4>2
          <5>2. Unreaped' = Unreaped \ {t} /\ t \in Unreaped
            BY <5>1 DEF Unreaped, Own, IInv, TypeOK
          <5>3. Cardinality(Unreaped') = Cardinality(Unreaped) - 1
            BY <5>2, <4>1, FiniteSetsOfProcesses, FS_RemoveElement
          <5>4. QED BY <5>3, <4>1, FiniteSetsOfProcesses
        <4>3. CASE Gone /\ UNCHANGED pc
          <5>1. Unreaped' = {}
            BY <4>3 DEF Unreaped, Gone, Own
          <5>2. QED BY <5>1, <4>1, FS_EmptySet
        <4>4. QED BY <4>2, <4>3 DEF Gone
      <3>2. QED BY <3>1 DEF IInv, TypeOK, Bookkeeping, Own
    <2>5. QED BY <2>1, <2>2, <2>3, <2>4 DEF IInv
  <1>9. ASSUME End PROVE IInv'
    <2> USE <1>9 DEF End
    <2>1. TypeOK'
      BY DEF IInv, TypeOK
    <2>2. OneInSection'
      BY DEF IInv, OneInSection, InSection
    <2>3. PlatformsExact'
      <3>1. \A p \in Platform : TrainsAt(p)' = TrainsAt(p)
        BY DEF TrainsAt
      <3>2. QED BY <3>1, PlatformsKept DEF IInv
    <2>4. Gone
      <3>1. Unreaped \in SUBSET Process /\ Cardinality(Unreaped) <= 0
        BY DEF Unreaped, Own, IInv, Bookkeeping
      <3>2. Unreaped = {}
        BY <3>1, FiniteSetsOfProcesses, FS_EmptySet
      <3>3. QED BY <3>2 DEF Unreaped, Gone
    <2>5. Bookkeeping'
      BY <2>4 DEF IInv, Bookkeeping, Gone, Own
    <2>6. QED BY <2>1, <2>2, <2>3, <2>5 DEF IInv
  <1>10. QED
    BY <1>1, <1>2, <1>3, <1>4, <1>5, <1>6, <1>7, <1>8, <1>9 DEF Main

LEMMA NextIInv == IInv /\ [Next]_vars => IInv'
  <1> SUFFICES ASSUME IInv, [Next]_vars PROVE IInv'
    OBVIOUS
  <1>1. CASE UNCHANGED vars
    BY <1>1 DEF vars, shared, children, mainVars, IInv, TypeOK, OneInSection, InSection,
                PlatformsExact, TrainsAt, Bookkeeping, Gone, Unreaped, Own
  <1>2. CASE Start \/ Interrupt \/ Main
    BY <1>2, MainIInv
  <1>3. CASE \E t \in Process : Child(t)
    BY <1>3, ChildIInv
  <1>4. QED BY <1>1, <1>2, <1>3 DEF Next

(* The inductive invariant holds in every reachable state.                 *)
THEOREM InvariantHolds == Spec => []IInv
  BY InitIInv, NextIInv, PTL DEF Spec

(* At most one train is between sem_wait and sem_post, in every run.       *)
THEOREM SectionIsExclusive == Spec => []OneInSection
  <1>1. IInv => OneInSection
    BY DEF IInv
  <1>2. QED BY <1>1, InvariantHolds, PTL

(* A platform is marked exactly while one train is at it, for every number *)
(* of trains and platforms, and whatever interrupted runs have left, unless *)
(* main has cleared it under an orphan.                                    *)
THEOREM PlatformsAreExact == Spec => []PlatformsExact
  <1>1. IInv => PlatformsExact
    BY DEF IInv
  <1>2. QED BY <1>1, InvariantHolds, PTL

(* When main returns, all its trains have left, although it counts to the  *)
(* number of planes and not of forks, and only orphans are still there.    *)
THEOREM EndsAfterItsTrains == Spec => []EndsAfterAllTrains
  <1>1. ASSUME IInv, mainPc = "ended" PROVE EndsAfterAllTrains
    <2>1. Gone
      BY <1>1 DEF IInv, Bookkeeping
    <2>2. ASSUME NEW p \in Platform, platform[p] = 1
          PROVE  \E t \in Process \ Own : t \in TrainsAt(p)
      <3>1. PICK t : t \in TrainsAt(p)
        BY <1>1, <2>2 DEF IInv, PlatformsExact
      <3>2. t \in Process \ Own
        BY <3>1, <2>1 DEF TrainsAt, Gone
      <3>3. QED BY <3>1, <3>2
    <2>3. QED BY <2>1, <2>2 DEF Gone, EndsAfterAllTrains
  <1>2. IInv => EndsAfterAllTrains
    BY <1>1 DEF EndsAfterAllTrains
  <1>3. QED BY <1>2, InvariantHolds, PTL
=============================================================================
