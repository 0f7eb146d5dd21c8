-------------------------- MODULE SchedulerProofs --------------------------
(***************************************************************************)
(* Proofs about Scheduler, for every input, quantum and number of tickets. *)
(* The inductive invariant IInv says what the list holds between two time  *)
(* steps (Ready), from which ReadyViable finds out what a scheduler is     *)
(* given: every process that may run, once.  The other parts of IInv are   *)
(* one for the service that was given (Counts), and one for each family of *)
(* schedulers: the order of the list (Sorted, Marked), the mark of the     *)
(* lottery (Winner) and how long who waits for his turn (Turns, Quantum).  *)
(* A dispatch of the w-th process of the list is what all time steps have  *)
(* in common: the lemmas Dispatch... are about it, and those about the     *)
(* schedulers, ...Picks and ...Wins, say which w it is.                    *)
(***************************************************************************)
EXTENDS Scheduler, SequenceTheorems, FunctionTheorems, FiniteSetTheorems,
        WellFoundedInduction, TLAPS

\* What the assumption on the constants gives.
LEMMA Constants ==
  /\ Workloads \subseteq Seq([arrival : Nat, service : Nat \ {0}, priority : Nat])
  /\ MAX_TIMESTEPS \in Nat /\ MAX_TIMESTEPS > 0
  /\ RoundRobinQuantum \in Nat /\ RoundRobinQuantum > 0
  /\ LotteryQuantum \in Nat /\ LotteryQuantum > 0 /\ TicketPool \in Nat
  BY SchedulerAssumption

-----------------------------------------------------------------------------
(* Numbers.                                                                *)

\* A set of natural numbers has a least element.
LEMMA LeastNumber ==
  ASSUME NEW S, S \subseteq Nat, S # {}
  PROVE  \E n \in S : \A k \in S : ~(k < n)
  <1> DEFINE R == OpToRel(<, Nat)
  <1>1. IsWellFoundedOn(R, Nat)
    BY NatLessThanWellFounded, Zenon
  <1>2. \A k, n \in Nat : <<k, n>> \in R <=> k < n
    BY DEF OpToRel
  <1> HIDE DEF R
  <1>3. \E n \in S : \A k \in S : ~ (<<k, n>> \in R)
    BY <1>1, WFMin
  <1>4. QED BY <1>2, <1>3

\* Induction, for a set of natural numbers.
LEMMA SetInduction ==
  ASSUME NEW S, 0 \in S, \A n \in Nat : n \in S => n + 1 \in S
  PROVE  \A n \in Nat : n \in S
  <1> SUFFICES ASSUME Nat \ S # {} PROVE FALSE
    OBVIOUS
  <1>1. PICK n \in Nat \ S : \A k \in Nat \ S : ~(k < n)
    BY LeastNumber
  <1>2. n # 0 /\ n - 1 \in Nat
    BY <1>1
  <1>3. n - 1 \in S
    BY <1>1, <1>2
  <1>4. QED BY <1>1, <1>2, <1>3

\* A bounded set of natural numbers has a greatest element.
LEMMA GreatestNumber ==
  ASSUME NEW S, S \subseteq Nat, S # {}, NEW b \in Nat, \A m \in S : m <= b
  PROVE  \E n \in S : \A m \in S : m <= n
  <1> DEFINE U == {u \in Nat : \A m \in S : m <= u}
  <1>1. PICK u \in U : \A k \in U : ~(k < u)
    <2>1. U \subseteq Nat /\ b \in U
      OBVIOUS
    <2> HIDE DEF U
    <2>2. U # {}
      BY <2>1
    <2>3. \E u \in U : \A k \in U : ~(k < u)
      BY <2>1, <2>2, LeastNumber
    <2>4. QED BY <2>3
  <1>2. u \in S
    <2> SUFFICES ASSUME u \notin S PROVE FALSE
      OBVIOUS
    <2>1. \A m \in S : m < u
      BY <1>1
    <2>2. u # 0
      <3>1. PICK m \in S : TRUE
        OBVIOUS
      <3>2. m \in Nat /\ m < u
        BY <2>1, <3>1
      <3>3. QED BY <3>2
    <2>3. u - 1 \in U /\ u - 1 < u
      BY <1>1, <2>1, <2>2
    <2>4. QED BY <1>1, <2>3
  <1>3. QED BY <1>1, <1>2

-----------------------------------------------------------------------------
(* The array.                                                              *)

Arrays == {a \in [items : Seq(Process), capacity : Nat] :
             a.capacity > 0 /\ Len(a.items) <= a.capacity}

LEMMA InitArray == my_array_init \in Arrays /\ my_array_init.items = <<>>
  BY DEF Arrays, my_array_init, ARRAY_INIT_CAPACITY

\* my_array_push_back keeps the elements and adds one.
LEMMA PushBack ==
  ASSUME NEW a, a \in Arrays, NEW p \in Process
  PROVE  LET b == my_array_push_back(a, p) IN
         /\ b \in Arrays
         /\ Len(b.items) = Len(a.items) + 1
         /\ \A i \in 1 .. Len(a.items) : b.items[i] = a.items[i]
         /\ b.items[Len(a.items) + 1] = p
  <1> DEFINE b == my_array_push_back(a, p)
  <1>1. b.items = Append(a.items, p)
    BY DEF my_array_push_back
  <1>2. b.items \in Seq(Process) /\ Len(b.items) = Len(a.items) + 1
        /\ (\A i \in 1 .. Len(a.items) : b.items[i] = a.items[i])
        /\ b.items[Len(a.items) + 1] = p
    BY <1>1, AppendProperties DEF Arrays
  <1>3. b.capacity \in Nat /\ b.capacity > 0 /\ Len(a.items) + 1 <= b.capacity
    BY LenProperties DEF Arrays, my_array_push_back, my_array_size
  <1>4. b = [items |-> b.items, capacity |-> b.capacity]
    BY DEF my_array_push_back
  <1> HIDE DEF b
  <1>5. b \in [items : Seq(Process), capacity : Nat]
    BY <1>2, <1>3, <1>4
  <1>6. b \in Arrays
    BY <1>2, <1>3, <1>5 DEF Arrays
  <1>7. QED BY <1>2, <1>6 DEF b

\* my_array_delete closes the gap.
LEMMA Delete ==
  ASSUME NEW a, a \in Arrays, NEW i \in 1 .. Len(a.items)
  PROVE  LET b == my_array_delete(a, i - 1) IN
         /\ b \in Arrays
         /\ Len(b.items) = Len(a.items) - 1
         /\ \A j \in 1 .. Len(a.items) - 1 :
              b.items[j] = IF j < i THEN a.items[j] ELSE a.items[j + 1]
  <1> DEFINE s == a.items
             u == SubSeq(s, 1, i - 1)
             v == SubSeq(s, i + 1, Len(s))
             b == my_array_delete(a, i - 1)
  <1>1. s \in Seq(Process) /\ Len(s) \in Nat /\ \A j \in 1 .. Len(s) : s[j] \in Process
    BY LenProperties, ElementOfSeq DEF Arrays
  <1> HIDE DEF s
  <1>2. u \in Seq(Process) /\ Len(u) = i - 1 /\ \A j \in 1 .. i - 1 : u[j] = s[j]
    <2>1. \A j \in 1 .. i - 1 : s[j] \in Process
      BY <1>1 DEF s
    <2>2. /\ u \in Seq(Process)
          /\ Len(u) = IF 1 <= i - 1 THEN (i - 1) - 1 + 1 ELSE 0
          /\ \A j \in 1 .. (i - 1) - 1 + 1 : u[j] = s[1 + j - 1]
      BY <1>1, <2>1, SubSeqProperties, 1 \in Int, i - 1 \in Int DEF u
    <2> HIDE DEF u
    <2>3. i \in Nat /\ i >= 1
      BY <1>1 DEF s
    <2>4. Len(u) = i - 1
      BY <2>2, <2>3
    <2>5. (i - 1) - 1 + 1 = i - 1 /\ \A j \in 1 .. i - 1 : 1 + j - 1 = j
      BY <2>3
    <2>6. QED BY <2>2, <2>4, <2>5
  <1>3. v \in Seq(Process) /\ Len(v) = Len(s) - i /\ \A j \in 1 .. Len(s) - i : v[j] = s[i + j]
    <2>1. \A j \in i + 1 .. Len(s) : s[j] \in Process
      BY <1>1 DEF s
    <2>2. /\ v \in Seq(Process)
          /\ Len(v) = IF i + 1 <= Len(s) THEN Len(s) - (i + 1) + 1 ELSE 0
          /\ \A j \in 1 .. Len(s) - (i + 1) + 1 : v[j] = s[(i + 1) + j - 1]
      BY <1>1, <2>1, SubSeqProperties, i + 1 \in Int, Len(s) \in Int DEF s, v
    <2> HIDE DEF v
    <2>3. i \in Nat /\ i >= 1 /\ i <= Len(s)
      BY <1>1 DEF s
    <2>4. Len(v) = Len(s) - i
      BY <1>1, <2>2, <2>3
    <2>5. /\ Len(s) - (i + 1) + 1 = Len(s) - i
          /\ \A j \in 1 .. Len(s) - i : (i + 1) + j - 1 = i + j
      BY <1>1, <2>3
    <2>6. QED BY <2>2, <2>4, <2>5
  <1> HIDE DEF u, v
  <1>4. /\ u \o v \in Seq(Process) /\ Len(u \o v) = Len(s) - 1
        /\ \A j \in 1 .. Len(s) - 1 : (u \o v)[j] = IF j < i THEN s[j] ELSE s[j + 1]
    <2>1. /\ u \o v \in Seq(Process) /\ Len(u \o v) = Len(s) - 1
          /\ \A j \in 1 .. Len(s) - 1 : (u \o v)[j] = IF j <= i - 1 THEN u[j] ELSE v[j - (i - 1)]
      <3>1. /\ u \o v \in Seq(Process) /\ Len(u \o v) = Len(u) + Len(v)
            /\ \A j \in 1 .. Len(u) + Len(v) :
                 (u \o v)[j] = IF j <= Len(u) THEN u[j] ELSE v[j - Len(u)]
        BY <1>2, <1>3, ConcatProperties
      <3>2. i \in Nat /\ Len(u) + Len(v) = Len(s) - 1
        BY <1>1, <1>2, <1>3 DEF s
      <3>3. QED BY <1>2, <3>1, <3>2
    <2>2. QED BY <1>1, <1>2, <1>3, <2>1 DEF s
  <1>5. b.items = u \o v /\ b.capacity \in Nat /\ b.capacity > 0
        /\ Len(s) - 1 <= b.capacity
    <2>1. RemoveAt(a.items, (i - 1) + 1) = u \o v
      <3>1. (i - 1) + 1 = i
        BY <1>1 DEF s
      <3>2. RemoveAt(a.items, i) = u \o v
        BY DEF RemoveAt, u, v, s
      <3>3. QED BY <3>1, <3>2
    <2>2. ~ (i - 1 >= Len(a.items))
      BY <1>1 DEF s
    <2>3. a.capacity \in Nat /\ a.capacity > 0 /\ Len(s) <= a.capacity
      BY DEF Arrays, s
    <2>4. b = [items |-> u \o v,
               capacity |-> IF Len(u \o v) > 0 /\ Len(u \o v) = a.capacity \div 4
                            THEN a.capacity \div 2 ELSE a.capacity]
      BY <2>1, <2>2 DEF my_array_delete, my_array_size
    <2>5. \A c \in Nat, l \in Nat : l > 0 /\ l = c \div 4 =>
             c \div 2 \in Nat /\ c \div 2 > 0 /\ l <= c \div 2
      OBVIOUS
    <2>6. Len(u \o v) = Len(s) - 1 /\ Len(s) - 1 \in Nat
      BY <1>1, <1>4 DEF s
    <2>7. QED BY <1>1, <2>3, <2>4, <2>5, <2>6
  <1>6. b = [items |-> b.items, capacity |-> b.capacity]
    <2>1. a = [items |-> a.items, capacity |-> a.capacity]
      BY DEF Arrays
    <2>2. QED BY <2>1, Zenon DEF my_array_delete
  <1> HIDE DEF b
  <1>7. b \in [items : Seq(Process), capacity : Nat]
    BY <1>4, <1>5, <1>6
  <1>8. b \in Arrays
    BY <1>4, <1>5, <1>7 DEF Arrays
  <1>9. QED BY <1>4, <1>5, <1>8 DEF b, s

-----------------------------------------------------------------------------
(* Recursive functions over the elements of an array.                      *)

\* f is the recursive function on b..n that begins with first and goes on
\* with the functions in step.
IsIteration(b, n, first, step, f) ==
  f = [k \in b .. n |-> IF k = b THEN first ELSE step[k][f[k - 1]]]

\* A recursive function over an interval exists.
LEMMA IterationExists ==
  ASSUME NEW V, NEW b \in Nat, NEW first \in V, NEW step \in [Nat -> [V -> V]]
  PROVE  \A m \in Nat : \E f \in [b .. b + m -> V] : IsIteration(b, b + m, first, step, f)
  <1> DEFINE S == {m \in Nat : \E f \in [b .. b + m -> V] : IsIteration(b, b + m, first, step, f)}
  <1>1. 0 \in S
    <2> DEFINE f == [k \in b .. b + 0 |-> first]
    <2>1. f \in [b .. b + 0 -> V] /\ IsIteration(b, b + 0, first, step, f)
      BY DEF IsIteration
    <2>2. QED BY <2>1
  <1>2. ASSUME NEW m \in Nat, m \in S PROVE m + 1 \in S
    <2>1. PICK f \in [b .. b + m -> V] : IsIteration(b, b + m, first, step, f)
      BY <1>2
    <2> DEFINE n == b + (m + 1)
               g == [k \in b .. n |-> IF k = n THEN step[n][f[n - 1]] ELSE f[k]]
    <2>2. n \in Nat /\ n > b /\ n - 1 = b + m /\ n - 1 \in b .. b + m
      OBVIOUS
    <2>3. step[n][f[n - 1]] \in V
      <3>1. f[n - 1] \in V /\ step[n] \in [V -> V]
        BY <2>1, <2>2
      <3> HIDE DEF n
      <3>2. QED BY <3>1
    <2> HIDE DEF n
    <2>4. \A k \in b .. n : k = n \/ (k \in b .. b + m /\ k # n)
      BY <2>2
    <2>5. g \in [b .. n -> V]
      BY <2>1, <2>3, <2>4
    <2>6. \A k \in b .. n : g[k] = IF k = b THEN first ELSE step[k][g[k - 1]]
      <3> TAKE k \in b .. n
      <3>1. CASE k = n
        <4>1. k # b /\ k - 1 # n /\ k - 1 \in b .. n
          BY <2>2, <3>1
        <4>2. g[k] = step[n][f[n - 1]] /\ g[k - 1] = f[n - 1]
          BY <3>1, <4>1
        <4>3. QED BY <3>1, <4>1, <4>2
      <3>2. CASE k \in b .. b + m /\ k # n /\ k # b
        <4>1. k - 1 # n /\ k - 1 \in b .. n
          BY <2>2, <3>2
        <4>2. g[k] = f[k] /\ g[k - 1] = f[k - 1]
          BY <3>2, <4>1
        <4>3. f[k] = step[k][f[k - 1]]
          BY <2>1, <3>2 DEF IsIteration
        <4>4. QED BY <3>2, <4>2, <4>3
      <3>3. CASE k = b
        <4>1. k # n /\ b \in b .. b + m
          BY <2>2, <3>3
        <4>2. f[b] = first
          BY <2>1, <4>1 DEF IsIteration
        <4>3. QED BY <3>3, <4>1, <4>2
      <3>4. QED BY <2>4, <3>1, <3>2, <3>3
    <2>7. g = [k \in b .. n |-> g[k]]
      OBVIOUS
    <2> HIDE DEF g
    <2>8. IsIteration(b, n, first, step, g)
      BY <2>6, <2>7 DEF IsIteration
    <2>9. m + 1 \in Nat /\ \E h \in [b .. b + (m + 1) -> V] :
                             IsIteration(b, b + (m + 1), first, step, h)
      BY <2>5, <2>8 DEF n
    <2>10. QED BY <2>9
  <1> HIDE DEF S
  <1>3. \A m \in Nat : m \in S
    BY <1>1, <1>2, SetInduction
  <1>4. QED BY <1>3 DEF S

\* What Scan computes: selected is a function with this definition.
IsScan(items, beats, f) ==
  f = [n \in 1 .. Len(items) |->
         IF n = 1 THEN items[1]
         ELSE LET p == f[n - 1]
              IN IF p \in beats[items[n]] THEN items[n] ELSE p]

\* Scan's function exists.
LEMMA ScanExists ==
  ASSUME NEW items \in Seq(Process), items # <<>>, NEW beats
  PROVE  \E f \in [1 .. Len(items) -> Process] : IsScan(items, beats, f)
  <1> DEFINE N == Len(items)
             step == [n \in Nat |-> [p \in Process |->
                        IF n \in 1 .. N /\ p \in beats[items[n]] THEN items[n] ELSE p]]
  <1>1. N \in Nat /\ N >= 1 /\ \A n \in 1 .. N : items[n] \in Process
    BY EmptySeq, LenProperties, ElementOfSeq
  <1>2. step \in [Nat -> [Process -> Process]]
    BY <1>1
  <1>3. \A n \in 1 .. N : \A p \in Process :
           step[n][p] = IF p \in beats[items[n]] THEN items[n] ELSE p
    BY <1>1
  <1> HIDE DEF step
  <1>4. PICK f \in [1 .. 1 + (N - 1) -> Process] : IsIteration(1, 1 + (N - 1), items[1], step, f)
    BY <1>1, <1>2, IterationExists, items[1] \in Process, 1 \in Nat, N - 1 \in Nat
  <1>5. 1 + (N - 1) = N
    BY <1>1
  <1>6. f \in [1 .. N -> Process] /\ f = [n \in 1 .. N |-> f[n]]
    BY <1>4, <1>5
  <1>7. \A n \in 1 .. N :
           f[n] = IF n = 1 THEN items[1]
                  ELSE IF f[n - 1] \in beats[items[n]] THEN items[n] ELSE f[n - 1]
    <2> TAKE n \in 1 .. N
    <2>1. f[n] = IF n = 1 THEN items[1] ELSE step[n][f[n - 1]]
      BY <1>4, <1>5 DEF IsIteration
    <2>2. n # 1 => f[n - 1] \in Process
      BY <1>1, <1>6
    <2>3. QED BY <1>3, <2>1, <2>2
  <1>8. IsScan(items, beats, f)
    BY <1>6, <1>7 DEF IsScan
  <1>9. QED BY <1>6, <1>8

\* Scan selects the element that beats all before it and is not beaten by
\* any behind it.
LEMMA ScanWinner ==
  ASSUME NEW items \in Seq(Process), NEW beats, NEW j \in 1 .. Len(items),
         \A i \in 1 .. j - 1 : items[i] \in beats[items[j]],
         \A i \in j + 1 .. Len(items) : items[j] \notin beats[items[i]]
  PROVE  Scan(items, beats) = items[j]
  <1> DEFINE N == Len(items)
             f == CHOOSE g : IsScan(items, beats, g)
             S == {m \in Nat : m + 1 <= N =>
                     IF m + 1 < j THEN \E i \in 1 .. m + 1 : f[m + 1] = items[i]
                     ELSE f[m + 1] = items[j]}
  <1>1. N \in Nat /\ j \in Nat /\ j >= 1 /\ j <= N
    BY LenProperties
  <1>2. IsScan(items, beats, f)
    <2>1. items # <<>>
      BY <1>1, EmptySeq
    <2>2. \E g : IsScan(items, beats, g)
      BY <2>1, ScanExists
    <2>3. QED BY <2>2, Zenon
  <1>3. Scan(items, beats) = f[N]
    BY Zenon DEF Scan, IsScan
  <1> HIDE DEF f
  <1>4. \A n \in 1 .. N :
           f[n] = IF n = 1 THEN items[1]
                  ELSE IF f[n - 1] \in beats[items[n]] THEN items[n] ELSE f[n - 1]
    BY <1>2 DEF IsScan
  <1>5. 0 \in S
    <2>1. f[1] = items[1]
      BY <1>1, <1>4
    <2>2. CASE j = 1
      BY <2>1, <2>2, <1>1
    <2>3. CASE j > 1
      BY <2>1, <2>3, <1>1
    <2>4. QED BY <1>1, <2>2, <2>3
  <1>6. ASSUME NEW m \in Nat, m \in S PROVE m + 1 \in S
    <2> DEFINE n == (m + 1) + 1
    <2> SUFFICES ASSUME n <= N
                 PROVE  IF n < j THEN \E i \in 1 .. n : f[n] = items[i] ELSE f[n] = items[j]
      OBVIOUS
    <2>1. n \in 1 .. N /\ n # 1 /\ n - 1 = m + 1 /\ m + 1 \in 1 .. N
      BY <1>1
    <2>2. f[n] = IF f[m + 1] \in beats[items[n]] THEN items[n] ELSE f[m + 1]
      BY <1>4, <2>1
    <2>3. IF m + 1 < j THEN \E i \in 1 .. m + 1 : f[m + 1] = items[i]
          ELSE f[m + 1] = items[j]
      BY <1>6, <2>1
    <2>4. CASE n < j
      <3>1. PICK i \in 1 .. m + 1 : f[m + 1] = items[i]
        BY <2>3, <2>4
      <3>2. i \in 1 .. n /\ n \in 1 .. n
        BY <2>1
      <3>3. \E k \in 1 .. n : f[n] = items[k]
        BY <2>2, <3>1, <3>2
      <3>4. QED BY <2>4, <3>3
    <2>5. CASE n = j
      <3>1. PICK i \in 1 .. m + 1 : f[m + 1] = items[i]
        BY <2>3, <2>5
      <3>2. i \in 1 .. j - 1
        BY <2>1, <2>5
      <3>3. f[n] = items[j]
        BY <2>2, <2>5, <3>1, <3>2
      <3>4. QED BY <2>5, <3>3
    <2>6. CASE n > j
      <3>1. f[m + 1] = items[j]
        BY <1>1, <2>3, <2>6
      <3>2. n \in j + 1 .. N
        BY <1>1, <2>1, <2>6
      <3>3. f[n] = items[j]
        BY <2>2, <3>1, <3>2
      <3>4. QED BY <1>1, <2>6, <3>3
    <2>7. QED BY <1>1, <2>4, <2>5, <2>6
  <1> HIDE DEF S
  <1>7. \A m \in Nat : m \in S
    BY <1>5, <1>6, SetInduction
  <1>8. f[N] = items[j]
    <2>1. N - 1 \in Nat /\ (N - 1) + 1 = N /\ ~(N < j)
      BY <1>1
    <2>2. N - 1 \in S
      BY <1>7, <2>1
    <2>3. QED BY <1>1, <2>1, <2>2 DEF S
  <1>9. QED BY <1>3, <1>8

\* There is a first one of those with the greatest key.
LEMMA FirstBest ==
  ASSUME NEW items \in Seq(Process), items # <<>>, NEW key \in [Process -> Int]
  PROVE  \E j \in 1 .. Len(items) :
           /\ \A i \in 1 .. j - 1 : key[items[i]] < key[items[j]]
           /\ \A i \in j + 1 .. Len(items) : key[items[i]] <= key[items[j]]
  <1> DEFINE N == Len(items)
             Best(j, n) == /\ \A i \in 1 .. j - 1 : key[items[i]] < key[items[j]]
                           /\ \A i \in j + 1 .. n : key[items[i]] <= key[items[j]]
             S == {m \in Nat : m + 1 <= N => \E j \in 1 .. m + 1 : Best(j, m + 1)}
  <1>1. N \in Nat /\ N >= 1 /\ \A n \in 1 .. N : key[items[n]] \in Int
    BY EmptySeq, LenProperties, ElementOfSeq
  <1>2. 0 \in S
    <2>1. Best(1, 1) /\ 1 \in 1 .. 0 + 1
      OBVIOUS
    <2> HIDE DEF Best
    <2>2. QED BY <2>1
  <1>3. ASSUME NEW m \in Nat, m \in S PROVE m + 1 \in S
    <2> DEFINE n == (m + 1) + 1
    <2> SUFFICES ASSUME n <= N PROVE \E j \in 1 .. n : Best(j, n)
      <3> HIDE DEF Best
      <3>1. m + 1 \in Nat
        OBVIOUS
      <3>2. QED BY <3>1
    <2>1. PICK j \in 1 .. m + 1 : Best(j, m + 1)
      BY <1>1, <1>3
    <2>2. n \in 1 .. N /\ n - 1 = m + 1 /\ n \in Nat /\ j \in 1 .. N /\ j \in 1 .. n
      BY <1>1
    <2>3. CASE key[items[n]] <= key[items[j]]
      <3>1. \A i \in j + 1 .. n : i = n \/ i \in j + 1 .. m + 1
        BY <2>2
      <3>2. Best(j, n)
        BY <2>1, <2>3, <3>1
      <3>3. QED BY <2>2, <3>2
    <2>4. CASE key[items[j]] < key[items[n]]
      <3>1. \A i \in 1 .. n - 1 : i \in 1 .. N /\ (i \in 1 .. j - 1 \/ i = j \/ i \in j + 1 .. m + 1)
        BY <2>2
      <3>2. \A i \in 1 .. n - 1 : key[items[i]] <= key[items[j]]
        BY <1>1, <2>1, <2>2, <3>1
      <3>3. \A i \in 1 .. n - 1 : key[items[i]] < key[items[n]]
        BY <1>1, <2>2, <2>4, <3>1, <3>2
      <3>4. Best(n, n)
        BY <2>2, <3>3
      <3>5. QED BY <2>2, <3>4
    <2>5. QED BY <1>1, <2>2, <2>3, <2>4
  <1> HIDE DEF S
  <1>4. \A m \in Nat : m \in S
    BY <1>2, <1>3, SetInduction
  <1>5. \E j \in 1 .. N : Best(j, N)
    <2>1. N - 1 \in S /\ (N - 1) + 1 = N
      BY <1>1, <1>4
    <2> HIDE DEF Best
    <2>2. QED BY <1>1, <2>1 DEF S
  <1>6. QED BY <1>5

-----------------------------------------------------------------------------
(* The list that a time step begins with.                                  *)

\* What the first loop computes: after is a function with this definition.
IsRemoval(array, f) ==
  LET size == my_array_size(array) IN
  f = [n \in 0 .. size |->
         IF n = 0 THEN array
         ELSE LET a == f[n - 1]
                  i == (n - 1) - (size - my_array_size(a))
              IN IF remaining[my_array_get(a, i)] = 0 THEN my_array_delete(a, i) ELSE a]

\* One turn of the first loop, at the array a.
Removal(array, n, a) ==
  LET i == (n - 1) - (Len(array.items) - Len(a.items)) IN
  IF remaining[a.items[i + 1]] = 0 THEN my_array_delete(a, i) ELSE a

\* The first loop computes the one function that its turns allow.
LEMMA RemovalIs ==
  ASSUME NEW a \in Arrays, NEW g, g = [n \in 0 .. Len(a.items) |-> g[n]],
         g[0] = a,
         \A n \in 1 .. Len(a.items) : g[n] = Removal(a, n, g[n - 1])
  PROVE  RemoveFinished(a) = g[Len(a.items)]
  <1> DEFINE N == Len(a.items)
             f == CHOOSE h : IsRemoval(a, h)
             S == {n \in Nat : n <= N => f[n] = g[n]}
  <1>1. N \in Nat
    BY LenProperties DEF Arrays
  <1>2. \A h : IsRemoval(a, h) <=>
           h = [n \in 0 .. N |-> IF n = 0 THEN a ELSE Removal(a, n, h[n - 1])]
    BY Zenon DEF IsRemoval, Removal, my_array_size, my_array_get
  <1>3. IsRemoval(a, g)
    <2>1. \A n \in 0 .. N : g[n] = IF n = 0 THEN a ELSE Removal(a, n, g[n - 1])
      BY <1>1
    <2>2. [n \in 0 .. N |-> g[n]] = [n \in 0 .. N |-> IF n = 0 THEN a ELSE Removal(a, n, g[n - 1])]
      BY <2>1
    <2>3. QED BY <1>2, <2>2
  <1>4. IsRemoval(a, f)
    BY <1>3, Zenon
  <1>5. RemoveFinished(a) = f[N]
    BY Zenon DEF RemoveFinished, IsRemoval, my_array_size
  <1> HIDE DEF f
  <1>6. f[0] = a /\ \A n \in 1 .. N : f[n] = Removal(a, n, f[n - 1])
    <2>1. f = [n \in 0 .. N |-> IF n = 0 THEN a ELSE Removal(a, n, f[n - 1])]
      BY <1>2, <1>4
    <2>2. \A n \in 0 .. N : f[n] = IF n = 0 THEN a ELSE Removal(a, n, f[n - 1])
      BY <2>1
    <2>3. QED BY <1>1, <2>2
  <1>7. 0 \in S
    BY <1>6
  <1>8. ASSUME NEW n \in Nat, n \in S PROVE n + 1 \in S
    <2> SUFFICES ASSUME n + 1 <= N PROVE f[n + 1] = g[n + 1]
      OBVIOUS
    <2>1. n + 1 \in 1 .. N /\ (n + 1) - 1 = n /\ f[n] = g[n]
      BY <1>1, <1>8
    <2>2. f[n + 1] = Removal(a, n + 1, f[(n + 1) - 1])
      BY <1>6, <2>1
    <2>3. g[n + 1] = Removal(a, n + 1, g[(n + 1) - 1])
      BY <2>1
    <2>4. QED BY <2>1, <2>2, <2>3
  <1> HIDE DEF S
  <1>9. N \in S
    BY <1>1, <1>7, <1>8, SetInduction
  <1>10. QED BY <1>1, <1>5, <1>9 DEF S

\* The first loop, while it has met nobody who has finished.
LEMMA NothingFinished ==
  ASSUME NEW a \in Arrays, \A i \in 1 .. Len(a.items) : remaining[a.items[i]] # 0
  PROVE  RemoveFinished(a) = a
  <1> DEFINE N == Len(a.items)
             g == [n \in 0 .. N |-> a]
  <1>1. N \in Nat
    BY LenProperties DEF Arrays
  <1>2. ASSUME NEW n \in 1 .. N PROVE g[n] = Removal(a, n, g[n - 1])
    <2>1. g[n] = a /\ g[n - 1] = a
      BY <1>1
    <2>2. ((n - 1) - (N - N)) + 1 = n
      BY <1>1
    <2>3. Removal(a, n, a) = IF remaining[a.items[n]] = 0 THEN my_array_delete(a, (n - 1) - (N - N)) ELSE a
      BY <2>2 DEF Removal
    <2>4. remaining[a.items[n]] # 0
      OBVIOUS
    <2>5. QED BY <2>1, <2>3, <2>4
  <1>3. g = [n \in 0 .. N |-> g[n]] /\ g[0] = a /\ g[N] = a
    BY <1>1
  <1> HIDE DEF g
  <1>4. QED BY <1>2, <1>3, RemovalIs

\* The first loop, when it has met the one who has finished.
LEMMA OneFinished ==
  ASSUME NEW a \in Arrays, NEW j \in 1 .. Len(a.items), remaining[a.items[j]] = 0,
         \A i \in 1 .. Len(a.items) : i # j => remaining[a.items[i]] # 0
  PROVE  RemoveFinished(a) = my_array_delete(a, j - 1)
  <1> DEFINE N == Len(a.items)
             b == my_array_delete(a, j - 1)
             g == [n \in 0 .. N |-> IF n < j THEN a ELSE b]
  <1>1. N \in Nat /\ j \in Nat /\ j >= 1 /\ j <= N
    BY LenProperties DEF Arrays
  <1>2. Len(b.items) = N - 1
        /\ \A i \in 1 .. N - 1 : b.items[i] = IF i < j THEN a.items[i] ELSE a.items[i + 1]
    BY Delete
  <1> HIDE DEF b
  <1>3. ASSUME NEW n \in 1 .. N PROVE g[n] = Removal(a, n, g[n - 1])
    <2>1. CASE n < j
      <3>1. g[n] = a /\ g[n - 1] = a
        BY <1>1, <2>1
      <3>2. ((n - 1) - (N - N)) + 1 = n
        BY <1>1
      <3>3. Removal(a, n, a) = IF remaining[a.items[n]] = 0 THEN my_array_delete(a, (n - 1) - (N - N)) ELSE a
        BY <3>2 DEF Removal
      <3>4. remaining[a.items[n]] # 0
        BY <1>1, <2>1
      <3>5. QED BY <3>1, <3>3, <3>4
    <2>2. CASE n = j
      <3>1. g[n] = b /\ g[n - 1] = a
        BY <1>1, <2>2
      <3>2. ((n - 1) - (N - N)) + 1 = j /\ (n - 1) - (N - N) = j - 1
        BY <1>1, <2>2
      <3>3. Removal(a, n, a) = IF remaining[a.items[j]] = 0 THEN my_array_delete(a, j - 1) ELSE a
        BY <3>2 DEF Removal
      <3>4. QED BY <3>1, <3>3 DEF b
    <2>3. CASE n > j
      <3>1. g[n] = b /\ g[n - 1] = b
        BY <1>1, <2>3
      <3>2. ((n - 1) - (N - Len(b.items))) + 1 = n - 1
        BY <1>1, <1>2
      <3>3. Removal(a, n, b) = IF remaining[b.items[n - 1]] = 0
                               THEN my_array_delete(b, (n - 1) - (N - Len(b.items))) ELSE b
        BY <3>2 DEF Removal
      <3>4. n - 1 \in 1 .. N - 1 /\ ~(n - 1 < j) /\ (n - 1) + 1 = n /\ n # j
        BY <1>1, <2>3
      <3>5. b.items[n - 1] = a.items[n] /\ remaining[a.items[n]] # 0
        BY <1>2, <3>4
      <3>6. QED BY <3>1, <3>3, <3>5
    <2>4. QED BY <1>1, <2>1, <2>2, <2>3
  <1>4. g = [n \in 0 .. N |-> g[n]] /\ g[0] = a /\ g[N] = b
    BY <1>1
  <1> HIDE DEF g
  <1>5. QED BY <1>3, <1>4, RemovalIs DEF b

\* What the first loop leaves, when one element at most has finished: all
\* but the j-th of them, in their order.
LEMMA Kept ==
  ASSUME NEW a \in Arrays,
         \A i, j \in 1 .. Len(a.items) :
            remaining[a.items[i]] = 0 /\ remaining[a.items[j]] = 0 => i = j
  PROVE  LET b == RemoveFinished(a) IN
         /\ b \in Arrays
         /\ \E j \in 1 .. Len(a.items) + 1 :
              /\ Len(b.items) = IF j <= Len(a.items) THEN Len(a.items) - 1 ELSE Len(a.items)
              /\ j <= Len(a.items) => remaining[a.items[j]] = 0
              /\ \A i \in 1 .. Len(b.items) : b.items[i] = a.items[IF i < j THEN i ELSE i + 1]
              /\ \A i \in 1 .. Len(a.items) : i # j => remaining[a.items[i]] # 0
  <1> DEFINE N == Len(a.items)
  <1>1. N \in Nat
    BY LenProperties DEF Arrays
  <1>2. CASE \A i \in 1 .. N : remaining[a.items[i]] # 0
    <2>1. RemoveFinished(a) = a
      BY <1>2, NothingFinished
    <2>2. N + 1 \in 1 .. N + 1 /\ ~(N + 1 <= N) /\ \A i \in 1 .. N : i < N + 1 /\ i # N + 1
      BY <1>1
    <2>3. \A i \in 1 .. N : a.items[i] = a.items[IF i < N + 1 THEN i ELSE i + 1]
      BY <2>2
    <2>4. /\ Len(a.items) = IF N + 1 <= N THEN N - 1 ELSE N
          /\ N + 1 <= N => remaining[a.items[N + 1]] = 0
          /\ \A i \in 1 .. N : i # N + 1 => remaining[a.items[i]] # 0
      BY <1>2, <2>2
    <2>5. QED BY <2>1, <2>2, <2>3, <2>4
  <1>3. CASE \E j \in 1 .. N : remaining[a.items[j]] = 0
    <2>1. PICK j \in 1 .. N : remaining[a.items[j]] = 0
      BY <1>3
    <2>2. \A i \in 1 .. N : i # j => remaining[a.items[i]] # 0
      BY <2>1
    <2> DEFINE b == my_array_delete(a, j - 1)
    <2>3. RemoveFinished(a) = b
      BY <2>1, <2>2, OneFinished
    <2>4. /\ b \in Arrays
          /\ Len(b.items) = N - 1
          /\ \A i \in 1 .. N - 1 : b.items[i] = IF i < j THEN a.items[i] ELSE a.items[i + 1]
      BY Delete
    <2>5. j \in 1 .. N + 1 /\ j <= N
      BY <1>1
    <2> HIDE DEF b
    <2>6. \A i \in 1 .. Len(b.items) : b.items[i] = a.items[IF i < j THEN i ELSE i + 1]
      BY <2>4
    <2>7. QED BY <2>1, <2>2, <2>3, <2>4, <2>5, <2>6
  <1>4. QED BY <1>2, <1>3

\* What is known of an input.
LEMMA Inputs ==
  ASSUME procs \in Workloads
  PROVE  /\ Len(procs) \in Nat /\ Process = 1 .. Len(procs) /\ Process \subseteq Nat
         /\ \A k \in Process : /\ procs[k].arrival \in Nat /\ procs[k].priority \in Nat
                               /\ procs[k].service \in Nat /\ procs[k].service > 0
         /\ IsFiniteSet(Process) /\ Cardinality(Process) = Len(procs)
         /\ None \notin Process
  <1> DEFINE P == [arrival : Nat, service : Nat \ {0}, priority : Nat]
  <1>1. procs \in Seq(P)
    BY Constants
  <1> HIDE DEF P
  <1>2. Len(procs) \in Nat /\ Process = 1 .. Len(procs) /\ \A k \in Process : procs[k] \in P
    <2>1. Len(procs) \in Nat /\ Process = 1 .. Len(procs)
      BY <1>1, LenProperties DEF Process
    <2>2. QED BY <1>1, <2>1, ElementOfSeq
  <1>3. IsFiniteSet(Process) /\ Cardinality(Process) = Len(procs)
    <2>1. IsFiniteSet(1 .. Len(procs))
          /\ Cardinality(1 .. Len(procs)) = IF 1 > Len(procs) THEN 0 ELSE Len(procs) - 1 + 1
      BY <1>2, FS_Interval, 1 \in Int, Len(procs) \in Int
    <2>2. QED BY <1>2, <2>1
  <1>4. \A k \in Process : /\ procs[k].arrival \in Nat /\ procs[k].priority \in Nat
                           /\ procs[k].service \in Nat /\ procs[k].service > 0
    BY <1>2 DEF P
  <1>5. Process \subseteq Nat /\ None \notin Process
    BY <1>2 DEF None
  <1>6. QED BY <1>2, <1>3, <1>4, <1>5

\* r is a followed by those of the processes 1 to k that arrive now.
ArrivedUpTo(a, k, r) ==
  /\ r \in Arrays /\ Len(r.items) >= Len(a.items)
  /\ \A i \in 1 .. Len(a.items) : r.items[i] = a.items[i]
  /\ \A i \in Len(a.items) + 1 .. Len(r.items) :
       procs[r.items[i]].arrival = timestep /\ r.items[i] <= k
  /\ \A i, j \in Len(a.items) + 1 .. Len(r.items) : i < j => r.items[i] < r.items[j]
  /\ \A q \in 1 .. k : procs[q].arrival = timestep =>
       \E i \in Len(a.items) + 1 .. Len(r.items) : r.items[i] = q

\* A turn of the second loop, for a process that arrives.
LEMMA OneArrives ==
  ASSUME procs \in Workloads, NEW a \in Arrays, NEW k \in Process, NEW r,
         ArrivedUpTo(a, k - 1, r), procs[k].arrival = timestep
  PROVE  ArrivedUpTo(a, k, my_array_push_back(r, k))
  <1> DEFINE b == my_array_push_back(r, k)
             M == Len(a.items)
             N == Len(r.items)
  <1>1. M \in Nat /\ N \in Nat /\ N >= M
    BY LenProperties DEF Arrays, ArrivedUpTo
  <1>2. k \in Nat /\ k >= 1
    BY Inputs
  <1>3. /\ b \in Arrays
        /\ Len(b.items) = N + 1
        /\ \A i \in 1 .. N : b.items[i] = r.items[i]
        /\ b.items[N + 1] = k
    BY PushBack DEF ArrivedUpTo
  <1>4. \A i \in 1 .. N : r.items[i] \in Nat
    <2>1. \A i \in 1 .. N : r.items[i] \in Process
      BY ElementOfSeq DEF Arrays, ArrivedUpTo
    <2>2. QED BY <2>1, Inputs
  <1> HIDE DEF b
  <1>5. \A i \in M + 1 .. N + 1 : i = N + 1 \/ i \in M + 1 .. N
    BY <1>1
  <1>6. \A i \in M + 1 .. N : b.items[i] = r.items[i] /\ r.items[i] \in Nat
                               /\ r.items[i] <= k - 1 /\ procs[r.items[i]].arrival = timestep
    BY <1>1, <1>3, <1>4 DEF ArrivedUpTo
  <1>7. \A i \in 1 .. M : b.items[i] = a.items[i]
    BY <1>1, <1>3 DEF ArrivedUpTo
  <1>8. \A i \in M + 1 .. N + 1 : procs[b.items[i]].arrival = timestep /\ b.items[i] <= k
    <2> TAKE i \in M + 1 .. N + 1
    <2>1. CASE i = N + 1
      BY <1>2, <1>3, <2>1
    <2>2. CASE i \in M + 1 .. N
      BY <1>2, <1>6, <2>2
    <2>3. QED BY <1>5, <2>1, <2>2
  <1>9. \A i, j \in M + 1 .. N + 1 : i < j => b.items[i] < b.items[j]
    <2> TAKE i, j \in M + 1 .. N + 1
    <2> HAVE i < j
    <2>1. i \in M + 1 .. N
      BY <1>1
    <2>2. CASE j = N + 1
      BY <1>2, <1>3, <1>6, <2>1, <2>2
    <2>3. CASE j \in M + 1 .. N
      <3>1. r.items[i] < r.items[j]
        BY <2>1, <2>3 DEF ArrivedUpTo
      <3>2. QED BY <1>6, <2>1, <2>3, <3>1
    <2>4. QED BY <1>5, <2>2, <2>3
  <1>10. \A q \in 1 .. k : procs[q].arrival = timestep =>
           \E i \in M + 1 .. N + 1 : b.items[i] = q
    <2> TAKE q \in 1 .. k
    <2> HAVE procs[q].arrival = timestep
    <2>1. CASE q = k
      <3>1. N + 1 \in M + 1 .. N + 1
        BY <1>1
      <3>2. QED BY <1>3, <2>1, <3>1
    <2>2. CASE q \in 1 .. k - 1
      <3>1. PICK i \in M + 1 .. N : r.items[i] = q
        BY <2>2 DEF ArrivedUpTo
      <3>2. i \in M + 1 .. N + 1 /\ b.items[i] = q
        BY <1>1, <1>6, <3>1
      <3>3. QED BY <3>2
    <2>3. QED BY <1>2, <2>1, <2>2
  <1>11. Len(b.items) >= M
    BY <1>1, <1>3
  <1>12. ArrivedUpTo(a, k, b)
    BY <1>3, <1>7, <1>8, <1>9, <1>10, <1>11 DEF ArrivedUpTo
  <1>13. QED BY <1>12 DEF b

\* A turn of the second loop, for another process.
LEMMA NoneArrives ==
  ASSUME procs \in Workloads, NEW a \in Arrays, NEW k \in Process, NEW r,
         ArrivedUpTo(a, k - 1, r), procs[k].arrival # timestep
  PROVE  ArrivedUpTo(a, k, r)
  <1>1. k \in Nat /\ k >= 1
    BY Inputs
  <1>2. \A q \in 1 .. k : q = k \/ q \in 1 .. k - 1
    BY <1>1
  <1>3. \A i \in Len(a.items) + 1 .. Len(r.items) : r.items[i] \in Nat
    <2>1. Len(a.items) \in Nat /\ Len(r.items) \in Nat /\ r.items \in Seq(Process)
      BY LenProperties DEF Arrays, ArrivedUpTo
    <2>2. \A i \in 1 .. Len(r.items) : r.items[i] \in Process
      BY <2>1, ElementOfSeq
    <2>3. \A i \in Len(a.items) + 1 .. Len(r.items) : i \in 1 .. Len(r.items)
      BY <2>1
    <2>4. QED BY <2>2, <2>3, Inputs
  <1>4. \A i \in Len(a.items) + 1 .. Len(r.items) : r.items[i] <= k - 1 => r.items[i] <= k
    BY <1>1, <1>3
  <1>5. QED BY <1>2, <1>4 DEF ArrivedUpTo

\* What the second loop computes: after is a function with this definition.
IsAddition(array, f) ==
  f = [k \in 0 .. Len(procs) |->
         IF k = 0 THEN array
         ELSE IF procs[k].arrival = timestep THEN my_array_push_back(f[k - 1], k)
         ELSE f[k - 1]]

\* The second loop's function exists.
LEMMA AdditionExists ==
  ASSUME procs \in Workloads, NEW a \in Arrays
  PROVE  \E f : IsAddition(a, f)
  <1> DEFINE N == Len(procs)
             step == [k \in Nat |-> [r \in Arrays |->
                        IF k \in Process /\ procs[k].arrival = timestep
                        THEN my_array_push_back(r, k) ELSE r]]
  <1>1. N \in Nat /\ Process = 1 .. N
    BY Inputs
  <1>2. step \in [Nat -> [Arrays -> Arrays]]
    <2>1. \A k \in Process : \A r \in Arrays : my_array_push_back(r, k) \in Arrays
      BY PushBack
    <2>2. QED BY <2>1
  <1>3. \A k \in Process : \A r \in Arrays :
           step[k][r] = IF procs[k].arrival = timestep THEN my_array_push_back(r, k) ELSE r
    BY <1>1
  <1> HIDE DEF step
  <1>4. PICK f \in [0 .. 0 + N -> Arrays] : IsIteration(0, 0 + N, a, step, f)
    BY <1>1, <1>2, IterationExists, 0 \in Nat
  <1>5. 0 + N = N
    BY <1>1
  <1>6. f \in [0 .. N -> Arrays] /\ f = [k \in 0 .. N |-> f[k]]
    BY <1>4, <1>5
  <1>7. \A k \in 0 .. N :
           f[k] = IF k = 0 THEN a
                  ELSE IF procs[k].arrival = timestep THEN my_array_push_back(f[k - 1], k)
                  ELSE f[k - 1]
    <2> TAKE k \in 0 .. N
    <2>1. f[k] = IF k = 0 THEN a ELSE step[k][f[k - 1]]
      BY <1>4, <1>5 DEF IsIteration
    <2>2. k # 0 => k \in Process /\ f[k - 1] \in Arrays
      BY <1>1, <1>6
    <2>3. QED BY <1>3, <2>1, <2>2
  <1>8. IsAddition(a, f)
    BY <1>6, <1>7 DEF IsAddition
  <1>9. QED BY <1>8

\* What the second loop makes of an array.
LEMMA Added ==
  ASSUME procs \in Workloads, NEW a \in Arrays
  PROVE  ArrivedUpTo(a, Len(procs), AddArrived(a))
  <1> DEFINE N == Len(procs)
             f == CHOOSE h : IsAddition(a, h)
             S == {k \in Nat : k <= N => ArrivedUpTo(a, k, f[k])}
  <1>1. N \in Nat /\ Process = 1 .. N
    BY Inputs
  <1>2. IsAddition(a, f)
    BY AdditionExists, Zenon
  <1>3. AddArrived(a) = f[N]
    BY Zenon DEF AddArrived, IsAddition
  <1> HIDE DEF f
  <1>4. \A k \in 0 .. N :
           f[k] = IF k = 0 THEN a
                  ELSE IF procs[k].arrival = timestep THEN my_array_push_back(f[k - 1], k)
                  ELSE f[k - 1]
    BY <1>2 DEF IsAddition
  <1>5. 0 \in S
    <2>1. f[0] = a /\ Len(a.items) \in Nat
      BY <1>1, <1>4, LenProperties DEF Arrays
    <2>2. ArrivedUpTo(a, 0, a)
      BY <2>1 DEF ArrivedUpTo
    <2>3. QED BY <2>1, <2>2
  <1>6. ASSUME NEW n \in Nat, n \in S PROVE n + 1 \in S
    <2> DEFINE k == n + 1
    <2> SUFFICES ASSUME k <= N PROVE ArrivedUpTo(a, k, f[k])
      OBVIOUS
    <2>1. k \in 0 .. N /\ k # 0 /\ k - 1 = n /\ k \in Process /\ n <= N
      BY <1>1
    <2>2. ArrivedUpTo(a, k - 1, f[k - 1])
      BY <1>6, <2>1
    <2>3. f[k] = IF procs[k].arrival = timestep THEN my_array_push_back(f[k - 1], k)
                 ELSE f[k - 1]
      BY <1>4, <2>1
    <2> HIDE DEF k
    <2>4. QED BY <2>1, <2>2, <2>3, OneArrives, NoneArrives
  <1> HIDE DEF S
  <1>7. N \in S
    BY <1>1, <1>5, <1>6, SetInduction
  <1>8. QED BY <1>1, <1>3, <1>7 DEF S

-----------------------------------------------------------------------------
(* The inductive invariant.                                                *)

RanLast(k) == proc_names # <<>> /\ Last(proc_names) = k

Typed ==
  /\ procs \in Workloads
  /\ run \in 1 .. 6
  /\ phase \in {"init", "loop", "done"}
  /\ timestep \in 0 .. MAX_TIMESTEPS - 1
  /\ list \in Arrays
  /\ prev_proc \in Process \cup {None}
  /\ remaining \in [Process -> Nat]
  /\ user1 \in [Process -> Nat]
  /\ user2 \in [Process -> Nat]
  /\ user3 \in [Process -> Nat]
  /\ proc_names \in Seq(Process) /\ Len(proc_names) < MAX_TIMESTEPS

\* The list between two time steps: the process that ran last may have
\* finished and still be in it, or have been taken out of it.
Ready ==
  phase = "loop" =>
    /\ \A i, j \in 1 .. Len(list.items) : list.items[i] = list.items[j] => i = j
    /\ \A i \in 1 .. Len(list.items) :
         /\ procs[list.items[i]].arrival < timestep
         /\ remaining[list.items[i]] = 0 => RanLast(list.items[i])
         /\ list.items[i] # prev_proc
    /\ prev_proc # None => procs[prev_proc].arrival < timestep /\ remaining[prev_proc] > 0
    /\ \A k \in Process : procs[k].arrival < timestep /\ remaining[k] > 0 =>
         k = prev_proc \/ \E i \in 1 .. Len(list.items) : list.items[i] = k

\* The time steps in which process k has run.
RunsOf(k) == {n \in 1 .. Len(proc_names) : proc_names[n] = k}

\* The units of service time that have been given: <<k, n>> is the n-th of k.
Served == {u \in Process \X Nat :
             u[2] >= 1 /\ u[2] <= procs[u[1]].service - remaining[u[1]]}

Counts ==
  phase # "init" =>
    /\ Len(proc_names) = timestep
    /\ \A n \in 1 .. timestep : procs[proc_names[n]].arrival < timestep
    /\ \A k \in Process :
         /\ IsFiniteSet(RunsOf(k))
         /\ Cardinality(RunsOf(k)) + remaining[k] = procs[k].service
         /\ procs[k].arrival >= timestep => remaining[k] = procs[k].service
    /\ IsFiniteSet(Served) /\ Cardinality(Served) = timestep

\* How the list of a time step is made up: the first m of items are those of
\* the old list but for the j-th, those up to e arrive now.
Shape(items, j, m, e) ==
  /\ j \in 1 .. Len(list.items) + 1 /\ m \in Nat /\ e \in Nat /\ m <= e
  /\ m = IF j <= Len(list.items) THEN Len(list.items) - 1 ELSE Len(list.items)
  /\ j <= Len(list.items) => remaining[list.items[j]] = 0
  /\ \A i \in 1 .. Len(list.items) : i # j => remaining[list.items[i]] # 0
  /\ Len(items) = IF prev_proc = None THEN e ELSE e + 1
  /\ \A i \in 1 .. m : items[i] = list.items[IF i < j THEN i ELSE i + 1]
  /\ \A i \in m + 1 .. e : procs[items[i]].arrival = timestep
  /\ \A i, k \in m + 1 .. e : i < k => items[i] < items[k]
  /\ \A q \in Process : procs[q].arrival = timestep => \E i \in m + 1 .. e : items[i] = q
  /\ prev_proc # None => items[e + 1] = prev_proc

\* The list of a time step is made up so.
LEMMA ReadyShape ==
  ASSUME Typed, Ready, phase = "loop"
  PROVE  /\ ReadyList \in Arrays
         /\ \E j, m, e \in Nat : Shape(ReadyList.items, j, m, e)
  <1> DEFINE L == list.items
             K == RemoveFinished(list)
             A == AddArrived(K)
             R == ReadyList
  <1>1. Len(L) \in Nat /\ list \in Arrays /\ procs \in Workloads
    BY LenProperties DEF Typed, Arrays
  <1>2. \A i, j \in 1 .. Len(L) : remaining[L[i]] = 0 /\ remaining[L[j]] = 0 => i = j
    BY DEF Ready, RanLast
  <1>3. K \in Arrays
    BY <1>1, <1>2, Kept
  <1>4. PICK j \in 1 .. Len(L) + 1 :
              /\ Len(K.items) = IF j <= Len(L) THEN Len(L) - 1 ELSE Len(L)
              /\ j <= Len(L) => remaining[L[j]] = 0
              /\ \A i \in 1 .. Len(K.items) : K.items[i] = L[IF i < j THEN i ELSE i + 1]
              /\ \A i \in 1 .. Len(L) : i # j => remaining[L[i]] # 0
    BY <1>1, <1>2, Kept
  <1> HIDE DEF K
  <1>5. ArrivedUpTo(K, Len(procs), A)
    BY <1>1, <1>3, Added
  <1>6. R = IF prev_proc = None THEN A ELSE my_array_push_back(A, prev_proc)
    BY DEF ReadyList, K
  <1> HIDE DEF A
  <1> DEFINE m == Len(K.items)
             e == Len(A.items)
  <1>7. A \in Arrays /\ m \in Nat /\ e \in Nat /\ m <= e
    BY <1>3, <1>5, LenProperties DEF ArrivedUpTo, Arrays
  <1>8. /\ R \in Arrays
        /\ Len(R.items) = IF prev_proc = None THEN e ELSE e + 1
        /\ \A i \in 1 .. e : R.items[i] = A.items[i]
        /\ prev_proc # None => R.items[e + 1] = prev_proc
    <2>1. CASE prev_proc = None
      BY <1>6, <1>7, <2>1
    <2>2. CASE prev_proc # None
      <3>1. prev_proc \in Process /\ R = my_array_push_back(A, prev_proc)
        BY <1>6, <2>2 DEF Typed
      <3>2. QED BY <1>7, <2>2, <3>1, PushBack
    <2>3. QED BY <2>1, <2>2
  <1> HIDE DEF R
  <1>9. \A i \in 1 .. m : i \in 1 .. e /\ R.items[i] = K.items[i]
    BY <1>5, <1>7, <1>8 DEF ArrivedUpTo
  <1>10. \A i \in m + 1 .. e : R.items[i] = A.items[i]
    BY <1>7, <1>8
  <1>11. \A q \in Process : procs[q].arrival = timestep =>
            \E i \in m + 1 .. e : R.items[i] = q
    <2> TAKE q \in Process
    <2> HAVE procs[q].arrival = timestep
    <2>1. q \in 1 .. Len(procs)
      BY <1>1, Inputs
    <2>2. PICK i \in m + 1 .. e : A.items[i] = q
      BY <1>5, <2>1 DEF ArrivedUpTo
    <2>3. QED BY <1>10, <2>2
  <1>12. \A i \in m + 1 .. e : procs[R.items[i]].arrival = timestep
    BY <1>5, <1>10 DEF ArrivedUpTo
  <1>13. \A i, k \in m + 1 .. e : i < k => R.items[i] < R.items[k]
    BY <1>5, <1>10 DEF ArrivedUpTo
  <1>14. \A i \in 1 .. m : R.items[i] = L[IF i < j THEN i ELSE i + 1]
    BY <1>4, <1>9
  <1>15. j \in Nat
    BY <1>1
  <1>16. Shape(R.items, j, m, e)
    BY <1>4, <1>7, <1>8, <1>11, <1>12, <1>13, <1>14 DEF Shape
  <1>17. QED BY <1>7, <1>8, <1>15, <1>16 DEF R

\* A sequence without repetitions has as many elements as places.
LEMMA DistinctCount ==
  ASSUME NEW S, NEW s \in Seq(S),
         \A i, j \in 1 .. Len(s) : s[i] = s[j] => i = j
  PROVE  LET T == {s[i] : i \in 1 .. Len(s)} IN
         IsFiniteSet(T) /\ Cardinality(T) = Len(s)
  <1> DEFINE N == Len(s)
             T == {s[i] : i \in 1 .. N}
  <1>1. N \in Nat /\ s \in [1 .. N -> S]
    BY LenProperties
  <1>2. s \in [1 .. N -> T]
    BY <1>1
  <1>3. s \in Injection(1 .. N, T)
    BY <1>2, Fun_IsInj
  <1>4. s \in Surjection(1 .. N, T)
    BY <1>2, Fun_IsSurj
  <1>5. ExistsBijection(1 .. N, T)
    BY <1>3, <1>4 DEF ExistsBijection, Bijection
  <1>6. IsFiniteSet(1 .. N) /\ Cardinality(1 .. N) = N
    <2>1. IsFiniteSet(1 .. N) /\ Cardinality(1 .. N) = IF 1 > N THEN 0 ELSE N - 1 + 1
      BY <1>1, FS_Interval, 1 \in Int, N \in Int
    <2>2. QED BY <1>1, <2>1
  <1> HIDE DEF N, T
  <1>7. IsFiniteSet(T) /\ Cardinality(T) = N
    BY <1>5, <1>6, FS_Bijection
  <1>8. QED BY <1>7 DEF N, T

\* The list of a time step: each process that may run, once.
LEMMA ReadyViable ==
  ASSUME Typed, Counts, Ready, phase = "loop"
  PROVE  LET items == ReadyList.items IN
         /\ ReadyList \in Arrays /\ items \in Seq(Process) /\ Len(items) \in Nat
         /\ \A i \in 1 .. Len(items) : items[i] \in Viable
         /\ \A k \in Viable : \E i \in 1 .. Len(items) : items[i] = k
         /\ \A i, j \in 1 .. Len(items) : items[i] = items[j] => i = j
  <1> DEFINE L == list.items
             I == ReadyList.items
  <1>1. ReadyList \in Arrays /\ I \in Seq(Process) /\ Len(I) \in Nat
    BY ReadyShape, LenProperties DEF Arrays
  <1>2. PICK j \in Nat, m \in Nat, e \in Nat : Shape(I, j, m, e)
    BY ReadyShape
  <1> HIDE DEF I
  <1>3. \A i \in 1 .. Len(I) : I[i] \in Process
    BY <1>1, ElementOfSeq
  <1>4. /\ procs \in Workloads /\ timestep \in Nat /\ Len(L) \in Nat
        /\ remaining \in [Process -> Nat]
    <2>1. procs \in Workloads /\ timestep \in Nat /\ remaining \in [Process -> Nat]
      BY Constants DEF Typed
    <2>2. L \in Seq(Process)
      BY DEF Typed, Arrays
    <2>3. QED BY <2>1, <2>2, LenProperties
  <1>5. \A k \in Process : procs[k].arrival \in Nat /\ remaining[k] \in Nat /\ k \in Nat
    BY <1>4, Inputs
  <1>6. m <= e /\ Len(I) = IF prev_proc = None THEN e ELSE e + 1
    BY <1>2 DEF Shape
  <1>7. \A i \in 1 .. Len(I) : \/ i \in 1 .. m \/ i \in m + 1 .. e
                               \/ i = e + 1 /\ prev_proc # None
    BY <1>6
  <1> DEFINE at(i) == IF i < j THEN i ELSE i + 1
  <1>8. \A i \in 1 .. m : at(i) \in 1 .. Len(L) /\ at(i) # j
    BY <1>2, <1>4 DEF Shape
  <1>9. \A i \in 1 .. m : /\ I[i] = L[at(i)] /\ procs[I[i]].arrival < timestep
                          /\ remaining[I[i]] # 0 /\ I[i] # prev_proc
    <2> TAKE i \in 1 .. m
    <2>1. I[i] = L[at(i)]
      BY <1>2 DEF Shape
    <2>2. at(i) \in 1 .. Len(L) /\ at(i) # j
      BY <1>8
    <2> HIDE DEF at
    <2>3. remaining[L[at(i)]] # 0
      BY <1>2, <2>2 DEF Shape
    <2>4. procs[L[at(i)]].arrival < timestep /\ L[at(i)] # prev_proc
      BY <2>2 DEF Ready
    <2>5. QED BY <2>1, <2>3, <2>4
  <1>10. \A i, k \in 1 .. m : at(i) = at(k) => i = k
    BY <1>2 DEF Shape
  <1>11. \A i, k \in 1 .. m : I[i] = I[k] => i = k
    <2> TAKE i, k \in 1 .. m
    <2> HAVE I[i] = I[k]
    <2>1. at(i) \in 1 .. Len(L) /\ at(k) \in 1 .. Len(L) /\ L[at(i)] = L[at(k)]
      BY <1>8, <1>9
    <2> HIDE DEF at
    <2>2. at(i) = at(k)
      BY <2>1 DEF Ready
    <2>3. QED BY <1>10, <2>2
  <1>12. \A i \in m + 1 .. e : procs[I[i]].arrival = timestep /\ remaining[I[i]] > 0
    <2> TAKE i \in m + 1 .. e
    <2>1. i \in 1 .. Len(I) /\ procs[I[i]].arrival = timestep
      BY <1>2, <1>6 DEF Shape
    <2>2. I[i] \in Process
      BY <1>3, <2>1
    <2>3. remaining[I[i]] = procs[I[i]].service
      BY <1>4, <2>1, <2>2 DEF Counts
    <2>4. QED BY <1>4, <2>1, <2>2, <2>3, Inputs
  <1>13. prev_proc # None => /\ I[e + 1] = prev_proc /\ procs[prev_proc].arrival < timestep
                             /\ remaining[prev_proc] > 0
    BY <1>2 DEF Shape, Ready
  <1>14. \A i \in 1 .. Len(I) : I[i] \in Viable
    <2> TAKE i \in 1 .. Len(I)
    <2>1. I[i] \in Process
      BY <1>3
    <2>2. procs[I[i]].arrival <= timestep /\ remaining[I[i]] > 0
      <3>1. CASE i \in 1 .. m
        BY <1>4, <1>5, <1>9, <2>1, <3>1
      <3>2. CASE i \in m + 1 .. e
        BY <1>4, <1>12, <3>2
      <3>3. CASE i = e + 1 /\ prev_proc # None
        BY <1>4, <1>5, <1>13, <2>1, <3>3
      <3>4. QED BY <1>7, <3>1, <3>2, <3>3
    <2>3. QED BY <2>1, <2>2 DEF Viable
  <1>15. \A i \in m + 1 .. e : i \in 1 .. Len(I)
    BY <1>6
  <1>16. \A i, k \in m + 1 .. e : I[i] = I[k] => i = k
    <2> TAKE i, k \in m + 1 .. e
    <2> HAVE I[i] = I[k]
    <2>1. I[i] \in Nat /\ I[k] \in Nat
      BY <1>3, <1>5, <1>15
    <2>2. ~(i < k) /\ ~(k < i)
      BY <1>2, <2>1 DEF Shape
    <2>3. QED BY <2>2
  <1>17. \A i, k \in 1 .. Len(I) : I[i] = I[k] /\ i <= k => i = k
    <2> TAKE i, k \in 1 .. Len(I)
    <2> HAVE I[i] = I[k] /\ i <= k
    <2>1. CASE k \in 1 .. m
      BY <1>6, <1>11, <2>1
    <2>2. CASE k \in m + 1 .. e
      <3>1. CASE i \in 1 .. m
        BY <1>4, <1>9, <1>12, <2>2, <3>1
      <3>2. CASE i \in m + 1 .. e
        BY <1>16, <2>2, <3>2
      <3>3. QED BY <1>6, <1>7, <2>2, <3>1, <3>2
    <2>3. CASE k = e + 1 /\ prev_proc # None
      <3>1. CASE i \in 1 .. m
        BY <1>9, <1>13, <2>3, <3>1
      <3>2. CASE i \in m + 1 .. e
        BY <1>4, <1>12, <1>13, <2>3, <3>2
      <3>3. QED BY <1>7, <2>3, <3>1, <3>2
    <2>4. QED BY <1>7, <2>1, <2>2, <2>3
  <1>18. \A i, k \in 1 .. Len(I) : I[i] = I[k] => i = k
    <2> TAKE i, k \in 1 .. Len(I)
    <2>1. i <= k \/ k <= i
      OBVIOUS
    <2>2. QED BY <1>17, <2>1
  <1>19. \A k \in Viable : \E i \in 1 .. Len(I) : I[i] = k
    <2> TAKE k \in Viable
    <2>1. k \in Process /\ procs[k].arrival <= timestep /\ remaining[k] > 0
      BY DEF Viable
    <2>2. CASE procs[k].arrival = timestep
      BY <1>2, <1>15, <2>1, <2>2 DEF Shape
    <2>3. CASE procs[k].arrival < timestep /\ k = prev_proc
      <3>1. prev_proc # None
        BY <1>4, <2>1, <2>3, Inputs
      <3>2. e + 1 \in 1 .. Len(I)
        BY <1>6, <3>1
      <3>3. QED BY <1>13, <2>3, <3>1, <3>2
    <2>4. CASE procs[k].arrival < timestep /\ k # prev_proc
      <3>1. PICK n \in 1 .. Len(L) : L[n] = k
        BY <2>1, <2>4 DEF Ready
      <3>2. n # j
        BY <1>2, <1>5, <2>1, <3>1 DEF Shape
      <3>3. PICK i \in 1 .. m : at(i) = n
        <4>1. CASE n < j
          <5>1. n \in 1 .. m /\ at(n) = n
            BY <1>2, <1>4, <4>1 DEF Shape
          <5>2. QED BY <5>1
        <4>2. CASE n > j
          <5>1. n - 1 \in 1 .. m /\ at(n - 1) = n
            BY <1>2, <1>4, <4>2 DEF Shape
          <5>2. QED BY <5>1
        <4>3. QED BY <1>2, <3>2, <4>1, <4>2
      <3>4. I[i] = k /\ i \in 1 .. Len(I)
        <4>1. I[i] = L[at(i)]
          BY <1>9
        <4>2. QED BY <1>6, <3>1, <3>3, <4>1
      <3>5. QED BY <3>4
    <2>5. QED BY <1>4, <1>5, <2>1, <2>2, <2>3, <2>4
  <1>20. QED BY <1>1, <1>14, <1>18, <1>19 DEF I

\* The list is as long as there are processes that may run.
LEMMA ReadyCount ==
  ASSUME Typed, Counts, Ready, phase = "loop"
  PROVE  /\ IsFiniteSet(Viable) /\ Cardinality(Viable) = Len(ReadyList.items)
         /\ Len(ReadyList.items) <= Len(procs)
         /\ Range(ReadyList.items) = Viable
         /\ Len(ReadyList.items) <= ReadyList.capacity
  <1> DEFINE I == ReadyList.items
  <1>1. /\ ReadyList \in Arrays /\ I \in Seq(Process) /\ Len(I) \in Nat
        /\ \A i \in 1 .. Len(I) : I[i] \in Viable
        /\ \A k \in Viable : \E i \in 1 .. Len(I) : I[i] = k
        /\ \A i, j \in 1 .. Len(I) : I[i] = I[j] => i = j
    BY ReadyViable
  <1>2. Len(I) <= ReadyList.capacity
    BY <1>1 DEF Arrays
  <1> HIDE DEF I
  <1>3. Viable = {I[i] : i \in 1 .. Len(I)}
    BY <1>1
  <1>4. IsFiniteSet(Viable) /\ Cardinality(Viable) = Len(I)
    BY <1>1, <1>3, DistinctCount
  <1>5. Viable \in SUBSET Process /\ IsFiniteSet(Process) /\ Cardinality(Process) = Len(procs)
    BY Inputs DEF Viable, Typed
  <1>6. Cardinality(Viable) <= Len(procs)
    BY <1>5, FS_Subset
  <1>7. Range(I) = Viable
    <2>1. DOMAIN I = 1 .. Len(I)
      BY <1>1, LenProperties
    <2>2. QED BY <1>3, <2>1 DEF Range
  <1>8. QED BY <1>2, <1>4, <1>6, <1>7 DEF I

-----------------------------------------------------------------------------
(* A time step.                                                            *)

LEMMA SameProcess ==
  ASSUME procs' = procs
  PROVE  Process' = Process /\ Arrays' = Arrays
  BY DEF Process, Arrays

\* The process that is dispatched is the w-th of the list, and the scheduler
\* has left the list as it was or, of the first, without it.
Leaves(w, left) ==
  /\ w \in 1 .. Len(ReadyList.items)
  /\ left = ReadyList \/ (w = 1 /\ left = my_array_delete(ReadyList, 0))

\* The list after the time step.
LEMMA Left ==
  ASSUME Typed, Counts, Ready, phase = "loop", NEW w, NEW left, Leaves(w, left),
         Dispatch(ReadyList.items[w], left)
  PROVE  LET items == ReadyList.items
             p == items[w]
         IN /\ p \in Viable /\ list' \in Arrays
            /\ \/ list' = ReadyList /\ prev_proc' = None
               \/ /\ w = 1 /\ Len(list'.items) = Len(items) - 1
                  /\ \A i \in 1 .. Len(items) - 1 : list'.items[i] = items[i + 1]
                  /\ prev_proc' = IF remaining'[p] > 0 THEN p ELSE None
  <1> DEFINE R == ReadyList
             p == R.items[w]
  <1>1. R \in Arrays /\ Len(R.items) \in Nat /\ w \in 1 .. Len(R.items) /\ p \in Viable
    BY ReadyViable DEF Leaves
  <1>2. list' = left /\ prev_proc' = IF Len(left.items) + 1 = Len(R.items) /\ remaining'[p] > 0
                                     THEN p ELSE None
    BY DEF Dispatch, my_array_size
  <1>3. CASE left = R
    BY <1>1, <1>2, <1>3
  <1>4. CASE w = 1 /\ left = my_array_delete(R, 0)
    <2>1. 1 \in 1 .. Len(R.items) /\ 1 - 1 = 0
      BY <1>1
    <2>2. /\ left \in Arrays
          /\ Len(left.items) = Len(R.items) - 1
          /\ \A i \in 1 .. Len(R.items) - 1 :
               left.items[i] = IF i < 1 THEN R.items[i] ELSE R.items[i + 1]
      BY <1>1, <1>4, <2>1, Delete
    <2>3. \A i \in 1 .. Len(R.items) - 1 : left.items[i] = R.items[i + 1]
      BY <2>2
    <2>4. QED BY <1>1, <1>2, <1>4, <2>2, <2>3
  <1>5. QED BY <1>1, <1>3, <1>4 DEF Leaves

\* What compute_schedule_ records of a dispatch.
LEMMA DispatchTyped ==
  ASSUME Typed, Counts, Ready, phase = "loop", timestep < MAX_TIMESTEPS - 1,
         NEW w, NEW left, Leaves(w, left), Dispatch(ReadyList.items[w], left),
         user1' \in [Process -> Nat], user2' \in [Process -> Nat], user3' \in [Process -> Nat]
  PROVE  /\ Typed' /\ procs' = procs /\ run' = run /\ phase' = phase
         /\ timestep' = timestep + 1 /\ timestep \in Nat
         /\ ReadyList.items[w] \in Viable
         /\ remaining' = [remaining EXCEPT ![ReadyList.items[w]] = @ - 1]
         /\ proc_names' = Append(proc_names, ReadyList.items[w])
         /\ Len(proc_names') = timestep' /\ Last(proc_names') = ReadyList.items[w]
         /\ proc_names' # <<>>
         /\ \A n \in 1 .. timestep : proc_names'[n] = proc_names[n]
         /\ proc_names'[timestep'] = ReadyList.items[w]
  <1> DEFINE p == ReadyList.items[w]
  <1>1. p \in Viable /\ p \in Process /\ list' \in Arrays
    BY Left DEF Viable
  <1>2. prev_proc' \in Process \cup {None}
    BY <1>1, Left
  <1> HIDE DEF p
  <1>3. /\ procs' = procs /\ run' = run /\ phase' = phase /\ timestep' = timestep + 1
        /\ remaining' = [remaining EXCEPT ![p] = @ - 1] /\ proc_names' = Append(proc_names, p)
    BY DEF Dispatch, p
  <1>4. timestep \in Nat /\ MAX_TIMESTEPS \in Nat /\ proc_names \in Seq(Process)
        /\ Len(proc_names) = timestep /\ remaining \in [Process -> Nat]
    BY Constants DEF Typed, Counts
  <1>5. remaining' \in [Process -> Nat]
    <2>1. remaining[p] \in Nat /\ remaining[p] > 0
      BY <1>1, <1>4 DEF Viable
    <2>2. remaining[p] - 1 \in Nat
      BY <2>1
    <2>3. QED BY <1>1, <1>3, <1>4, <2>2
  <1>6. /\ proc_names' \in Seq(Process) /\ Len(proc_names') = timestep + 1
        /\ \A n \in 1 .. timestep : proc_names'[n] = proc_names[n]
        /\ proc_names'[timestep + 1] = p
    BY <1>1, <1>3, <1>4, AppendProperties
  <1>7. proc_names' # <<>> /\ Last(proc_names') = p
    BY <1>4, <1>6, EmptySeq DEF Last
  <1>8. timestep' \in 0 .. MAX_TIMESTEPS - 1 /\ Len(proc_names') < MAX_TIMESTEPS
    BY <1>3, <1>4, <1>6
  <1>9. Typed'
    BY <1>1, <1>2, <1>3, <1>5, <1>6, <1>8, SameProcess DEF Typed
  <1>10. QED BY <1>1, <1>3, <1>4, <1>6, <1>7, <1>9 DEF p

\* The process dispatched is given one unit of service, nobody else is.
LEMMA DispatchCounts ==
  ASSUME Typed, Counts, Ready, phase = "loop", timestep < MAX_TIMESTEPS - 1,
         NEW w, NEW left, Leaves(w, left), Dispatch(ReadyList.items[w], left),
         user1' \in [Process -> Nat], user2' \in [Process -> Nat], user3' \in [Process -> Nat]
  PROVE  Counts'
  <1> DEFINE p == ReadyList.items[w]
  <1>1. /\ procs' = procs /\ phase' = phase
        /\ timestep' = timestep + 1 /\ timestep \in Nat
        /\ p \in Viable
        /\ remaining' = [remaining EXCEPT ![p] = @ - 1]
        /\ Len(proc_names') = timestep'
        /\ \A n \in 1 .. timestep : proc_names'[n] = proc_names[n]
        /\ proc_names'[timestep'] = p
    BY DispatchTyped
  <1> HIDE DEF p
  <1>2. /\ p \in Process /\ procs[p].arrival <= timestep /\ remaining[p] > 0
        /\ remaining \in [Process -> Nat] /\ Process' = Process /\ procs \in Workloads
        /\ Len(proc_names) = timestep
    BY <1>1, SameProcess DEF Viable, Typed, Counts
  <1>3. \A k \in Process : /\ procs[k].arrival \in Nat /\ procs[k].service \in Nat
                           /\ remaining[k] \in Nat
                           /\ IsFiniteSet(RunsOf(k)) /\ Cardinality(RunsOf(k)) \in Nat
                           /\ Cardinality(RunsOf(k)) + remaining[k] = procs[k].service
    BY <1>2, Inputs, FS_CardinalityType DEF Counts
  <1>4. \A n \in 1 .. timestep + 1 : n \in 1 .. timestep \/ n = timestep + 1
    BY <1>1
  <1>5. \A n \in 1 .. timestep' : procs'[proc_names'[n]].arrival < timestep'
    <2> TAKE n \in 1 .. timestep'
    <2>1. CASE n \in 1 .. timestep
      <3>1. procs[proc_names[n]].arrival < timestep
        BY <2>1 DEF Counts
      <3>2. proc_names[n] \in Process
        BY <1>2, <2>1, ElementOfSeq DEF Typed
      <3>3. QED BY <1>1, <1>3, <2>1, <3>1, <3>2
    <2>2. CASE n = timestep + 1
      BY <1>1, <1>2, <1>3, <2>2
    <2>3. QED BY <1>1, <1>4, <2>1, <2>2
  <1>6. ASSUME NEW k \in Process
        PROVE  /\ IsFiniteSet(RunsOf(k)')
               /\ Cardinality(RunsOf(k)') + remaining'[k] = procs[k].service
               /\ procs[k].arrival >= timestep' => remaining'[k] = procs[k].service
    <2>1. CASE k = p
      <3>1. RunsOf(k)' = RunsOf(k) \cup {timestep + 1}
        <4>1. \A n \in 1 .. timestep + 1 : proc_names'[n] = k <=> (n = timestep + 1 \/ n \in RunsOf(k))
          BY <1>1, <1>2, <1>4, <2>1 DEF RunsOf
        <4>2. RunsOf(k) \subseteq 1 .. timestep + 1 /\ timestep + 1 \in 1 .. timestep + 1
          BY <1>1, <1>2 DEF RunsOf
        <4>3. RunsOf(k)' = {n \in 1 .. timestep + 1 : proc_names'[n] = k}
          BY <1>1 DEF RunsOf
        <4>4. QED BY <4>1, <4>2, <4>3
      <3>2. timestep + 1 \notin RunsOf(k)
        BY <1>1, <1>2 DEF RunsOf
      <3>3. IsFiniteSet(RunsOf(k)') /\ Cardinality(RunsOf(k)') = Cardinality(RunsOf(k)) + 1
        BY <1>3, <3>1, <3>2, FS_AddElement
      <3>4. remaining'[k] = remaining[k] - 1
        BY <1>1, <1>2, <2>1
      <3>5. ~(procs[k].arrival >= timestep')
        BY <1>1, <1>2, <1>3, <2>1
      <3>6. Cardinality(RunsOf(k)') + remaining'[k] = procs[k].service
        <4>1. \A c, r \in Nat : (c + 1) + (r - 1) = c + r
          OBVIOUS
        <4>2. QED BY <1>3, <3>3, <3>4, <4>1
      <3>7. QED BY <3>3, <3>5, <3>6
    <2>2. CASE k # p
      <3>1. RunsOf(k)' = RunsOf(k)
        <4>1. RunsOf(k)' = {n \in 1 .. timestep + 1 : proc_names'[n] = k}
              /\ RunsOf(k) = {n \in 1 .. timestep : proc_names[n] = k}
          BY <1>1, <1>2 DEF RunsOf
        <4>2. \A n \in 1 .. timestep + 1 : proc_names'[n] = k <=> n \in 1 .. timestep /\ proc_names[n] = k
          BY <1>1, <1>4, <2>2
        <4>3. 1 .. timestep \subseteq 1 .. timestep + 1
          BY <1>1
        <4>4. QED BY <4>1, <4>2, <4>3
      <3>2. remaining'[k] = remaining[k]
        BY <1>1, <1>2, <2>2
      <3>3. procs[k].arrival >= timestep' => remaining[k] = procs[k].service
        BY <1>1, <1>3 DEF Counts
      <3>4. QED BY <1>3, <3>1, <3>2, <3>3
    <2>3. QED BY <2>1, <2>2
  <1>7. IsFiniteSet(Served') /\ Cardinality(Served') = timestep'
    <2> DEFINE v == procs[p].service - remaining[p] + 1
               x == <<p, v>>
    <2>1. v \in Nat /\ v >= 1
      BY <1>2, <1>3
    <2>2. x \in Process \X Nat /\ x[1] = p /\ x[2] = v
      BY <1>2, <2>1
    <2>3. x \notin Served
      BY <1>2, <1>3, <2>2 DEF Served
    <2>4. ASSUME NEW u \in Process \X Nat PROVE u \in Served' <=> u \in Served \cup {x}
      <3>1. u[1] \in Process /\ u[2] \in Nat /\ u = <<u[1], u[2]>>
        OBVIOUS
      <3>2. u \in Served <=> u[2] >= 1 /\ u[2] <= procs[u[1]].service - remaining[u[1]]
        BY DEF Served
      <3>3. u \in Served' <=> u[2] >= 1 /\ u[2] <= procs[u[1]].service - remaining'[u[1]]
        BY <1>1, <1>2 DEF Served
      <3>4. CASE u[1] = p
        <4>1. remaining'[u[1]] = remaining[p] - 1
          BY <1>1, <1>2, <3>4
        <4>2. u = x <=> u[2] = v
          BY <3>1, <3>4
        <4>3. u \in Served' <=> u[2] >= 1 /\ u[2] <= v
          BY <1>2, <1>3, <3>3, <3>4, <4>1
        <4>4. u \in Served <=> u[2] >= 1 /\ u[2] <= v - 1
          BY <1>2, <1>3, <3>2, <3>4
        <4> HIDE DEF v, x
        <4>5. u[2] <= v <=> u[2] <= v - 1 \/ u[2] = v
          BY <2>1, <3>1
        <4>6. u \in Served \cup {x} <=> u \in Served \/ u = x
          OBVIOUS
        <4>7. QED BY <2>1, <4>2, <4>3, <4>4, <4>5, <4>6
      <3>5. CASE u[1] # p
        <4>1. remaining'[u[1]] = remaining[u[1]] /\ u # x
          BY <1>1, <1>2, <3>1, <3>5
        <4>2. QED BY <3>2, <3>3, <4>1
      <3>6. QED BY <3>4, <3>5
    <2>5. Served' \subseteq Process \X Nat /\ Served \subseteq Process \X Nat
      BY <1>2 DEF Served
    <2> HIDE DEF x
    <2>6. Served' = Served \cup {x}
      BY <2>2, <2>4, <2>5
    <2>7. IsFiniteSet(Served) /\ Cardinality(Served) = timestep
      BY DEF Counts
    <2>8. QED BY <1>1, <2>3, <2>6, <2>7, FS_AddElement
  <1>8. QED BY <1>1, <1>2, <1>5, <1>6, <1>7 DEF Counts

\* The list that a dispatch leaves is one a time step can begin with.
LEMMA DispatchReady ==
  ASSUME Typed, Counts, Ready, phase = "loop", timestep < MAX_TIMESTEPS - 1,
         NEW w, NEW left, Leaves(w, left), Dispatch(ReadyList.items[w], left),
         user1' \in [Process -> Nat], user2' \in [Process -> Nat], user3' \in [Process -> Nat]
  PROVE  Ready'
  <1> DEFINE I == ReadyList.items
             p == I[w]
             L == list'.items
  <1>1. /\ procs' = procs /\ timestep' = timestep + 1 /\ timestep \in Nat /\ p \in Viable
        /\ remaining' = [remaining EXCEPT ![p] = @ - 1]
        /\ Last(proc_names') = p /\ proc_names' # <<>>
    BY DispatchTyped
  <1>2. /\ I \in Seq(Process) /\ Len(I) \in Nat
        /\ \A i \in 1 .. Len(I) : I[i] \in Viable
        /\ \A k \in Viable : \E i \in 1 .. Len(I) : I[i] = k
        /\ \A i, j \in 1 .. Len(I) : I[i] = I[j] => i = j
    BY ReadyViable
  <1>3. \/ L = I /\ prev_proc' = None
        \/ /\ w = 1 /\ Len(L) = Len(I) - 1
           /\ \A i \in 1 .. Len(I) - 1 : L[i] = I[i + 1]
           /\ prev_proc' = IF remaining'[p] > 0 THEN p ELSE None
    BY Left
  <1>4. w \in 1 .. Len(I)
    BY DEF Leaves
  <1> HIDE DEF I, p, L
  <1>5. /\ Process' = Process /\ procs \in Workloads /\ remaining \in [Process -> Nat]
        /\ None \notin Process
    BY <1>1, SameProcess, Inputs DEF Typed
  <1>6. \A k \in Viable : /\ k \in Process /\ procs[k].arrival <= timestep
                          /\ procs[k].arrival \in Nat
                          /\ remaining[k] \in Nat /\ remaining[k] > 0
    BY <1>5, Inputs DEF Viable
  <1>7. \A k \in Process : remaining'[k] = IF k = p THEN remaining[p] - 1 ELSE remaining[k]
    BY <1>1, <1>5
  <1>8. \A i \in 1 .. Len(L) : L[i] \in Viable /\ L[i] # prev_proc'
    <2>1. CASE L = I /\ prev_proc' = None
      BY <1>2, <1>5, <1>6, <2>1
    <2>2. CASE /\ w = 1 /\ Len(L) = Len(I) - 1
               /\ \A i \in 1 .. Len(I) - 1 : L[i] = I[i + 1]
               /\ prev_proc' = IF remaining'[p] > 0 THEN p ELSE None
      <3> TAKE i \in 1 .. Len(L)
      <3>1. i + 1 \in 1 .. Len(I) /\ L[i] = I[i + 1] /\ i + 1 # 1 /\ 1 \in 1 .. Len(I)
        BY <1>2, <1>4, <2>2
      <3>2. L[i] \in Viable /\ L[i] # p
        BY <1>2, <2>2, <3>1 DEF p
      <3>3. QED BY <1>5, <1>6, <2>2, <3>2
    <2>3. QED BY <1>3, <2>1, <2>2
  <1>9. \A i, j \in 1 .. Len(L) : L[i] = L[j] => i = j
    <2>1. CASE L = I
      BY <1>2, <2>1
    <2>2. CASE Len(L) = Len(I) - 1 /\ \A i \in 1 .. Len(I) - 1 : L[i] = I[i + 1]
      <3> TAKE i, j \in 1 .. Len(L)
      <3> HAVE L[i] = L[j]
      <3>1. i \in 1 .. Len(I) - 1 /\ j \in 1 .. Len(I) - 1
        BY <2>2
      <3>2. I[i + 1] = I[j + 1]
        BY <2>2, <3>1
      <3>3. i + 1 \in 1 .. Len(I) /\ j + 1 \in 1 .. Len(I)
        BY <1>2, <3>1
      <3>4. i + 1 = j + 1
        BY <1>2, <3>2, <3>3
      <3>5. QED BY <3>1, <3>4
    <2>3. QED BY <1>3, <2>1, <2>2
  <1>10. \A i \in 1 .. Len(L) :
            /\ procs'[L[i]].arrival < timestep'
            /\ remaining'[L[i]] = 0 => proc_names' # <<>> /\ Last(proc_names') = L[i]
            /\ L[i] # prev_proc'
    <2> TAKE i \in 1 .. Len(L)
    <2>1. L[i] \in Viable /\ L[i] # prev_proc'
      BY <1>8
    <2>2. procs'[L[i]].arrival < timestep'
      BY <1>1, <1>6, <2>1
    <2>3. remaining'[L[i]] = 0 => L[i] = p
      BY <1>6, <1>7, <2>1
    <2>4. QED BY <1>1, <2>1, <2>2, <2>3
  <1>11. prev_proc' # None => procs'[prev_proc'].arrival < timestep' /\ remaining'[prev_proc'] > 0
    <2> HAVE prev_proc' # None
    <2>1. prev_proc' = p /\ remaining'[p] > 0
      BY <1>3
    <2>2. QED BY <1>1, <1>6, <2>1
  <1>12. \A k \in Process : procs'[k].arrival < timestep' /\ remaining'[k] > 0 =>
            k = prev_proc' \/ \E i \in 1 .. Len(L) : L[i] = k
    <2> TAKE k \in Process
    <2> HAVE procs'[k].arrival < timestep' /\ remaining'[k] > 0
    <2>0. procs[k].arrival \in Nat /\ remaining[k] \in Nat
      BY <1>5, Inputs
    <2>1. remaining[k] > 0
      BY <1>6, <1>7, <2>0, <1>1
    <2>2. procs[k].arrival <= timestep
      BY <1>1, <2>0
    <2>3. k \in Viable
      BY <2>1, <2>2 DEF Viable
    <2>4. PICK i \in 1 .. Len(I) : I[i] = k
      BY <1>2, <2>3
    <2>5. CASE L = I
      BY <2>4, <2>5
    <2>6. CASE /\ w = 1 /\ Len(L) = Len(I) - 1
               /\ \A j \in 1 .. Len(I) - 1 : L[j] = I[j + 1]
               /\ prev_proc' = IF remaining'[p] > 0 THEN p ELSE None
      <3>1. CASE i = 1
        BY <2>4, <2>6, <3>1 DEF p
      <3>2. CASE i # 1
        <4>1. i - 1 \in 1 .. Len(I) - 1 /\ (i - 1) + 1 = i
          BY <1>2, <3>2
        <4>2. i - 1 \in 1 .. Len(L) /\ L[i - 1] = I[(i - 1) + 1]
          BY <2>6, <4>1
        <4>3. QED BY <2>4, <4>1, <4>2
      <3>3. QED BY <3>1, <3>2
    <2>7. QED BY <1>3, <2>5, <2>6
  <1>13. QED BY <1>5, <1>9, <1>10, <1>11, <1>12 DEF Ready, RanLast, L

-----------------------------------------------------------------------------
(* The schedulers that keep the list in the order of arrival.              *)

Sorted ==
  phase = "loop" /\ scheduler \in {"srt", "hpf_preemptive", "hpf_non_preemptive"} =>
    /\ prev_proc = None
    /\ \A i, j \in 1 .. Len(list.items) : i < j => FirstCome(list.items[i], list.items[j])

\* The new arrivals come last, so that the list stays in order.
LEMMA ReadySorted ==
  ASSUME Typed, Counts, Ready, Sorted, phase = "loop",
         scheduler \in {"srt", "hpf_preemptive", "hpf_non_preemptive"}
  PROVE  \A i, k \in 1 .. Len(ReadyList.items) :
            i < k => FirstCome(ReadyList.items[i], ReadyList.items[k])
  <1> DEFINE L == list.items
             I == ReadyList.items
  <1>1. PICK j \in Nat, m \in Nat, e \in Nat : Shape(I, j, m, e)
    BY ReadyShape
  <1>2. /\ procs \in Workloads /\ timestep \in Nat /\ Len(L) \in Nat /\ prev_proc = None
        /\ \A i \in 1 .. Len(I) : I[i] \in Viable
        /\ \A i, k \in 1 .. Len(L) : i < k => FirstCome(L[i], L[k])
    BY ReadyViable, LenProperties, Constants DEF Typed, Arrays, Sorted
  <1> HIDE DEF I, L
  <1>3. \A i \in 1 .. Len(I) : I[i] \in Process /\ I[i] \in Nat /\ procs[I[i]].arrival \in Nat
    BY <1>2, Inputs DEF Viable
  <1>4. Len(I) = e /\ m <= e
    BY <1>1, <1>2 DEF Shape
  <1> DEFINE at(i) == IF i < j THEN i ELSE i + 1
  <1>5. \A i \in 1 .. m : at(i) \in 1 .. Len(L) /\ I[i] = L[at(i)]
    BY <1>1, <1>2 DEF Shape, L
  <1>6. \A i, k \in 1 .. m : i < k => at(i) < at(k)
    BY <1>1
  <1>7. \A i \in 1 .. m : procs[I[i]].arrival < timestep
    <2> HIDE DEF at
    <2>1. QED BY <1>5 DEF Ready, L
  <1>8. \A i \in m + 1 .. e : procs[I[i]].arrival = timestep
    BY <1>1 DEF Shape
  <1>9. Len(I) \in Nat
    BY <1>4
  <1> SUFFICES ASSUME NEW i \in 1 .. Len(I), NEW k \in 1 .. Len(I), i < k
               PROVE  FirstCome(I[i], I[k])
    BY DEF I
  <1>10. CASE k \in 1 .. m
    <2>1. i \in 1 .. m
      BY <1>9, <1>10
    <2>2. at(i) < at(k)
      BY <1>6, <1>10, <2>1
    <2> HIDE DEF at
    <2>3. QED BY <1>2, <1>5, <1>10, <2>1, <2>2
  <1>11. CASE i \in 1 .. m /\ k \in m + 1 .. e
    <2>1. procs[I[i]].arrival < procs[I[k]].arrival
      BY <1>7, <1>8, <1>11
    <2>2. QED BY <2>1 DEF FirstCome
  <1>12. CASE i \in m + 1 .. e /\ k \in m + 1 .. e
    <2>1. I[i] < I[k]
      BY <1>1, <1>12 DEF Shape
    <2>2. I[i] <= I[k] /\ procs[I[i]].arrival = procs[I[k]].arrival
      BY <1>3, <1>8, <1>12, <2>1
    <2>3. QED BY <2>2 DEF FirstCome
  <1>13. QED BY <1>4, <1>9, <1>10, <1>11, <1>12

LEMMA DispatchSorted ==
  ASSUME Typed, Counts, Ready, Sorted, phase = "loop",
         scheduler \in {"srt", "hpf_preemptive", "hpf_non_preemptive"},
         NEW w \in 1 .. Len(ReadyList.items), Dispatch(ReadyList.items[w], ReadyList)
  PROVE  Sorted'
  <1>1. Leaves(w, ReadyList)
    BY DEF Leaves
  <1>2. Len(ReadyList.items) + 1 # Len(ReadyList.items)
    BY ReadyViable
  <1>3. list' = ReadyList /\ prev_proc' = None
    BY <1>2 DEF Dispatch, my_array_size
  <1>4. \A i, k \in 1 .. Len(ReadyList.items) :
            i < k => FirstCome(ReadyList.items[i], ReadyList.items[k])
    BY ReadySorted
  <1>5. procs' = procs
    BY DEF Dispatch
  <1>6. \A i, k \in 1 .. Len(list'.items) : i < k => FirstCome(list.items[i], list.items[k])'
    BY <1>3, <1>4, <1>5 DEF FirstCome
  <1>7. QED BY <1>3, <1>6 DEF Sorted

\* Scan picks the first that came of those with the greatest key.
LEMMA ScanPicks ==
  ASSUME Typed, Counts, Ready, Sorted, phase = "loop",
         scheduler \in {"srt", "hpf_preemptive", "hpf_non_preemptive"},
         Len(ReadyList.items) > 0,
         NEW key \in [Process -> Int], NEW beats,
         \A p, q \in Viable : p \in beats[q] <=> key[p] < key[q]
  PROVE  \E w \in 1 .. Len(ReadyList.items) :
           /\ Scan(ReadyList.items, beats) = ReadyList.items[w]
           /\ \A k \in Viable :
                \/ key[k] < key[ReadyList.items[w]]
                \/ key[k] = key[ReadyList.items[w]] /\ FirstCome(ReadyList.items[w], k)
  <1> DEFINE I == ReadyList.items
  <1>1. /\ I \in Seq(Process) /\ Len(I) \in Nat
        /\ \A i \in 1 .. Len(I) : I[i] \in Viable
        /\ \A k \in Viable : \E i \in 1 .. Len(I) : I[i] = k
    BY ReadyViable
  <1>2. \A i, k \in 1 .. Len(I) : i < k => FirstCome(I[i], I[k])
    BY ReadySorted
  <1>3. Len(I) > 0
    OBVIOUS
  <1> HIDE DEF I
  <1>4. I # <<>>
    BY <1>3, EmptySeq
  <1>5. PICK w \in 1 .. Len(I) : /\ \A i \in 1 .. w - 1 : key[I[i]] < key[I[w]]
                                 /\ \A i \in w + 1 .. Len(I) : key[I[i]] <= key[I[w]]
    BY <1>1, <1>4, FirstBest
  <1>6. \A i \in 1 .. Len(I) : key[I[i]] \in Int
    BY <1>1 DEF Viable
  <1>7. \A i \in 1 .. w - 1 : i \in 1 .. Len(I) /\ I[i] \in beats[I[w]]
    <2> TAKE i \in 1 .. w - 1
    <2>1. i \in 1 .. Len(I)
      BY <1>1
    <2>2. I[i] \in Viable /\ I[w] \in Viable /\ key[I[i]] < key[I[w]]
      BY <1>1, <1>5, <2>1
    <2>3. QED BY <2>1, <2>2
  <1>8. \A i \in w + 1 .. Len(I) : i \in 1 .. Len(I) /\ I[w] \notin beats[I[i]]
    <2> TAKE i \in w + 1 .. Len(I)
    <2>1. i \in 1 .. Len(I)
      BY <1>1
    <2>2. I[i] \in Viable /\ I[w] \in Viable /\ ~(key[I[w]] < key[I[i]])
      BY <1>1, <1>5, <1>6, <2>1
    <2>3. QED BY <2>1, <2>2
  <1>9. Scan(I, beats) = I[w]
    BY <1>1, <1>7, <1>8, ScanWinner
  <1>10. \A k \in Viable : key[k] < key[I[w]] \/ (key[k] = key[I[w]] /\ FirstCome(I[w], k))
    <2> TAKE k \in Viable
    <2>1. PICK i \in 1 .. Len(I) : I[i] = k
      BY <1>1
    <2>2. CASE i < w
      <3>1. i \in 1 .. w - 1
        BY <1>1, <2>2
      <3>2. QED BY <1>5, <2>1, <3>1
    <2>3. CASE i = w
      <3>1. k \in Process /\ procs \in Workloads
        BY DEF Viable, Typed
      <3>2. procs[k].arrival = procs[k].arrival /\ k <= k
        BY <3>1, Inputs
      <3>3. QED BY <2>1, <2>3, <3>2 DEF FirstCome
    <2>4. CASE i > w
      <3>1. i \in w + 1 .. Len(I) /\ w < i
        BY <1>1, <2>4
      <3>2. FirstCome(I[w], k)
        BY <1>2, <2>1, <3>1
      <3>3. QED BY <1>5, <1>6, <2>1, <3>1, <3>2
    <2>5. QED BY <1>1, <2>2, <2>3, <2>4
  <1>11. QED BY <1>9, <1>10 DEF I

\* srt: the key is the remaining time, the least one first.
LEMMA SrtPicks ==
  ASSUME Typed, Counts, Ready, Sorted, phase = "loop", scheduler = "srt",
         Len(ReadyList.items) > 0
  PROVE  \E w \in 1 .. Len(ReadyList.items) :
           LET p == ReadyList.items[w] IN
           /\ Scan(ReadyList.items,
                   [r \in Process |-> {q \in Process : remaining[r] < remaining[q]}]) = p
           /\ \A k \in Viable : \/ remaining[p] < remaining[k]
                                \/ remaining[p] = remaining[k] /\ FirstCome(p, k)
  <1> DEFINE beats == [r \in Process |-> {q \in Process : remaining[r] < remaining[q]}]
             key == [r \in Process |-> 0 - remaining[r]]
  <1>1. \A k \in Viable : k \in Process /\ remaining[k] \in Nat
    BY DEF Viable, Typed
  <1>2. remaining \in [Process -> Nat]
    BY DEF Typed
  <1>3. key \in [Process -> Int]
    BY <1>2
  <1>4. \A p, q \in Viable : p \in beats[q] <=> key[p] < key[q]
    BY <1>1
  <1>5. \A p, k \in Viable : /\ key[k] < key[p] <=> remaining[p] < remaining[k]
                             /\ key[k] = key[p] <=> remaining[p] = remaining[k]
    BY <1>1
  <1> HIDE DEF beats, key
  <1>6. PICK w \in 1 .. Len(ReadyList.items) :
           /\ Scan(ReadyList.items, beats) = ReadyList.items[w]
           /\ \A k \in Viable :
                \/ key[k] < key[ReadyList.items[w]]
                \/ key[k] = key[ReadyList.items[w]] /\ FirstCome(ReadyList.items[w], k)
    BY <1>3, <1>4, ScanPicks
  <1>7. ReadyList.items[w] \in Viable
    BY ReadyViable
  <1>8. \A k \in Viable :
           \/ remaining[ReadyList.items[w]] < remaining[k]
           \/ remaining[ReadyList.items[w]] = remaining[k] /\ FirstCome(ReadyList.items[w], k)
    BY <1>5, <1>6, <1>7
  <1>9. QED BY <1>6, <1>8 DEF beats

\* p has the highest priority, and came first of those that have it.
HighestFirst(p) ==
  \A k \in Viable : \/ HigherPriority(p, k)
                    \/ procs[p].priority = procs[k].priority /\ FirstCome(p, k)

\* The two hpf: the key is the priority.
LEMMA PriorityPicks ==
  ASSUME Typed, Counts, Ready, Sorted, phase = "loop",
         scheduler \in {"srt", "hpf_preemptive", "hpf_non_preemptive"},
         Len(ReadyList.items) > 0, NEW beats,
         \A p, q \in Viable : p \in beats[q] <=> HigherPriority(q, p)
  PROVE  \E w \in 1 .. Len(ReadyList.items) :
           /\ Scan(ReadyList.items, beats) = ReadyList.items[w]
           /\ HighestFirst(ReadyList.items[w])
  <1> DEFINE key == [r \in Process |-> procs[r].priority]
  <1>1. \A k \in Process : procs[k].priority \in Nat
    BY Inputs DEF Typed
  <1>2. \A k \in Viable : k \in Process
    BY DEF Viable
  <1>3. key \in [Process -> Int]
    BY <1>1
  <1>4. \A p, q \in Viable : /\ key[p] < key[q] <=> HigherPriority(q, p)
                             /\ key[p] = key[q] <=> procs[q].priority = procs[p].priority
    BY <1>1, <1>2 DEF HigherPriority
  <1> HIDE DEF key
  <1>5. \A p, q \in Viable : p \in beats[q] <=> key[p] < key[q]
    BY <1>4
  <1>6. PICK w \in 1 .. Len(ReadyList.items) :
           /\ Scan(ReadyList.items, beats) = ReadyList.items[w]
           /\ \A k \in Viable :
                \/ key[k] < key[ReadyList.items[w]]
                \/ key[k] = key[ReadyList.items[w]] /\ FirstCome(ReadyList.items[w], k)
    BY <1>3, <1>5, ScanPicks
  <1>7. ReadyList.items[w] \in Viable
    BY ReadyViable
  <1>8. HighestFirst(ReadyList.items[w])
    BY <1>4, <1>6, <1>7 DEF HighestFirst
  <1>9. QED BY <1>6, <1>8

LEMMA PreemptivePicks ==
  ASSUME Typed, Counts, Ready, Sorted, phase = "loop", scheduler = "hpf_preemptive",
         Len(ReadyList.items) > 0
  PROVE  \E w \in 1 .. Len(ReadyList.items) :
           /\ Scan(ReadyList.items, [p \in Process |-> {q \in Process : HigherPriority(p, q)}])
                = ReadyList.items[w]
           /\ HighestFirst(ReadyList.items[w])
  <1> DEFINE beats == [p \in Process |-> {q \in Process : HigherPriority(p, q)}]
  <1>1. \A p, q \in Viable : p \in beats[q] <=> HigherPriority(q, p)
    BY DEF Viable
  <1> HIDE DEF beats
  <1>2. \E w \in 1 .. Len(ReadyList.items) :
           /\ Scan(ReadyList.items, beats) = ReadyList.items[w]
           /\ HighestFirst(ReadyList.items[w])
    BY <1>1, PriorityPicks
  <1>3. QED BY <1>2 DEF beats

\* In hpf_non_preemptive the mark is with the process that ran last, and who
\* came before it and has not finished has a lower priority.
Marked ==
  phase = "loop" /\ scheduler = "hpf_non_preemptive" =>
    \A k \in Process : remaining[k] > 0 =>
      /\ user1[k] = 1 <=> RanLast(k)
      /\ RanLast(k) => \A q \in Process :
           remaining[q] > 0 /\ q # k /\ FirstCome(q, k) => HigherPriority(k, q)

\* Who ran last and has not finished may run again.
LEMMA LastIsViable ==
  ASSUME Typed, Counts, phase = "loop", NEW k \in Process, remaining[k] > 0, RanLast(k)
  PROVE  k \in Viable
  <1>1. Len(proc_names) \in Nat /\ Len(proc_names) > 0 /\ proc_names[Len(proc_names)] = k
    BY EmptySeq, LenProperties DEF RanLast, Last, Typed
  <1>2. Len(proc_names) \in 1 .. timestep
    BY <1>1 DEF Counts
  <1>3. procs[k].arrival < timestep
    BY <1>1, <1>2 DEF Counts
  <1>4. procs[k].arrival <= timestep
    BY <1>3, Inputs, Constants DEF Typed
  <1>5. QED BY <1>4 DEF Viable

\* hpf_non_preemptive: nobody beats the marked process, and it beats who came
\* before it; without a mark the highest priority wins.
LEMMA NonPreemptivePicks ==
  ASSUME Typed, Counts, Ready, Sorted, Marked, phase = "loop",
         scheduler = "hpf_non_preemptive", Len(ReadyList.items) > 0
  PROVE  \E w \in 1 .. Len(ReadyList.items) :
           LET p == ReadyList.items[w] IN
           /\ Scan(ReadyList.items, [r \in Process |->
                {q \in Process : user1[q] # 1 /\ HigherPriority(r, q)}]) = p
           /\ (RanLast(p) \/ ((\A k \in Process : remaining[k] > 0 => ~RanLast(k)) /\ HighestFirst(p)))
  <1> DEFINE beats == [r \in Process |-> {q \in Process : user1[q] # 1 /\ HigherPriority(r, q)}]
             I == ReadyList.items
  <1>1. /\ I \in Seq(Process) /\ Len(I) \in Nat
        /\ \A i \in 1 .. Len(I) : I[i] \in Viable
        /\ \A k \in Viable : \E i \in 1 .. Len(I) : I[i] = k
        /\ \A i, j \in 1 .. Len(I) : I[i] = I[j] => i = j
    BY ReadyViable
  <1>2. \A k \in Viable : k \in Process /\ remaining[k] > 0
    BY DEF Viable
  <1>3. \A p, q \in Viable : p \in beats[q] <=> user1[p] # 1 /\ HigherPriority(q, p)
    BY <1>2
  <1> HIDE DEF beats
  <1>4. CASE \A k \in Process : remaining[k] > 0 => ~RanLast(k)
    <2>1. \A p \in Viable : user1[p] # 1
      BY <1>2, <1>4 DEF Marked
    <2>2. \A p, q \in Viable : p \in beats[q] <=> HigherPriority(q, p)
      BY <1>3, <2>1
    <2>3. \E w \in 1 .. Len(I) : Scan(I, beats) = I[w] /\ HighestFirst(I[w])
      BY <2>2, PriorityPicks
    <2>4. QED BY <1>4, <2>3 DEF beats
  <1>5. CASE \E k \in Process : remaining[k] > 0 /\ RanLast(k)
    <2>1. PICK k \in Process : remaining[k] > 0 /\ RanLast(k)
      BY <1>5
    <2>2. k \in Viable /\ user1[k] = 1
      BY <2>1, LastIsViable DEF Marked
    <2>3. PICK w \in 1 .. Len(I) : I[w] = k
      BY <1>1, <2>2
    <2>4. \A i, j \in 1 .. Len(I) : i < j => FirstCome(I[i], I[j])
      BY ReadySorted
    <2> HIDE DEF I
    <2>5. \A i \in 1 .. w - 1 : I[i] \in beats[I[w]]
      <3> TAKE i \in 1 .. w - 1
      <3>1. i \in 1 .. Len(I) /\ i < w /\ i # w
        BY <1>1
      <3>2. I[i] # k /\ FirstCome(I[i], k) /\ I[i] \in Viable
        BY <1>1, <2>3, <2>4, <3>1
      <3>3. I[i] \in Process /\ remaining[I[i]] > 0
        BY <1>2, <3>2
      <3>4. HigherPriority(k, I[i])
        BY <2>1, <3>2, <3>3 DEF Marked
      <3>5. ~RanLast(I[i])
        BY <2>1, <3>2 DEF RanLast
      <3>6. user1[I[i]] # 1
        BY <3>3, <3>5 DEF Marked
      <3>7. QED BY <1>3, <2>2, <2>3, <3>2, <3>4, <3>6
    <2>6. \A i \in w + 1 .. Len(I) : I[w] \notin beats[I[i]]
      <3> TAKE i \in w + 1 .. Len(I)
      <3>1. i \in 1 .. Len(I)
        BY <1>1
      <3>2. I[i] \in Viable
        BY <1>1, <3>1
      <3>3. QED BY <1>3, <2>2, <2>3, <3>2
    <2>7. Scan(I, beats) = I[w]
      BY <1>1, <2>5, <2>6, ScanWinner
    <2>8. QED BY <2>1, <2>3, <2>7 DEF I, beats
  <1>6. QED BY <1>4, <1>5

\* The mark goes to the process dispatched.
LEMMA DispatchMarked ==
  ASSUME Typed, Counts, Ready, Sorted, Marked, phase = "loop", timestep < MAX_TIMESTEPS - 1,
         scheduler = "hpf_non_preemptive",
         NEW w \in 1 .. Len(ReadyList.items), Dispatch(ReadyList.items[w], ReadyList),
         \/ RanLast(ReadyList.items[w])
         \/ (\A k \in Process : remaining[k] > 0 => ~RanLast(k)) /\ HighestFirst(ReadyList.items[w]),
         user1' = [user1 EXCEPT ![ReadyList.items[w]] = 1], user2' = user2, user3' = user3
  PROVE  Marked' /\ user1' \in [Process -> Nat]
  <1> DEFINE p == ReadyList.items[w]
  <1>1. p \in Viable /\ p \in Process /\ remaining[p] > 0 /\ procs[p].arrival <= timestep
    BY ReadyViable DEF Viable
  <1>2. user1' \in [Process -> Nat] /\ user2' \in [Process -> Nat] /\ user3' \in [Process -> Nat]
    BY <1>1 DEF Typed
  <1>3. Leaves(w, ReadyList)
    BY DEF Leaves
  <1>4. /\ procs' = procs /\ timestep \in Nat
        /\ remaining' = [remaining EXCEPT ![p] = @ - 1]
        /\ Last(proc_names') = p /\ proc_names' # <<>>
    BY <1>2, <1>3, DispatchTyped
  <1>5. \/ RanLast(p)
        \/ (\A k \in Process : remaining[k] > 0 => ~RanLast(k)) /\ HighestFirst(p)
    OBVIOUS
  <1>6. user1' = [user1 EXCEPT ![p] = 1]
    OBVIOUS
  <1> HIDE DEF p
  <1>7. /\ Process' = Process /\ procs \in Workloads /\ remaining \in [Process -> Nat]
        /\ user1 \in [Process -> Nat]
    BY <1>4, SameProcess DEF Typed
  <1>8. \A k \in Process : remaining'[k] > 0 => remaining[k] > 0
    BY <1>1, <1>4, <1>7
  <1>9. \A k \in Process : RanLast(k)' <=> k = p
    BY <1>4 DEF RanLast
  <1>10. \A k \in Process : remaining[k] > 0 => (user1'[k] = 1 <=> k = p)
    <2> TAKE k \in Process
    <2> HAVE remaining[k] > 0
    <2>1. CASE k = p
      BY <1>6, <1>7, <2>1
    <2>2. CASE k # p
      <3>1. user1'[k] = user1[k]
        BY <1>6, <1>7, <2>2
      <3>2. ~RanLast(k)
        BY <1>5, <2>2 DEF RanLast
      <3>3. QED BY <2>2, <3>1, <3>2 DEF Marked
    <2>3. QED BY <2>1, <2>2
  <1>11. ASSUME NEW q \in Process, remaining[q] > 0, q # p, FirstCome(q, p)
         PROVE  HigherPriority(p, q)
    <2>1. CASE RanLast(p)
      BY <1>1, <1>11, <2>1 DEF Marked
    <2>2. CASE HighestFirst(p)
      <3>1. procs[q].arrival \in Nat /\ procs[p].arrival \in Nat /\ q \in Nat /\ p \in Nat
        BY <1>1, <1>7, Inputs
      <3>2. procs[q].arrival <= timestep
        BY <1>1, <1>4, <1>11, <3>1 DEF FirstCome
      <3>3. q \in Viable
        BY <1>11, <3>2 DEF Viable
      <3>4. ~FirstCome(p, q)
        BY <1>11, <3>1 DEF FirstCome
      <3>5. QED BY <2>2, <3>3, <3>4 DEF HighestFirst
    <2>3. QED BY <1>5, <2>1, <2>2
  <1>12. ASSUME NEW k \in Process, remaining'[k] > 0
         PROVE  /\ user1'[k] = 1 <=> RanLast(k)'
                /\ RanLast(k)' => \A q \in Process :
                     remaining'[q] > 0 /\ q # k /\ FirstCome(q, k)' => HigherPriority(k, q)'
    <2>1. remaining[k] > 0
      BY <1>8, <1>12
    <2>2. user1'[k] = 1 <=> RanLast(k)'
      BY <1>9, <1>10, <2>1
    <2>3. ASSUME k = p, NEW q \in Process, remaining'[q] > 0, q # k, FirstCome(q, k)'
          PROVE  HigherPriority(k, q)'
      <3>1. remaining[q] > 0 /\ q # p
        BY <1>8, <2>3
      <3>2. FirstCome(q, k)
        BY <1>4, <2>3 DEF FirstCome
      <3>3. HigherPriority(k, q)
        BY <1>11, <2>3, <3>1, <3>2
      <3>4. QED BY <1>4, <3>3 DEF HigherPriority
    <2>4. QED BY <1>9, <2>2, <2>3
  <1>13. Marked'
    BY <1>7, <1>12 DEF Marked
  <1>14. QED BY <1>2, <1>13

-----------------------------------------------------------------------------
(* The lottery.                                                            *)

\* The process that has drawn the lot is the one that ran last.
Winner ==
  phase = "loop" /\ scheduler = "lottery" =>
    \A k \in Process : remaining[k] > 0 /\ user1[k] # 0 =>
      user1[k] = 1 /\ user2[k] >= 1 /\ RanLast(k)

\* Working finds a marked process if there is one.
LEMMA WorkingIs ==
  ASSUME NEW items \in Seq(Process)
  PROVE  \/ Working(items) = 0 /\ \A i \in 1 .. Len(items) : user1[items[i]] # 1
         \/ Working(items) \in 1 .. Len(items) /\ user1[items[Working(items)]] = 1
  <1> DEFINE I == {i \in 1 .. Len(items) : user1[items[i]] = 1}
  <1>1. Working(items) = IF I # {} THEN CHOOSE x \in I : \A y \in I : x <= y ELSE 0
    BY DEF Working, SelectInSeq, Min
  <1>2. CASE I = {}
    BY <1>1, <1>2
  <1>3. CASE I # {}
    <2>1. I \subseteq Nat
      OBVIOUS
    <2> HIDE DEF I
    <2>2. PICK n \in I : \A k \in I : ~(k < n)
      BY <1>3, <2>1, LeastNumber
    <2>3. \A k \in I : n <= k
      BY <2>1, <2>2
    <2>4. \E x \in I : \A y \in I : x <= y
      BY <2>3
    <2>5. Working(items) \in I
      BY <1>1, <1>3, <2>4
    <2>6. QED BY <2>5 DEF I
  <1>4. QED BY <1>2, <1>3

\* The winner goes on.
LEMMA ContinuesWins ==
  ASSUME Typed, Counts, Ready, Winner, phase = "loop", timestep < MAX_TIMESTEPS - 1,
         scheduler = "lottery",
         NEW w \in 1 .. Len(ReadyList.items), Dispatch(ReadyList.items[w], ReadyList),
         user1[ReadyList.items[w]] = 1, user1' = user1, user2' = user2, user3' = user3
  PROVE  Winner'
  <1> DEFINE p == ReadyList.items[w]
  <1>1. p \in Viable /\ p \in Process /\ remaining[p] > 0
    BY ReadyViable DEF Viable
  <1>2. user1' \in [Process -> Nat] /\ user2' \in [Process -> Nat] /\ user3' \in [Process -> Nat]
    BY <1>1 DEF Typed
  <1>3. Leaves(w, ReadyList)
    BY DEF Leaves
  <1>4. /\ procs' = procs /\ remaining' = [remaining EXCEPT ![p] = @ - 1]
        /\ Last(proc_names') = p /\ proc_names' # <<>>
    BY <1>2, <1>3, DispatchTyped
  <1>5. user1[p] = 1
    OBVIOUS
  <1> HIDE DEF p
  <1>6. Process' = Process /\ remaining \in [Process -> Nat]
    BY <1>4, SameProcess DEF Typed
  <1>7. \A k \in Process : remaining'[k] > 0 => remaining[k] > 0
    BY <1>1, <1>4, <1>6
  <1>8. RanLast(p)
    BY <1>1, <1>5 DEF Winner
  <1>9. \A k \in Process : remaining[k] > 0 /\ user1[k] # 0 => user1[k] = 1 /\ user2[k] >= 1 /\ k = p
    BY <1>8 DEF Winner, RanLast
  <1>10. QED BY <1>4, <1>6, <1>7, <1>9 DEF Winner, RanLast

\* A drawing makes a winner, if those who lost their mark have lost it.
LEMMA DrawWins ==
  ASSUME Typed, Counts, Ready, phase = "loop", timestep < MAX_TIMESTEPS - 1,
         scheduler = "lottery",
         NEW u1 \in [Process -> Nat], NEW u2 \in [Process -> Nat], NEW u3 \in [Process -> Nat],
         \A k \in Process : remaining[k] > 0 => u1[k] = 0,
         Draw(u1, u2, u3)
  PROVE  \E w \in 1 .. Len(ReadyList.items) :
           /\ Dispatch(ReadyList.items[w], ReadyList)
           /\ user1' \in [Process -> Nat] /\ user2' \in [Process -> Nat] /\ user3' \in [Process -> Nat]
           /\ Winner'
  <1> DEFINE I == ReadyList.items
  <1>1. I \in Seq(Process) /\ DOMAIN I = 1 .. Len(I) /\ \A i \in 1 .. Len(I) : I[i] \in Viable
    BY ReadyViable, LenProperties
  <1>2. PICK w \in 1 .. Len(I) :
           /\ user1' = [u1 EXCEPT ![I[w]] = 1]
           /\ user2' = [u2 EXCEPT ![I[w]] = @ + 1]
           /\ user3' = [p \in Process |-> IF p \in Range(I) THEN 0 ELSE u3[p]]
           /\ Dispatch(I[w], ReadyList)
    BY <1>1 DEF Draw
  <1> DEFINE p == I[w]
  <1>3. p \in Viable /\ p \in Process /\ remaining[p] > 0
    BY <1>1 DEF Viable
  <1>4. user1' \in [Process -> Nat] /\ user2' \in [Process -> Nat] /\ user3' \in [Process -> Nat]
    <2> HIDE DEF I
    <2>1. QED BY <1>2, <1>3
  <1>5. Leaves(w, ReadyList)
    BY DEF Leaves
  <1>6. /\ procs' = procs /\ remaining' = [remaining EXCEPT ![p] = @ - 1]
        /\ Last(proc_names') = p /\ proc_names' # <<>>
    BY <1>2, <1>4, <1>5, DispatchTyped
  <1>7. user1' = [u1 EXCEPT ![p] = 1] /\ user2' = [u2 EXCEPT ![p] = @ + 1]
    BY <1>2
  <1> HIDE DEF p
  <1>8. Process' = Process /\ remaining \in [Process -> Nat]
    BY <1>6, SameProcess DEF Typed
  <1>9. \A k \in Process : remaining'[k] > 0 => remaining[k] > 0
    BY <1>3, <1>6, <1>8
  <1>10. \A k \in Process : remaining[k] > 0 /\ user1'[k] # 0 => k = p
    BY <1>7
  <1>11. user1'[p] = 1 /\ user2'[p] >= 1
    BY <1>3, <1>7
  <1>12. Winner'
    BY <1>6, <1>8, <1>9, <1>10, <1>11 DEF Winner, RanLast
  <1>13. QED BY <1>2, <1>4, <1>12

-----------------------------------------------------------------------------
(* Waiting.                                                                *)

LEMMA GreatestOf ==
  ASSUME NEW S, S \subseteq Nat, NEW m \in S, \A n \in S : n <= m
  PROVE  (CHOOSE n \in S : \A k \in S : k <= n) = m
  <1> DEFINE c == CHOOSE n \in S : \A k \in S : k <= n
  <1>1. c \in S /\ \A k \in S : k <= c
    <2>1. \E n \in S : \A k \in S : k <= n
      OBVIOUS
    <2>2. QED BY <2>1, Zenon
  <1> HIDE DEF c
  <1>2. c <= m /\ m <= c /\ c \in Nat /\ m \in Nat
    BY <1>1
  <1>3. c = m
    BY <1>2
  <1>4. QED BY <1>3 DEF c

\* The times since which k may have been waiting.
Since(k) == {procs[k].arrival} \cup RunsOf(k)

LEMMA WaitedSince ==
  ASSUME NEW k
  PROVE  Waited(k) = timestep - (CHOOSE n \in Since(k) : \A m \in Since(k) : m <= n)
  BY DEF Waited, Since, RunsOf

\* There is a latest time since which a process has been waiting.
LEMMA SinceThen ==
  ASSUME Typed, Counts, phase = "loop", NEW k \in Process, procs[k].arrival <= timestep
  PROVE  \E m \in Since(k) : /\ \A n \in Since(k) : n <= m
                             /\ Since(k) \subseteq Nat /\ m <= timestep
                             /\ Waited(k) = timestep - m
  <1>1. procs[k].arrival \in Nat /\ timestep \in Nat /\ Len(proc_names) = timestep
    BY Inputs, Constants DEF Typed, Counts
  <1>2. Since(k) \subseteq Nat /\ Since(k) # {} /\ \A n \in Since(k) : n <= timestep
    BY <1>1 DEF Since, RunsOf
  <1>3. PICK m \in Since(k) : \A n \in Since(k) : n <= m
    BY <1>1, <1>2, GreatestNumber
  <1>4. Waited(k) = timestep - m
    BY <1>2, <1>3, WaitedSince, GreatestOf
  <1>5. QED BY <1>2, <1>3, <1>4

LEMMA WaitedType ==
  ASSUME Typed, Counts, phase = "loop", NEW k \in Process, procs[k].arrival <= timestep
  PROVE  Waited(k) \in Nat
  <1>1. timestep \in Nat
    BY Constants DEF Typed
  <1>2. QED BY <1>1, SinceThen

LEMMA WaitedNow ==
  ASSUME Typed, Counts, phase = "loop", NEW k \in Process, procs[k].arrival = timestep
  PROVE  Waited(k) = 0
  <1>1. timestep \in Nat /\ procs[k].arrival \in Since(k)
    BY Constants DEF Typed, Since
  <1>2. PICK m \in Since(k) : /\ \A n \in Since(k) : n <= m
                              /\ Since(k) \subseteq Nat /\ m <= timestep
                              /\ Waited(k) = timestep - m
    BY <1>1, SinceThen
  <1>3. m = timestep
    BY <1>1, <1>2
  <1>4. QED BY <1>1, <1>2, <1>3

\* Who runs has not been waiting, the others wait for one time step more.
LEMMA WaitedStep ==
  ASSUME Typed, Counts, Ready, phase = "loop", timestep < MAX_TIMESTEPS - 1,
         NEW w, NEW left, Leaves(w, left), Dispatch(ReadyList.items[w], left),
         user1' \in [Process -> Nat], user2' \in [Process -> Nat], user3' \in [Process -> Nat]
  PROVE  /\ \A k \in Process : k = ReadyList.items[w] => Waited(k)' = 0
         /\ \A k \in Viable : k # ReadyList.items[w] => Waited(k)' = Waited(k) + 1
  <1> DEFINE p == ReadyList.items[w]
  <1>1. /\ procs' = procs /\ timestep' = timestep + 1 /\ timestep \in Nat
        /\ Len(proc_names') = timestep' /\ p \in Viable
        /\ \A n \in 1 .. timestep : proc_names'[n] = proc_names[n]
        /\ proc_names'[timestep'] = p
    BY DispatchTyped
  <1> HIDE DEF p
  <1>2. Len(proc_names) = timestep /\ procs \in Workloads /\ p \in Process
    BY <1>1 DEF Typed, Counts, Viable
  <1>3. \A n \in 1 .. timestep + 1 : n \in 1 .. timestep \/ n = timestep + 1
    BY <1>1
  <1>4. ASSUME NEW k PROVE Waited(k)' = timestep' - (CHOOSE n \in Since(k)' : \A m \in Since(k)' : m <= n)
    BY DEF Waited, Since, RunsOf
  <1>5. ASSUME NEW k \in Process, k = p PROVE Waited(k)' = 0
    <2>1. procs[k].arrival \in Nat /\ procs[k].arrival <= timestep
      BY <1>1, <1>2, <1>5, Inputs DEF Viable
    <2>2. \E S : /\ Since(k)' = S /\ S \subseteq Nat
                 /\ timestep + 1 \in S /\ \A n \in S : n <= timestep + 1
      <3> DEFINE runs == {n \in 1 .. timestep + 1 : proc_names'[n] = k}
      <3>1. Since(k)' = {procs[k].arrival} \cup runs
        BY <1>1 DEF Since, RunsOf
      <3>2. timestep + 1 \in runs
        BY <1>1, <1>5
      <3>3. runs \subseteq Nat /\ \A n \in runs : n <= timestep + 1
        BY <1>1
      <3> HIDE DEF runs
      <3>4. procs[k].arrival <= timestep + 1
        BY <1>1, <2>1
      <3> DEFINE T == {procs[k].arrival} \cup runs
      <3>5. T \subseteq Nat /\ timestep + 1 \in T
        BY <2>1, <3>2, <3>3
      <3>6. \A n \in T : n <= timestep + 1
        BY <3>3, <3>4
      <3> HIDE DEF T
      <3>7. Since(k)' = T
        BY <3>1 DEF T
      <3>8. QED BY <3>5, <3>6, <3>7
    <2>3. PICK S : /\ Since(k)' = S /\ S \subseteq Nat
                   /\ timestep + 1 \in S /\ \A n \in S : n <= timestep + 1
      BY <2>2
    <2>4. (CHOOSE n \in S : \A m \in S : m <= n) = timestep + 1
      BY <2>3, GreatestOf
    <2>5. Waited(k)' = timestep' - (CHOOSE n \in S : \A m \in S : m <= n)
      BY <1>4, <2>3
    <2>6. Waited(k)' = timestep' - (timestep + 1)
      BY <2>4, <2>5, Zenon
    <2>7. QED BY <1>1, <2>6
  <1>6. ASSUME NEW k \in Viable, k # p PROVE Waited(k)' = Waited(k) + 1
    <2>1. Since(k)' = Since(k)
      <3>1. /\ Since(k)' = {procs[k].arrival} \cup {n \in 1 .. timestep + 1 : proc_names'[n] = k}
            /\ Since(k) = {procs[k].arrival} \cup {n \in 1 .. timestep : proc_names[n] = k}
        BY <1>1, <1>2 DEF Since, RunsOf
      <3>2. \A n \in 1 .. timestep + 1 : proc_names'[n] = k <=> n \in 1 .. timestep /\ proc_names[n] = k
        BY <1>1, <1>3, <1>6
      <3>3. 1 .. timestep \subseteq 1 .. timestep + 1
        BY <1>1
      <3>4. {n \in 1 .. timestep + 1 : proc_names'[n] = k} = {n \in 1 .. timestep : proc_names[n] = k}
        BY <3>2, <3>3
      <3>5. QED BY <3>1, <3>4
    <2>2. k \in Process /\ procs[k].arrival <= timestep
      BY DEF Viable
    <2>3. PICK m \in Since(k) : /\ \A n \in Since(k) : n <= m
                                /\ Since(k) \subseteq Nat
                                /\ Waited(k) = timestep - m
      BY <2>2, SinceThen
    <2>4. (CHOOSE n \in Since(k) : \A j \in Since(k) : j <= n) = m
      BY <2>3, GreatestOf
    <2>5. Waited(k)' = timestep' - m
      BY <1>4, <2>1, <2>4
    <2>6. m \in Nat
      BY <2>3
    <2>7. QED BY <1>1, <2>3, <2>5, <2>6
  <1>7. QED BY <1>5, <1>6 DEF p

-----------------------------------------------------------------------------
(* Round robin.                                                            *)

\* A process has waited no longer than there are places behind it.
Turns ==
  phase = "loop" /\ scheduler = "round_robin" =>
    /\ \A k \in Process : \A i \in 1 .. Len(list.items) :
         list.items[i] = k => remaining[k] > 0 /\ Waited(k) + i <= Len(procs)
    /\ \A k \in Process : prev_proc = k => Waited(k) = 0

\* What Turns means for the list of a time step.
LEMMA ReadyTurns ==
  ASSUME Typed, Counts, Ready, Turns, phase = "loop", scheduler = "round_robin"
  PROVE  \A i \in 1 .. Len(ReadyList.items) : Waited(ReadyList.items[i]) + i <= Len(procs)
  <1> DEFINE L == list.items
             I == ReadyList.items
  <1>1. PICK j \in Nat, m \in Nat, e \in Nat : Shape(I, j, m, e)
    BY ReadyShape
  <1>2. /\ I \in Seq(Process) /\ Len(I) \in Nat /\ Len(I) <= Len(procs) /\ Len(procs) \in Nat
        /\ \A i \in 1 .. Len(I) : I[i] \in Process
    BY ReadyViable, ReadyCount, Inputs DEF Typed, Viable
  <1>3. L \in Seq(Process) /\ Len(L) \in Nat /\ \A i \in 1 .. Len(L) : L[i] \in Process
    BY LenProperties, ElementOfSeq DEF Typed, Arrays
  <1> HIDE DEF I, L
  <1>4. \A i \in 1 .. Len(L) : remaining[L[i]] > 0 /\ Waited(L[i]) + i <= Len(procs)
    BY <1>3 DEF Turns, L
  <1>5. \A i \in 1 .. Len(L) : remaining[L[i]] # 0
    <2>1. \A k \in Process : remaining[k] \in Nat
      BY DEF Typed
    <2>2. QED BY <1>3, <1>4, <2>1
  <1>6. j = Len(L) + 1 /\ m = Len(L)
    BY <1>1, <1>3, <1>5 DEF Shape, L
  <1>7. \A i \in 1 .. m : I[i] = L[i]
    BY <1>1, <1>6 DEF Shape, L
  <1>8. SUFFICES ASSUME NEW i \in 1 .. Len(I) PROVE Waited(I[i]) + i <= Len(procs)
    BY DEF I
  <1>9. CASE i \in 1 .. m
    BY <1>4, <1>6, <1>7, <1>9
  <1>10. CASE i \in m + 1 .. e
    <2>1. procs[I[i]].arrival = timestep
      BY <1>1, <1>10 DEF Shape
    <2>2. Waited(I[i]) = 0
      BY <1>2, <2>1, WaitedNow
    <2>3. QED BY <1>2, <2>2
  <1>11. CASE i = e + 1 /\ prev_proc # None
    <2>1. I[i] = prev_proc
      BY <1>1, <1>11 DEF Shape
    <2>2. Waited(I[i]) = 0
      BY <1>2, <2>1 DEF Turns
    <2>3. QED BY <1>2, <2>2
  <1>12. m <= e /\ Len(I) = IF prev_proc = None THEN e ELSE e + 1
    BY <1>1 DEF Shape
  <1>13. QED BY <1>9, <1>10, <1>11, <1>12

\* Who runs goes to the end, the others come one place forward.
LEMMA DispatchTurns ==
  ASSUME Typed, Counts, Ready, Turns, phase = "loop", timestep < MAX_TIMESTEPS - 1,
         scheduler = "round_robin", Len(ReadyList.items) > 0,
         Dispatch(ReadyList.items[1], my_array_delete(ReadyList, 0)),
         user1' = user1, user2' = user2, user3' = user3
  PROVE  Turns'
  <1> DEFINE I == ReadyList.items
             p == I[1]
             L == list'.items
             left == my_array_delete(ReadyList, 0)
  <1>1. /\ I \in Seq(Process) /\ Len(I) \in Nat /\ 1 \in 1 .. Len(I)
        /\ \A i \in 1 .. Len(I) : I[i] \in Viable
        /\ \A i, j \in 1 .. Len(I) : I[i] = I[j] => i = j
    BY ReadyViable
  <1>2. Leaves(1, left)
    BY <1>1 DEF Leaves
  <1>3. user1' \in [Process -> Nat] /\ user2' \in [Process -> Nat] /\ user3' \in [Process -> Nat]
    BY DEF Typed
  <1>4. Dispatch(I[1], left)
    OBVIOUS
  <1> HIDE DEF left
  <1>5. procs' = procs /\ remaining' = [remaining EXCEPT ![p] = @ - 1]
    BY <1>2, <1>3, <1>4, DispatchTyped
  <1>6. \/ list' = ReadyList /\ prev_proc' = None
        \/ /\ Len(L) = Len(I) - 1
           /\ \A i \in 1 .. Len(I) - 1 : L[i] = I[i + 1]
           /\ prev_proc' = IF remaining'[p] > 0 THEN p ELSE None
    BY <1>2, <1>4, Left
  <1>7. list' # ReadyList
    <2>1. list' = left /\ Len(left.items) = Len(I) - 1
      <3>1. 1 - 1 = 0 /\ ReadyList \in Arrays
        BY ReadyViable
      <3>2. Len(my_array_delete(ReadyList, 1 - 1).items) = Len(I) - 1
        BY <1>1, <3>1, Delete
      <3>3. QED BY <3>1, <3>2 DEF Dispatch, left
    <2>2. QED BY <1>1, <2>1
  <1>8. /\ \A k \in Process : k = p => Waited(k)' = 0
        /\ \A k \in Viable : k # p => Waited(k)' = Waited(k) + 1
    BY <1>2, <1>3, <1>4, WaitedStep
  <1>9. \A i \in 1 .. Len(I) : Waited(I[i]) + i <= Len(procs)
    BY ReadyTurns
  <1>10. /\ Process' = Process /\ remaining \in [Process -> Nat] /\ Len(procs) \in Nat
         /\ None \notin Process
    BY <1>5, SameProcess, Inputs DEF Typed
  <1> HIDE DEF I, p, L
  <1>11. ASSUME NEW k \in Process, NEW i \in 1 .. Len(L), L[i] = k
         PROVE  remaining'[k] > 0 /\ Waited(k)' + i <= Len(procs)
    <2>1. i \in 1 .. Len(I) - 1 /\ i + 1 \in 1 .. Len(I) /\ k = I[i + 1] /\ i \in Nat
      BY <1>1, <1>6, <1>7, <1>11
    <2>2. k \in Viable /\ k # p
      <3>1. i + 1 # 1
        BY <2>1
      <3>2. QED BY <1>1, <2>1, <3>1 DEF p
    <2>3. remaining'[k] > 0
      BY <1>5, <1>10, <2>2 DEF Viable
    <2>4. Waited(k) \in Nat
      BY <2>2, WaitedType DEF Viable
    <2>5. Waited(k)' = Waited(k) + 1 /\ Waited(k) + (i + 1) <= Len(procs)
      BY <1>8, <1>9, <2>1, <2>2
    <2>6. QED BY <1>10, <2>1, <2>3, <2>4, <2>5
  <1>12. \A k \in Process : prev_proc' = k => Waited(k)' = 0
    BY <1>6, <1>7, <1>8, <1>10
  <1>13. QED BY <1>5, <1>10, <1>11, <1>12 DEF Turns, L

\* Multiples of the quantum.
LEMMA Products ==
  ASSUME NEW q \in Nat
  PROVE  /\ \A i \in Int : (i - 1) * q = i * q - q /\ (i + 1) * q = i * q + q
         /\ \A a, b \in Int : a <= b => a * q <= b * q
         /\ \A a \in Int : a * q \in Int
  <1>1. \A i \in Int : (i - 1) * q = i * q - q /\ (i + 1) * q = i * q + q
    OBVIOUS
  <1>2. \A a, b \in Int : a <= b => a * q <= b * q
    <2> TAKE a, b \in Int
    <2> HAVE a <= b
    <2>1. b * q - a * q = (b - a) * q
      OBVIOUS
    <2>2. (b - a) * q >= 0
      <3>1. b - a \in Nat
        OBVIOUS
      <3>2. \A n, m \in Nat : n * m >= 0
        OBVIOUS
      <3>3. QED BY <3>1, <3>2
    <2>3. a * q \in Int /\ b * q \in Int
      OBVIOUS
    <2>4. QED BY <2>1, <2>2, <2>3
  <1>3. QED BY <1>1, <1>2

\* How long the process at place i of the list may have been waiting, when
\* the first one has used so much of its quantum.
Turn(i, used) == (Len(procs) - 1) * RoundRobinQuantum + used - (i - 1) * RoundRobinQuantum

\* With a quantum: the process that is using it is the first of the list, and
\* nobody has waited for longer than the quanta of those before it leave.
Quantum ==
  phase = "loop" /\ scheduler = "round_robin_q4" =>
    /\ \A k \in Process : user1[k] < RoundRobinQuantum
    /\ \A k \in Process : remaining[k] > 0 /\ user1[k] > 0 =>
         Len(list.items) > 0 /\ list.items[1] = k /\ Waited(k) = 0
    /\ \A k \in Process : \A i \in 1 .. Len(list.items) :
         list.items[i] = k => /\ i > 1 => remaining[k] > 0
                              /\ Waited(k) <= Turn(i, user1[list.items[1]])
    /\ \A k \in Process : prev_proc = k => Waited(k) = 0

\* What Quantum means for the list of a time step.
LEMMA ReadyQuantum ==
  ASSUME Typed, Counts, Ready, Quantum, phase = "loop", scheduler = "round_robin_q4"
  PROVE  /\ \A k \in Process : remaining[k] > 0 /\ user1[k] > 0 =>
              Len(ReadyList.items) > 0 /\ ReadyList.items[1] = k /\ Waited(k) = 0
         /\ \A i \in 1 .. Len(ReadyList.items) :
              Waited(ReadyList.items[i]) <= Turn(i, user1[ReadyList.items[1]])
  <1> DEFINE L == list.items
             I == ReadyList.items
             Q == RoundRobinQuantum
             N == Len(procs)
  <1>1. PICK j \in Nat, m \in Nat, e \in Nat : Shape(I, j, m, e)
    BY ReadyShape
  <1>2. /\ I \in Seq(Process) /\ Len(I) \in Nat /\ Len(I) <= N /\ N \in Nat
        /\ \A i \in 1 .. Len(I) : I[i] \in Process
    BY ReadyViable, ReadyCount, Inputs DEF Typed, Viable
  <1>3. L \in Seq(Process) /\ Len(L) \in Nat /\ \A i \in 1 .. Len(L) : L[i] \in Process
    BY LenProperties, ElementOfSeq DEF Typed, Arrays
  <1>4. Q \in Nat /\ Q > 0
    BY Constants
  <1> HIDE DEF I, L, N
  <1>5. \A k \in Process : /\ user1[k] \in Nat /\ user1[k] < Q /\ remaining[k] \in Nat
                           /\ procs[k].arrival \in Nat
    BY Inputs DEF Typed, Quantum
  <1>6. \A i \in 1 .. Len(L) : /\ i > 1 => remaining[L[i]] > 0
                               /\ Waited(L[i]) <= Turn(i, user1[L[1]])
    BY <1>3 DEF Quantum, L
  <1>7. \A k \in Process : remaining[k] > 0 /\ user1[k] > 0 =>
           Len(L) > 0 /\ L[1] = k /\ Waited(k) = 0
    BY DEF Quantum, L
  <1>8. /\ \A i \in Int : (i - 1) * Q = i * Q - Q /\ (i + 1) * Q = i * Q + Q
        /\ \A a, b \in Int : a <= b => a * Q <= b * Q
        /\ \A a \in Int : a * Q \in Int
    BY <1>4, Products
  <1>9. m <= e /\ Len(I) = IF prev_proc = None THEN e ELSE e + 1
    BY <1>1 DEF Shape
  <1>10. ASSUME NEW i \in 1 .. Len(I), ~(i \in 1 .. m)
         PROVE  Waited(I[i]) <= Turn(i, user1[I[1]])
    <2>1. Waited(I[i]) = 0
      <3>1. CASE i \in m + 1 .. e
        <4>1. procs[I[i]].arrival = timestep
          BY <1>1, <3>1 DEF Shape
        <4>2. QED BY <1>2, <4>1, WaitedNow
      <3>2. CASE i = e + 1 /\ prev_proc # None
        <4>1. I[i] = prev_proc
          BY <1>1, <3>2 DEF Shape
        <4>2. QED BY <1>2, <4>1 DEF Quantum
      <3>3. QED BY <1>9, <1>10, <3>1, <3>2
    <2>2. i - 1 <= N - 1 /\ i - 1 \in Int /\ N - 1 \in Int
      BY <1>2
    <2>3. (i - 1) * Q <= (N - 1) * Q /\ (i - 1) * Q \in Int /\ (N - 1) * Q \in Int
      BY <1>8, <2>2
    <2>4. user1[I[1]] \in Nat
      <3>1. 1 \in 1 .. Len(I)
        BY <1>2
      <3>2. QED BY <1>2, <1>5, <3>1
    <2>5. QED BY <2>1, <2>3, <2>4 DEF Turn, N
  <1>11. CASE j = Len(L) + 1
    <2>1. m = Len(L) /\ \A i \in 1 .. m : I[i] = L[i]
      BY <1>1, <1>3, <1>11 DEF Shape, L
    <2>2. ASSUME NEW i \in 1 .. Len(I) PROVE Waited(I[i]) <= Turn(i, user1[I[1]])
      <3>1. CASE i \in 1 .. m
        <4>1. 1 \in 1 .. m
          BY <3>1
        <4>2. I[1] = L[1] /\ I[i] = L[i] /\ i \in 1 .. Len(L)
          BY <2>1, <3>1, <4>1
        <4>3. QED BY <1>6, <4>2
      <3>2. CASE ~(i \in 1 .. m)
        BY <1>10, <3>2
      <3>3. QED BY <3>1, <3>2
    <2>3. ASSUME NEW k \in Process, remaining[k] > 0 /\ user1[k] > 0
          PROVE  Len(I) > 0 /\ I[1] = k /\ Waited(k) = 0
      <3>1. Len(L) > 0 /\ L[1] = k /\ Waited(k) = 0
        BY <1>7, <2>3
      <3>2. 1 \in 1 .. m /\ Len(I) > 0
        BY <1>3, <1>9, <2>1, <3>1
      <3>3. QED BY <2>1, <3>1, <3>2
    <2>4. QED BY <2>2, <2>3 DEF I
  <1>12. CASE j <= Len(L)
    <2>1. remaining[L[j]] = 0 /\ j \in 1 .. Len(L)
      BY <1>1, <1>3, <1>12 DEF Shape, L
    <2>2. j = 1
      BY <1>3, <1>6, <2>1
    <2>3. m = Len(L) - 1 /\ \A i \in 1 .. m : I[i] = L[i + 1]
      BY <1>1, <1>3, <1>12, <2>2 DEF Shape, L
    <2>4. ASSUME NEW i \in 1 .. Len(I) PROVE Waited(I[i]) <= Turn(i, user1[I[1]])
      <3>1. CASE i \in 1 .. m
        <4>1. i + 1 \in 1 .. Len(L) /\ I[i] = L[i + 1] /\ 1 \in 1 .. Len(I) /\ 1 \in 1 .. Len(L)
          BY <1>2, <1>3, <2>3, <3>1
        <4>2. Waited(L[i + 1]) <= Turn(i + 1, user1[L[1]])
          BY <1>6, <4>1
        <4>3. user1[L[1]] \in Nat /\ user1[L[1]] < Q /\ user1[I[1]] \in Nat
          BY <1>2, <1>3, <1>5, <4>1
        <4>4. Waited(I[i]) \in Nat
          <5>1. procs[I[i]].arrival <= timestep
            BY <4>1, ReadyViable DEF I, Viable
          <5>2. QED BY <1>2, <4>1, <5>1, WaitedType
        <4>5. /\ ((i + 1) - 1) * Q = (i - 1) * Q + Q
              /\ (i - 1) * Q \in Int /\ (N - 1) * Q \in Int
          <5>1. (i + 1) - 1 = (i - 1) + 1 /\ i - 1 \in Int /\ N - 1 \in Int
            BY <1>2
          <5>2. QED BY <1>8, <5>1
        <4>6. QED BY <1>4, <4>1, <4>2, <4>3, <4>4, <4>5 DEF Turn, N
      <3>2. CASE ~(i \in 1 .. m)
        BY <1>10, <3>2
      <3>3. QED BY <3>1, <3>2
    <2>5. \A k \in Process : ~(remaining[k] > 0 /\ user1[k] > 0)
      BY <1>7, <2>1, <2>2
    <2>6. QED BY <2>4, <2>5 DEF I
  <1>13. j \in 1 .. Len(L) + 1
    BY <1>1 DEF Shape, L
  <1>14. QED BY <1>3, <1>11, <1>12, <1>13

\* The first process uses one more unit of its quantum or leaves the list.
LEMMA DispatchQuantum ==
  ASSUME Typed, Counts, Ready, Quantum, phase = "loop", timestep < MAX_TIMESTEPS - 1,
         scheduler = "round_robin_q4", Len(ReadyList.items) > 0,
         NEW left, NEW used, used = user1[ReadyList.items[1]] + 1,
         Dispatch(ReadyList.items[1], left),
         \/ /\ used = RoundRobinQuantum /\ left = my_array_delete(ReadyList, 0)
            /\ user1' = [user1 EXCEPT ![ReadyList.items[1]] = 0]
         \/ /\ used # RoundRobinQuantum /\ left = ReadyList
            /\ user1' = [user1 EXCEPT ![ReadyList.items[1]] = used],
         user2' = user2, user3' = user3
  PROVE  /\ Quantum' /\ Leaves(1, left)
         /\ user1' \in [Process -> Nat] /\ user2' \in [Process -> Nat] /\ user3' \in [Process -> Nat]
  <1> DEFINE I == ReadyList.items
             p == I[1]
             L == list'.items
             Q == RoundRobinQuantum
             N == Len(procs)
  <1>1. /\ I \in Seq(Process) /\ Len(I) \in Nat /\ 1 \in 1 .. Len(I)
        /\ \A i \in 1 .. Len(I) : I[i] \in Viable
        /\ \A i, j \in 1 .. Len(I) : I[i] = I[j] => i = j
    BY ReadyViable
  <1>2. Leaves(1, left)
    BY <1>1 DEF Leaves
  <1>3. p \in Process /\ p \in Viable
    BY <1>1 DEF Viable
  <1>4. /\ used \in Nat /\ used > 0 /\ used <= Q /\ Q \in Nat /\ Q > 0
        /\ user1 \in [Process -> Nat] /\ used = user1[p] + 1
    <2>1. user1 \in [Process -> Nat] /\ user1[p] < Q
      BY <1>3 DEF Typed, Quantum
    <2>2. QED BY <1>3, <2>1, Constants
  <1>5. user1' \in [Process -> Nat] /\ user2' \in [Process -> Nat] /\ user3' \in [Process -> Nat]
    <2>1. user1' = [user1 EXCEPT ![p] = 0] \/ user1' = [user1 EXCEPT ![p] = used]
      OBVIOUS
    <2> HIDE DEF p
    <2>2. user1' \in [Process -> Nat]
      BY <1>3, <1>4, <2>1
    <2>3. QED BY <2>2 DEF Typed
  <1>6. /\ procs' = procs /\ remaining' = [remaining EXCEPT ![p] = @ - 1]
    BY <1>2, <1>5, DispatchTyped
  <1>7. \/ list' = ReadyList /\ prev_proc' = None
        \/ /\ Len(L) = Len(I) - 1
           /\ \A i \in 1 .. Len(I) - 1 : L[i] = I[i + 1]
           /\ prev_proc' = IF remaining'[p] > 0 THEN p ELSE None
    BY <1>2, Left
  <1>8. \/ /\ used = Q /\ Len(L) = Len(I) - 1 /\ user1' = [user1 EXCEPT ![p] = 0]
        \/ /\ used # Q /\ L = I /\ user1' = [user1 EXCEPT ![p] = used]
    <2>1. 1 - 1 = 0 /\ ReadyList \in Arrays /\ list' = left
      BY ReadyViable DEF Dispatch
    <2>2. Len(my_array_delete(ReadyList, 0).items) = Len(I) - 1
      BY <1>1, <2>1, Delete
    <2>3. QED BY <2>1, <2>2
  <1>9. /\ \A k \in Process : k = p => Waited(k)' = 0
        /\ \A k \in Viable : k # p => Waited(k)' = Waited(k) + 1
    BY <1>2, <1>5, WaitedStep
  <1>10. /\ \A k \in Process : remaining[k] > 0 /\ user1[k] > 0 => k = p
         /\ \A i \in 1 .. Len(I) : Waited(I[i]) <= Turn(i, user1[p])
    BY ReadyQuantum
  <1>11. /\ Process' = Process /\ remaining \in [Process -> Nat] /\ N \in Nat
         /\ None \notin Process /\ scheduler' = scheduler
    BY <1>6, SameProcess, Inputs DEF Typed, Dispatch, scheduler
  <1>12. \A k \in Viable : k \in Process /\ remaining[k] > 0 /\ Waited(k) \in Nat
    BY WaitedType DEF Viable
  <1>13. \A i \in Int : (i - 1) * Q \in Int /\ (i + 1 - 1) * Q = (i - 1) * Q + Q
    <2> TAKE i \in Int
    <2>1. i + 1 - 1 = (i - 1) + 1 /\ i - 1 \in Int
      OBVIOUS
    <2>2. QED BY <1>4, <2>1, Products
  <1>14. \A k \in Process : user1[k] < Q
    BY DEF Quantum
  <1>15. (N - 1) * Q \in Int
    <2>1. N - 1 \in Int
      BY <1>11
    <2>2. QED BY <1>4, <2>1, Products
  <1> HIDE DEF I, p, L, N
  <1>16. \A k \in Process : remaining'[k] > 0 => remaining[k] > 0
    BY <1>3, <1>6, <1>11, <1>12
  <1>17. \A k \in Viable : k # p => remaining'[k] > 0
    BY <1>6, <1>11, <1>12
  <1>18. CASE used = Q /\ Len(L) = Len(I) - 1 /\ user1' = [user1 EXCEPT ![p] = 0]
    <2>1. /\ \A i \in 1 .. Len(I) - 1 : L[i] = I[i + 1]
          /\ prev_proc' = IF remaining'[p] > 0 THEN p ELSE None
      <3>1. Len(I) # Len(I) - 1
        BY <1>1
      <3>2. QED BY <1>7, <1>18, <3>1 DEF I, L
    <2>2. \A k \in Process : user1'[k] < Q /\ user1'[k] \in Nat
      BY <1>4, <1>5, <1>14, <1>18
    <2>3. \A k \in Process : ~(remaining'[k] > 0 /\ user1'[k] > 0)
      <3> TAKE k \in Process
      <3>1. CASE k = p
        <4>1. user1'[k] = 0
          BY <1>4, <1>18, <3>1
        <4>2. QED BY <4>1
      <3>2. CASE k # p
        <4>1. user1'[k] = user1[k]
          BY <1>4, <1>18, <3>2
        <4>2. QED BY <1>10, <1>16, <3>2, <4>1
      <3>3. QED BY <3>1, <3>2
    <2>4. ASSUME NEW k \in Process, NEW i \in 1 .. Len(L), L[i] = k
          PROVE  /\ remaining'[k] > 0
                 /\ Waited(k)' <= (N - 1) * Q + user1'[L[1]] - (i - 1) * Q
      <3>1. i \in 1 .. Len(I) - 1 /\ i + 1 \in 1 .. Len(I) /\ i \in Int
        BY <1>1, <1>18
      <3>2. k = I[i + 1] /\ k \in Viable
        BY <1>1, <2>1, <2>4, <3>1
      <3>3. k # p
        <4>1. i + 1 # 1
          BY <3>1
        <4>2. QED BY <1>1, <3>1, <3>2, <4>1 DEF p
      <3>4. Waited(k)' = Waited(k) + 1 /\ Waited(k) <= Turn(i + 1, user1[p]) /\ Waited(k) \in Nat
        BY <1>9, <1>10, <1>12, <3>1, <3>2, <3>3
      <3>5. user1'[L[1]] \in Nat
        <4>1. 1 \in 1 .. Len(I) - 1 /\ 1 + 1 \in 1 .. Len(I)
          BY <1>1, <3>1
        <4>2. L[1] = I[1 + 1] /\ I[1 + 1] \in Process
          BY <1>1, <1>12, <2>1, <4>1
        <4>3. QED BY <2>2, <4>2
      <3>6. /\ (i + 1 - 1) * Q = (i - 1) * Q + Q
            /\ (i - 1) * Q \in Int /\ (N - 1) * Q \in Int
        BY <1>13, <1>15, <3>1
      <3>7. user1[p] = Q - 1
        BY <1>3, <1>4, <1>18
      <3>8. Turn(i + 1, user1[p]) = (N - 1) * Q + (Q - 1) - ((i - 1) * Q + Q)
        BY <3>6, <3>7 DEF Turn, N
      <3>9. Waited(k)' <= (N - 1) * Q + user1'[L[1]] - (i - 1) * Q
        <4>1. \A a, c \in Int : \A v, u \in Nat :
                 v <= a + (Q - 1) - (c + Q) => v + 1 <= a + u - c
          BY <1>4
        <4>2. QED BY <3>4, <3>5, <3>6, <3>8, <4>1
      <3>10. QED BY <1>17, <3>2, <3>3, <3>9
    <2>5. \A k \in Process : prev_proc' = k => Waited(k)' = 0
      BY <1>9, <1>11, <2>1
    <2>6. Quantum'
      BY <1>6, <1>11, <2>2, <2>3, <2>4, <2>5 DEF Quantum, Turn, L, N
    <2>7. QED BY <1>2, <1>5, <2>6
  <1>19. CASE used # Q /\ L = I /\ user1' = [user1 EXCEPT ![p] = used]
    <2>1. prev_proc' = None
      <3>1. Len(I) # Len(I) - 1
        BY <1>1
      <3>2. QED BY <1>7, <1>19, <3>1 DEF I, L
    <2>2. \A k \in Process : user1'[k] < Q
      BY <1>4, <1>14, <1>19
    <2>3. ASSUME NEW k \in Process, remaining'[k] > 0, user1'[k] > 0
          PROVE  Len(L) > 0 /\ L[1] = k /\ Waited(k)' = 0
      <3>1. k = p
        <4>1. k # p => user1'[k] = user1[k]
          BY <1>4, <1>19
        <4>2. QED BY <1>10, <1>16, <2>3, <4>1
      <3>2. QED BY <1>1, <1>9, <1>19, <3>1 DEF p
    <2>4. ASSUME NEW k \in Process, NEW i \in 1 .. Len(L), L[i] = k
          PROVE  /\ i > 1 => remaining'[k] > 0
                 /\ Waited(k)' <= (N - 1) * Q + user1'[L[1]] - (i - 1) * Q
      <3>1. user1'[L[1]] = used /\ used = user1[p] + 1 /\ user1[p] \in Nat /\ i \in Int
            /\ i \in 1 .. Len(I) /\ k = I[i] /\ k \in Viable
        BY <1>1, <1>3, <1>4, <1>19, <2>4 DEF p
      <3>2. (i - 1) * Q \in Int /\ (N - 1) * Q \in Int
        BY <1>13, <1>15, <3>1
      <3>3. Waited(k) <= (N - 1) * Q + user1[p] - (i - 1) * Q /\ Waited(k) \in Nat
        BY <1>10, <1>12, <3>1 DEF Turn, N
      <3>4. \A a, c \in Int : \A v, u \in Nat :
               v <= a + u - c => v + 1 <= a + (u + 1) - c /\ 0 <= a + (u + 1) - c
        OBVIOUS
      <3>5. CASE k = p
        <4>1. i = 1 /\ Waited(k)' = 0
          BY <1>1, <1>9, <3>1, <3>5 DEF p
        <4>2. 0 <= (N - 1) * Q + used - (i - 1) * Q
          BY <3>1, <3>2, <3>3, <3>4
        <4>3. QED BY <3>1, <4>1, <4>2
      <3>6. CASE k # p
        <4>1. Waited(k)' = Waited(k) + 1
          BY <1>9, <3>1, <3>6
        <4>2. Waited(k) + 1 <= (N - 1) * Q + used - (i - 1) * Q
          BY <3>1, <3>2, <3>3, <3>4
        <4>3. QED BY <1>17, <3>1, <3>6, <4>1, <4>2
      <3>7. QED BY <3>5, <3>6
    <2>5. \A k \in Process : prev_proc' = k => Waited(k)' = 0
      BY <1>11, <2>1
    <2>6. Quantum'
      BY <1>6, <1>11, <2>2, <2>3, <2>4, <2>5 DEF Quantum, Turn, L, N
    <2>7. QED BY <1>2, <1>5, <2>6
  <1>20. QED BY <1>8, <1>18, <1>19

-----------------------------------------------------------------------------
(* The invariant.                                                          *)

\* A schedule that has not been cut off ends when nobody is left.
Ended ==
  phase = "done" =>
    timestep = MAX_TIMESTEPS - 1
    \/ \A k \in Process : procs[k].arrival <= timestep => remaining[k] = 0

IInv == Typed /\ Counts /\ Ready /\ Sorted /\ Marked /\ Winner /\ Turns /\ Quantum /\ Ended

LEMMA InitInvariant == Init => IInv
  <1> SUFFICES ASSUME Init PROVE IInv
    OBVIOUS
  <1>1. /\ remaining = [k \in Process |-> 0] /\ user1 = [k \in Process |-> 0]
        /\ user2 = [k \in Process |-> 0] /\ user3 = [k \in Process |-> 0]
        /\ procs \in Workloads /\ run = 1 /\ phase = "init" /\ timestep = 0
        /\ list = my_array_init /\ prev_proc = None /\ proc_names = <<>>
    BY DEF Init
  <1>2. list \in Arrays /\ MAX_TIMESTEPS \in Nat /\ MAX_TIMESTEPS > 0
    BY <1>1, InitArray, Constants
  <1>3. proc_names \in Seq(Process) /\ Len(proc_names) = 0
    BY <1>1, EmptySeq
  <1>4. Typed
    BY <1>1, <1>2, <1>3 DEF Typed
  <1>5. QED BY <1>1, <1>4 DEF IInv, Counts, Ready, Sorted, Marked, Winner, Turns, Quantum, Ended

LEMMA StartInvariant ==
  ASSUME IInv, StartSchedule PROVE IInv'
  <1>1. /\ remaining' = [k \in Process |-> procs[k].service] /\ user1' = [k \in Process |-> 0]
        /\ user2' = [k \in Process |-> 0] /\ user3' = [k \in Process |-> 0]
        /\ procs' = procs /\ run' = run /\ phase' = "loop" /\ timestep' = 0
        /\ list' = my_array_init /\ prev_proc' = None /\ proc_names' = <<>>
    BY DEF StartSchedule, init_processes
  <1>2. /\ Process' = Process /\ Arrays' = Arrays /\ procs \in Workloads /\ run \in 1 .. 6
        /\ None \notin Process /\ MAX_TIMESTEPS \in Nat /\ MAX_TIMESTEPS > 0
        /\ RoundRobinQuantum > 0
        /\ \A k \in Process : procs[k].service \in Nat /\ procs[k].arrival \in Nat
    BY <1>1, SameProcess, Inputs, Constants DEF IInv, Typed
  <1>3. list' \in Arrays /\ list'.items = <<>> /\ Len(list'.items) = 0
    BY <1>1, InitArray, EmptySeq
  <1>4. proc_names' \in Seq(Process) /\ Len(proc_names') = 0
    BY <1>1, EmptySeq
  <1>5. Typed'
    BY <1>1, <1>2, <1>3, <1>4 DEF Typed
  <1>6. \A k \in Process : RunsOf(k)' = {}
    BY <1>4 DEF RunsOf
  <1>7. Served' = {}
    <2>1. ASSUME NEW u \in Process \X Nat PROVE ~(u[2] >= 1 /\ u[2] <= procs'[u[1]].service - remaining'[u[1]])
      <3>1. u[1] \in Process /\ u[2] \in Nat
        OBVIOUS
      <3>2. procs'[u[1]].service - remaining'[u[1]] = 0
        BY <1>1, <1>2, <3>1
      <3>3. QED BY <3>1, <3>2
    <2>2. QED BY <1>2, <2>1 DEF Served
  <1>8. \A k \in Process : remaining'[k] = procs[k].service
    BY <1>1
  <1>9. Counts'
    <2>1. \A k \in Process : /\ IsFiniteSet(RunsOf(k)')
                             /\ Cardinality(RunsOf(k)') + remaining'[k] = procs[k].service
      BY <1>2, <1>6, <1>8, FS_EmptySet
    <2>2. IsFiniteSet(Served') /\ Cardinality(Served') = 0
      BY <1>7, FS_EmptySet
    <2>3. QED BY <1>1, <1>2, <1>4, <1>8, <2>1, <2>2 DEF Counts
  <1>10. Ready' /\ Sorted'
    BY <1>1, <1>2, <1>3 DEF Ready, Sorted
  <1>11. Turns' /\ Quantum'
    BY <1>1, <1>2, <1>3 DEF Turns, Quantum
  <1>12. Marked' /\ Winner'
    BY <1>1, <1>2 DEF Marked, Winner, RanLast
  <1>13. Ended'
    BY <1>1 DEF Ended
  <1>14. QED BY <1>5, <1>9, <1>10, <1>11, <1>12, <1>13 DEF IInv

LEMMA StutterInvariant ==
  ASSUME IInv, UNCHANGED vars PROVE IInv'
  <1>1. /\ procs' = procs /\ run' = run /\ phase' = phase /\ timestep' = timestep
        /\ list' = list /\ prev_proc' = prev_proc /\ remaining' = remaining
        /\ user1' = user1 /\ user2' = user2 /\ user3' = user3 /\ proc_names' = proc_names
    BY DEF vars, users
  <1>2. Process' = Process /\ Arrays' = Arrays /\ scheduler' = scheduler /\ Served' = Served
    BY <1>1 DEF Process, Arrays, scheduler, Served
  <1>3. ASSUME NEW k PROVE /\ RunsOf(k)' = RunsOf(k) /\ RanLast(k)' = RanLast(k)
                           /\ Waited(k)' = Waited(k)
    BY <1>1 DEF RunsOf, RanLast, Waited
  <1>4. \A k : RunsOf(k)' = RunsOf(k) /\ (RanLast(k)' <=> RanLast(k)) /\ Waited(k)' = Waited(k)
    BY <1>3
  <1>5. Typed' /\ Ended'
    BY <1>1, <1>2 DEF IInv, Typed, Ended
  <1>6. Counts'
    BY <1>1, <1>2, <1>4 DEF IInv, Counts
  <1>7. Ready'
    BY <1>1, <1>2 DEF IInv, Ready, RanLast
  <1>8. Sorted'
    BY <1>1, <1>2 DEF IInv, Sorted, FirstCome
  <1>9. Marked'
    BY <1>1, <1>2, <1>4 DEF IInv, Marked, FirstCome, HigherPriority
  <1>10. Winner'
    BY <1>1, <1>2, <1>4 DEF IInv, Winner
  <1>11. Turns'
    BY <1>1, <1>2, <1>4 DEF IInv, Turns
  <1>12. Quantum'
    BY <1>1, <1>2, <1>4 DEF IInv, Quantum, Turn
  <1>13. QED BY <1>5, <1>6, <1>7, <1>8, <1>9, <1>10, <1>11, <1>12 DEF IInv

\* What every dispatch preserves.
LEMMA DispatchInvariant ==
  ASSUME IInv, phase = "loop", timestep < MAX_TIMESTEPS - 1,
         NEW w, NEW left, Leaves(w, left), Dispatch(ReadyList.items[w], left),
         user1' \in [Process -> Nat], user2' \in [Process -> Nat], user3' \in [Process -> Nat]
  PROVE  Typed' /\ Counts' /\ Ready' /\ Ended' /\ scheduler' = scheduler /\ phase' = "loop"
  <1>1. Typed /\ Counts /\ Ready
    BY DEF IInv
  <1>2. Typed' /\ run' = run /\ phase' = phase
    BY <1>1, DispatchTyped
  <1>3. Counts'
    BY <1>1, DispatchCounts
  <1>4. Ready'
    BY <1>1, DispatchReady
  <1>5. scheduler' = scheduler /\ phase' = "loop"
    BY <1>2 DEF scheduler
  <1>6. QED BY <1>2, <1>3, <1>4, <1>5 DEF Ended

\* The call of a scheduler that leaves the list as it is.
LEMMA CalledWith ==
  ASSUME IInv, NEW s, Calls(s)
  PROVE  /\ phase = "loop" /\ scheduler = s /\ timestep < MAX_TIMESTEPS - 1
         /\ Len(ReadyList.items) > 0
         /\ Typed /\ Counts /\ Ready /\ Sorted /\ Marked /\ Winner /\ Turns /\ Quantum
         /\ user1 \in [Process -> Nat] /\ user2 \in [Process -> Nat] /\ user3 \in [Process -> Nat]
  BY DEF IInv, Calls, Typed, my_array_size

LEMMA SrtInvariant ==
  ASSUME IInv, srt PROVE IInv'
  <1>1. /\ phase = "loop" /\ scheduler = "srt" /\ timestep < MAX_TIMESTEPS - 1
        /\ Len(ReadyList.items) > 0
        /\ Typed /\ Counts /\ Ready /\ Sorted
        /\ user1 \in [Process -> Nat] /\ user2 \in [Process -> Nat] /\ user3 \in [Process -> Nat]
    BY CalledWith DEF srt
  <1>2. PICK w \in 1 .. Len(ReadyList.items) :
           Scan(ReadyList.items,
                [r \in Process |-> {q \in Process : remaining[r] < remaining[q]}])
             = ReadyList.items[w]
    BY <1>1, SrtPicks
  <1>3. Dispatch(ReadyList.items[w], ReadyList)
    BY <1>2 DEF srt
  <1>4. user1' = user1 /\ user2' = user2 /\ user3' = user3 /\ Leaves(w, ReadyList)
    BY DEF srt, users, Leaves
  <1>5. Typed' /\ Counts' /\ Ready' /\ Ended' /\ scheduler' = scheduler
    BY <1>1, <1>3, <1>4, DispatchInvariant
  <1>6. Sorted'
    BY <1>1, <1>3, DispatchSorted
  <1>7. Marked' /\ Winner' /\ Turns' /\ Quantum'
    BY <1>1, <1>5 DEF Marked, Winner, Turns, Quantum
  <1>8. QED BY <1>5, <1>6, <1>7 DEF IInv

LEMMA PreemptiveInvariant ==
  ASSUME IInv, hpf_preemptive PROVE IInv'
  <1>1. /\ phase = "loop" /\ scheduler = "hpf_preemptive" /\ timestep < MAX_TIMESTEPS - 1
        /\ Len(ReadyList.items) > 0
        /\ Typed /\ Counts /\ Ready /\ Sorted
        /\ user1 \in [Process -> Nat] /\ user2 \in [Process -> Nat] /\ user3 \in [Process -> Nat]
    BY CalledWith DEF hpf_preemptive
  <1>2. PICK w \in 1 .. Len(ReadyList.items) :
           Scan(ReadyList.items, [p \in Process |-> {q \in Process : HigherPriority(p, q)}])
             = ReadyList.items[w]
    BY <1>1, PreemptivePicks
  <1>3. Dispatch(ReadyList.items[w], ReadyList)
    BY <1>2 DEF hpf_preemptive
  <1>4. user1' = user1 /\ user2' = user2 /\ user3' = user3 /\ Leaves(w, ReadyList)
    BY DEF hpf_preemptive, users, Leaves
  <1>5. Typed' /\ Counts' /\ Ready' /\ Ended' /\ scheduler' = scheduler
    BY <1>1, <1>3, <1>4, DispatchInvariant
  <1>6. Sorted'
    BY <1>1, <1>3, DispatchSorted
  <1>7. Marked' /\ Winner' /\ Turns' /\ Quantum'
    BY <1>1, <1>5 DEF Marked, Winner, Turns, Quantum
  <1>8. QED BY <1>5, <1>6, <1>7 DEF IInv

LEMMA NonPreemptiveInvariant ==
  ASSUME IInv, hpf_non_preemptive PROVE IInv'
  <1>1. /\ phase = "loop" /\ scheduler = "hpf_non_preemptive" /\ timestep < MAX_TIMESTEPS - 1
        /\ Len(ReadyList.items) > 0
        /\ Typed /\ Counts /\ Ready /\ Sorted /\ Marked
        /\ user1 \in [Process -> Nat] /\ user2 \in [Process -> Nat] /\ user3 \in [Process -> Nat]
    BY CalledWith DEF hpf_non_preemptive
  <1>2. PICK w \in 1 .. Len(ReadyList.items) :
           /\ Scan(ReadyList.items, [r \in Process |->
                {q \in Process : user1[q] # 1 /\ HigherPriority(r, q)}]) = ReadyList.items[w]
           /\ \/ RanLast(ReadyList.items[w])
              \/ /\ \A k \in Process : remaining[k] > 0 => ~RanLast(k)
                 /\ HighestFirst(ReadyList.items[w])
    BY <1>1, NonPreemptivePicks
  <1>3. /\ Dispatch(ReadyList.items[w], ReadyList)
        /\ user1' = [user1 EXCEPT ![ReadyList.items[w]] = 1]
    BY <1>2 DEF hpf_non_preemptive
  <1>4. user2' = user2 /\ user3' = user3 /\ Leaves(w, ReadyList)
    BY DEF hpf_non_preemptive, Leaves
  <1>5. Marked' /\ user1' \in [Process -> Nat]
    BY <1>1, <1>2, <1>3, <1>4, DispatchMarked
  <1>6. Typed' /\ Counts' /\ Ready' /\ Ended' /\ scheduler' = scheduler
    BY <1>1, <1>3, <1>4, <1>5, DispatchInvariant
  <1>7. Sorted'
    BY <1>1, <1>3, DispatchSorted
  <1>8. Winner' /\ Turns' /\ Quantum'
    BY <1>1, <1>6 DEF Winner, Turns, Quantum
  <1>9. QED BY <1>5, <1>6, <1>7, <1>8 DEF IInv

LEMMA RoundRobinInvariant ==
  ASSUME IInv, round_robin PROVE IInv'
  <1> DEFINE left == my_array_delete(ReadyList, 0)
  <1>1. /\ phase = "loop" /\ scheduler = "round_robin" /\ timestep < MAX_TIMESTEPS - 1
        /\ Len(ReadyList.items) > 0
        /\ Typed /\ Counts /\ Ready /\ Turns
        /\ user1 \in [Process -> Nat] /\ user2 \in [Process -> Nat] /\ user3 \in [Process -> Nat]
    BY CalledWith DEF round_robin
  <1>2. my_array_get(ReadyList, 0) = ReadyList.items[1]
    BY DEF my_array_get
  <1>3. Dispatch(ReadyList.items[1], left)
    BY <1>2 DEF round_robin
  <1>4. user1' = user1 /\ user2' = user2 /\ user3' = user3
    BY DEF round_robin, users
  <1>5. Leaves(1, left)
    <2>1. Len(ReadyList.items) \in Nat
      BY <1>1, ReadyViable
    <2>2. QED BY <1>1, <2>1 DEF Leaves
  <1>6. Turns'
    BY <1>1, <1>3, <1>4, DispatchTurns
  <1> HIDE DEF left
  <1>7. Typed' /\ Counts' /\ Ready' /\ Ended' /\ scheduler' = scheduler
    BY <1>1, <1>3, <1>4, <1>5, DispatchInvariant
  <1>8. Sorted' /\ Marked' /\ Winner' /\ Quantum'
    BY <1>1, <1>7 DEF Sorted, Marked, Winner, Quantum
  <1>9. QED BY <1>6, <1>7, <1>8 DEF IInv

LEMMA RoundRobinQ4Invariant ==
  ASSUME IInv, round_robin_q4 PROVE IInv'
  <1> DEFINE used == user1[ReadyList.items[1]] + 1
  <1>1. /\ phase = "loop" /\ scheduler = "round_robin_q4" /\ timestep < MAX_TIMESTEPS - 1
        /\ Len(ReadyList.items) > 0
        /\ Typed /\ Counts /\ Ready /\ Quantum
    BY CalledWith DEF round_robin_q4
  <1>2. my_array_get(ReadyList, 0) = ReadyList.items[1]
    BY DEF my_array_get
  <1>3. PICK left : /\ Dispatch(ReadyList.items[1], left)
                    /\ \/ /\ used = RoundRobinQuantum /\ left = my_array_delete(ReadyList, 0)
                          /\ user1' = [user1 EXCEPT ![ReadyList.items[1]] = 0]
                       \/ /\ used # RoundRobinQuantum /\ left = ReadyList
                          /\ user1' = [user1 EXCEPT ![ReadyList.items[1]] = used]
    BY <1>2 DEF round_robin_q4
  <1>4. user2' = user2 /\ user3' = user3
    BY DEF round_robin_q4
  <1>5. /\ Quantum' /\ Leaves(1, left)
        /\ user1' \in [Process -> Nat] /\ user2' \in [Process -> Nat] /\ user3' \in [Process -> Nat]
    BY <1>1, <1>3, <1>4, DispatchQuantum
  <1>6. Typed' /\ Counts' /\ Ready' /\ Ended' /\ scheduler' = scheduler
    BY <1>1, <1>3, <1>5, DispatchInvariant
  <1>7. Sorted' /\ Marked' /\ Winner' /\ Turns'
    BY <1>1, <1>6 DEF Sorted, Marked, Winner, Turns
  <1>8. QED BY <1>5, <1>6, <1>7 DEF IInv

LEMMA ContinuesInvariant ==
  ASSUME IInv, LotteryContinues PROVE IInv'
  <1> DEFINE w == Working(ReadyList.items)
  <1>1. /\ phase = "loop" /\ scheduler = "lottery" /\ timestep < MAX_TIMESTEPS - 1
        /\ Len(ReadyList.items) > 0
        /\ Typed /\ Counts /\ Ready /\ Winner
        /\ user1 \in [Process -> Nat] /\ user2 \in [Process -> Nat] /\ user3 \in [Process -> Nat]
    BY CalledWith DEF LotteryContinues
  <1>2. w # 0 /\ Dispatch(ReadyList.items[w], ReadyList)
    BY DEF LotteryContinues
  <1>3. ReadyList.items \in Seq(Process)
    BY <1>1, ReadyViable
  <1>4. w \in 1 .. Len(ReadyList.items) /\ user1[ReadyList.items[w]] = 1
    BY <1>2, <1>3, WorkingIs
  <1> HIDE DEF w
  <1>5. user1' = user1 /\ user2' = user2 /\ user3' = user3 /\ Leaves(w, ReadyList)
    BY <1>4 DEF LotteryContinues, users, Leaves
  <1>6. Winner'
    BY <1>1, <1>2, <1>4, <1>5, ContinuesWins
  <1>7. Typed' /\ Counts' /\ Ready' /\ Ended' /\ scheduler' = scheduler
    BY <1>1, <1>2, <1>5, DispatchInvariant
  <1>8. Sorted' /\ Marked' /\ Turns' /\ Quantum'
    BY <1>1, <1>7 DEF Sorted, Marked, Turns, Quantum
  <1>9. QED BY <1>6, <1>7, <1>8 DEF IInv

\* A drawing among processes of which none is marked.
LEMMA DrawInvariant ==
  ASSUME IInv, Calls("lottery"),
         NEW u1 \in [Process -> Nat], NEW u2 \in [Process -> Nat], NEW u3 \in [Process -> Nat],
         \A k \in Process : remaining[k] > 0 => u1[k] = 0,
         Draw(u1, u2, u3)
  PROVE  IInv'
  <1>1. /\ phase = "loop" /\ scheduler = "lottery" /\ timestep < MAX_TIMESTEPS - 1
        /\ Typed /\ Counts /\ Ready
    BY CalledWith
  <1>2. PICK w \in 1 .. Len(ReadyList.items) :
           /\ Dispatch(ReadyList.items[w], ReadyList)
           /\ user1' \in [Process -> Nat] /\ user2' \in [Process -> Nat] /\ user3' \in [Process -> Nat]
           /\ Winner'
    BY <1>1, DrawWins
  <1>3. Leaves(w, ReadyList)
    BY DEF Leaves
  <1>4. Typed' /\ Counts' /\ Ready' /\ Ended' /\ scheduler' = scheduler
    BY <1>1, <1>2, <1>3, DispatchInvariant
  <1>5. Sorted' /\ Marked' /\ Turns' /\ Quantum'
    BY <1>1, <1>4 DEF Sorted, Marked, Turns, Quantum
  <1>6. QED BY <1>2, <1>4, <1>5 DEF IInv

LEMMA DrawsInvariant ==
  ASSUME IInv, LotteryDraws PROVE IInv'
  <1>1. Calls("lottery") /\ Working(ReadyList.items) = 0 /\ Draw(user1, user2, user3)
    BY DEF LotteryDraws
  <1>2. /\ phase = "loop" /\ scheduler = "lottery" /\ Typed /\ Counts /\ Ready /\ Winner
        /\ user1 \in [Process -> Nat] /\ user2 \in [Process -> Nat] /\ user3 \in [Process -> Nat]
    BY <1>1, CalledWith
  <1>3. /\ ReadyList.items \in Seq(Process)
        /\ \A k \in Viable : \E i \in 1 .. Len(ReadyList.items) : ReadyList.items[i] = k
    BY <1>2, ReadyViable
  <1>4. \A i \in 1 .. Len(ReadyList.items) : user1[ReadyList.items[i]] # 1
    <2>1. ~(0 \in 1 .. Len(ReadyList.items))
      OBVIOUS
    <2>2. QED BY <1>1, <1>3, <2>1, WorkingIs
  <1>5. ASSUME NEW k \in Process, remaining[k] > 0, user1[k] # 0 PROVE FALSE
    <2>1. user1[k] = 1 /\ RanLast(k)
      BY <1>2, <1>5 DEF Winner
    <2>2. k \in Viable
      BY <1>2, <1>5, <2>1, LastIsViable
    <2>3. QED BY <1>3, <1>4, <2>1, <2>2
  <1>6. \A k \in Process : remaining[k] > 0 => user1[k] = 0
    BY <1>5
  <1>7. QED BY <1>1, <1>2, <1>6, DrawInvariant

LEMMA YieldsInvariant ==
  ASSUME IInv, LotteryYields PROVE IInv'
  <1> DEFINE w == Working(ReadyList.items)
             p == ReadyList.items[w]
             compensation == IF user2[p] < LotteryQuantum THEN 1 \div user2[p] ELSE user3[p]
             u1 == [user1 EXCEPT ![p] = 0]
             u2 == [user2 EXCEPT ![p] = 0]
             u3 == [user3 EXCEPT ![p] = compensation]
  <1>1. Calls("lottery") /\ w # 0 /\ Draw(u1, u2, u3)
    BY DEF LotteryYields
  <1>2. /\ phase = "loop" /\ scheduler = "lottery" /\ Typed /\ Counts /\ Ready /\ Winner
        /\ user1 \in [Process -> Nat] /\ user2 \in [Process -> Nat] /\ user3 \in [Process -> Nat]
    BY <1>1, CalledWith
  <1>3. /\ ReadyList.items \in Seq(Process)
        /\ \A i \in 1 .. Len(ReadyList.items) : ReadyList.items[i] \in Viable
    BY <1>2, ReadyViable
  <1>4. w \in 1 .. Len(ReadyList.items) /\ user1[p] = 1
    BY <1>1, <1>3, WorkingIs
  <1>5. p \in Process /\ remaining[p] > 0
    BY <1>3, <1>4 DEF Viable
  <1> HIDE DEF w, p
  <1>6. RanLast(p) /\ user2[p] >= 1
    BY <1>2, <1>4, <1>5 DEF Winner
  <1>7. compensation \in Nat
    <2>1. user2[p] \in Nat /\ user3[p] \in Nat
      BY <1>2, <1>5
    <2>2. \A n \in Nat : n >= 1 => 1 \div n \in Nat
      OBVIOUS
    <2>3. QED BY <1>6, <2>1, <2>2
  <1> HIDE DEF compensation
  <1>8. u1 \in [Process -> Nat] /\ u2 \in [Process -> Nat] /\ u3 \in [Process -> Nat]
    BY <1>2, <1>7
  <1>9. \A k \in Process : remaining[k] > 0 => u1[k] = 0
    <2> TAKE k \in Process
    <2> HAVE remaining[k] > 0
    <2>1. CASE k = p
      BY <1>2, <2>1
    <2>2. CASE k # p
      <3>1. ~RanLast(k)
        BY <1>6, <2>2 DEF RanLast
      <3>2. user1[k] = 0
        BY <1>2, <3>1 DEF Winner
      <3>3. QED BY <1>2, <2>2, <3>2
    <2>3. QED BY <2>1, <2>2
  <1> HIDE DEF u1, u2, u3
  <1>10. QED BY <1>1, <1>8, <1>9, DrawInvariant

\* What a step keeps that only ends or begins a schedule.
LEMMA EndInvariant ==
  ASSUME IInv, EndSchedule PROVE IInv'
  <1>1. /\ phase = "loop" /\ phase' = "done" /\ procs' = procs /\ run' = run
        /\ timestep' = timestep /\ list' = list /\ prev_proc' = prev_proc
        /\ remaining' = remaining /\ user1' = user1 /\ user2' = user2 /\ user3' = user3
        /\ proc_names' = proc_names
        /\ timestep = MAX_TIMESTEPS - 1 \/ Len(ReadyList.items) = 0
    BY DEF EndSchedule, users, my_array_size
  <1>2. Process' = Process /\ Arrays' = Arrays /\ Served' = Served
    BY <1>1 DEF Process, Arrays, Served
  <1>3. Typed' /\ Typed /\ Counts /\ Ready
    BY <1>1, <1>2 DEF IInv, Typed
  <1>4. \A k : RunsOf(k)' = RunsOf(k)
    BY <1>1 DEF RunsOf
  <1>5. Counts'
    BY <1>1, <1>2, <1>3, <1>4 DEF Counts
  <1>6. Ended'
    <2>1. CASE timestep = MAX_TIMESTEPS - 1
      BY <1>1, <2>1 DEF Ended
    <2>2. CASE Len(ReadyList.items) = 0
      <3>1. Viable = {}
        BY <1>1, <1>3, <2>2, ReadyViable
      <3>2. \A k \in Process : procs[k].arrival <= timestep => remaining[k] = 0
        <4>1. \A k \in Process : procs[k].arrival <= timestep => ~(remaining[k] > 0)
          BY <3>1 DEF Viable
        <4>2. \A k \in Process : remaining[k] \in Nat
          BY <1>3 DEF Typed
        <4>3. QED BY <4>1, <4>2
      <3>3. QED BY <1>1, <1>2, <3>2 DEF Ended
    <2>3. QED BY <1>1, <2>1, <2>2
  <1>7. QED BY <1>1, <1>3, <1>5, <1>6 DEF IInv, Ready, Sorted, Marked, Winner, Turns, Quantum

LEMMA NextScheduleInvariant ==
  ASSUME IInv, NextSchedule PROVE IInv'
  <1>1. /\ phase' = "init" /\ procs' = procs /\ run' = run + 1 /\ run < 6
        /\ timestep' = timestep /\ list' = list /\ prev_proc' = prev_proc
        /\ remaining' = remaining /\ user1' = user1 /\ user2' = user2 /\ user3' = user3
        /\ proc_names' = proc_names
    <2>1. Len(Schedulers) = 6
      BY DEF Schedulers
    <2>2. QED BY <2>1 DEF NextSchedule, users
  <1>2. Process' = Process /\ Arrays' = Arrays
    BY <1>1, SameProcess
  <1>3. Typed'
    BY <1>1, <1>2 DEF IInv, Typed
  <1>4. QED BY <1>1, <1>3 DEF IInv, Counts, Ready, Sorted, Marked, Winner, Turns, Quantum, Ended

LEMMA NextInvariant == IInv /\ [Next]_vars => IInv'
  <1> SUFFICES ASSUME IInv, [Next]_vars PROVE IInv'
    OBVIOUS
  <1>1. CASE StartSchedule
    BY <1>1, StartInvariant
  <1>2. CASE srt
    BY <1>2, SrtInvariant
  <1>3. CASE round_robin
    BY <1>3, RoundRobinInvariant
  <1>4. CASE round_robin_q4
    BY <1>4, RoundRobinQ4Invariant
  <1>5. CASE hpf_preemptive
    BY <1>5, PreemptiveInvariant
  <1>6. CASE hpf_non_preemptive
    BY <1>6, NonPreemptiveInvariant
  <1>7. CASE LotteryContinues
    BY <1>7, ContinuesInvariant
  <1>8. CASE LotteryDraws
    BY <1>8, DrawsInvariant
  <1>9. CASE LotteryYields
    BY <1>9, YieldsInvariant
  <1>10. CASE EndSchedule
    BY <1>10, EndInvariant
  <1>11. CASE NextSchedule
    BY <1>11, NextScheduleInvariant
  <1>12. CASE UNCHANGED vars
    BY <1>12, StutterInvariant
  <1>13. QED
    BY <1>1, <1>2, <1>3, <1>4, <1>5, <1>6, <1>7, <1>8, <1>9, <1>10, <1>11, <1>12
       DEF Next, Exited

(* The list between two time steps, the service that was given, the marks  *)
(* and the waiting times are what IInv says, in all six schedules.         *)
THEOREM InvariantHolds == Spec => []IInv
  BY InitInvariant, NextInvariant, PTL DEF Spec

-----------------------------------------------------------------------------
(* What follows from the invariant.                                        *)

(* Variables keep their types; the array of ready processes never holds    *)
(* more than it has room for, and no schedule is longer than the record.   *)
THEOREM TypeCorrect == Spec => []TypeOK
  <1>1. IInv => TypeOK
    <2> SUFFICES ASSUME IInv PROVE TypeOK
      OBVIOUS
    <2>1. Typed
      BY DEF IInv
    <2>2. run \in DOMAIN Schedulers
      <3>1. DOMAIN Schedulers = 1 .. 6
        BY DEF Schedulers
      <3>2. QED BY <2>1, <3>1 DEF Typed
    <2>3. list.items \in Seq(Process) /\ my_array_size(list) <= list.capacity
      BY <2>1 DEF Typed, Arrays, my_array_size
    <2>4. remaining \in [Process -> Int]
      BY <2>1 DEF Typed
    <2>5. QED BY <2>1, <2>2, <2>3, <2>4 DEF Typed, TypeOK
  <1>2. QED BY <1>1, InvariantHolds, PTL

(* A scheduler is given the processes that have arrived and not finished,  *)
(* all of them and each once (exercise08/README.md): whatever a scheduler  *)
(* took out of the list is back in it.                                     *)
THEOREM ViableAreProvided == Spec => []OnlyViableProvided
  <1>1. IInv => OnlyViableProvided
    BY ReadyCount DEF IInv, OnlyViableProvided
  <1>2. QED BY <1>1, InvariantHolds, PTL

(* In the lottery one process at most is marked as working, it is the one  *)
(* that ran last, and the divisor of its compensation is not zero.         *)
THEOREM OneIsWorking == Spec => []OneWorking
  <1>1. IInv => OneWorking
    <2> SUFFICES ASSUME IInv, phase = "loop", scheduler = "lottery",
                        NEW k \in Viable, user1[k] # 0
                 PROVE  user1[k] = 1 /\ user2[k] >= 1 /\ RanLast(k)
      BY DEF OneWorking, RanLast
    <2>1. k \in Process /\ remaining[k] > 0
      BY DEF Viable
    <2>2. QED BY <2>1 DEF IInv, Winner
  <1>2. QED BY <1>1, InvariantHolds, PTL

\* A ready process has at most the other processes in front of it.
LEMMA WaitsForTurn ==
  ASSUME IInv, phase = "loop", scheduler = "round_robin", NEW k \in Viable
  PROVE  Waited(k) <= Cardinality(Process) - 1
  <1>1. Typed /\ Counts /\ Ready /\ Turns
    BY DEF IInv
  <1>2. PICK i \in 1 .. Len(ReadyList.items) : ReadyList.items[i] = k
    BY <1>1, ReadyViable
  <1>3. Waited(k) + i <= Len(procs)
    BY <1>1, <1>2, ReadyTurns
  <1>4. Waited(k) \in Nat /\ Len(procs) \in Nat /\ Cardinality(Process) = Len(procs)
    BY <1>1, WaitedType, Inputs DEF Typed, Viable
  <1>5. i \in Nat /\ i >= 1
    BY <1>1, ReadyViable
  <1>6. QED BY <1>3, <1>4, <1>5

\* The same with a quantum; who is using his quantum is not waiting.
LEMMA WaitsForQuanta ==
  ASSUME IInv, phase = "loop", scheduler = "round_robin_q4", NEW k \in Viable
  PROVE  Waited(k) <= (Cardinality(Process) - 1) * RoundRobinQuantum
  <1> DEFINE N == Len(procs)
             Q == RoundRobinQuantum
             first == ReadyList.items[1]
  <1>1. Typed /\ Counts /\ Ready /\ Quantum
    BY DEF IInv
  <1>2. PICK i \in 1 .. Len(ReadyList.items) : ReadyList.items[i] = k
    BY <1>1, ReadyViable
  <1>3. Waited(k) <= Turn(i, user1[first])
    BY <1>1, <1>2, ReadyQuantum
  <1>4. Waited(k) \in Nat /\ N \in Nat /\ Cardinality(Process) = N
    BY <1>1, WaitedType, Inputs DEF Typed, Viable
  <1>5. i \in Nat /\ i >= 1 /\ first \in Process /\ k \in Process /\ remaining[k] > 0
    BY <1>1, <1>2, ReadyViable DEF Viable
  <1>6. Q \in Nat /\ user1[first] \in Nat /\ user1[first] < Q
    BY <1>1, <1>5, Constants DEF Typed, Quantum
  <1>7. N >= 1
    BY <1>1, <1>5, Inputs DEF Typed
  <1>8. (N - 1) * Q \in Int /\ (i - 1) * Q \in Int /\ 0 * Q = 0 /\ 1 * Q = Q
        /\ (N - 1) * Q >= 0
    <2>1. N - 1 \in Int /\ i - 1 \in Int /\ 0 <= N - 1
      BY <1>4, <1>5, <1>7
    <2>2. 0 * Q <= (N - 1) * Q
      BY <1>6, <2>1, Products
    <2>3. QED BY <1>6, <2>1, <2>2, Products
  <1>9. CASE i = 1 /\ user1[k] > 0
    <2>1. Waited(k) = 0
      BY <1>1, <1>5, <1>9, ReadyQuantum
    <2>2. QED BY <1>4, <1>8, <2>1
  <1>10. CASE i = 1 /\ user1[k] = 0
    <2>1. first = k /\ (i - 1) * Q = 0
      BY <1>2, <1>8, <1>10
    <2>2. Turn(i, user1[first]) = (N - 1) * Q
      BY <1>8, <1>10, <2>1 DEF Turn
    <2>3. QED BY <1>3, <1>4, <2>2
  <1>11. CASE i >= 2
    <2>1. 1 * Q <= (i - 1) * Q
      <3>1. 1 <= i - 1 /\ i - 1 \in Int
        BY <1>5, <1>11
      <3>2. QED BY <1>6, <3>1, Products
    <2>2. Turn(i, user1[first]) <= (N - 1) * Q
      BY <1>6, <1>8, <2>1 DEF Turn
    <2>3. Turn(i, user1[first]) \in Int
      BY <1>6, <1>8 DEF Turn
    <2>4. QED BY <1>3, <1>4, <1>8, <2>2, <2>3
  <1>12. user1[k] \in Nat
    BY <1>1, <1>5 DEF Typed
  <1>13. QED BY <1>5, <1>9, <1>10, <1>11, <1>12

(* Round robin starves nobody: a ready process waits for at most one       *)
(* quantum of every other process, whatever arrives meanwhile.             *)
THEOREM WaitingIsBounded == Spec => []BoundedWaiting
  <1>1. IInv => BoundedWaiting
    BY WaitsForTurn, WaitsForQuanta DEF BoundedWaiting
  <1>2. QED BY <1>1, InvariantHolds, PTL

-----------------------------------------------------------------------------
(* The end of a schedule.                                                  *)

\* The units of service time that the processes of input w ask for.
Units(w) == {u \in (DOMAIN w) \X Nat : u[2] >= 1 /\ u[2] <= w[u[1]].service}

\* What is asked for fits into MAX_TIMESTEPS - 1 time steps: compute_schedule_
\* cuts a longer schedule off.
FitsInTime == \A w \in Workloads : Cardinality(Units(w)) <= MAX_TIMESTEPS - 1

LEMMA UnitsAreFinite ==
  ASSUME procs \in Workloads PROVE IsFiniteSet(Units(procs))
  <1> DEFINE of == [k \in Process |-> {k} \X (1 .. procs[k].service)]
             S == {of[k] : k \in Process}
  <1>1. /\ IsFiniteSet(Process)
        /\ \A k \in Process : procs[k].service \in Nat
    BY Inputs
  <1>2. \A T \in S : IsFiniteSet(T)
    <2> SUFFICES ASSUME NEW k \in Process PROVE IsFiniteSet({k} \X (1 .. procs[k].service))
      OBVIOUS
    <2>1. IsFiniteSet(1 .. procs[k].service)
      BY <1>1, FS_Interval, 1 \in Int, procs[k].service \in Int
    <2>2. QED BY <2>1, FS_Singleton, FS_Product
  <1>3. Units(procs) = UNION S
    <2>1. ASSUME NEW u \in Units(procs) PROVE u \in UNION S
      <3>1. u[1] \in Process /\ u = <<u[1], u[2]>> /\ u[2] \in 1 .. procs[u[1]].service
        BY <1>1 DEF Units, Process
      <3>2. u \in of[u[1]]
        BY <3>1
      <3>3. QED BY <3>1, <3>2
    <2>2. ASSUME NEW u \in UNION S PROVE u \in Units(procs)
      <3>1. PICK k \in Process : u \in {k} \X (1 .. procs[k].service)
        OBVIOUS
      <3>2. QED BY <1>1, <3>1 DEF Units, Process
    <2>3. QED BY <2>1, <2>2
  <1>4. IsFiniteSet(S)
    <2>1. of \in Surjection(Process, S)
      <3>1. of \in [Process -> S]
        OBVIOUS
      <3>2. QED BY <3>1, Fun_IsSurj
    <2> HIDE DEF of, S
    <2>2. QED BY <1>1, <2>1, FS_Surjection
  <1> HIDE DEF S
  <1>5. QED BY <1>2, <1>3, <1>4, FS_UNION

\* Nobody who arrived is left over, even when the last time step was used.
LEMMA NobodyIsLeft ==
  ASSUME IInv, FitsInTime, phase = "done", NEW k \in Process, procs[k].arrival <= timestep
  PROVE  remaining[k] = 0
  <1>1. Typed /\ Counts /\ Ended
    BY DEF IInv
  <1>2. procs \in Workloads /\ remaining[k] \in Nat /\ procs[k].service \in Nat
        /\ timestep \in Nat /\ MAX_TIMESTEPS \in Nat
    BY <1>1, Inputs, Constants DEF Typed
  <1>3. CASE timestep # MAX_TIMESTEPS - 1
    BY <1>1, <1>3 DEF Ended
  <1>4. CASE timestep = MAX_TIMESTEPS - 1
    <2>1. IsFiniteSet(Units(procs)) /\ Cardinality(Units(procs)) <= MAX_TIMESTEPS - 1
          /\ Cardinality(Units(procs)) \in Nat
      BY <1>2, UnitsAreFinite, FS_CardinalityType DEF FitsInTime
    <2>2. IsFiniteSet(Served) /\ Cardinality(Served) = MAX_TIMESTEPS - 1
      BY <1>1, <1>4 DEF Counts
    <2>3. Served \in SUBSET Units(procs)
      <3>1. \A q \in Process : remaining[q] \in Nat /\ procs[q].service \in Nat
        BY <1>1, Inputs DEF Typed
      <3>2. QED BY <3>1 DEF Served, Units, Process
    <2>4. Cardinality(Served) <= Cardinality(Units(procs))
      BY <2>1, <2>3, FS_Subset
    <2>5. Cardinality(Units(procs)) = Cardinality(Served)
      BY <1>2, <2>1, <2>2, <2>4
    <2>6. Units(procs) = Served
      BY <2>1, <2>3, <2>5, FS_Subset
    <2> SUFFICES ASSUME remaining[k] # 0 PROVE FALSE
      OBVIOUS
    <2>7. remaining[k] <= procs[k].service
      <3>1. Cardinality(RunsOf(k)) \in Nat
            /\ Cardinality(RunsOf(k)) + remaining[k] = procs[k].service
        BY <1>1, FS_CardinalityType, phase # "init" DEF Counts
      <3>2. QED BY <1>2, <3>1
    <2>8. <<k, procs[k].service>> \in Units(procs)
      BY <1>2, <2>7 DEF Units, Process
    <2>9. <<k, procs[k].service>> \notin Served
      BY <1>2 DEF Served
    <2>10. QED BY <2>6, <2>8, <2>9
  <1>5. QED BY <1>3, <1>4

\* Nobody is still to come: all work that has come by now is done, and it is
\* as much as the time that has passed.
LEMMA NobodyIsToCome ==
  ASSUME IInv, FitsInTime, phase = "done", NoIdleGap, NEW k \in Process
  PROVE  procs[k].arrival <= timestep
  <1>1. Typed /\ Counts
    BY DEF IInv
  <1>2. /\ timestep \in Nat /\ procs[k].arrival \in Nat
        /\ \A q \in Process : procs[q].service \in Nat
    BY <1>1, Inputs, Constants DEF Typed
  <1>3. IsFiniteSet(Served) /\ Cardinality(Served) = timestep
    BY <1>1, phase # "init" DEF Counts
  <1>4. Work(timestep) \subseteq Served
    <2> SUFFICES ASSUME NEW q \in Process, procs[q].arrival <= timestep,
                        NEW u \in {q} \X (1 .. procs[q].service)
                 PROVE  u \in Served
      BY DEF Work
    <2>1. remaining[q] = 0
      BY NobodyIsLeft
    <2>2. u[1] = q /\ u[2] \in 1 .. procs[q].service /\ u = <<u[1], u[2]>>
      OBVIOUS
    <2>3. QED BY <1>2, <2>1, <2>2 DEF Served
  <1>5. Cardinality(Work(timestep)) <= timestep
    BY <1>3, <1>4, FS_Subset
  <1>6. Cardinality(Work(timestep)) \in Nat
    BY <1>3, <1>4, FS_Subset, FS_CardinalityType
  <1> SUFFICES ASSUME timestep < procs[k].arrival PROVE FALSE
    BY <1>2
  <1>7. timestep \in 0 .. procs[k].arrival - 1
    BY <1>2
  <1>8. Cardinality(Work(timestep)) > timestep
    BY <1>7 DEF NoIdleGap
  <1>9. QED BY <1>2, <1>5, <1>6, <1>8

(* If the work fits into the time there is and nobody arrives after a time *)
(* in which all work was done, everybody has been given his service time   *)
(* at the end of a schedule, no more and no less.                          *)
THEOREM ServedAtTheEnd == FitsInTime => (Spec => []ServedWithoutGaps)
  <1> SUFFICES ASSUME FitsInTime PROVE Spec => []ServedWithoutGaps
    OBVIOUS
  <1>1. IInv => ServedWithoutGaps
    <2> SUFFICES ASSUME IInv, NoIdleGap, phase = "done", NEW k \in Process
                 PROVE  Cardinality({n \in DOMAIN proc_names : proc_names[n] = k})
                          = procs[k].service
      BY DEF ServedWithoutGaps, EverybodyIsServed, TimeOf
    <2>1. Typed /\ Counts
      BY DEF IInv
    <2>2. {n \in DOMAIN proc_names : proc_names[n] = k} = RunsOf(k)
      <3>1. DOMAIN proc_names = 1 .. Len(proc_names)
        BY <2>1, LenProperties DEF Typed
      <3>2. QED BY <3>1 DEF RunsOf
    <2>3. /\ Cardinality(RunsOf(k)) \in Nat
          /\ Cardinality(RunsOf(k)) + remaining[k] = procs[k].service
      BY <2>1, FS_CardinalityType, phase # "init" DEF Counts
    <2>4. remaining[k] = 0
      BY NobodyIsToCome, NobodyIsLeft
    <2>5. QED BY <2>2, <2>3, <2>4
  <1>2. QED BY <1>1, InvariantHolds, PTL

-----------------------------------------------------------------------------
(* The choice of a time step.                                              *)

\* The process dispatched is the one recorded.
LEMMA RanIs ==
  ASSUME IInv, NEW s, Calls(s), NEW w \in 1 .. Len(ReadyList.items),
         Dispatch(ReadyList.items[w], ReadyList),
         user1' \in [Process -> Nat], user2' \in [Process -> Nat], user3' \in [Process -> Nat]
  PROVE  Ran = ReadyList.items[w] /\ Ran \in Viable
  <1>1. Leaves(w, ReadyList)
    BY DEF Leaves
  <1>2. QED BY <1>1, CalledWith, DispatchTyped DEF Ran

\* What the three schedulers run.
LEMMA SrtRuns ==
  ASSUME IInv, srt
  PROVE  \A k \in Viable : \/ remaining[Ran] < remaining[k]
                           \/ remaining[Ran] = remaining[k] /\ FirstCome(Ran, k)
  <1>1. /\ phase = "loop" /\ scheduler = "srt" /\ Len(ReadyList.items) > 0
        /\ Typed /\ Counts /\ Ready /\ Sorted /\ Calls("srt")
        /\ user1 \in [Process -> Nat] /\ user2 \in [Process -> Nat] /\ user3 \in [Process -> Nat]
    BY CalledWith DEF srt
  <1>2. PICK w \in 1 .. Len(ReadyList.items) :
           LET p == ReadyList.items[w] IN
           /\ Scan(ReadyList.items,
                   [r \in Process |-> {q \in Process : remaining[r] < remaining[q]}]) = p
           /\ \A k \in Viable : \/ remaining[p] < remaining[k]
                                \/ remaining[p] = remaining[k] /\ FirstCome(p, k)
    BY <1>1, SrtPicks
  <1>3. Dispatch(ReadyList.items[w], ReadyList)
    BY <1>2 DEF srt
  <1>4. Ran = ReadyList.items[w]
    BY <1>1, <1>3, RanIs DEF srt, users
  <1>5. QED BY <1>2, <1>4

LEMMA PreemptiveRuns ==
  ASSUME IInv, hpf_preemptive PROVE HighestFirst(Ran)
  <1>1. /\ phase = "loop" /\ scheduler = "hpf_preemptive" /\ Len(ReadyList.items) > 0
        /\ Typed /\ Counts /\ Ready /\ Sorted /\ Calls("hpf_preemptive")
        /\ user1 \in [Process -> Nat] /\ user2 \in [Process -> Nat] /\ user3 \in [Process -> Nat]
    BY CalledWith DEF hpf_preemptive
  <1>2. PICK w \in 1 .. Len(ReadyList.items) :
           /\ Scan(ReadyList.items, [p \in Process |-> {q \in Process : HigherPriority(p, q)}])
                = ReadyList.items[w]
           /\ HighestFirst(ReadyList.items[w])
    BY <1>1, PreemptivePicks
  <1>3. Dispatch(ReadyList.items[w], ReadyList)
    BY <1>2 DEF hpf_preemptive
  <1>4. Ran = ReadyList.items[w]
    BY <1>1, <1>3, RanIs DEF hpf_preemptive, users
  <1> HIDE DEF Ran
  <1>5. QED BY <1>2, <1>4

LEMMA NonPreemptiveRuns ==
  ASSUME IInv, hpf_non_preemptive
  PROVE  /\ GoesOn \/ HighestFirst(Ran)
         /\ GoesOn \/ ~Unfinished
  <1>1. /\ phase = "loop" /\ scheduler = "hpf_non_preemptive" /\ timestep < MAX_TIMESTEPS - 1
        /\ Len(ReadyList.items) > 0
        /\ Typed /\ Counts /\ Ready /\ Sorted /\ Marked /\ Calls("hpf_non_preemptive")
    BY CalledWith DEF hpf_non_preemptive
  <1>2. PICK w \in 1 .. Len(ReadyList.items) :
           LET p == ReadyList.items[w] IN
           /\ Scan(ReadyList.items, [r \in Process |->
                {q \in Process : user1[q] # 1 /\ HigherPriority(r, q)}]) = p
           /\ (RanLast(p) \/ ((\A k \in Process : remaining[k] > 0 => ~RanLast(k))
                              /\ HighestFirst(p)))
    BY <1>1, NonPreemptivePicks
  <1>3. /\ Dispatch(ReadyList.items[w], ReadyList)
        /\ user1' = [user1 EXCEPT ![ReadyList.items[w]] = 1]
    BY <1>2 DEF hpf_non_preemptive
  <1>4. user2' = user2 /\ user3' = user3
    BY DEF hpf_non_preemptive
  <1>5. user1' \in [Process -> Nat] /\ user2' \in [Process -> Nat] /\ user3' \in [Process -> Nat]
    BY <1>1, <1>2, <1>3, <1>4, DispatchMarked DEF Typed
  <1>6. Ran = ReadyList.items[w] /\ Ran \in Viable
    BY <1>1, <1>3, <1>5, RanIs
  <1> HIDE DEF Ran
  <1>7. CASE RanLast(Ran)
    BY <1>6, <1>7 DEF RanLast, GoesOn, Unfinished
  <1>8. CASE (\A k \in Process : remaining[k] > 0 => ~RanLast(k)) /\ HighestFirst(Ran)
    BY <1>8 DEF RanLast, Unfinished, Viable
  <1>9. QED BY <1>2, <1>6, <1>7, <1>8

\* The other steps run no process, or are of another scheduler.
LEMMA WhoSchedules ==
  ASSUME Next, Scheduled,
         scheduler \in {"srt", "hpf_preemptive", "hpf_non_preemptive"}
  PROVE  \/ scheduler = "srt" /\ srt
         \/ scheduler = "hpf_preemptive" /\ hpf_preemptive
         \/ scheduler = "hpf_non_preemptive" /\ hpf_non_preemptive
  BY DEF Next, Scheduled, Calls, StartSchedule, srt, round_robin, round_robin_q4,
         hpf_preemptive, hpf_non_preemptive, LotteryContinues, LotteryDraws, LotteryYields,
         EndSchedule, NextSchedule, Exited, Finished

(* At every time step srt runs a process with the shortest remaining time  *)
(* and hpf_preemptive one of the highest priority; hpf_non_preemptive goes *)
(* on with the one that ran until it has finished, and then runs one of    *)
(* the highest priority; of several such they run the one that came first. *)
THEOREM FirstBestIsPicked == Spec => PicksFirstBest
  <1> DEFINE Picks ==
        \A k \in Viable :
          /\ scheduler = "srt" =>
               \/ remaining[Ran] < remaining[k]
               \/ remaining[Ran] = remaining[k] /\ FirstCome(Ran, k)
          /\ scheduler \in {"hpf_preemptive", "hpf_non_preemptive"} =>
               \/ scheduler = "hpf_non_preemptive" /\ GoesOn
               \/ HigherPriority(Ran, k)
               \/ procs[Ran].priority = procs[k].priority /\ FirstCome(Ran, k)
          /\ scheduler = "hpf_non_preemptive" => GoesOn \/ ~Unfinished
  <1>1. ASSUME IInv, Next, Scheduled PROVE Picks
    <2>1. CASE scheduler = "srt"
      <3>1. srt
        BY <1>1, <2>1, WhoSchedules
      <3>2. \A k \in Viable : \/ remaining[Ran] < remaining[k]
                              \/ remaining[Ran] = remaining[k] /\ FirstCome(Ran, k)
        BY <1>1, <3>1, SrtRuns
      <3>3. QED BY <2>1, <3>2
    <2>2. CASE scheduler = "hpf_preemptive"
      <3>1. HighestFirst(Ran)
        BY <1>1, <2>2, WhoSchedules, PreemptiveRuns
      <3>2. QED BY <2>2, <3>1 DEF HighestFirst
    <2>3. CASE scheduler = "hpf_non_preemptive"
      <3>1. (GoesOn \/ HighestFirst(Ran)) /\ (GoesOn \/ ~Unfinished)
        BY <1>1, <2>3, WhoSchedules, NonPreemptiveRuns
      <3>2. QED BY <2>3, <3>1 DEF HighestFirst
    <2>4. QED BY <2>1, <2>2, <2>3
  <1>2. IInv /\ [Next]_vars => [Scheduled => Picks]_vars
    BY <1>1
  <1>3. QED BY <1>2, InvariantHolds, PTL DEF Spec, PicksFirstBest
=============================================================================
