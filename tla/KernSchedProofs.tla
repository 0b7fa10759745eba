-------------------------- MODULE KernSchedProofs --------------------------
(***************************************************************************)
(* The scheduler's theorems: the queues, the counts of the semaphores and  *)
(* the holders of the locks, for any number of threads and semaphores and      *)
(* whatever interrupts do, as long as none queues the thread it finds in   *)
(* one of the windows.                                                     *)
(***************************************************************************)
EXTENDS KernSchedProps, FiniteSetTheorems, TLAPS

R == INSTANCE VariableQueueProofs WITH Elems <- Threads, Heads <- Queued

----------------------------------------------------------------------------
(* Counting. *)

\* Induction, as a fact about sets.
LEMMA UpTo ==
  ASSUME NEW G \in SUBSET Nat, 0 \in G, \A n \in G : n + 1 \in G
  PROVE  G = Nat
<1> SUFFICES ASSUME NEW N \in Nat, N \notin G PROVE FALSE
  OBVIOUS
<1> DEFINE S == 1..N
           B == {X \in SUBSET S : \E n \in 0..N : X = 1..n /\ n \notin G}
<1>1. IsWellFoundedOn(StrictSubsetOrdering(S), SUBSET S)
  <2>1. IsFiniteSet(S)
    BY FS_Interval
  <2>2. FiniteSubsetsOf(S) = SUBSET S
    BY <2>1, FS_FiniteSubsetsOfFinite
  <2>3. IsWellFoundedOn(StrictSubsetOrdering(S), FiniteSubsetsOf(S))
    BY FS_StrictSubsetOrderingWellFounded
  <2> QED
    BY <2>2, <2>3
<1>2. B \subseteq SUBSET S /\ B # {}
  <2>1. S \in B
    BY N \in 0..N /\ S = 1..N /\ S \in SUBSET S
  <2> QED
    BY <2>1
<1>3. PICK X \in B : \A Y \in B : ~ (<<Y, X>> \in StrictSubsetOrdering(S))
  <2> HIDE DEF S, B
  <2> QED
    BY <1>1, <1>2, WFMin
<1>4. PICK n \in 0..N : X = 1..n /\ n \notin G
  OBVIOUS
<1>5. n # 0 /\ n - 1 \in 0..N /\ n - 1 \notin G
  <2>1. n \in Nat /\ n \notin G /\ 0 \in G
    BY <1>4
  <2>2. n # 0 /\ n - 1 \in 0..N /\ (n - 1) + 1 = n
    BY <2>1, <1>4
  <2> QED
    BY <2>1, <2>2
<1>6. 1..(n - 1) \in B
  BY <1>4, <1>5
<1>7. <<1..(n - 1), 1..n>> \in StrictSubsetOrdering(S)
  <2>1. 1..(n - 1) \subseteq 1..n /\ n \in 1..n /\ n \notin 1..(n - 1)
    BY <1>5
  <2>2. 1..(n - 1) # 1..n
    BY <2>1
  <2>3. 1..(n - 1) \in SUBSET S /\ 1..n \in SUBSET S
    BY <1>5
  <2> QED
    BY <2>1, <2>2, <2>3 DEF StrictSubsetOrdering
<1> QED
  BY <1>3, <1>4, <1>6, <1>7

\* From a, n steps of a function g lead through the sets T[0] to T[n].
Leads(n, S, T, a, g) ==
  /\ \A k \in 0..n : T[k] \subseteq S
  /\ a \in T[0]
  /\ \A k \in 1..n : \A w \in T[k - 1] : g[<<w, k>>] \in T[k]

IsCourse(f, n, S, T, a, g) ==
  /\ f \in [0..n -> S]
  /\ f[0] = a
  /\ \A k \in 1..n : f[k] = g[<<f[k - 1], k>>]
  /\ \A k \in 0..n : f[k] \in T[k]

\* There is such a course.
LEMMA Course ==
  ASSUME NEW n \in Nat, NEW S, NEW T, NEW a, NEW g, Leads(n, S, T, a, g)
  PROVE  \E f : IsCourse(f, n, S, T, a, g)
<1> DEFINE P(m, f) == IsCourse(f, m, S, T, a, g)
           G == {m \in Nat : m <= n => \E f : P(m, f)}
<1> USE DEF Leads, IsCourse
<1>1. 0 \in G
  <2>1. P(0, [i \in {0} |-> a])
    OBVIOUS
  <2> QED
    BY <2>1
<1>2. ASSUME NEW m \in G, m + 1 <= n
      PROVE  \E f : P(m + 1, f)
  <2>1. PICK f : P(m, f)
    BY <1>2
  <2> DEFINE h == [k \in 0..m + 1 |-> IF k = m + 1 THEN g[<<f[m], m + 1>>] ELSE f[k]]
  <2>2. f[m] \in T[m] /\ m + 1 \in 1..n /\ m \in Nat
    BY <2>1, <1>2
  <2>3. g[<<f[m], m + 1>>] \in T[m + 1] /\ T[m + 1] \subseteq S
    BY <2>2
  <2>4. h \in [0..m + 1 -> S] /\ h[m + 1] = g[<<f[m], m + 1>>] /\ \A k \in 0..m : h[k] = f[k]
    <3>1. f \in [0..m -> S]
      BY <2>1
    <3>2. ASSUME NEW k \in 0..m + 1, k # m + 1 PROVE k \in 0..m /\ f[k] \in S
      BY <2>2, <3>1, <3>2
    <3>3. m + 1 \in 0..m + 1 /\ \A k \in 0..m : k \in 0..m + 1 /\ k # m + 1
      BY <2>2
    <3> QED
      BY <2>3, <3>2, <3>3
  <2>5. P(m + 1, h)
    <3> HIDE DEF h
    <3>1. h[0] = a
      BY <2>1, <2>2, <2>4
    <3>2. ASSUME NEW k \in 1..m + 1 PROVE h[k] = g[<<h[k - 1], k>>]
      <4>1. k - 1 \in 0..m /\ (k = m + 1 \/ k \in 1..m) /\ 1..m \subseteq 0..m
        BY <2>2
      <4>2. k \in 1..m => f[k] = g[<<f[k - 1], k>>]
        BY <2>1
      <4>3. k = m + 1 => k - 1 = m
        BY <2>2
      <4> QED
        BY <2>4, <4>1, <4>2, <4>3
    <3>3. ASSUME NEW k \in 0..m + 1 PROVE h[k] \in T[k]
      BY <2>1, <2>2, <2>3, <2>4
    <3> QED
      BY <2>4, <3>1, <3>2, <3>3
  <2> QED
    BY <2>5
<1>3. \A m \in G : m + 1 \in G
  BY <1>2
<1>4. G = Nat
  <2> HIDE DEF G
  <2>1. G \in SUBSET Nat
    BY DEF G
  <2> QED
    BY <1>1, <1>3, <2>1, UpTo
<1>5. \E f : P(n, f)
  <2> HIDE DEF P
  <2> QED
    BY <1>4
<1> QED
  BY <1>5
----------------------------------------------------------------------------
(* Queues as lists. *)

\* The macros here are those the lemmas about lists speak of.
LEMMA SameMacros ==
  ASSUME NEW r, NEW h, NEW e
  PROVE  /\ QInsertTail(r, h, e) = R!QInsertTail(r, h, e)
         /\ QRemove(r, h, e) = R!QRemove(r, h, e)
         /\ QHeadEmpty(r, h) <=> R!QHeadEmpty(r, h)
BY DEF QInsertTail, R!QInsertTail, QRemove, R!QRemove, QHeadEmpty, R!QHeadEmpty, Foreign,
       R!Foreign, QElemStandAlone, R!QElemStandAlone

\* The scheduler's queues are records of rings as the ring lemmas know them.
LEMMA SameLinks == Queues = R!Queues /\ Nodes = R!Nodes /\ QInitial = R!QInitial
BY DEF Queues, R!Queues, Nodes, R!Nodes, QInitial, R!QInitial

\* and represent the same sequences.
LEMMA SameLists ==
  ASSUME NEW r, NEW h, NEW s
  PROVE  Represents(r, h, s) <=> R!Represents(r, h, s)
BY DEF Represents, R!Represents, Stop, R!Stop

\* A thread's link and a queue's head are different nodes.
LEMMA Apart == Threads \cap Queued = {} /\ {RunQ, SlackQ} \subseteq Queued /\ RunQ # SlackQ
BY KernSchedAssumption DEF Queued

\* Q_INSERT_TAIL of a thread on no queue.
LEMMA InsertLists ==
  ASSUME NEW r, NEW L, R!Rings(r, L), NEW h \in Queued, NEW e \in Threads, R!Free(L, e)
  PROVE  \E M : /\ R!Rings(QInsertTail(r, h, e), M)
                /\ M[h] = Append(L[h], e) /\ Len(M[h]) = Len(L[h]) + 1
                /\ \A g \in Queued \ {h} : M[g] = L[g]
                /\ \A g \in Queued, t \in Threads :
                     R!Holds(M, g, t) <=> R!Holds(L, g, t) \/ (g = h /\ t = e)
<1> DEFINE M == [L EXCEPT ![h] = Append(L[h], e)]
<1>1. R!Rings(QInsertTail(r, h, e), M)
  BY KernSchedAssumption, Apart, R!InsertTailRings, SameMacros
<1>2. L \in [Queued -> Seq(Threads)]
  BY DEF R!Rings
<1>3. /\ M[h] = Append(L[h], e) /\ Len(M[h]) = Len(L[h]) + 1 /\ Len(L[h]) \in Nat
      /\ \A i \in 1..Len(L[h]) : M[h][i] = L[h][i]
      /\ M[h][Len(L[h]) + 1] = e
      /\ \A g \in Queued \ {h} : M[g] = L[g]
  BY <1>2
<1> HIDE DEF M
<1>4. ASSUME NEW t \in Threads
      PROVE  R!Holds(M, h, t) <=> R!Holds(L, h, t) \/ t = e
  BY <1>3 DEF R!Holds
<1>5. ASSUME NEW g \in Queued, NEW t \in Threads
      PROVE  R!Holds(M, g, t) <=> R!Holds(L, g, t) \/ (g = h /\ t = e)
  <2>1. CASE g = h
    BY <2>1, <1>4
  <2>2. CASE g # h
    BY <2>2, <1>3 DEF R!Holds
  <2> QED
    BY <2>1, <2>2
<1> QED
  BY <1>1, <1>3, <1>5

\* Q_REMOVE of the k-th thread of a queue.
LEMMA RemoveLists ==
  ASSUME NEW r, NEW L, R!Rings(r, L), NEW h \in Queued, NEW k \in 1..Len(L[h])
  PROVE  \E M : /\ R!Rings(QRemove(r, h, L[h][k]), M)
                /\ R!Removal(L[h], k, M[h]) /\ R!Free(M, L[h][k])
                /\ \A g \in Queued \ {h} : M[g] = L[g]
                /\ \A g \in Queued, t \in Threads :
                     R!Holds(M, g, t) <=> R!Holds(L, g, t) /\ t # L[h][k]
<1> DEFINE s == L[h]
           t == [i \in 1..Len(s) - 1 |-> IF i < k THEN s[i] ELSE s[i + 1]]
           M == [L EXCEPT ![h] = t]
<1>1. L \in [Queued -> Seq(Threads)] /\ s \in Seq(Threads) /\ Len(s) \in Nat
  BY DEF R!Rings
<1>2. t \in Seq(Threads) /\ Len(t) = Len(s) - 1
      /\ \A i \in 1..Len(t) : t[i] = IF i < k THEN s[i] ELSE s[i + 1]
  <2>1. Len(s) - 1 \in Nat /\ \A i \in 1..Len(s) : s[i] \in Threads
    BY <1>1
  <2>2. t \in [1..Len(s) - 1 -> Threads]
    BY <2>1
  <2> QED
    BY <2>1, <2>2
<1> HIDE DEF t
<1>3. R!Removal(s, k, t)
  BY <1>2 DEF R!Removal
<1>4. R!Rings(QRemove(r, h, s[k]), M)
  <2>1. R!Rings(R!QRemove(r, h, s[k]), M)
    BY KernSchedAssumption, Apart, R!RemoveRings, <1>2, <1>3
  <2>2. QRemove(r, h, s[k]) = R!QRemove(r, h, s[k])
    BY SameMacros
  <2> QED
    BY <2>1, <2>2, Zenon
<1>5. M[h] = t /\ \A g \in Queued \ {h} : M[g] = L[g]
  BY <1>1
<1> HIDE DEF M
<1>6. /\ \A g1, g2 \in Queued : \A i \in 1..Len(L[g1]), j \in 1..Len(L[g2]) :
           L[g1][i] = L[g2][j] => g1 = g2
      /\ \A i, j \in 1..Len(s) : s[i] = s[j] => i = j
  BY DEF R!Rings, R!ApartIn, R!Represents
<1>7. ASSUME NEW u \in Threads
      PROVE  R!Holds(M, h, u) <=> R!Holds(L, h, u) /\ u # s[k]
  <2>1. ASSUME NEW i \in 1..Len(t)
        PROVE  \E j \in 1..Len(s) : j # k /\ t[i] = s[j]
    BY <1>1, <1>2
  <2>2. ASSUME NEW j \in 1..Len(s), j # k
        PROVE  \E i \in 1..Len(t) : t[i] = s[j]
    <3>1. CASE j < k
      <4>1. j \in 1..Len(t) /\ t[j] = s[j]
        BY <3>1, <1>1, <1>2
      <4> QED
        BY <4>1
    <3>2. CASE j > k
      <4>1. j - 1 \in 1..Len(t) /\ t[j - 1] = s[j]
        BY <3>2, <1>1, <1>2
      <4> QED
        BY <4>1
    <3>3. j < k \/ j > k
      BY <2>2, <1>1
    <3> QED
      BY <3>1, <3>2, <3>3
  <2> QED
    BY <1>5, <1>6, <2>1, <2>2 DEF R!Holds
<1>8. ASSUME NEW g \in Queued \ {h}, NEW u \in Threads
      PROVE  R!Holds(M, g, u) <=> R!Holds(L, g, u) /\ u # s[k]
  BY <1>5, <1>6 DEF R!Holds
<1>9. s[k] \in Threads
  BY <1>1
<1>10. R!Free(M, s[k])
  BY <1>7, <1>8, <1>9 DEF R!Free
<1> QED
  BY <1>3, <1>4, <1>5, <1>7, <1>8, <1>10

\* Q_REMOVE of a thread from a queue it is on, wherever it stands.
LEMMA TakeLists ==
  ASSUME NEW r, NEW L, R!Rings(r, L), NEW h \in Queued, NEW e \in Threads, R!Holds(L, h, e)
  PROVE  \E M : /\ R!Rings(QRemove(r, h, e), M) /\ R!Free(M, e)
                /\ Len(M[h]) = Len(L[h]) - 1
                /\ \A g \in Queued \ {h} : M[g] = L[g]
                /\ \A g \in Queued, t \in Threads :
                     R!Holds(M, g, t) <=> R!Holds(L, g, t) /\ t # e
<1>1. PICK k \in 1..Len(L[h]) : L[h][k] = e
  BY DEF R!Holds
<1> QED
  BY <1>1, RemoveLists DEF R!Removal

\* What is at the front of a queue.
LEMMA FrontOfQueue ==
  ASSUME NEW r, NEW L, R!Rings(r, L), NEW h \in Queued
  PROVE  /\ QHeadEmpty(r, h) <=> Len(L[h]) = 0
         /\ Len(L[h]) \in Nat
         /\ ~ QHeadEmpty(r, h) =>
              /\ r.next[h] = L[h][1] /\ r.next[h] \in Threads /\ r.next[h] \notin Queued
              /\ R!Holds(L, h, r.next[h])
<1>1. L[h] \in Seq(Threads) /\ Len(L[h]) \in Nat
  BY DEF R!Rings
<1>2. /\ r.next[h] = R!Stop(h, L[h], 1) /\ r.prev[h] = R!Stop(h, L[h], Len(L[h]))
      /\ \A k \in 1..Len(L[h]) : ~ QHeadEmpty(r, h)
  <2>1. /\ r.next[h] = R!Stop(h, L[h], 1) /\ r.prev[h] = R!Stop(h, L[h], Len(L[h]))
        /\ \A k \in 1..Len(L[h]) : ~ R!QHeadEmpty(r, h)
    BY KernSchedAssumption, Apart, R!Neighbours
  <2> QED
    BY <2>1 DEF QHeadEmpty, R!QHeadEmpty
<1>3. Len(L[h]) = 0 => QHeadEmpty(r, h)
  BY <1>2 DEF R!Stop, QHeadEmpty
<1>4. Len(L[h]) # 0 => 1 \in 1..Len(L[h]) /\ r.next[h] = L[h][1] /\ L[h][1] \in Threads
  BY <1>1, <1>2 DEF R!Stop
<1> QED
  BY <1>1, <1>2, <1>3, <1>4, Apart DEF R!Holds
----------------------------------------------------------------------------
(* The scheduler. *)

\* The same threads are on the same queues.
SameHolds(M, L) ==
  \A g \in Queued, t \in Threads : R!Holds(M, g, t) <=> R!Holds(L, g, t)

\* The choice comes from the run queue, and at most turns it.
LEMMA ChoiceLists ==
  ASSUME NEW r, NEW L, R!Rings(r, L)
  PROVE  /\ \E M : /\ R!Rings(Choice(r).queue, M) /\ SameHolds(M, L)
                   /\ \A g \in Queued \ {RunQ} : M[g] = L[g]
         /\ \/ Choice(r).thread = Idle
            \/ Choice(r).thread \in Threads /\ R!Holds(L, RunQ, Choice(r).thread)
<1> DEFINE front == r.next[RunQ]
<1>1. RunQ \in Queued
  BY Apart
<1>2. ~ QHeadEmpty(r, RunQ) => /\ front \in Threads /\ front \notin Queued
                               /\ R!Holds(L, RunQ, front)
  BY <1>1, FrontOfQueue
<1>3. CASE QHeadEmpty(r, RunQ)
  <2>1. Choice(r) = [thread |-> Idle, queue |-> r]
    BY <1>3 DEF Choice
  <2> QED
    BY <2>1 DEF SameHolds
<1>4. CASE ~ QHeadEmpty(r, RunQ) /\ ~ runFlag[front] < 0
  <2>1. Choice(r) = [thread |-> front, queue |-> r]
    BY <1>2, <1>4 DEF Choice
  <2> QED
    BY <1>2, <1>4, <2>1 DEF SameHolds
<1>5. CASE ~ QHeadEmpty(r, RunQ) /\ runFlag[front] < 0
  <2> DEFINE taken == QRemove(r, RunQ, front)
             put == QInsertTail(taken, RunQ, front)
  <2>1. Choice(r) = [thread |-> Idle, queue |-> put]
    BY <1>2, <1>5 DEF Choice
  <2>2. PICK A : /\ R!Rings(taken, A) /\ R!Free(A, front)
                 /\ \A g \in Queued \ {RunQ} : A[g] = L[g]
                 /\ \A g \in Queued, t \in Threads :
                      R!Holds(A, g, t) <=> R!Holds(L, g, t) /\ t # front
    BY <1>1, <1>2, <1>5, TakeLists
  <2>3. PICK M : /\ R!Rings(put, M)
                 /\ \A g \in Queued \ {RunQ} : M[g] = A[g]
                 /\ \A g \in Queued, t \in Threads :
                      R!Holds(M, g, t) <=> R!Holds(A, g, t) \/ (g = RunQ /\ t = front)
    BY <1>1, <1>2, <1>5, <2>2, InsertLists
  <2>4. \A g \in Queued : R!Holds(L, g, front) <=> g = RunQ
    BY <1>1, <1>2, <1>5 DEF R!Rings, R!ApartIn, R!Holds
  <2>5. SameHolds(M, L)
    BY <1>2, <1>5, <2>2, <2>3, <2>4 DEF SameHolds
  <2> QED
    BY <2>1, <2>2, <2>3, <2>5
<1> QED
  BY <1>3, <1>4, <1>5

\* schedule takes the thread it runs off the run queue, and puts the one that
\* ran there if it may run: no other queue changes.
LEMMA ScheduleLists ==
  ASSUME NEW r, NEW L, R!Rings(r, L), NEW b \in BOOLEAN, Schedule(r, b),
         cur \in Threads \cup {Idle},
         cur # Idle => ~ R!Holds(L, RunQ, cur) /\ (b => R!Free(L, cur))
  PROVE  /\ cur' \in Threads \cup {Idle}
         /\ cur' = cur => cur = Idle
         /\ cur' # Idle => R!Holds(L, RunQ, cur')
         /\ \E M : /\ R!Rings(q', M)
                   /\ \A g \in Queued \ {RunQ} : M[g] = L[g]
                   /\ \A t \in Threads :
                        R!Holds(M, RunQ, t) <=>
                          \/ R!Holds(L, RunQ, t) /\ t # cur'
                          \/ t = cur /\ b /\ cur' # cur
<1> DEFINE next == Choice(r).thread
           chosen == Choice(r).queue
           removed == IF next = Idle THEN chosen ELSE QRemove(chosen, RunQ, next)
<1>1. /\ cur' = next
      /\ next = cur => q' = chosen
      /\ next # cur => q' = IF cur # Idle /\ b THEN QInsertTail(removed, RunQ, cur) ELSE removed
  BY DEF Schedule
<1>2. PICK C : /\ R!Rings(chosen, C) /\ SameHolds(C, L)
               /\ \A g \in Queued \ {RunQ} : C[g] = L[g]
  BY ChoiceLists
<1>3. \/ next = Idle
      \/ next \in Threads /\ R!Holds(L, RunQ, next)
  BY ChoiceLists
<1>4. RunQ \in Queued /\ Idle \notin Threads
  BY Apart, KernSchedAssumption
<1> HIDE DEF next, chosen
<1>5. next # cur \/ next = Idle
  BY <1>3
<1>6. PICK D : /\ R!Rings(removed, D)
               /\ \A g \in Queued \ {RunQ} : D[g] = L[g]
               /\ \A g \in Queued, t \in Threads :
                    R!Holds(D, g, t) <=> R!Holds(L, g, t) /\ t # next
  <2>1. CASE next = Idle
    BY <2>1, <1>2, <1>4 DEF SameHolds
  <2>2. CASE next # Idle
    <3>1. next \in Threads /\ R!Holds(C, RunQ, next) /\ removed = QRemove(chosen, RunQ, next)
      BY <2>2, <1>2, <1>3, <1>4 DEF SameHolds
    <3> HIDE DEF removed
    <3>2. PICK D : /\ R!Rings(removed, D)
                   /\ \A g \in Queued \ {RunQ} : D[g] = C[g]
                   /\ \A g \in Queued, t \in Threads :
                        R!Holds(D, g, t) <=> R!Holds(C, g, t) /\ t # next
      BY <3>1, <1>2, <1>4, TakeLists
    <3> QED
      BY <3>2, <1>2 DEF SameHolds
  <2> QED
    BY <2>1, <2>2
<1>7. CASE next = cur
  <2>1. q' = chosen /\ cur' = cur /\ cur' = Idle
    BY <1>7, <1>1, <1>5
  <2> QED
    BY <2>1, <1>2, <1>4 DEF SameHolds
<1>8. CASE next # cur /\ ~ (cur # Idle /\ b)
  <2>1. q' = removed /\ cur' = next /\ cur' # cur
    BY <1>8, <1>1
  <2> HIDE DEF removed
  <2> QED
    BY <2>1, <1>3, <1>4, <1>6, <1>8
<1>9. CASE next # cur /\ cur # Idle /\ b
  <2>1. q' = QInsertTail(removed, RunQ, cur) /\ cur' = next /\ cur' # cur
    BY <1>9, <1>1
  <2> HIDE DEF removed
  <2>2. cur \in Threads /\ R!Free(D, cur)
    BY <1>6, <1>9 DEF R!Free
  <2>3. PICK M : /\ R!Rings(q', M)
                 /\ \A g \in Queued \ {RunQ} : M[g] = D[g]
                 /\ \A g \in Queued, t \in Threads :
                      R!Holds(M, g, t) <=> R!Holds(D, g, t) \/ (g = RunQ /\ t = cur)
    BY <2>1, <2>2, <1>4, <1>6, InsertLists
  <2> QED
    BY <2>1, <2>3, <1>3, <1>4, <1>6, <1>9
<1> QED
  BY <1>7, <1>8, <1>9
----------------------------------------------------------------------------
(* The tick. *)

\* The threads of a queue.
Members(L, h) == {t \in Threads : R!Holds(L, h, t)}

\* A queue is as long as it has threads: the list is one of Lists.
LEMMA LengthOfQueue ==
  ASSUME NEW r, NEW L, R!Rings(r, L), NEW h \in Queued
  PROVE  /\ L[h] \in SetToSeqs(Members(L, h)) /\ Members(L, h) \in SUBSET Threads
         /\ Len(L[h]) \in Nat /\ Cardinality(Threads) \in Nat
         /\ Len(L[h]) = Cardinality(Members(L, h)) /\ Len(L[h]) <= Cardinality(Threads)
<1> DEFINE s == L[h]
           S == Members(L, h)
<1>1. s \in Seq(Threads) /\ Len(s) \in Nat /\ s \in [1..Len(s) -> Threads]
  BY DEF R!Rings
<1>2. \A i, j \in 1..Len(s) : s[i] = s[j] => i = j
  BY DEF R!Rings, R!Represents
<1>3. S \in SUBSET Threads /\ IsFiniteSet(S) /\ IsFiniteSet(Threads)
  BY KernSchedAssumption, FS_Subset DEF Members
<1>4. s \in [1..Len(s) -> S] /\ \A t \in S : \E i \in 1..Len(s) : s[i] = t
  <2>1. \A i \in 1..Len(s) : s[i] \in S
    BY <1>1 DEF Members, R!Holds
  <2> QED
    BY <1>1, <2>1 DEF Members, R!Holds
<1>5. Cardinality(S) = Len(s)
  <2>1. s \in Bijection(1..Len(s), S)
    BY <1>2, <1>4 DEF Bijection, Injection, Surjection, IsInjective
  <2>2. ExistsBijection(1..Len(s), S)
    BY <2>1 DEF ExistsBijection
  <2> QED
    BY <2>2, <1>1, <1>3, FS_CountingElements
<1>6. Cardinality(S) <= Cardinality(Threads) /\ Cardinality(Threads) \in Nat
  BY <1>3, FS_Subset, FS_CardinalityType
<1>7. s \in SetToSeqs(S)
  BY <1>2, <1>4, <1>5 DEF SetToSeqs
<1> QED
  BY <1>1, <1>3, <1>5, <1>6, <1>7

\* A walk over the sleepers: its elements as Visit keeps them.
Walks == [queue : Queues, ticks : [Threads -> Int], at : Nodes, save : Nodes]

\* What a tick may do to queues L, with sleeping times st, to get queues M: it
\* moves sleepers with no time left to the run queue.
Woken(M, L, st) ==
  /\ \A g \in Queued \ {RunQ, SlackQ} : M[g] = L[g]
  /\ \A t \in Threads :
       /\ R!Holds(M, SlackQ, t) => R!Holds(L, SlackQ, t)
       /\ R!Holds(M, RunQ, t) <=>
            R!Holds(L, RunQ, t) \/ (R!Holds(L, SlackQ, t) /\ ~ R!Holds(M, SlackQ, t))
       /\ R!Holds(L, SlackQ, t) /\ ~ R!Holds(M, SlackQ, t) => st[t] <= 1

\* The walk w stands before the i-th of the sleepers that M has left.
WalkAt(w, M, i, L, st) ==
  /\ R!Rings(w.queue, M)
  /\ Woken(M, L, st)
  /\ i \in 1..Len(M[SlackQ]) + 1
  /\ w.at = R!Stop(SlackQ, M[SlackQ], i)
  /\ i <= Len(M[SlackQ]) => w.save = R!Stop(SlackQ, M[SlackQ], i + 1)
  /\ \A j \in i..Len(M[SlackQ]) : w.ticks[M[SlackQ][j]] = st[M[SlackQ][j]]

\* The sleepers a walk may have left after k of n rounds.
WalkedTo(n, k, L, st) ==
  {w \in Walks : \E M, i : WalkAt(w, M, i, L, st) /\ Len(M[SlackQ]) + 1 - i <= n - k}

\* A round that leaves the sleeper where it is.
LEMMA VisitSleeping ==
  ASSUME NEW L, NEW st \in [Threads -> Int], NEW w \in Walks, NEW M, NEW i,
         WalkAt(w, M, i, L, st), i <= Len(M[SlackQ]), w.ticks[w.at] > 1
  PROVE  Visit(w) \in Walks /\ WalkAt(Visit(w), M, i + 1, L, st)
<1> DEFINE s == M[SlackQ]
           v == Visit(w)
<1>1. /\ s \in Seq(Threads) /\ Len(s) \in Nat /\ i \in 1..Len(s)
      /\ w.queue \in Queues
  <2>1. w.queue \in Queues
    BY DEF Walks
  <2> QED
    BY <2>1, Apart DEF WalkAt, R!Rings
<1>2. /\ s[i] \in Threads /\ w.at = s[i] /\ w.save = R!Stop(SlackQ, s, i + 1)
      /\ w.ticks[w.at] \in Int
  BY <1>1 DEF WalkAt, R!Stop, Walks
<1>3. v = [queue |-> w.queue, ticks |-> [w.ticks EXCEPT ![w.at] = @ - 1],
           at |-> w.save, save |-> w.queue.next[w.save]]
  <2>1. w.ticks[w.at] - 1 > 0
    BY <1>2
  <2> QED
    BY <2>1, SMTT(30) DEF Visit
<1>4. w.save \in Nodes /\ w.queue.next[w.save] \in Nodes /\ w.ticks \in [Threads -> Int]
  BY <1>1 DEF Walks, Queues
<1>5. v \in Walks
  BY <1>1, <1>2, <1>3, <1>4 DEF Walks
<1>6. i + 1 <= Len(s) => w.queue.next[w.save] = R!Stop(SlackQ, s, i + 2)
  <2>1. R!Rings(w.queue, M) /\ SlackQ \in Queued
    BY Apart DEF WalkAt
  <2>2. \A k \in 1..Len(s) : w.queue.next[s[k]] = R!Stop(SlackQ, s, k + 1)
    BY <2>1, KernSchedAssumption, Apart, R!Neighbours
  <2> QED
    BY <2>2, <1>1, <1>2 DEF R!Stop
<1>7. \A j \in i + 1..Len(s) : s[j] # s[i] /\ s[j] \in Threads /\ j \in i..Len(s)
  BY <1>1, Apart DEF WalkAt, R!Rings, R!Represents
<1>8. \A j \in i + 1..Len(s) : v.ticks[s[j]] = st[s[j]]
  BY <1>2, <1>3, <1>4, <1>7 DEF WalkAt
<1> QED
  BY <1>1, <1>2, <1>3, <1>5, <1>6, <1>8 DEF WalkAt

\* A round that wakes the sleeper.
LEMMA VisitWaking ==
  ASSUME NEW L, NEW st \in [Threads -> Int], NEW w \in Walks, NEW M, NEW i,
         WalkAt(w, M, i, L, st), i <= Len(M[SlackQ]), ~ w.ticks[w.at] > 1
  PROVE  /\ Visit(w) \in Walks
         /\ \E N : WalkAt(Visit(w), N, i, L, st) /\ Len(N[SlackQ]) = Len(M[SlackQ]) - 1
<1> DEFINE s == M[SlackQ]
           e == s[i]
           taken == QRemove(w.queue, SlackQ, e)
           put == QInsertTail(taken, RunQ, e)
           v == Visit(w)
<1>1. /\ s \in Seq(Threads) /\ Len(s) \in Nat /\ i \in 1..Len(s)
      /\ R!Rings(w.queue, M) /\ SlackQ \in Queued /\ RunQ \in Queued /\ RunQ # SlackQ
      /\ Woken(M, L, st)
  BY Apart DEF WalkAt, R!Rings
<1>2. /\ e \in Threads /\ w.at = e /\ w.save = R!Stop(SlackQ, s, i + 1)
      /\ w.ticks[w.at] \in Int
  BY <1>1 DEF WalkAt, R!Stop, Walks
<1>3. v = [queue |-> put, ticks |-> [w.ticks EXCEPT ![e] = @ - 1],
           at |-> w.save, save |-> put.next[w.save]]
  <2>1. ~ w.ticks[w.at] - 1 > 0
    BY <1>2
  <2> QED
    BY <2>1, <1>2, SMTT(30) DEF Visit
<1>4. PICK A : /\ R!Rings(taken, A)
               /\ R!Removal(s, i, A[SlackQ]) /\ R!Free(A, e)
               /\ \A g \in Queued \ {SlackQ} : A[g] = M[g]
               /\ \A g \in Queued, t \in Threads :
                    R!Holds(A, g, t) <=> R!Holds(M, g, t) /\ t # e
  BY <1>1, RemoveLists, SMTT(30)
<1>5. PICK N : /\ R!Rings(put, N)
               /\ \A g \in Queued \ {RunQ} : N[g] = A[g]
               /\ \A g \in Queued, t \in Threads :
                    R!Holds(N, g, t) <=> R!Holds(A, g, t) \/ (g = RunQ /\ t = e)
  BY <1>1, <1>2, <1>4, InsertLists, SMTT(30)
<1> HIDE DEF put, taken, v
<1>6. /\ Len(N[SlackQ]) = Len(s) - 1
      /\ \A j \in 1..Len(s) - 1 : N[SlackQ][j] = IF j < i THEN s[j] ELSE s[j + 1]
  BY <1>1, <1>4, <1>5 DEF R!Removal
<1>7. /\ w.ticks \in [Threads -> Int] /\ w.save \in Nodes
      /\ put \in Queues /\ put.next[w.save] \in Nodes
  <2>1. put \in R!Queues
    BY <1>5 DEF R!Rings
  <2>2. put \in Queues
    BY <2>1, SameLinks
  <2> QED
    BY <2>2 DEF Walks, Queues
<1>8. v \in Walks
  BY <1>2, <1>3, <1>7 DEF Walks
<1>9. w.save = R!Stop(SlackQ, N[SlackQ], i)
  BY <1>1, <1>2, <1>6 DEF R!Stop
<1>10. i <= Len(N[SlackQ]) => put.next[w.save] = R!Stop(SlackQ, N[SlackQ], i + 1)
  <2>1. \A k \in 1..Len(N[SlackQ]) : put.next[N[SlackQ][k]] = R!Stop(SlackQ, N[SlackQ], k + 1)
    BY <1>1, <1>5, KernSchedAssumption, Apart, R!Neighbours
  <2> QED
    BY <2>1, <1>1, <1>6, <1>9 DEF R!Stop
<1>11. st[e] <= 1
  BY <1>1, <1>2 DEF WalkAt
<1>12. ASSUME NEW t \in Threads
       PROVE  /\ R!Holds(N, SlackQ, t) <=> R!Holds(M, SlackQ, t) /\ t # e
              /\ R!Holds(N, RunQ, t) <=> R!Holds(M, RunQ, t) \/ t = e
              /\ R!Holds(M, SlackQ, e)
  <2>1. R!Holds(M, SlackQ, e) /\ ~ R!Holds(M, RunQ, e)
    BY <1>1, Apart DEF R!Holds, R!Rings, R!ApartIn
  <2> QED
    BY <2>1, <1>1, <1>2, <1>4, <1>5
<1>13. Woken(N, L, st)
  <2>1. \A g \in Queued \ {RunQ, SlackQ} : N[g] = L[g]
    BY <1>1, <1>4, <1>5 DEF Woken
  <2>2. \A t \in Threads :
          /\ R!Holds(M, SlackQ, t) => R!Holds(L, SlackQ, t)
          /\ R!Holds(M, RunQ, t) <=>
               R!Holds(L, RunQ, t) \/ (R!Holds(L, SlackQ, t) /\ ~ R!Holds(M, SlackQ, t))
          /\ R!Holds(L, SlackQ, t) /\ ~ R!Holds(M, SlackQ, t) => st[t] <= 1
    BY <1>1, Zenon DEF Woken
  <2>3. ASSUME NEW t \in Threads
        PROVE  /\ R!Holds(N, SlackQ, t) => R!Holds(L, SlackQ, t)
               /\ R!Holds(N, RunQ, t) <=>
                    R!Holds(L, RunQ, t) \/ (R!Holds(L, SlackQ, t) /\ ~ R!Holds(N, SlackQ, t))
               /\ R!Holds(L, SlackQ, t) /\ ~ R!Holds(N, SlackQ, t) => st[t] <= 1
    BY <2>2, <1>2, <1>11, <1>12
  <2> QED
    BY <2>1, <2>3 DEF Woken
<1>14. \A j \in i..Len(N[SlackQ]) : v.ticks[N[SlackQ][j]] = st[N[SlackQ][j]]
  <2>1. \A j \in i + 1..Len(s) : s[j] # e /\ s[j] \in Threads /\ w.ticks[s[j]] = st[s[j]]
    <3>1. \A j, k \in 1..Len(s) : s[j] = s[k] => j = k
      BY <1>1 DEF R!Rings, R!Represents
    <3>2. \A j \in i..Len(s) : w.ticks[s[j]] = st[s[j]]
      BY DEF WalkAt
    <3>3. \A j \in i + 1..Len(s) : j \in 1..Len(s) /\ j # i /\ j \in i..Len(s)
      BY <1>1
    <3>4. \A j \in 1..Len(s) : s[j] \in Threads
      BY <1>1
    <3>5. ASSUME NEW j \in i + 1..Len(s)
          PROVE  s[j] # s[i] /\ s[j] \in Threads /\ w.ticks[s[j]] = st[s[j]]
      <4>1. j \in 1..Len(s) /\ j # i /\ j \in i..Len(s) /\ i \in 1..Len(s)
        BY <3>3, <1>1
      <4> HIDE DEF s
      <4> QED
        BY <3>1, <3>2, <3>4, <4>1
    <3> QED
      BY <3>5
  <2>2. \A j \in i + 1..Len(s) : v.ticks[s[j]] = st[s[j]]
    BY <2>1, <1>2, <1>3, <1>7
  <2>3. ASSUME NEW j \in i..Len(N[SlackQ])
        PROVE  j + 1 \in i + 1..Len(s) /\ N[SlackQ][j] = s[j + 1]
    <3>1. j \in 1..Len(N[SlackQ]) /\ ~ (j < i) /\ j + 1 \in i + 1..Len(s)
      BY <1>1, <1>6
    <3> QED
      BY <1>6, <3>1
  <2>4. ASSUME NEW j \in i..Len(N[SlackQ])
        PROVE  v.ticks[N[SlackQ][j]] = st[N[SlackQ][j]]
    <3>1. N[SlackQ][j] = s[j + 1] /\ v.ticks[s[j + 1]] = st[s[j + 1]]
      BY <2>2, <2>3
    <3> QED
      BY <3>1, Zenon
  <2> QED
    BY <2>4
<1>15. WalkAt(v, N, i, L, st)
  <2>1. /\ v.queue = put /\ v.at = w.save /\ v.save = put.next[w.save]
        /\ i \in 1..Len(N[SlackQ]) + 1
    BY <1>1, <1>3, <1>6
  <2> QED
    BY <2>1, <1>5, <1>9, <1>10, <1>13, <1>14 DEF WalkAt
<1> QED
  BY <1>6, <1>8, <1>15 DEF v

\* The choice of a round is of one.
LEMMA OneChoice ==
  ASSUME NEW x
  PROVE  (CHOOSE v \in {Round(w) : w \in {x}} : TRUE) = Round(x)
<1>1. {Round(w) : w \in {x}} = {Round(x)}
  OBVIOUS
<1> QED
  BY <1>1

\* sleep_bottom_half comes to its end, and has woken sleepers and done nothing
\* else.
LEMMA SweepLists ==
  ASSUME NEW r, NEW L, R!Rings(r, L), NEW st \in [Threads -> Int]
  PROVE  LET swept == Sweep(r, st, r.next[SlackQ])
         IN  /\ swept.ticks \in [Threads -> Int]
             /\ \E M : R!Rings(swept.queue, M) /\ Woken(M, L, st)
<1> DEFINE n == Cardinality(Threads)
           first == r.next[SlackQ]
           a == [queue |-> r, ticks |-> st, at |-> first, save |-> r.next[first]]
           G == Walks \X (1..n)
           g == [x \in G |-> Round(x[1])]
           T == [k \in 0..n |-> WalkedTo(n, k, L, st)]
           walk == CHOOSE f : f = [k \in 0..n |->
                     IF k = 0 THEN a
                     ELSE CHOOSE v \in {Round(w) : w \in {f[k - 1]}} : TRUE]
           s == L[SlackQ]
<1>1. /\ n \in Nat /\ s \in Seq(Threads) /\ Len(s) \in Nat /\ Len(s) <= n
      /\ SlackQ \in Queued /\ r \in Queues
  <2>1. r \in R!Queues
    BY DEF R!Rings
  <2> QED
    BY <2>1, Apart, LengthOfQueue, SameLinks DEF R!Rings
<1>2. a \in T[0]
  <2>1. first \in Nodes /\ r.next[first] \in Nodes
    BY <1>1 DEF Queues, Nodes
  <2>2. a \in Walks
    BY <2>1, <1>1 DEF Walks
  <2>3. first = R!Stop(SlackQ, s, 1)
    BY <1>1, KernSchedAssumption, Apart, R!Neighbours
  <2>4. 1 <= Len(s) => r.next[first] = R!Stop(SlackQ, s, 1 + 1)
    <3>1. \A k \in 1..Len(s) : r.next[s[k]] = R!Stop(SlackQ, s, k + 1)
      BY <1>1, KernSchedAssumption, Apart, R!Neighbours
    <3> QED
      BY <3>1, <2>3, <1>1 DEF R!Stop
  <2>5. Woken(L, L, st)
    BY DEF Woken
  <2>6. WalkAt(a, L, 1, L, st)
    BY <2>3, <2>4, <2>5, <1>1 DEF WalkAt
  <2>7. Len(L[SlackQ]) + 1 - 1 <= n - 0
    BY <1>1
  <2> HIDE DEF a
  <2>8. a \in WalkedTo(n, 0, L, st)
    BY <2>2, <2>6, <2>7 DEF WalkedTo
  <2> QED
    BY <2>8, <1>1
<1>3. ASSUME NEW k \in 1..n, NEW w \in T[k - 1]
      PROVE  g[<<w, k>>] \in T[k]
  <2>1. k - 1 \in 0..n /\ k \in 0..n /\ w \in WalkedTo(n, k - 1, L, st)
    BY <1>1
  <2>2. PICK M, i : w \in Walks /\ WalkAt(w, M, i, L, st) /\ Len(M[SlackQ]) + 1 - i <= n - (k - 1)
    BY <2>1 DEF WalkedTo
  <2>3. g[<<w, k>>] = IF w.at \in Queued THEN w ELSE Visit(w)
    BY <2>2 DEF Round
  <2>4. /\ M[SlackQ] \in Seq(Threads) /\ Len(M[SlackQ]) \in Nat
        /\ i \in 1..Len(M[SlackQ]) + 1
    BY <2>2, Apart DEF WalkAt, R!Rings
  <2>5. w.at \in Queued <=> ~ i <= Len(M[SlackQ])
    <3>1. i <= Len(M[SlackQ]) => w.at \in Threads
      BY <2>2, <2>4 DEF WalkAt, R!Stop
    <3>2. ~ i <= Len(M[SlackQ]) => w.at = SlackQ
      BY <2>2, <2>4 DEF WalkAt, R!Stop
    <3> QED
      BY <3>1, <3>2, Apart
  <2> HIDE DEF g, n
  <2>6. CASE ~ i <= Len(M[SlackQ])
    <3>1. Len(M[SlackQ]) + 1 - i <= n - k
      BY <2>4, <2>6, <1>1
    <3>2. w \in WalkedTo(n, k, L, st)
      BY <3>1, <2>2 DEF WalkedTo
    <3> QED
      BY <3>2, <2>1, <2>3, <2>5, <2>6
  <2>7. CASE i <= Len(M[SlackQ]) /\ w.ticks[w.at] > 1
    <3>1. Visit(w) \in Walks /\ WalkAt(Visit(w), M, i + 1, L, st)
      BY <2>2, <2>7, VisitSleeping
    <3>2. Len(M[SlackQ]) + 1 - (i + 1) <= n - k
      <4>1. /\ Len(M[SlackQ]) \in Int /\ i \in Int /\ n \in Int /\ k \in Int
            /\ Len(M[SlackQ]) + 1 - i <= n - (k - 1)
        BY <2>2, <2>4, <1>1
      <4> QED
        BY <4>1, SMTT(30)
    <3>3. Visit(w) \in WalkedTo(n, k, L, st)
      BY <3>1, <3>2 DEF WalkedTo
    <3> QED
      BY <3>3, <2>1, <2>3, <2>5, <2>7
  <2>8. CASE i <= Len(M[SlackQ]) /\ ~ w.ticks[w.at] > 1
    <3>1. PICK N : /\ Visit(w) \in Walks /\ WalkAt(Visit(w), N, i, L, st)
                   /\ Len(N[SlackQ]) = Len(M[SlackQ]) - 1
      BY <2>2, <2>8, VisitWaking
    <3>2. Len(N[SlackQ]) + 1 - i <= n - k
      <4>1. /\ Len(M[SlackQ]) \in Int /\ i \in Int /\ n \in Int /\ k \in Int
            /\ Len(M[SlackQ]) + 1 - i <= n - (k - 1)
        BY <2>2, <2>4, <1>1
      <4>2. Len(N[SlackQ]) = Len(M[SlackQ]) - 1
        BY <3>1
      <4> QED
        BY <4>1, <4>2, SMTT(30)
    <3>3. Visit(w) \in WalkedTo(n, k, L, st)
      BY <3>1, <3>2 DEF WalkedTo
    <3> QED
      BY <3>3, <2>1, <2>3, <2>5, <2>8
  <2> QED
    BY <2>6, <2>7, <2>8
<1>4. \A k \in 0..n : T[k] \subseteq Walks
  BY DEF WalkedTo
<1>5. PICK f : IsCourse(f, n, Walks, T, a, g)
  <2> HIDE DEF n, a, g, T
  <2>1. Leads(n, Walks, T, a, g)
    BY <1>2, <1>3, <1>4 DEF Leads
  <2> QED
    BY <2>1, <1>1, Course
<1>6. f = [k \in 0..n |-> IF k = 0 THEN a
                         ELSE CHOOSE v \in {Round(w) : w \in {f[k - 1]}} : TRUE]
  <2> HIDE DEF a, n
  <2>1. ASSUME NEW k \in 0..n, k # 0
        PROVE  f[k] = CHOOSE v \in {Round(w) : w \in {f[k - 1]}} : TRUE
    <3>1. k \in 1..n /\ k - 1 \in 0..n /\ f[k - 1] \in Walks
      BY <2>1, <1>1, <1>5 DEF IsCourse
    <3>2. f[k] = Round(f[k - 1])
      BY <3>1, <1>5 DEF IsCourse
    <3> QED
      BY <3>2, OneChoice
  <2> QED
    BY <2>1, <1>5 DEF IsCourse
<1>7. walk = [k \in 0..n |-> IF k = 0 THEN a
                            ELSE CHOOSE v \in {Round(w) : w \in {walk[k - 1]}} : TRUE]
  <2> HIDE DEF a, n
  <2> QED
    BY <1>6
<1>8. \A k \in 0..n : walk[k] = f[k]
  <2> DEFINE H == {k \in Nat : k <= n => walk[k] = f[k]}
  <2> HIDE DEF a, n, walk
  <2>1. 0 \in H
    BY <1>1, <1>6, <1>7
  <2>2. ASSUME NEW k \in H PROVE k + 1 \in H
    <3>1. CASE k + 1 <= n
      <4>1. k + 1 \in 0..n /\ k + 1 # 0 /\ (k + 1) - 1 = k /\ walk[k] = f[k]
        BY <3>1, <1>1
      <4>2. walk[k + 1] = CHOOSE v \in {Round(w) : w \in {walk[k]}} : TRUE
        BY <4>1, <1>7
      <4>3. f[k + 1] = CHOOSE v \in {Round(w) : w \in {f[k]}} : TRUE
        BY <4>1, <1>6
      <4> QED
        BY <4>1, <4>2, <4>3
    <3>2. CASE ~ k + 1 <= n
      BY <3>2
    <3> QED
      BY <3>1, <3>2
  <2>3. H = Nat
    <3> HIDE DEF H
    <3>1. H \in SUBSET Nat
      BY DEF H
    <3> QED
      BY <2>1, <2>2, <3>1, UpTo
  <2> QED
    BY <2>3
<1>9. walk[n] \in WalkedTo(n, n, L, st)
  <2> HIDE DEF walk, n
  <2>1. n \in 0..n
    BY <1>1
  <2> QED
    BY <2>1, <1>5, <1>8 DEF IsCourse
<1>10. Sweep(r, st, r.next[SlackQ]) =
         [queue |-> IF walk[n].at = SlackQ THEN walk[n].queue
                    ELSE [walk[n].queue EXCEPT !.wild = TRUE],
          ticks |-> walk[n].ticks]
  BY DEF Sweep
<1> HIDE DEF walk, n, a, g, T
<1>11. PICK M, i : /\ walk[n] \in Walks /\ WalkAt(walk[n], M, i, L, st)
                   /\ Len(M[SlackQ]) + 1 - i <= n - n
  BY <1>9 DEF WalkedTo
<1>12. walk[n].at = SlackQ
  <2>1. Len(M[SlackQ]) \in Nat /\ i \in 1..Len(M[SlackQ]) + 1
    BY <1>11, Apart DEF WalkAt, R!Rings
  <2>2. i = Len(M[SlackQ]) + 1
    BY <2>1, <1>1, <1>11
  <2> QED
    BY <2>1, <2>2, <1>11 DEF WalkAt, R!Stop
<1> QED
  BY <1>10, <1>11, <1>12 DEF WalkAt, Walks
----------------------------------------------------------------------------
(* The first state, and what a queue's list is. *)

\* The run queue that the threads of s were put on holds them all.
LEMMA EnqueuedLists ==
  ASSUME NEW s \in SetToSeqs(Threads)
  PROVE  \E L : /\ R!Rings(Enqueued(s), L)
                /\ \A t \in Threads : R!Holds(L, RunQ, t)
                /\ \A g \in Queued \ {RunQ} : L[g] = <<>>
<1> DEFINE n == Len(s)
           Filled(k) == {r \in Queues : \E L :
                           /\ R!Rings(r, L)
                           /\ \A t \in Threads : R!Holds(L, RunQ, t) <=> \E j \in 1..k : s[j] = t
                           /\ \A g \in Queued \ {RunQ} : L[g] = <<>>}
           T == [k \in 0..n |-> Filled(k)]
           G == Queues \X (1..n)
           step == [x \in G |-> QInsertTail(x[1], RunQ, s[x[2]])]
           fill == CHOOSE f : f = [k \in 0..n |->
                     IF k = 0 THEN QInitial ELSE QInsertTail(f[k - 1], RunQ, s[k])]
<1>1. /\ n \in Nat /\ n = Cardinality(Threads) /\ s \in [1..n -> Threads]
      /\ \A i, j \in 1..n : s[i] = s[j] => i = j
  <2>1. Cardinality(Threads) \in Nat /\ IsFiniteSet(Threads)
    BY KernSchedAssumption, FS_CardinalityType
  <2>2. /\ s \in [1..Cardinality(Threads) -> Threads]
        /\ \A i, j \in 1..Cardinality(Threads) : i # j => s[i] # s[j]
    BY DEF SetToSeqs
  <2>3. Len(s) = Cardinality(Threads)
    BY <2>1, <2>2
  <2> QED
    BY <2>1, <2>2, <2>3
<1>2. \A t \in Threads : \E j \in 1..n : s[j] = t
  <2>1. s \in Injection(1..n, Threads)
    BY <1>1 DEF Injection, IsInjective
  <2>2. Cardinality(1..n) = n
    BY <1>1, FS_Interval
  <2>3. s \in Surjection(1..n, Threads)
    BY <2>1, <2>2, <1>1, KernSchedAssumption, FS_Injection
  <2> QED
    BY <2>3 DEF Surjection
<1>3. QInitial \in Filled(0)
  <2> DEFINE L == [h \in Queued |-> <<>>]
  <2>1. R!Rings(QInitial, L)
    BY KernSchedAssumption, Apart, R!InitialRings, SameLinks
  <2>2. QInitial \in Queues
    BY <2>1, SameLinks DEF R!Rings
  <2>3. \A g \in Queued : L[g] = <<>>
    OBVIOUS
  <2> HIDE DEF L
  <2>4. \A t \in Threads : ~ R!Holds(L, RunQ, t)
    BY <2>3, Apart DEF R!Holds
  <2> QED
    BY <2>1, <2>2, <2>3, <2>4
<1>4. ASSUME NEW k \in 1..n, NEW r \in Filled(k - 1)
      PROVE  QInsertTail(r, RunQ, s[k]) \in Filled(k)
  <2>1. PICK L : /\ R!Rings(r, L)
                 /\ \A t \in Threads : R!Holds(L, RunQ, t) <=> \E j \in 1..k - 1 : s[j] = t
                 /\ \A g \in Queued \ {RunQ} : L[g] = <<>>
    OBVIOUS
  <2>2. s[k] \in Threads /\ RunQ \in Queued
    BY <1>1, Apart
  <2>3. R!Free(L, s[k])
    <3>1. ~ R!Holds(L, RunQ, s[k])
      BY <1>1, <2>1, <2>2
    <3>2. \A g \in Queued \ {RunQ} : ~ R!Holds(L, g, s[k])
      BY <2>1 DEF R!Holds
    <3> QED
      BY <3>1, <3>2 DEF R!Free
  <2> HIDE DEF n
  <2>4. PICK M : /\ R!Rings(QInsertTail(r, RunQ, s[k]), M)
                 /\ \A g \in Queued \ {RunQ} : M[g] = L[g]
                 /\ \A g \in Queued, t \in Threads :
                      R!Holds(M, g, t) <=> R!Holds(L, g, t) \/ (g = RunQ /\ t = s[k])
    BY <2>1, <2>2, <2>3, InsertLists
  <2>5. QInsertTail(r, RunQ, s[k]) \in Queues
    BY <2>4, SameLinks DEF R!Rings
  <2>6. \A t \in Threads : R!Holds(M, RunQ, t) <=> \E j \in 1..k : s[j] = t
    BY <1>1, <2>1, <2>2, <2>4
  <2> QED
    BY <2>1, <2>4, <2>5, <2>6
<1> HIDE DEF n, Filled
<1>5. Leads(n, Queues, T, QInitial, step)
  <2>1. \A k \in 0..n : T[k] = Filled(k) /\ Filled(k) \subseteq Queues
    BY DEF Filled
  <2>2. ASSUME NEW k \in 1..n, NEW w \in T[k - 1]
        PROVE  step[<<w, k>>] \in T[k]
    <3>1. k \in 0..n /\ k - 1 \in 0..n
      BY <1>1
    <3>2. w \in Queues /\ w \in Filled(k - 1)
      BY <2>1, <3>1
    <3>3. step[<<w, k>>] = QInsertTail(w, RunQ, s[k])
      BY <3>2
    <3> QED
      BY <1>4, <2>1, <3>1, <3>2, <3>3
  <2> HIDE DEF T, step
  <2>3. 0 \in 0..n
    BY <1>1
  <2> QED
    BY <1>3, <2>1, <2>2, <2>3 DEF Leads
<1>6. PICK f : IsCourse(f, n, Queues, T, QInitial, step)
  <2> HIDE DEF T, step
  <2> QED
    BY <1>1, <1>5, Course
<1>7. f = [k \in 0..n |-> IF k = 0 THEN QInitial ELSE QInsertTail(f[k - 1], RunQ, s[k])]
  <2>1. ASSUME NEW k \in 0..n, k # 0
        PROVE  f[k] = QInsertTail(f[k - 1], RunQ, s[k])
    <3>1. k \in 1..n /\ k - 1 \in 0..n /\ f[k - 1] \in Queues
      BY <2>1, <1>1, <1>6 DEF IsCourse
    <3> QED
      BY <3>1, <1>6 DEF IsCourse
  <2> QED
    BY <2>1, <1>6 DEF IsCourse
<1>8. fill = [k \in 0..n |-> IF k = 0 THEN QInitial ELSE QInsertTail(fill[k - 1], RunQ, s[k])]
  BY <1>7
<1>9. fill[n] = f[n]
  <2> DEFINE H == {k \in Nat : k <= n => fill[k] = f[k]}
  <2> HIDE DEF fill
  <2>1. 0 \in H
    BY <1>1, <1>7, <1>8
  <2>2. ASSUME NEW k \in H PROVE k + 1 \in H
    <3>1. CASE k + 1 <= n
      <4>1. k + 1 \in 0..n /\ k + 1 # 0 /\ (k + 1) - 1 = k /\ fill[k] = f[k]
        BY <3>1, <1>1
      <4>2. fill[k + 1] = QInsertTail(fill[k], RunQ, s[k + 1])
        BY <4>1, <1>8
      <4>3. f[k + 1] = QInsertTail(f[k], RunQ, s[k + 1])
        BY <4>1, <1>7
      <4> QED
        BY <4>1, <4>2, <4>3
    <3>2. CASE ~ k + 1 <= n
      BY <3>2
    <3> QED
      BY <3>1, <3>2
  <2>3. H = Nat
    <3> HIDE DEF H
    <3>1. H \in SUBSET Nat
      BY DEF H
    <3> QED
      BY <2>1, <2>2, <3>1, UpTo
  <2> QED
    BY <2>3, <1>1
<1>10. Enqueued(s) = fill[n]
  BY DEF Enqueued, n
<1>11. f[n] \in Filled(n)
  <2>1. n \in 0..n
    BY <1>1
  <2> QED
    BY <2>1, <1>6 DEF IsCourse
<1> HIDE DEF fill
<1> QED
  BY <1>2, <1>9, <1>10, <1>11 DEF Filled

\* A ring is the list of one queue only: its links leave no choice.
LEMMA OneList ==
  ASSUME NEW r, NEW h \in Queued, NEW s, NEW u,
         Len(s) \in Nat, Len(u) \in Nat, Represents(r, h, s), Represents(r, h, u)
  PROVE  Len(s) = Len(u) /\ \A i \in 1..Len(s) : s[i] = u[i]
<1> DEFINE n == Len(s)
           H == {i \in Nat : i <= n => Stop(h, s, i) = Stop(h, u, i)}
<1>1. Len(u) = n /\ n \in Nat
  BY DEF Represents
<1>2. /\ \A i \in 0..n : r.next[Stop(h, s, i)] = Stop(h, s, i + 1)
      /\ \A i \in 0..n : r.next[Stop(h, u, i)] = Stop(h, u, i + 1)
  BY <1>1 DEF Represents
<1> HIDE DEF n
<1>3. 0 \in H
  BY <1>1 DEF Stop, n
<1>4. ASSUME NEW i \in H PROVE i + 1 \in H
  <2>1. CASE i + 1 <= n
    <3>1. i \in 0..n /\ Stop(h, s, i) = Stop(h, u, i)
      BY <2>1, <1>1
    <3> QED
      BY <3>1, <1>2
  <2>2. CASE ~ i + 1 <= n
    BY <2>2
  <2> QED
    BY <2>1, <2>2
<1>5. H = Nat
  <2> HIDE DEF H
  <2>1. H \in SUBSET Nat
    BY DEF H
  <2> QED
    BY <1>3, <1>4, <2>1, UpTo
<1>6. \A i \in 1..n : Stop(h, s, i) = Stop(h, u, i)
  BY <1>1, <1>5
<1> QED
  BY <1>1, <1>6 DEF Stop, n

\* A queue that is a list is well formed, and its members are those on it: what
\* WellFormed and On say of the links p.
LEMMA ListOfQueue ==
  ASSUME NEW r, NEW L, R!Rings(r, L), NEW h \in Queued, NEW p, R!Represents(p, h, L[h])
  PROVE  /\ \E s \in Lists : Represents(p, h, s)
         /\ \A t \in Threads :
              (\E s \in Lists : t \in Range(s) /\ Represents(p, h, s)) <=> R!Holds(L, h, t)
<1>1. /\ L[h] \in Seq(Threads) /\ Len(L[h]) \in Nat /\ DOMAIN L[h] = 1..Len(L[h])
  BY DEF R!Rings
<1>2. L[h] \in Lists
  BY LengthOfQueue DEF Lists
<1>3. Represents(p, h, L[h])
  BY SameLists
<1>4. ASSUME NEW t \in Threads, R!Holds(L, h, t)
      PROVE  t \in Range(L[h])
  BY <1>1, <1>4 DEF Range, R!Holds
<1>5. ASSUME NEW t \in Threads, NEW u \in Lists, t \in Range(u), Represents(p, h, u)
      PROVE  R!Holds(L, h, t)
  <2>1. Len(u) \in Nat /\ DOMAIN u = 1..Len(u)
    <3>1. PICK S \in SUBSET Threads : u \in SetToSeqs(S)
      BY <1>5 DEF Lists
    <3>2. IsFiniteSet(S) /\ Cardinality(S) \in Nat /\ u \in [1..Cardinality(S) -> S]
      BY <3>1, KernSchedAssumption, FS_Subset, FS_CardinalityType DEF SetToSeqs
    <3> QED
      BY <3>2
  <2>2. Len(u) = Len(L[h]) /\ \A i \in 1..Len(u) : u[i] = L[h][i]
    BY <1>1, <1>3, <1>5, <2>1, OneList
  <2> QED
    BY <1>5, <2>1, <2>2 DEF Range, R!Holds
<1> QED
  BY <1>2, <1>3, <1>4, <1>5

----------------------------------------------------------------------------
(* The invariant. *)

\* A thread on no queue runs, a running thread is on none until it goes to
\* wait, and who waits on a semaphore's queue knows it.
Places(L) ==
  /\ \A t \in Threads : t # cur => ~ R!Free(L, t) /\ pc[t] \notin Windows
  /\ \A t \in Threads, h \in Queued : t = cur /\ R!Holds(L, h, t) =>
       (pc[t] = "sem_sched" /\ h = arg[t]) \/ (pc[t] = "sl_sched" /\ h = SlackQ)
  /\ \A t \in Threads : /\ pc[t] = "sem_sched" => R!Holds(L, arg[t], t)
                        /\ pc[t] = "sl_sched" => R!Holds(L, SlackQ, t)
  /\ \A t \in Threads, s \in Sems :
       R!Holds(L, s, t) => pc[t] \in {"sem_sched", "sem_ret"} /\ arg[t] = s
  /\ \A t \in Threads : pc[t] \in {"sem_sched", "sem_ret"} => arg[t] \in Sems
  /\ \A t \in Threads : pc[t] # "run" => holds[t] = {}

\* A semaphore's count and the length of its queue.
Counts(L) == \A s \in Sems : Len(L[s]) = IF count[s] < 0 THEN - count[s] ELSE 0

\* Granted, by the lists.
Has(L, t, s) == s \in holds[t] \/ (pc[t] = "sem_ret" /\ arg[t] = s /\ ~ R!Holds(L, s, t))

\* A lock is free or has one holder.
Holders(L) ==
  \A s \in Locks :
    /\ count[s] <= 1
    /\ count[s] > 0 <=> \A t \in Threads : ~ Has(L, t, s)
    /\ \A t, u \in Threads : Has(L, t, s) /\ Has(L, u, s) => t = u

\* The links are those of r, or r's with the running thread half inserted into
\* the sleepers' queue.
Linked(r) ==
  IF Inserting
  THEN /\ arg[cur] = r.prev[SlackQ]
       /\ q = IF pc[cur] = "sl_link"
              THEN [r EXCEPT !.next[cur] = SlackQ, !.prev[cur] = arg[cur]]
              ELSE [r EXCEPT !.next = [[@ EXCEPT ![cur] = SlackQ] EXCEPT ![arg[cur]] = cur],
                             !.prev[cur] = arg[cur]]
  ELSE q = r

InOrder(r, L) == R!Rings(r, L) /\ Linked(r) /\ Places(L) /\ Counts(L) /\ Holders(L)

\* The inductive invariant.
KInv == KTypeOK /\ \E r, L : InOrder(r, L)

----------------------------------------------------------------------------
(* Initially. *)

\* sched_init and init_threads leave every thread's list in order.
LEMMA KInitInv == KInit => KInv
<1> SUFFICES ASSUME KInit PROVE KInv
  OBVIOUS
<1>1. PICK s \in SetToSeqs(Threads) : q = Enqueued(s)
  BY DEF KInit
<1>2. PICK L : /\ R!Rings(q, L)
               /\ \A t \in Threads : R!Holds(L, RunQ, t)
               /\ \A g \in Queued \ {RunQ} : L[g] = <<>>
  BY <1>1, EnqueuedLists
<1>3. /\ RunQ \in Queued /\ RunQ \notin Sems /\ Sems \subseteq Queued /\ Idle \notin Threads
      /\ cur = Idle /\ q \in Queues
  BY <1>2, KernSchedAssumption, SameLinks DEF KInit, Queued, R!Rings
<1>4. KTypeOK
  <2>1. caught \in BOOLEAN
    BY DEF KInit
  <2>2. /\ runFlag \in [Threads -> FlagValues] /\ sleepticks \in [Threads -> Int]
        /\ count \in [Sems -> Int] /\ pc \in [Threads -> PCs]
        /\ arg \in [Threads -> Nodes] /\ holds \in [Threads -> SUBSET Locks]
    BY <1>3, KernSchedAssumption DEF KInit, FlagValues, PCs, Nodes
  <2> QED
    BY <1>3, <2>1, <2>2 DEF KTypeOK
<1>5. Linked(q)
  BY <1>3 DEF Linked, Inserting
<1>6. \A g \in Queued \ {RunQ}, t \in Threads : ~ R!Holds(L, g, t)
  BY <1>2 DEF R!Holds
<1>7. Places(L)
  BY <1>2, <1>3, <1>6 DEF Places, KInit, R!Free, Windows
<1>8. Counts(L)
  BY <1>2, <1>3 DEF Counts, KInit
<1>9. Holders(L)
  BY DEF Holders, KInit, Has, Sems
<1> QED
  BY <1>2, <1>4, <1>5, <1>7, <1>8, <1>9 DEF KInv, InOrder

----------------------------------------------------------------------------
(* What the parts of a step do. *)

\* Facts about the constants, for every step.
LEMMA Queues4 ==
  /\ Sems \subseteq Queued /\ RunQ \in Queued /\ SlackQ \in Queued
  /\ RunQ \notin Sems /\ SlackQ \notin Sems /\ RunQ # SlackQ
  /\ Queued = Sems \cup {RunQ, SlackQ}
  /\ Locks \subseteq Sems /\ Events \subseteq Sems /\ Locks \cap Events = {}
  /\ Idle \notin Threads /\ Threads \cap Queued = {} /\ Nodes = Threads \cup Queued
BY KernSchedAssumption DEF Queued, Sems, Nodes

\* sem_signal's first waiter, if there is one, moves to the run queue.
LEMMA SignalLists ==
  ASSUME KTypeOK, NEW L, R!Rings(q, L), Counts(L), NEW s \in Sems, SemSignal(s)
  PROVE  \E M : /\ R!Rings(q', M) /\ Counts(M)'
                /\ count' = [count EXCEPT ![s] = @ + 1]
                /\ \A g \in Queued \ {s, RunQ} : M[g] = L[g]
                /\ \/ count[s] >= 0 /\ M = L
                   \/ /\ count[s] < 0
                      /\ \E u \in Threads :
                           /\ R!Holds(L, s, u)
                           /\ \A g \in Queued, t \in Threads :
                                R!Holds(M, g, t) <=>
                                  IF t = u THEN g = RunQ ELSE R!Holds(L, g, t)
<1> DEFINE first == q.next[s]
<1>1. /\ s \in Queued /\ count \in [Sems -> Int] /\ count[s] \in Int
      /\ count' = [count EXCEPT ![s] = @ + 1]
  BY Queues4 DEF KTypeOK, SemSignal
<1>2. CASE count[s] >= 0
  <2>1. q' = q
    BY <1>2 DEF SemSignal
  <2>2. Counts(L)'
    BY <1>1, <1>2, Queues4 DEF Counts
  <2> QED
    BY <1>1, <1>2, <2>1, <2>2
<1>3. CASE count[s] < 0
  <2>1. Len(L[s]) = - count[s] /\ Len(L[s]) # 0
    BY <1>1, <1>3 DEF Counts
  <2>2. ~ QHeadEmpty(q, s) /\ first \in Threads /\ first \notin Queued /\ R!Holds(L, s, first)
    BY <1>1, <2>1, FrontOfQueue
  <2>3. q' = QInsertTail(QRemove(q, s, first), RunQ, first)
    BY <1>1, <1>3, <2>2 DEF SemSignal
  <2> HIDE DEF first
  <2>4. PICK A : /\ R!Rings(QRemove(q, s, first), A) /\ R!Free(A, first)
                 /\ Len(A[s]) = Len(L[s]) - 1
                 /\ \A g \in Queued \ {s} : A[g] = L[g]
                 /\ \A g \in Queued, t \in Threads :
                      R!Holds(A, g, t) <=> R!Holds(L, g, t) /\ t # first
    BY <1>1, <2>2, TakeLists
  <2>5. PICK M : /\ R!Rings(q', M)
                 /\ \A g \in Queued \ {RunQ} : M[g] = A[g]
                 /\ \A g \in Queued, t \in Threads :
                      R!Holds(M, g, t) <=> R!Holds(A, g, t) \/ (g = RunQ /\ t = first)
    BY <2>2, <2>3, <2>4, Queues4, InsertLists
  <2>6. ASSUME NEW g \in Sems
        PROVE  Len(M[g]) = IF count'[g] < 0 THEN - count'[g] ELSE 0
    <3>1. CASE g = s
      <4>1. M[s] = A[s] /\ count'[s] = count[s] + 1
        BY <1>1, <2>5, Queues4
      <4> QED
        BY <3>1, <4>1, <1>1, <1>3, <2>1, <2>4
    <3>2. CASE g # s
      <4>1. M[g] = L[g] /\ count'[g] = count[g]
        BY <3>2, <1>1, <2>4, <2>5, Queues4
      <4> QED
        BY <4>1 DEF Counts
    <3> QED
      BY <3>1, <3>2
  <2>7. Counts(M)'
    BY <2>6 DEF Counts
  <2>8. \A g \in Queued, t \in Threads :
          R!Holds(M, g, t) <=> IF t = first THEN g = RunQ ELSE R!Holds(L, g, t)
    BY <2>2, <2>4, <2>5
  <2> QED
    BY <1>1, <1>3, <2>2, <2>4, <2>5, <2>7, <2>8
<1> QED
  BY <1>1, <1>2, <1>3

\* A step that schedules: the running thread goes back to user space, or to the
\* run queue, or stays on the queue it waits on; nobody else moves but between
\* the sleepers and the run queue.
LEMMA ScheduleKeeps ==
  ASSUME KTypeOK, NEW L, Places(L), Counts(L), Holders(L), NEW M,
         cur' \in Threads \cup {Idle},
         \A g \in Sems : M[g] = L[g],
         \A t \in Threads : t = cur' <=> R!Free(M, t),
         pc' \in [Threads -> PCs], \A t \in Threads : pc'[t] \notin Windows,
         \A t \in Threads :
           \/ pc'[t] = pc[t] /\ arg'[t] = arg[t]
           \/ t = cur /\ pc[t] = "sem_sched" /\ pc'[t] = "sem_ret" /\ arg'[t] = arg[t]
           \/ t = cur /\ pc[t] \in {"sl_sched", "cas_sched"} /\ pc'[t] = "run",
         count' = count, holds' = holds
  PROVE  Places(M)' /\ Counts(M)' /\ Holders(M)'
<1>1. \A s \in Sems, t \in Threads : R!Holds(M, s, t) <=> R!Holds(L, s, t)
  BY DEF R!Holds
<1>2. \A t \in Threads, h \in Queued : t = cur' => ~ R!Holds(M, h, t)
  BY DEF R!Free
<1>3. ASSUME NEW t \in Threads, NEW s \in Sems, R!Holds(M, s, t)
      PROVE  pc'[t] \in {"sem_sched", "sem_ret"} /\ arg'[t] = s
  <2>1. R!Holds(L, s, t) /\ pc[t] \in {"sem_sched", "sem_ret"} /\ arg[t] = s
    BY <1>1, <1>3 DEF Places
  <2> QED
    BY <2>1
<1>4. \A t \in Threads : pc'[t] \in {"sem_sched", "sem_ret"} => arg'[t] \in Sems
  BY DEF Places
<1>5. \A t \in Threads : pc'[t] # "run" => holds'[t] = {}
  BY DEF Places
<1>6. Places(M)'
  <2>1. \A t \in Threads : t # cur' => ~ R!Free(M, t) /\ pc'[t] \notin Windows
    OBVIOUS
  <2>2. \A t \in Threads : pc'[t] # "sem_sched" /\ pc'[t] # "sl_sched"
    BY DEF Windows
  <2> QED
    BY <2>1, <2>2, <1>2, <1>3, <1>4, <1>5 DEF Places
<1>7. Counts(M)'
  BY DEF Counts
<1>8. ASSUME NEW t \in Threads, NEW s \in Locks
      PROVE  Has(M, t, s)' <=> Has(L, t, s)
  <2>1. s \in Sems
    BY Queues4
  <2>2. CASE pc'[t] = pc[t] /\ arg'[t] = arg[t]
    BY <2>1, <2>2, <1>1 DEF Has
  <2>3. CASE t = cur /\ pc[t] = "sem_sched" /\ pc'[t] = "sem_ret" /\ arg'[t] = arg[t]
    <3>1. R!Holds(L, arg[t], t) /\ arg[t] \in Sems /\ holds[t] = {}
      BY <2>3 DEF Places
    <3> QED
      BY <3>1, <2>1, <2>3, <1>1 DEF Has
  <2>4. CASE t = cur /\ pc[t] \in {"sl_sched", "cas_sched"} /\ pc'[t] = "run"
    BY <2>4 DEF Has
  <2> QED
    BY <2>2, <2>3, <2>4
<1>9. Holders(M)'
  BY <1>8 DEF Holders
<1> QED
  BY <1>6, <1>7, <1>9

\* The lists of a state in which no insertion is half done.
LEMMA Settled ==
  ASSUME KInv, ~ Inserting
  PROVE  \E L : R!Rings(q, L) /\ Places(L) /\ Counts(L) /\ Holders(L)
BY DEF KInv, InOrder, Linked

\* A thread runs in user space, or in the kernel but in no window.
LEMMA RunsFree ==
  ASSUME NEW L, Places(L), cur \in Threads, pc[cur] \notin Windows
  PROVE  R!Free(L, cur)
BY DEF Places, R!Free, Windows

\* A sweep puts nobody on a queue who was on none, so the running thread is where
\* schedule expects it.
LEMMA OffRunQueue ==
  ASSUME KTypeOK, NEW L, Places(L), NEW N, NEW st, Woken(N, L, st), NEW b \in BOOLEAN,
         b => (cur # Idle => pc[cur] \notin Windows),
         ~ b => cur \in Threads /\ pc[cur] \in {"sem_sched", "sl_sched"} /\ N = L
  PROVE  /\ \A t \in Threads : R!Free(N, t) <=> R!Free(L, t)
         /\ cur # Idle => ~ R!Holds(N, RunQ, cur) /\ (b => R!Free(N, cur))
<1>1. cur \in Threads \cup {Idle} /\ Idle \notin Threads
  BY Queues4 DEF KTypeOK
<1>2. \A t \in Threads : R!Free(N, t) <=> R!Free(L, t)
  <2>1. ASSUME NEW t \in Threads
        PROVE  /\ \A g \in Sems : R!Holds(N, g, t) <=> R!Holds(L, g, t)
               /\ R!Holds(N, SlackQ, t) => R!Holds(L, SlackQ, t)
               /\ R!Holds(N, RunQ, t) <=>
                    R!Holds(L, RunQ, t) \/ (R!Holds(L, SlackQ, t) /\ ~ R!Holds(N, SlackQ, t))
    BY Queues4 DEF Woken, R!Holds
  <2> QED
    BY <2>1, Queues4 DEF R!Free
<1>3. cur # Idle => ~ R!Holds(N, RunQ, cur) /\ (b => R!Free(N, cur))
  <2>1. CASE cur # Idle /\ b
    <3>1. cur \in Threads /\ R!Free(L, cur)
      BY <2>1, <1>1, RunsFree
    <3> QED
      BY <3>1, <1>2, Queues4 DEF R!Free
  <2>2. CASE cur # Idle /\ ~ b
    <3>1. arg[cur] # RunQ \/ pc[cur] # "sem_sched"
      BY <2>2, <1>1, Queues4 DEF Places
    <3> QED
      BY <2>2, <3>1, Queues4 DEF Places
  <2> QED
    BY <2>1, <2>2
<1> QED
  BY <1>2, <1>3

\* A step that schedules, after a tick's sweep of the sleepers or without one.
LEMMA ScheduleStep ==
  ASSUME KTypeOK, NEW L, R!Rings(q, L), Places(L), Counts(L), Holders(L),
         NEW r, NEW N, NEW st, R!Rings(r, N), Woken(N, L, st),
         NEW b \in BOOLEAN, Schedule(r, b),
         b => (cur # Idle => pc[cur] \notin Windows),
         ~ b => cur \in Threads /\ pc[cur] \in {"sem_sched", "sl_sched"} /\ N = L,
         pc' \in [Threads -> PCs], \A t \in Threads : pc'[t] \notin Windows,
         arg' \in [Threads -> Nodes], sleepticks' \in [Threads -> Int],
         \A t \in Threads :
           \/ pc'[t] = pc[t] /\ arg'[t] = arg[t]
           \/ t = cur /\ pc[t] = "sem_sched" /\ pc'[t] = "sem_ret" /\ arg'[t] = arg[t]
           \/ t = cur /\ pc[t] \in {"sl_sched", "cas_sched"} /\ pc'[t] = "run",
         UNCHANGED <<runFlag, count, holds>>, caught' \in BOOLEAN
  PROVE  KInv'
<1>1. cur \in Threads \cup {Idle} /\ Idle \notin Threads
  BY Queues4 DEF KTypeOK
<1>2. \A t \in Threads : R!Free(N, t) <=> R!Free(L, t)
  BY OffRunQueue
<1>3. cur # Idle => ~ R!Holds(N, RunQ, cur) /\ (b => R!Free(N, cur))
  BY OffRunQueue
<1>4. /\ cur' \in Threads \cup {Idle}
      /\ cur' = cur => cur = Idle
      /\ cur' # Idle => R!Holds(N, RunQ, cur')
  BY <1>1, <1>3, ScheduleLists
<1>5. PICK M : /\ R!Rings(q', M)
               /\ \A g \in Queued \ {RunQ} : M[g] = N[g]
               /\ \A t \in Threads :
                    R!Holds(M, RunQ, t) <=>
                      \/ R!Holds(N, RunQ, t) /\ t # cur'
                      \/ t = cur /\ b /\ cur' # cur
  BY <1>1, <1>3, ScheduleLists
<1>6. \A g \in Queued \ {RunQ}, t \in Threads : R!Holds(M, g, t) <=> R!Holds(N, g, t)
  BY <1>5 DEF R!Holds
<1>7. ASSUME NEW t \in Threads, t = cur'
      PROVE  R!Free(M, t)
  <2>1. R!Holds(N, RunQ, t) /\ ~ R!Holds(M, RunQ, t)
    BY <1>1, <1>4, <1>5, <1>7
  <2>2. \A g \in Queued \ {RunQ} : ~ R!Holds(N, g, t)
    <3>1. R!ApartIn(N)
      BY DEF R!Rings
    <3>2. PICK i \in 1..Len(N[RunQ]) : N[RunQ][i] = t
      BY <2>1 DEF R!Holds
    <3> QED
      BY <3>1, <3>2, Queues4 DEF R!ApartIn, R!Holds
  <2> QED
    BY <2>1, <2>2, <1>6 DEF R!Free
<1>8. ASSUME NEW t \in Threads, t # cur'
      PROVE  ~ R!Free(M, t)
  <2>1. CASE t # cur
    <3>1. ~ R!Free(N, t)
      BY <2>1, <1>2 DEF Places
    <3>2. PICK g \in Queued : R!Holds(N, g, t)
      BY <3>1 DEF R!Free
    <3> QED
      BY <3>2, <1>5, <1>6, <1>8 DEF R!Free
  <2>2. CASE t = cur /\ b
    <3>1. R!Holds(M, RunQ, t)
      BY <2>2, <1>5, <1>8
    <3> QED
      BY <3>1, Queues4 DEF R!Free
  <2>3. CASE t = cur /\ ~ b
    <3>1. PICK g \in Queued \ {RunQ} : R!Holds(L, g, t)
      BY <2>3, Queues4 DEF Places
    <3>2. R!Holds(M, g, t)
      BY <3>1, <2>3, <1>6
    <3> QED
      BY <3>1, <3>2 DEF R!Free
  <2> QED
    BY <2>1, <2>2, <2>3
<1>9. \A g \in Sems : M[g] = L[g]
  BY <1>5, Queues4 DEF Woken
<1>10. Places(M)' /\ Counts(M)' /\ Holders(M)'
  BY <1>4, <1>7, <1>8, <1>9, ScheduleKeeps
<1>11. KTypeOK'
  <2>1. q' \in Queues
    BY <1>5, SameLinks DEF R!Rings
  <2> QED
    BY <2>1, <1>4 DEF KTypeOK
<1>12. ~ Inserting'
  BY DEF Inserting, Windows
<1> QED
  BY <1>5, <1>10, <1>11, <1>12 DEF KInv, InOrder, Linked

----------------------------------------------------------------------------
(* The steps. *)

\* The idle thread's loop: thread_runnext alone.
LEMMA IdleLoopInv ==
  ASSUME KInv, IdleLoop
  PROVE  KInv'
<1>1. KTypeOK /\ ~ Inserting /\ cur = Idle /\ Idle \notin Threads
  BY Queues4 DEF KInv, IdleLoop, Inserting
<1>2. PICK L : R!Rings(q, L) /\ Places(L) /\ Counts(L) /\ Holders(L)
  BY <1>1, Settled
<1>3. Woken(L, L, sleepticks)
  BY DEF Woken
<1>4. \A t \in Threads : pc[t] \notin Windows
  BY <1>1, <1>2 DEF Places
<1> QED
  BY <1>1, <1>2, <1>3, <1>4, ScheduleStep DEF IdleLoop, KTypeOK

\* syscall_yield: the caller gives the processor away.
LEMMA YieldInv ==
  ASSUME KInv, NEW y \in Threads, Yield(y)
  PROVE  KInv'
<1>1. KTypeOK /\ ~ Inserting /\ cur = y /\ pc[y] = "run"
  BY DEF KInv, Yield, MayBlock, At, Inserting
<1>2. PICK L : R!Rings(q, L) /\ Places(L) /\ Counts(L) /\ Holders(L)
  BY <1>1, Settled
<1>3. Woken(L, L, sleepticks)
  BY DEF Woken
<1>4. \A t \in Threads : pc[t] \notin Windows
  BY <1>1, <1>2 DEF Places, Windows
<1> QED
  BY <1>1, <1>2, <1>3, <1>4, ScheduleStep DEF Yield, KTypeOK

\* sem_wait gives the processor away after queueing itself.
LEMMA SemSchedInv ==
  ASSUME KInv, NEW y \in Threads, SemSched(y)
  PROVE  KInv'
<1>1. KTypeOK /\ ~ Inserting /\ cur = y /\ pc[y] = "sem_sched"
  BY DEF KInv, SemSched, At, Inserting
<1>2. PICK L : R!Rings(q, L) /\ Places(L) /\ Counts(L) /\ Holders(L)
  BY <1>1, Settled
<1>3. Woken(L, L, sleepticks)
  BY DEF Woken
<1>4. /\ pc' = [pc EXCEPT ![y] = "sem_ret"] /\ pc \in [Threads -> PCs]
      /\ Schedule(q, FALSE) /\ UNCHANGED <<runFlag, sleepticks, count, arg, holds, caught>>
  BY <1>1 DEF SemSched, Goto, KTypeOK
<1>5. pc' \in [Threads -> PCs] /\ \A t \in Threads : pc'[t] = IF t = y THEN "sem_ret" ELSE pc[t]
  BY <1>4 DEF PCs
<1>6. \A t \in Threads : pc'[t] \notin Windows
  BY <1>1, <1>2, <1>5 DEF Places, Windows
<1>7. arg' \in [Threads -> Nodes] /\ sleepticks' \in [Threads -> Int] /\ caught' \in BOOLEAN
  BY <1>1, <1>4 DEF KTypeOK
<1> QED
  BY <1>1, <1>2, <1>3, <1>4, <1>5, <1>6, <1>7, ScheduleStep

\* syscall_sleep gives the processor away after queueing itself.
LEMMA SleepSchedInv ==
  ASSUME KInv, NEW y \in Threads, SleepSched(y)
  PROVE  KInv'
<1>1. KTypeOK /\ ~ Inserting /\ cur = y /\ pc[y] = "sl_sched"
  BY DEF KInv, SleepSched, At, Inserting
<1>2. PICK L : R!Rings(q, L) /\ Places(L) /\ Counts(L) /\ Holders(L)
  BY <1>1, Settled
<1>3. Woken(L, L, sleepticks)
  BY DEF Woken
<1>4. /\ pc' = [pc EXCEPT ![y] = "run"] /\ pc \in [Threads -> PCs]
      /\ arg' = [arg EXCEPT ![y] = RunQ] /\ arg \in [Threads -> Nodes] /\ RunQ \in Nodes
      /\ Schedule(q, FALSE) /\ UNCHANGED <<runFlag, sleepticks, count, holds, caught>>
  BY <1>1, Queues4 DEF SleepSched, Goto, KTypeOK
<1>5. pc' \in [Threads -> PCs] /\ \A t \in Threads : pc'[t] = IF t = y THEN "run" ELSE pc[t]
  BY <1>4 DEF PCs
<1>6. \A t \in Threads : pc'[t] \notin Windows
  BY <1>1, <1>2, <1>5 DEF Places, Windows
<1>7. /\ arg' \in [Threads -> Nodes] /\ sleepticks' \in [Threads -> Int] /\ caught' \in BOOLEAN
      /\ \A t \in Threads : t # y => arg'[t] = arg[t]
  BY <1>1, <1>4 DEF KTypeOK
<1> QED
  BY <1>1, <1>2, <1>3, <1>4, <1>5, <1>6, <1>7, ScheduleStep

\* syscall_cas2i_runflag gives the processor away at its end.
LEMMA CasSchedInv ==
  ASSUME KInv, NEW y \in Threads, CasSched(y)
  PROVE  KInv'
<1>1. KTypeOK /\ ~ Inserting /\ cur = y /\ pc[y] = "cas_sched"
  BY DEF KInv, CasSched, At, Inserting
<1>2. PICK L : R!Rings(q, L) /\ Places(L) /\ Counts(L) /\ Holders(L)
  BY <1>1, Settled
<1>3. Woken(L, L, sleepticks)
  BY DEF Woken
<1>4. /\ pc' = [pc EXCEPT ![y] = "run"] /\ pc \in [Threads -> PCs]
      /\ Schedule(q, TRUE) /\ UNCHANGED <<runFlag, sleepticks, count, arg, holds, caught>>
  BY <1>1 DEF CasSched, Goto, KTypeOK
<1>5. pc' \in [Threads -> PCs] /\ \A t \in Threads : pc'[t] = IF t = y THEN "run" ELSE pc[t]
  BY <1>4 DEF PCs
<1>6. \A t \in Threads : pc'[t] \notin Windows
  BY <1>1, <1>2, <1>5 DEF Places, Windows
<1>7. /\ arg' \in [Threads -> Nodes] /\ sleepticks' \in [Threads -> Int] /\ caught' \in BOOLEAN
      /\ cur # Idle => pc[cur] \notin Windows
  BY <1>1, <1>4 DEF KTypeOK, Windows
<1> QED
  BY <1>1, <1>2, <1>3, <1>4, <1>5, <1>6, <1>7, ScheduleStep

\* A tick that finds the running thread in no window.
LEMMA TickInv ==
  ASSUME KInv, Tick, ~ caught'
  PROVE  KInv'
<1>1. /\ KTypeOK /\ ~ Inserting
      /\ cur # Idle => pc[cur] \notin Windows
  BY Queues4 DEF KInv, KTypeOK, Tick, InWindow, Inserting, Windows
<1>2. PICK L : R!Rings(q, L) /\ Places(L) /\ Counts(L) /\ Holders(L)
  BY <1>1, Settled
<1> DEFINE swept == Sweep(q, sleepticks, q.next[SlackQ])
<1>3. /\ sleepticks' = swept.ticks /\ Schedule(swept.queue, TRUE)
      /\ UNCHANGED <<runFlag, count, pc, arg, holds>>
  BY DEF Tick
<1>4. /\ swept.ticks \in [Threads -> Int]
      /\ \E N : R!Rings(swept.queue, N) /\ Woken(N, L, sleepticks)
  BY <1>1, <1>2, SweepLists DEF KTypeOK
<1>5. PICK N : R!Rings(swept.queue, N) /\ Woken(N, L, sleepticks)
  BY <1>4
<1>6. \A t \in Threads : pc'[t] \notin Windows
  BY <1>1, <1>2, <1>3, Queues4 DEF Places, KTypeOK
<1>7. /\ pc' \in [Threads -> PCs] /\ arg' \in [Threads -> Nodes]
      /\ sleepticks' \in [Threads -> Int] /\ pc' = pc /\ arg' = arg /\ caught' \in BOOLEAN
  <2>1. caught' \in BOOLEAN
    BY DEF Tick, InWindow
  <2> QED
    BY <1>1, <1>3, <1>4, <2>1 DEF KTypeOK
<1> HIDE DEF swept
<1> QED
  BY <1>1, <1>2, <1>3, <1>5, <1>6, <1>7, ScheduleStep

\* The first half of sem_wait: the count, and the queue when there is none.
LEMMA SemWaitInv ==
  ASSUME KInv, NEW y \in Threads, NEW s \in Sems, SemWait(y, s)
  PROVE  KInv'
<1>1. /\ KTypeOK /\ ~ Inserting /\ cur = y /\ pc[y] = "run" /\ holds[y] = {}
      /\ s \in Queued /\ count[s] \in Int
  BY Queues4 DEF KInv, SemWait, MayBlock, At, Inserting, KTypeOK
<1>2. PICK L : R!Rings(q, L) /\ Places(L) /\ Counts(L) /\ Holders(L)
  BY <1>1, Settled
<1>3. R!Free(L, y)
  BY <1>1, <1>2, RunsFree DEF Windows
<1>4. /\ count' = [count EXCEPT ![s] = @ - 1]
      /\ arg' = [arg EXCEPT ![y] = s]
      /\ UNCHANGED <<cur, runFlag, sleepticks, holds, caught>>
  BY DEF SemWait
<1>5. /\ count \in [Sems -> Int] /\ arg \in [Threads -> Nodes] /\ s \in Nodes
      /\ pc \in [Threads -> PCs] /\ holds \in [Threads -> SUBSET Locks]
  BY <1>1, Queues4 DEF KTypeOK
<1>6. \A t \in Threads : arg'[t] = IF t = y THEN s ELSE arg[t]
  BY <1>4, <1>5
<1>7. \A g \in Sems : count'[g] = IF g = s THEN count[s] - 1 ELSE count[g]
  BY <1>4, <1>5
<1>8. CASE count[s] > 0
  <2>1. pc' = [pc EXCEPT ![y] = "sem_ret"] /\ q' = q
    BY <1>8 DEF SemWait, Goto
  <2>2. \A t \in Threads : pc'[t] = IF t = y THEN "sem_ret" ELSE pc[t]
    BY <2>1, <1>5
  <2>3. KTypeOK'
    BY <1>1, <1>4, <1>5, <1>7, <2>1 DEF KTypeOK, PCs
  <2>4. Linked(q)'
    BY <1>1, <1>4, <2>1, <2>2 DEF Linked, Inserting
  <2>5. Places(L)'
    <3>1. \A t \in Threads : t # cur' => ~ R!Free(L, t) /\ pc'[t] \notin Windows
      BY <1>1, <1>2, <1>4, <2>2 DEF Places
    <3>2. \A t \in Threads, h \in Queued : t = cur' => ~ R!Holds(L, h, t)
      BY <1>1, <1>3, <1>4 DEF R!Free
    <3>3. \A t \in Threads : pc'[t] # "sem_sched" /\ pc'[t] # "sl_sched"
      BY <1>1, <1>2, <2>2 DEF Places, Windows
    <3>4. \A t \in Threads, g \in Sems :
            R!Holds(L, g, t) => pc'[t] \in {"sem_sched", "sem_ret"} /\ arg'[t] = g
      BY <1>1, <1>2, <1>3, <1>6, <2>2, Queues4 DEF Places, R!Free
    <3>5. \A t \in Threads : pc'[t] \in {"sem_sched", "sem_ret"} => arg'[t] \in Sems
      BY <1>2, <1>6, <2>2 DEF Places
    <3>6. \A t \in Threads : pc'[t] # "run" => holds'[t] = {}
      BY <1>1, <1>2, <1>4, <2>2 DEF Places
    <3> QED
      BY <3>1, <3>2, <3>3, <3>4, <3>5, <3>6 DEF Places
  <2>6. Counts(L)'
    BY <1>1, <1>2, <1>5, <1>7, <1>8 DEF Counts
  <2>7. ASSUME NEW g \in Locks, NEW t \in Threads
        PROVE  Has(L, t, g)' <=> IF t = y THEN g = s ELSE Has(L, t, g)
    BY <1>1, <1>3, <1>4, <1>6, <2>2, Queues4 DEF Has, R!Free
  <2>8. Holders(L)'
    <3>1. ASSUME NEW g \in Locks
          PROVE  /\ count'[g] <= 1
                 /\ count'[g] > 0 <=> \A t \in Threads : ~ Has(L, t, g)'
                 /\ \A t, u \in Threads : Has(L, t, g)' /\ Has(L, u, g)' => t = u
      <4>1. /\ count[g] <= 1 /\ g \in Sems /\ count[g] \in Int
            /\ count[g] > 0 <=> \A t \in Threads : ~ Has(L, t, g)
            /\ \A t, u \in Threads : Has(L, t, g) /\ Has(L, u, g) => t = u
        BY <1>2, <1>5, Queues4 DEF Holders
      <4>2. ~ Has(L, y, g)
        BY <1>1 DEF Has
      <4> QED
        BY <4>1, <4>2, <1>7, <1>8, <2>7
    <3> QED
      BY <3>1 DEF Holders
  <2> QED
    BY <1>2, <2>1, <2>3, <2>4, <2>5, <2>6, <2>8 DEF KInv, InOrder
<1>9. CASE ~ count[s] > 0
  <2>1. pc' = [pc EXCEPT ![y] = "sem_sched"] /\ q' = QInsertTail(q, s, y)
    BY <1>9 DEF SemWait, Goto
  <2>2. \A t \in Threads : pc'[t] = IF t = y THEN "sem_sched" ELSE pc[t]
    BY <2>1, <1>5
  <2>3. PICK M : /\ R!Rings(q', M)
                 /\ Len(M[s]) = Len(L[s]) + 1
                 /\ \A g \in Queued \ {s} : M[g] = L[g]
                 /\ \A g \in Queued, t \in Threads :
                      R!Holds(M, g, t) <=> R!Holds(L, g, t) \/ (g = s /\ t = y)
    BY <1>1, <1>2, <1>3, <2>1, InsertLists
  <2>4. KTypeOK'
    <3>1. q' \in Queues
      BY <2>3, SameLinks DEF R!Rings
    <3>2. /\ count' \in [Sems -> Int] /\ pc' \in [Threads -> PCs]
          /\ arg' \in [Threads -> Nodes]
      BY <1>1, <1>4, <1>5, <2>1 DEF PCs, Windows
    <3> QED
      BY <3>1, <3>2, <1>1, <1>4 DEF KTypeOK
  <2>5. Linked(q)'
    BY <1>1, <1>4, <2>1, <2>2 DEF Linked, Inserting
  <2>6. Places(M)'
    <3>1. \A t \in Threads : t # cur' => ~ R!Free(M, t) /\ pc'[t] \notin Windows
      BY <1>1, <1>2, <1>4, <2>2, <2>3 DEF Places, R!Free
    <3>2. \A h \in Queued : R!Holds(M, h, y) <=> h = s
      BY <1>3, <2>3 DEF R!Free
    <3>3. \A t \in Threads : t # y => pc'[t] # "sem_sched" /\ pc'[t] # "sl_sched"
      BY <1>1, <1>2, <2>2 DEF Places, Windows
    <3>4. \A t \in Threads, g \in Sems :
            R!Holds(M, g, t) => pc'[t] \in {"sem_sched", "sem_ret"} /\ arg'[t] = g
      BY <1>1, <1>2, <1>3, <1>6, <2>2, <2>3, <3>2, Queues4 DEF Places
    <3>5. \A t \in Threads : pc'[t] \in {"sem_sched", "sem_ret"} => arg'[t] \in Sems
      BY <1>2, <1>6, <2>2 DEF Places
    <3>6. \A t \in Threads : pc'[t] # "run" => holds'[t] = {}
      BY <1>1, <1>2, <1>4, <2>2 DEF Places
    <3>7. cur' = y /\ pc'[y] = "sem_sched" /\ arg'[y] = s
      BY <1>1, <1>4, <1>6, <2>2
    <3> QED
      BY <1>1, <3>1, <3>2, <3>3, <3>4, <3>5, <3>6, <3>7 DEF Places
  <2>7. Counts(M)'
    <3>1. ASSUME NEW g \in Sems
          PROVE  Len(M[g]) = IF count'[g] < 0 THEN - count'[g] ELSE 0
      BY <1>1, <1>2, <1>5, <1>7, <1>9, <2>3, Queues4 DEF Counts
    <3> QED
      BY <3>1 DEF Counts
  <2>8. ASSUME NEW g \in Locks, NEW t \in Threads
        PROVE  Has(M, t, g)' <=> Has(L, t, g)
    BY <1>1, <1>4, <1>6, <2>2, <2>3, Queues4 DEF Has
  <2>9. Holders(M)'
    <3>1. ASSUME NEW g \in Locks
          PROVE  count'[g] <= 1 /\ (count'[g] > 0 <=> count[g] > 0)
      BY <1>2, <1>5, <1>7, <1>9, Queues4 DEF Holders
    <3> QED
      BY <3>1, <2>8, <1>2 DEF Holders
  <2> QED
    BY <2>3, <2>4, <2>5, <2>6, <2>7, <2>9 DEF KInv, InOrder
<1> QED
  BY <1>8, <1>9

\* sem_wait returns, and a lock has its holder.
LEMMA SemRetInv ==
  ASSUME KInv, NEW y \in Threads, SemRet(y)
  PROVE  KInv'
<1>1. KTypeOK /\ ~ Inserting /\ cur = y /\ pc[y] = "sem_ret"
  BY DEF KInv, SemRet, At, Inserting
<1>2. PICK L : R!Rings(q, L) /\ Places(L) /\ Counts(L) /\ Holders(L)
  BY <1>1, Settled
<1>3. R!Free(L, y) /\ holds[y] = {} /\ arg[y] \in Sems
  BY <1>1, <1>2, RunsFree DEF Windows, Places
<1>4. /\ holds' = [holds EXCEPT ![y] = IF arg[y] \in Locks THEN @ \cup {arg[y]} ELSE @]
      /\ arg' = [arg EXCEPT ![y] = RunQ] /\ pc' = [pc EXCEPT ![y] = "run"]
      /\ UNCHANGED <<cur, q, runFlag, sleepticks, count, caught>>
  BY DEF SemRet, Goto
<1>5. /\ arg \in [Threads -> Nodes] /\ RunQ \in Nodes
      /\ pc \in [Threads -> PCs] /\ holds \in [Threads -> SUBSET Locks]
  BY <1>1, Queues4 DEF KTypeOK
<1>6. \A t \in Threads :
        /\ arg'[t] = IF t = y THEN RunQ ELSE arg[t]
        /\ pc'[t] = IF t = y THEN "run" ELSE pc[t]
        /\ t # y => holds'[t] = holds[t]
        /\ holds'[y] = {arg[y]} \cap Locks
  BY <1>3, <1>4, <1>5
<1>7. KTypeOK'
  <2>1. holds' \in [Threads -> SUBSET Locks] /\ arg' \in [Threads -> Nodes] /\ pc' \in [Threads -> PCs]
    BY <1>4, <1>5 DEF PCs
  <2> QED
    BY <2>1, <1>1, <1>4 DEF KTypeOK
<1>8. Linked(q)'
  BY <1>1, <1>4, <1>6 DEF Linked, Inserting
<1>9. Places(L)'
  <2>1. \A t \in Threads : t # cur' => ~ R!Free(L, t) /\ pc'[t] \notin Windows
    BY <1>1, <1>2, <1>4, <1>6 DEF Places
  <2>2. \A t \in Threads, h \in Queued : t = cur' => ~ R!Holds(L, h, t)
    BY <1>1, <1>3, <1>4 DEF R!Free
  <2>3. \A t \in Threads : pc'[t] # "sem_sched" /\ pc'[t] # "sl_sched"
    BY <1>1, <1>2, <1>6 DEF Places, Windows
  <2>4. \A t \in Threads, g \in Sems :
          R!Holds(L, g, t) => pc'[t] \in {"sem_sched", "sem_ret"} /\ arg'[t] = g
    BY <1>1, <1>2, <1>3, <1>6, Queues4 DEF Places, R!Free
  <2>5. \A t \in Threads : pc'[t] \in {"sem_sched", "sem_ret"} => arg'[t] \in Sems
    BY <1>2, <1>6 DEF Places
  <2>6. \A t \in Threads : pc'[t] # "run" => holds'[t] = {}
    BY <1>2, <1>6 DEF Places
  <2> QED
    BY <2>1, <2>2, <2>3, <2>4, <2>5, <2>6 DEF Places
<1>10. Counts(L)'
  BY <1>2, <1>4 DEF Counts
<1>11. ASSUME NEW g \in Locks, NEW t \in Threads
       PROVE  Has(L, t, g)' <=> Has(L, t, g)
  BY <1>1, <1>3, <1>6, Queues4 DEF Has, R!Free
<1>12. Holders(L)'
  BY <1>2, <1>4, <1>11 DEF Holders
<1> QED
  BY <1>2, <1>4, <1>7, <1>8, <1>9, <1>10, <1>12 DEF KInv, InOrder

\* A signal, by the thread that holds the lock, or of an event.
LEMMA SignalStep ==
  ASSUME KTypeOK, ~ Inserting,
         NEW L, R!Rings(q, L), Places(L), Counts(L), Holders(L),
         cur # Idle => pc[cur] \notin Windows,
         NEW s \in Sems, SemSignal(s), UNCHANGED <<cur, runFlag, sleepticks, pc, arg>>,
         caught' \in BOOLEAN,
         holds' \in [Threads -> SUBSET Locks], \A t \in Threads : holds'[t] = holds[t] \ {s},
         s \in Locks => \E y \in Threads : s \in holds[y]
  PROVE  KInv'
<1>1. /\ cur \in Threads \cup {Idle} /\ Idle \notin Threads /\ s \in Queued
      /\ count \in [Sems -> Int] /\ RunQ # s
  BY Queues4 DEF KTypeOK
<1>2. PICK M : /\ R!Rings(q', M) /\ Counts(M)'
               /\ count' = [count EXCEPT ![s] = @ + 1]
               /\ \/ count[s] >= 0 /\ M = L
                  \/ /\ count[s] < 0
                     /\ \E u \in Threads :
                          /\ R!Holds(L, s, u)
                          /\ \A g \in Queued, t \in Threads :
                               R!Holds(M, g, t) <=>
                                 IF t = u THEN g = RunQ ELSE R!Holds(L, g, t)
  BY SignalLists
<1>3. \A t \in Threads : pc[t] \notin Windows
  BY <1>1 DEF Places
<1>4. \A t \in Threads : t = cur => R!Free(L, t)
  BY <1>1, RunsFree
<1>5. KTypeOK'
  <2>1. q' \in Queues /\ count' \in [Sems -> Int]
    <3>1. q' \in Queues
      BY <1>2, SameLinks DEF R!Rings
    <3>2. count' \in [Sems -> Int]
      BY <1>1, <1>2
    <3> QED
      BY <3>1, <3>2
  <2> QED
    BY <2>1 DEF KTypeOK
<1>6. ~ Inserting'
  BY <1>3 DEF Inserting, Windows
<1>7. \A t \in Threads : t # cur => ~ R!Free(M, t)
  BY <1>2, Queues4 DEF Places, R!Free
<1>8. \A t \in Threads, g \in Queued : t = cur => ~ R!Holds(M, g, t)
  BY <1>1, <1>2, <1>4 DEF R!Free
<1>9. \A t \in Threads, g \in Sems : R!Holds(M, g, t) => R!Holds(L, g, t)
  BY <1>2, Queues4
<1>10. Places(M)'
  <2>1. \A t \in Threads : t # cur' => ~ R!Free(M, t) /\ pc'[t] \notin Windows
    BY <1>3, <1>7
  <2>2. \A t \in Threads : pc'[t] # "sem_sched" /\ pc'[t] # "sl_sched"
    BY <1>3 DEF Windows
  <2>3. \A t \in Threads, g \in Sems :
          R!Holds(M, g, t) => pc'[t] \in {"sem_sched", "sem_ret"} /\ arg'[t] = g
    BY <1>9 DEF Places
  <2>4. \A t \in Threads : pc'[t] \in {"sem_sched", "sem_ret"} => arg'[t] \in Sems
    BY DEF Places
  <2>5. \A t \in Threads : pc'[t] # "run" => holds'[t] = {}
    BY DEF Places
  <2>6. cur' = cur
    OBVIOUS
  <2> QED
    BY <1>8, <2>1, <2>2, <2>3, <2>4, <2>5, <2>6 DEF Places
<1>11. ASSUME NEW g \in Locks, g # s
       PROVE  /\ count'[g] = count[g] /\ \A t \in Threads : Has(M, t, g)' <=> Has(L, t, g)
  <2>1. g \in Sems /\ g \in Queued /\ g # RunQ /\ count'[g] = count[g]
    BY <1>1, <1>2, <1>11, Queues4
  <2>2. ASSUME NEW t \in Threads
        PROVE  pc[t] = "sem_ret" /\ arg[t] = g => (R!Holds(M, g, t) <=> R!Holds(L, g, t))
    BY <2>1, <1>2, <1>11 DEF Places
  <2> QED
    BY <2>1, <2>2, <1>11 DEF Has
<1>12. ASSUME s \in Locks
       PROVE  /\ count'[s] <= 1
              /\ count'[s] > 0 <=> \A t \in Threads : ~ Has(M, t, s)'
              /\ \A t, u \in Threads : Has(M, t, s)' /\ Has(M, u, s)' => t = u
  <2>1. PICK y \in Threads : s \in holds[y]
    BY <1>12
  <2>2. /\ count[s] \in Int /\ ~ count[s] > 0 /\ count'[s] = count[s] + 1
        /\ \A t \in Threads : Has(L, t, s) => t = y
    BY <1>1, <1>2, <1>12, <2>1 DEF Holders, Has
  <2>3. pc[y] = "run"
    BY <2>1 DEF Places
  <2>4. \A t \in Threads : ~ (pc[t] = "sem_ret" /\ arg[t] = s /\ ~ R!Holds(L, s, t))
    BY <2>2, <2>3 DEF Has
  <2>5. \A t \in Threads : Has(M, t, s)' <=> pc[t] = "sem_ret" /\ arg[t] = s /\ ~ R!Holds(M, s, t)
    BY DEF Has
  <2>6. CASE count[s] >= 0
    <3>1. M = L /\ count'[s] = 1
      BY <2>2, <2>6, <1>2
    <3> QED
      BY <3>1, <2>4, <2>5
  <2>7. CASE count[s] < 0
    <3>1. PICK u \in Threads :
            /\ R!Holds(L, s, u)
            /\ \A t \in Threads : R!Holds(M, s, t) <=> t # u /\ R!Holds(L, s, t)
      BY <2>2, <2>7, <1>1, <1>2
    <3>2. pc[u] = "sem_ret" /\ arg[u] = s
      BY <3>1, <1>3 DEF Places, Windows
    <3>3. \A t \in Threads : Has(M, t, s)' <=> t = u
      BY <3>1, <3>2, <2>4, <2>5
    <3>4. count'[s] \in Int /\ count'[s] <= 0
      BY <2>2, <2>7
    <3>5. count'[s] <= 1 /\ ~ count'[s] > 0
      BY <3>4
    <3> QED
      BY <3>3, <3>5
  <2> QED
    BY <2>2, <2>6, <2>7
<1>13. Holders(M)'
  <2>1. ASSUME NEW g \in Locks
        PROVE  /\ count'[g] <= 1
               /\ count'[g] > 0 <=> \A t \in Threads : ~ Has(M, t, g)'
               /\ \A t, u \in Threads : Has(M, t, g)' /\ Has(M, u, g)' => t = u
    <3>1. CASE g = s
      BY <3>1, <1>12
    <3>2. CASE g # s
      BY <3>2, <1>11 DEF Holders
    <3> QED
      BY <3>1, <3>2
  <2> QED
    BY <2>1 DEF Holders
<1> QED
  BY <1>2, <1>5, <1>6, <1>10, <1>13 DEF KInv, InOrder, Linked

\* sem_signal by a thread: the count, and the first waiter to the run queue.
LEMMA SignalInv ==
  ASSUME KInv, NEW y \in Threads, NEW s \in Sems, Signal(y, s)
  PROVE  KInv'
<1>1. /\ KTypeOK /\ ~ Inserting /\ cur = y /\ pc[y] = "run"
      /\ holds \in [Threads -> SUBSET Locks]
  BY DEF KInv, Signal, At, Inserting, KTypeOK
<1>2. PICK L : R!Rings(q, L) /\ Places(L) /\ Counts(L) /\ Holders(L)
  BY <1>1, Settled
<1>3. /\ holds' = [holds EXCEPT ![y] = @ \ {s}] /\ SemSignal(s)
      /\ s \in holds[y] \/ s \in Events
      /\ UNCHANGED <<cur, runFlag, sleepticks, pc, arg, caught>>
  BY DEF Signal
<1>4. s \in Locks => s \in holds[y]
  BY <1>3, Queues4
<1>5. \A t \in Threads : t # y => s \notin holds[t]
  BY <1>1, <1>2, <1>4 DEF Holders, Has
<1>6. holds' \in [Threads -> SUBSET Locks] /\ \A t \in Threads : holds'[t] = holds[t] \ {s}
  BY <1>1, <1>3, <1>5
<1>7. pc[cur] \notin Windows
  BY <1>1 DEF Windows
<1>8. caught' \in BOOLEAN
  BY <1>1, <1>3 DEF KTypeOK
<1> QED
  BY <1>1, <1>2, <1>3, <1>4, <1>6, <1>7, <1>8, SignalStep

\* Records of links that are the same but for the links of the nodes of O.
SameOff(a, b, O) ==
  /\ a.nr = b.nr /\ a.wild = b.wild
  /\ \A m \in Nodes : m \notin O => a.next[m] = b.next[m] /\ a.prev[m] = b.prev[m]

\* b is a, as far as O goes.
SameOn(a, b, O) == \A m \in Nodes : m \in O => a.next[m] = b.next[m] /\ a.prev[m] = b.prev[m]

\* A record of links from its fields.
LEMMA LinkRecord ==
  ASSUME NEW x \in [Nodes -> Nodes], NEW y \in [Nodes -> Nodes],
         NEW z \in [Queued -> Nat], NEW u \in BOOLEAN
  PROVE  [next |-> x, prev |-> y, nr |-> z, wild |-> u] \in Queues
BY DEF Queues

\* An insertion away from O reads and writes nothing of O.
LEMMA InsertOff ==
  ASSUME NEW a \in Queues, NEW b \in Queues, NEW O, SameOff(a, b, O),
         NEW h \in Queued, NEW e \in Nodes, h \notin O, e \notin O, b.prev[h] \notin O
  PROVE  /\ QInsertTail(a, h, e) \in Queues
         /\ SameOff(QInsertTail(a, h, e), QInsertTail(b, h, e), O)
         /\ SameOn(QInsertTail(a, h, e), a, O)
<1> DEFINE p == b.prev[h]
<1>1. /\ h \in Nodes /\ p \in Nodes /\ a.prev[h] = p
      /\ a.next \in [Nodes -> Nodes] /\ b.next \in [Nodes -> Nodes]
      /\ a.prev \in [Nodes -> Nodes] /\ b.prev \in [Nodes -> Nodes]
      /\ a.nr \in [Queued -> Nat] /\ a.wild \in BOOLEAN
      /\ a.nr = b.nr /\ a.wild = b.wild
  BY DEF Queues, Nodes, SameOff
<1> HIDE DEF p
<1>2. ASSUME NEW c \in Queues, c.prev[h] = p
      PROVE  QInsertTail(c, h, e) = [next |-> [[c.next EXCEPT ![e] = h] EXCEPT ![p] = e],
                                     prev |-> [[c.prev EXCEPT ![e] = p] EXCEPT ![h] = e],
                                     nr |-> [c.nr EXCEPT ![h] = @ + 1],
                                     wild |-> c.wild \/ Foreign(h, p)]
  <2>1. c = [next |-> c.next, prev |-> c.prev, nr |-> c.nr, wild |-> c.wild]
    BY DEF Queues
  <2>2. QInsertTail(c, h, e) = [c EXCEPT !.next = [[c.next EXCEPT ![e] = h] EXCEPT ![p] = e],
                                        !.prev = [[c.prev EXCEPT ![e] = p] EXCEPT ![h] = e],
                                        !.nr[h] = @ + 1,
                                        !.wild = c.wild \/ Foreign(h, p)]
    BY <1>2 DEF QInsertTail
  <2> QED
    BY <2>1, <2>2
<1>3. /\ b.prev[h] = p
      /\ p \notin O
  BY DEF p
<1>4. QInsertTail(a, h, e) \in Queues
  <2>1. /\ [[a.next EXCEPT ![e] = h] EXCEPT ![p] = e] \in [Nodes -> Nodes]
        /\ [[a.prev EXCEPT ![e] = p] EXCEPT ![h] = e] \in [Nodes -> Nodes]
        /\ [a.nr EXCEPT ![h] = @ + 1] \in [Queued -> Nat]
        /\ (a.wild \/ Foreign(h, p)) \in BOOLEAN
    BY <1>1
  <2>2. [next |-> [[a.next EXCEPT ![e] = h] EXCEPT ![p] = e],
         prev |-> [[a.prev EXCEPT ![e] = p] EXCEPT ![h] = e],
         nr |-> [a.nr EXCEPT ![h] = @ + 1],
         wild |-> a.wild \/ Foreign(h, p)] \in Queues
    BY <2>1, LinkRecord, Zenon
  <2> QED
    BY <1>1, <1>2, <2>2
<1>5. \A m \in Nodes : m \notin O => a.next[m] = b.next[m] /\ a.prev[m] = b.prev[m]
  BY DEF SameOff
<1>6. SameOff(QInsertTail(a, h, e), QInsertTail(b, h, e), O)
  BY <1>1, <1>2, <1>3, <1>5 DEF SameOff
<1>7. SameOn(QInsertTail(a, h, e), a, O)
  BY <1>1, <1>2, <1>3 DEF SameOn
<1> QED
  BY <1>4, <1>6, <1>7

\* Nor does a removal.
LEMMA RemoveOff ==
  ASSUME NEW a \in Queues, NEW b \in Queues, NEW O, SameOff(a, b, O),
         NEW h \in Queued, NEW e \in Nodes, h \notin O, e \notin O,
         b.prev[e] \notin O, b.next[e] \notin O, b.next[e] # e,
         b.next[b.prev[e]] = e, b.prev[b.next[e]] = e, b.nr[h] # 0
  PROVE  /\ QRemove(a, h, e) \in Queues
         /\ SameOff(QRemove(a, h, e), QRemove(b, h, e), O)
         /\ SameOn(QRemove(a, h, e), a, O)
<1> DEFINE p == b.prev[e]
           n == b.next[e]
<1>1. /\ h \in Nodes /\ p \in Nodes /\ n \in Nodes
      /\ a.next \in [Nodes -> Nodes] /\ b.next \in [Nodes -> Nodes]
      /\ a.prev \in [Nodes -> Nodes] /\ b.prev \in [Nodes -> Nodes]
      /\ a.nr \in [Queued -> Nat] /\ a.wild \in BOOLEAN
      /\ a.nr = b.nr /\ a.wild = b.wild
  BY DEF Queues, Nodes, SameOff
<1>2. /\ a.prev[e] = p /\ a.next[e] = n /\ a.next[p] = e /\ a.prev[n] = e
      /\ a.next[h] = b.next[h] /\ a.prev[h] = b.prev[h]
  BY <1>1 DEF SameOff
<1> DEFINE wilder == QHeadEmpty(b, h) \/ Foreign(h, p) \/ e \in Queued \/ Foreign(h, n)
<1>3. ASSUME NEW c \in {a, b}
      PROVE  QRemove(c, h, e) = [next |-> [[c.next EXCEPT ![p] = n] EXCEPT ![e] = e],
                                 prev |-> [[c.prev EXCEPT ![n] = p] EXCEPT ![e] = e],
                                 nr |-> [c.nr EXCEPT ![h] = @ - 1],
                                 wild |-> c.wild \/ wilder]
  <2>1. /\ c.prev[e] = p /\ c.next[e] = n /\ c.next[p] = e /\ c.prev[n] = e
        /\ c.next \in [Nodes -> Nodes] /\ c.prev \in [Nodes -> Nodes] /\ c \in Queues
        /\ QHeadEmpty(c, h) <=> QHeadEmpty(b, h)
        /\ ~ QElemStandAlone(c, e)
    BY <1>1, <1>2 DEF QHeadEmpty, QElemStandAlone
  <2> HIDE DEF p, n
  <2>2. /\ [c.next EXCEPT ![p] = c.next[e]][e] = n
        /\ [c.prev EXCEPT ![n] = c.prev[e]][e] = p
    BY <2>1, <1>1
  <2>3. QRemove(c, h, e) =
          [c EXCEPT !.next = [[c.next EXCEPT ![p] = n] EXCEPT ![e] = e],
                    !.prev = [[c.prev EXCEPT ![n] = p] EXCEPT ![e] = e],
                    !.nr[h] = @ - 1,
                    !.wild = \/ @ \/ QHeadEmpty(c, h)
                             \/ Foreign(h, p) \/ e \in Queued
                             \/ Foreign(h, n) \/ e \in Queued]
    BY <2>1, <2>2 DEF QRemove
  <2>4. (\/ c.wild \/ QHeadEmpty(c, h) \/ Foreign(h, p) \/ e \in Queued
         \/ Foreign(h, n) \/ e \in Queued) = (c.wild \/ wilder)
    BY <2>1
  <2> HIDE DEF wilder
  <2>5. c = [next |-> c.next, prev |-> c.prev, nr |-> c.nr, wild |-> c.wild]
    BY <2>1 DEF Queues
  <2> QED
    BY <2>3, <2>4, <2>5
<1> HIDE DEF p, n, wilder
<1>4. QRemove(a, h, e) \in Queues
  <2>1. /\ [[a.next EXCEPT ![p] = n] EXCEPT ![e] = e] \in [Nodes -> Nodes]
        /\ [[a.prev EXCEPT ![n] = p] EXCEPT ![e] = e] \in [Nodes -> Nodes]
    BY <1>1
  <2>2. [a.nr EXCEPT ![h] = @ - 1] \in [Queued -> Nat]
    BY <1>1
  <2>3. (a.wild \/ wilder) \in BOOLEAN
    OBVIOUS
  <2>4. [next |-> [[a.next EXCEPT ![p] = n] EXCEPT ![e] = e],
         prev |-> [[a.prev EXCEPT ![n] = p] EXCEPT ![e] = e],
         nr |-> [a.nr EXCEPT ![h] = @ - 1],
         wild |-> a.wild \/ wilder] \in Queues
    BY <2>1, <2>2, <2>3, LinkRecord, Zenon
  <2> QED
    BY <1>3, <2>4
<1>5. \A m \in Nodes : m \notin O => a.next[m] = b.next[m] /\ a.prev[m] = b.prev[m]
  BY DEF SameOff
<1>6. SameOff(QRemove(a, h, e), QRemove(b, h, e), O)
  BY <1>1, <1>3, <1>5 DEF SameOff
<1>7. SameOn(QRemove(a, h, e), a, O)
  <2>1. p \notin O /\ n \notin O
    BY DEF p, n
  <2> QED
    BY <1>1, <1>3, <2>1 DEF SameOn
<1> QED
  BY <1>4, <1>6, <1>7

\* Q_REMOVE and Q_INSERT_TAIL of sem_signal, for a waiter there is.
Woke(b, s) == QInsertTail(QRemove(b, s, b.next[s]), RunQ, b.next[s])

\* What they do to the lists.
LEMMA WokeLists ==
  ASSUME NEW r, NEW L, R!Rings(r, L), NEW s \in Sems, Len(L[s]) # 0
  PROVE  \E M : /\ R!Rings(Woke(r, s), M)
                /\ Len(M[s]) = Len(L[s]) - 1
                /\ \A g \in Queued \ {s, RunQ} : M[g] = L[g]
                /\ r.next[s] \in Threads /\ R!Holds(L, s, r.next[s])
                /\ \A g \in Queued, t \in Threads :
                     R!Holds(M, g, t) <=> IF t = r.next[s] THEN g = RunQ ELSE R!Holds(L, g, t)
<1> DEFINE first == r.next[s]
<1>1. s \in Queued /\ s # RunQ /\ RunQ \in Queued
  BY Queues4
<1>2. first \in Threads /\ R!Holds(L, s, first)
  BY <1>1, FrontOfQueue
<1> HIDE DEF first
<1>3. PICK A : /\ R!Rings(QRemove(r, s, first), A) /\ R!Free(A, first)
               /\ Len(A[s]) = Len(L[s]) - 1
               /\ \A g \in Queued \ {s} : A[g] = L[g]
               /\ \A g \in Queued, t \in Threads :
                    R!Holds(A, g, t) <=> R!Holds(L, g, t) /\ t # first
  BY <1>1, <1>2, TakeLists
<1>4. PICK M : /\ R!Rings(QInsertTail(QRemove(r, s, first), RunQ, first), M)
               /\ \A g \in Queued \ {RunQ} : M[g] = A[g]
               /\ \A g \in Queued, t \in Threads :
                    R!Holds(M, g, t) <=> R!Holds(A, g, t) \/ (g = RunQ /\ t = first)
  BY <1>1, <1>2, <1>3, InsertLists
<1>5. Woke(r, s) = QInsertTail(QRemove(r, s, first), RunQ, first)
  BY DEF Woke, first
<1> QED
  BY <1>1, <1>2, <1>3, <1>4, <1>5 DEF first

\* The nodes an insertion into the sleepers' queue has written to.
Written(y, p) == {y, p, SlackQ}

\* A signal that finds the running thread half on the sleepers' queue leaves it
\* there, as it would have without the insertion.
LEMMA WokeBeside ==
  ASSUME NEW r, NEW L, R!Rings(r, L), NEW s \in Sems, Len(L[s]) # 0,
         NEW y \in Threads, R!Free(L, y), NEW a \in Queues, SameOff(a, r, Written(y, r.prev[SlackQ]))
  PROVE  /\ a.next[s] = r.next[s] /\ r.next[s] \in Threads
         /\ Woke(a, s) \in Queues
         /\ SameOff(Woke(a, s), Woke(r, s), Written(y, r.prev[SlackQ]))
         /\ SameOn(Woke(a, s), a, Written(y, r.prev[SlackQ]))
<1> DEFINE first == r.next[s]
           O == Written(y, r.prev[SlackQ])
<1>1. /\ s \in Queued /\ s # RunQ /\ s # SlackQ /\ RunQ \in Queued /\ SlackQ \in Queued /\ RunQ # SlackQ
      /\ r \in Queues /\ L \in [Queued -> Seq(Threads)] /\ Threads \cap Queued = {}
      /\ Nodes = Threads \cup Queued
  BY Queues4, SameLinks DEF R!Rings
<1>2. /\ first \in Threads /\ first \in Nodes /\ R!Holds(L, s, first) /\ first = L[s][1] /\ 1 \in 1..Len(L[s])
  <2>1. Len(L[s]) \in Nat /\ 1 \in 1..Len(L[s])
    BY <1>1
  <2> QED
    BY <1>1, <2>1, FrontOfQueue
<1>3. /\ r.prev[SlackQ] = R!Stop(SlackQ, L[SlackQ], Len(L[SlackQ]))
      /\ SlackQ = R!Stop(SlackQ, L[SlackQ], Len(L[SlackQ]) + 1)
      /\ Len(L[SlackQ]) \in 0..Len(L[SlackQ]) + 1 /\ Len(L[SlackQ]) + 1 \in 0..Len(L[SlackQ]) + 1
  <2>1. L[SlackQ] \in Seq(Threads) /\ Len(L[SlackQ]) \in Nat
    BY <1>1
  <2> QED
    BY <1>1, <2>1, KernSchedAssumption, Apart, R!Neighbours, R!StopsOfRing
<1>4. ASSUME NEW g \in Queued, g # SlackQ, NEW i \in 0..Len(L[g]) + 1
      PROVE  R!Stop(g, L[g], i) \notin O
  <2>1. \A j \in 0..Len(L[SlackQ]) + 1 : R!Stop(g, L[g], i) # R!Stop(SlackQ, L[SlackQ], j)
    BY <1>1, <1>4, KernSchedAssumption, Apart, R!StopsApart
  <2>2. R!Stop(g, L[g], i) # y
    BY <1>1, <1>4, KernSchedAssumption, Apart, R!StopsApart
  <2>3. R!Stop(g, L[g], i) # SlackQ /\ R!Stop(g, L[g], i) # r.prev[SlackQ]
    BY <1>3, <2>1
  <2> QED
    BY <2>2, <2>3 DEF Written
<1>5. ASSUME NEW g \in Queued, g # SlackQ
      PROVE  g \notin O /\ r.prev[g] \notin O
  <2>1. Len(L[g]) \in Nat /\ L[g] \in Seq(Threads)
    BY <1>1
  <2>2. R!Stop(g, L[g], 0) = g /\ 0 \in 0..Len(L[g]) + 1 /\ Len(L[g]) \in 0..Len(L[g]) + 1
    BY <2>1, KernSchedAssumption, Apart, R!StopsOfRing
  <2>3. r.prev[g] = R!Stop(g, L[g], Len(L[g]))
    BY KernSchedAssumption, Apart, R!Neighbours
  <2> QED
    BY <1>4, <1>5, <2>2, <2>3
<1>6. /\ r.next[first] = R!Stop(s, L[s], 1 + 1) /\ r.prev[first] = R!Stop(s, L[s], 1 - 1)
      /\ r.next[R!Stop(s, L[s], 1 - 1)] = first /\ r.prev[R!Stop(s, L[s], 1 + 1)] = first
      /\ R!Stop(s, L[s], 1 + 1) # first
  BY <1>1, <1>2, KernSchedAssumption, Apart, R!Neighbours
<1>7. /\ 1 \in 0..Len(L[s]) + 1 /\ 1 + 1 \in 0..Len(L[s]) + 1 /\ 1 - 1 \in 0..Len(L[s]) + 1
      /\ R!Stop(s, L[s], 1) = first
  <2>1. Len(L[s]) \in Nat /\ Len(L[s]) >= 1
    BY <1>1, <1>2
  <2>2. R!Stop(s, L[s], 1) = first
    BY <1>2 DEF R!Stop
  <2> QED
    BY <2>1, <2>2
<1>8. first \notin O /\ r.next[first] \notin O /\ r.prev[first] \notin O
  BY <1>1, <1>4, <1>6, <1>7
<1>9. a.next[s] = first
  BY <1>1, <1>5 DEF SameOff
<1>10. r.nr[s] # 0
  BY <1>1 DEF R!Rings, R!Represents
<1> HIDE DEF first, O
<1>11. /\ QRemove(a, s, first) \in Queues
       /\ SameOff(QRemove(a, s, first), QRemove(r, s, first), O)
       /\ SameOn(QRemove(a, s, first), a, O)
  <2>1. r.next[r.prev[first]] = first /\ r.prev[r.next[first]] = first /\ r.next[first] # first
    BY <1>6
  <2>2. s \notin O /\ SameOff(a, r, O)
    BY <1>1, <1>5 DEF O
  <2> QED
    BY <1>1, <1>2, <1>8, <1>10, <2>1, <2>2, RemoveOff
<1>12. QRemove(r, s, first) \in Queues /\ QRemove(r, s, first).prev[RunQ] \notin O
  <2>1. PICK A : R!Rings(QRemove(r, s, first), A) /\ \A g \in Queued \ {s} : A[g] = L[g]
    BY <1>1, <1>2, TakeLists
  <2>2. QRemove(r, s, first) \in Queues
    BY <2>1, SameLinks DEF R!Rings
  <2>3. QRemove(r, s, first).prev[RunQ] = R!Stop(RunQ, L[RunQ], Len(L[RunQ]))
    BY <1>1, <2>1, KernSchedAssumption, Apart, R!Neighbours
  <2>4. r.prev[RunQ] = R!Stop(RunQ, L[RunQ], Len(L[RunQ]))
    BY <1>1, KernSchedAssumption, Apart, R!Neighbours
  <2> QED
    BY <1>1, <1>5, <2>2, <2>3, <2>4
<1>13. RunQ \notin O
  BY <1>1, <1>5
<1>14. /\ QInsertTail(QRemove(a, s, first), RunQ, first) \in Queues
       /\ SameOff(QInsertTail(QRemove(a, s, first), RunQ, first),
                  QInsertTail(QRemove(r, s, first), RunQ, first), O)
       /\ SameOn(QInsertTail(QRemove(a, s, first), RunQ, first), QRemove(a, s, first), O)
  BY <1>1, <1>2, <1>8, <1>11, <1>12, <1>13, InsertOff
<1>15. /\ Woke(a, s) = QInsertTail(QRemove(a, s, first), RunQ, first)
       /\ Woke(r, s) = QInsertTail(QRemove(r, s, first), RunQ, first)
  BY <1>9 DEF Woke, first
<1>16. SameOn(Woke(a, s), a, O)
  BY <1>11, <1>14, <1>15 DEF SameOn
<1> QED
  BY <1>2, <1>9, <1>14, <1>15, <1>16 DEF first, O

\* The links r with thread c half inserted on the sleepers' queue behind p: before
\* and after p's next was written.
Begun(r, c, p) == [r EXCEPT !.next[c] = SlackQ, !.prev[c] = p]
Reached(r, c, p) == [r EXCEPT !.next = [[@ EXCEPT ![c] = SlackQ] EXCEPT ![p] = c], !.prev[c] = p]

\* v is r but for its links to the next element, x, and c's link to the one before.
LinksOf(v, r, c, p, x) ==
  v.next = x /\ v.prev = [r.prev EXCEPT ![c] = p] /\ v.nr = r.nr /\ v.wild = r.wild

\* Links that are those of r but for an insertion.
LEMMA LinksPut ==
  ASSUME NEW r \in Queues, NEW v \in Queues, NEW c \in Nodes, NEW p \in Nodes
  PROVE  /\ LinksOf(v, r, c, p, [r.next EXCEPT ![c] = SlackQ]) => v = Begun(r, c, p)
         /\ LinksOf(v, r, c, p, [[r.next EXCEPT ![c] = SlackQ] EXCEPT ![p] = c]) => v = Reached(r, c, p)
<1>0. SlackQ \in Nodes
  BY Queues4
<1>1. ASSUME LinksOf(v, r, c, p, [r.next EXCEPT ![c] = SlackQ])
      PROVE  v = Begun(r, c, p)
  BY <1>0, <1>1 DEF Queues, Begun, LinksOf
<1>2. ASSUME LinksOf(v, r, c, p, [[r.next EXCEPT ![c] = SlackQ] EXCEPT ![p] = c])
      PROVE  v = Reached(r, c, p)
  BY <1>0, <1>2 DEF Queues, Reached, LinksOf
<1> QED
  BY <1>1, <1>2

\* The links a signal leaves, in the middle of sleep's insertion too.
LEMMA WokeLinked ==
  ASSUME KTypeOK, NEW r, NEW L, R!Rings(r, L), Places(L), Linked(r),
         NEW s \in Sems, Len(L[s]) # 0
  PROVE  /\ q.next[s] = r.next[s] /\ r.next[s] \in Threads
         /\ q' = Woke(q, s) /\ UNCHANGED <<cur, pc, arg>> => Linked(Woke(r, s))' /\ q' \in Queues
<1>1. PICK M : R!Rings(Woke(r, s), M) /\ r.next[s] \in Threads
  BY WokeLists
<1>2. Woke(r, s) \in Queues /\ r \in Queues /\ q \in Queues
  BY <1>1, SameLinks DEF R!Rings, KTypeOK
<1>3. CASE ~ Inserting
  <2>1. q = r
    BY <1>3 DEF Linked
  <2>2. ASSUME q' = Woke(q, s), UNCHANGED <<cur, pc, arg>>
        PROVE  ~ Inserting' /\ q' = Woke(r, s)
    BY <2>1, <2>2, <1>3 DEF Inserting
  <2> QED
    BY <2>1, <2>2, <1>1, <1>2 DEF Linked
<1>4. CASE Inserting
  <2> DEFINE p == r.prev[SlackQ]
             O == Written(cur, p)
  <2>1. /\ cur \in Threads /\ arg[cur] = p /\ pc[cur] \in {"sl_link", "sl_tail"}
        /\ SlackQ \in Nodes /\ p \in Nodes /\ cur \in Nodes
        /\ r.next \in [Nodes -> Nodes] /\ r.prev \in [Nodes -> Nodes]
    BY <1>2, <1>4, Queues4 DEF Inserting, Linked, Queues
  <2>2. R!Free(L, cur)
    BY <2>1 DEF Places, R!Free
  <2> HIDE DEF p
  <2>3. q = IF pc[cur] = "sl_link"
            THEN [r EXCEPT !.next[cur] = SlackQ, !.prev[cur] = p]
            ELSE [r EXCEPT !.next = [[@ EXCEPT ![cur] = SlackQ] EXCEPT ![p] = cur], !.prev[cur] = p]
    BY <1>4, <2>1 DEF Linked
  <2>4. /\ q.nr = r.nr /\ q.wild = r.wild
        /\ q.prev = [r.prev EXCEPT ![cur] = p]
        /\ q.next = IF pc[cur] = "sl_link" THEN [r.next EXCEPT ![cur] = SlackQ]
                    ELSE [[r.next EXCEPT ![cur] = SlackQ] EXCEPT ![p] = cur]
    BY <1>2, <2>3 DEF Queues
  <2>5. SameOff(q, r, O)
    BY <2>1, <2>4 DEF SameOff, Written
  <2>6. SameOff(r, r, O)
    BY DEF SameOff
  <2>7. /\ q.next[s] = r.next[s]
        /\ Woke(q, s) \in Queues /\ SameOff(Woke(q, s), Woke(r, s), O) /\ SameOn(Woke(q, s), q, O)
    BY <1>2, <2>1, <2>2, <2>5, WokeBeside DEF p
  <2>8. SameOn(Woke(r, s), r, O)
    BY <1>2, <2>1, <2>2, <2>6, WokeBeside DEF p
  <2>9. ASSUME q' = Woke(q, s), UNCHANGED <<cur, pc, arg>>
        PROVE  Linked(Woke(r, s))' /\ q' \in Queues
    <3> DEFINE r2 == Woke(r, s)
    <3> HIDE DEF r2
    <3>1. /\ q' \in Queues /\ r2 \in Queues /\ SameOff(q', r2, O) /\ SameOn(q', q, O) /\ SameOn(r2, r, O)
      BY <2>7, <2>8, <2>9, <1>2 DEF r2
    <3>2. r2.prev[SlackQ] = p
      BY <2>1, <3>1 DEF SameOn, Written, p
    <3>3. /\ q'.next \in [Nodes -> Nodes] /\ q'.prev \in [Nodes -> Nodes]
          /\ r2.next \in [Nodes -> Nodes] /\ r2.prev \in [Nodes -> Nodes]
          /\ q'.nr = r2.nr /\ q'.wild = r2.wild
      BY <3>1 DEF Queues, SameOff
    <3>4. q'.prev = [r2.prev EXCEPT ![cur] = p]
      <4>1. ASSUME NEW m \in Nodes
            PROVE  q'.prev[m] = IF m = cur THEN p ELSE r2.prev[m]
        <5>1. CASE m \in O
          <6>1. q'.prev[m] = q.prev[m] /\ r2.prev[m] = r.prev[m]
            BY <5>1, <3>1 DEF SameOn
          <6> QED
            BY <6>1, <2>1, <2>4
        <5>2. CASE m \notin O
          BY <5>2, <3>1 DEF SameOff, Written
        <5> QED
          BY <5>1, <5>2
      <4> QED
        BY <4>1, <3>3
    <3>5. q'.next = IF pc[cur] = "sl_link" THEN [r2.next EXCEPT ![cur] = SlackQ]
                    ELSE [[r2.next EXCEPT ![cur] = SlackQ] EXCEPT ![p] = cur]
      <4>1. ASSUME NEW m \in Nodes
            PROVE  q'.next[m] = IF pc[cur] # "sl_link" /\ m = p THEN cur
                                ELSE IF m = cur THEN SlackQ ELSE r2.next[m]
        <5>1. CASE m \in O
          <6>1. q'.next[m] = q.next[m] /\ r2.next[m] = r.next[m]
            BY <5>1, <3>1 DEF SameOn
          <6> QED
            BY <6>1, <2>1, <2>4
        <5>2. CASE m \notin O
          BY <5>2, <3>1 DEF SameOff, Written
        <5> QED
          BY <5>1, <5>2
      <4>2. CASE pc[cur] = "sl_link"
        <5>1. q'.next = [r2.next EXCEPT ![cur] = SlackQ]
          BY <4>1, <4>2, <3>3
        <5> QED
          BY <4>2, <5>1
      <4>3. CASE pc[cur] # "sl_link"
        <5>1. q'.next = [[r2.next EXCEPT ![cur] = SlackQ] EXCEPT ![p] = cur]
          BY <4>1, <4>3, <3>3, <2>1
        <5> QED
          BY <4>3, <5>1
      <4> QED
        BY <4>2, <4>3
    <3>6. q' = IF pc[cur] = "sl_link"
               THEN [r2 EXCEPT !.next[cur] = SlackQ, !.prev[cur] = p]
               ELSE [r2 EXCEPT !.next = [[@ EXCEPT ![cur] = SlackQ] EXCEPT ![p] = cur], !.prev[cur] = p]
      <4>1. PICK v \in Queues : v = q'
        BY <3>1
      <4>2. v.prev = [r2.prev EXCEPT ![cur] = p] /\ v.nr = r2.nr /\ v.wild = r2.wild
        BY <4>1, <3>3, <3>4
      <4>3. v.next = IF pc[cur] = "sl_link" THEN [r2.next EXCEPT ![cur] = SlackQ]
                     ELSE [[r2.next EXCEPT ![cur] = SlackQ] EXCEPT ![p] = cur]
        BY <4>1, <3>5
      <4>4. r2 \in Queues /\ v \in Queues /\ cur \in Nodes /\ p \in Nodes
        BY <3>1, <2>1
      <4>5. CASE pc[cur] = "sl_link"
        <5>1. v.next = [r2.next EXCEPT ![cur] = SlackQ]
          BY <4>5, <4>3
        <5>2. LinksOf(v, r2, cur, p, [r2.next EXCEPT ![cur] = SlackQ])
          BY <4>2, <5>1 DEF LinksOf
        <5>3. v = Begun(r2, cur, p)
          BY <4>4, <5>2, LinksPut, Zenon
        <5> QED
          BY <4>1, <4>5, <5>3, Zenon DEF Begun
      <4>6. CASE pc[cur] # "sl_link"
        <5>1. v.next = [[r2.next EXCEPT ![cur] = SlackQ] EXCEPT ![p] = cur]
          BY <4>6, <4>3
        <5>2. LinksOf(v, r2, cur, p, [[r2.next EXCEPT ![cur] = SlackQ] EXCEPT ![p] = cur])
          BY <4>2, <5>1 DEF LinksOf
        <5>3. v = Reached(r2, cur, p)
          BY <4>4, <5>2, LinksPut, Zenon
        <5> QED
          BY <4>1, <4>6, <5>3, Zenon DEF Reached
      <4> QED
        BY <4>5, <4>6
    <3>7. Inserting' /\ cur' = cur /\ pc' = pc /\ arg' = arg
      BY <1>4, <2>9 DEF Inserting
    <3>8. Linked(r2)'
      BY <3>2, <3>6, <3>7, <2>1 DEF Linked
    <3> QED
      BY <3>1, <3>8 DEF r2
  <2> QED
    BY <1>1, <2>7, <2>9
<1> QED
  BY <1>3, <1>4

\* The locks' holders, when neither they nor the counts change.
LEMMA HoldersSame ==
  ASSUME NEW L, NEW M, Holders(L),
         \A g \in Locks : /\ count'[g] = count[g]
                           /\ \A t \in Threads : Has(M, t, g)' <=> Has(L, t, g)
  PROVE  Holders(M)'
<1> SUFFICES ASSUME NEW g \in Locks
             PROVE  /\ count'[g] <= 1
                    /\ count'[g] > 0 <=> \A t \in Threads : ~ Has(M, t, g)'
                    /\ \A t, u \in Threads : Has(M, t, g)' /\ Has(M, u, g)' => t = u
  BY DEF Holders
<1>1. count'[g] = count[g] /\ \A t \in Threads : Has(M, t, g)' <=> Has(L, t, g)
  OBVIOUS
<1> QED
  BY <1>1 DEF Holders

\* The keyboard's sem_signal, wherever it finds the running thread, unless it is
\* that thread it wakes.
LEMMA InterruptInv ==
  ASSUME KInv, NEW s \in Events, Interrupt(s), ~ caught'
  PROVE  KInv'
<1>1. /\ KTypeOK /\ s \in Sems /\ s \notin Locks /\ s \in Queued /\ s # RunQ
      /\ cur \in Threads \cup {Idle} /\ Idle \notin Threads
      /\ count \in [Sems -> Int] /\ count[s] \in Int
      /\ ~ (InWindow /\ count[s] < 0 /\ q.next[s] = cur)
  BY Queues4 DEF KInv, Interrupt, KTypeOK
<1>2. PICK r, L : R!Rings(r, L) /\ Linked(r) /\ Places(L) /\ Counts(L) /\ Holders(L)
  BY DEF KInv, InOrder
<1>3. /\ count' = [count EXCEPT ![s] = @ + 1]
      /\ UNCHANGED <<cur, runFlag, sleepticks, pc, arg, holds>>
      /\ SemSignal(s)
  BY DEF Interrupt, SemSignal
<1>4. caught' \in BOOLEAN
  BY DEF Interrupt, InWindow
<1>5. count' \in [Sems -> Int] /\ count'[s] = count[s] + 1 /\ \A g \in Sems \ {s} : count'[g] = count[g]
  BY <1>1, <1>3
<1>6. \A g \in Locks : g # s /\ g \in Sems
  BY <1>1, Queues4
<1>7. CASE count[s] >= 0
  <2>1. q' = q
    BY <1>3, <1>7 DEF SemSignal
  <2>2. KTypeOK'
    BY <2>1, <1>1, <1>3, <1>4, <1>5 DEF KTypeOK
  <2>3. Linked(r)' /\ Places(L)'
    BY <2>1, <1>2, <1>3 DEF Linked, Inserting, Places
  <2>4. Counts(L)'
    <3>1. ASSUME NEW g \in Sems
          PROVE  Len(L[g]) = IF count'[g] < 0 THEN - count'[g] ELSE 0
      <4>1. CASE g = s
        <5>1. Len(L[s]) = 0 /\ ~ count'[s] < 0
          BY <1>1, <1>2, <1>5, <1>7 DEF Counts
        <5> QED
          BY <4>1, <5>1
      <4>2. CASE g # s
        BY <4>2, <1>2, <1>5 DEF Counts
      <4> QED
        BY <4>1, <4>2
    <3> QED
      BY <3>1 DEF Counts
  <2>5. \A g \in Locks : /\ count'[g] = count[g]
                         /\ \A t \in Threads : Has(L, t, g)' <=> Has(L, t, g)
    BY <1>3, <1>5, <1>6 DEF Has
  <2>6. Holders(L)'
    BY <2>5, <1>2, HoldersSame
  <2> QED
    BY <1>2, <2>2, <2>3, <2>4, <2>6 DEF KInv, InOrder
<1>8. CASE count[s] < 0
  <2> DEFINE first == r.next[s]
  <2>1. Len(L[s]) = - count[s] /\ Len(L[s]) # 0
    BY <1>1, <1>2, <1>8 DEF Counts
  <2>2. /\ q.next[s] = first /\ first \in Threads
        /\ q' = Woke(q, s) /\ UNCHANGED <<cur, pc, arg>> => Linked(Woke(r, s))' /\ q' \in Queues
    BY <1>1, <1>2, <2>1, WokeLinked
  <2>3. PICK M : /\ R!Rings(Woke(r, s), M)
                 /\ Len(M[s]) = Len(L[s]) - 1
                 /\ \A g \in Queued \ {s, RunQ} : M[g] = L[g]
                 /\ R!Holds(L, s, first)
                 /\ \A g \in Queued, t \in Threads :
                      R!Holds(M, g, t) <=> IF t = first THEN g = RunQ ELSE R!Holds(L, g, t)
    BY <1>1, <1>2, <2>1, WokeLists
  <2> HIDE DEF first
  <2>4. q' = Woke(q, s)
    <3>1. first \notin Queued /\ first # s
      BY <1>1, <2>2, Queues4
    <3>2. ~ QHeadEmpty(q, s)
      BY <2>2, <3>1 DEF QHeadEmpty
    <3> QED
      BY <1>1, <1>3, <1>8, <2>2, <3>1, <3>2 DEF SemSignal, Woke
  <2>5. Linked(Woke(r, s))' /\ q' \in Queues
    BY <1>3, <2>2, <2>4
  <2>6. KTypeOK'
    BY <2>5, <1>1, <1>3, <1>4, <1>5 DEF KTypeOK
  <2>7. first # cur
    <3>1. CASE InWindow
      BY <3>1, <1>1, <1>8, <2>2
    <3>2. CASE ~ InWindow
      <4>1. cur \in Threads => R!Free(L, cur)
        BY <3>2, <1>2, RunsFree DEF InWindow
      <4> QED
        BY <4>1, <1>1, <2>2, <2>3 DEF R!Free
    <3> QED
      BY <3>1, <3>2
  <2>8. pc[first] = "sem_ret" /\ arg[first] = s
    BY <1>1, <1>2, <2>2, <2>3, <2>7 DEF Places, Windows
  <2>9. Places(M)'
    <3>1. \A t \in Threads : t # cur' => ~ R!Free(M, t) /\ pc'[t] \notin Windows
      BY <1>2, <1>3, <2>3, Queues4 DEF Places, R!Free
    <3>2. \A t \in Threads, h \in Queued : t = cur' /\ R!Holds(M, h, t) =>
            (pc'[t] = "sem_sched" /\ h = arg'[t]) \/ (pc'[t] = "sl_sched" /\ h = SlackQ)
      BY <1>2, <1>3, <2>3, <2>7 DEF Places
    <3>3. \A t \in Threads : /\ pc'[t] = "sem_sched" => R!Holds(M, arg'[t], t)
                             /\ pc'[t] = "sl_sched" => R!Holds(M, SlackQ, t)
      BY <1>2, <1>3, <2>3, <2>8, Queues4 DEF Places
    <3>4. \A t \in Threads, g \in Sems :
            R!Holds(M, g, t) => pc'[t] \in {"sem_sched", "sem_ret"} /\ arg'[t] = g
      BY <1>2, <1>3, <2>3, Queues4 DEF Places
    <3>5. \A t \in Threads : /\ pc'[t] \in {"sem_sched", "sem_ret"} => arg'[t] \in Sems
                             /\ pc'[t] # "run" => holds'[t] = {}
      BY <1>2, <1>3 DEF Places
    <3> QED
      BY <3>1, <3>2, <3>3, <3>4, <3>5 DEF Places
  <2>10. Counts(M)'
    <3>1. ASSUME NEW g \in Sems
          PROVE  Len(M[g]) = IF count'[g] < 0 THEN - count'[g] ELSE 0
      <4>1. CASE g = s
        <5>1. PICK n \in Int, l \in Int : n = count[s] /\ l = Len(L[s])
          BY <1>1, <2>1
        <5>2. l = - n /\ n < 0 /\ count'[s] = n + 1 /\ Len(M[s]) = l - 1
          BY <5>1, <1>5, <1>8, <2>1, <2>3
        <5>3. l - 1 = IF n + 1 < 0 THEN - (n + 1) ELSE 0
          BY <5>1, <5>2
        <5> QED
          BY <4>1, <5>2, <5>3
      <4>2. CASE g # s
        <5>1. g \in Queued \ {s, RunQ}
          BY <4>2, Queues4
        <5> QED
          BY <4>2, <5>1, <1>2, <1>5, <2>3 DEF Counts
      <4> QED
        BY <4>1, <4>2
    <3> QED
      BY <3>1 DEF Counts
  <2>11. \A g \in Locks : /\ count'[g] = count[g]
                          /\ \A t \in Threads : Has(M, t, g)' <=> Has(L, t, g)
    <3>1. ASSUME NEW g \in Locks
          PROVE  g # s /\ g \in Queued /\ g # RunQ /\ count'[g] = count[g]
      BY <1>5, <1>6, Queues4
    <3>2. ASSUME NEW g \in Locks, NEW t \in Threads
          PROVE  Has(M, t, g)' <=> Has(L, t, g)
      <4>1. CASE t = first
        BY <3>1, <4>1, <1>3, <2>8 DEF Has
      <4>2. CASE t # first
        BY <3>1, <4>2, <1>3, <2>3 DEF Has
      <4> QED
        BY <4>1, <4>2
    <3> QED
      BY <3>1, <3>2
  <2>12. Holders(M)'
    BY <2>11, <1>2, HoldersSame
  <2> QED
    BY <2>3, <2>5, <2>6, <2>9, <2>10, <2>12 DEF KInv, InOrder
<1> QED
  BY <1>1, <1>7, <1>8

\* The sleepers' insertion, link by link: the lists wait for its last write.
LEMMA SleepInv ==
  ASSUME KInv, NEW y \in Threads, NEW n \in Int, Sleep(y, n)
  PROVE  KInv'
<1>1. KTypeOK /\ ~ Inserting /\ cur = y /\ pc[y] = "run" /\ holds[y] = {}
  BY DEF KInv, Sleep, MayBlock, At, Inserting
<1>2. PICK r, L : InOrder(r, L)
  BY DEF KInv
<1>3. /\ q = r /\ R!Rings(r, L) /\ Places(L) /\ Counts(L) /\ Holders(L)
      /\ r \in Queues /\ r.prev[SlackQ] \in Nodes /\ SlackQ \in Nodes
  BY <1>1, <1>2, SameLinks, Queues4 DEF InOrder, Linked, R!Rings, Queues
<1>4. R!Free(L, y)
  BY <1>1, <1>3, RunsFree DEF Windows
<1>5. /\ sleepticks' = [sleepticks EXCEPT ![y] = n]
      /\ arg' = [arg EXCEPT ![y] = r.prev[SlackQ]]
      /\ q' = [r EXCEPT !.next[y] = SlackQ, !.prev[y] = r.prev[SlackQ]]
      /\ pc' = [pc EXCEPT ![y] = "sl_link"]
      /\ UNCHANGED <<cur, runFlag, count, holds, caught>>
  BY <1>3 DEF Sleep, Goto
<1>6. /\ arg \in [Threads -> Nodes] /\ pc \in [Threads -> PCs]
      /\ sleepticks \in [Threads -> Int]
  BY <1>1 DEF KTypeOK
<1>7. \A t \in Threads : /\ arg'[t] = IF t = y THEN r.prev[SlackQ] ELSE arg[t]
                        /\ pc'[t] = IF t = y THEN "sl_link" ELSE pc[t]
  BY <1>5, <1>6
<1>8. KTypeOK'
  <2>1. q' \in Queues
    BY <1>3, <1>5 DEF Queues
  <2>2. /\ sleepticks' \in [Threads -> Int] /\ arg' \in [Threads -> Nodes]
        /\ pc' \in [Threads -> PCs]
    BY <1>3, <1>5, <1>6 DEF PCs, Windows
  <2> QED
    BY <2>1, <2>2, <1>1, <1>5 DEF KTypeOK
<1>9. Linked(r)'
  BY <1>1, <1>5, <1>7 DEF Linked, Inserting
<1>10. Places(L)'
  <2>1. \A t \in Threads : t # cur' => ~ R!Free(L, t) /\ pc'[t] \notin Windows
    BY <1>1, <1>3, <1>5, <1>7 DEF Places
  <2>2. \A t \in Threads, h \in Queued : t = cur' => ~ R!Holds(L, h, t)
    BY <1>1, <1>4, <1>5 DEF R!Free
  <2>3. \A t \in Threads : pc'[t] # "sem_sched" /\ pc'[t] # "sl_sched"
    BY <1>1, <1>3, <1>7 DEF Places, Windows
  <2>4. \A t \in Threads, g \in Sems :
          R!Holds(L, g, t) => pc'[t] \in {"sem_sched", "sem_ret"} /\ arg'[t] = g
    BY <1>3, <1>4, <1>7, Queues4 DEF Places, R!Free
  <2>5. \A t \in Threads : pc'[t] \in {"sem_sched", "sem_ret"} => arg'[t] \in Sems
    BY <1>3, <1>7 DEF Places
  <2>6. \A t \in Threads : pc'[t] # "run" => holds'[t] = {}
    BY <1>1, <1>3, <1>5, <1>7 DEF Places
  <2> QED
    BY <2>1, <2>2, <2>3, <2>4, <2>5, <2>6 DEF Places
<1>11. Counts(L)'
  BY <1>3, <1>5 DEF Counts
<1>12. \A g \in Locks, t \in Threads : Has(L, t, g)' <=> Has(L, t, g)
  BY <1>1, <1>5, <1>7 DEF Has
<1>13. Holders(L)'
  BY <1>3, <1>5, <1>12 DEF Holders
<1> QED
  BY <1>3, <1>8, <1>9, <1>10, <1>11, <1>13 DEF KInv, InOrder

\* Q_INSERT_TAIL of the slack queue, its first writes.
LEMMA SleepLinkInv ==
  ASSUME KInv, NEW y \in Threads, SleepLink(y)
  PROVE  KInv'
<1>1. KTypeOK /\ Inserting /\ cur = y /\ pc[y] = "sl_link"
  BY DEF KInv, SleepLink, At, Inserting
<1>2. PICK r, L : InOrder(r, L)
  BY DEF KInv
<1>3. /\ q = [r EXCEPT !.next[y] = SlackQ, !.prev[y] = arg[y]] /\ arg[y] = r.prev[SlackQ]
      /\ R!Rings(r, L) /\ Places(L) /\ Counts(L) /\ Holders(L)
      /\ r \in Queues /\ arg[y] \in Nodes /\ ~ r.wild
  BY <1>1, <1>2, SameLinks, Queues4 DEF InOrder, Linked, R!Rings, Queues
<1>4. ~ Foreign(SlackQ, arg[y])
  <2>1. r.prev[SlackQ] = R!Stop(SlackQ, L[SlackQ], Len(L[SlackQ]))
    BY <1>3, KernSchedAssumption, Apart, R!Neighbours
  <2>2. L[SlackQ] \in Seq(Threads) /\ Len(L[SlackQ]) \in Nat
    BY <1>3, Apart DEF R!Rings
  <2> QED
    BY <2>1, <2>2, <1>3, Apart DEF Foreign, R!Stop
<1>5. /\ q' = [q EXCEPT !.next[arg[y]] = y, !.wild = FALSE]
      /\ pc' = [pc EXCEPT ![y] = "sl_tail"]
      /\ UNCHANGED <<cur, runFlag, sleepticks, count, arg, holds, caught>>
  <2>1. Foreign(SlackQ, arg[y]) = FALSE
    BY <1>4 DEF Foreign
  <2> QED
    BY <2>1 DEF SleepLink, Goto
<1>6. q' = [r EXCEPT !.next = [[@ EXCEPT ![y] = SlackQ] EXCEPT ![arg[y]] = y],
                     !.prev[y] = arg[y]]
  BY <1>3, <1>5 DEF Queues
<1>7. pc \in [Threads -> PCs] /\ \A t \in Threads : pc'[t] = IF t = y THEN "sl_tail" ELSE pc[t]
  BY <1>1, <1>5 DEF KTypeOK
<1>8. KTypeOK'
  <2>1. q' \in Queues /\ pc' \in [Threads -> PCs]
    BY <1>1, <1>3, <1>5, <1>7, Queues4 DEF Queues, PCs, Windows, KTypeOK
  <2> QED
    BY <2>1, <1>1, <1>5 DEF KTypeOK
<1>9. Linked(r)'
  BY <1>1, <1>3, <1>5, <1>6, <1>7 DEF Linked, Inserting
<1>10. Places(L)'
  BY <1>1, <1>3, <1>5, <1>7 DEF Places
<1>11. Counts(L)'
  BY <1>3, <1>5 DEF Counts
<1>12. \A g \in Locks, t \in Threads : Has(L, t, g)' <=> Has(L, t, g)
  BY <1>1, <1>5, <1>7 DEF Has
<1>13. Holders(L)'
  BY <1>3, <1>5, <1>12 DEF Holders
<1> QED
  BY <1>3, <1>8, <1>9, <1>10, <1>11, <1>13 DEF KInv, InOrder

\* Q_INSERT_TAIL of the slack queue, its last write.
LEMMA SleepTailInv ==
  ASSUME KInv, NEW y \in Threads, SleepTail(y)
  PROVE  KInv'
<1>1. KTypeOK /\ Inserting /\ cur = y /\ pc[y] = "sl_tail"
  BY DEF KInv, SleepTail, At, Inserting
<1>2. PICK r, L : InOrder(r, L)
  BY DEF KInv
<1>3. /\ q = [r EXCEPT !.next = [[@ EXCEPT ![y] = SlackQ] EXCEPT ![arg[y]] = y],
                       !.prev[y] = arg[y]]
      /\ arg[y] = r.prev[SlackQ]
      /\ R!Rings(r, L) /\ Places(L) /\ Counts(L) /\ Holders(L)
      /\ r \in Queues /\ arg[y] \in Nodes /\ ~ r.wild
  BY <1>1, <1>2, SameLinks, Queues4 DEF InOrder, Linked, R!Rings, Queues
<1>4. ~ Foreign(SlackQ, arg[y])
  <2>1. r.prev[SlackQ] = R!Stop(SlackQ, L[SlackQ], Len(L[SlackQ]))
    BY <1>3, KernSchedAssumption, Apart, R!Neighbours
  <2>2. L[SlackQ] \in Seq(Threads) /\ Len(L[SlackQ]) \in Nat
    BY <1>3, Apart DEF R!Rings
  <2> QED
    BY <2>1, <2>2, <1>3, Apart DEF Foreign, R!Stop
<1>5. /\ q' = [q EXCEPT !.prev[SlackQ] = y, !.nr[SlackQ] = @ + 1]
      /\ pc' = [pc EXCEPT ![y] = "sl_sched"]
      /\ UNCHANGED <<cur, runFlag, sleepticks, count, arg, holds, caught>>
  BY DEF SleepTail, Goto
<1>6. q' = QInsertTail(r, SlackQ, y)
  <2>1. (r.wild \/ Foreign(SlackQ, r.prev[SlackQ])) = r.wild
    BY <1>3, <1>4 DEF Queues
  <2> QED
    BY <2>1, <1>3, <1>5 DEF Queues, QInsertTail
<1>7. R!Free(L, y)
  BY <1>1, <1>3 DEF Places, R!Free
<1>8. PICK M : /\ R!Rings(q', M)
               /\ \A g \in Queued \ {SlackQ} : M[g] = L[g]
               /\ \A g \in Queued, t \in Threads :
                    R!Holds(M, g, t) <=> R!Holds(L, g, t) \/ (g = SlackQ /\ t = y)
  BY <1>3, <1>6, <1>7, Apart, InsertLists
<1>9. pc \in [Threads -> PCs] /\ \A t \in Threads : pc'[t] = IF t = y THEN "sl_sched" ELSE pc[t]
  BY <1>1, <1>5 DEF KTypeOK
<1>10. KTypeOK'
  <2>1. q' \in Queues
    BY <1>8, SameLinks DEF R!Rings
  <2>2. pc' \in [Threads -> PCs]
    BY <1>5, <1>9 DEF PCs, Windows
  <2> QED
    BY <2>1, <2>2, <1>1, <1>5 DEF KTypeOK
<1>11. ~ Inserting'
  BY <1>1, <1>5, <1>9 DEF Inserting
<1>12. Places(M)'
  <2>1. \A t \in Threads : t # cur' => ~ R!Free(M, t) /\ pc'[t] \notin Windows
    BY <1>1, <1>3, <1>5, <1>8, <1>9 DEF Places, R!Free
  <2>2. \A h \in Queued : R!Holds(M, h, y) <=> h = SlackQ
    BY <1>7, <1>8 DEF R!Free
  <2>3. \A t \in Threads : t # y => pc'[t] # "sem_sched" /\ pc'[t] # "sl_sched"
    BY <1>1, <1>3, <1>9 DEF Places, Windows
  <2>4. \A t \in Threads, g \in Sems :
          R!Holds(M, g, t) => pc'[t] \in {"sem_sched", "sem_ret"} /\ arg'[t] = g
    BY <1>3, <1>5, <1>7, <1>8, <1>9, Queues4 DEF Places, R!Free
  <2>5. \A t \in Threads : pc'[t] \in {"sem_sched", "sem_ret"} => arg'[t] \in Sems
    BY <1>3, <1>5, <1>9 DEF Places
  <2>6. \A t \in Threads : pc'[t] # "run" => holds'[t] = {}
    BY <1>1, <1>3, <1>5, <1>9 DEF Places
  <2>7. cur' = y /\ pc'[y] = "sl_sched" /\ SlackQ \in Queued
    BY <1>1, <1>5, <1>9, Apart
  <2> QED
    BY <2>1, <2>2, <2>3, <2>4, <2>5, <2>6, <2>7 DEF Places
<1>13. Counts(M)'
  BY <1>3, <1>5, <1>8, Queues4 DEF Counts
<1>14. \A g \in Locks, t \in Threads : Has(M, t, g)' <=> Has(L, t, g)
  BY <1>1, <1>5, <1>8, <1>9, Queues4 DEF Has
<1>15. Holders(M)'
  BY <1>3, <1>5, <1>14 DEF Holders
<1> QED
  BY <1>8, <1>10, <1>11, <1>12, <1>13, <1>15 DEF KInv, InOrder, Linked

\* syscall_cas2i_runflag up to schedule: it writes a flag and moves no thread.
LEMMA Cas2iInv ==
  ASSUME KInv, NEW y \in Threads, NEW u \in Threads, NEW ev1 \in FlagValues,
         NEW nv1 \in FlagValues, NEW ev2 \in FlagValues, NEW nv2 \in FlagValues,
         Cas2i(y, u, ev1, nv1, ev2, nv2)
  PROVE  KInv'
<1>1. KTypeOK /\ ~ Inserting /\ cur = y /\ pc[y] = "run" /\ holds[y] = {}
  BY DEF KInv, Cas2i, MayBlock, At, Inserting
<1>2. PICK r, L : InOrder(r, L)
  BY DEF KInv
<1>3. q = r /\ R!Rings(r, L) /\ Places(L) /\ Counts(L) /\ Holders(L)
  BY <1>1, <1>2 DEF InOrder, Linked
<1>4. /\ pc' = pc \/ pc' = [pc EXCEPT ![y] = "cas_sched"]
      /\ UNCHANGED <<cur, q, sleepticks, count, arg, holds, caught>>
  BY DEF Cas2i, Goto
<1>5. runFlag' \in [Threads -> FlagValues]
  <2>1. runFlag \in [Threads -> FlagValues]
    BY <1>1 DEF KTypeOK
  <2>2. runFlag' = runFlag \/ \E v \in {nv1, nv2, runFlag[u]} : runFlag' = [runFlag EXCEPT ![u] = v]
    BY DEF Cas2i
  <2> QED
    BY <2>1, <2>2
<1>6. /\ pc \in [Threads -> PCs] /\ pc' \in [Threads -> PCs]
      /\ \A t \in Threads : pc'[t] = pc[t] \/ (t = y /\ pc'[t] = "cas_sched")
  BY <1>1, <1>4 DEF KTypeOK, PCs
<1>7. KTypeOK'
  BY <1>1, <1>4, <1>5, <1>6 DEF KTypeOK
<1>8. Linked(r)'
  BY <1>1, <1>3, <1>4, <1>6 DEF Linked, Inserting
<1>9. Places(L)'
  BY <1>1, <1>3, <1>4, <1>6 DEF Places
<1>10. Counts(L)'
  BY <1>3, <1>4 DEF Counts
<1>11. \A g \in Locks, t \in Threads : Has(L, t, g)' <=> Has(L, t, g)
  BY <1>1, <1>4, <1>6 DEF Has
<1>12. Holders(L)'
  BY <1>3, <1>4, <1>11 DEF Holders
<1> QED
  BY <1>3, <1>7, <1>8, <1>9, <1>10, <1>12 DEF KInv, InOrder

\* A stuttering step.
LEMMA KStutters ==
  ASSUME KInv, UNCHANGED kvars
  PROVE  KInv'
<1>1. PICK r, L : InOrder(r, L)
  BY DEF KInv
<1>2. Linked(r)' /\ KTypeOK'
  BY <1>1 DEF InOrder, Linked, Inserting, KInv, KTypeOK, kvars
<1>3. Places(L)'
  BY <1>1 DEF InOrder, Places, kvars
<1>4. Counts(L)' /\ Holders(L)'
  BY <1>1 DEF InOrder, Counts, Holders, Has, kvars
<1> QED
  BY <1>1, <1>2, <1>3, <1>4 DEF KInv, InOrder

----------------------------------------------------------------------------
(* The theorems. *)

\* Once an interrupt has caught the running thread in a window, the model rests.
LEMMA CaughtStays == caught /\ [KNext]_kvars => caught'
<1> SUFFICES ASSUME caught, [KNext]_kvars PROVE caught'
  OBVIOUS
<1>1. ASSUME NEW t \in Threads PROVE ~ Call(t) /\ ~ KernStep(t)
  BY DEF Call, KernStep, At, MayBlock, SemWait, Signal, Sleep, Yield, Cas2i, SemSched,
         SemRet, SleepLink, SleepTail, SleepSched, CasSched
<1>2. ~ IdleLoop /\ ~ Tick /\ \A s \in Events : ~ Interrupt(s)
  BY DEF IdleLoop, Tick, Interrupt
<1> QED
  BY <1>1, <1>2 DEF KNext, kvars

\* The invariant holds until an interrupt queues the thread it finds in a window,
\* whatever other interrupts come in the windows: a device's signal may wake
\* another thread in the middle of sleep's insertion, or of sem_wait.
THEOREM KInvHolds == KSpec => [](caught \/ KInv)
<1>1. KInit => caught \/ KInv
  BY KInitInv
<1>2. (caught \/ KInv) /\ [KNext]_kvars => (caught \/ KInv)'
  <2> SUFFICES ASSUME caught \/ KInv, [KNext]_kvars PROVE caught' \/ KInv'
    OBVIOUS
  <2>1. CASE caught
    BY <2>1, CaughtStays
  <2>2. ASSUME KInv, NEW t \in Threads, Call(t) PROVE KInv'
    <3>1. ASSUME NEW n \in 0..MaxTicks, Sleep(t, n) PROVE KInv'
      <4>1. n \in Int
        BY KernSchedAssumption
      <4> QED
        BY <2>2, <3>1, <4>1, SleepInv
    <3>2. \A s \in Events : s \in Sems
      BY Queues4
    <3> QED
      BY <2>2, <3>1, <3>2, SemWaitInv, SignalInv, YieldInv, Cas2iInv DEF Call
  <2>3. ASSUME KInv, NEW t \in Threads, KernStep(t) PROVE KInv'
    <3>1. \A s \in Locks : s \in Sems
      BY Queues4
    <3> QED
      BY <2>3, <3>1, SemSchedInv, SemRetInv, SignalInv, SleepLinkInv, SleepTailInv, SleepSchedInv,
         CasSchedInv DEF KernStep
  <2>4. CASE KInv /\ IdleLoop
    BY <2>4, IdleLoopInv
  <2>5. CASE KInv /\ Tick
    BY <2>5, TickInv
  <2>6. ASSUME KInv, NEW s \in Events, Interrupt(s) PROVE caught' \/ KInv'
    BY <2>6, InterruptInv
  <2>7. CASE KInv /\ UNCHANGED kvars
    BY <2>7, KStutters
  <2> QED
    BY <2>1, <2>2, <2>3, <2>4, <2>5, <2>6, <2>7 DEF KNext
<1> QED
  BY <1>1, <1>2, PTL DEF KSpec

\* The queues as the properties read them, in the middle of an insertion too.
LEMMA ListsInOrder ==
  ASSUME NEW r, NEW L, InOrder(r, L), KTypeOK
  PROVE  /\ ~ q.wild
         /\ \A h \in Queued : h # SlackQ \/ ~ Inserting =>
              /\ WellFormed(h) /\ q.nr[h] = Len(L[h])
              /\ \A t \in Threads : On(t, h) <=> R!Holds(L, h, t)
<1>1. R!Rings(r, L) /\ r \in Queues /\ ~ r.wild /\ L \in [Queued -> Seq(Threads)]
  BY SameLinks DEF InOrder, R!Rings
<1>2. q.wild = r.wild /\ q.nr = r.nr
  BY <1>1 DEF InOrder, Linked, Queues
<1>3. ASSUME NEW h \in Queued, h # SlackQ \/ ~ Inserting
      PROVE  R!Represents(q, h, L[h])
  <2>1. R!Represents(r, h, L[h])
    BY <1>1 DEF R!Rings
  <2>2. CASE ~ Inserting
    BY <2>1, <2>2 DEF InOrder, Linked
  <2>3. CASE Inserting /\ h # SlackQ
    <3>1. /\ cur \in Threads /\ R!Free(L, cur) /\ arg[cur] = r.prev[SlackQ]
          /\ pc[cur] \in {"sl_link", "sl_tail"}
      BY <2>3, RunsFree DEF InOrder, Linked, Inserting, Places, R!Free
    <3>2. arg[cur] = R!Stop(SlackQ, L[SlackQ], Len(L[SlackQ])) /\ Len(L[SlackQ]) \in Nat
      BY <1>1, <3>1, KernSchedAssumption, Apart, R!Neighbours
    <3>3. /\ q.next \in [Nodes -> Nodes]
          /\ \A m \in Nodes : m # cur /\ m # arg[cur] => q.next[m] = r.next[m]
          /\ \A m \in Nodes : m # cur => q.prev[m] = r.prev[m]
      <4>1. r.next \in [Nodes -> Nodes] /\ r.prev \in [Nodes -> Nodes] /\ q \in Queues
        BY <1>1 DEF Queues, KTypeOK
      <4>2. \/ q = [r EXCEPT !.next[cur] = SlackQ, !.prev[cur] = arg[cur]]
            \/ q = [r EXCEPT !.next = [[@ EXCEPT ![cur] = SlackQ] EXCEPT ![arg[cur]] = cur],
                            !.prev[cur] = arg[cur]]
        BY <2>3 DEF InOrder, Linked
      <4>3. /\ q.prev = [r.prev EXCEPT ![cur] = arg[cur]]
            /\ \/ q.next = [r.next EXCEPT ![cur] = SlackQ]
               \/ q.next = [[r.next EXCEPT ![cur] = SlackQ] EXCEPT ![arg[cur]] = cur]
        BY <4>2, <1>1 DEF Queues
      <4>4. q.next \in [Nodes -> Nodes]
        BY <4>1 DEF Queues
      <4> QED
        BY <4>1, <4>3, <4>4
    <3>4. \A i \in 0..Len(L[h]) + 1 :
            /\ R!Stop(h, L[h], i) \in Nodes
            /\ R!Stop(h, L[h], i) # arg[cur]
            /\ R!Stop(h, L[h], i) # cur
      <4>1. \A i \in 0..Len(L[h]) + 1 : R!Stop(h, L[h], i) \in Nodes
        BY <1>1, KernSchedAssumption, Apart, R!StopsOfRing, SameLinks
      <4>2. \A i \in 0..Len(L[h]) + 1, j \in 0..Len(L[SlackQ]) + 1 :
              R!Stop(h, L[h], i) # R!Stop(SlackQ, L[SlackQ], j)
        BY <1>1, <2>3, KernSchedAssumption, Apart, R!StopsApart DEF R!Rings
      <4>3. \A i \in 0..Len(L[h]) + 1 : R!Stop(h, L[h], i) # cur
        BY <3>1, Apart DEF R!Stop, R!Free, R!Holds
      <4> QED
        BY <3>2, <4>1, <4>2, <4>3
    <3>5. ASSUME NEW i \in 0..Len(L[h])
          PROVE  /\ q.next[R!Stop(h, L[h], i)] = R!Stop(h, L[h], i + 1)
                 /\ q.prev[R!Stop(h, L[h], i + 1)] = R!Stop(h, L[h], i)
      <4>1. /\ r.next[R!Stop(h, L[h], i)] = R!Stop(h, L[h], i + 1)
            /\ r.prev[R!Stop(h, L[h], i + 1)] = R!Stop(h, L[h], i)
        BY <2>1 DEF R!Represents
      <4>2. i \in 0..Len(L[h]) + 1 /\ i + 1 \in 0..Len(L[h]) + 1
        BY <1>1
      <4> QED
        BY <4>1, <4>2, <3>3, <3>4
    <3> QED
      BY <2>1, <3>5, <1>2 DEF R!Represents
  <2> QED
    BY <1>3, <2>2, <2>3
<1>4. ASSUME NEW h \in Queued, h # SlackQ \/ ~ Inserting
      PROVE  /\ WellFormed(h) /\ q.nr[h] = Len(L[h])
             /\ \A t \in Threads : On(t, h) <=> R!Holds(L, h, t)
  <2>1. R!Represents(q, h, L[h])
    BY <1>3, <1>4
  <2> QED
    BY <2>1, <1>1, ListOfQueue DEF WellFormed, On, R!Represents
<1> QED
  BY <1>1, <1>2, <1>4

\* The run queue, the sleepers and every semaphore's queue are rings with their
\* counts right, though one link serves them all, and each thread is on one of
\* them unless it runs (QueuesSound).
THEOREM QueuesSoundHolds == KSpec => []QueuesSound
<1>1. caught \/ KInv => QueuesSound
  <2> SUFFICES ASSUME KInv PROVE KTypeOK /\ QueuesWellFormed /\ OnePlace
    BY DEF QueuesSound
  <2>1. KTypeOK
    BY DEF KInv
  <2>2. PICK r, L : InOrder(r, L)
    BY DEF KInv
  <2>3. /\ ~ q.wild
        /\ \A h \in Queued : h # SlackQ \/ ~ Inserting =>
             WellFormed(h) /\ \A t \in Threads : On(t, h) <=> R!Holds(L, h, t)
    BY <2>1, <2>2, ListsInOrder
  <2>4. QueuesWellFormed
    BY <2>3 DEF QueuesWellFormed
  <2>5. ASSUME ~ Inserting, NEW t \in Threads
        PROVE  IF t = cur
               THEN {h \in Queued : On(t, h)} =
                      CASE pc[t] = "sem_sched" -> {arg[t]}
                        [] pc[t] = "sl_sched" -> {SlackQ}
                        [] OTHER -> {}
               ELSE Cardinality({h \in Queued : On(t, h)}) = 1
    <3> DEFINE places == {h \in Queued : On(t, h)}
    <3>1. \A h : h \in places <=> h \in Queued /\ R!Holds(L, h, t)
      BY <2>3, <2>5
    <3>2. R!Rings(r, L) /\ Places(L)
      BY <2>2 DEF InOrder
    <3>3. CASE t # cur
      <4>1. PICK g \in Queued : R!Holds(L, g, t)
        BY <3>2, <3>3 DEF Places, R!Free
      <4>2. \A h \in Queued : R!Holds(L, h, t) => h = g
        BY <3>2, <4>1 DEF R!Rings, R!ApartIn, R!Holds
      <4>3. places = {g}
        BY <3>1, <4>1, <4>2
      <4> QED
        BY <3>3, <4>3, FS_Singleton
    <3>4. CASE t = cur /\ pc[t] = "sem_sched"
      <4>1. arg[t] \in Queued /\ R!Holds(L, arg[t], t)
        BY <3>2, <3>4, Queues4 DEF Places
      <4>2. places = {arg[t]}
        BY <3>1, <3>2, <3>4, <4>1 DEF Places
      <4> QED
        BY <3>4, <4>2
    <3>5. CASE t = cur /\ pc[t] = "sl_sched"
      <4>1. SlackQ \in Queued /\ R!Holds(L, SlackQ, t)
        BY <3>2, <3>5, Queues4 DEF Places
      <4>2. places = {SlackQ}
        BY <3>1, <3>2, <3>5, <4>1 DEF Places
      <4> QED
        BY <3>5, <4>2
    <3>6. CASE t = cur /\ pc[t] # "sem_sched" /\ pc[t] # "sl_sched"
      <4>1. places = {}
        BY <3>1, <3>2, <3>6 DEF Places
      <4> QED
        BY <3>6, <4>1
    <3> QED
      BY <3>3, <3>4, <3>5, <3>6
  <2>6. OnePlace
    BY <2>5, Zenon DEF OnePlace
  <2> QED
    BY <2>1, <2>4, <2>6
<1> QED
  BY <1>1, KInvHolds, PTL

\* A negative count of a semaphore is the length of its queue (CountIsWaiters).
THEOREM CountIsWaitersHolds == KSpec => []CountIsWaiters
<1>1. caught \/ KInv => CountIsWaiters
  <2> SUFFICES ASSUME KInv, NEW s \in Sems
               PROVE  q.nr[s] = IF count[s] < 0 THEN - count[s] ELSE 0
    BY DEF CountIsWaiters
  <2>1. PICK r, L : InOrder(r, L) /\ KTypeOK
    BY DEF KInv
  <2>2. q.nr[s] = Len(L[s])
    BY <2>1, ListsInOrder, Queues4
  <2> QED
    BY <2>1, <2>2 DEF InOrder, Counts
<1> QED
  BY <1>1, KInvHolds, PTL

\* A lock that is not free has exactly one holder, the thread that was given it
\* and has not returned from sem_wait counted in (LockHasOneHolder).
THEOREM LockHasOneHolderHolds == KSpec => []LockHasOneHolder
<1>1. caught \/ KInv => LockHasOneHolder
  <2> SUFFICES ASSUME KInv, NEW s \in Locks
               PROVE  Cardinality({t \in Threads : Granted(t, s)}) = IF count[s] > 0 THEN 0 ELSE 1
    BY DEF LockHasOneHolder
  <2>1. PICK r, L : InOrder(r, L) /\ KTypeOK
    BY DEF KInv
  <2>2. \A t \in Threads : On(t, s) <=> R!Holds(L, s, t)
    BY <2>1, ListsInOrder, Queues4
  <2>3. \A t \in Threads : Granted(t, s) <=> Has(L, t, s)
    BY <2>2 DEF Granted, Has
  <2>4. /\ count[s] > 0 <=> \A t \in Threads : ~ Granted(t, s)
        /\ \A t, u \in Threads : Granted(t, s) /\ Granted(u, s) => t = u
    BY <2>1, <2>3 DEF InOrder, Holders
  <2>5. CASE count[s] > 0
    <3>1. {t \in Threads : Granted(t, s)} = {}
      BY <2>4, <2>5
    <3> QED
      BY <3>1, <2>5, FS_EmptySet
  <2>6. CASE ~ count[s] > 0
    <3>1. PICK t \in Threads : Granted(t, s)
      BY <2>4, <2>6
    <3>2. {u \in Threads : Granted(u, s)} = {t}
      BY <2>4, <3>1
    <3> QED
      BY <3>2, <2>6, FS_Singleton
  <2> QED
    BY <2>5, <2>6
<1> QED
  BY <1>1, KInvHolds, PTL

\* Scheduling moves no sleeper.
LEMMA ScheduleSleepers ==
  ASSUME KTypeOK, NEW L, Places(L), NEW r, NEW N, NEW st, R!Rings(r, N), Woken(N, L, st),
         NEW b \in BOOLEAN, Schedule(r, b),
         b => (cur # Idle => pc[cur] \notin Windows),
         ~ b => cur \in Threads /\ pc[cur] \in {"sem_sched", "sl_sched"} /\ N = L
  PROVE  \E M : R!Rings(q', M) /\ M[SlackQ] = N[SlackQ]
<1>1. cur # Idle => ~ R!Holds(N, RunQ, cur) /\ (b => R!Free(N, cur))
  BY OffRunQueue
<1>2. cur \in Threads \cup {Idle} /\ SlackQ \in Queued \ {RunQ}
  BY Queues4 DEF KTypeOK
<1> QED
  BY <1>1, <1>2, ScheduleLists

\* Only a tick takes a sleeper off the sleepers' queue, and only one whose time
\* it used up.
LEMMA SleepersLeave ==
  ASSUME KTypeOK, ~ Inserting, ~ Inserting', ~ caught',
         NEW L, R!Rings(q, L), Places(L), Counts(L), Holders(L), [KNext]_kvars
  PROVE  \E M : /\ R!Rings(q', M)
                /\ \A t \in Threads :
                     R!Holds(L, SlackQ, t) /\ ~ R!Holds(M, SlackQ, t) => sleepticks[t] <= 1
<1> DEFINE Goal == \E M : /\ R!Rings(q', M)
                          /\ \A t \in Threads :
                               R!Holds(L, SlackQ, t) /\ ~ R!Holds(M, SlackQ, t) => sleepticks[t] <= 1
<1> SUFFICES Goal
  OBVIOUS
<1>1. ASSUME NEW M, R!Rings(q', M), M[SlackQ] = L[SlackQ]
      PROVE  Goal
  BY <1>1 DEF R!Holds
<1> HIDE DEF Goal
<1>2. Woken(L, L, sleepticks)
  BY DEF Woken
<1>3. CASE q' = q
  BY <1>1, <1>3
<1>4. ASSUME NEW b \in BOOLEAN, Schedule(q, b),
             b => (cur # Idle => pc[cur] \notin Windows),
             ~ b => cur \in Threads /\ pc[cur] \in {"sem_sched", "sl_sched"}
      PROVE  Goal
  BY <1>1, <1>2, <1>4, ScheduleSleepers
<1>5. ASSUME NEW y \in Threads, NEW s \in Sems, SemWait(y, s)
      PROVE  Goal
  <2>1. /\ s \in Queued /\ s # SlackQ /\ SlackQ \in Queued
        /\ cur = y /\ pc[y] = "run" /\ (q' = q \/ q' = QInsertTail(q, s, y))
    BY <1>5, Queues4 DEF SemWait, MayBlock, At
  <2>2. R!Free(L, y)
    BY <2>1, RunsFree DEF Windows
  <2>3. CASE q' = QInsertTail(q, s, y)
    BY <2>1, <2>2, <2>3, <1>1, InsertLists
  <2> QED
    BY <2>1, <2>3, <1>3
<1>6. ASSUME NEW s \in Sems, SemSignal(s)
      PROVE  Goal
  <2>1. SlackQ \in Queued \ {s, RunQ}
    BY Queues4
  <2> QED
    BY <2>1, <1>1, <1>6, SignalLists
<1>7. CASE Tick
  <2> DEFINE swept == Sweep(q, sleepticks, q.next[SlackQ])
  <2>0. cur # Idle => pc[cur] \notin Windows
    BY <1>7 DEF Tick, InWindow, KTypeOK
  <2>1. Schedule(swept.queue, TRUE) /\ (cur # Idle => pc[cur] \notin Windows)
    BY <1>7, <2>0 DEF Tick
  <2>2. \E N : R!Rings(swept.queue, N) /\ Woken(N, L, sleepticks)
    BY SweepLists DEF KTypeOK
  <2>3. PICK N : R!Rings(swept.queue, N) /\ Woken(N, L, sleepticks)
    BY <2>2
  <2> HIDE DEF swept
  <2>4. PICK M : R!Rings(q', M) /\ M[SlackQ] = N[SlackQ]
    BY <2>1, <2>3, ScheduleSleepers
  <2>5. \A t \in Threads : R!Holds(M, SlackQ, t) <=> R!Holds(N, SlackQ, t)
    BY <2>4 DEF R!Holds
  <2> QED
    BY <2>3, <2>4, <2>5 DEF Goal, Woken
<1>8. ASSUME NEW y \in Threads, Call(y)
      PROVE  Goal
  <2>1. ASSUME NEW n \in 0..MaxTicks, Sleep(y, n)
        PROVE  FALSE
    <3>1. cur' = y /\ pc'[y] = "sl_link"
      BY <2>1 DEF Sleep, MayBlock, At, Goto, KTypeOK
    <3> QED
      BY <3>1 DEF Inserting
  <2>2. CASE Yield(y)
    BY <2>2, <1>4 DEF Yield, MayBlock, At, Windows
  <2>3. ASSUME NEW u \in Threads, NEW ev1 \in FlagValues, NEW nv1 \in FlagValues,
               NEW ev2 \in FlagValues, NEW nv2 \in FlagValues, Cas2i(y, u, ev1, nv1, ev2, nv2)
        PROVE  Goal
    BY <2>3, <1>3 DEF Cas2i
  <2>4. \A s \in Events : s \in Sems
    BY Queues4
  <2> QED
    BY <2>1, <2>2, <2>3, <2>4, <1>5, <1>6, <1>8 DEF Call, Signal
<1>9. ASSUME NEW y \in Threads, KernStep(y)
      PROVE  Goal
  <2>1. CASE SemSched(y)
    BY <2>1, <1>4 DEF SemSched, At
  <2>2. CASE SemRet(y)
    BY <2>2, <1>3 DEF SemRet
  <2>3. CASE SleepLink(y) \/ SleepTail(y)
    BY <2>3 DEF SleepLink, SleepTail, At, Inserting
  <2>4. CASE SleepSched(y)
    BY <2>4, <1>4 DEF SleepSched, At
  <2>5. CASE CasSched(y)
    BY <2>5, <1>4 DEF CasSched, At, Windows
  <2>6. \A s \in Locks : s \in Sems
    BY Queues4
  <2> QED
    BY <2>1, <2>2, <2>3, <2>4, <2>5, <2>6, <1>6, <1>9 DEF KernStep, Signal
<1>10. CASE IdleLoop
  BY <1>10, <1>4 DEF IdleLoop
<1>11. ASSUME NEW s \in Events, Interrupt(s)
       PROVE  Goal
  BY <1>6, <1>11, Queues4 DEF Interrupt
<1>12. CASE UNCHANGED kvars
  BY <1>3, <1>12 DEF kvars
<1> QED
  BY <1>7, <1>8, <1>9, <1>10, <1>11, <1>12 DEF KNext

\* A sleeper leaves its queue only by the tick that uses up its time
\* (SleepsItsTicks): no other step, of any thread, takes it off.
THEOREM SleepsItsTicksHolds == KSpec => SleepsItsTicks
<1>1. (caught \/ KInv) /\ (caught \/ KInv)' /\ [KNext]_kvars =>
        [~ caught' => \A t \in Threads :
           ~ Inserting /\ ~ Inserting' /\ On(t, SlackQ) /\ ~ On(t, SlackQ)' => sleepticks[t] <= 1]_kvars
  <2> SUFFICES ASSUME caught \/ KInv, [KNext]_kvars, ~ caught', NEW t \in Threads,
                      ~ Inserting, ~ Inserting', On(t, SlackQ), ~ On(t, SlackQ)'
               PROVE  sleepticks[t] <= 1
    OBVIOUS
  <2>0. KInv
    BY CaughtStays
  <2>1. KTypeOK /\ SlackQ \in Queued
    BY <2>0, Apart DEF KInv
  <2>2. PICK L : R!Rings(q, L) /\ Places(L) /\ Counts(L) /\ Holders(L)
    BY <2>0, Settled
  <2>3. PICK M : /\ R!Rings(q', M)
                 /\ R!Holds(L, SlackQ, t) /\ ~ R!Holds(M, SlackQ, t) => sleepticks[t] <= 1
    BY <2>1, <2>2, SleepersLeave
  <2>4. R!Represents(q, SlackQ, L[SlackQ]) /\ R!Represents(q', SlackQ, M[SlackQ])
    BY <2>1, <2>2, <2>3 DEF R!Rings
  <2>5. R!Holds(L, SlackQ, t)
    BY <2>1, <2>2, <2>4, ListOfQueue DEF On
  <2>6. ~ R!Holds(M, SlackQ, t)
    BY <2>1, <2>3, <2>4, ListOfQueue DEF On
  <2> QED
    BY <2>3, <2>5, <2>6
<1> QED
  BY <1>1, KInvHolds, PTL DEF KSpec, SleepsItsTicks
=============================================================================
