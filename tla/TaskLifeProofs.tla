--------------------------- MODULE TaskLifeProofs ---------------------------
(***************************************************************************)
(* Theorems about TaskLife, for any number of tasks and threads.           *)
(***************************************************************************)
EXTENDS TaskLifeProps, FiniteSetTheorems, TLAPS

----------------------------------------------------------------------------
(* The invariant.                                                            *)

NoRepeats(s) == \A i, j \in DOMAIN s : s[i] = s[j] => i = j

\* Off its task's list, or about to be taken off by nobody else.
Left == {"vn_signal", "vn_unlock", "vn_sched", "gone", "tv_again"}

\* Where arg is a thread, or a task, that does not run yet.
ForksThread == {"tf_lock", "tf_add"}

\* Where fork_lock is held.
Inside == {"fk_new", "fk_map", "tf_add", "vn_stop", "vn_unlock", "tv_first", "tv_again", "wt_find"}

TypesInv ==
  /\ LifeTypeOK
  /\ children \in [Tasks -> Seq(Tasks)] /\ threads \in [Tasks -> Seq(Threads)]

\* A task that is not there yet has nothing.
UnbornInv ==
  \A k \in Tasks : life[k] = "none" =>
    /\ threads[k] = <<>> /\ children[k] = <<>> /\ waiters[k] = <<>> /\ count[k] = 0
    /\ \A j \in Tasks : parent[j] # k
    /\ \A t \in Threads : task[t] = k => t = k /\ pc[t] = "none"

\* A thread that is there belongs to a task; off the task's list it has left,
\* or is still being forked.
ThreadsInv ==
  /\ \A t \in Tasks : task[t] = t
  /\ \A t \in Threads : task[t] = None => pc[t] = "none"
  /\ \A k \in Tasks : NoRepeats(threads[k])
  /\ \A k \in Tasks : \A t \in Members(threads[k]) :
       pc[t] \notin Left \ {"tv_again"}
  /\ \A t \in Threads : task[t] # None /\ life[task[t]] # "none" =>
       \/ t \in Members(threads[task[t]])
       \/ pc[t] \in Left
       \/ pc[t] = "none" /\ \E v \in Threads : pc[v] \in ForksThread /\ arg[v] = t

\* What a fork is making does not run, and has one maker.
MakingInv ==
  \A t \in Threads :
    /\ pc[t] \in ForksThread =>
         /\ arg[t] \in Forked /\ pc[arg[t]] = "none" /\ task[arg[t]] = task[t]
         /\ arg[t] \notin Members(threads[task[t]])
    /\ pc[t] = "fk_map" => arg[t] \in Tasks /\ pc[arg[t]] = "none" /\ life[arg[t]] = "live"
    /\ pc[t] \in ForksThread \cup {"fk_map"} =>
         \A v \in Threads : pc[v] \in ForksThread \cup {"fk_map"} /\ arg[v] = arg[t] => v = t

\* A task lives as long as it has a thread; the last one signals, alone.
LivesInv ==
  /\ \A k \in Tasks : life[k] = "live" <=> threads[k] # <<>>
  /\ \A t \in Threads : pc[t] = "vn_signal" => threads[task[t]] = <<>>
  /\ \A t, u \in Threads :
       pc[t] = "vn_signal" /\ pc[u] = "vn_signal" /\ task[t] = task[u] => t = u
  /\ \A t \in parked : pc[t] \in Doomed
  /\ FreedIsLeft

\* Whoever is on the queue of a task's semaphore waits there for its children.
QueuesInv ==
  \A p \in Tasks :
    /\ NoRepeats(waiters[p])
    /\ \A t \in Members(waiters[p]) : task[t] = p /\ pc[t] = "wt_blocked"

LockInv ==
  /\ LockHeldInside
  /\ \A k \in Tasks, t \in Threads : forkLock[k] = t => task[t] = k
  /\ \A t \in Threads : pc[t] = "vn_sched" => forkLock[task[t]] # t

TreeInv ==
  /\ \A p \in Tasks : There(p) =>
       Members(children[p]) = {k \in Tasks : There(k) /\ parent[k] = p}
  /\ \A p \in Tasks : NoRepeats(children[p]) /\ parent[p] # p
  /\ \A k \in Tasks \ {InitTask} : There(k) => parent[k] \in Tasks

LifeInv ==
  /\ TypesInv /\ UnbornInv /\ ThreadsInv /\ MakingInv /\ LivesInv
  /\ QueuesInv /\ LockInv /\ TreeInv

\* Whom a zombie still lists as its children are orphans, so that reaping it
\* takes nobody else's parent away.
FamilyInv ==
  /\ \A k \in Tasks : life[k] = "zombie" => Members(children[k]) \subseteq orphans
  /\ ParentPointersValid

\* The signals of children and the waits of parents.
WaitsInv ==
  /\ \A p \in Tasks : There(p) /\ ~ Unsound(p) =>
       /\ IsFiniteSet(Signalled(p)) /\ IsFiniteSet(Woken(p))
       /\ Cardinality(Signalled(p)) = count[p] + Len(waiters[p]) + Cardinality(Woken(p))
       /\ waiters[p] # <<>> => count[p] = -Len(waiters[p])
       /\ waiters[p] = <<>> => count[p] >= 0
  /\ panicked => \E p \in Tasks : Unsound(p)

----------------------------------------------------------------------------
(* Lists.                                                                    *)

\* An empty list has no members.
LEMMA EmptyList == Members(<<>>) = {} /\ NoRepeats(<<>>)
  BY DEF Members, NoRepeats

\* An element inserted at the front.
LEMMA PrependList ==
  ASSUME NEW S, NEW s \in Seq(S), NEW e \in S
  PROVE  /\ <<e>> \o s \in Seq(S) /\ <<e>> \o s # <<>>
         /\ Members(<<e>> \o s) = Members(s) \cup {e}
         /\ NoRepeats(s) /\ e \notin Members(s) => NoRepeats(<<e>> \o s)
  <1> DEFINE r == <<e>> \o s
  <1>1. /\ DOMAIN s = 1..Len(s) /\ Len(s) \in Nat
        /\ r \in Seq(S) /\ Len(r) = Len(s) + 1 /\ DOMAIN r = 1..(Len(s) + 1)
        /\ r[1] = e /\ \A i \in 1..(Len(s) + 1) : i # 1 => r[i] = s[i - 1]
    OBVIOUS
  <1>2. \A i \in 1..Len(s) : i + 1 \in 1..(Len(s) + 1) /\ i + 1 # 1 /\ (i + 1) - 1 = i
    BY <1>1
  <1>3. \A i \in 1..(Len(s) + 1) : i # 1 => i - 1 \in 1..Len(s)
    BY <1>1
  <1>4. 1 \in 1..(Len(s) + 1)
    BY <1>1
  <1>5. r # <<>>
    BY <1>1
  <1> HIDE DEF r
  <1>6. \A x : x \in Members(r) <=> x \in Members(s) \cup {e}
    <2>1. ASSUME NEW x \in Members(r) PROVE x \in Members(s) \cup {e}
      BY <1>1, <1>3 DEF Members
    <2>2. ASSUME NEW x \in Members(s) PROVE x \in Members(r)
      <3>1. PICK i \in 1..Len(s) : x = s[i]
        BY <1>1 DEF Members
      <3>2. x = r[i + 1] /\ i + 1 \in DOMAIN r
        BY <1>1, <1>2, <3>1
      <3> QED
        BY <3>2 DEF Members
    <2>3. e \in Members(r)
      BY <1>1, <1>4 DEF Members
    <2> QED
      BY <2>1, <2>2, <2>3
  <1>7. ASSUME NoRepeats(s), e \notin Members(s) PROVE NoRepeats(r)
    <2> SUFFICES ASSUME NEW i \in 1..(Len(s) + 1), NEW j \in 1..(Len(s) + 1), r[i] = r[j]
                 PROVE  i = j
      BY <1>1 DEF NoRepeats
    <2>1. CASE i = 1 \/ j = 1
      BY <1>1, <1>3, <1>7, <2>1 DEF Members
    <2>2. CASE i # 1 /\ j # 1
      <3>1. i - 1 = j - 1
        BY <1>1, <1>3, <1>7, <2>2 DEF NoRepeats
      <3> QED
        BY <3>1
    <2> QED
      BY <2>1, <2>2
  <1> QED
    BY <1>1, <1>5, <1>6, <1>7 DEF r

\* An element added at the end.
LEMMA AppendList ==
  ASSUME NEW S, NEW s \in Seq(S), NEW e \in S
  PROVE  /\ Append(s, e) \in Seq(S) /\ Append(s, e) # <<>> /\ Len(Append(s, e)) = Len(s) + 1
         /\ Members(Append(s, e)) = Members(s) \cup {e}
         /\ NoRepeats(s) /\ e \notin Members(s) => NoRepeats(Append(s, e))
  <1>1. /\ DOMAIN s = 1..Len(s) /\ Len(s) \in Nat
        /\ DOMAIN Append(s, e) = 1..(Len(s) + 1)
        /\ \A i \in 1..Len(s) : Append(s, e)[i] = s[i]
        /\ Append(s, e)[Len(s) + 1] = e
        /\ Append(s, e) \in Seq(S) /\ Append(s, e) # <<>> /\ Len(Append(s, e)) = Len(s) + 1
    OBVIOUS
  <1>2. \A i \in 1..(Len(s) + 1) : i \in 1..Len(s) \/ i = Len(s) + 1
    BY <1>1
  <1>3. 1..Len(s) \subseteq 1..(Len(s) + 1) /\ Len(s) + 1 \in 1..(Len(s) + 1)
    BY <1>1
  <1>4. \A x : x \in Members(Append(s, e)) <=> x \in Members(s) \cup {e}
    BY <1>1, <1>2, <1>3 DEF Members
  <1>5. ASSUME NoRepeats(s), e \notin Members(s) PROVE NoRepeats(Append(s, e))
    BY <1>1, <1>2, <1>5 DEF Members, NoRepeats
  <1> QED
    BY <1>1, <1>4, <1>5

\* The first element taken off a list without repeats.
LEMMA TailList ==
  ASSUME NEW S, NEW s \in Seq(S), s # <<>>, NoRepeats(s)
  PROVE  /\ Head(s) \in Members(s) /\ Head(s) \in S
         /\ Tail(s) \in Seq(S) /\ Len(Tail(s)) = Len(s) - 1
         /\ Members(Tail(s)) = Members(s) \ {Head(s)}
         /\ NoRepeats(Tail(s))
  <1>1. /\ DOMAIN s = 1..Len(s) /\ Len(s) \in Nat /\ Len(s) > 0
        /\ Head(s) = s[1] /\ 1 \in DOMAIN s
        /\ DOMAIN Tail(s) = 1..(Len(s) - 1)
        /\ Tail(s) \in Seq(S) /\ Len(Tail(s)) = Len(s) - 1
        /\ \A i \in 1..(Len(s) - 1) : Tail(s)[i] = s[i + 1]
    OBVIOUS
  <1>2. \A i \in 1..Len(s) : i # 1 => i - 1 \in 1..(Len(s) - 1) /\ (i - 1) + 1 = i
    BY <1>1
  <1>3. \A i \in 1..(Len(s) - 1) : i + 1 \in 1..Len(s) /\ i + 1 # 1
    BY <1>1
  <1>4. \A x : x \in Members(Tail(s)) <=> x \in Members(s) \ {Head(s)}
    <2>1. ASSUME NEW x, x \in Members(Tail(s)) PROVE x \in Members(s) \ {Head(s)}
      <3>1. PICK i \in 1..(Len(s) - 1) : x = Tail(s)[i]
        BY <1>1, <2>1 DEF Members
      <3>2. x = s[i + 1] /\ i + 1 \in DOMAIN s /\ i + 1 # 1
        BY <1>1, <1>3, <3>1
      <3> QED
        BY <1>1, <3>2 DEF Members, NoRepeats
    <2>2. ASSUME NEW x, x \in Members(s) \ {Head(s)} PROVE x \in Members(Tail(s))
      <3>1. PICK i \in 1..Len(s) : x = s[i] /\ i # 1
        BY <1>1, <2>2 DEF Members
      <3>2. x = Tail(s)[i - 1] /\ i - 1 \in DOMAIN Tail(s)
        BY <1>1, <1>2, <3>1
      <3> QED
        BY <3>2 DEF Members
    <2> QED
      BY <2>1, <2>2
  <1>5. NoRepeats(Tail(s))
    <2> SUFFICES ASSUME NEW i \in 1..(Len(s) - 1), NEW j \in 1..(Len(s) - 1),
                        Tail(s)[i] = Tail(s)[j]
                 PROVE  i = j
      BY <1>1 DEF NoRepeats
    <2>1. i + 1 = j + 1
      BY <1>1, <1>3 DEF NoRepeats
    <2> QED
      BY <2>1
  <1>6. Head(s) \in Members(s) /\ Head(s) \in S
    BY <1>1 DEF Members
  <1> QED
    BY <1>1, <1>4, <1>5, <1>6

\* An element taken out of a list without repeats.
LEMMA WithoutList ==
  ASSUME NEW S, NEW s \in Seq(S), NEW e, NoRepeats(s)
  PROVE  /\ Without(s, e) \in Seq(S)
         /\ Members(Without(s, e)) = Members(s) \ {e}
         /\ NoRepeats(Without(s, e))
  <1>1. CASE e \notin Members(s)
    BY <1>1 DEF Without
  <1>2. CASE e \in Members(s)
    <2> DEFINE i == CHOOSE i \in DOMAIN s : s[i] = e
               r == [j \in 1..Len(s) - 1 |-> IF j < i THEN s[j] ELSE s[j + 1]]
    <2>1. Without(s, e) = r
      BY <1>2 DEF Without
    <2>2. DOMAIN s = 1..Len(s) /\ Len(s) \in Nat /\ \A j \in 1..Len(s) : s[j] \in S
      OBVIOUS
    <2>3. i \in 1..Len(s) /\ s[i] = e
      BY <1>2, <2>2 DEF Members
    <2> HIDE DEF i
    <2>4. Len(s) - 1 \in Nat /\ DOMAIN r = 1..(Len(s) - 1)
      BY <2>2, <2>3
    <2>5. \A j \in 1..(Len(s) - 1) :
            /\ j < i => j \in 1..Len(s) /\ r[j] = s[j]
            /\ ~ (j < i) => j + 1 \in 1..Len(s) /\ r[j] = s[j + 1] /\ j + 1 > i
      BY <2>2, <2>3
    <2>6. \A j \in 1..Len(s) : /\ j < i => j \in 1..(Len(s) - 1)
                               /\ j > i => j - 1 \in 1..(Len(s) - 1) /\ ~ (j - 1 < i) /\ (j - 1) + 1 = j
      BY <2>2, <2>3
    <2> HIDE DEF r
    <2>7. r \in Seq(S)
      <3>1. \A j \in 1..(Len(s) - 1) : r[j] \in S
        BY <2>2, <2>5
      <3>2. r \in [1..(Len(s) - 1) -> S]
        BY <2>4, <3>1 DEF r
      <3> QED
        BY <2>4, <3>2
    <2>8. \A x : x \in Members(r) <=> x \in Members(s) \ {e}
      <3>1. ASSUME NEW x \in Members(r) PROVE x \in Members(s) \ {e}
        <4>1. PICK j \in 1..(Len(s) - 1) : x = r[j]
          BY <2>4 DEF Members
        <4>2. PICK m \in 1..Len(s) : x = s[m] /\ m # i
          BY <2>5, <4>1
        <4> QED
          BY <2>2, <2>3, <4>2 DEF Members, NoRepeats
      <3>2. ASSUME NEW x \in Members(s) \ {e} PROVE x \in Members(r)
        <4>1. PICK m \in 1..Len(s) : x = s[m] /\ m # i
          BY <2>2, <2>3 DEF Members
        <4>2. m < i \/ m > i
          BY <2>3, <4>1
        <4>3. \E j \in 1..(Len(s) - 1) : r[j] = x
          BY <2>5, <2>6, <4>1, <4>2
        <4> QED
          BY <2>4, <4>3 DEF Members
      <3> QED
        BY <3>1, <3>2
    <2>9. NoRepeats(r)
      <3> SUFFICES ASSUME NEW j \in 1..(Len(s) - 1), NEW m \in 1..(Len(s) - 1), r[j] = r[m]
                   PROVE  j = m
        BY <2>4 DEF NoRepeats
      <3>1. CASE j < i /\ m < i
        BY <2>2, <2>5, <3>1 DEF NoRepeats
      <3>2. CASE ~ (j < i) /\ ~ (m < i)
        <4>1. j + 1 = m + 1
          BY <2>2, <2>5, <3>2 DEF NoRepeats
        <4> QED
          BY <4>1
      <3>3. CASE j < i /\ ~ (m < i)
        <4>1. j = m + 1
          BY <2>2, <2>5, <3>3 DEF NoRepeats
        <4> QED
          BY <2>3, <3>3, <4>1
      <3>4. CASE ~ (j < i) /\ m < i
        <4>1. j + 1 = m
          BY <2>2, <2>5, <3>4 DEF NoRepeats
        <4> QED
          BY <2>3, <3>4, <4>1
      <3> QED
        BY <3>1, <3>2, <3>3, <3>4
    <2> QED
      BY <2>1, <2>7, <2>8, <2>9
  <1> QED
    BY <1>1, <1>2

----------------------------------------------------------------------------
(* The steps.                                                                *)

\* What thread t does.
LifeStep(t) ==
  \/ Kernel(t) \/ Preempt(t) \/ Fatal(t)
  \/ \E call \in Calls : Call(t, call)
  \/ \E u \in Forked : CallThreadFork(t, u)

\* What becomes of the semaphore of p, and of others than t, with a signal of t:
\* there is no such semaphore, the signal is kept, or it takes the first waiter.
Unheard(t, p) ==
  /\ p = None \/ life[p] = "freed"
  /\ UNCHANGED <<count, waiters>>
  /\ \A u \in Threads \ {t} : pc'[u] = pc[u]

Kept(t, p) ==
  /\ p \in Tasks /\ life[p] # "freed" /\ waiters[p] = <<>>
  /\ waiters' = waiters /\ count' = [count EXCEPT ![p] = @ + 1]
  /\ \A u \in Threads \ {t} : pc'[u] = pc[u]

Wakes(t, p, h) ==
  /\ p \in Tasks /\ life[p] # "freed" /\ waiters[p] # <<>> /\ h = Head(waiters[p])
  /\ waiters' = [waiters EXCEPT ![p] = Tail(@)] /\ count' = [count EXCEPT ![p] = @ + 1]
  /\ h \in Threads \ {t} /\ h \in Members(waiters[p])
  /\ task[h] = p /\ pc[h] = "wt_blocked" /\ pc'[h] = "wt_lock"
  /\ \A u \in Threads \ {t, h} : pc'[u] = pc[u]

Signals(t, p) == Unheard(t, p) \/ Kept(t, p) \/ \E h : Wakes(t, p, h)

\* sem_signal moves the caller, and a thread that waits.
LEMMA SignalMoves ==
  ASSUME LifeInv, NEW t \in Threads, NEW p \in Tasks \cup {None}, NEW l \in PCs,
         pc[t] # "wt_blocked", Signal(t, p, l)
  PROVE  /\ pc' \in [Threads -> PCs] /\ pc'[t] = l
         /\ count' \in [Tasks -> Int] /\ waiters' \in [Tasks -> Seq(Threads)]
         /\ Signals(t, p)
  <1>0. /\ pc \in [Threads -> PCs] /\ count \in [Tasks -> Int] /\ waiters \in [Tasks -> Seq(Threads)]
    BY DEF LifeInv, TypesInv, LifeTypeOK
  <1>1. CASE p = None \/ life[p] = "freed"
    BY <1>0, <1>1 DEF Signal, Goto, Signals, Unheard
  <1>2. CASE ~ (p = None \/ life[p] = "freed") /\ waiters[p] = <<>>
    <2>1. p \in Tasks /\ waiters' = waiters /\ count' = [count EXCEPT ![p] = @ + 1] /\ pc' = [pc EXCEPT ![t] = l]
      BY <1>2 DEF Signal, Goto
    <2>2. Kept(t, p)
      BY <1>0, <1>2, <2>1 DEF Kept
    <2>3. pc' \in [Threads -> PCs] /\ pc'[t] = l /\ waiters' \in [Tasks -> Seq(Threads)]
      BY <1>0, <2>1
    <2>4. count' \in [Tasks -> Int]
      BY <1>0, <2>1
    <2> QED
      BY <2>2, <2>3, <2>4 DEF Signals
  <1>3. CASE ~ (p = None \/ life[p] = "freed") /\ waiters[p] # <<>>
    <2> DEFINE h == Head(waiters[p])
    <2>1. /\ waiters' = [waiters EXCEPT ![p] = Tail(@)] /\ count' = [count EXCEPT ![p] = @ + 1]
          /\ pc' = [pc EXCEPT ![t] = l, ![h] = "wt_lock"]
      BY <1>3 DEF Signal
    <2>2. p \in Tasks /\ waiters[p] \in Seq(Threads) /\ NoRepeats(waiters[p])
      BY <1>0, <1>3 DEF LifeInv, QueuesInv
    <2>3. h \in Members(waiters[p]) /\ h \in Threads /\ Tail(waiters[p]) \in Seq(Threads)
      BY <1>3, <2>2, TailList
    <2>4. task[h] = p /\ pc[h] = "wt_blocked" /\ h # t
      BY <2>2, <2>3 DEF LifeInv, QueuesInv
    <2> HIDE DEF h
    <2>5. /\ pc' \in [Threads -> PCs] /\ pc'[t] = l /\ pc'[h] = "wt_lock"
          /\ \A u \in Threads \ {t, h} : pc'[u] = pc[u]
      BY <1>0, <2>1, <2>3, <2>4 DEF PCs
    <2>6. count' \in [Tasks -> Int] /\ waiters' \in [Tasks -> Seq(Threads)]
      BY <1>0, <2>1, <2>2, <2>3
    <2>7. Wakes(t, p, h)
      BY <1>3, <2>1, <2>2, <2>3, <2>4, <2>5 DEF Wakes, h
    <2> QED
      BY <2>5, <2>6, <2>7 DEF Signals
  <1> QED
    BY <1>1, <1>2, <1>3

\* A thread that may take a step from a label belongs to a task that is there.
LEMMA AtFacts ==
  ASSUME LifeInv, NEW t \in Threads, pc[t] # "none"
  PROVE  /\ task[t] \in Tasks /\ life[task[t]] # "none"
         /\ parent[task[t]] \in Tasks \cup {None}
         /\ t \in Members(threads[task[t]]) \/ pc[t] \in Left
         /\ t \notin parked /\ pc[t] \notin {"gone", "tv_again"} => life[task[t]] # "freed"
         /\ t \notin parked /\ pc[t] \notin Left => life[task[t]] = "live"
  <1>1. task[t] \in Tasks
    BY DEF LifeInv, TypesInv, LifeTypeOK, ThreadsInv
  <1>2. life[task[t]] # "none"
    BY <1>1 DEF LifeInv, UnbornInv
  <1>3. t \in Members(threads[task[t]]) \/ pc[t] \in Left
    BY <1>1, <1>2, TaskLifeAssumption DEF LifeInv, ThreadsInv
  <1>4. t \in Members(threads[task[t]]) => life[task[t]] = "live"
    BY <1>1, EmptyList DEF LifeInv, LivesInv
  <1>5. parent[task[t]] \in Tasks \cup {None}
    BY <1>1 DEF LifeInv, TypesInv, LifeTypeOK
  <1>6. t \notin parked /\ pc[t] \notin {"gone", "tv_again"} => life[task[t]] # "freed"
    BY <1>1, TaskLifeAssumption DEF LifeInv, LivesInv, FreedIsLeft
  <1> QED
    BY <1>1, <1>2, <1>3, <1>4, <1>5, <1>6

\* Whom a step moves beside its thread.
LEMMA OthersMove ==
  ASSUME LifeInv, NEW t \in Threads, LifeStep(t), NEW u \in Threads, u # t
  PROVE  \/ pc'[u] = pc[u]
         \/ /\ pc[u] = "wt_blocked" /\ pc'[u] = "wt_lock"
            /\ VnSignal(t) \/ TvFirst(t) \/ TvAgain(t)
         \/ pc[u] = "user" /\ pc'[u] = "gone" /\ TvFirst(t) /\ u = Head(threads[task[t]])
         \/ pc[u] = "none" /\ pc'[u] = "user" /\ u = arg[t] /\ (FkDone(t) \/ TfAdd(t))
  <1>0. pc \in [Threads -> PCs]
    BY DEF LifeInv, TypesInv, LifeTypeOK
  <1>1. CASE VnSignal(t) \/ TvAgain(t)
    <2>1. pc[t] # "wt_blocked" /\ pc[t] # "none"
      BY <1>1 DEF VnSignal, TvAgain, At
    <2>2. PICK l \in PCs : Signal(t, parent[task[t]], l)
      BY <1>1 DEF VnSignal, TvAgain, AfterSignal, PCs, Ending, Doomed
    <2>3. parent[task[t]] \in Tasks \cup {None}
      BY <2>1, AtFacts
    <2>4. \/ pc'[u] = pc[u]
          \/ pc[u] = "wt_blocked" /\ pc'[u] = "wt_lock"
      BY <2>1, <2>2, <2>3, SignalMoves DEF Signals, Unheard, Kept, Wakes
    <2> QED
      BY <1>1, <2>4
  <1>2. CASE TvFirst(t)
    <2>1. pc[t] = "tv_first" /\ "tv_again" \in PCs
      BY <1>2 DEF TvFirst, At, PCs, Ending
    <2>2. CASE Signal(t, parent[task[t]], "tv_again")
      <3>1. parent[task[t]] \in Tasks \cup {None}
        BY <2>1, AtFacts
      <3>2. \/ pc'[u] = pc[u]
            \/ pc[u] = "wt_blocked" /\ pc'[u] = "wt_lock"
        BY <2>1, <2>2, <3>1, SignalMoves DEF Signals, Unheard, Kept, Wakes
      <3> QED
        BY <1>2, <3>2
    <2>3. CASE pc' = [[pc EXCEPT ![Head(threads[task[t]])] = "gone"] EXCEPT ![t] = "tv_again"]
      BY <1>0, <1>2, <2>1, <2>3 DEF TvFirst, At
    <2> QED
      BY <1>2, <2>2, <2>3 DEF TvFirst
  <1>3. CASE FkDone(t) \/ TfAdd(t)
    BY <1>0, <1>3 DEF FkDone, TfAdd, At, LifeInv, MakingInv, ForksThread
  <1>4. CASE ~ VnSignal(t) /\ ~ TvAgain(t) /\ ~ TvFirst(t) /\ ~ FkDone(t) /\ ~ TfAdd(t)
    BY <1>0, <1>4 DEF LifeStep, Kernel, TakesLock, GoesOn, Goto, FkLock, FkNew, FkNoMemory,
       FkFails, TfLock, VnLock, VnStop, VnList, VnListWith, VnUnlock, VnSched, Preempt,
       TvLock, WtLook, WtSem, WtLock, WtReap, ReapChild, WtAssert, Call, Fatal, CallThreadFork
  <1> QED
    BY <1>1, <1>2, <1>3, <1>4

\* The orphans are tasks, stay orphans, and become more when a task ends.
LEMMA StepOrphans ==
  ASSUME LifeInv, NEW t \in Threads, LifeStep(t)
  PROVE  /\ orphans \subseteq orphans' /\ orphans' \subseteq Tasks
         /\ VnList(t) /\ life' # life => Members(children[task[t]]) \subseteq orphans'
         /\ TvFirst(t) /\ life' # life => Members(children[task[t]]) \subseteq orphans'
  <1>0. /\ pc[t] # "none" => task[t] \in Tasks
        /\ orphans \subseteq Tasks
        /\ \A k \in Tasks : Members(children[k]) \subseteq Tasks
        /\ life \in [Tasks -> Lives]
    BY AtFacts DEF LifeInv, TypesInv, LifeTypeOK
  <1>1. CASE VnList(t)
    <2>1. /\ pc[t] = "vn_list" /\ ~ TvFirst(t)
          /\ orphans' = IF Others(t) = <<>> THEN orphans \cup Members(children[task[t]]) ELSE orphans
          /\ life' = [life EXCEPT ![task[t]] = IF Others(t) = <<>> THEN "zombie" ELSE @]
      BY <1>1 DEF VnList, VnListWith, TvFirst, At
    <2>2. Others(t) # <<>> => life' = life
      BY <1>0, <2>1
    <2> QED
      BY <1>0, <2>1, <2>2
  <1>2. CASE TvFirst(t)
    <2>1. /\ pc[t] = "tv_first" /\ ~ VnList(t)
          /\ \/ orphans' = orphans \cup Members(children[task[t]])
             \/ orphans' = orphans /\ life' = life
      BY <1>2 DEF VnList, VnListWith, TvFirst, At
    <2> QED
      BY <1>0, <2>1
  <1>3. CASE ~ VnList(t) /\ ~ TvFirst(t)
    <2>1. orphans' = orphans
      BY <1>3 DEF LifeStep, Kernel, TakesLock, GoesOn, FkLock, FkNew, FkNoMemory,
         FkDone, FkFails, TfLock, TfAdd, VnLock, VnStop, VnSignal, VnUnlock, VnSched, Preempt,
         TvLock, TvAgain, WtLook, WtSem, WtLock, WtReap, ReapChild, WtAssert, Call, Fatal, CallThreadFork
    <2> QED
      BY <1>0, <1>3, <2>1
  <1> QED
    BY <1>1, <1>2, <1>3

\* Variables keep their types.
LEMMA StepTypes ==
  ASSUME LifeInv, NEW t \in Threads, LifeStep(t)
  PROVE  TypesInv'
  <1> USE TaskLifeAssumption
  <1>0. /\ TypesInv /\ LifeTypeOK /\ pc \in [Threads -> PCs] /\ life \in [Tasks -> Lives]
        /\ parent \in [Tasks -> Tasks \cup {None}] /\ task \in [Threads -> Tasks \cup {None}]
        /\ forkLock \in [Tasks -> Threads \cup {None}] /\ count \in [Tasks -> Int]
        /\ waiters \in [Tasks -> Seq(Threads)] /\ arg \in [Threads -> Threads \cup {None}]
        /\ parked \subseteq Threads /\ panicked \in BOOLEAN
        /\ children \in [Tasks -> Seq(Tasks)] /\ threads \in [Tasks -> Seq(Threads)]
        /\ \A k \in Tasks : Members(threads[k]) \subseteq {u \in Threads : task[u] = k}
    BY DEF LifeInv, TypesInv, LifeTypeOK
  <1>t. Tasks \subseteq Threads /\ Forked \subseteq Threads
    BY DEF Threads
  <1> SUFFICES /\ pc' \in [Threads -> PCs] /\ life' \in [Tasks -> Lives]
               /\ parent' \in [Tasks -> Tasks \cup {None}] /\ task' \in [Threads -> Tasks \cup {None}]
               /\ forkLock' \in [Tasks -> Threads \cup {None}] /\ count' \in [Tasks -> Int]
               /\ waiters' \in [Tasks -> Seq(Threads)] /\ arg' \in [Threads -> Threads \cup {None}]
               /\ parked' \subseteq Threads /\ panicked' \in BOOLEAN
               /\ children' \in [Tasks -> Seq(Tasks)] /\ threads' \in [Tasks -> Seq(Threads)]
               /\ \A k \in Tasks : Members(threads'[k]) \subseteq {u \in Threads : task'[u] = k}
    <2>1. \A k \in Tasks : children'[k] \in Seq(Tasks) => Members(children'[k]) \subseteq Tasks
      BY DEF Members
    <2>2. orphans' \subseteq Tasks
      BY StepOrphans
    <2> QED
      BY <2>1, <2>2 DEF TypesInv, LifeTypeOK
  <1>1. CASE VnSignal(t) \/ TvAgain(t)
    <2>1. pc[t] # "wt_blocked" /\ pc[t] # "none"
      BY <1>1 DEF VnSignal, TvAgain, At
    <2>2. PICK l \in PCs : Signal(t, parent[task[t]], l)
      BY <1>1 DEF VnSignal, TvAgain, AfterSignal, PCs, Ending, Doomed
    <2>3. parent[task[t]] \in Tasks \cup {None}
      BY <2>1, AtFacts
    <2>4. pc' \in [Threads -> PCs] /\ count' \in [Tasks -> Int] /\ waiters' \in [Tasks -> Seq(Threads)]
      BY <2>1, <2>2, <2>3, SignalMoves
    <2>5. life' \in [Tasks -> Lives]
      <3>1. CASE VnSignal(t)
        BY <1>0, <3>1 DEF VnSignal
      <3>2. CASE TvAgain(t)
        <4>1. life' = [life EXCEPT ![task[t]] = IF @ = "freed" THEN @ ELSE "zombie"]
          BY <3>2 DEF TvAgain
        <4> QED
          BY <1>0, <4>1 DEF Lives
      <3> QED
        BY <1>1, <3>1, <3>2
    <2>6. UNCHANGED <<parent, children, threads, task, forkLock, arg, parked, panicked>>
      BY <1>1 DEF VnSignal, TvAgain
    <2> QED
      BY <1>0, <2>4, <2>5, <2>6
  <1>2. CASE TvFirst(t)
    <2> DEFINE k == task[t]
    <2>1. pc[t] = "tv_first" /\ k \in Tasks /\ t \in Members(threads[k])
      BY <1>2, AtFacts DEF TvFirst, At, Left
    <2>2. threads[k] # <<>> /\ NoRepeats(threads[k]) /\ threads[k] \in Seq(Threads)
      BY <1>0, <2>1, EmptyList DEF LifeInv, ThreadsInv
    <2>3. /\ Head(threads[k]) \in Threads /\ Tail(threads[k]) \in Seq(Threads)
          /\ Members(Tail(threads[k])) \subseteq Members(threads[k])
      BY <2>2, TailList
    <2>4. pc' \in [Threads -> PCs] /\ count' \in [Tasks -> Int] /\ waiters' \in [Tasks -> Seq(Threads)]
      <3>1. CASE Signal(t, parent[k], "tv_again")
        <4>1. parent[k] \in Tasks \cup {None} /\ "tv_again" \in PCs /\ pc[t] # "wt_blocked"
          BY <1>0, <2>1 DEF PCs, Ending
        <4> QED
          BY <3>1, <4>1, SignalMoves
      <3>2. CASE pc' = [[pc EXCEPT ![Head(threads[k])] = "gone"] EXCEPT ![t] = "tv_again"]
                 /\ UNCHANGED <<count, waiters>>
        BY <1>0, <2>3, <3>2 DEF PCs, Ending
      <3> QED
        BY <1>2, <3>1, <3>2 DEF TvFirst
    <2>5. threads' = [threads EXCEPT ![k] = Tail(threads[k])] /\ task' = task
      BY <1>2 DEF TvFirst
    <2> HIDE DEF k
    <2>6. threads' \in [Tasks -> Seq(Threads)]
      BY <1>0, <2>1, <2>3, <2>5
    <2>7. \A j \in Tasks : Members(threads'[j]) \subseteq {u \in Threads : task'[u] = j}
      BY <1>0, <2>1, <2>3, <2>5
    <2>8. /\ life' = [life EXCEPT ![k] = "zombie"] \/ life' = life
          /\ arg' = [arg EXCEPT ![t] = Head(threads[k])]
      BY <1>2 DEF TvFirst, k
    <2>9. UNCHANGED <<parent, children, task, forkLock, parked, panicked>>
      BY <1>2 DEF TvFirst
    <2>10. life' \in [Tasks -> Lives]
      BY <1>0, <2>8 DEF Lives
    <2>11. arg' \in [Threads -> Threads \cup {None}]
      BY <1>0, <2>3, <2>8
    <2> QED
      BY <1>0, <2>4, <2>6, <2>7, <2>9, <2>10, <2>11
  <1>3. CASE \E k \in Tasks : FkNew(t, k)
    <2>1. PICK k \in Tasks : FkNew(t, k)
      BY <1>3
    <2> DEFINE p == task[t]
    <2>2. p \in Tasks
      BY <2>1, AtFacts DEF FkNew, At
    <2>3. <<k>> \o children[p] \in Seq(Tasks)
      BY <1>0, <2>2, PrependList
    <2>4. <<k>> \in Seq(Threads) /\ Members(<<k>>) = {k}
      BY <1>t DEF Members
    <2>5. task[k] = k
      BY DEF LifeInv, ThreadsInv
    <2>6. /\ children' = [children EXCEPT ![p] = <<k>> \o @]
          /\ threads' = [threads EXCEPT ![k] = <<k>>] /\ task' = task
          /\ life' = [life EXCEPT ![k] = "live"] /\ parent' = [parent EXCEPT ![k] = p]
          /\ arg' = [arg EXCEPT ![t] = k] /\ pc' = [pc EXCEPT ![t] = "fk_map"]
          /\ UNCHANGED <<forkLock, count, waiters, parked, panicked>>
      BY <2>1 DEF FkNew, Goto
    <2> HIDE DEF p
    <2>7. children' \in [Tasks -> Seq(Tasks)]
      BY <1>0, <2>2, <2>3, <2>6
    <2>8. threads' \in [Tasks -> Seq(Threads)]
      BY <1>0, <2>4, <2>6
    <2>9. \A j \in Tasks : Members(threads'[j]) \subseteq {u \in Threads : task'[u] = j}
      <3>1. \A j \in Tasks : threads'[j] = IF j = k THEN <<k>> ELSE threads[j]
        BY <1>0, <2>6
      <3>2. \A j \in Tasks \ {k} : Members(threads'[j]) \subseteq {u \in Threads : task[u] = j}
        BY <1>0, <3>1
      <3>3. Members(threads'[k]) \subseteq {u \in Threads : task[u] = k}
        BY <1>t, <2>4, <2>5, <3>1
      <3> QED
        BY <2>6, <3>2, <3>3
    <2>10. life' \in [Tasks -> Lives] /\ parent' \in [Tasks -> Tasks \cup {None}]
      BY <1>0, <2>2, <2>6 DEF Lives
    <2>11. arg' \in [Threads -> Threads \cup {None}]
      BY <1>0, <1>t, <2>6
    <2>12. pc' \in [Threads -> PCs]
      BY <1>0, <2>6 DEF PCs
    <2> QED
      BY <1>0, <2>6, <2>7, <2>8, <2>9, <2>10, <2>11, <2>12
  <1>4. CASE TfAdd(t)
    <2> DEFINE k == task[t]
               u == arg[t]
    <2>1. k \in Tasks /\ u \in Threads /\ task[u] = k /\ u # t
      BY <1>4, <1>t, AtFacts DEF TfAdd, At, LifeInv, MakingInv, ForksThread
    <2>2. threads[k] \in Seq(Threads)
      BY <1>0, <2>1
    <2>3. <<u>> \o threads[k] \in Seq(Threads) /\ Members(<<u>> \o threads[k]) = Members(threads[k]) \cup {u}
      BY <2>1, <2>2, PrependList
    <2>4. /\ threads' = [threads EXCEPT ![k] = <<u>> \o @]
          /\ pc' = [pc EXCEPT ![t] = "user", ![u] = "user"]
          /\ arg' = [arg EXCEPT ![t] = None] /\ forkLock' = [forkLock EXCEPT ![k] = None]
          /\ UNCHANGED <<life, parent, children, task, count, waiters, parked, panicked>>
      BY <1>4 DEF TfAdd, Unlock
    <2> HIDE DEF k, u
    <2> QED
      BY <1>0, <2>1, <2>3, <2>4 DEF PCs
  <1>5. CASE VnList(t)
    <2> DEFINE k == task[t]
    <2>1. k \in Tasks /\ threads[k] \in Seq(Threads) /\ NoRepeats(threads[k])
      BY <1>0, <1>5, AtFacts DEF VnList, VnListWith, At, LifeInv, ThreadsInv
    <2>2. Others(t) \in Seq(Threads) /\ Members(Others(t)) \subseteq Members(threads[k])
      BY <2>1, WithoutList DEF Others
    <2>3. /\ threads' = [threads EXCEPT ![k] = Others(t)]
          /\ UNCHANGED <<parent, children, task, forkLock, count, waiters, arg, parked, panicked>>
      BY <1>5 DEF VnList, VnListWith
    <2>4. \E l \in PCs : pc' = [pc EXCEPT ![t] = l]
      BY <1>5 DEF VnList, VnListWith, Goto, AfterSignal, PCs, Ending, Doomed
    <2>5. \E l \in Lives : life' = [life EXCEPT ![k] = l]
      <3>1. life' = [life EXCEPT ![k] = IF Others(t) = <<>> THEN "zombie" ELSE @]
        BY <1>5 DEF VnList, VnListWith
      <3>2. life[k] \in Lives /\ "zombie" \in Lives
        BY <1>0, <2>1 DEF Lives
      <3> QED
        BY <1>0, <2>1, <3>1, <3>2
    <2> HIDE DEF k
    <2> QED
      BY <1>0, <2>1, <2>2, <2>3, <2>4, <2>5
  <1>6. CASE WtSem(t)
    <2> DEFINE k == task[t]
    <2>1. k \in Tasks /\ Append(waiters[k], t) \in Seq(Threads)
      BY <1>0, <1>6, AtFacts, AppendList DEF WtSem, At
    <2>2. /\ waiters' = waiters \/ waiters' = [waiters EXCEPT ![k] = Append(@, t)]
          /\ count' = [count EXCEPT ![k] = @ - 1]
          /\ UNCHANGED <<life, parent, children, threads, task, forkLock, arg, parked, panicked>>
      BY <1>6 DEF WtSem
    <2>3. \E l \in PCs : pc' = [pc EXCEPT ![t] = l]
      BY <1>6 DEF WtSem, Goto, PCs
    <2> HIDE DEF k
    <2>4. pc' \in [Threads -> PCs]
      BY <1>0, <2>3
    <2>5. count' \in [Tasks -> Int]
      <3>1. \A j \in Tasks : count[j] - 1 \in Int
        BY <1>0
      <3> QED
        BY <1>0, <2>1, <2>2, <3>1
    <2>6. waiters' \in [Tasks -> Seq(Threads)]
      BY <1>0, <2>1, <2>2
    <2> QED
      BY <1>0, <2>2, <2>4, <2>5, <2>6
  <1>7. CASE \E k \in Tasks : WtReap(t, k)
    <2>1. PICK k \in Tasks : WtReap(t, k)
      BY <1>7
    <2> DEFINE p == task[t]
    <2>2. p \in Tasks /\ Without(children[p], k) \in Seq(Tasks)
      BY <1>0, <2>1, AtFacts, WithoutList DEF WtReap, ReapChild, At, LifeInv, TreeInv
    <2>3. /\ children' = [children EXCEPT ![p] = Without(@, k)]
          /\ life' = [life EXCEPT ![k] = "freed"] /\ pc' = [pc EXCEPT ![t] = "user"]
          /\ forkLock' = [forkLock EXCEPT ![p] = None]
          /\ UNCHANGED <<parent, threads, task, count, waiters, arg, parked, panicked>>
      BY <2>1 DEF WtReap, ReapChild, Unlock, Goto
    <2> HIDE DEF p
    <2> QED
      BY <1>0, <2>2, <2>3 DEF Lives, PCs
  <1>8. CASE \E u \in Forked : CallThreadFork(t, u)
    <2>1. PICK u \in Forked : CallThreadFork(t, u)
      BY <1>8
    <2>2. task[t] \in Tasks /\ task[u] = None /\ u \in Threads
      BY <1>t, <2>1, AtFacts DEF CallThreadFork, At
    <2>3. /\ task' = [task EXCEPT ![u] = task[t]] /\ arg' = [arg EXCEPT ![t] = u]
          /\ pc' = [pc EXCEPT ![t] = "tf_lock"]
          /\ UNCHANGED <<life, parent, children, threads, forkLock, count, waiters, parked, panicked>>
      BY <2>1 DEF CallThreadFork, Goto
    <2>4. task' \in [Threads -> Tasks \cup {None}] /\ \A k \in Tasks : \A v \in Threads : task[v] = k => task'[v] = k
      BY <1>0, <2>2, <2>3
    <2> QED
      BY <1>0, <2>2, <2>3, <2>4 DEF PCs
  <1>9. CASE FkLock(t) \/ FkNoMemory(t) \/ FkDone(t) \/ FkFails(t) \/ TfLock(t) \/ VnLock(t)
             \/ VnStop(t) \/ VnUnlock(t) \/ VnSched(t) \/ Preempt(t) \/ TvLock(t) \/ WtLook(t)
             \/ WtLock(t) \/ WtAssert(t) \/ Fatal(t) \/ \E call \in Calls : Call(t, call)
    <2>1. UNCHANGED <<life, parent, children, threads, task, count, waiters>>
      BY <1>9 DEF FkLock, FkNoMemory, FkDone, FkFails, TfLock, VnLock, VnStop, VnUnlock, VnSched,
         Preempt, TvLock, WtLook, WtLock, WtAssert, Fatal, Call
    <2>2. /\ \/ forkLock' = forkLock
             \/ \E x \in Threads \cup {None} : forkLock' = [forkLock EXCEPT ![task[t]] = x]
          /\ arg' = arg \/ arg' = [arg EXCEPT ![t] = None]
          /\ parked' = parked \/ parked' = parked \cup {t}
          /\ panicked' = panicked \/ panicked' = TRUE
      BY <1>9 DEF FkLock, FkNoMemory, FkDone, FkFails, TfLock, VnLock, VnStop, VnUnlock,
         VnSched, Preempt, TvLock, WtLook, WtLock, WtAssert, Fatal, Call, Lock, Unlock
    <2>3. pc' \in [Threads -> PCs]
      <3>1. CASE \E call \in Calls : Call(t, call)
        <4>1. PICK call \in Calls \ {"thread_fork", "fatal"} : Call(t, call)
          BY <3>1 DEF Call
        <4>2. call \in {"fork", "vanish", "fault", "task_vanish", "wait"}
          OBVIOUS
        <4>3. \E l \in PCs : pc' = [pc EXCEPT ![t] = l]
          BY <4>1, <4>2, Zenon DEF Call, Goto, PCs, Ending, Doomed
        <4> QED
          BY <1>0, <4>3
      <3>2. CASE ~ \E call \in Calls : Call(t, call)
        <4>1. CASE FkDone(t)
          BY <1>0, <4>1 DEF FkDone, PCs
        <4>2. CASE ~ FkDone(t)
          <5>1. pc' = pc \/ \E l \in PCs : pc' = [pc EXCEPT ![t] = l]
            BY <1>9, <3>2, <4>2 DEF FkLock, FkNoMemory, FkFails, TfLock, VnLock, VnStop,
               VnUnlock, VnSched, Preempt, TvLock, WtLook, WtLock, WtAssert, Fatal, Goto,
               PCs, Ending, Doomed
          <5>2. CASE pc' = pc
            BY <1>0, <5>2
          <5>3. ASSUME NEW l \in PCs, pc' = [pc EXCEPT ![t] = l]
                PROVE  pc' \in [Threads -> PCs]
            BY <1>0, <5>3
          <5> QED
            BY <5>1, <5>2, <5>3
        <4> QED
          BY <4>1, <4>2
      <3> QED
        BY <3>1, <3>2
    <2>4. forkLock' \in [Tasks -> Threads \cup {None}]
      <3>1. CASE \E x \in Threads \cup {None} : forkLock' = [forkLock EXCEPT ![task[t]] = x]
        <4>1. PICK x \in Threads \cup {None} : forkLock' = [forkLock EXCEPT ![task[t]] = x]
          BY <3>1
        <4> QED
          BY <1>0, <4>1
      <3> QED
        BY <1>0, <2>2, <3>1
    <2>5. arg' \in [Threads -> Threads \cup {None}]
      BY <1>0, <2>2
    <2>6. parked' \subseteq Threads /\ panicked' \in BOOLEAN
      BY <1>0, <2>2
    <2> QED
      BY <1>0, <2>1, <2>3, <2>4, <2>5, <2>6
  <1> QED
    BY <1>1, <1>2, <1>3, <1>4, <1>5, <1>6, <1>7, <1>8, <1>9 DEF LifeStep, Kernel, TakesLock, GoesOn

\* What a step leaves alone of other tasks and threads.
LEMMA StepFrame ==
  ASSUME LifeInv, NEW t \in Threads, LifeStep(t)
  PROVE  /\ pc[t] # "none" /\ pc[t] # "wt_blocked" /\ t \notin parked
         /\ task[t] \in Tasks /\ life[task[t]] # "none"
         /\ \A k \in Tasks \ {task[t]} :
              /\ \/ life'[k] = life[k] /\ threads'[k] = threads[k] /\ parent'[k] = parent[k]
                 \/ FkNew(t, k)
                 \/ WtReap(t, k) /\ threads'[k] = threads[k] /\ parent'[k] = parent[k]
              /\ children'[k] = children[k] /\ forkLock'[k] = forkLock[k]
              /\ k # parent[task[t]] => count'[k] = count[k] /\ waiters'[k] = waiters[k]
         /\ \A k \in Tasks : parent'[k] = parent[k] \/ FkNew(t, k)
         /\ \A k \in Tasks : task'[k] = k
         /\ \A u \in Threads : task'[u] = task[u] \/ CallThreadFork(t, u)
         /\ \A u \in Threads \ {t} : arg'[u] = arg[u]
         /\ parked' = parked \/ (parked' = parked \cup {t} /\ pc[t] \in Doomed /\ pc'[t] = pc[t])
  <1> USE TaskLifeAssumption DEF LifeStep, Kernel, TakesLock, GoesOn
  <1>0. /\ TypesInv /\ LifeTypeOK /\ pc \in [Threads -> PCs] /\ life \in [Tasks -> Lives]
        /\ parent \in [Tasks -> Tasks \cup {None}] /\ task \in [Threads -> Tasks \cup {None}]
        /\ forkLock \in [Tasks -> Threads \cup {None}] /\ count \in [Tasks -> Int]
        /\ waiters \in [Tasks -> Seq(Threads)] /\ arg \in [Threads -> Threads \cup {None}]
        /\ children \in [Tasks -> Seq(Tasks)] /\ threads \in [Tasks -> Seq(Threads)]
        /\ Tasks \subseteq Threads /\ \A k \in Tasks : task[k] = k
    BY DEF LifeInv, TypesInv, LifeTypeOK, ThreadsInv, Threads
  <1>1. pc[t] # "none" /\ pc[t] # "wt_blocked" /\ t \notin parked
    BY ZenonT(90) DEF FkLock, FkNew, FkNoMemory, FkDone, FkFails, TfLock, TfAdd, VnLock, VnStop, VnList,
       VnListWith, VnSignal, VnUnlock, VnSched, Preempt, TvLock, TvFirst, TvAgain, WtLook, WtSem,
       WtLock, WtReap, ReapChild, WtAssert, Call, Fatal, CallThreadFork, At, Doomed
  <1>2. task[t] \in Tasks /\ life[task[t]] # "none"
    BY <1>1, AtFacts
  <1>3. \A k \in Tasks : parent'[k] = parent[k] \/ FkNew(t, k)
    BY <1>0, ZenonT(90) DEF FkLock, FkNew, FkNoMemory, FkDone, FkFails, TfLock, TfAdd, VnLock, VnStop, VnList,
       VnListWith, VnSignal, VnUnlock, VnSched, Preempt, TvLock, TvFirst, TvAgain, WtLook, WtSem,
       WtLock, WtReap, ReapChild, WtAssert, Call, Fatal, CallThreadFork
  <1>4. \A u \in Threads : task'[u] = task[u] \/ CallThreadFork(t, u)
    BY <1>0, ZenonT(90) DEF FkLock, FkNew, FkNoMemory, FkDone, FkFails, TfLock, TfAdd, VnLock, VnStop, VnList,
       VnListWith, VnSignal, VnUnlock, VnSched, Preempt, TvLock, TvFirst, TvAgain, WtLook, WtSem,
       WtLock, WtReap, ReapChild, WtAssert, Call, Fatal, CallThreadFork
  <1>5. \A k \in Tasks : task'[k] = k
    BY <1>0, <1>4 DEF CallThreadFork
  <1>6. \A u \in Threads \ {t} : arg'[u] = arg[u]
    BY <1>0, ZenonT(90) DEF FkLock, FkNew, FkNoMemory, FkDone, FkFails, TfLock, TfAdd, VnLock, VnStop, VnList,
       VnListWith, VnSignal, VnUnlock, VnSched, Preempt, TvLock, TvFirst, TvAgain, WtLook, WtSem,
       WtLock, WtReap, ReapChild, WtAssert, Call, Fatal, CallThreadFork
  <1>7. parked' = parked \/ (parked' = parked \cup {t} /\ pc[t] \in Doomed /\ pc'[t] = pc[t])
    BY <1>0, ZenonT(90) DEF FkLock, FkNew, FkNoMemory, FkDone, FkFails, TfLock, TfAdd, VnLock, VnStop, VnList,
       VnListWith, VnSignal, VnUnlock, VnSched, Preempt, TvLock, TvFirst, TvAgain, WtLook, WtSem,
       WtLock, WtReap, ReapChild, WtAssert, Call, Fatal, CallThreadFork, At
  <1> SUFFICES ASSUME NEW k \in Tasks \ {task[t]}
               PROVE  /\ \/ life'[k] = life[k] /\ threads'[k] = threads[k]
                         \/ FkNew(t, k)
                         \/ WtReap(t, k) /\ threads'[k] = threads[k]
                      /\ children'[k] = children[k] /\ forkLock'[k] = forkLock[k]
                      /\ k # parent[task[t]] => count'[k] = count[k] /\ waiters'[k] = waiters[k]
    BY <1>1, <1>2, <1>3, <1>4, <1>5, <1>6, <1>7 DEF FkNew
  <1>8. threads'[k] = threads[k] \/ FkNew(t, k)
    <2>1. CASE \E j \in Tasks : FkNew(t, j)
      <3>1. PICK j \in Tasks : FkNew(t, j)
        BY <2>1
      <3>2. threads' = [threads EXCEPT ![j] = <<j>>]
        BY <3>1 DEF FkNew
      <3> QED
        BY <1>0, <3>1, <3>2
    <2>2. CASE \E j \in Tasks : WtReap(t, j)
      BY <2>2 DEF WtReap, ReapChild
    <2>3. CASE ~ \E j \in Tasks : FkNew(t, j) \/ WtReap(t, j)
      BY <1>0, <1>2, <2>3, ZenonT(90) DEF FkLock, FkNoMemory, FkDone, FkFails, TfLock, TfAdd, VnLock, VnStop,
         VnList, VnListWith, VnSignal, VnUnlock, VnSched, Preempt, TvLock, TvFirst, TvAgain, WtLook,
         WtSem, WtLock, WtAssert, Call, Fatal, CallThreadFork
    <2> QED
      BY <2>1, <2>2, <2>3
  <1>9. life'[k] = life[k] \/ FkNew(t, k) \/ WtReap(t, k)
    <2>1. CASE \E j \in Tasks : FkNew(t, j)
      <3>1. PICK j \in Tasks : FkNew(t, j)
        BY <2>1
      <3>2. life' = [life EXCEPT ![j] = "live"]
        BY <3>1 DEF FkNew
      <3>3. k = j \/ life'[k] = life[k]
        BY <1>0, <3>2
      <3> QED
        BY <3>1, <3>3
    <2>2. CASE \E j \in Tasks : WtReap(t, j)
      <3>1. PICK j \in Tasks : WtReap(t, j)
        BY <2>2
      <3>2. life' = [life EXCEPT ![j] = "freed"]
        BY <3>1 DEF WtReap, ReapChild
      <3>3. k = j \/ life'[k] = life[k]
        BY <1>0, <3>2
      <3> QED
        BY <3>1, <3>3
    <2>3. CASE ~ \E j \in Tasks : FkNew(t, j) \/ WtReap(t, j)
      BY <1>0, <1>2, <2>3, ZenonT(90) DEF FkLock, FkNoMemory, FkDone, FkFails, TfLock, TfAdd, VnLock, VnStop,
         VnList, VnListWith, VnSignal, VnUnlock, VnSched, Preempt, TvLock, TvFirst, TvAgain, WtLook,
         WtSem, WtLock, WtAssert, Call, Fatal, CallThreadFork
    <2> QED
      BY <2>1, <2>2, <2>3
  <1>11. children'[k] = children[k]
    BY <1>0, <1>2, ZenonT(90) DEF FkLock, FkNew, FkNoMemory, FkDone, FkFails, TfLock, TfAdd, VnLock, VnStop,
       VnList, VnListWith, VnSignal, VnUnlock, VnSched, Preempt, TvLock, TvFirst, TvAgain, WtLook,
       WtSem, WtLock, WtReap, ReapChild, WtAssert, Call, Fatal, CallThreadFork
  <1>12. forkLock'[k] = forkLock[k]
    BY <1>0, <1>2, ZenonT(90) DEF FkLock, FkNew, FkNoMemory, FkDone, FkFails, TfLock, TfAdd, VnLock, VnStop,
       VnList, VnListWith, VnSignal, VnUnlock, VnSched, Preempt, TvLock, TvFirst, TvAgain, WtLook,
       WtSem, WtLock, WtReap, ReapChild, WtAssert, Call, Fatal, CallThreadFork, Lock, Unlock
  <1>10. k # parent[task[t]] => count'[k] = count[k] /\ waiters'[k] = waiters[k]
    BY <1>0, <1>2, ZenonT(90) DEF FkLock, FkNew, FkNoMemory, FkDone, FkFails, TfLock, TfAdd, VnLock, VnStop,
       VnList, VnListWith, VnSignal, VnUnlock, VnSched, Preempt, TvLock, TvFirst, TvAgain, WtLook,
       WtSem, WtLock, WtReap, ReapChild, WtAssert, Call, Fatal, CallThreadFork, Signal
  <1> QED
    BY <1>8, <1>9, <1>10, <1>11, <1>12

\* A thread keeps its task.
LEMMA OwnTask ==
  ASSUME LifeInv, NEW t \in Threads, LifeStep(t)
  PROVE  task[t] \in Tasks /\ task'[t] = task[t]
  <1>1. task[t] \in Tasks /\ (task'[t] = task[t] \/ CallThreadFork(t, t))
    BY StepFrame
  <1>2. None \notin Tasks
    BY TaskLifeAssumption
  <1> QED
    BY <1>1, <1>2 DEF CallThreadFork

\* A task that is not there yet has nothing.
LEMMA StepUnborn ==
  ASSUME LifeInv, NEW t \in Threads, LifeStep(t)
  PROVE  UnbornInv'
  <1> SUFFICES ASSUME NEW k \in Tasks, life'[k] = "none"
               PROVE  /\ threads'[k] = <<>> /\ children'[k] = <<>> /\ waiters'[k] = <<>> /\ count'[k] = 0
                      /\ \A j \in Tasks : parent'[j] # k
                      /\ \A u \in Threads : task'[u] = k => u = k /\ pc'[u] = "none"
    BY DEF UnbornInv
  <1>1. life[k] = "none"
    <2>1. life \in [Tasks -> Lives] /\ task[t] \in Tasks
      BY StepFrame DEF LifeInv, TypesInv, LifeTypeOK
    <2> QED
      BY <2>1 DEF LifeStep, Kernel, TakesLock, GoesOn, FkLock, FkNew, FkNoMemory, FkDone, FkFails, TfLock, TfAdd, VnLock, VnStop,
       VnList, VnListWith, VnSignal, VnUnlock, VnSched, Preempt, TvLock, TvFirst, TvAgain, WtLook,
       WtSem, WtLock, WtReap, ReapChild, WtAssert, Call, Fatal, CallThreadFork
  <1>2. /\ threads[k] = <<>> /\ children[k] = <<>> /\ waiters[k] = <<>> /\ count[k] = 0
        /\ \A j \in Tasks : parent[j] # k
        /\ \A u \in Threads : task[u] = k => u = k /\ pc[u] = "none"
    BY <1>1 DEF LifeInv, UnbornInv
  <1>3. k # task[t] /\ task[t] \in Tasks /\ life[task[t]] # "none"
    BY <1>1, StepFrame
  <1>4. ~ FkNew(t, k)
    BY <1>1 DEF FkNew, LifeInv, TypesInv, LifeTypeOK
  <1>5. ~ WtReap(t, k)
    BY <1>1 DEF WtReap
  <1>6. threads'[k] = <<>> /\ children'[k] = <<>> /\ waiters'[k] = <<>> /\ count'[k] = 0
    BY <1>2, <1>3, <1>4, <1>5, StepFrame
  <1>7. \A j \in Tasks : parent'[j] # k
    <2> SUFFICES ASSUME NEW j \in Tasks PROVE parent'[j] # k
      OBVIOUS
    <2>1. parent'[j] = parent[j] \/ FkNew(t, j)
      BY StepFrame
    <2>2. FkNew(t, j) => parent'[j] = task[t]
      BY DEF FkNew, LifeInv, TypesInv, LifeTypeOK
    <2> QED
      BY <1>2, <1>3, <2>1, <2>2
  <1>8. ASSUME NEW u \in Threads, task'[u] = k PROVE u = k /\ pc'[u] = "none"
    <2>1. task[u] = k
      BY <1>3, <1>8, StepFrame DEF CallThreadFork, LifeInv, TypesInv, LifeTypeOK
    <2>2. u = k /\ pc[u] = "none" /\ u # t
      BY <1>2, <1>3, <2>1
    <2>3. ~ (u = arg[t] /\ (FkDone(t) \/ TfAdd(t)))
      <3>1. FkDone(t) => life[arg[t]] = "live"
        BY DEF FkDone, At, LifeInv, MakingInv
      <3>2. TfAdd(t) => arg[t] \in Forked
        BY DEF TfAdd, At, LifeInv, MakingInv, ForksThread
      <3> QED
        BY <1>1, <2>2, <3>1, <3>2, TaskLifeAssumption
    <2> QED
      BY <2>2, <2>3, OthersMove
  <1> QED
    BY <1>6, <1>7, <1>8

\* Where a step takes its thread.
LEMMA OwnMove ==
  ASSUME LifeInv, NEW t \in Threads, LifeStep(t)
  PROVE  \/ pc[t] = "fk_lock" /\ pc'[t] = "fk_new" /\ FkLock(t)
         \/ pc[t] = "fk_new" /\ pc'[t] = "fk_map" /\ \E k \in Tasks : FkNew(t, k)
         \/ pc[t] = "fk_new" /\ pc'[t] = "user" /\ FkNoMemory(t)
         \/ pc[t] = "fk_map" /\ pc'[t] = "user" /\ (FkDone(t) \/ FkFails(t))
         \/ pc[t] = "tf_lock" /\ pc'[t] = "tf_add" /\ TfLock(t)
         \/ pc[t] = "tf_add" /\ pc'[t] = "user" /\ TfAdd(t)
         \/ pc[t] = "vn_lock" /\ pc'[t] = "vn_stop" /\ VnLock(t)
         \/ pc[t] = "vn_stop" /\ pc'[t] = "vn_list" /\ VnStop(t)
         \/ pc[t] = "vn_list" /\ pc'[t] \in {"vn_signal", AfterSignal(t)} /\ VnList(t)
         \/ pc[t] = "vn_signal" /\ pc'[t] = AfterSignal(t) /\ VnSignal(t)
         \/ pc[t] = "vn_unlock" /\ pc'[t] = "vn_sched" /\ VnUnlock(t)
         \/ pc[t] = "vn_sched" /\ pc'[t] = "gone" /\ VnSched(t)
         \/ pc[t] \in Doomed /\ pc' = pc /\ Preempt(t)
         \/ pc[t] = "tv_lock" /\ pc'[t] = "tv_first" /\ TvLock(t)
         \/ pc[t] = "tv_first" /\ pc'[t] = "tv_again" /\ TvFirst(t)
         \/ pc[t] = "tv_again" /\ pc'[t] = "tv_again" /\ TvAgain(t)
         \/ pc[t] = "wt_look" /\ pc'[t] \in {"user", "wt_sem"} /\ WtLook(t)
         \/ pc[t] = "wt_sem" /\ pc'[t] \in {"wt_lock", "wt_blocked"} /\ WtSem(t)
         \/ pc[t] = "wt_lock" /\ pc'[t] = "wt_find" /\ WtLock(t)
         \/ pc[t] = "wt_find" /\ pc'[t] = "user" /\ \E k \in Tasks : WtReap(t, k)
         \/ pc[t] = "wt_find" /\ pc' = pc /\ WtAssert(t)
         \/ pc[t] = "user" /\ pc'[t] = "vn_list" /\ Fatal(t)
         \/ /\ pc[t] = "user" /\ pc'[t] \in {"fk_lock", "vn_lock", "vn_list", "tv_lock", "wt_look"}
            /\ \E call \in Calls : Call(t, call)
         \/ pc[t] = "user" /\ pc'[t] = "tf_lock" /\ \E u \in Forked : CallThreadFork(t, u)
  <1>0. pc \in [Threads -> PCs] /\ parent \in [Tasks -> Tasks \cup {None}]
    BY DEF LifeInv, TypesInv, LifeTypeOK
  <1>1. pc[t] # "none" /\ pc[t] # "wt_blocked" /\ task[t] \in Tasks
    BY StepFrame
  <1>2. CASE \E call \in Calls : Call(t, call)
    <2>1. PICK call \in Calls : Call(t, call)
      BY <1>2
    <2>2. call \in {"fork", "vanish", "fault", "task_vanish", "wait"}
      BY <2>1, TaskLifeAssumption DEF Call
    <2>3. pc'[t] \in {"fk_lock", "vn_lock", "vn_list", "tv_lock", "wt_look"}
      <3>1. pc'[t] = CASE call = "fork" -> "fk_lock"
                       [] call = "vanish" -> "vn_lock"
                       [] call = "fault" -> "vn_list"
                       [] call = "task_vanish" -> "tv_lock"
                       [] call = "wait" -> "wt_look"
        BY <1>0, <2>1 DEF Call, Goto
      <3> QED
        BY <2>2, <3>1
    <2> QED
      BY <1>2, <2>1, <2>3 DEF Call, At
  <1>3. CASE VnSignal(t) \/ TvAgain(t)
    <2>1. CASE VnSignal(t)
      <3>1. AfterSignal(t) \in PCs /\ parent[task[t]] \in Tasks \cup {None}
        BY <1>0, <1>1 DEF AfterSignal, PCs, Ending, Doomed
      <3>2. pc[t] = "vn_signal" /\ Signal(t, parent[task[t]], AfterSignal(t))
        BY <2>1 DEF VnSignal, At
      <3>3. pc'[t] = AfterSignal(t)
        BY <1>1, <3>1, <3>2, SignalMoves
      <3> QED
        BY <2>1, <3>2, <3>3
    <2>2. CASE TvAgain(t)
      <3>1. "tv_again" \in PCs /\ parent[task[t]] \in Tasks \cup {None}
        BY <1>0, <1>1 DEF PCs, Ending
      <3>2. pc[t] = "tv_again" /\ Signal(t, parent[task[t]], "tv_again")
        BY <2>2 DEF TvAgain, At
      <3>3. pc'[t] = "tv_again"
        BY <1>1, <3>1, <3>2, SignalMoves
      <3> QED
        BY <2>2, <3>2, <3>3
    <2> QED
      BY <1>3, <2>1, <2>2
  <1>4. CASE TvFirst(t)
    <2>1. "tv_again" \in PCs /\ parent[task[t]] \in Tasks \cup {None} /\ pc[t] = "tv_first"
      BY <1>0, <1>1, <1>4 DEF TvFirst, At, PCs, Ending
    <2>2. pc'[t] = "tv_again"
      <3>1. CASE Signal(t, parent[task[t]], "tv_again")
        BY <1>1, <2>1, <3>1, SignalMoves
      <3>2. CASE pc' = [[pc EXCEPT ![Head(threads[task[t]])] = "gone"] EXCEPT ![t] = "tv_again"]
        BY <1>0, <3>2
      <3> QED
        BY <1>4, <3>1, <3>2 DEF TvFirst
    <2> QED
      BY <1>4, <2>1, <2>2
  <1>5. CASE FkDone(t)
    <2>1. pc[t] = "fk_map" /\ pc[arg[t]] = "none" /\ pc' = [pc EXCEPT ![t] = "user", ![arg[t]] = "user"]
      BY <1>5 DEF FkDone, At, LifeInv, MakingInv
    <2> QED
      BY <1>0, <1>5, <2>1
  <1>6. CASE TfAdd(t)
    <2>1. pc[t] = "tf_add" /\ pc' = [pc EXCEPT ![t] = "user", ![arg[t]] = "user"]
      BY <1>6 DEF TfAdd, At
    <2> QED
      BY <1>0, <1>6, <2>1
  <1>7. CASE \/ FkLock(t) \/ FkNoMemory(t) \/ FkFails(t) \/ TfLock(t) \/ VnLock(t) \/ VnStop(t)
             \/ VnUnlock(t) \/ VnSched(t) \/ TvLock(t) \/ WtLock(t) \/ Fatal(t)
    BY <1>0, <1>7 DEF Goto, FkLock, FkNoMemory, FkFails, TfLock, VnLock, VnStop, VnUnlock,
       VnSched, TvLock, WtLock, Fatal, At
  <1>9. CASE \E k \in Tasks : FkNew(t, k) \/ WtReap(t, k)
    BY <1>0, <1>9 DEF Goto, FkNew, WtReap, ReapChild, At
  <1>10. CASE \E u \in Forked : CallThreadFork(t, u)
    BY <1>0, <1>10 DEF Goto, CallThreadFork, At
  <1>8. CASE VnList(t) \/ WtLook(t) \/ WtSem(t) \/ Preempt(t) \/ WtAssert(t)
    BY <1>0, <1>8 DEF Goto, VnList, VnListWith, WtLook, WtSem, Preempt, WtAssert, At
  <1> QED
    BY <1>2, <1>3, <1>4, <1>5, <1>6, <1>7, <1>8, <1>9, <1>10 DEF LifeStep, Kernel, TakesLock, GoesOn

\* The labels a thread goes to when it leaves its task's list.
LEMMA AfterSignalLeft ==
  ASSUME NEW t
  PROVE  /\ AfterSignal(t) \in {"vn_unlock", "vn_sched"}
         /\ AfterSignal(t) = "vn_unlock" <=> forkLock[task[t]] = t
  BY DEF AfterSignal

\* The list of threads of its task is changed by three steps.
LEMMA ThreadsStay ==
  ASSUME LifeInv, NEW t \in Threads, LifeStep(t), ~ TfAdd(t), ~ VnList(t), ~ TvFirst(t)
  PROVE  threads'[task[t]] = threads[task[t]]
  <1> DEFINE k == task[t]
  <1>0. threads \in [Tasks -> Seq(Threads)]
    BY DEF LifeInv, TypesInv, LifeTypeOK
  <1>1. k \in Tasks
    BY StepFrame
  <1>2. CASE \E j \in Tasks : FkNew(t, j)
    <2>1. PICK j \in Tasks : FkNew(t, j)
      BY <1>2
    <2>2. threads' = [threads EXCEPT ![j] = <<j>>] /\ life[j] = "none"
      BY <2>1 DEF FkNew
    <2>3. j # k
      BY <2>2, StepFrame
    <2> QED
      BY <1>0, <1>1, <2>2, <2>3
  <1>3. CASE ~ \E j \in Tasks : FkNew(t, j)
    BY <1>3 DEF LifeStep, Kernel, TakesLock, GoesOn, FkLock, FkNoMemory, FkDone, FkFails, TfLock, VnLock, VnStop,
       VnSignal, VnUnlock, VnSched, Preempt, TvLock, TvAgain, WtLook,
       WtSem, WtLock, WtReap, ReapChild, WtAssert, Call, Fatal, CallThreadFork
  <1> QED
    BY <1>2, <1>3

\* How a step changes the list of threads of its task.
LEMMA ThreadsMove ==
  ASSUME LifeInv, NEW t \in Threads, LifeStep(t), TfAdd(t) \/ VnList(t) \/ TvFirst(t)
  PROVE  /\ task[t] \in Tasks /\ t \in Members(threads[task[t]]) /\ life[task[t]] = "live"
         /\ threads[task[t]] \in Seq(Threads) /\ NoRepeats(threads[task[t]])
         /\ NoRepeats(threads'[task[t]]) /\ threads'[task[t]] \in Seq(Threads)
         /\ \/ /\ TfAdd(t) /\ threads'[task[t]] # <<>>
               /\ Members(threads'[task[t]]) = Members(threads[task[t]]) \cup {arg[t]}
               /\ life'[task[t]] = life[task[t]]
            \/ /\ VnList(t) /\ Members(threads'[task[t]]) = Members(threads[task[t]]) \ {t}
               /\ pc'[t] = IF threads'[task[t]] = <<>> THEN "vn_signal" ELSE AfterSignal(t)
               /\ life'[task[t]] = IF threads'[task[t]] = <<>> THEN "zombie" ELSE life[task[t]]
            \/ /\ TvFirst(t)
               /\ Head(threads[task[t]]) = t \/ pc[Head(threads[task[t]])] = "user"
               /\ Members(threads'[task[t]]) = Members(threads[task[t]]) \ {Head(threads[task[t]])}
               /\ threads'[task[t]] = <<>> => Head(threads[task[t]]) = t
               /\ life'[task[t]] = IF threads'[task[t]] = <<>> THEN "zombie" ELSE life[task[t]]
               /\ pc'[t] = "tv_again"
               /\ Head(threads[task[t]]) # t => pc'[Head(threads[task[t]])] = "gone"
  <1> DEFINE k == task[t]
  <1>0. /\ pc \in [Threads -> PCs] /\ life \in [Tasks -> Lives] /\ threads \in [Tasks -> Seq(Threads)]
        /\ arg \in [Threads -> Threads \cup {None}] /\ parent \in [Tasks -> Tasks \cup {None}]
    BY DEF LifeInv, TypesInv, LifeTypeOK
  <1>1. k \in Tasks /\ pc[t] # "none"
    BY StepFrame
  <1>2. threads[k] \in Seq(Threads) /\ NoRepeats(threads[k])
    BY <1>0, <1>1 DEF LifeInv, ThreadsInv
  <1>4. pc[t] \in {"tf_add", "vn_list", "tv_first"}
    BY DEF TfAdd, VnList, VnListWith, TvFirst, At
  <1>5. t \in Members(threads[k]) /\ threads[k] # <<>>
    BY <1>1, <1>4, AtFacts, EmptyList DEF Left
  <1>6. life[k] = "live"
    BY <1>1, <1>5 DEF LifeInv, LivesInv
  <1>7. CASE TfAdd(t)
    <2>1. arg[t] \in Threads /\ arg[t] \notin Members(threads[k])
      BY <1>0, <1>7 DEF TfAdd, At, LifeInv, MakingInv, ForksThread, Threads
    <2>2. threads'[k] = <<arg[t]>> \o threads[k] /\ life' = life
      BY <1>0, <1>1, <1>7 DEF TfAdd
    <2> QED
      BY <1>1, <1>2, <1>5, <1>6, <1>7, <2>1, <2>2, PrependList
  <1>8. CASE VnList(t)
    <2>1. threads'[k] = Others(t) /\ Others(t) = Without(threads[k], t)
      BY <1>0, <1>1, <1>8 DEF VnList, VnListWith, Others
    <2>2. life'[k] = IF Others(t) = <<>> THEN "zombie" ELSE life[k]
      BY <1>0, <1>1, <1>8 DEF VnList, VnListWith
    <2>3. pc'[t] = IF Others(t) = <<>> THEN "vn_signal" ELSE AfterSignal(t)
      BY <1>0, <1>8 DEF VnList, VnListWith, Goto
    <2>4. /\ Others(t) \in Seq(Threads) /\ NoRepeats(Others(t))
          /\ Members(Others(t)) = Members(threads[k]) \ {t}
      BY <1>2, <2>1, WithoutList
    <2> QED
      BY <1>1, <1>2, <1>5, <1>6, <1>8, <2>1, <2>2, <2>3, <2>4
  <1>9. CASE TvFirst(t)
    <2> DEFINE h == Head(threads[k])
    <2>1. threads'[k] = Tail(threads[k])
      BY <1>0, <1>1, <1>9 DEF TvFirst
    <2>2. /\ Tail(threads[k]) \in Seq(Threads) /\ NoRepeats(Tail(threads[k]))
          /\ h \in Threads /\ Members(Tail(threads[k])) = Members(threads[k]) \ {h}
      BY <1>2, <1>5, TailList
    <2>3. Tail(threads[k]) = <<>> => h = t
      <3> SUFFICES ASSUME Tail(threads[k]) = <<>> PROVE h = t
        OBVIOUS
      <3>1. Members(Tail(threads[k])) = {}
        BY EmptyList
      <3>2. t \notin Members(threads[k]) \ {h}
        BY <2>2, <3>1
      <3> QED
        BY <1>5, <3>2
    <2>4. h = t \/ pc[h] = "user"
      BY <1>9 DEF TvFirst
    <2>5. life'[k] = IF Tail(threads[k]) = <<>> THEN "zombie" ELSE life[k]
      BY <1>0, <1>1, <1>9 DEF TvFirst
    <2>6. pc'[t] = "tv_again"
      <3>1. CASE Signal(t, parent[k], "tv_again")
        <4>1. parent[k] \in Tasks \cup {None} /\ "tv_again" \in PCs /\ pc[t] # "wt_blocked"
          BY <1>0, <1>1, <1>4 DEF PCs, Ending
        <4> QED
          BY <3>1, <4>1, SignalMoves
      <3>2. CASE pc' = [[pc EXCEPT ![h] = "gone"] EXCEPT ![t] = "tv_again"]
        BY <1>0, <3>2
      <3> QED
        BY <1>9, <3>1, <3>2 DEF TvFirst
    <2>7. h # t => pc'[h] = "gone"
      <3> SUFFICES ASSUME h # t PROVE pc'[h] = "gone"
        OBVIOUS
      <3>1. pc' = [[pc EXCEPT ![h] = "gone"] EXCEPT ![t] = "tv_again"]
        BY <1>9, <2>3 DEF TvFirst
      <3> QED
        BY <1>0, <2>2, <3>1
    <2> QED
      BY <1>1, <1>2, <1>5, <1>6, <1>9, <2>1, <2>2, <2>3, <2>4, <2>5, <2>6, <2>7
  <1> QED
    BY <1>7, <1>8, <1>9

\* TvFirst is neither of the other two.
LEMMA TvFirstOnly == \A t : TvFirst(t) => ~ TfAdd(t) /\ ~ VnList(t)
  BY DEF TvFirst, TfAdd, VnList, VnListWith, At

\* Who comes to the list and who leaves it.
LEMMA ThreadsChange ==
  ASSUME LifeInv, NEW t \in Threads, LifeStep(t), NEW u
  PROVE  /\ u \in Members(threads'[task[t]]) /\ u \notin Members(threads[task[t]]) =>
              TfAdd(t) /\ u = arg[t]
         /\ u \in Members(threads[task[t]]) /\ u \notin Members(threads'[task[t]]) =>
              \/ VnList(t) /\ u = t
              \/ TvFirst(t) /\ (u = t \/ pc'[u] = "gone")
         /\ VnList(t) => pc'[t] \in Left
         /\ TvFirst(t) => pc'[t] = "tv_again"
  <1>1. CASE TfAdd(t)
    <2>1. ~ VnList(t) /\ ~ TvFirst(t)
      BY <1>1 DEF TfAdd, VnList, VnListWith, TvFirst, At
    <2>2. Members(threads'[task[t]]) = Members(threads[task[t]]) \cup {arg[t]}
      BY <1>1, <2>1, ThreadsMove
    <2> QED
      BY <1>1, <2>1, <2>2
  <1>2. CASE VnList(t)
    <2>1. ~ TfAdd(t) /\ ~ TvFirst(t)
      BY <1>2 DEF TfAdd, VnList, VnListWith, TvFirst, At
    <2>2. /\ Members(threads'[task[t]]) = Members(threads[task[t]]) \ {t}
          /\ pc'[t] = "vn_signal" \/ pc'[t] = AfterSignal(t)
      BY <1>2, <2>1, ThreadsMove
    <2> QED
      BY <1>2, <2>1, <2>2, AfterSignalLeft DEF Left
  <1>3. CASE TvFirst(t)
    <2>1. ~ VnList(t) /\ ~ TfAdd(t)
      BY <1>3, TvFirstOnly
    <2>2. /\ Members(threads'[task[t]]) = Members(threads[task[t]]) \ {Head(threads[task[t]])}
          /\ pc'[t] = "tv_again"
          /\ Head(threads[task[t]]) # t => pc'[Head(threads[task[t]])] = "gone"
      BY <1>3, <2>1, ThreadsMove
    <2> QED
      BY <1>3, <2>1, <2>2
  <1>4. CASE ~ TfAdd(t) /\ ~ VnList(t) /\ ~ TvFirst(t)
    BY <1>4, ThreadsStay
  <1> QED
    BY <1>1, <1>2, <1>3, <1>4

\* A thread on its task's list is not on its way out; off it, it has left or is
\* still being forked.
LEMMA StepThreads ==
  ASSUME LifeInv, NEW t \in Threads, LifeStep(t)
  PROVE  ThreadsInv'
  <1> USE TaskLifeAssumption
  <1>0. /\ pc \in [Threads -> PCs] /\ life \in [Tasks -> Lives] /\ threads \in [Tasks -> Seq(Threads)]
        /\ arg \in [Threads -> Threads \cup {None}] /\ task \in [Threads -> Tasks \cup {None}]
        /\ Tasks \subseteq Threads /\ Forked \subseteq Threads
        /\ \A k \in Tasks : \A u \in Members(threads[k]) : u \in Threads /\ task[u] = k
        /\ \A k \in Tasks : task[k] = k
    BY DEF LifeInv, TypesInv, LifeTypeOK, ThreadsInv, Threads
  <1>a. /\ pc[t] # "none" /\ pc[t] # "wt_blocked" /\ task[t] \in Tasks /\ life[task[t]] # "none"
    BY StepFrame
  <1>1. \A u \in Tasks : task'[u] = u
    BY StepFrame
  <1>2. ASSUME NEW u \in Threads, task'[u] = None PROVE pc'[u] = "none"
    <2>1. task[u] = None
      BY <1>0, <1>2, <1>a, StepFrame DEF CallThreadFork
    <2>2. pc[u] = "none" /\ u # t
      BY <1>a, <2>1 DEF LifeInv, ThreadsInv
    <2>3. ~ (u = arg[t] /\ (FkDone(t) \/ TfAdd(t)))
      <3>1. FkDone(t) => arg[t] \in Tasks
        BY DEF FkDone, At, LifeInv, MakingInv
      <3>2. TfAdd(t) => task[arg[t]] = task[t]
        BY DEF TfAdd, At, LifeInv, MakingInv, ForksThread
      <3> QED
        BY <1>0, <1>a, <2>1, <3>1, <3>2
    <2> QED
      BY <2>2, <2>3, OthersMove
  <1>b. \A k \in Tasks : FkNew(t, k) =>
          /\ k # task[t] /\ k # t /\ threads'[k] = <<k>> /\ pc[k] = "none" /\ pc'[k] = "none"
    <2> SUFFICES ASSUME NEW k \in Tasks, FkNew(t, k)
                 PROVE  k # task[t] /\ k # t /\ threads'[k] = <<k>> /\ pc[k] = "none" /\ pc'[k] = "none"
      OBVIOUS
    <2>1. life[k] = "none" /\ threads' = [threads EXCEPT ![k] = <<k>>] /\ pc' = [pc EXCEPT ![t] = "fk_map"]
      BY DEF FkNew, Goto
    <2>2. pc[k] = "none"
      BY <1>0, <2>1 DEF LifeInv, UnbornInv
    <2> QED
      BY <1>0, <1>a, <2>1, <2>2
  <1>3. ASSUME NEW k \in Tasks PROVE NoRepeats(threads'[k])
    <2>1. CASE threads'[k] = threads[k]
      BY <2>1 DEF LifeInv, ThreadsInv
    <2>2. CASE threads'[k] # threads[k] /\ k = task[t]
      BY <2>2, ThreadsMove, ThreadsStay
    <2>3. CASE threads'[k] # threads[k] /\ k # task[t]
      <3>1. threads'[k] = <<k>>
        BY <1>b, <2>3, StepFrame
      <3> QED
        BY <3>1 DEF NoRepeats
    <2> QED
      BY <2>1, <2>2, <2>3
  <1>4. ASSUME NEW k \in Tasks, NEW u \in Members(threads'[k]) PROVE pc'[u] \notin Left \ {"tv_again"}
    <2>1. CASE u \in Members(threads[k])
      <3>1. u \in Threads /\ task[u] = k /\ pc[u] \notin Left \ {"tv_again"}
        BY <1>0, <2>1 DEF LifeInv, ThreadsInv
      <3>2. CASE u = t
        <4>1. VnList(t) => u \notin Members(threads'[k])
          <5> SUFFICES ASSUME VnList(t) PROVE u \notin Members(threads'[k])
            OBVIOUS
          <5>1. threads'[k] = Without(threads[k], t)
            BY <1>0, <3>1, <3>2 DEF VnList, VnListWith, Others
          <5>2. threads[k] \in Seq(Threads) /\ NoRepeats(threads[k])
            BY <1>0 DEF LifeInv, ThreadsInv
          <5>3. Members(Without(threads[k], t)) = Members(threads[k]) \ {t}
            BY <5>2, WithoutList
          <5> QED
            BY <3>2, <5>1, <5>3
        <4> QED
          BY <1>4, <3>1, <3>2, <4>1, OwnMove DEF Left, Doomed
      <3>3. CASE u # t
        <4>1. ~ (TvFirst(t) /\ u = Head(threads[task[t]]))
          <5> SUFFICES ASSUME TvFirst(t), u = Head(threads[task[t]]) PROVE FALSE
            OBVIOUS
          <5>1. /\ ThreadsInv /\ threads[task[t]] \in Seq(Threads) /\ t \in Members(threads[task[t]])
                /\ NoRepeats(threads[task[t]])
                /\ Members(threads'[task[t]]) = Members(threads[task[t]]) \ {Head(threads[task[t]])}
            BY ThreadsMove, TvFirstOnly DEF LifeInv
          <5>2. u \in Members(threads[task[t]])
            BY <5>1, TailList, EmptyList
          <5>3. task[u] = task[t]
            BY <1>0, <1>a, <5>2
          <5> QED
            BY <1>4, <3>1, <5>1, <5>3
        <4> QED
          BY <3>1, <3>3, <4>1, OthersMove DEF Left
      <3> QED
        BY <3>1, <3>2, <3>3
    <2>2. CASE u \notin Members(threads[k])
      <3>1. CASE k = task[t]
        <4>1. TfAdd(t) /\ u = arg[t]
          <5>1. u \in Members(threads'[task[t]]) /\ u \notin Members(threads[task[t]])
            BY <1>4, <2>2, <3>1
          <5> QED
            BY <5>1, ThreadsChange
        <4>2. arg[t] \in Threads /\ pc' = [pc EXCEPT ![t] = "user", ![arg[t]] = "user"]
          BY <1>0, <4>1 DEF TfAdd, At, LifeInv, MakingInv, ForksThread
        <4> QED
          BY <1>0, <4>1, <4>2 DEF Left
      <3>2. CASE k # task[t]
        <4>1. FkNew(t, k)
          BY <1>4, <2>2, <3>2, StepFrame
        <4>2. Members(<<k>>) = {k}
          BY DEF Members
        <4> QED
          BY <1>4, <1>b, <4>1, <4>2 DEF Left
      <3> QED
        BY <3>1, <3>2
    <2> QED
      BY <2>1, <2>2
  <1>5. ASSUME NEW u \in Threads, task'[u] # None, life'[task'[u]] # "none"
        PROVE  \/ u \in Members(threads'[task'[u]])
               \/ pc'[u] \in Left
               \/ pc'[u] = "none" /\ \E v \in Threads : pc'[v] \in ForksThread /\ arg'[v] = u
    <2>1. CASE task[u] # task'[u]
      <3>1. CallThreadFork(t, u)
        BY <2>1, StepFrame
      <3>2. pc[u] = "none" /\ task[u] = None /\ u \in Threads
        BY <3>1 DEF CallThreadFork, LifeInv, ThreadsInv
      <3>3. pc' = [pc EXCEPT ![t] = "tf_lock"] /\ arg' = [arg EXCEPT ![t] = u] /\ u # t
        BY <1>a, <3>1, <3>2 DEF CallThreadFork, Goto
      <3> QED
        BY <1>0, <3>2, <3>3 DEF ForksThread
    <2>2. CASE task[u] = task'[u] /\ life[task[u]] = "none"
      <3>1. task[u] \in Tasks /\ u = task[u]
        BY <1>0, <1>5, <2>2 DEF LifeInv, UnbornInv
      <3>2. FkNew(t, u)
        BY <1>5, <1>a, <2>2, <3>1, StepFrame DEF WtReap
      <3>3. threads'[u] = <<u>>
        BY <1>b, <3>1, <3>2
      <3>4. u \in Members(<<u>>)
        BY DEF Members
      <3> QED
        BY <2>2, <3>1, <3>3, <3>4
    <2>3. CASE task[u] = task'[u] /\ life[task[u]] # "none"
      <3>0. task[u] \in Tasks /\ task[u] # None
        BY <1>0, <1>5, <2>3
      <3>1. CASE u \in Members(threads[task[u]])
        <4>1. CASE task[u] # task[t]
          <5>1. FkNew(t, task[u]) => life[task[u]] = "none"
            BY DEF FkNew
          <5>2. threads'[task[u]] = threads[task[u]]
            BY <2>3, <3>0, <4>1, <5>1, StepFrame
          <5> QED
            BY <2>3, <3>1, <5>2
        <4>2. CASE task[u] = task[t]
          <5>1. CASE u \in Members(threads'[task[u]])
            BY <2>3, <5>1
          <5>2. CASE u \notin Members(threads'[task[u]])
            <6>1. \/ VnList(t) /\ u = t
                  \/ TvFirst(t) /\ (u = t \/ pc'[u] = "gone")
              BY <3>1, <4>2, <5>2, ThreadsChange
            <6> QED
              BY <6>1, ThreadsChange DEF Left
          <5> QED
            BY <5>1, <5>2
        <4> QED
          BY <4>1, <4>2
      <3>2. CASE pc[u] \in Left
        <4>1. CASE u # t
          BY <3>2, <4>1, OthersMove DEF Left
        <4>2. CASE u = t
          BY <3>2, <4>2, OwnMove, AfterSignalLeft DEF Left, Doomed
        <4> QED
          BY <4>1, <4>2
      <3>3. CASE pc[u] = "none" /\ \E v \in Threads : pc[v] \in ForksThread /\ arg[v] = u
        <4>1. PICK v \in Threads : pc[v] \in ForksThread /\ arg[v] = u
          BY <3>3
        <4>2. u # t
          BY <1>a, <3>3
        <4>3. CASE v # t
          <5>1. pc'[v] = pc[v] /\ arg'[v] = arg[v]
            BY <4>1, <4>3, OthersMove, StepFrame DEF ForksThread
          <5>2. ~ (u = arg[t] /\ (FkDone(t) \/ TfAdd(t)))
            <6>1. FkDone(t) \/ TfAdd(t) => pc[t] \in ForksThread \cup {"fk_map"}
              BY DEF FkDone, TfAdd, At, ForksThread
            <6> QED
              BY <4>1, <4>3, <6>1 DEF LifeInv, MakingInv
          <5>3. pc'[u] = "none"
            BY <3>3, <4>2, <5>2, OthersMove
          <5> QED
            BY <4>1, <5>1, <5>3
        <4>4. CASE v = t
          <5>1. TfLock(t) \/ TfAdd(t)
            BY <4>1, <4>4, OwnMove DEF ForksThread, Doomed
          <5>2. CASE TfLock(t)
            <6>1. arg' = arg /\ pc' = [pc EXCEPT ![t] = "tf_add"]
              BY <5>2 DEF TfLock, Goto
            <6> QED
              BY <1>0, <3>3, <4>1, <4>2, <4>4, <6>1 DEF ForksThread
          <5>3. CASE TfAdd(t)
            <6>1. task[u] = task[t]
              BY <4>1, <4>4, <5>3 DEF LifeInv, MakingInv
            <6>2. ~ VnList(t) /\ ~ TvFirst(t)
              BY <5>3 DEF TfAdd, VnList, VnListWith, TvFirst, At
            <6>3. Members(threads'[task[t]]) = Members(threads[task[t]]) \cup {arg[t]}
              BY <5>3, <6>2, ThreadsMove
            <6>4. u \in Members(threads'[task[t]])
              BY <4>1, <4>4, <6>3
            <6> QED
              BY <2>3, <6>1, <6>4
          <5> QED
            BY <5>1, <5>2, <5>3
        <4> QED
          BY <4>3, <4>4
      <3> QED
        BY <2>3, <3>0, <3>1, <3>2, <3>3 DEF LifeInv, ThreadsInv
    <2> QED
      BY <2>1, <2>2, <2>3
  <1> QED
    BY <1>1, <1>2, <1>3, <1>4, <1>5 DEF ThreadsInv

\* What a fork is making stays so until its maker is done.
LEMMA StepMaking ==
  ASSUME LifeInv, NEW t \in Threads, LifeStep(t)
  PROVE  MakingInv'
  <1> USE TaskLifeAssumption
  <1> DEFINE Makes == ForksThread \cup {"fk_map"}
  <1>0. /\ pc \in [Threads -> PCs] /\ life \in [Tasks -> Lives] /\ threads \in [Tasks -> Seq(Threads)]
        /\ arg \in [Threads -> Threads \cup {None}] /\ task \in [Threads -> Tasks \cup {None}]
        /\ Tasks \subseteq Threads /\ Forked \subseteq Threads
        /\ \A k \in Tasks : \A u \in Members(threads[k]) : u \in Threads /\ task[u] = k
        /\ \A k \in Tasks : task[k] = k
    BY DEF LifeInv, TypesInv, LifeTypeOK, ThreadsInv, Threads
  <1>a. pc[t] # "none" /\ task[t] \in Tasks /\ life[task[t]] # "none"
    BY StepFrame
  <1>b. \A v \in Threads : pc[v] \in Makes => task[v] \in Tasks /\ task[v] # None
    BY AtFacts DEF ForksThread
  \* Nobody else begins or ends to make something.
  <1>1. \A v \in Threads \ {t} : pc'[v] \in Makes \/ pc[v] \in Makes =>
          pc'[v] = pc[v] /\ arg'[v] = arg[v] /\ task'[v] = task[v]
    <2> SUFFICES ASSUME NEW v \in Threads \ {t}, pc'[v] \in Makes \/ pc[v] \in Makes
                 PROVE  pc'[v] = pc[v] /\ arg'[v] = arg[v] /\ task'[v] = task[v]
      OBVIOUS
    <2>1. pc'[v] = pc[v]
      BY OthersMove DEF ForksThread
    <2>2. task'[v] = task[v]
      BY <1>b, <2>1, StepFrame DEF CallThreadFork
    <2> QED
      BY <2>1, <2>2, StepFrame
  \* What is being made by others is left alone.
  <1>2. \A v \in Threads \ {t} : pc[v] \in Makes =>
          arg[v] \in Threads /\ arg[v] # t /\ pc[arg[v]] = "none" /\ pc'[arg[v]] = "none"
    <2> SUFFICES ASSUME NEW v \in Threads \ {t}, pc[v] \in Makes
                 PROVE  arg[v] \in Threads /\ arg[v] # t /\ pc[arg[v]] = "none" /\ pc'[arg[v]] = "none"
      OBVIOUS
    <2>1. arg[v] \in Threads /\ arg[v] # t /\ pc[arg[v]] = "none"
      BY <1>0, <1>a DEF LifeInv, MakingInv
    <2>2. ~ (arg[v] = arg[t] /\ (FkDone(t) \/ TfAdd(t)))
      <3>1. FkDone(t) \/ TfAdd(t) => pc[t] \in Makes
        BY DEF FkDone, TfAdd, At, ForksThread
      <3> QED
        BY <3>1 DEF LifeInv, MakingInv
    <2> QED
      BY <2>1, <2>2, OthersMove
  \* The thread that steps.
  <1>3. ASSUME pc'[t] \in Makes
        PROVE  /\ pc'[t] \in ForksThread =>
                    /\ arg'[t] \in Forked /\ pc'[arg'[t]] = "none" /\ task'[arg'[t]] = task'[t]
                    /\ arg'[t] \notin Members(threads'[task'[t]])
               /\ pc'[t] = "fk_map" => arg'[t] \in Tasks /\ pc'[arg'[t]] = "none" /\ life'[arg'[t]] = "live"
               /\ \A v \in Threads \ {t} : pc[v] \in Makes => arg[v] # arg'[t]
    <2>1. TfLock(t) \/ (\E k \in Tasks : FkNew(t, k)) \/ \E u \in Forked : CallThreadFork(t, u)
      BY <1>3, OwnMove, AfterSignalLeft DEF ForksThread, Doomed
    <2>2. CASE TfLock(t)
      <3>1. /\ pc[t] = "tf_lock" /\ pc' = [pc EXCEPT ![t] = "tf_add"]
            /\ UNCHANGED <<arg, task, threads, life>>
        BY <2>2 DEF TfLock, At, Goto
      <3>2. /\ arg[t] \in Forked /\ pc[arg[t]] = "none" /\ task[arg[t]] = task[t]
            /\ arg[t] \notin Members(threads[task[t]])
            /\ \A v \in Threads : pc[v] \in Makes /\ arg[v] = arg[t] => v = t
        BY <3>1 DEF LifeInv, MakingInv, ForksThread
      <3> QED
        BY <1>0, <1>a, <3>1, <3>2 DEF ForksThread
    <2>3. CASE \E k \in Tasks : FkNew(t, k)
      <3>1. PICK k \in Tasks : FkNew(t, k)
        BY <2>3
      <3>2. /\ life[k] = "none" /\ life' = [life EXCEPT ![k] = "live"]
            /\ arg' = [arg EXCEPT ![t] = k] /\ pc' = [pc EXCEPT ![t] = "fk_map"]
        BY <3>1 DEF FkNew, Goto
      <3>3. pc[k] = "none" /\ k # t
        BY <1>0, <1>a, <3>2 DEF LifeInv, UnbornInv
      <3>4. \A v \in Threads \ {t} : pc[v] \in Makes => arg[v] # k
        <4> SUFFICES ASSUME NEW v \in Threads, pc[v] \in Makes, arg[v] = k PROVE FALSE
          OBVIOUS
        <4>1. pc[v] = "fk_map" => life[k] = "live"
          BY DEF LifeInv, MakingInv
        <4>2. pc[v] \in ForksThread => k \in Forked
          BY DEF LifeInv, MakingInv
        <4> QED
          BY <3>2, <4>1, <4>2
      <3>5. pc'[t] = "fk_map" /\ arg'[t] = k /\ pc'[k] = "none" /\ life'[k] = "live"
        BY <1>0, <3>2, <3>3
      <3> QED
        BY <3>4, <3>5 DEF ForksThread
    <2>4. CASE \E u \in Forked : CallThreadFork(t, u)
      <3>1. PICK u \in Forked : CallThreadFork(t, u)
        BY <2>4
      <3>2. /\ task[u] = None /\ task' = [task EXCEPT ![u] = task[t]] /\ threads' = threads
            /\ arg' = [arg EXCEPT ![t] = u] /\ pc' = [pc EXCEPT ![t] = "tf_lock"]
        BY <3>1 DEF CallThreadFork, Goto
      <3>3. pc[u] = "none" /\ u # t /\ u \in Threads
        BY <1>0, <1>a, <3>2 DEF LifeInv, ThreadsInv
      <3>4. u \notin Members(threads[task[t]])
        BY <1>0, <1>a, <3>2
      <3>5. \A v \in Threads \ {t} : pc[v] \in Makes => arg[v] # u
        <4> SUFFICES ASSUME NEW v \in Threads, pc[v] \in Makes, arg[v] = u PROVE FALSE
          OBVIOUS
        <4>1. pc[v] = "fk_map" => u \in Tasks
          BY DEF LifeInv, MakingInv
        <4>2. pc[v] \in ForksThread => task[v] = None
          BY <3>2 DEF LifeInv, MakingInv
        <4> QED
          BY <1>b, <4>1, <4>2
      <3>6. /\ pc'[t] = "tf_lock" /\ arg'[t] = u /\ pc'[u] = "none" /\ task'[u] = task[t]
            /\ task'[t] = task[t]
        BY <1>0, <3>2, <3>3
      <3> QED
        BY <3>2, <3>4, <3>5, <3>6
    <2> QED
      BY <2>1, <2>2, <2>3, <2>4
  \* The others.
  <1>4. ASSUME NEW v \in Threads \ {t}, pc[v] \in ForksThread
        PROVE  /\ arg[v] \in Forked /\ pc'[arg[v]] = "none" /\ task'[arg[v]] = task'[v]
               /\ arg[v] \notin Members(threads'[task'[v]])
    <2>1. /\ arg[v] \in Forked /\ task[arg[v]] = task[v] /\ arg[v] \notin Members(threads[task[v]])
      BY <1>4 DEF LifeInv, MakingInv
    <2>2. task[v] \in Tasks /\ task[v] # None /\ task'[v] = task[v]
      BY <1>1, <1>4, <1>b
    <2>3. task'[arg[v]] = task[v]
      BY <1>0, <2>1, <2>2, StepFrame DEF CallThreadFork
    <2>4. arg[v] \notin Members(threads'[task[v]])
      <3>1. CASE task[v] = task[t]
        <4>1. TfAdd(t) => arg[t] # arg[v]
          BY <1>4 DEF TfAdd, At, LifeInv, MakingInv, ForksThread
        <4> QED
          BY <2>1, <3>1, <4>1, ThreadsChange
      <3>2. CASE task[v] # task[t]
        <4>1. FkNew(t, task[v]) => life[task[v]] = "none"
          BY DEF FkNew
        <4>2. life[task[v]] # "none"
          BY <1>4, AtFacts DEF ForksThread
        <4> QED
          BY <2>1, <2>2, <3>2, <4>1, <4>2, StepFrame
      <3> QED
        BY <3>1, <3>2
    <2> QED
      BY <1>2, <1>4, <2>1, <2>2, <2>3, <2>4
  <1>5. ASSUME NEW v \in Threads \ {t}, pc[v] = "fk_map"
        PROVE  arg[v] \in Tasks /\ pc'[arg[v]] = "none" /\ life'[arg[v]] = "live"
    <2> DEFINE c == arg[v]
    <2>1. c \in Tasks /\ pc[c] = "none" /\ life[c] = "live" /\ pc'[c] = "none"
      BY <1>2, <1>5 DEF LifeInv, MakingInv
    <2>2. c \in Members(threads[c])
      <3>1. ~ \E w \in Threads : pc[w] \in ForksThread /\ arg[w] = c
        BY <2>1 DEF LifeInv, MakingInv
      <3>2. task[c] = c /\ c \in Threads /\ c # None
        BY <1>0, <2>1
      <3> QED
        BY <2>1, <3>1, <3>2 DEF LifeInv, ThreadsInv, Left
    <2> HIDE DEF c
    <2>3. life'[c] = "live"
      <3>1. CASE c # task[t]
        <4>1. ~ FkNew(t, c) /\ ~ WtReap(t, c)
          BY <2>1 DEF FkNew, WtReap
        <4> QED
          BY <2>1, <3>1, <4>1, StepFrame
      <3>2. CASE c = task[t]
        <4>1. c # t
          BY <1>a, <2>1
        <4>2. CASE VnList(t)
          <5>1. c \in Members(threads'[c])
            <6>1. ~ TvFirst(t)
              BY <4>2, TvFirstOnly
            <6> QED
              BY <2>2, <3>2, <4>1, <6>1, ThreadsChange
          <5>2. threads'[c] # <<>>
            BY <5>1, EmptyList
          <5>3. threads'[c] = Others(t) /\ life'[c] = IF Others(t) = <<>> THEN "zombie" ELSE life[c]
            BY <1>0, <2>1, <3>2, <4>2 DEF VnList, VnListWith
          <5> QED
            BY <2>1, <5>2, <5>3
        <4>3. CASE TvFirst(t)
          <5>1. c \in Members(threads'[c])
            <6>1. pc'[c] # "gone" /\ ~ VnList(t)
              BY <2>1, <4>3, TvFirstOnly
            <6> QED
              BY <2>2, <3>2, <4>1, <6>1, ThreadsChange
          <5>2. threads'[c] # <<>>
            BY <5>1, EmptyList
          <5>3. threads'[c] = Tail(threads[c]) /\ (Tail(threads[c]) # <<>> => life' = life)
            BY <1>0, <2>1, <3>2, <4>3 DEF TvFirst
          <5> QED
            BY <2>1, <5>2, <5>3
        <4>4. CASE ~ VnList(t) /\ ~ TvFirst(t)
          <5>1. ~ TvAgain(t)
            BY <2>2, <3>2, EmptyList DEF TvAgain
          <5>2. ASSUME NEW k \in Tasks, FkNew(t, k) \/ WtReap(t, k) PROVE life'[c] = life[c]
            <6>1. k # c
              BY <2>1, <5>2 DEF FkNew, WtReap
            <6> QED
              BY <1>0, <2>1, <5>2, <6>1 DEF FkNew, WtReap, ReapChild
          <5> QED
            BY <2>1, <4>4, <5>1, <5>2 DEF LifeStep, Kernel, TakesLock, GoesOn, FkLock, FkNoMemory,
               FkDone, FkFails, TfLock, TfAdd, VnLock, VnStop, VnSignal, VnUnlock, VnSched, Preempt,
               TvLock, WtLook, WtSem, WtLock, WtAssert, Call, Fatal, CallThreadFork
        <4> QED
          BY <4>2, <4>3, <4>4
      <3> QED
        BY <3>1, <3>2
    <2> QED
      BY <2>1, <2>3 DEF c
  <1> HIDE DEF Makes
  <1>6. ASSUME NEW v \in Threads
        PROVE  /\ pc'[v] \in ForksThread =>
                    /\ arg'[v] \in Forked /\ pc'[arg'[v]] = "none" /\ task'[arg'[v]] = task'[v]
                    /\ arg'[v] \notin Members(threads'[task'[v]])
               /\ pc'[v] = "fk_map" => arg'[v] \in Tasks /\ pc'[arg'[v]] = "none" /\ life'[arg'[v]] = "live"
    BY <1>1, <1>3, <1>4, <1>5 DEF Makes
  <1>7. ASSUME NEW v \in Threads, pc'[v] \in Makes, NEW w \in Threads, pc'[w] \in Makes, arg'[w] = arg'[v]
        PROVE  w = v
    <2> QED
      BY <1>1, <1>3, <1>7 DEF LifeInv, MakingInv, Makes
  <1> QED
    BY <1>6, <1>7 DEF MakingInv, Makes

\* The life of the task of the thread that steps.
LEMMA OwnLife ==
  ASSUME LifeInv, NEW t \in Threads, LifeStep(t), ~ VnList(t), ~ TvFirst(t)
  PROVE  \/ life'[task[t]] = life[task[t]]
         \/ TvAgain(t) /\ life[task[t]] # "freed" /\ life'[task[t]] = "zombie"
  <1> DEFINE k == task[t]
  <1>0. life \in [Tasks -> Lives] /\ k \in Tasks /\ life[k] # "none"
    BY StepFrame DEF LifeInv, TypesInv, LifeTypeOK
  <1>1. CASE TvAgain(t)
    BY <1>0, <1>1 DEF TvAgain
  <1>2. CASE \E j \in Tasks : FkNew(t, j) \/ WtReap(t, j)
    <2>1. PICK j \in Tasks : FkNew(t, j) \/ WtReap(t, j)
      BY <1>2
    <2>2. life[j] = "none" \/ life[j] = "zombie"
      BY <2>1 DEF FkNew, WtReap
    <2>3. life[k] = "live"
      <3>1. pc[t] \in {"fk_new", "wt_find"} /\ t \notin parked
        BY <2>1 DEF FkNew, WtReap, ReapChild, At
      <3> QED
        BY <3>1, AtFacts DEF Left
    <2>4. \E l \in Lives : life' = [life EXCEPT ![j] = l]
      BY <2>1 DEF FkNew, WtReap, ReapChild, Lives
    <2> QED
      BY <1>0, <2>2, <2>3, <2>4
  <1>3. CASE ~ TvAgain(t) /\ ~ \E j \in Tasks : FkNew(t, j) \/ WtReap(t, j)
    BY <1>3 DEF LifeStep, Kernel, TakesLock, GoesOn, FkLock, FkNoMemory,
       FkDone, FkFails, TfLock, TfAdd, VnLock, VnStop, VnSignal, VnUnlock, VnSched, Preempt,
       TvLock, WtLook, WtSem, WtLock, WtAssert, Call, Fatal, CallThreadFork
  <1> QED
    BY <1>1, <1>2, <1>3

\* A task lives as long as it has a thread.
LEMMA StepLives ==
  ASSUME LifeInv, NEW t \in Threads, LifeStep(t)
  PROVE  LivesInv'
  <1> USE TaskLifeAssumption
  <1>0. /\ pc \in [Threads -> PCs] /\ life \in [Tasks -> Lives] /\ threads \in [Tasks -> Seq(Threads)]
        /\ task \in [Threads -> Tasks \cup {None}] /\ Tasks \subseteq Threads /\ parked \subseteq Threads
        /\ \A k \in Tasks : \A u \in Members(threads[k]) : u \in Threads /\ task[u] = k
        /\ \A k \in Tasks : task[k] = k
    BY DEF LifeInv, TypesInv, LifeTypeOK, ThreadsInv, Threads
  <1>a. pc[t] # "none" /\ task[t] \in Tasks /\ life[task[t]] # "none" /\ t \notin parked
    BY StepFrame
  <1>b. \A k \in Tasks : life[k] = "live" <=> threads[k] # <<>>
    BY DEF LifeInv, LivesInv
  <1>1. ASSUME NEW k \in Tasks PROVE life'[k] = "live" <=> threads'[k] # <<>>
    <2>1. CASE k # task[t]
      <3>1. CASE FkNew(t, k)
        <4>1. life'[k] = "live" /\ threads'[k] = <<k>>
          BY <1>0, <3>1 DEF FkNew
        <4> QED
          BY <4>1
      <3>2. CASE WtReap(t, k) /\ threads'[k] = threads[k]
        <4>1. life'[k] = "freed" /\ life[k] = "zombie"
          BY <1>0, <3>2 DEF WtReap, ReapChild
        <4> QED
          BY <1>b, <3>2, <4>1
      <3> QED
        BY <1>b, <2>1, <3>1, <3>2, StepFrame
    <2>2. CASE k = task[t]
      <3>1. CASE VnList(t) \/ TvFirst(t)
        <4>1. /\ life[k] = "live"
              /\ life'[k] = IF threads'[k] = <<>> THEN "zombie" ELSE life[k]
          <5>1. ~ TfAdd(t) /\ ~ (VnList(t) /\ TvFirst(t))
            BY <3>1 DEF TfAdd, VnList, VnListWith, TvFirst, At
          <5> QED
            BY <2>2, <3>1, <5>1, ThreadsMove
        <4> QED
          BY <4>1
      <3>2. CASE TfAdd(t)
        <4>1. ~ VnList(t) /\ ~ TvFirst(t)
          BY <3>2 DEF TfAdd, VnList, VnListWith, TvFirst, At
        <4> QED
          BY <2>2, <3>2, <4>1, ThreadsMove
      <3>3. CASE ~ TfAdd(t) /\ ~ VnList(t) /\ ~ TvFirst(t)
        <4>1. threads'[k] = threads[k]
          BY <2>2, <3>3, ThreadsStay
        <4>2. life'[k] = life[k] \/ (TvAgain(t) /\ life'[k] = "zombie")
          BY <2>2, <3>3, OwnLife
        <4>3. TvAgain(t) => threads[k] = <<>>
          BY <2>2 DEF TvAgain
        <4> QED
          BY <1>b, <4>1, <4>2, <4>3
      <3> QED
        BY <3>1, <3>2, <3>3
    <2> QED
      BY <2>1, <2>2
  <1>2. \A u \in Threads : pc'[u] = "vn_signal" =>
          \/ pc[u] = "vn_signal"
          \/ u = t /\ VnList(t) /\ threads'[task[t]] = <<>>
    <2> SUFFICES ASSUME NEW u \in Threads, pc'[u] = "vn_signal"
                 PROVE  pc[u] = "vn_signal" \/ (u = t /\ VnList(t) /\ threads'[task[t]] = <<>>)
      OBVIOUS
    <2>1. CASE u # t
      BY <2>1, OthersMove
    <2>2. CASE u = t
      <3>1. pc[t] = "vn_signal" \/ VnList(t)
        BY <2>2, OwnMove, AfterSignalLeft
      <3>2. VnList(t) => threads'[task[t]] = <<>>
        <4> SUFFICES ASSUME VnList(t) PROVE threads'[task[t]] = <<>>
          OBVIOUS
        <4>1. ~ TfAdd(t) /\ ~ TvFirst(t)
          BY DEF TfAdd, VnList, VnListWith, TvFirst, At
        <4>2. pc'[t] = IF threads'[task[t]] = <<>> THEN "vn_signal" ELSE AfterSignal(t)
          BY <4>1, ThreadsMove
        <4> QED
          BY <2>2, <4>2, AfterSignalLeft
      <3> QED
        BY <2>2, <3>1, <3>2
    <2> QED
      BY <2>1, <2>2
  <1>c. \A u \in Threads : pc[u] = "vn_signal" =>
          task[u] \in Tasks /\ task'[u] = task[u] /\ threads[task[u]] = <<>> /\ life[task[u]] # "none"
    <2> SUFFICES ASSUME NEW u \in Threads, pc[u] = "vn_signal"
                 PROVE  task[u] \in Tasks /\ task'[u] = task[u] /\ threads[task[u]] = <<>> /\ life[task[u]] # "none"
      OBVIOUS
    <2>1. task[u] \in Tasks /\ threads[task[u]] = <<>> /\ life[task[u]] # "none"
      BY AtFacts DEF LifeInv, LivesInv
    <2> QED
      BY <1>0, <2>1, StepFrame DEF CallThreadFork
  <1>d. VnList(t) => t \in Members(threads[task[t]]) /\ threads[task[t]] # <<>> /\ task'[t] = task[t]
    <2> SUFFICES ASSUME VnList(t)
                 PROVE  t \in Members(threads[task[t]]) /\ threads[task[t]] # <<>> /\ task'[t] = task[t]
      OBVIOUS
    <2>1. t \in Members(threads[task[t]])
      BY ThreadsMove
    <2> QED
      BY <2>1, EmptyList DEF VnList, VnListWith
  <1>3. ASSUME NEW u \in Threads, pc'[u] = "vn_signal" PROVE threads'[task'[u]] = <<>>
    <2>1. CASE pc[u] = "vn_signal"
      <3>1. CASE task[u] = task[t]
        <4>1. ~ TfAdd(t) /\ ~ VnList(t) /\ ~ TvFirst(t)
          BY <1>c, <2>1, <3>1, ThreadsMove, EmptyList
        <4> QED
          BY <1>c, <2>1, <3>1, <4>1, ThreadsStay
      <3>2. CASE task[u] # task[t]
        <4>1. ~ FkNew(t, task[u])
          BY <1>c, <2>1 DEF FkNew
        <4> QED
          BY <1>c, <2>1, <3>2, <4>1, StepFrame
      <3> QED
        BY <3>1, <3>2
    <2>2. CASE u = t /\ VnList(t) /\ threads'[task[t]] = <<>>
      BY <1>d, <2>2
    <2> QED
      BY <1>2, <1>3, <2>1, <2>2
  <1>4. ASSUME NEW u \in Threads, NEW v \in Threads,
               pc'[u] = "vn_signal", pc'[v] = "vn_signal", task'[u] = task'[v]
        PROVE  u = v
    BY <1>2, <1>4, <1>c, <1>d DEF LifeInv, LivesInv
  <1>5. ASSUME NEW u \in parked' PROVE pc'[u] \in Doomed
    <2>1. CASE u = t
      BY <1>5, <1>a, <2>1, StepFrame
    <2>2. CASE u # t
      <3>1. u \in parked /\ u \in Threads /\ pc[u] \in Doomed
        BY <1>0, <1>5, <2>2, StepFrame DEF LifeInv, LivesInv
      <3> QED
        BY <2>2, <3>1, OthersMove DEF Doomed
    <2> QED
      BY <2>1, <2>2
  <1>6. ASSUME NEW u \in Threads, task'[u] # None, life'[task'[u]] = "freed"
        PROVE  pc'[u] \in {"gone", "tv_again"} \/ u \in parked'
    <2>0. parked \subseteq parked'
      BY StepFrame
    <2>1. CASE CallThreadFork(t, u)
      <3>1. task'[u] = task[t] /\ life' = life /\ pc[t] = "user"
        BY <1>0, <2>1 DEF CallThreadFork, At
      <3>2. life[task[t]] = "live"
        BY <1>a, <3>1, AtFacts DEF Left
      <3> QED
        BY <1>6, <3>1, <3>2
    <2>2. CASE ~ CallThreadFork(t, u)
      <3> DEFINE k == task[u]
      <3>1. task'[u] = k /\ k \in Tasks
        BY <1>0, <1>6, <2>2, StepFrame
      <3>2. CASE life[k] = "freed"
        <4>1. pc[u] \in {"gone", "tv_again"} \/ u \in parked
          BY <1>0, <3>1, <3>2 DEF LifeInv, LivesInv, FreedIsLeft
        <4>2. CASE u = t
          <5>1. pc[t] \in {"gone", "tv_again"}
            BY <1>a, <4>1, <4>2
          <5> QED
            BY <4>2, <5>1, OwnMove DEF Doomed
        <4>3. CASE u # t
          BY <2>0, <4>1, <4>3, OthersMove
        <4> QED
          BY <4>2, <4>3
      <3>3. CASE life[k] # "freed"
        <4>1. WtReap(t, k)
          <5>1. CASE k # task[t]
            <6>1. FkNew(t, k) => life'[k] = "live"
              BY <1>0, <3>1 DEF FkNew
            <6> QED
              BY <1>6, <3>1, <3>3, <5>1, <6>1, StepFrame
          <5>2. CASE k = task[t]
            <6>1. VnList(t) \/ TvFirst(t) => life'[k] # "freed"
              <7>1. ~ TfAdd(t) \/ ~ (VnList(t) \/ TvFirst(t))
                BY DEF TfAdd, VnList, VnListWith, TvFirst, At
              <7> QED
                BY <3>3, <5>2, <7>1, ThreadsMove
            <6> QED
              BY <1>6, <3>1, <3>3, <5>2, <6>1, OwnLife
          <5> QED
            BY <5>1, <5>2
        <4>2. life[k] = "zombie" /\ At(t, "wt_find") /\ pc' = [pc EXCEPT ![t] = "user"]
          BY <4>1 DEF WtReap, ReapChild, Goto
        <4>3. threads[k] = <<>>
          BY <1>b, <3>1, <4>2
        <4>4. ~ \E v \in Threads : pc[v] \in ForksThread /\ arg[v] = u
          <5> SUFFICES ASSUME NEW v \in Threads, pc[v] \in ForksThread, arg[v] = u PROVE FALSE
            OBVIOUS
          <5>1. task[v] = k
            BY DEF LifeInv, MakingInv
          <5>2. v \in Members(threads[k])
            BY <5>1, AtFacts DEF ForksThread, Left
          <5> QED
            BY <4>3, <5>2, EmptyList
        <4>5. pc[u] \in Left
          <5>1. u \notin Members(threads[k])
            BY <4>3, EmptyList
          <5>2. k # None /\ life[k] # "none"
            BY <1>0, <3>1, <4>2
          <5> QED
            BY <4>4, <5>1, <5>2 DEF LifeInv, ThreadsInv
        <4>6. u # t
          BY <4>2, <4>5 DEF At, Left
        <4>7. pc[u] \in {"gone", "tv_again"} \/ u \in parked
          BY <4>2, <4>5, <4>6 DEF At, Left, Doomed
        <4> QED
          BY <1>0, <2>0, <4>2, <4>6, <4>7
      <3> QED
        BY <3>2, <3>3
    <2> QED
      BY <2>1, <2>2
  <1> QED
    BY <1>1, <1>3, <1>4, <1>5, <1>6 DEF LivesInv, FreedIsLeft

\* What sem_signal does, when a step does it.
LEMMA SignalSteps ==
  ASSUME LifeInv, NEW t \in Threads, LifeStep(t),
         VnSignal(t) \/ TvAgain(t) \/ (TvFirst(t) /\ threads'[task[t]] = <<>>),
         NEW p, p = parent[task[t]]
  PROVE  /\ p \in Tasks \cup {None}
         /\ Signals(t, p)
  <1>1. task[t] \in Tasks /\ pc[t] # "wt_blocked" /\ p \in Tasks \cup {None}
    BY StepFrame DEF LifeInv, TypesInv, LifeTypeOK
  <1>2. PICK l \in PCs : Signal(t, p, l)
    <2>1. CASE VnSignal(t)
      BY <2>1 DEF VnSignal, AfterSignal, PCs, Ending, Doomed
    <2>2. CASE TvAgain(t)
      BY <2>2 DEF TvAgain, PCs, Ending
    <2>3. CASE TvFirst(t) /\ threads'[task[t]] = <<>>
      <3>1. threads'[task[t]] = Tail(threads[task[t]])
        BY <1>1, <2>3 DEF TvFirst, LifeInv, TypesInv, LifeTypeOK
      <3>2. Signal(t, p, "tv_again")
        BY <2>3, <3>1 DEF TvFirst
      <3> QED
        BY <3>2 DEF PCs, Ending
    <2> QED
      BY <2>1, <2>2, <2>3
  <1> QED
    BY <1>1, <1>2, SignalMoves

\* Where no signal is sent the semaphores are left alone, but for a wait.
LEMMA NoSignal ==
  ASSUME LifeInv, NEW t \in Threads, LifeStep(t), ~ VnSignal(t), ~ TvAgain(t),
         TvFirst(t) => threads'[task[t]] # <<>>
  PROVE  /\ ~ WtSem(t) => UNCHANGED <<count, waiters>>
         /\ \A u \in Threads \ {t} :
              \/ pc'[u] = pc[u]
              \/ pc[u] = "user" /\ pc'[u] = "gone" /\ TvFirst(t)
              \/ pc[u] = "none" /\ pc'[u] = "user" /\ u = arg[t]
  <1>1. task[t] \in Tasks
    BY StepFrame
  <1>2. CASE TvFirst(t)
    <2>1. threads'[task[t]] = Tail(threads[task[t]])
      BY <1>1, <1>2 DEF TvFirst, LifeInv, TypesInv, LifeTypeOK
    <2>2. /\ pc' = [[pc EXCEPT ![Head(threads[task[t]])] = "gone"] EXCEPT ![t] = "tv_again"]
          /\ UNCHANGED <<count, waiters>>
          /\ Head(threads[task[t]]) = t \/ pc[Head(threads[task[t]])] = "user"
      BY <1>2, <2>1 DEF TvFirst
    <2> QED
      BY <1>2, <2>2 DEF LifeInv, TypesInv, LifeTypeOK
  <1>3. CASE ~ TvFirst(t)
    <2>1. ~ WtSem(t) => UNCHANGED <<count, waiters>>
      BY <1>3 DEF LifeStep, Kernel, TakesLock, GoesOn, FkLock, FkNew, FkNoMemory, FkDone, FkFails,
         TfLock, TfAdd, VnLock, VnStop, VnList, VnListWith, VnUnlock, VnSched, Preempt, TvLock,
         WtLook, WtLock, WtReap, ReapChild, WtAssert, Call, Fatal, CallThreadFork
    <2> QED
      BY <1>3, <2>1, OthersMove
  <1> QED
    BY <1>2, <1>3

\* The queues of the semaphores hold those that wait there.
LEMMA StepQueues ==
  ASSUME LifeInv, NEW t \in Threads, LifeStep(t)
  PROVE  QueuesInv'
  <1> USE TaskLifeAssumption
  <1>0. /\ pc \in [Threads -> PCs] /\ waiters \in [Tasks -> Seq(Threads)]
        /\ task \in [Threads -> Tasks \cup {None}]
        /\ \A p \in Tasks : \A u \in Members(waiters[p]) : u \in Threads
    BY DEF LifeInv, TypesInv, LifeTypeOK, Members
  <1>1. \A p \in Tasks : \A u \in Members(waiters[p]) : task'[u] = p
    BY <1>0, StepFrame DEF LifeInv, QueuesInv, CallThreadFork
  <1>2. CASE VnSignal(t) \/ TvAgain(t) \/ (TvFirst(t) /\ threads'[task[t]] = <<>>)
    <2> DEFINE q == parent[task[t]]
    <2>0. pc[t] # "wt_blocked"
      BY StepFrame
    <2>1. CASE Unheard(t, q) \/ Kept(t, q)
      BY <1>0, <1>1, <2>0, <2>1 DEF LifeInv, QueuesInv, Unheard, Kept
    <2>2. ASSUME NEW h, Wakes(t, q, h) PROVE QueuesInv'
      <3>0. /\ q \in Tasks /\ waiters[q] # <<>> /\ waiters' = [waiters EXCEPT ![q] = Tail(@)]
            /\ \A u \in Threads \ {t, h} : pc'[u] = pc[u]
            /\ h \in Members(waiters[q]) /\ h = Head(waiters[q])
        BY <2>2 DEF Wakes
      <3>1. waiters[q] \in Seq(Threads) /\ NoRepeats(waiters[q])
        BY <1>0, <3>0 DEF LifeInv, QueuesInv
      <3>2. Members(Tail(waiters[q])) = Members(waiters[q]) \ {h} /\ NoRepeats(Tail(waiters[q]))
        BY <3>0, <3>1, TailList
      <3>3. \A p \in Tasks : waiters'[p] = IF p = q THEN Tail(waiters[q]) ELSE waiters[p]
        BY <1>0, <3>0
      <3>4. task[h] = q
        BY <3>0 DEF LifeInv, QueuesInv
      <3> SUFFICES ASSUME NEW p \in Tasks
                   PROVE  /\ NoRepeats(waiters'[p])
                          /\ \A u \in Members(waiters'[p]) : task'[u] = p /\ pc'[u] = "wt_blocked"
        BY DEF QueuesInv
      <3>5. NoRepeats(waiters'[p])
        BY <3>2, <3>3 DEF LifeInv, QueuesInv
      <3>6. \A u \in Members(waiters'[p]) : u \in Members(waiters[p]) /\ u # h
        <4>1. CASE p = q
          BY <3>2, <3>3, <4>1
        <4>2. CASE p # q
          BY <3>3, <3>4, <4>2 DEF LifeInv, QueuesInv
        <4> QED
          BY <4>1, <4>2
      <3> QED
        BY <1>0, <1>1, <2>0, <3>0, <3>5, <3>6 DEF LifeInv, QueuesInv
    <2> QED
      BY <1>2, <2>1, <2>2, SignalSteps DEF Signals
  <1>3. CASE ~ (VnSignal(t) \/ TvAgain(t) \/ (TvFirst(t) /\ threads'[task[t]] = <<>>))
    <2>0. pc[t] # "wt_blocked" /\ task[t] \in Tasks
      BY StepFrame
    <2>1. \A u \in Threads \ {t} : pc[u] = "wt_blocked" => pc'[u] = "wt_blocked"
      BY <1>3, NoSignal
    <2>2. CASE waiters' = waiters
      BY <1>0, <1>1, <2>0, <2>1, <2>2 DEF LifeInv, QueuesInv
    <2>3. CASE waiters' # waiters
      <3> DEFINE q == task[t]
      <3>1. WtSem(t)
        BY <1>3, <2>3, NoSignal
      <3>2. waiters' = [waiters EXCEPT ![q] = Append(@, t)] /\ pc'[t] = "wt_blocked" /\ task' = task
        BY <1>0, <2>3, <3>1 DEF WtSem, Goto
      <3>3. waiters[q] \in Seq(Threads) /\ NoRepeats(waiters[q]) /\ t \notin Members(waiters[q])
        BY <1>0, <2>0 DEF LifeInv, QueuesInv
      <3>4. Members(Append(waiters[q], t)) = Members(waiters[q]) \cup {t} /\ NoRepeats(Append(waiters[q], t))
        BY <3>3, AppendList
      <3>5. \A p \in Tasks : waiters'[p] = IF p = q THEN Append(waiters[q], t) ELSE waiters[p]
        BY <1>0, <3>2
      <3> SUFFICES ASSUME NEW p \in Tasks
                   PROVE  /\ NoRepeats(waiters'[p])
                          /\ \A u \in Members(waiters'[p]) : task'[u] = p /\ pc'[u] = "wt_blocked"
        BY DEF QueuesInv
      <3>6. NoRepeats(waiters'[p])
        BY <3>4, <3>5 DEF LifeInv, QueuesInv
      <3>7. \A u \in Members(waiters'[p]) : u \in Members(waiters[p]) \/ (u = t /\ p = q)
        BY <3>4, <3>5
      <3> QED
        BY <1>0, <1>1, <2>0, <2>1, <3>2, <3>6, <3>7 DEF LifeInv, QueuesInv
    <2> QED
      BY <2>2, <2>3
  <1> QED
    BY <1>2, <1>3

\* fork_lock is held inside.
LEMMA StepLock ==
  ASSUME LifeInv, NEW t \in Threads, LifeStep(t)
  PROVE  LockInv'
  <1> USE TaskLifeAssumption
  <1>0. /\ pc \in [Threads -> PCs] /\ forkLock \in [Tasks -> Threads \cup {None}]
        /\ task \in [Threads -> Tasks \cup {None}] /\ None \notin Threads
    BY DEF LifeInv, TypesInv, LifeTypeOK, Threads
  <1>a. pc[t] # "none" /\ task[t] \in Tasks /\ task'[t] = task[t]
    BY <1>0, StepFrame DEF CallThreadFork
  <1>b. \A u \in Threads : task[u] \in Tasks => task'[u] = task[u]
    BY <1>0, StepFrame DEF CallThreadFork
  <1>c. \A u \in Threads \ {t} :
          /\ pc'[u] = pc[u] \/ pc'[u] \in {"wt_lock", "gone", "user"}
          /\ pc'[u] # pc[u] => pc[u] \in {"wt_blocked", "user", "none"}
    BY OthersMove
  <1>d. \A u \in Threads :
          /\ pc[u] \in Inside => task[u] \in Tasks /\ forkLock[task[u]] = u
          /\ \A k \in Tasks : forkLock[k] = u =>
               task[u] = k /\ pc[u] \in Doomed \cup Inside
          /\ pc[u] = "vn_sched" => forkLock[task[u]] # u
    <2> SUFFICES ASSUME NEW u \in Threads
                 PROVE  /\ pc[u] \in Inside => task[u] \in Tasks /\ forkLock[task[u]] = u
                        /\ \A k \in Tasks : forkLock[k] = u =>
                             task[u] = k /\ pc[u] \in Doomed \cup Inside
                        /\ pc[u] = "vn_sched" => forkLock[task[u]] # u
      OBVIOUS
    <2>1. pc[u] \in Inside => task[u] \in Tasks
      BY AtFacts DEF Inside
    <2>2. pc[u] \in Inside => forkLock[task[u]] = u
      BY <2>1 DEF LifeInv, LockInv, LockHeldInside, Inside
    <2>3. \A k \in Tasks : forkLock[k] = u => task[u] = k /\ pc[u] \in Doomed \cup Inside
      BY DEF LifeInv, LockInv, LockHeldInside, Inside
    <2> QED
      BY <2>1, <2>2, <2>3 DEF LifeInv, LockInv
  \* How the lock of its task changes with the label of the thread.
  <1>1. /\ \A k \in Tasks \ {task[t]} : forkLock'[k] = forkLock[k]
        /\ \/ /\ forkLock[task[t]] = None /\ forkLock'[task[t]] = t
              /\ pc'[t] \in Inside
           \/ /\ forkLock[task[t]] = t /\ forkLock'[task[t]] = None
              /\ pc'[t] \notin Inside
           \/ /\ forkLock'[task[t]] = forkLock[task[t]]
              /\ forkLock[task[t]] = t => pc'[t] \in (Doomed \cup Inside) \ {"vn_sched"}
              /\ forkLock[task[t]] # t => pc'[t] \notin Inside
    <2>1. \A k \in Tasks \ {task[t]} : forkLock'[k] = forkLock[k]
      BY StepFrame
    <2>2. CASE FkLock(t) \/ TfLock(t) \/ VnLock(t) \/ TvLock(t) \/ WtLock(t)
      <3>1. forkLock[task[t]] = None /\ forkLock'[task[t]] = t
        BY <1>0, <1>a, <2>2 DEF FkLock, TfLock, VnLock, TvLock, WtLock, Lock
      <3>2. pc'[t] \in Inside
        BY <1>0, <2>2 DEF FkLock, TfLock, VnLock, TvLock, WtLock, Goto, Inside
      <3> QED
        BY <2>1, <3>1, <3>2
    <2>3. CASE FkNoMemory(t) \/ FkDone(t) \/ FkFails(t) \/ TfAdd(t) \/ VnUnlock(t) \/ \E k \in Tasks : WtReap(t, k)
      <3>1. forkLock'[task[t]] = None
        BY <1>0, <1>a, <2>3 DEF FkNoMemory, FkDone, FkFails, TfAdd, VnUnlock, WtReap, ReapChild, Unlock
      <3>2. pc[t] \in Inside
        BY <2>3 DEF FkNoMemory, FkDone, FkFails, TfAdd, VnUnlock, WtReap, ReapChild, At, Inside
      <3>3. pc'[t] \in {"user", "vn_sched"}
        <4>1. CASE FkNoMemory(t) \/ FkFails(t) \/ VnUnlock(t) \/ \E k \in Tasks : WtReap(t, k)
          BY <1>0, <4>1 DEF FkNoMemory, FkFails, VnUnlock, WtReap, ReapChild, Goto
        <4>2. CASE FkDone(t) \/ TfAdd(t)
          <5>1. pc' = [pc EXCEPT ![t] = "user", ![arg[t]] = "user"]
            BY <4>2 DEF FkDone, TfAdd
          <5> QED
            BY <1>0, <5>1
        <4> QED
          BY <2>3, <4>1, <4>2
      <3> QED
        BY <1>d, <2>1, <3>1, <3>2, <3>3 DEF Inside
    <2>4. CASE ~ (FkLock(t) \/ TfLock(t) \/ VnLock(t) \/ TvLock(t) \/ WtLock(t))
               /\ ~ (FkNoMemory(t) \/ FkDone(t) \/ FkFails(t) \/ TfAdd(t) \/ VnUnlock(t) \/ \E k \in Tasks : WtReap(t, k))
      <3>1. forkLock' = forkLock
        BY <2>4 DEF LifeStep, Kernel, TakesLock, GoesOn, FkNew,
         VnStop, VnList, VnListWith, VnSignal, VnSched, Preempt, TvFirst, TvAgain, WtSem,
         WtLook, WtAssert, Call, Fatal, CallThreadFork
      <3>2. forkLock[task[t]] = t => pc[t] \in (Doomed \cup Inside) \ {"vn_sched"}
        BY <1>a, <1>d
      <3>3. forkLock[task[t]] # t => pc[t] \notin Inside
        BY <1>a, <1>d
      <3>4. forkLock[task[t]] = t => pc'[t] \in (Doomed \cup Inside) \ {"vn_sched"}
        BY <2>4, <3>2, OwnMove, AfterSignalLeft DEF Doomed, Inside
      <3>5. forkLock[task[t]] # t => pc'[t] \notin Inside
        BY <2>4, <3>3, OwnMove, AfterSignalLeft DEF Doomed, Inside
      <3> QED
        BY <2>1, <3>1, <3>4, <3>5
    <2> QED
      BY <2>2, <2>3, <2>4
  <1> SUFFICES ASSUME NEW u \in Threads
               PROVE  /\ \A k \in Tasks : task'[u] = k /\ pc'[u] \in Inside => forkLock'[k] = u
                      /\ \A k \in Tasks : forkLock'[k] = u => task'[u] = k /\ pc'[u] \in Doomed \cup Inside
                      /\ pc'[u] = "vn_sched" => forkLock'[task'[u]] # u
    BY DEF LockInv, LockHeldInside, Inside, Doomed
  <1>2. CASE u = t
    <2>1. \A k \in Tasks : forkLock'[k] = t => k = task[t]
      BY <1>1, <1>d
    <2> QED
      BY <1>0, <1>1, <1>2, <1>a, <2>1 DEF Inside
  <1>3. CASE u # t
    <2>1. pc'[u] \in Inside => pc[u] \in Inside /\ pc'[u] = pc[u]
      BY <1>3, <1>c DEF Inside
    <2>2. \A k \in Tasks : forkLock'[k] = u => forkLock[k] = u
      BY <1>0, <1>1, <1>3
    <2>3. ASSUME NEW k \in Tasks, task'[u] = k, pc'[u] \in Inside PROVE forkLock'[k] = u
      <3>1. task[u] = k /\ forkLock[k] = u
        BY <1>b, <1>d, <2>1, <2>3
      <3> QED
        BY <1>0, <1>1, <1>3, <3>1
    <2>4. ASSUME NEW k \in Tasks, forkLock'[k] = u PROVE task'[u] = k /\ pc'[u] \in Doomed \cup Inside
      <3>1. task[u] = k /\ pc[u] \in Doomed \cup Inside
        BY <1>d, <2>2, <2>4
      <3> QED
        BY <1>3, <1>b, <1>c, <3>1 DEF Doomed, Inside
    <2>5. ASSUME pc'[u] = "vn_sched" PROVE forkLock'[task'[u]] # u
      <3>1. pc[u] = "vn_sched"
        BY <1>3, <1>c, <2>5
      <3>2. task[u] \in Tasks /\ task'[u] = task[u]
        BY <1>b, <3>1, AtFacts
      <3> QED
        BY <1>d, <2>2, <3>1, <3>2
    <2> QED
      BY <2>3, <2>4, <2>5
  <1> QED
    BY <1>2, <1>3

\* Which tasks are there, how they hang together and what becomes of that with
\* a step: a fork adds a child, a wait takes one off, and otherwise nothing changes.
LEMMA TreeMove ==
  ASSUME LifeInv, NEW t \in Threads, LifeStep(t)
  PROVE  \/ /\ parent' = parent /\ children' = children
            /\ \A k \in Tasks : There(k)' <=> There(k)
         \/ \E k \in Tasks :
              /\ FkNew(t, k) /\ k # task[t] /\ ~ There(k) /\ There(k)' /\ There(task[t])
              /\ life[k] = "none" /\ life' = [life EXCEPT ![k] = "live"]
              /\ parent' = [parent EXCEPT ![k] = task[t]]
              /\ children' = [children EXCEPT ![task[t]] = <<k>> \o @]
              /\ \A j \in Tasks \ {k} : There(j)' <=> There(j)
         \/ \E k \in Tasks :
              /\ WtReap(t, k) /\ k \in Members(children[task[t]]) /\ There(task[t])
              /\ life[k] = "zombie" /\ life' = [life EXCEPT ![k] = "freed"] /\ ~ There(k)'
              /\ parent' = parent /\ children' = [children EXCEPT ![task[t]] = Without(@, k)]
              /\ \A j \in Tasks \ {k} : There(j)' <=> There(j)
  <1>0. life \in [Tasks -> Lives] /\ task[t] \in Tasks /\ pc[t] # "none" /\ t \notin parked
    BY StepFrame DEF LifeInv, TypesInv, LifeTypeOK
  <1>1. CASE \E k \in Tasks : FkNew(t, k)
    <2>1. PICK k \in Tasks : FkNew(t, k)
      BY <1>1
    <2>2. /\ life[k] = "none" /\ life' = [life EXCEPT ![k] = "live"] /\ pc[t] = "fk_new"
          /\ parent' = [parent EXCEPT ![k] = task[t]]
          /\ children' = [children EXCEPT ![task[t]] = <<k>> \o @]
      BY <2>1 DEF FkNew, At
    <2>3. life[task[t]] = "live"
      BY <1>0, <2>2, AtFacts DEF Left
    <2>4. k # task[t] /\ ~ There(k) /\ There(k)' /\ There(task[t])
      BY <1>0, <2>2, <2>3 DEF There
    <2>5. \A j \in Tasks \ {k} : There(j)' <=> There(j)
      BY <1>0, <2>2 DEF There
    <2> QED
      BY <2>1, <2>2, <2>4, <2>5
  <1>2. CASE \E k \in Tasks : WtReap(t, k)
    <2>1. PICK k \in Tasks : WtReap(t, k)
      BY <1>2
    <2>2. /\ life[k] = "zombie" /\ life' = [life EXCEPT ![k] = "freed"] /\ pc[t] = "wt_find"
          /\ parent' = parent /\ k \in Members(children[task[t]])
          /\ children' = [children EXCEPT ![task[t]] = Without(@, k)]
      BY <2>1 DEF WtReap, ReapChild, At
    <2>3. life[task[t]] = "live"
      BY <1>0, <2>2, AtFacts DEF Left
    <2>4. ~ There(k)' /\ There(task[t]) /\ \A j \in Tasks \ {k} : There(j)' <=> There(j)
      BY <1>0, <2>2, <2>3 DEF There
    <2> QED
      BY <2>1, <2>2, <2>4
  <1>3. CASE ~ \E k \in Tasks : FkNew(t, k) \/ WtReap(t, k)
    <2>1. parent' = parent /\ children' = children
      BY <1>3 DEF LifeStep, Kernel, TakesLock, GoesOn, FkLock, FkNoMemory,
         FkDone, FkFails, TfLock, TfAdd, VnLock, VnStop, VnList, VnListWith, VnSignal, VnUnlock, VnSched, Preempt,
         TvLock, TvFirst, TvAgain, WtLook, WtSem, WtLock, WtAssert, Call, Fatal, CallThreadFork
    <2>2. \A k \in Tasks \ {task[t]} : life'[k] = life[k]
      BY <1>3, StepFrame
    <2>3. There(task[t])' <=> There(task[t])
      <3>1. CASE VnList(t) \/ TvFirst(t)
        <4>1. ~ TfAdd(t)
          BY <3>1 DEF TfAdd, VnList, VnListWith, TvFirst, At
        <4>2. life[task[t]] = "live" /\ life'[task[t]] \in {"zombie", "live"}
          <5>1. life[task[t]] = "live"
            BY <3>1, ThreadsMove
          <5>2. life'[task[t]] \in {"zombie", life[task[t]]}
            BY <3>1, <4>1, ThreadsMove
          <5> QED
            BY <5>1, <5>2
        <4>3. task'[t] = task[t]
          BY <3>1 DEF VnList, VnListWith, TvFirst
        <4> QED
          BY <4>2, <4>3 DEF There
      <3>2. CASE ~ (VnList(t) \/ TvFirst(t))
        <4>1. life'[task[t]] = life[task[t]] \/ (life[task[t]] # "freed" /\ life'[task[t]] = "zombie")
          BY <3>2, OwnLife
        <4>2. life[task[t]] \in {"live", "zombie", "freed"}
          BY <1>0, StepFrame DEF Lives
        <4>3. task'[t] = task[t]
          BY <1>0, StepFrame DEF CallThreadFork, LifeInv, TypesInv, LifeTypeOK
        <4> QED
          BY <4>1, <4>2, <4>3 DEF There
      <3> QED
        BY <3>1, <3>2
    <2>4. \A k \in Tasks : There(k)' <=> There(k)
      <3>1. task'[t] = task[t]
        BY <1>0, StepFrame, TaskLifeAssumption DEF CallThreadFork, LifeInv, TypesInv, LifeTypeOK
      <3>2. \A k \in Tasks : k # task[t] => (There(k)' <=> There(k))
        BY <2>2 DEF There
      <3> QED
        BY <2>3, <3>1, <3>2 DEF There
    <2> QED
      BY <2>1, <2>4
  <1> QED
    BY <1>1, <1>2, <1>3

\* A list of children and the children's pointers say the same.
LEMMA StepTree ==
  ASSUME LifeInv, NEW t \in Threads, LifeStep(t)
  PROVE  TreeInv'
  <1> USE TaskLifeAssumption
  <1>0. /\ parent \in [Tasks -> Tasks \cup {None}] /\ children \in [Tasks -> Seq(Tasks)]
        /\ task[t] \in Tasks
    BY StepFrame DEF LifeInv, TypesInv, LifeTypeOK
  <1>1. /\ \A p \in Tasks : There(p) =>
             Members(children[p]) = {k \in Tasks : There(k) /\ parent[k] = p}
        /\ \A p \in Tasks : NoRepeats(children[p]) /\ parent[p] # p
        /\ \A k \in Tasks \ {InitTask} : There(k) => parent[k] \in Tasks
    BY DEF LifeInv, TreeInv
  <1> SUFFICES /\ \A p \in Tasks : There(p)' =>
                    \A k \in Tasks : k \in Members(children'[p]) <=> There(k)' /\ parent'[k] = p
               /\ \A p \in Tasks : Members(children'[p]) \subseteq Tasks
               /\ \A p \in Tasks : NoRepeats(children'[p]) /\ parent'[p] # p
               /\ \A k \in Tasks \ {InitTask} : There(k)' => parent'[k] \in Tasks
    <2>1. ASSUME NEW p \in Tasks, Members(children'[p]) \subseteq Tasks,
                 \A k \in Tasks : k \in Members(children'[p]) <=> There(k)' /\ parent'[k] = p
          PROVE  Members(children'[p]) = {k \in Tasks : There(k)' /\ parent'[k] = p}
      BY <2>1
    <2> QED
      BY <2>1 DEF TreeInv
  <1>2. CASE parent' = parent /\ children' = children /\ \A k \in Tasks : There(k)' <=> There(k)
    <2>1. \A p \in Tasks : Members(children'[p]) \subseteq Tasks
      BY <1>0, <1>2 DEF Members
    <2> QED
      BY <1>1, <1>2, <2>1
  <1>3. ASSUME NEW k \in Tasks,
               FkNew(t, k) /\ k # task[t] /\ ~ There(k) /\ There(k)' /\ There(task[t]),
               life[k] = "none" /\ life' = [life EXCEPT ![k] = "live"],
               parent' = [parent EXCEPT ![k] = task[t]],
               children' = [children EXCEPT ![task[t]] = <<k>> \o @],
               \A j \in Tasks \ {k} : There(j)' <=> There(j)
        PROVE  /\ \A p \in Tasks : There(p)' =>
                    \A j \in Tasks : j \in Members(children'[p]) <=> There(j)' /\ parent'[j] = p
               /\ \A p \in Tasks : Members(children'[p]) \subseteq Tasks
               /\ \A p \in Tasks : NoRepeats(children'[p]) /\ parent'[p] # p
               /\ \A j \in Tasks \ {InitTask} : There(j)' => parent'[j] \in Tasks
    <2> DEFINE q == task[t]
    <2>1. k \notin Members(children[q])
      BY <1>0, <1>1, <1>3
    <2>2. children[q] \in Seq(Tasks) /\ NoRepeats(children[q])
      BY <1>0, <1>1
    <2>3. /\ Members(<<k>> \o children[q]) = Members(children[q]) \cup {k}
          /\ NoRepeats(<<k>> \o children[q])
      BY <2>1, <2>2, PrependList
    <2>4. children[k] = <<>> /\ \A j \in Tasks : parent[j] # k
      BY <1>3 DEF LifeInv, UnbornInv
    <2>5. /\ children'[q] = <<k>> \o children[q] /\ \A p \in Tasks \ {q} : children'[p] = children[p]
          /\ parent'[k] = q /\ \A j \in Tasks \ {k} : parent'[j] = parent[j]
      BY <1>0, <1>3
    <2> HIDE DEF q
    <2>6. \A p \in Tasks : Members(children'[p]) \subseteq Tasks
      <3>1. \A p \in Tasks : Members(children[p]) \subseteq Tasks
        BY <1>0 DEF Members
      <3> QED
        BY <2>3, <2>5, <3>1
    <2>7. ASSUME NEW p \in Tasks, There(p)', NEW j \in Tasks
          PROVE  j \in Members(children'[p]) <=> There(j)' /\ parent'[j] = p
      <3>1. CASE p = q
        <4>1. There(q) /\ (j \in Members(children[q]) <=> There(j) /\ parent[j] = q)
          BY <1>0, <1>1, <1>3 DEF q
        <4>2. j \in Members(children'[q]) <=> j \in Members(children[q]) \/ j = k
          BY <2>3, <2>5
        <4>3. CASE j = k
          BY <1>3, <2>5, <3>1, <4>2, <4>3
        <4>4. CASE j # k
          BY <1>3, <2>5, <3>1, <4>1, <4>2, <4>4
        <4> QED
          BY <4>3, <4>4
      <3>2. CASE p = k
        BY <1>3, <2>4, <2>5, <3>2, EmptyList DEF q
      <3>3. CASE p # q /\ p # k
        <4>1. There(p) /\ children'[p] = children[p]
          BY <1>3, <2>5, <2>7, <3>3
        <4>2. j \in Members(children[p]) <=> There(j) /\ parent[j] = p
          BY <1>1, <4>1
        <4> QED
          BY <1>3, <2>5, <3>3, <4>1, <4>2
      <3> QED
        BY <3>1, <3>2, <3>3
    <2>8. \A p \in Tasks : NoRepeats(children'[p]) /\ parent'[p] # p
      BY <1>1, <1>3, <2>3, <2>5 DEF q
    <2>9. \A j \in Tasks \ {InitTask} : There(j)' => parent'[j] \in Tasks
      BY <1>0, <1>1, <1>3, <2>5 DEF q
    <2> QED
      BY <2>6, <2>7, <2>8, <2>9
  <1>4. ASSUME NEW k \in Tasks,
               k \in Members(children[task[t]]) /\ There(task[t]),
               life[k] = "zombie" /\ ~ There(k)',
               parent' = parent /\ children' = [children EXCEPT ![task[t]] = Without(@, k)],
               \A j \in Tasks \ {k} : There(j)' <=> There(j)
        PROVE  /\ \A p \in Tasks : There(p)' =>
                    \A j \in Tasks : j \in Members(children'[p]) <=> There(j)' /\ parent'[j] = p
               /\ \A p \in Tasks : Members(children'[p]) \subseteq Tasks
               /\ \A p \in Tasks : NoRepeats(children'[p]) /\ parent'[p] # p
               /\ \A j \in Tasks \ {InitTask} : There(j)' => parent'[j] \in Tasks
    <2> DEFINE q == task[t]
    <2>1. parent[k] = q
      BY <1>0, <1>1, <1>4
    <2>2. children[q] \in Seq(Tasks) /\ NoRepeats(children[q])
      BY <1>0, <1>1
    <2>3. /\ Members(Without(children[q], k)) = Members(children[q]) \ {k}
          /\ NoRepeats(Without(children[q], k))
      BY <2>2, WithoutList
    <2>4. children'[q] = Without(children[q], k) /\ \A p \in Tasks \ {q} : children'[p] = children[p]
      BY <1>0, <1>4
    <2> HIDE DEF q
    <2>5. \A p \in Tasks : Members(children'[p]) \subseteq Tasks
      <3>1. \A p \in Tasks : Members(children[p]) \subseteq Tasks
        BY <1>0 DEF Members
      <3> QED
        BY <2>3, <2>4, <3>1
    <2>6. ASSUME NEW p \in Tasks, There(p)', NEW j \in Tasks
          PROVE  j \in Members(children'[p]) <=> There(j)' /\ parent'[j] = p
      <3>0. There(p) /\ p # k
        BY <1>4, <2>6
      <3>1. j \in Members(children[p]) <=> There(j) /\ parent[j] = p
        BY <1>1, <3>0
      <3>2. CASE p = q
        BY <1>4, <2>3, <2>4, <3>1, <3>2
      <3>3. CASE p # q
        BY <1>4, <2>1, <2>4, <3>1, <3>3
      <3> QED
        BY <3>2, <3>3
    <2>7. \A p \in Tasks : NoRepeats(children'[p]) /\ parent'[p] # p
      BY <1>1, <1>4, <2>3, <2>4
    <2>8. \A j \in Tasks \ {InitTask} : There(j)' => parent'[j] \in Tasks
      BY <1>1, <1>4
    <2> QED
      BY <2>5, <2>6, <2>7, <2>8
  <1> QED
    BY <1>2, <1>3, <1>4, TreeMove

\* A task becomes a zombie in one step, which makes orphans of its children.
LEMMA ZombieStep ==
  ASSUME LifeInv, NEW t \in Threads, LifeStep(t), NEW k \in Tasks,
         life'[k] = "zombie", life[k] # "zombie"
  PROVE  Members(children[k]) \subseteq orphans'
  <1>0. life \in [Tasks -> Lives] /\ task[t] \in Tasks
    BY StepFrame DEF LifeInv, TypesInv, LifeTypeOK
  <1>1. k = task[t]
    <2>1. ASSUME k # task[t] PROVE FALSE
      <3>1. FkNew(t, k) \/ WtReap(t, k)
        BY <2>1, StepFrame
      <3>2. life'[k] \in {"live", "freed"}
        BY <1>0, <3>1 DEF FkNew, WtReap, ReapChild
      <3> QED
        BY <3>2
    <2> QED
      BY <2>1
  <1>2. CASE VnList(t) \/ TvFirst(t)
    BY <1>1, <1>2, StepOrphans
  <1>3. CASE ~ VnList(t) /\ ~ TvFirst(t)
    <2>1. TvAgain(t) /\ life[k] # "freed"
      BY <1>1, <1>3, OwnLife
    <2>2. life[k] # "live" /\ life[k] # "none"
      BY <1>0, <1>1, <2>1, StepFrame DEF TvAgain, LifeInv, LivesInv
    <2> QED
      BY <1>0, <2>1, <2>2 DEF Lives
  <1> QED
    BY <1>2, <1>3

\* A task that a step leaves without its parent is an orphan.
LEMMA StepFamily ==
  ASSUME LifeInv, FamilyInv, NEW t \in Threads, LifeStep(t)
  PROVE  FamilyInv'
  <1> USE TaskLifeAssumption
  <1>0. /\ life \in [Tasks -> Lives] /\ parent \in [Tasks -> Tasks \cup {None}]
        /\ children \in [Tasks -> Seq(Tasks)] /\ task[t] \in Tasks
        /\ orphans \subseteq orphans'
    BY StepFrame, StepOrphans DEF LifeInv, TypesInv, LifeTypeOK
  <1>1. CASE parent' = parent /\ children' = children /\ \A k \in Tasks : There(k)' <=> There(k)
    <2>1. ASSUME NEW k \in Tasks, life'[k] = "zombie"
          PROVE  Members(children[k]) \subseteq orphans'
      BY <1>0, <2>1, ZombieStep DEF FamilyInv
    <2>2. ASSUME NEW k \in Tasks \ {InitTask}, There(k)', k \notin orphans'
          PROVE  There(parent[k])'
      <3>1. There(k) /\ There(parent[k]) /\ parent[k] \in Tasks
        BY <1>0, <1>1, <2>2 DEF FamilyInv, ParentPointersValid, LifeInv, TreeInv
      <3> QED
        <4> DEFINE j == parent[k]
        <4>1. j \in Tasks /\ There(j)
          BY <3>1
        <4>2. j = parent'[k]
          BY <1>1
        <4> HIDE DEF j
        <4>3. life'[j] \in {"live", "zombie"}
          BY <1>1, <4>1 DEF There
        <4> QED
          BY <4>2, <4>3 DEF There
    <2> QED
      BY <1>1, <2>1, <2>2 DEF FamilyInv, ParentPointersValid, There
  <1>2. ASSUME NEW j \in Tasks, FkNew(t, j), There(task[t]), j # task[t],
               life[j] = "none", life' = [life EXCEPT ![j] = "live"],
               parent' = [parent EXCEPT ![j] = task[t]],
               children' = [children EXCEPT ![task[t]] = <<j>> \o @],
               \A i \in Tasks \ {j} : There(i)' <=> There(i)
        PROVE  FamilyInv'
    <2>1. life[task[t]] = "live"
      BY <1>0, <1>2, StepFrame, AtFacts DEF FkNew, At, Left
    <2>2. ASSUME NEW k \in Tasks, life'[k] = "zombie"
          PROVE  Members(children'[k]) \subseteq orphans'
      <3>1. life[k] = "zombie" /\ children'[k] = children[k]
        BY <1>0, <1>2, <2>1, <2>2
      <3> QED
        BY <1>0, <3>1 DEF FamilyInv
    <2>3. ASSUME NEW k \in Tasks \ {InitTask}, life'[k] \in {"live", "zombie"}, k \notin orphans'
          PROVE  life'[parent'[k]] \in {"live", "zombie"}
      <3>1. CASE k = j
        <4>1. parent'[k] = task[t] /\ life'[task[t]] = life[task[t]]
          BY <1>0, <1>2, <3>1
        <4> QED
          BY <2>1, <4>1
      <3>2. CASE k # j
        <4>1. There(k) /\ parent'[k] = parent[k]
          BY <1>0, <1>2, <2>3, <3>2 DEF There
        <4>2. There(parent[k]) /\ parent[k] \in Tasks
          BY <1>0, <2>3, <4>1 DEF FamilyInv, ParentPointersValid, LifeInv, TreeInv
        <4>3. parent[k] # j
          BY <1>2, <4>2 DEF There
        <4>4. life'[parent[k]] = life[parent[k]]
          BY <1>0, <1>2, <4>2, <4>3
        <4> QED
          BY <4>1, <4>2, <4>4 DEF There
      <3> QED
        BY <3>1, <3>2
    <2> QED
      BY <2>2, <2>3 DEF FamilyInv, ParentPointersValid, There
  <1>3. ASSUME NEW j \in Tasks, WtReap(t, j), life[j] = "zombie", life' = [life EXCEPT ![j] = "freed"],
               parent' = parent, children' = [children EXCEPT ![task[t]] = Without(@, j)]
        PROVE  FamilyInv'
    <2>1. life[task[t]] = "live"
      BY <1>0, <1>3, StepFrame, AtFacts DEF WtReap, ReapChild, At, Left
    <2>2. ASSUME NEW k \in Tasks, life'[k] = "zombie"
          PROVE  Members(children'[k]) \subseteq orphans'
      <3>1. life[k] = "zombie" /\ children'[k] = children[k]
        BY <1>0, <1>3, <2>1, <2>2
      <3> QED
        BY <1>0, <3>1 DEF FamilyInv
    <2>3. ASSUME NEW k \in Tasks \ {InitTask}, life'[k] \in {"live", "zombie"}, k \notin orphans'
          PROVE  life'[parent'[k]] \in {"live", "zombie"}
      <3>1. life[k] = life'[k] /\ There(k) /\ k \notin orphans
        BY <1>0, <1>3, <2>3 DEF There
      <3>2. There(parent[k]) /\ parent[k] \in Tasks
        BY <2>3, <3>1 DEF FamilyInv, ParentPointersValid, LifeInv, TreeInv
      <3>3. parent[k] # j
        <4> SUFFICES ASSUME parent[k] = j PROVE FALSE
          OBVIOUS
        <4>1. k \in Members(children[j])
          BY <3>1, <3>2 DEF LifeInv, TreeInv
        <4> QED
          BY <1>3, <3>1, <4>1 DEF FamilyInv
      <3>4. life'[parent[k]] = life[parent[k]]
        BY <1>0, <1>3, <3>2, <3>3
      <3> QED
        BY <1>3, <3>2, <3>4 DEF There
    <2> QED
      BY <2>2, <2>3 DEF FamilyInv, ParentPointersValid, There
  <1> QED
    BY <1>1, <1>2, <1>3, TreeMove

\* An end that is unsound stays so.
LEMMA UnsoundStays ==
  ASSUME LifeInv, NEW t \in Threads, LifeStep(t), NEW p \in Tasks, Unsound(p)
  PROVE  Unsound(p)'
  <1>1. PICK u \in Threads :
          /\ task[u] # None /\ parent[task[u]] = p
          /\ pc[u] = "tv_again" \/ (pc[u] = "vn_signal" /\ u \in parked)
    BY DEF Unsound
  <1>2. task[u] \in Tasks /\ life[task[u]] # "none"
    BY <1>1, AtFacts
  <1>3. task'[u] = task[u] /\ parent'[task[u]] = parent[task[u]]
    BY <1>1, <1>2, StepFrame DEF FkNew, CallThreadFork
  <1>4. parked \subseteq parked' /\ t \notin parked
    BY StepFrame
  <1>5. pc'[u] = pc[u]
    <2>1. CASE u # t
      BY <1>1, <2>1, OthersMove
    <2>2. CASE u = t
      BY <1>1, <1>4, <2>2, OwnMove DEF Doomed
    <2> QED
      BY <2>1, <2>2
  <1> QED
    BY <1>1, <1>3, <1>4, <1>5 DEF Unsound

\* A child's end is on its parent's list of children.
LEMMA EndsListed ==
  ASSUME LifeInv, NEW t \in Threads, pc[t] # "none", t \notin parked,
         pc[t] \notin {"gone", "tv_again"}, NEW p \in Tasks, There(p), parent[task[t]] = p
  PROVE  There(task[t]) /\ task[t] \in Members(children[p])
  <1>1. task[t] \in Tasks /\ life[task[t]] # "none" /\ life[task[t]] # "freed"
    BY AtFacts
  <1>2. There(task[t])
    BY <1>1 DEF There, LifeInv, TypesInv, LifeTypeOK, Lives
  <1> QED
    BY <1>1, <1>2 DEF LifeInv, TreeInv

\* The label where a thread signals is come to by VnList and left by VnSignal.
LEMMA SignalLabel ==
  ASSUME LifeInv, NEW t \in Threads, LifeStep(t), NEW u \in Threads
  PROVE  /\ pc[u] = "vn_signal" /\ pc'[u] # "vn_signal" => u = t /\ VnSignal(t)
         /\ pc[u] # "vn_signal" /\ pc'[u] = "vn_signal" =>
              u = t /\ VnList(t) /\ threads'[task[t]] = <<>>
         /\ VnSignal(t) => pc[t] = "vn_signal" /\ pc'[t] \in {"vn_unlock", "vn_sched"}
         /\ VnList(t) => pc[t] = "vn_list" /\ pc'[t] \in Doomed
                         /\ (threads'[task[t]] = <<>> => pc'[t] = "vn_signal")
  <1>1. VnSignal(t) => pc[t] = "vn_signal" /\ pc'[t] \in {"vn_unlock", "vn_sched"}
    <2> SUFFICES ASSUME VnSignal(t) PROVE pc[t] = "vn_signal" /\ pc'[t] \in {"vn_unlock", "vn_sched"}
      OBVIOUS
    <2>1. pc[t] = "vn_signal" /\ Signal(t, parent[task[t]], AfterSignal(t))
      BY DEF VnSignal, At
    <2>2. AfterSignal(t) \in PCs /\ parent[task[t]] \in Tasks \cup {None}
      BY <2>1, AtFacts DEF AfterSignal, PCs, Ending, Doomed
    <2>3. pc'[t] = AfterSignal(t)
      BY <2>1, <2>2, SignalMoves
    <2> QED
      BY <2>1, <2>3, AfterSignalLeft
  <1>2. VnList(t) => /\ pc[t] = "vn_list" /\ pc'[t] \in Doomed
                     /\ threads'[task[t]] = <<>> => pc'[t] = "vn_signal"
                     /\ pc'[t] = "vn_signal" => threads'[task[t]] = <<>>
    <2> SUFFICES ASSUME VnList(t)
                 PROVE  /\ pc[t] = "vn_list" /\ pc'[t] \in Doomed
                        /\ threads'[task[t]] = <<>> => pc'[t] = "vn_signal"
                        /\ pc'[t] = "vn_signal" => threads'[task[t]] = <<>>
      OBVIOUS
    <2>1. pc[t] = "vn_list" /\ ~ TfAdd(t) /\ ~ TvFirst(t)
      BY DEF TfAdd, VnList, VnListWith, TvFirst, At
    <2>2. pc'[t] = IF threads'[task[t]] = <<>> THEN "vn_signal" ELSE AfterSignal(t)
      BY <2>1, ThreadsMove
    <2> QED
      BY <2>1, <2>2, AfterSignalLeft DEF Doomed
  <1>3. CASE u # t
    <2>1. pc[u] = "vn_signal" <=> pc'[u] = "vn_signal"
      BY <1>3, OthersMove
    <2> QED
      BY <1>1, <1>2, <2>1
  <1>4. CASE u = t
    <2>1. pc[u] = "vn_signal" /\ pc'[u] # "vn_signal" => VnSignal(t)
      BY <1>4, OwnMove DEF Doomed
    <2>2. pc[u] # "vn_signal" /\ pc'[u] = "vn_signal" => VnList(t)
      BY <1>4, OwnMove, AfterSignalLeft
    <2> QED
      BY <1>1, <1>2, <1>4, <2>1, <2>2
  <1> QED
    BY <1>3, <1>4

\* Whom a woken thread's label is come to and left by.
LEMMA WokenLabel ==
  ASSUME LifeInv, NEW t \in Threads, LifeStep(t), NEW u \in Threads
  PROVE  /\ u # t /\ pc[u] \in {"wt_lock", "wt_find"} => pc'[u] = pc[u]
         /\ u # t /\ pc'[u] \in {"wt_lock", "wt_find"} => pc'[u] = pc[u] \/ pc[u] = "wt_blocked"
         /\ u = t /\ pc[u] \in {"wt_lock", "wt_find"} /\ pc'[u] \notin {"wt_lock", "wt_find"} =>
              \E k \in Tasks : WtReap(t, k)
         /\ u = t /\ pc[u] \notin {"wt_lock", "wt_find"} /\ pc'[u] \in {"wt_lock", "wt_find"} =>
              WtSem(t) /\ pc'[u] = "wt_lock"
  <1>1. CASE u # t
    BY <1>1, OthersMove
  <1>2. CASE u = t
    BY <1>2, OwnMove, AfterSignalLeft DEF Doomed
  <1> QED
    BY <1>1, <1>2

\* How a task comes to be a zombie, and how it ceases to be one.
LEMMA ZombieMove ==
  ASSUME LifeInv, NEW t \in Threads, LifeStep(t), NEW k \in Tasks
  PROVE  /\ life[k] = "zombie" /\ life'[k] # "zombie" => WtReap(t, k)
         /\ life[k] # "zombie" /\ life'[k] = "zombie" =>
              k = task[t] /\ ((VnList(t) /\ threads'[k] = <<>>) \/ TvFirst(t) \/ TvAgain(t))
  <1>0. life \in [Tasks -> Lives]
    BY DEF LifeInv, TypesInv, LifeTypeOK
  <1>1. CASE k # task[t]
    <2>1. FkNew(t, k) => life[k] = "none" /\ life'[k] = "live"
      BY <1>0 DEF FkNew
    <2>2. WtReap(t, k) => life'[k] = "freed"
      BY <1>0 DEF WtReap, ReapChild
    <2> QED
      BY <1>1, <2>1, <2>2, StepFrame
  <1>2. CASE k = task[t]
    <2>1. CASE VnList(t) \/ TvFirst(t)
      <3>1. ~ TfAdd(t) /\ ~ (VnList(t) /\ TvFirst(t))
        BY <2>1 DEF TfAdd, VnList, VnListWith, TvFirst, At
      <3>2. life[k] = "live" /\ life'[k] = IF threads'[k] = <<>> THEN "zombie" ELSE life[k]
        BY <1>2, <2>1, <3>1, ThreadsMove
      <3> QED
        BY <1>2, <2>1, <3>2
    <2>2. CASE ~ VnList(t) /\ ~ TvFirst(t)
      <3>1. life'[k] = life[k] \/ (TvAgain(t) /\ life'[k] = "zombie")
        BY <1>2, <2>2, OwnLife
      <3> QED
        BY <1>2, <3>1
    <2> QED
      BY <2>1, <2>2
  <1> QED
    BY <1>1, <1>2

\* The tasks that have signalled p, without p's list of children.
ByParent ==
  \A p \in Tasks : There(p) => \A k :
    k \in Signalled(p) <=>
      /\ k \in Tasks /\ life[k] = "zombie" /\ parent[k] = p
      /\ \A u \in Threads : task[u] = k => pc[u] # "vn_signal"

\* They are on that list.
LEMMA SignalledIs == LifeInv => ByParent
  BY DEF LifeInv, TreeInv, Signalled, Zombies, There, ByParent

\* The invariant is kept by a step.
LEMMA StepLife ==
  ASSUME LifeInv, NEW t \in Threads, LifeStep(t)
  PROVE  LifeInv'
  BY StepTypes, StepUnborn, StepThreads, StepMaking, StepLives, StepQueues, StepLock, StepTree
     DEF LifeInv

\* How the tasks that have signalled p change.
LEMMA SignalledMove ==
  ASSUME LifeInv, NEW t \in Threads, LifeStep(t), NEW p \in Tasks, There(p), There(p)', ~ Unsound(p)'
  PROVE  /\ VnSignal(t) /\ parent[task[t]] = p =>
              Signalled(p)' = Signalled(p) \cup {task[t]} /\ task[t] \notin Signalled(p)
         /\ \A k \in Tasks : WtReap(t, k) /\ task[t] = p =>
              Signalled(p)' = Signalled(p) \ {k} /\ k \in Signalled(p)
         /\ ~ (VnSignal(t) /\ parent[task[t]] = p) /\ (~ \E k \in Tasks : WtReap(t, k) /\ task[t] = p) =>
              Signalled(p)' = Signalled(p)
  <1> USE TaskLifeAssumption
  <1>0. /\ life \in [Tasks -> Lives] /\ parent \in [Tasks -> Tasks \cup {None}]
        /\ task \in [Threads -> Tasks \cup {None}] /\ task[t] \in Tasks /\ pc \in [Threads -> PCs]
        /\ task'[t] = task[t]
    BY OwnTask DEF LifeInv, TypesInv, LifeTypeOK
  <1>1. \A k : k \in Signalled(p) <=>
          /\ k \in Tasks /\ life[k] = "zombie" /\ parent[k] = p
          /\ \A u \in Threads : task[u] = k => pc[u] # "vn_signal"
    BY SignalledIs DEF ByParent
  <1>2. \A k : k \in Signalled(p)' <=>
          /\ k \in Tasks /\ life'[k] = "zombie" /\ parent'[k] = p
          /\ \A u \in Threads : task'[u] = k => pc'[u] # "vn_signal"
    <2>1. LifeInv'
      BY StepLife
    <2>2. ByParent'
      BY <2>1, SignalledIs, PTL
    <2> QED
      BY <2>2 DEF ByParent
  <1>3. \A k \in Tasks : life[k] # "none" => parent'[k] = parent[k]
    BY StepFrame DEF FkNew
  <1>4. \A u \in Threads : task'[u] = task[u] \/ (pc[u] = "none" /\ pc'[u] = "none")
    <2> SUFFICES ASSUME NEW u \in Threads, task'[u] # task[u] PROVE pc[u] = "none" /\ pc'[u] = "none"
      OBVIOUS
    <2>1. CallThreadFork(t, u)
      BY StepFrame
    <2>2. pc[u] = "none" /\ u # t /\ pc' = [pc EXCEPT ![t] = "tf_lock"]
      BY <2>1, StepFrame DEF CallThreadFork, Goto, LifeInv, ThreadsInv
    <2> QED
      BY <1>0, <2>2
  \* Who is at vn_signal stays there, but for a thread that signals.
  <1>5. \A k \in Tasks :
          (\A u \in Threads : task[u] = k => pc[u] # "vn_signal") /\ ~ (VnList(t) /\ k = task[t] /\ threads'[k] = <<>>)
            => \A u \in Threads : task'[u] = k => pc'[u] # "vn_signal"
    BY <1>4, SignalLabel
  <1>6. \A k \in Tasks :
          (\A u \in Threads : task'[u] = k => pc'[u] # "vn_signal") /\ ~ (VnSignal(t) /\ k = task[t])
            => \A u \in Threads : task[u] = k => pc[u] # "vn_signal"
    BY <1>4, SignalLabel
  \* No unsound end comes to be.
  <1>7. parent[task[t]] = p => ~ TvFirst(t) /\ ~ TvAgain(t)
    <2> SUFFICES ASSUME parent[task[t]] = p, TvFirst(t) \/ TvAgain(t) PROVE FALSE
      OBVIOUS
    <2>1. pc'[t] = "tv_again"
      BY OwnMove, ThreadsChange DEF TvAgain, At, Doomed
    <2>2. parent'[task[t]] = p
      BY <1>3, StepFrame
    <2> QED
      BY <1>0, <2>1, <2>2 DEF Unsound
  \* A child that becomes a zombie has not signalled yet.
  <1>8. \A k \in Tasks : life[k] # "zombie" /\ life'[k] = "zombie" /\ parent[k] = p =>
          pc'[t] = "vn_signal" /\ task'[t] = k
    BY <1>0, <1>7, ZombieMove, SignalLabel
  <1>9. \A k \in Tasks : parent'[k] = p /\ life'[k] = "zombie" => parent[k] = p
    <2> SUFFICES ASSUME NEW k \in Tasks, life'[k] = "zombie" PROVE parent'[k] = parent[k]
      OBVIOUS
    <2>1. FkNew(t, k) => life'[k] = "live"
      BY <1>0 DEF FkNew
    <2> QED
      BY <2>1, StepFrame
  <1>10. \A k \in Tasks : k \in Signalled(p)' => k \in Signalled(p) \/ (VnSignal(t) /\ k = task[t] /\ parent[k] = p)
    BY <1>1, <1>2, <1>6, <1>8, <1>9
  <1>11. \A k \in Tasks : k \in Signalled(p) =>
           k \in Signalled(p)' \/ (WtReap(t, k) /\ task[t] = p)
    <2> SUFFICES ASSUME NEW k \in Tasks, k \in Signalled(p), k \notin Signalled(p)'
                 PROVE  WtReap(t, k) /\ task[t] = p
      OBVIOUS
    <2>1. life[k] = "zombie" /\ parent[k] = p /\ parent'[k] = p
      BY <1>1, <1>3
    <2>2. ~ (VnList(t) /\ k = task[t])
      BY <2>1, ThreadsMove
    <2>3. life'[k] # "zombie"
      BY <1>1, <1>2, <1>5, <2>1, <2>2
    <2>4. WtReap(t, k)
      BY <2>1, <2>3, ZombieMove
    <2>5. k \in Members(children[task[t]]) /\ life[task[t]] = "live"
      <3>1. pc[t] = "wt_find" /\ t \notin parked
        BY <2>4 DEF WtReap, ReapChild, At
      <3> QED
        BY <2>4, <3>1, AtFacts DEF WtReap, ReapChild, Left
    <2>6. parent[k] = task[t]
      BY <1>0, <2>5 DEF LifeInv, TreeInv, There
    <2> QED
      BY <2>1, <2>4, <2>6
  <1>12. VnSignal(t) /\ parent[task[t]] = p => task[t] \in Signalled(p)' /\ task[t] \notin Signalled(p)
    <2> SUFFICES ASSUME VnSignal(t), parent[task[t]] = p
                 PROVE  task[t] \in Signalled(p)' /\ task[t] \notin Signalled(p)
      OBVIOUS
    <2>1. pc[t] = "vn_signal" /\ pc'[t] # "vn_signal" /\ life' = life /\ parent' = parent /\ task' = task
      BY SignalLabel DEF VnSignal
    <2>2. There(task[t]) /\ threads[task[t]] = <<>>
      BY <1>0, <2>1, EndsListed, StepFrame DEF LifeInv, LivesInv
    <2>3. life[task[t]] = "zombie"
      BY <1>0, <2>2 DEF There, LifeInv, LivesInv
    <2>4. \A u \in Threads : task[u] = task[t] /\ pc[u] = "vn_signal" => u = t
      BY <2>1 DEF LifeInv, LivesInv
    <2>5. \A u \in Threads : task[u] = task[t] => pc'[u] # "vn_signal"
      BY <2>1, <2>4, SignalLabel
    <2> QED
      BY <1>0, <1>1, <1>2, <2>1, <2>3, <2>5
  <1>13. ASSUME NEW k \in Tasks, WtReap(t, k), task[t] = p
         PROVE  k \in Signalled(p) /\ k \notin Signalled(p)' /\ ~ VnSignal(t)
                /\ \A j \in Tasks : WtReap(t, j) => j = k
    <2>1. /\ life[k] = "zombie" /\ life' = [life EXCEPT ![k] = "freed"] /\ At(t, "wt_find")
          /\ k \in Members(children[p])
      BY <1>13 DEF WtReap, ReapChild
    <2>2. parent[k] = p
      BY <2>1 DEF LifeInv, TreeInv
    <2>3. \A u \in Threads : task[u] = k => pc[u] # "vn_signal"
      <3> SUFFICES ASSUME NEW u \in Threads, task[u] = k, pc[u] = "vn_signal" PROVE FALSE
        OBVIOUS
      <3>1. u \in parked
        BY <2>1 DEF At, Doomed
      <3>2. Unsound(p)
        BY <2>2, <3>1 DEF Unsound
      <3> QED
        BY <3>2, UnsoundStays
    <2>4. \A j \in Tasks : WtReap(t, j) => j = k
      <3> SUFFICES ASSUME NEW j \in Tasks, WtReap(t, j), j # k PROVE FALSE
        OBVIOUS
      <3>1. life' = [life EXCEPT ![j] = "freed"]
        BY DEF WtReap, ReapChild
      <3> QED
        BY <1>0, <2>1, <3>1
    <2>5. k \notin Signalled(p)' /\ ~ VnSignal(t)
      BY <1>0, <1>2, <2>1 DEF VnSignal, At
    <2> QED
      BY <1>1, <2>1, <2>2, <2>3, <2>4, <2>5
  <1>14. Signalled(p) \subseteq Tasks /\ Signalled(p)' \subseteq Tasks
    BY <1>1, <1>2
  <1>15. ASSUME VnSignal(t), parent[task[t]] = p
         PROVE  Signalled(p)' = Signalled(p) \cup {task[t]}
    <2>1. ~ \E k \in Tasks : WtReap(t, k) /\ task[t] = p
      BY <1>13, <1>15
    <2> QED
      BY <1>0, <1>10, <1>11, <1>12, <1>14, <1>15, <2>1
  <1>16. ASSUME NEW k \in Tasks, WtReap(t, k), task[t] = p
         PROVE  Signalled(p)' = Signalled(p) \ {k}
    BY <1>10, <1>11, <1>13, <1>14, <1>16
  <1>17. ASSUME ~ (VnSignal(t) /\ parent[task[t]] = p), ~ \E k \in Tasks : WtReap(t, k) /\ task[t] = p
         PROVE  Signalled(p)' = Signalled(p)
    BY <1>10, <1>11, <1>14, <1>17
  <1> QED
    BY <1>12, <1>13, <1>15, <1>16, <1>17

\* A step that signals.
SignalStep(t) == VnSignal(t) \/ TvAgain(t) \/ (TvFirst(t) /\ threads'[task[t]] = <<>>)

\* How the threads woken for p change.
LEMMA WokenMove ==
  ASSUME LifeInv, NEW t \in Threads, LifeStep(t), NEW p \in Tasks
  PROVE  /\ \A h : SignalStep(t) /\ parent[task[t]] = p /\ Wakes(t, p, h) =>
              Woken(p)' = Woken(p) \cup {h} /\ h \notin Woken(p)
         /\ WtSem(t) /\ task[t] = p /\ pc'[t] = "wt_lock" =>
              Woken(p)' = Woken(p) \cup {t} /\ t \notin Woken(p)
         /\ (\E k \in Tasks : WtReap(t, k)) /\ task[t] = p =>
              Woken(p)' = Woken(p) \ {t} /\ t \in Woken(p)
         /\ /\ ~ (SignalStep(t) /\ parent[task[t]] = p /\ \E h : Wakes(t, p, h))
            /\ ~ (WtSem(t) /\ task[t] = p /\ pc'[t] = "wt_lock")
            /\ ~ ((\E k \in Tasks : WtReap(t, k)) /\ task[t] = p)
            => Woken(p)' = Woken(p)
  <1> USE TaskLifeAssumption
  <1>0. /\ task \in [Threads -> Tasks \cup {None}] /\ task[t] \in Tasks /\ pc \in [Threads -> PCs]
        /\ parent[task[t]] \in Tasks \cup {None}
    BY StepFrame DEF LifeInv, TypesInv, LifeTypeOK
  <1>1. \A u \in Threads : task'[u] = task[u] \/ (pc[u] = "none" /\ pc'[u] = "none")
    <2> SUFFICES ASSUME NEW u \in Threads, task'[u] # task[u] PROVE pc[u] = "none" /\ pc'[u] = "none"
      OBVIOUS
    <2>1. CallThreadFork(t, u)
      BY StepFrame
    <2>2. pc[u] = "none" /\ u # t /\ pc' = [pc EXCEPT ![t] = "tf_lock"]
      BY <2>1, StepFrame DEF CallThreadFork, Goto, LifeInv, ThreadsInv
    <2> QED
      BY <1>0, <2>2
  <1>2. \A u : u \in Woken(p) <=> u \in Threads /\ task[u] = p /\ pc[u] \in {"wt_lock", "wt_find"}
    BY DEF Woken
  <1>3. \A u : u \in Woken(p)' <=> u \in Threads /\ task[u] = p /\ pc'[u] \in {"wt_lock", "wt_find"}
    BY <1>1 DEF Woken
  <1>4. CASE SignalStep(t)
    <2>1. pc[t] \notin {"wt_lock", "wt_find", "wt_blocked"} /\ pc'[t] \notin {"wt_lock", "wt_find", "wt_blocked"}
          /\ ~ WtSem(t) /\ ~ \E k \in Tasks : WtReap(t, k)
      <3>1. pc[t] \in {"vn_signal", "tv_again", "tv_first"}
        BY <1>4 DEF SignalStep, VnSignal, TvAgain, TvFirst, At
      <3>2. ~ WtSem(t) /\ ~ \E k \in Tasks : WtReap(t, k)
        BY <3>1 DEF WtSem, WtReap, ReapChild, At
      <3>3. pc'[t] \notin {"wt_lock", "wt_find", "wt_blocked"}
        BY <3>1, OwnMove, AfterSignalLeft
      <3> QED
        BY <3>1, <3>2, <3>3
    <2> DEFINE q == parent[task[t]]
    <2>2. Signals(t, q)
      BY <1>4, SignalSteps DEF SignalStep
    <2>3. CASE \A u \in Threads \ {t} : pc'[u] = pc[u]
      <3>1. ~ \E h : Wakes(t, p, h)
        BY <2>3 DEF Wakes
      <3>2. Woken(p)' = Woken(p)
        BY <1>2, <1>3, <2>1, <2>3
      <3> QED
        BY <2>1, <3>1, <3>2
    <2>4. ASSUME NEW h, Wakes(t, q, h)
          PROVE  IF q = p THEN Woken(p)' = Woken(p) \cup {h} /\ h \notin Woken(p)
                          ELSE Woken(p)' = Woken(p)
      <3>1. /\ h \in Threads \ {t} /\ task[h] = q /\ pc[h] = "wt_blocked" /\ pc'[h] = "wt_lock"
            /\ \A u \in Threads \ {t, h} : pc'[u] = pc[u]
        BY <2>4 DEF Wakes
      <3> HIDE DEF q
      <3> QED
        BY <1>2, <1>3, <2>1, <3>1
    <2>5. ASSUME NEW h, Wakes(t, q, h)
          PROVE  q = p => Wakes(t, p, h) /\ \A g : Wakes(t, p, g) => g = h
      BY <2>5 DEF Wakes
    <2>6. CASE \E h : Wakes(t, q, h)
      <3>1. PICK h : Wakes(t, q, h)
        BY <2>6
      <3>2. CASE q = p
        <4>1. /\ Woken(p)' = Woken(p) \cup {h} /\ h \notin Woken(p)
              /\ Wakes(t, p, h) /\ \A g : Wakes(t, p, g) => g = h
          BY <2>4, <2>5, <3>1, <3>2
        <4> QED
          BY <1>4, <2>1, <3>2, <4>1
      <3>3. CASE q # p
        BY <2>1, <2>4, <3>1, <3>3
      <3> QED
        BY <3>2, <3>3
    <2> QED
      BY <2>2, <2>3, <2>6 DEF Signals, Unheard, Kept
  <1>5. CASE ~ SignalStep(t)
    <2>1. \A u \in Threads \ {t} : (u \in Woken(p) <=> u \in Woken(p)')
      <3>1. \A u \in Threads \ {t} :
              \/ pc'[u] = pc[u]
              \/ pc'[u] \in {"gone", "user"} /\ pc[u] \in {"user", "none"}
        BY <1>5, NoSignal DEF SignalStep
      <3> QED
        BY <1>2, <1>3, <3>1
    <2>2. Woken(p) \subseteq Threads /\ Woken(p)' \subseteq Threads
      BY <1>2, <1>3
    <2>3. CASE WtSem(t) /\ task[t] = p /\ pc'[t] = "wt_lock"
      <3>1. pc[t] = "wt_sem" /\ ~ \E k \in Tasks : WtReap(t, k)
        BY <2>3 DEF WtSem, WtReap, ReapChild, At
      <3>2. t \notin Woken(p) /\ t \in Woken(p)'
        BY <1>2, <1>3, <2>3, <3>1
      <3>3. Woken(p)' = Woken(p) \cup {t}
        BY <2>1, <2>2, <3>2
      <3> QED
        BY <1>5, <2>3, <3>1, <3>2, <3>3
    <2>4. CASE (\E k \in Tasks : WtReap(t, k)) /\ task[t] = p
      <3>1. pc[t] = "wt_find" /\ pc' = [pc EXCEPT ![t] = "user"]
        BY <2>4 DEF WtReap, ReapChild, At, Goto
      <3>2. t \in Woken(p) /\ t \notin Woken(p)'
        BY <1>0, <1>2, <1>3, <2>4, <3>1
      <3>3. Woken(p)' = Woken(p) \ {t}
        BY <2>1, <2>2, <3>2
      <3>4. ~ WtSem(t)
        BY <3>1 DEF WtSem, At
      <3> QED
        BY <1>5, <2>4, <3>2, <3>3, <3>4
    <2>5. CASE ~ (WtSem(t) /\ task[t] = p /\ pc'[t] = "wt_lock") /\ ~ ((\E k \in Tasks : WtReap(t, k)) /\ task[t] = p)
      <3>1. t \in Woken(p) <=> t \in Woken(p)'
        BY <1>2, <1>3, <2>5, WokenLabel
      <3>2. Woken(p)' = Woken(p)
        BY <2>1, <2>2, <3>1
      <3> QED
        BY <1>5, <2>5, <3>2
    <2> QED
      BY <2>3, <2>4, <2>5
  <1> QED
    BY <1>4, <1>5

\* The balance of one semaphore.
Balanced(p) ==
  /\ IsFiniteSet(Signalled(p)) /\ IsFiniteSet(Woken(p))
  /\ Cardinality(Signalled(p)) = count[p] + Len(waiters[p]) + Cardinality(Woken(p))
  /\ waiters[p] # <<>> => count[p] = -Len(waiters[p])
  /\ waiters[p] = <<>> => count[p] >= 0

\* A woken wait finds a zombie.
LEMMA FindsZombie ==
  ASSUME LifeInv, WaitsInv, NEW t \in Threads, pc[t] = "wt_find", ~ Unsound(task[t])
  PROVE  Zombies(task[t]) # {}
  <1> DEFINE p == task[t]
  <1>1. p \in Tasks /\ There(p)
    <2>1. t \notin parked
      BY DEF LifeInv, LivesInv, Doomed
    <2>2. p \in Tasks /\ life[p] = "live"
      BY <2>1, AtFacts DEF Left
    <2> QED
      BY <2>2 DEF There
  <1>2. Balanced(p)
    BY <1>1 DEF WaitsInv, Balanced
  <1>3. t \in Woken(p)
    BY DEF Woken
  <1>4. Cardinality(Woken(p)) \in Nat /\ Cardinality(Woken(p)) # 0
    BY <1>2, <1>3, FS_CardinalityType, FS_EmptySet DEF Balanced
  <1>5. count[p] \in Int /\ Len(waiters[p]) \in Nat
    BY <1>1 DEF LifeInv, TypesInv, LifeTypeOK
  <1>6. Cardinality(Signalled(p)) # 0
    BY <1>2, <1>4, <1>5 DEF Balanced
  <1>7. Signalled(p) # {}
    BY <1>6, FS_EmptySet
  <1> QED
    BY <1>7 DEF Signalled

\* Signals and waits stay even.
LEMMA StepBalance ==
  ASSUME LifeInv, WaitsInv, NEW t \in Threads, LifeStep(t), NEW p \in Tasks, There(p)', ~ Unsound(p)'
  PROVE  Balanced(p)'
  <1> USE TaskLifeAssumption
  <1>0. /\ count \in [Tasks -> Int] /\ waiters \in [Tasks -> Seq(Threads)]
        /\ parent \in [Tasks -> Tasks \cup {None}] /\ task[t] \in Tasks /\ life \in [Tasks -> Lives]
        /\ task'[t] = task[t] /\ pc \in [Threads -> PCs]
    BY OwnTask DEF LifeInv, TypesInv, LifeTypeOK
  <1>1. CASE ~ There(p)
    <2>1. FkNew(t, p) /\ life[p] = "none"
      <3>1. PICK k \in Tasks : /\ (FkNew(t, k) /\ life[k] = "none") \/ ~ There(k)'
                              /\ \A j \in Tasks \ {k} : There(j)' <=> There(j)
        BY <1>1, TreeMove
      <3> QED
        BY <1>1, <3>1
    <2>2. /\ children[p] = <<>> /\ waiters[p] = <<>> /\ count[p] = 0
          /\ \A u \in Threads : task[u] = p => u = p /\ pc[u] = "none"
      BY <2>1 DEF LifeInv, UnbornInv
    <2>3. /\ count' = count /\ waiters' = waiters /\ task' = task /\ pc' = [pc EXCEPT ![t] = "fk_map"]
          /\ children' = [children EXCEPT ![task[t]] = <<p>> \o @] /\ p # task[t]
      BY <2>1, StepFrame DEF FkNew, Goto
    <2>4. children'[p] = <<>>
      BY <2>2, <2>3 DEF LifeInv, TypesInv
    <2>5. Signalled(p)' = {}
      BY <2>4, EmptyList DEF Signalled, Zombies
    <2>6. Woken(p)' = {}
      BY <1>0, <2>2, <2>3 DEF Woken
    <2> QED
      BY <2>2, <2>3, <2>5, <2>6, FS_EmptySet DEF Balanced
  <1>2. CASE There(p)
    <2>0. Balanced(p)
      BY <1>2, UnsoundStays DEF WaitsInv, Balanced
    <2>a. /\ Cardinality(Woken(p)) \in Nat /\ Cardinality(Signalled(p)) \in Nat
          /\ count[p] \in Int /\ Len(waiters[p]) \in Nat /\ waiters[p] \in Seq(Threads)
          /\ (waiters[p] # <<>> => Len(waiters[p]) > 0) /\ (waiters[p] = <<>> => Len(waiters[p]) = 0)
      BY <1>0, <2>0, FS_CardinalityType DEF Balanced
    <2>1. CASE SignalStep(t) /\ parent[task[t]] = p
      <3>1. VnSignal(t)
        <4> SUFFICES ASSUME TvFirst(t) \/ TvAgain(t) PROVE FALSE
          BY <2>1 DEF SignalStep
        <4>1. pc'[t] = "tv_again"
          BY OwnMove, ThreadsChange DEF TvAgain, At, Doomed
        <4>2. parent'[task[t]] = p
          BY <2>1, StepFrame DEF FkNew
        <4> QED
          BY <1>0, <4>1, <4>2 DEF Unsound
      <3>2. Signalled(p)' = Signalled(p) \cup {task[t]} /\ task[t] \notin Signalled(p)
        BY <1>2, <2>1, <3>1, SignalledMove
      <3>3. Signals(t, p) /\ ~ Unheard(t, p)
        BY <1>0, <1>2, <2>1, SignalSteps DEF SignalStep, Unheard, There
      <3>4. IsFiniteSet(Signalled(p)') /\ Cardinality(Signalled(p)') = Cardinality(Signalled(p)) + 1
        <4> DEFINE S == Signalled(p)
                   k == task[t]
        <4>1. IsFiniteSet(S) /\ Signalled(p)' = S \cup {k} /\ k \notin S
          BY <2>0, <3>2 DEF Balanced
        <4> HIDE DEF S, k
        <4>2. IsFiniteSet(S \cup {k}) /\ Cardinality(S \cup {k}) = Cardinality(S) + 1
          BY <4>1, FS_AddElement
        <4> QED
          BY <4>1, <4>2 DEF S
      <3>5. CASE Kept(t, p)
        <4>1. waiters'[p] = <<>> /\ waiters[p] = <<>> /\ count'[p] = count[p] + 1
          BY <1>0, <3>5 DEF Kept
        <4>2. Woken(p)' = Woken(p)
          <5>1. ~ \E h : Wakes(t, p, h)
            BY <3>5 DEF Kept, Wakes
          <5>2. ~ WtSem(t) /\ ~ \E k \in Tasks : WtReap(t, k)
            BY <3>1 DEF VnSignal, WtSem, WtReap, ReapChild, At
          <5> QED
            BY <5>1, <5>2, WokenMove
        <4> QED
          BY <2>0, <2>a, <3>4, <4>1, <4>2 DEF Balanced
      <3>6. ASSUME NEW h, Wakes(t, p, h) PROVE Balanced(p)'
        <4>1. waiters'[p] = Tail(waiters[p]) /\ waiters[p] # <<>> /\ count'[p] = count[p] + 1
          BY <1>0, <3>6 DEF Wakes
        <4>2. Len(Tail(waiters[p])) = Len(waiters[p]) - 1
          BY <2>a, <4>1
        <4>3. Woken(p)' = Woken(p) \cup {h} /\ h \notin Woken(p)
          BY <2>1, <3>6, WokenMove
        <4>4. IsFiniteSet(Woken(p)') /\ Cardinality(Woken(p)') = Cardinality(Woken(p)) + 1
          BY <2>0, <4>3, FS_AddElement DEF Balanced
        <4>5. waiters'[p] = <<>> => Len(waiters'[p]) = 0
          OBVIOUS
        <4>6. /\ Cardinality(Signalled(p)') = count'[p] + Len(waiters'[p]) + Cardinality(Woken(p)')
              /\ waiters'[p] # <<>> => count'[p] = -Len(waiters'[p])
              /\ waiters'[p] = <<>> => count'[p] >= 0
          <5> DEFINE c == count[p]
                     n == Len(waiters[p])
                     w == Cardinality(Woken(p))
                     z == Cardinality(Signalled(p))
          <5>1. c \in Int /\ n \in Nat /\ w \in Nat /\ z \in Nat /\ z = c + n + w /\ c = -n
            BY <2>0, <2>a, <4>1 DEF Balanced
          <5>2. /\ count'[p] = c + 1 /\ Len(waiters'[p]) = n - 1
                /\ Cardinality(Signalled(p)') = z + 1 /\ Cardinality(Woken(p)') = w + 1
            BY <3>4, <4>1, <4>2, <4>4
          <5> HIDE DEF c, n, w, z
          <5> QED
            BY <4>5, <5>1, <5>2
        <4> QED
          BY <3>4, <4>4, <4>6 DEF Balanced
      <3> QED
        BY <3>3, <3>5, <3>6 DEF Signals
    <2>2. CASE WtSem(t) /\ task[t] = p
      <3>1. /\ count'[p] = count[p] - 1 /\ pc[t] = "wt_sem"
            /\ \/ count[p] > 0 /\ pc'[t] = "wt_lock" /\ waiters'[p] = waiters[p]
               \/ count[p] <= 0 /\ pc'[t] = "wt_blocked" /\ waiters'[p] = Append(waiters[p], t)
        BY <1>0, <2>2 DEF WtSem, At, Goto
      <3>2. Signalled(p)' = Signalled(p)
        <4>1. ~ VnSignal(t) /\ ~ \E k \in Tasks : WtReap(t, k)
          BY <3>1 DEF VnSignal, WtReap, ReapChild, At
        <4> QED
          BY <1>2, <4>1, SignalledMove
      <3>3. CASE count[p] > 0 /\ pc'[t] = "wt_lock" /\ waiters'[p] = waiters[p]
        <4>1. Woken(p)' = Woken(p) \cup {t} /\ t \notin Woken(p)
          BY <2>2, <3>3, WokenMove
        <4>2. IsFiniteSet(Woken(p)') /\ Cardinality(Woken(p)') = Cardinality(Woken(p)) + 1
          BY <2>0, <4>1, FS_AddElement DEF Balanced
        <4>3. waiters[p] = <<>>
          BY <2>0, <2>a, <3>3 DEF Balanced
        <4>4. /\ Cardinality(Signalled(p)') = count'[p] + Len(waiters'[p]) + Cardinality(Woken(p)')
              /\ waiters'[p] # <<>> => count'[p] = -Len(waiters'[p])
              /\ waiters'[p] = <<>> => count'[p] >= 0
          BY <2>0, <2>a, <3>1, <3>2, <3>3, <4>2, <4>3 DEF Balanced
        <4> QED
          BY <2>0, <3>2, <4>2, <4>4 DEF Balanced
      <3>4. CASE count[p] <= 0 /\ pc'[t] = "wt_blocked" /\ waiters'[p] = Append(waiters[p], t)
        <4>1. Woken(p)' = Woken(p)
          <5>1. ~ SignalStep(t) /\ ~ \E k \in Tasks : WtReap(t, k)
            BY <3>1 DEF SignalStep, VnSignal, TvFirst, TvAgain, WtReap, ReapChild, At
          <5> QED
            BY <3>4, <5>1, WokenMove
        <4>2. Len(waiters'[p]) = Len(waiters[p]) + 1 /\ waiters'[p] # <<>>
          BY <2>a, <3>4, AppendList
        <4>3. /\ Cardinality(Signalled(p)') = count'[p] + Len(waiters'[p]) + Cardinality(Woken(p)')
              /\ waiters'[p] # <<>> => count'[p] = -Len(waiters'[p])
          BY <2>0, <2>a, <3>1, <3>2, <3>4, <4>1, <4>2 DEF Balanced
        <4> QED
          BY <2>0, <3>2, <4>1, <4>2, <4>3 DEF Balanced
      <3> QED
        BY <3>1, <3>3, <3>4
    <2>3. ASSUME NEW k \in Tasks, WtReap(t, k), task[t] = p PROVE Balanced(p)'
      <3>1. Signalled(p)' = Signalled(p) \ {k} /\ k \in Signalled(p)
        BY <1>2, <2>3, SignalledMove
      <3>2. Woken(p)' = Woken(p) \ {t} /\ t \in Woken(p)
        BY <2>3, WokenMove
      <3>3. count' = count /\ waiters' = waiters
        BY <2>3 DEF WtReap, ReapChild
      <3>4. /\ IsFiniteSet(Signalled(p)') /\ Cardinality(Signalled(p)') = Cardinality(Signalled(p)) - 1
            /\ IsFiniteSet(Woken(p)') /\ Cardinality(Woken(p)') = Cardinality(Woken(p)) - 1
        <4>1. IsFiniteSet(Signalled(p)) /\ IsFiniteSet(Woken(p))
          BY <2>0 DEF Balanced
        <4>2. IsFiniteSet(Signalled(p)') /\ Cardinality(Signalled(p)') = Cardinality(Signalled(p)) - 1
          BY <3>1, <4>1, FS_RemoveElement
        <4>3. IsFiniteSet(Woken(p)') /\ Cardinality(Woken(p)') = Cardinality(Woken(p)) - 1
          BY <3>2, <4>1, FS_RemoveElement
        <4> QED
          BY <4>2, <4>3
      <3>5. Cardinality(Signalled(p)') = count'[p] + Len(waiters'[p]) + Cardinality(Woken(p)')
        <4> DEFINE c == count[p]
                   n == Len(waiters[p])
                   w == Cardinality(Woken(p))
                   z == Cardinality(Signalled(p))
        <4>1. c \in Int /\ n \in Nat /\ w \in Nat /\ z \in Nat /\ z = c + n + w
          BY <2>0, <2>a DEF Balanced
        <4>2. /\ count'[p] = c /\ Len(waiters'[p]) = n
              /\ Cardinality(Signalled(p)') = z - 1 /\ Cardinality(Woken(p)') = w - 1
          BY <3>3, <3>4
        <4> HIDE DEF c, n, w, z
        <4> QED
          BY <4>1, <4>2
      <3> QED
        BY <2>0, <3>3, <3>4, <3>5 DEF Balanced
    <2>4. CASE /\ ~ (SignalStep(t) /\ parent[task[t]] = p) /\ ~ (WtSem(t) /\ task[t] = p)
               /\ ~ ((\E k \in Tasks : WtReap(t, k)) /\ task[t] = p)
      <3>1. Signalled(p)' = Signalled(p)
        BY <1>2, <2>4, SignalledMove DEF SignalStep
      <3>2. Woken(p)' = Woken(p)
        BY <2>4, WokenMove
      <3>3. count'[p] = count[p] /\ waiters'[p] = waiters[p]
        <4>1. CASE SignalStep(t)
          <5>1. Signals(t, parent[task[t]])
            BY <4>1, SignalSteps DEF SignalStep
          <5> QED
            BY <1>0, <2>4, <4>1, <5>1 DEF Signals, Unheard, Kept, Wakes
        <4>2. CASE WtSem(t)
          BY <1>0, <2>4, <4>2 DEF WtSem
        <4>3. CASE ~ SignalStep(t) /\ ~ WtSem(t)
          <5>1. UNCHANGED <<count, waiters>>
            BY <4>3, NoSignal DEF SignalStep
          <5> QED
            BY <5>1
        <4> QED
          BY <4>1, <4>2, <4>3
      <3> QED
        BY <2>0, <3>1, <3>2, <3>3 DEF Balanced
    <2> QED
      BY <2>1, <2>2, <2>3, <2>4
  <1> QED
    BY <1>1, <1>2

\* And no assertion fails.
LEMMA StepWaits ==
  ASSUME LifeInv, WaitsInv, NEW t \in Threads, LifeStep(t)
  PROVE  WaitsInv'
  <1>1. ASSUME NEW p \in Tasks, There(p)', ~ Unsound(p)' PROVE Balanced(p)'
    BY <1>1, StepBalance
  <1>2. ASSUME panicked' PROVE \E p \in Tasks : Unsound(p)'
    <2>1. CASE panicked
      BY <2>1, UnsoundStays DEF WaitsInv
    <2>2. CASE ~ panicked
      <3>1. WtAssert(t)
        BY <1>2, <2>2 DEF LifeStep, Kernel, TakesLock, GoesOn, FkLock, FkNew, FkNoMemory, FkDone,
           FkFails, TfLock, TfAdd, VnLock, VnStop, VnList, VnListWith, VnSignal, VnUnlock, VnSched,
           Preempt, TvLock, TvFirst, TvAgain, WtLook, WtSem, WtLock, WtReap, ReapChild, Call, Fatal,
           CallThreadFork
      <3>2. pc[t] = "wt_find" /\ Zombies(task[t]) = {}
        BY <3>1 DEF WtAssert, At
      <3>3. Unsound(task[t]) /\ task[t] \in Tasks
        BY <3>2, FindsZombie, AtFacts
      <3> QED
        BY <3>3, UnsoundStays
    <2> QED
      BY <2>1, <2>2
  <1> QED
    BY <1>1, <1>2 DEF WaitsInv, Balanced

----------------------------------------------------------------------------
(* The theorems.                                                             *)

\* A list of one element.
LEMMA SingleList ==
  ASSUME NEW S, NEW e \in S
  PROVE  Members(<<e>>) = {e} /\ NoRepeats(<<e>>) /\ <<e>> # <<>> /\ <<e>> \in Seq(S)
  <1>1. DOMAIN <<e>> = {1} /\ <<e>>[1] = e
    OBVIOUS
  <1>2. <<e>> # <<>> /\ <<e>> \in Seq(S)
    OBVIOUS
  <1> QED
    BY <1>1, <1>2 DEF Members, NoRepeats

\* The initial states.
LEMMA InitLife == LifeInit => LifeInv /\ FamilyInv /\ WaitsInv
  <1> SUFFICES ASSUME LifeInit PROVE LifeInv /\ FamilyInv /\ WaitsInv
    OBVIOUS
  <1>0. Tasks \subseteq Threads /\ InitTask \in Tasks /\ None \notin Threads
    BY TaskLifeAssumption DEF Threads
  <1>1. /\ \A k \in Tasks : /\ life[k] = IF k = InitTask THEN "live" ELSE "none"
                            /\ parent[k] = None /\ children[k] = <<>> /\ waiters[k] = <<>>
                            /\ forkLock[k] = None /\ count[k] = 0
        /\ \A k \in Tasks : threads[k] = IF k = InitTask THEN <<k>> ELSE <<>>
        /\ \A t \in Threads : /\ task[t] = IF t \in Tasks THEN t ELSE None
                              /\ pc[t] = IF t = InitTask THEN "user" ELSE "none"
                              /\ arg[t] = None
        /\ parked = {} /\ panicked = FALSE /\ orphans = {}
    BY DEF LifeInit
  <1>2. /\ threads[InitTask] # <<>> /\ Members(threads[InitTask]) = {InitTask}
        /\ \A k \in Tasks : k # InitTask => threads[k] = <<>> /\ Members(threads[k]) = {}
        /\ \A k \in Tasks : NoRepeats(threads[k]) /\ threads[k] \in Seq(Threads)
        /\ \A k \in Tasks : Members(children[k]) = {} /\ NoRepeats(children[k])
        /\ \A k \in Tasks : Members(waiters[k]) = {} /\ NoRepeats(waiters[k])
    <2>1. ASSUME NEW k \in Tasks
          PROVE  /\ children[k] = <<>> /\ waiters[k] = <<>>
                 /\ k = InitTask => threads[k] = <<k>>
                 /\ k # InitTask => threads[k] = <<>>
      BY <1>1
    <2>2. <<>> \in Seq(Threads)
      OBVIOUS
    <2> QED
      BY <1>0, <2>1, <2>2, EmptyList, SingleList
  <1>3. TypesInv
    <2>1. life \in [Tasks -> Lives]
      BY DEF LifeInit, Lives
    <2>2. parent \in [Tasks -> Tasks \cup {None}] /\ forkLock \in [Tasks -> Threads \cup {None}]
      BY DEF LifeInit
    <2>3. children \in [Tasks -> Seq(Tasks)] /\ waiters \in [Tasks -> Seq(Threads)]
      <3>1. <<>> \in Seq(Tasks) /\ <<>> \in Seq(Threads)
        OBVIOUS
      <3> QED
        BY <3>1 DEF LifeInit
    <2>4. threads \in [Tasks -> Seq(Threads)]
      <3>1. threads = [k \in Tasks |-> threads[k]]
        BY DEF LifeInit
      <3> QED
        BY <1>2, <3>1
    <2>5. task \in [Threads -> Tasks \cup {None}] /\ arg \in [Threads -> Threads \cup {None}]
      BY DEF LifeInit
    <2>6. count \in [Tasks -> Int]
      BY DEF LifeInit
    <2>9. parked \subseteq Threads /\ panicked \in BOOLEAN /\ orphans \subseteq Tasks
      BY <1>1
    <2>7. pc \in [Threads -> PCs]
      BY DEF LifeInit, PCs
    <2>8. \A k \in Tasks : Members(children[k]) \subseteq Tasks /\ Members(threads[k]) \subseteq {t \in Threads : task[t] = k}
      BY <1>0, <1>1, <1>2
    <2> QED
      BY <2>1, <2>2, <2>3, <2>4, <2>5, <2>6, <2>7, <2>8, <2>9 DEF TypesInv, LifeTypeOK
  <1>4. UnbornInv
    <2> SUFFICES ASSUME NEW k \in Tasks, life[k] = "none"
                 PROVE  /\ threads[k] = <<>> /\ children[k] = <<>> /\ waiters[k] = <<>> /\ count[k] = 0
                        /\ \A j \in Tasks : parent[j] # k
                        /\ \A t \in Threads : task[t] = k => t = k /\ pc[t] = "none"
      BY DEF UnbornInv
    <2>1. k # InitTask /\ k # None
      BY <1>0, <1>1
    <2> QED
      BY <1>0, <1>1, <1>2, <2>1
  <1>5. ThreadsInv
    <2>1. \A t \in Tasks : task[t] = t
      BY <1>0, <1>1
    <2>2. \A t \in Threads : task[t] = None => pc[t] = "none"
      BY <1>0, <1>1
    <2>3. \A k \in Tasks : \A t \in Members(threads[k]) : t = InitTask /\ pc[t] = "user"
      BY <1>0, <1>1, <1>2
    <2>4. \A t \in Threads : task[t] # None /\ life[task[t]] # "none" => t \in Members(threads[task[t]])
      BY <1>0, <1>1, <1>2
    <2> QED
      BY <1>2, <2>1, <2>2, <2>3, <2>4 DEF ThreadsInv, Left
  <1>6. MakingInv
    BY <1>1 DEF MakingInv, ForksThread
  <1>7. LivesInv
    <2>1. \A k \in Tasks : life[k] = "live" <=> threads[k] # <<>>
      BY <1>0, <1>1, <1>2
    <2>2. \A t \in Threads : pc[t] # "vn_signal"
      BY <1>1
    <2>3. \A k \in Tasks : life[k] # "freed"
      BY <1>1
    <2> QED
      BY <1>1, <2>1, <2>2, <2>3 DEF LivesInv, FreedIsLeft
  <1>8. QueuesInv
    BY <1>2 DEF QueuesInv
  <1>9. LockInv
    <2>1. \A k \in Tasks : \A t \in Threads : forkLock[k] # t
      BY <1>0, <1>1
    <2>2. \A t \in Threads : pc[t] \in {"user", "none"} /\ (task[t] \in Tasks \/ pc[t] = "none")
      BY <1>0, <1>1
    <2> QED
      BY <1>0, <1>1, <2>1, <2>2 DEF LockInv, LockHeldInside
  <1>10. TreeInv
    <2>1. \A p \in Tasks : There(p) => p = InitTask
      BY <1>1 DEF There
    <2>2. \A p, k \in Tasks : parent[k] # p
      BY <1>0, <1>1
    <2> QED
      BY <1>2, <2>1, <2>2 DEF TreeInv
  <1>11. FamilyInv
    BY <1>0, <1>1 DEF FamilyInv, ParentPointersValid, There
  <1>12. WaitsInv
    <2>1. ASSUME NEW p \in Tasks PROVE Balanced(p)
      <3>1. Signalled(p) = {} /\ Woken(p) = {}
        <4>1. Zombies(p) = {}
          BY <1>1, EmptyList DEF Zombies
        <4>2. \A t \in Threads : pc[t] \notin {"wt_lock", "wt_find"}
          BY <1>1
        <4> QED
          BY <4>1, <4>2 DEF Signalled, Woken
      <3>2. IsFiniteSet({}) /\ Cardinality({}) = 0
        BY FS_EmptySet
      <3>3. waiters[p] = <<>> /\ count[p] = 0 /\ Len(waiters[p]) = 0
        BY <1>1
      <3> QED
        BY <3>1, <3>2, <3>3 DEF Balanced
    <2> QED
      BY <1>1, <2>1 DEF WaitsInv, Balanced
  <1> QED
    BY <1>3, <1>4, <1>5, <1>6, <1>7, <1>8, <1>9, <1>10, <1>11, <1>12 DEF LifeInv

\* Every step keeps the invariants, and so does none.
LEMMA NextLife == LifeInv /\ [LifeNext]_lifevars => LifeInv'
  <1>1. ASSUME LifeInv, LifeNext PROVE LifeInv'
    BY <1>1, StepLife DEF LifeNext, LifeStep
  <1>2. ASSUME LifeInv, UNCHANGED lifevars PROVE LifeInv'
    BY <1>2 DEF lifevars, LifeInv, TypesInv, LifeTypeOK, UnbornInv, ThreadsInv, MakingInv, LivesInv,
       FreedIsLeft, QueuesInv, LockInv, LockHeldInside, TreeInv, There
  <1> QED
    BY <1>1, <1>2

\* The tasks, their threads, locks and lists stay as LifeInv says.
THEOREM LifeInvHolds == LifeSpec => []LifeInv
  <1>1. LifeInit => LifeInv
    BY InitLife
  <1> QED
    BY <1>1, NextLife, PTL DEF LifeSpec

\* A list without repeats is as long as it has members.
LEMMA LengthIsSize ==
  ASSUME NEW S, NEW s \in Seq(S), NoRepeats(s)
  PROVE  IsFiniteSet(Members(s)) /\ Cardinality(Members(s)) = Len(s)
  <1>1. Len(s) \in Nat /\ DOMAIN s = 1..Len(s)
    OBVIOUS
  <1>2. IsFiniteSet(1..Len(s)) /\ Cardinality(1..Len(s)) = Len(s)
    BY <1>1, FS_Interval
  <1>3. s \in Bijection(1..Len(s), Members(s))
    BY <1>1 DEF Bijection, Injection, Surjection, IsInjective, Members, NoRepeats
  <1>4. ExistsBijection(1..Len(s), Members(s))
    BY <1>3 DEF ExistsBijection
  <1> QED
    BY <1>2, <1>4, FS_Bijection

\* Whatever user code does, the list of children a task keeps and the pointers
\* of its children agree, and fork_lock is held exactly inside.
THEOREM ListsAndLocks == LifeSpec => [](LifeTypeOK /\ ListedByParent /\ LockHeldInside)
  <1>1. LifeInv => LifeTypeOK /\ ListedByParent /\ LockHeldInside
    <2> SUFFICES ASSUME LifeInv PROVE LifeTypeOK /\ ListedByParent /\ LockHeldInside
      OBVIOUS
    <2>1. \A p \in Tasks : Len(children[p]) = Cardinality(Members(children[p]))
      BY LengthIsSize DEF LifeInv, TypesInv, TreeInv
    <2> QED
      BY <2>1 DEF LifeInv, TypesInv, TreeInv, LockInv, ListedByParent
  <1> QED
    BY <1>1, LifeInvHolds, PTL

\* The memory of a task is freed when its last thread has left its stack for
\* good, but for a thread that was parked and for task_vanish.
THEOREM FreedIsLeftHolds == LifeSpec => []FreedIsLeft
  <1>1. LifeInv => FreedIsLeft
    BY DEF LifeInv, LivesInv
  <1> QED
    BY <1>1, LifeInvHolds, PTL

\* Whatever user code does, the tree is sound: the two ends of its links agree,
\* and only a task whose parent ended with it on its list loses its parent.
THEOREM TreeSoundHolds == LifeSpec => []TreeSound
  <1>1. LifeInit => LifeInv /\ FamilyInv
    BY InitLife
  <1>2. LifeInv /\ FamilyInv /\ [LifeNext]_lifevars => (LifeInv /\ FamilyInv)'
    <2>1. ASSUME LifeInv, FamilyInv, LifeNext PROVE FamilyInv'
      BY <2>1, StepFamily DEF LifeNext, LifeStep
    <2>2. ASSUME LifeInv, FamilyInv, UNCHANGED lifevars PROVE FamilyInv'
      BY <2>2 DEF lifevars, FamilyInv, ParentPointersValid, There, Members
    <2> QED
      BY <2>1, <2>2, NextLife
  <1>3. LifeInv /\ FamilyInv => ParentPointersValid
    BY DEF FamilyInv
  <1>4. LifeSpec => [](LifeTypeOK /\ ListedByParent /\ LockHeldInside)
    BY ListsAndLocks
  <1>5. LifeTypeOK /\ ListedByParent /\ LockHeldInside /\ ParentPointersValid => TreeSound
    BY DEF TreeSound
  <1> QED
    BY <1>1, <1>2, <1>3, <1>4, <1>5, PTL DEF LifeSpec

\* The signals of ending children and the waits of their parents come out even,
\* whatever user code does and whoever the timer preempts.
THEOREM WaitsExactHolds == LifeSpec => []WaitsExact
  <1>1. LifeInit => LifeInv /\ WaitsInv
    BY InitLife
  <1>2. LifeInv /\ WaitsInv /\ [LifeNext]_lifevars => (LifeInv /\ WaitsInv)'
    <2>1. ASSUME LifeInv, WaitsInv, LifeNext PROVE WaitsInv'
      BY <2>1, StepWaits DEF LifeNext, LifeStep
    <2>2. ASSUME LifeInv, WaitsInv, UNCHANGED lifevars PROVE WaitsInv'
      <3>1. /\ UNCHANGED <<count, waiters, panicked>>
            /\ \A p \in Tasks : /\ There(p)' = There(p) /\ Unsound(p)' = Unsound(p)
                              /\ Signalled(p)' = Signalled(p) /\ Woken(p)' = Woken(p)
        BY <2>2 DEF lifevars, There, Unsound, Signalled, Zombies, Woken, Members
      <3> QED
        BY <2>2, <3>1 DEF WaitsInv
    <2> QED
      BY <2>1, <2>2, NextLife
  <1>3. LifeInv /\ WaitsInv => WaitsExact
    <2> SUFFICES ASSUME LifeInv, WaitsInv PROVE WaitsExact
      OBVIOUS
    <2>1. VulturesExact
      BY DEF WaitsInv, VulturesExact
    <2>2. WokenFindsZombie
      BY FindsZombie DEF WaitsInv, WokenFindsZombie
    <2> QED
      BY <2>1, <2>2 DEF WaitsExact
  <1> QED
    BY <1>1, <1>2, <1>3, PTL DEF LifeSpec
=============================================================================
