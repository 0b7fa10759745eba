--------------------------- MODULE CondVarProofs ---------------------------
(***************************************************************************)
(* Theorems about CondVar, for any number of threads, mutexes and          *)
(* condition variables.                                                    *)
(***************************************************************************)
EXTENDS CondVarProps, SequenceTheorems, TLAPS

\* The labels at which each argument of a call is in use.
UsesCv == {"cw_world", "cw_wcb", "cw_enq", "cw_unlock_mp", "cw_unlock_world",
           "cw_stop", "cw_resume", "cw_relock", "sg_lock", "sg_pop", "sg_cas",
           "sg_unlock", "bc_lock", "bc_detach", "bc_unlock"}
UsesMp == {"cw_world", "cw_wcb", "cw_enq", "cw_unlock_mp", "cw_unlock_world",
           "cw_stop", "cw_resume", "cw_relock"}
UsesTgt == {"sg_cas", "bc_cas"}

\* Within a call its arguments are there.
ArgsOK ==
  \A t \in Threads :
    /\ pc[t] \in UsesCv => cv[t] \in Conds
    /\ pc[t] \in UsesMp => mp[t] \in Mutexes
    /\ pc[t] \in UsesTgt <=> tgt[t] \in Threads

TypeInv == TypeOK /\ ArgsOK

\* The task starts with the state in shape and no call in progress.
LEMMA InitTypeInv == CVInit => TypeInv
  BY CondVarAssumption
  DEF CVInit, TypeInv, TypeOK, ArgsOK, PCs, ThreadStates, UsesCv, UsesMp, UsesTgt

\* Every step of the library and of its callers keeps the state in shape
\* and the arguments of the call in progress in place.
LEMMA StepTypeInv ==
  ASSUME TypeInv, NEW t \in Threads, LibStep(t) \/ ClientStep(t)
  PROVE  TypeInv'
  <1> USE CondVarAssumption
      DEF TypeInv, TypeOK, ArgsOK, PCs, ThreadStates, UsesCv, UsesMp, UsesTgt,
          At, Goto, MayCall, Acquire, Release, Cas2i, Running, Stopped, Invalid,
          Locks
  <1>1. CASE \E m \in Mutexes : Lock(t, m)
    BY <1>1 DEF Lock
  <1>2. CASE Unlock(t)
    BY <1>2 DEF Unlock
  <1>3. CASE Complete(t)
    BY <1>3 DEF Complete
  <1>4. CASE \E c \in Conds : CondWait(t, c)
    <2>1. PICK c \in Conds : CondWait(t, c)
      BY <1>4
    <2>2. TypeOK'
      BY <2>1 DEF CondWait
    <2>3. pc' = [pc EXCEPT ![t] = "cw_wcb"] \/ pc' = [pc EXCEPT ![t] = "cw_world"]
      BY <2>1 DEF CondWait
    <2>4. ArgsOK'
      BY <2>1, <2>3 DEF CondWait
    <2> QED
      BY <2>2, <2>4
  <1>5. CASE \E c \in Conds : CondSignal(t, c)
    BY <1>5 DEF CondSignal
  <1>6. CASE \E c \in Conds : CondBroadcast(t, c)
    BY <1>6 DEF CondBroadcast
  <1>7. CASE CwWorld(t)
    BY <1>7 DEF CwWorld
  <1>8. CASE CwWcb(t)
    BY <1>8 DEF CwWcb
  <1>9. CASE CwEnq(t)
    <2>1. cv[t] \in Conds /\ Append(waiters[cv[t]], t) \in Seq(Threads)
      BY <1>9 DEF CwEnq
    <2>2. waiters' \in [Conds -> Seq(Threads)]
      BY <1>9, <2>1 DEF CwEnq
    <2> QED
      BY <1>9, <2>2 DEF CwEnq
  <1>10. CASE CwUnlockMp(t)
    <2>2. pc' = [pc EXCEPT ![t] = "cw_stop"] \/ pc' = [pc EXCEPT ![t] = "cw_unlock_world"]
      BY <1>10 DEF CwUnlockMp
    <2>1. TypeOK'
      <3>1. locked' \in [Mutexes \cup Conds -> BOOLEAN]
        BY <1>10 DEF CwUnlockMp
      <3> QED
        BY <1>10, <2>2, <3>1 DEF CwUnlockMp
    <2>3. ArgsOK'
      BY <1>10, <2>2 DEF CwUnlockMp
    <2> QED
      BY <2>1, <2>3
  <1>11. CASE CwUnlockWorld(t)
    BY <1>11 DEF CwUnlockWorld
  <1>12. CASE CwStop(t)
    BY <1>12 DEF CwStop
  <1>13. CASE CwResume(t)
    BY <1>13 DEF CwResume
  <1>14. CASE CwRelock(t)
    BY <1>14 DEF CwRelock
  <1>15. CASE SgLock(t)
    BY <1>15 DEF SgLock
  <1>16. CASE SgPop(t)
    BY <1>16 DEF SgPop
  <1>17. CASE SgNone(t)
    BY <1>17 DEF SgNone
  <1>18. CASE SgCas(t)
    BY <1>18 DEF SgCas
  <1>19. CASE SgUnlock(t)
    BY <1>19 DEF SgUnlock
  <1>20. CASE BcLock(t)
    BY <1>20 DEF BcLock
  <1>21. CASE BcDetach(t)
    <2>1. waiters[cv[t]] \in Seq(Threads)
      BY <1>21 DEF BcDetach
    <2>2. waiters' \in [Conds -> Seq(Threads)] /\ batch' \in [Threads -> Seq(Threads)]
      BY <1>21, <2>1 DEF BcDetach
    <2> QED
      BY <1>21, <2>2 DEF BcDetach
  <1>22. CASE BcUnlock(t)
    BY <1>22 DEF BcUnlock
  <1>23. CASE BcPop(t)
    BY <1>23 DEF BcPop
  <1>24. CASE BcCas(t)
    BY <1>24 DEF BcCas
  <1>25. CASE BcDone(t)
    BY <1>25 DEF BcDone
  <1> QED
    BY <1>1, <1>2, <1>3, <1>4, <1>5, <1>6, <1>7, <1>8, <1>9, <1>10, <1>11,
       <1>12, <1>13, <1>14, <1>15, <1>16, <1>17, <1>18, <1>19, <1>20, <1>21,
       <1>22, <1>23, <1>24, <1>25
    DEF LibStep, ClientStep

\* The state keeps its shape.
THEOREM TypeCorrect == CVSpec => []TypeOK
  <1>1. CVInit => TypeInv
    BY InitTypeInv
  <1>2. TypeInv /\ [CVNext]_cvvars => TypeInv'
    <2> SUFFICES ASSUME TypeInv, [CVNext]_cvvars PROVE TypeInv'
      OBVIOUS
    <2>1. CASE CVNext
      BY <2>1, StepTypeInv DEF CVNext
    <2>2. CASE UNCHANGED cvvars
      BY <2>2 DEF cvvars, TypeInv, TypeOK, ArgsOK
    <2> QED
      BY <2>1, <2>2
  <1>3. TypeInv => TypeOK
    BY DEF TypeInv
  <1> QED
    BY <1>1, <1>2, <1>3, PTL DEF CVSpec

----------------------------------------------------------------------------
(* Mutual exclusion.  Each step of a thread takes one lock, gives one up or  *)
(* leaves what the thread holds alone, and never changes what others hold.   *)

\* cond_wait takes the world lock only for a caller that has another mutex.
WorldOnce ==
  \A t \in Threads : pc[t] \in {"cw_world", "cw_unlock_world"} => mp[t] # World

LockInv == MutualExclusion /\ LockWordExact /\ WorldOnce

Takes(t, l) ==
  /\ ~ locked[l]
  /\ locked' = [locked EXCEPT ![l] = TRUE]
  /\ \A k \in Locks : Holds(t, k)' <=> Holds(t, k) \/ k = l

GivesUp(t, l) ==
  /\ Holds(t, l)
  /\ locked' = [locked EXCEPT ![l] = FALSE]
  /\ \A k \in Locks : Holds(t, k)' <=> Holds(t, k) /\ k # l

KeepsLocks(t) ==
  /\ locked' = locked
  /\ \A k \in Locks : Holds(t, k)' <=> Holds(t, k)

\* A thread's step moves no other thread and changes nothing others hold.
LEMMA StepOthersKeep ==
  ASSUME TypeInv, NEW t \in Threads, LibStep(t) \/ ClientStep(t),
         NEW u \in Threads, u # t
  PROVE  /\ pc'[u] = pc[u] /\ mp'[u] = mp[u] /\ cv'[u] = cv[u]
         /\ batch'[u] = batch[u] /\ tgt'[u] = tgt[u]
         /\ \A k \in Locks : Holds(u, k)' <=> Holds(u, k)
  <1>1. /\ pc'[u] = pc[u] /\ mp'[u] = mp[u] /\ cv'[u] = cv[u]
        /\ batch'[u] = batch[u] /\ tgt'[u] = tgt[u]
    BY DEF TypeInv, TypeOK, LibStep, ClientStep, Goto, Lock, Unlock, Complete,
       CondWait, CondSignal, CondBroadcast, CwWorld, CwWcb, CwEnq, CwUnlockMp,
       CwUnlockWorld, CwStop, CwResume, CwRelock, SgLock, SgPop, SgNone, SgCas,
       SgUnlock, BcLock, BcDetach, BcUnlock, BcPop, BcCas, BcDone
  <1> QED
    BY <1>1 DEF Holds

\* Each step takes one lock that was clear, gives up one the thread holds, or
\* leaves the lock words and what the thread holds alone.
LEMMA StepLocks ==
  ASSUME TypeInv, WorldOnce, NEW t \in Threads, LibStep(t) \/ ClientStep(t)
  PROVE  (\E l \in Locks : Takes(t, l) \/ GivesUp(t, l)) \/ KeepsLocks(t)
  <1> USE CondVarAssumption
      DEF TypeInv, TypeOK, ArgsOK, WorldOnce, UsesCv, UsesMp, Locks, Holds,
          InWcb, InWorld, WithoutMp, At, Goto, MayCall, Acquire, Release
  <1>1. CASE \E m \in Mutexes : Lock(t, m)
    <2>1. PICK m \in Mutexes : Lock(t, m)
      BY <1>1
    <2>2. \A k \in Locks : Holds(t, k)' <=> Holds(t, k) \/ k = m
      BY <2>1 DEF Lock
    <2>3. Takes(t, m)
      BY <2>1, <2>2 DEF Lock, Takes
    <2> QED
      BY <2>3
  <1>2. CASE Unlock(t)
    <2>1. PICK l \in Locks : l = mp[t]
      BY <1>2 DEF Unlock
    <2>2. \A k \in Locks : Holds(t, k)' <=> Holds(t, k) /\ k # l
      BY <1>2, <2>1 DEF Unlock
    <2>3. GivesUp(t, l)
      BY <1>2, <2>1, <2>2 DEF Unlock, GivesUp
    <2> QED
      BY <2>3
  <1>3. CASE Complete(t)
    BY <1>3 DEF Complete, KeepsLocks
  <1>4. CASE \E c \in Conds : CondWait(t, c)
    BY <1>4 DEF CondWait, KeepsLocks
  <1>5. CASE \E c \in Conds : CondSignal(t, c)
    BY <1>5 DEF CondSignal, KeepsLocks
  <1>6. CASE \E c \in Conds : CondBroadcast(t, c)
    BY <1>6 DEF CondBroadcast, KeepsLocks
  <1>7. CASE CwWorld(t)
    <2>1. PICK l \in Locks : l = World
      BY <1>7 DEF CwWorld
    <2>2. \A k \in Locks : Holds(t, k)' <=> Holds(t, k) \/ k = l
      BY <1>7, <2>1 DEF CwWorld
    <2>3. Takes(t, l)
      BY <1>7, <2>1, <2>2 DEF CwWorld, Takes
    <2> QED
      BY <2>3
  <1>8. CASE CwWcb(t)
    <2>1. PICK l \in Locks : l = cv[t]
      BY <1>8 DEF CwWcb
    <2>2. \A k \in Locks : Holds(t, k)' <=> Holds(t, k) \/ k = l
      BY <1>8, <2>1 DEF CwWcb
    <2>3. Takes(t, l)
      BY <1>8, <2>1, <2>2 DEF CwWcb, Takes
    <2> QED
      BY <2>3
  <1>9. CASE CwEnq(t)
    BY <1>9 DEF CwEnq, KeepsLocks
  <1>10. CASE CwUnlockMp(t)
    <2>1. PICK l \in Locks : l = mp[t]
      BY <1>10 DEF CwUnlockMp
    <2>2. \A k \in Locks : Holds(t, k)' <=> Holds(t, k) /\ k # l
      BY <1>10, <2>1 DEF CwUnlockMp
    <2>3. GivesUp(t, l)
      BY <1>10, <2>1, <2>2 DEF CwUnlockMp, GivesUp
    <2> QED
      BY <2>3
  <1>11. CASE CwUnlockWorld(t)
    <2>1. PICK l \in Locks : l = World
      BY <1>11 DEF CwUnlockWorld
    <2>2. \A k \in Locks : Holds(t, k)' <=> Holds(t, k) /\ k # l
      BY <1>11, <2>1 DEF CwUnlockWorld
    <2>3. GivesUp(t, l)
      BY <1>11, <2>1, <2>2 DEF CwUnlockWorld, GivesUp
    <2> QED
      BY <2>3
  <1>12. CASE CwStop(t)
    <2>1. PICK l \in Locks : l = cv[t]
      BY <1>12 DEF CwStop
    <2>2. \A k \in Locks : Holds(t, k)' <=> Holds(t, k) /\ k # l
      BY <1>12, <2>1 DEF CwStop
    <2>5. runFlag[t] = 0
      BY <1>12 DEF CwStop, Running, Stopped
    <2>6. locked' = [locked EXCEPT ![l] = FALSE]
      BY <1>12, <2>1, <2>5 DEF CwStop
    <2>3. GivesUp(t, l)
      BY <1>12, <2>1, <2>2, <2>6 DEF CwStop, GivesUp
    <2> QED
      BY <2>3
  <1>13. CASE CwResume(t)
    BY <1>13 DEF CwResume, KeepsLocks
  <1>14. CASE CwRelock(t)
    <2>1. PICK l \in Locks : l = mp[t]
      BY <1>14 DEF CwRelock
    <2>2. \A k \in Locks : Holds(t, k)' <=> Holds(t, k) \/ k = l
      BY <1>14, <2>1 DEF CwRelock
    <2>3. Takes(t, l)
      BY <1>14, <2>1, <2>2 DEF CwRelock, Takes
    <2> QED
      BY <2>3
  <1>15. CASE SgLock(t)
    <2>1. PICK l \in Locks : l = cv[t]
      BY <1>15 DEF SgLock
    <2>2. \A k \in Locks : Holds(t, k)' <=> Holds(t, k) \/ k = l
      BY <1>15, <2>1 DEF SgLock
    <2>3. Takes(t, l)
      BY <1>15, <2>1, <2>2 DEF SgLock, Takes
    <2> QED
      BY <2>3
  <1>16. CASE SgPop(t)
    BY <1>16 DEF SgPop, KeepsLocks
  <1>17. CASE SgNone(t)
    BY <1>17 DEF SgNone, KeepsLocks
  <1>18. CASE SgCas(t)
    BY <1>18 DEF SgCas, KeepsLocks
  <1>19. CASE SgUnlock(t)
    <2>1. PICK l \in Locks : l = cv[t]
      BY <1>19 DEF SgUnlock
    <2>2. \A k \in Locks : Holds(t, k)' <=> Holds(t, k) /\ k # l
      BY <1>19, <2>1 DEF SgUnlock
    <2>3. GivesUp(t, l)
      BY <1>19, <2>1, <2>2 DEF SgUnlock, GivesUp
    <2> QED
      BY <2>3
  <1>20. CASE BcLock(t)
    <2>1. PICK l \in Locks : l = cv[t]
      BY <1>20 DEF BcLock
    <2>2. \A k \in Locks : Holds(t, k)' <=> Holds(t, k) \/ k = l
      BY <1>20, <2>1 DEF BcLock
    <2>3. Takes(t, l)
      BY <1>20, <2>1, <2>2 DEF BcLock, Takes
    <2> QED
      BY <2>3
  <1>21. CASE BcDetach(t)
    BY <1>21 DEF BcDetach, KeepsLocks
  <1>22. CASE BcUnlock(t)
    <2>1. PICK l \in Locks : l = cv[t]
      BY <1>22 DEF BcUnlock
    <2>2. \A k \in Locks : Holds(t, k)' <=> Holds(t, k) /\ k # l
      BY <1>22, <2>1 DEF BcUnlock
    <2>3. GivesUp(t, l)
      BY <1>22, <2>1, <2>2 DEF BcUnlock, GivesUp
    <2> QED
      BY <2>3
  <1>23. CASE BcPop(t)
    BY <1>23 DEF BcPop, KeepsLocks
  <1>24. CASE BcCas(t)
    BY <1>24 DEF BcCas, KeepsLocks
  <1>25. CASE BcDone(t)
    BY <1>25 DEF BcDone, KeepsLocks
  <1> QED
    BY <1>1, <1>2, <1>3, <1>4, <1>5, <1>6, <1>7, <1>8, <1>9, <1>10, <1>11,
       <1>12, <1>13, <1>14, <1>15, <1>16, <1>17, <1>18, <1>19, <1>20, <1>21,
       <1>22, <1>23, <1>24, <1>25
    DEF LibStep, ClientStep

\* No step makes cond_wait take the world lock its caller already holds.
LEMMA StepWorldOnce ==
  ASSUME TypeInv, WorldOnce, NEW t \in Threads, LibStep(t) \/ ClientStep(t)
  PROVE  WorldOnce'
  <1>1. \A u \in Threads : u # t => pc'[u] = pc[u] /\ mp'[u] = mp[u]
    BY StepOthersKeep
  <1>2. pc'[t] \in {"cw_world", "cw_unlock_world"} => mp'[t] # World
    BY DEF WorldOnce, TypeInv, TypeOK, PCs, LibStep, ClientStep, At, MayCall, Goto,
       Lock, Unlock, Complete,
       CondWait, CondSignal, CondBroadcast, CwWorld, CwWcb, CwEnq, CwUnlockMp,
       CwUnlockWorld, CwStop, CwResume, CwRelock, SgLock, SgPop, SgNone, SgCas,
       SgUnlock, BcLock, BcDetach, BcUnlock, BcPop, BcCas, BcDone
  <1> QED
    BY <1>1, <1>2 DEF WorldOnce

\* Every step keeps critical sections exclusive and lock words exact.
LEMMA StepLockInv ==
  ASSUME TypeInv, LockInv, NEW t \in Threads, LibStep(t) \/ ClientStep(t)
  PROVE  LockInv'
  <1>1. \A u \in Threads : u # t => \A k \in Locks : Holds(u, k)' <=> Holds(u, k)
    BY StepOthersKeep
  <1>2. (\E l \in Locks : Takes(t, l) \/ GivesUp(t, l)) \/ KeepsLocks(t)
    BY StepLocks DEF LockInv
  <1>3. WorldOnce'
    BY StepWorldOnce DEF LockInv
  <1>4. locked \in [Locks -> BOOLEAN]
    BY DEF TypeInv, TypeOK
  <1>5. ASSUME NEW l \in Locks, Takes(t, l) PROVE LockInv'
    <2>1. /\ ~ locked[l]
          /\ locked' = [locked EXCEPT ![l] = TRUE]
          /\ \A k \in Locks : Holds(t, k)' <=> Holds(t, k) \/ k = l
      BY <1>5 DEF Takes
    <2>2. \A u \in Threads : ~ Holds(u, l)
      BY <2>1 DEF LockInv, LockWordExact
    <2>3. MutualExclusion'
      BY <1>1, <2>1, <2>2 DEF LockInv, MutualExclusion
    <2>4. LockWordExact'
      BY <1>1, <1>4, <2>1 DEF LockInv, LockWordExact
    <2> QED
      BY <1>3, <2>3, <2>4 DEF LockInv
  <1>6. ASSUME NEW l \in Locks, GivesUp(t, l) PROVE LockInv'
    <2>1. /\ Holds(t, l)
          /\ locked' = [locked EXCEPT ![l] = FALSE]
          /\ \A k \in Locks : Holds(t, k)' <=> Holds(t, k) /\ k # l
      BY <1>6 DEF GivesUp
    <2>2. \A u \in Threads : u # t => ~ Holds(u, l)
      BY <2>1 DEF LockInv, MutualExclusion
    <2>3. MutualExclusion'
      BY <1>1, <2>1 DEF LockInv, MutualExclusion
    <2>4. LockWordExact'
      BY <1>1, <1>4, <2>1, <2>2 DEF LockInv, LockWordExact
    <2> QED
      BY <1>3, <2>3, <2>4 DEF LockInv
  <1>7. CASE KeepsLocks(t)
    BY <1>1, <1>3, <1>7 DEF KeepsLocks, LockInv, MutualExclusion, LockWordExact
  <1> QED
    BY <1>2, <1>5, <1>6, <1>7

\* Nobody is inside anything when the task starts.
LEMMA InitLockInv == CVInit => LockInv
  <1> SUFFICES ASSUME CVInit PROVE LockInv
    OBVIOUS
  <1>1. \A t \in Threads, l \in Locks : ~ Holds(t, l)
    BY CondVarAssumption DEF CVInit, Holds, Locks, InWcb, InWorld, WithoutMp
  <1>2. \A l \in Locks : ~ locked[l]
    BY DEF CVInit
  <1>3. WorldOnce
    BY DEF CVInit, WorldOnce
  <1> QED
    BY <1>1, <1>2, <1>3 DEF LockInv, MutualExclusion, LockWordExact

----------------------------------------------------------------------------
(* Lists of waiters.                                                         *)

\* An empty list has no members.
LEMMA EmptyList == Members(<<>>) = {} /\ NoRepeats(<<>>)
  BY DEF Members, NoRepeats

\* dlist_add_tail adds one member, and repeats none if it was not there.
LEMMA AppendList ==
  ASSUME NEW S, NEW s \in Seq(S), NEW e \in S
  PROVE  /\ Members(Append(s, e)) = Members(s) \cup {e}
         /\ NoRepeats(s) /\ e \notin Members(s) => NoRepeats(Append(s, e))
  <1>1. /\ DOMAIN s = 1..Len(s) /\ Len(s) \in Nat
        /\ DOMAIN Append(s, e) = 1..(Len(s) + 1)
        /\ \A i \in 1..Len(s) : Append(s, e)[i] = s[i]
        /\ Append(s, e)[Len(s) + 1] = e
    OBVIOUS
  <1>2. \A i \in 1..(Len(s) + 1) : i \in 1..Len(s) \/ i = Len(s) + 1
    BY <1>1
  <1>3. 1..Len(s) \subseteq 1..(Len(s) + 1) /\ Len(s) + 1 \in 1..(Len(s) + 1)
    BY <1>1
  <1> HIDE DEF Members
  <1>4. \A x : x \in Members(Append(s, e)) <=> x \in Members(s) \cup {e}
    BY <1>1, <1>2, <1>3 DEF Members
  <1>5. ASSUME NoRepeats(s), e \notin Members(s) PROVE NoRepeats(Append(s, e))
    BY <1>1, <1>2, <1>5 DEF Members, NoRepeats
  <1> QED
    BY <1>4, <1>5

\* dlist_pop_head takes one member off a list without repeats.
LEMMA TailList ==
  ASSUME NEW S, NEW s \in Seq(S), s # <<>>, NoRepeats(s)
  PROVE  /\ Head(s) \in Members(s) /\ Head(s) \in S
         /\ Members(Tail(s)) = Members(s) \ {Head(s)}
         /\ NoRepeats(Tail(s))
  <1>1. /\ DOMAIN s = 1..Len(s) /\ Len(s) \in Nat /\ Len(s) > 0
        /\ Head(s) = s[1] /\ 1 \in DOMAIN s
        /\ DOMAIN Tail(s) = 1..(Len(s) - 1)
        /\ \A i \in 1..(Len(s) - 1) : Tail(s)[i] = s[i + 1]
    OBVIOUS
  <1>2. \A i \in 1..Len(s) : i # 1 => i - 1 \in 1..(Len(s) - 1) /\ (i - 1) + 1 = i
    BY <1>1
  <1>3. \A i \in 1..(Len(s) - 1) : i + 1 \in 1..Len(s) /\ i + 1 # 1
    BY <1>1
  <1>4. \A x : x \in Members(Tail(s)) <=> x \in Members(s) \ {Head(s)}
    <2>1. ASSUME NEW x, x \in Members(Tail(s)) PROVE x \in Members(s) \ {Head(s)}
      <3>1. PICK i \in 1..(Len(s) - 1) : x = Tail(s)[i]
        BY <1>1, <2>1 DEF Members
      <3>2. x = s[i + 1] /\ i + 1 \in DOMAIN s /\ i + 1 # 1
        BY <1>1, <1>3, <3>1
      <3> QED
        BY <1>1, <3>2 DEF Members, NoRepeats
    <2>2. ASSUME NEW x, x \in Members(s) \ {Head(s)} PROVE x \in Members(Tail(s))
      <3>1. PICK i \in 1..Len(s) : x = s[i] /\ i # 1
        BY <1>1, <2>2 DEF Members
      <3>2. x = Tail(s)[i - 1] /\ i - 1 \in DOMAIN Tail(s)
        BY <1>1, <1>2, <3>1
      <3> QED
        BY <3>2 DEF Members
    <2> QED
      BY <2>1, <2>2
  <1>5. NoRepeats(Tail(s))
    <2> SUFFICES ASSUME NEW i \in 1..(Len(s) - 1), NEW j \in 1..(Len(s) - 1),
                        Tail(s)[i] = Tail(s)[j]
                 PROVE  i = j
      BY <1>1 DEF NoRepeats
    <2>1. i + 1 = j + 1
      BY <1>1, <1>3 DEF NoRepeats
    <2> QED
      BY <2>1
  <1>6. Head(s) \in Members(s) /\ Head(s) \in S
    BY <1>1 DEF Members
  <1> QED
    BY <1>4, <1>5, <1>6

\* dlist_pop_tail takes one member off a list without repeats.
LEMMA FrontList ==
  ASSUME NEW S, NEW s \in Seq(S), s # <<>>, NoRepeats(s)
  PROVE  /\ s[Len(s)] \in Members(s) /\ s[Len(s)] \in S
         /\ SubSeq(s, 1, Len(s) - 1) \in Seq(S)
         /\ Members(SubSeq(s, 1, Len(s) - 1)) = Members(s) \ {s[Len(s)]}
         /\ NoRepeats(SubSeq(s, 1, Len(s) - 1))
  <1> DEFINE f == SubSeq(s, 1, Len(s) - 1)
  <1>1. /\ DOMAIN s = 1..Len(s) /\ Len(s) \in Nat /\ Len(s) > 0
        /\ Len(s) \in DOMAIN s
        /\ f \in Seq(S) /\ DOMAIN f = 1..(Len(s) - 1)
        /\ \A i \in 1..(Len(s) - 1) : f[i] = s[i]
    OBVIOUS
  <1> HIDE DEF f
  <1>2. \A i \in 1..Len(s) : i # Len(s) <=> i \in 1..(Len(s) - 1)
    <2>1. \A n \in Nat : \A i \in 1..n : i # n <=> i \in 1..(n - 1)
      OBVIOUS
    <2> QED
      BY <1>1, <2>1
  <1>3. 1..(Len(s) - 1) \subseteq 1..Len(s)
    BY <1>1
  <1>4. \A x : x \in Members(f) <=> x \in Members(s) \ {s[Len(s)]}
    BY <1>1, <1>2, <1>3 DEF Members, NoRepeats
  <1>5. NoRepeats(f)
    BY <1>1, <1>3 DEF NoRepeats
  <1>6. s[Len(s)] \in Members(s) /\ s[Len(s)] \in S
    BY <1>1 DEF Members
  <1> QED
    BY <1>1, <1>4, <1>5, <1>6 DEF f

----------------------------------------------------------------------------
(* Waiting and waking.                                                       *)

Asleep(t) == pc[t] = "cw_resume" /\ runFlag[t] = Stopped

\* On the list already, not yet stopped.
FallingAsleep == {"cw_unlock_mp", "cw_unlock_world", "cw_stop"}

\* A thread on a list is on its way to sleep, or asleep.
ListedOK ==
  \A c \in Conds : \A t \in Members(waiters[c]) :
    cv[t] = c /\ (pc[t] \in FallingAsleep \/ Asleep(t))

\* A thread in a waker's hands is asleep.
InHandOK == \A w \in Threads : \A t \in InHand(w) : Asleep(t)

\* A stopped thread is asleep in cond_wait, and somebody has it.
StoppedOK ==
  \A t \in Threads : runFlag[t] = Stopped =>
    /\ Asleep(t)
    /\ \/ \E c \in Conds : t \in Members(waiters[c])
       \/ \E w \in Threads : t \in InHand(w)

\* A thread on its way to sleep is on the list.
FallingOK ==
  \A t \in Threads : pc[t] \in FallingAsleep => t \in Members(waiters[cv[t]])

\* Only a broadcast in progress has waiters detached.
BatchOK ==
  \A w \in Threads : batch[w] # <<>> => pc[w] \in {"bc_unlock", "bc_next", "bc_cas"}

SleepInv ==
  WaitsInOnePlace /\ ListedOK /\ InHandOK /\ StoppedOK /\ FallingOK /\ BatchOK

\* What the thread control block says of a thread.
StateInv ==
  \A t \in Threads :
    /\ state[t] = "WAITING" => pc[t] \in FallingAsleep \cup {"cw_resume"}
    /\ state[t] = "COMPLETED" => pc[t] \in {"run", "sg_lock", "sg_pop", "sg_cas", "sg_unlock"}

\* Steps that touch no list and neither start nor stop anybody.
Quiet(t) ==
  /\ waiters' = waiters /\ batch' = batch /\ tgt' = tgt /\ runFlag' = runFlag
  /\ runFlag[t] = Running
  /\ pc[t] \notin FallingAsleep /\ pc'[t] \notin FallingAsleep \cup {"cw_resume"}
  /\ batch[t] # <<>> => pc'[t] \in {"bc_unlock", "bc_next", "bc_cas"}

\* A waker has its private list in hand, and the thread it is starting.
LEMMA HandsFacts ==
  ASSUME TypeInv, NEW w \in Threads
  PROVE  /\ Members(batch[w]) \subseteq Threads /\ InHand(w) \subseteq Threads
         /\ pc[w] \notin UsesTgt => tgt[w] = None /\ InHand(w) = Members(batch[w])
         /\ pc[w] \in UsesTgt => /\ tgt[w] \in Threads
                                 /\ InHand(w) = Members(batch[w]) \cup {tgt[w]}
  BY CondVarAssumption DEF TypeInv, TypeOK, ArgsOK, InHand, Members

\* Every change to a list is made by a thread that holds the control block.
LEMMA ListChange ==
  ASSUME TypeInv, NEW t \in Threads, LibStep(t) \/ ClientStep(t),
         NEW c \in Conds, waiters'[c] # waiters[c]
  PROVE  c = cv[t] /\ pc[t] \in {"cw_enq", "sg_pop", "bc_detach"}
  BY DEF TypeInv, TypeOK, LibStep, ClientStep, At, Lock, Unlock, Complete,
     CondWait, CondSignal, CondBroadcast, CwWorld, CwWcb, CwEnq, CwUnlockMp,
     CwUnlockWorld, CwStop, CwResume, CwRelock, SgLock, SgPop, SgNone, SgCas,
     SgUnlock, BcLock, BcDetach, BcUnlock, BcPop, BcCas, BcDone

\* A quiet step disturbs nobody's waiting.
LEMMA QuietSleepInv ==
  ASSUME TypeInv, SleepInv, NEW t \in Threads, LibStep(t) \/ ClientStep(t), Quiet(t)
  PROVE  SleepInv'
  <1>1. \A u \in Threads : u # t => pc'[u] = pc[u] /\ cv'[u] = cv[u]
    BY StepOthersKeep
  <1>2. \A w \in Threads : InHand(w)' = InHand(w)
    BY DEF Quiet, InHand
  <1>3. ~ Asleep(t) /\ \A u \in Threads : u # t => (Asleep(u)' <=> Asleep(u))
    BY <1>1 DEF Quiet, Asleep, Running, Stopped
  <1>4. /\ \A c \in Conds : t \notin Members(waiters[c])
        /\ \A w \in Threads : t \notin InHand(w)
    BY <1>3 DEF SleepInv, ListedOK, InHandOK, Quiet
  <1>5. \A c \in Conds : Members(waiters[c]) \subseteq Threads
    BY DEF TypeInv, TypeOK, Members
  <1>6. \A w \in Threads : InHand(w) \subseteq Threads
    BY HandsFacts
  <1>7. WaitsInOnePlace'
    BY <1>2 DEF SleepInv, WaitsInOnePlace, Quiet
  <1>8. ListedOK'
    BY <1>1, <1>3, <1>4, <1>5 DEF SleepInv, ListedOK, Quiet
  <1>9. InHandOK'
    BY <1>2, <1>3, <1>4, <1>6 DEF SleepInv, InHandOK
  <1>10. StoppedOK'
    BY <1>2, <1>3 DEF SleepInv, StoppedOK, Quiet, Running, Stopped
  <1>11. FallingOK'
    BY <1>1 DEF SleepInv, FallingOK, Quiet
  <1>12. BatchOK'
    BY <1>1 DEF SleepInv, BatchOK, Quiet
  <1> QED
    BY <1>7, <1>8, <1>9, <1>10, <1>11, <1>12 DEF SleepInv

\* Holding the control block of c, a thread sees only sleepers on its list.
LEMMA ListedAsleep ==
  ASSUME TypeInv, LockInv, SleepInv, NEW t \in Threads,
         pc[t] \in InWcb, pc[t] \notin FallingAsleep, ~ Asleep(t)
  PROVE  \A u \in Members(waiters[cv[t]]) : Asleep(u)
  <1> SUFFICES ASSUME NEW u \in Members(waiters[cv[t]]) PROVE Asleep(u)
    OBVIOUS
  <1>1. cv[t] \in Conds
    BY DEF TypeInv, ArgsOK, InWcb, UsesCv
  <1>2. u \in Threads /\ cv[u] = cv[t] /\ (pc[u] \in FallingAsleep \/ Asleep(u))
    BY <1>1 DEF SleepInv, ListedOK, TypeInv, TypeOK, Members
  <1>3. CASE pc[u] \in FallingAsleep
    <2>1. Holds(u, cv[t]) /\ Holds(t, cv[t])
      BY <1>2, <1>3 DEF Holds, InWcb, FallingAsleep
    <2>2. u = t
      BY <1>1, <1>2, <2>1 DEF LockInv, MutualExclusion, Locks
    <2> QED
      BY <1>3, <2>2
  <1> QED
    BY <1>2, <1>3

\* Queueing itself, a thread is on one list, and on its way to sleep.
LEMMA EnqSleepInv ==
  ASSUME TypeInv, SleepInv, NEW t \in Threads, CwEnq(t)
  PROVE  SleepInv'
  <1> DEFINE c == cv[t]
  <1>1. c \in Conds /\ runFlag[t] = Running /\ pc[t] = "cw_enq"
    BY DEF CwEnq, At, TypeInv, TypeOK, ArgsOK, UsesCv, Running, Stopped
  <1>2. /\ waiters' = [waiters EXCEPT ![c] = Append(@, t)]
        /\ pc' = [pc EXCEPT ![t] = "cw_unlock_mp"]
        /\ runFlag' = runFlag /\ cv' = cv /\ tgt' = tgt /\ batch' = batch
    BY DEF CwEnq, Goto
  <1>3. pc \in [Threads -> PCs] /\ waiters \in [Conds -> Seq(Threads)]
    BY DEF TypeInv, TypeOK
  <1>4. ~ Asleep(t) /\ pc[t] \notin FallingAsleep
    BY <1>1 DEF Asleep, FallingAsleep
  <1>5. /\ \A d \in Conds : t \notin Members(waiters[d])
        /\ \A w \in Threads : t \notin InHand(w)
    BY <1>4 DEF SleepInv, ListedOK, InHandOK
  <1>6. /\ Members(waiters'[c]) = Members(waiters[c]) \cup {t}
        /\ NoRepeats(waiters'[c])
    BY <1>1, <1>2, <1>3, <1>5, AppendList DEF SleepInv, WaitsInOnePlace
  <1>7. \A d \in Conds : d # c => waiters'[d] = waiters[d]
    BY <1>2, <1>3
  <1>8. \A w \in Threads : InHand(w)' = InHand(w)
    BY <1>2 DEF InHand
  <1>9. \A u \in Threads : u # t => (Asleep(u)' <=> Asleep(u)) /\ pc'[u] = pc[u]
    BY <1>2, <1>3 DEF Asleep
  <1>10. pc'[t] = "cw_unlock_mp"
    BY <1>2, <1>3
  <1>11. /\ \A d \in Conds : Members(waiters[d]) \subseteq Threads
         /\ \A w \in Threads : InHand(w) \subseteq Threads
    BY HandsFacts DEF TypeInv, TypeOK, Members
  <1> HIDE DEF c
  <1>12. WaitsInOnePlace'
    BY <1>1, <1>2, <1>5, <1>6, <1>7, <1>8 DEF SleepInv, WaitsInOnePlace
  <1>13. ListedOK'
    <2> SUFFICES ASSUME NEW d \in Conds, NEW u \in Members(waiters'[d])
                 PROVE  cv'[u] = d /\ (pc'[u] \in FallingAsleep \/ Asleep(u)')
      BY DEF ListedOK
    <2>1. CASE u = t
      BY <1>5, <1>7, <1>10, <1>2, <2>1 DEF FallingAsleep, c
    <2>2. CASE u # t
      <3>1. u \in Members(waiters[d]) /\ u \in Threads
        BY <1>6, <1>7, <1>11, <2>2
      <3> QED
        BY <1>2, <1>9, <2>2, <3>1 DEF SleepInv, ListedOK
    <2> QED
      BY <2>1, <2>2
  <1>14. InHandOK'
    BY <1>5, <1>8, <1>9, <1>11 DEF SleepInv, InHandOK
  <1>15. StoppedOK'
    <2> SUFFICES ASSUME NEW u \in Threads, runFlag[u] = Stopped
                 PROVE  /\ Asleep(u)'
                        /\ \/ \E d \in Conds : u \in Members(waiters'[d])
                           \/ \E w \in Threads : u \in InHand(w)'
      BY <1>2 DEF StoppedOK
    <2>1. u # t
      BY <1>1 DEF Running, Stopped
    <2> QED
      BY <1>6, <1>7, <1>8, <1>9, <2>1 DEF SleepInv, StoppedOK
  <1>16. FallingOK'
    BY <1>1, <1>2, <1>6, <1>7, <1>9 DEF SleepInv, FallingOK, c
  <1>17. BatchOK'
    BY <1>1, <1>2, <1>9 DEF SleepInv, BatchOK
  <1> QED
    BY <1>12, <1>13, <1>14, <1>15, <1>16, <1>17 DEF SleepInv

\* The two releases between the queueing and the stop.
LEMMA FallSleepInv ==
  ASSUME TypeInv, SleepInv, NEW t \in Threads, CwUnlockMp(t) \/ CwUnlockWorld(t)
  PROVE  SleepInv'
  <1>1. /\ runFlag[t] = Running /\ pc[t] \in FallingAsleep /\ pc'[t] \in FallingAsleep
        /\ \A u \in Threads : u # t => pc'[u] = pc[u]
        /\ UNCHANGED <<waiters, runFlag, cv, tgt, batch>>
    BY DEF CwUnlockMp, CwUnlockWorld, At, Goto, FallingAsleep, TypeInv, TypeOK,
       Running, Stopped
  <1>2. \A w \in Threads : InHand(w)' = InHand(w)
    BY <1>1 DEF InHand
  <1>3. \A u \in Threads : Asleep(u)' <=> Asleep(u)
    BY <1>1 DEF Asleep, FallingAsleep
  <1>4. \A u \in Threads : pc'[u] \in FallingAsleep <=> pc[u] \in FallingAsleep
    BY <1>1
  <1>5. /\ \A d \in Conds : Members(waiters[d]) \subseteq Threads
        /\ \A w \in Threads : InHand(w) \subseteq Threads
    BY HandsFacts DEF TypeInv, TypeOK, Members
  <1>6. WaitsInOnePlace'
    BY <1>1, <1>2 DEF SleepInv, WaitsInOnePlace
  <1>7. ListedOK'
    BY <1>1, <1>3, <1>4, <1>5 DEF SleepInv, ListedOK
  <1>8. InHandOK' /\ StoppedOK'
    BY <1>1, <1>2, <1>3, <1>5 DEF SleepInv, InHandOK, StoppedOK
  <1>9. FallingOK'
    BY <1>1, <1>4 DEF SleepInv, FallingOK
  <1>10. BatchOK'
    BY <1>1 DEF SleepInv, BatchOK, FallingAsleep
  <1> QED
    BY <1>6, <1>7, <1>8, <1>9, <1>10 DEF SleepInv

\* Stopping itself, a thread is asleep and on the list of its condition.
LEMMA StopSleepInv ==
  ASSUME TypeInv, SleepInv, NEW t \in Threads, CwStop(t)
  PROVE  SleepInv'
  <1>1. runFlag[t] = Running /\ pc[t] = "cw_stop" /\ cv[t] \in Conds
    BY DEF CwStop, At, TypeInv, TypeOK, ArgsOK, UsesCv, Running, Stopped
  <1>2. /\ runFlag' = [runFlag EXCEPT ![t] = Stopped]
        /\ pc' = [pc EXCEPT ![t] = "cw_resume"]
        /\ UNCHANGED <<waiters, cv, tgt, batch>>
    BY <1>1 DEF CwStop, Goto, Cas2i, Running, Stopped, Invalid
  <1>3. pc \in [Threads -> PCs] /\ runFlag \in [Threads -> {Running, Stopped}]
    BY DEF TypeInv, TypeOK
  <1>4. Asleep(t)' /\ pc'[t] = "cw_resume"
    BY <1>2, <1>3 DEF Asleep
  <1>5. \A u \in Threads : u # t => /\ Asleep(u)' <=> Asleep(u)
                                    /\ pc'[u] = pc[u] /\ runFlag'[u] = runFlag[u]
    BY <1>2, <1>3 DEF Asleep
  <1>6. \A w \in Threads : InHand(w)' = InHand(w)
    BY <1>2 DEF InHand
  <1>7. /\ \A d \in Conds : Members(waiters[d]) \subseteq Threads
        /\ \A w \in Threads : InHand(w) \subseteq Threads
    BY HandsFacts DEF TypeInv, TypeOK, Members
  <1>8. t \in Members(waiters[cv[t]])
    BY <1>1 DEF SleepInv, FallingOK, FallingAsleep
  <1>9. WaitsInOnePlace'
    BY <1>2, <1>6 DEF SleepInv, WaitsInOnePlace
  <1>10. ListedOK'
    BY <1>2, <1>4, <1>5, <1>7 DEF SleepInv, ListedOK
  <1>11. InHandOK'
    BY <1>4, <1>5, <1>6, <1>7 DEF SleepInv, InHandOK
  <1>12. StoppedOK'
    BY <1>1, <1>2, <1>4, <1>5, <1>6, <1>8 DEF SleepInv, StoppedOK
  <1>13. FallingOK'
    BY <1>2, <1>4, <1>5 DEF SleepInv, FallingOK, FallingAsleep
  <1>14. BatchOK'
    BY <1>1, <1>2, <1>5 DEF SleepInv, BatchOK
  <1> QED
    BY <1>9, <1>10, <1>11, <1>12, <1>13, <1>14 DEF SleepInv

\* Threads change hands between lists and wakers; nobody starts or stops.
\* What is taken from the list of c goes into the hands of t.
Hands(t, c) ==
  /\ pc[t] \notin FallingAsleep \cup {"cw_resume"}
  /\ pc'[t] \notin FallingAsleep \cup {"cw_resume"}
  /\ runFlag' = runFlag
  /\ \A d \in Conds : d # c => waiters'[d] = waiters[d]
  /\ \A w \in Threads : w # t => InHand(w)' = InHand(w)
  /\ InHand(t)' \subseteq InHand(t) \cup Members(waiters[c])
  /\ Members(waiters'[c]) \subseteq Members(waiters[c])
  /\ InHand(t)' \cap Members(waiters'[c]) = {}
  /\ \A u \in InHand(t) \cup Members(waiters[c]) :
       u \in InHand(t)' \/ u \in Members(waiters'[c])
  /\ NoRepeats(waiters'[c])
  /\ NoRepeats(batch'[t]) /\ tgt'[t] \notin Members(batch'[t])
  /\ \A w \in Threads : w # t => tgt'[w] = tgt[w] /\ batch'[w] = batch[w]
  /\ batch'[t] # <<>> => pc'[t] \in {"bc_unlock", "bc_next", "bc_cas"}

\* Threads asleep may change hands: somebody still has each of them.
LEMMA HandsSleepInv ==
  ASSUME TypeInv, SleepInv, NEW t \in Threads, LibStep(t) \/ ClientStep(t),
         NEW c \in Conds, Hands(t, c),
         \A u \in InHand(t)' : u \in Members(waiters[c]) => Asleep(u)
  PROVE  SleepInv'
  <1>1. \A u \in Threads : u # t => pc'[u] = pc[u] /\ cv'[u] = cv[u]
    BY StepOthersKeep
  <1>2. ~ Asleep(t) /\ ~ Asleep(t)' /\ pc[t] \notin FallingAsleep /\ pc'[t] \notin FallingAsleep
    BY DEF Hands, Asleep
  <1>3. \A u \in Threads : Asleep(u)' <=> Asleep(u)
    BY <1>1, <1>2 DEF Hands, Asleep
  <1>4. /\ \A d \in Conds : Members(waiters[d]) \subseteq Threads
        /\ \A w \in Threads : InHand(w) \subseteq Threads
    BY HandsFacts DEF TypeInv, TypeOK, Members
  <1>5. /\ \A d \in Conds : t \notin Members(waiters[d])
        /\ \A w \in Threads : t \notin InHand(w)
    BY <1>2 DEF SleepInv, ListedOK, InHandOK
  <1>6. \A d \in Conds : Members(waiters'[d]) \subseteq Members(waiters[d])
    BY DEF Hands
  <1>7. WaitsInOnePlace'
    <2>1. (\A d \in Conds : NoRepeats(waiters[d]))'
      BY DEF Hands, SleepInv, WaitsInOnePlace
    <2>2. (\A w \in Threads : NoRepeats(batch[w]) /\ tgt[w] \notin Members(batch[w]))'
      BY DEF Hands, SleepInv, WaitsInOnePlace
    <2>3. (\A d, e \in Conds : d # e => Members(waiters[d]) \cap Members(waiters[e]) = {})'
      BY <1>6 DEF SleepInv, WaitsInOnePlace
    <2>4. (\A v, w \in Threads : v # w => InHand(v) \cap InHand(w) = {})'
      BY DEF Hands, SleepInv, WaitsInOnePlace
    <2>5. ASSUME NEW d \in Conds, NEW w \in Threads
          PROVE  Members(waiters'[d]) \cap InHand(w)' = {}
      <3>1. CASE w # t
        BY <1>6, <3>1 DEF Hands, SleepInv, WaitsInOnePlace
      <3>2. CASE w = t /\ d = c
        BY <3>2 DEF Hands
      <3>3. CASE w = t /\ d # c
        BY <1>6, <3>3 DEF Hands, SleepInv, WaitsInOnePlace
      <3> QED
        BY <3>1, <3>2, <3>3
    <2> QED
      BY <2>1, <2>2, <2>3, <2>4, <2>5 DEF WaitsInOnePlace
  <1>8. ListedOK'
    BY <1>1, <1>3, <1>4, <1>5, <1>6 DEF SleepInv, ListedOK
  <1>9. InHandOK'
    <2> SUFFICES ASSUME NEW w \in Threads, NEW u \in InHand(w)' PROVE Asleep(u)'
      BY DEF InHandOK
    <2>1. CASE w # t
      BY <1>3, <1>4, <2>1 DEF Hands, SleepInv, InHandOK
    <2>2. CASE w = t
      <3>1. Asleep(u)
        BY <2>2 DEF Hands, SleepInv, InHandOK
      <3> QED
        BY <1>3, <1>4, <2>2, <3>1 DEF Hands
    <2> QED
      BY <2>1, <2>2
  <1>10. StoppedOK'
    <2> SUFFICES ASSUME NEW u \in Threads, runFlag[u] = Stopped
                 PROVE  /\ Asleep(u)'
                        /\ \/ \E d \in Conds : u \in Members(waiters'[d])
                           \/ \E w \in Threads : u \in InHand(w)'
      BY DEF StoppedOK, Hands
    <2>1. Asleep(u)'
      BY <1>3 DEF SleepInv, StoppedOK
    <2>2. CASE \E d \in Conds : u \in Members(waiters[d])
      <3>1. PICK d \in Conds : u \in Members(waiters[d])
        BY <2>2
      <3>2. CASE d # c
        BY <2>1, <3>1, <3>2 DEF Hands
      <3>3. CASE d = c
        <4>1. u \in InHand(t)' \/ u \in Members(waiters'[c])
          BY <3>1, <3>3 DEF Hands
        <4> QED
          BY <2>1, <4>1
      <3> QED
        BY <3>2, <3>3
    <2>3. CASE \E w \in Threads : u \in InHand(w)
      <3>1. PICK w \in Threads : u \in InHand(w)
        BY <2>3
      <3>2. CASE w # t
        <4>1. u \in InHand(w)'
          BY <3>1, <3>2 DEF Hands
        <4> QED
          BY <2>1, <4>1
      <3>3. CASE w = t
        <4>1. u \in InHand(t)' \/ u \in Members(waiters'[c])
          BY <3>1, <3>3 DEF Hands
        <4> QED
          BY <2>1, <4>1
      <3> QED
        BY <3>2, <3>3
    <2> QED
      BY <2>1, <2>2, <2>3 DEF SleepInv, StoppedOK
  <1>11. FallingOK'
    <2> SUFFICES ASSUME NEW u \in Threads, pc'[u] \in FallingAsleep
                 PROVE  u \in Members(waiters'[cv'[u]])
      BY DEF FallingOK
    <2>1. u # t /\ pc[u] \in FallingAsleep /\ cv'[u] = cv[u] /\ u \in Members(waiters[cv[u]])
      BY <1>1, <1>2 DEF SleepInv, FallingOK
    <2>2. cv[u] \in Conds /\ ~ Asleep(u)
      BY <2>1 DEF TypeInv, ArgsOK, UsesCv, FallingAsleep, Asleep
    <2>3. CASE cv[u] # c
      BY <2>1, <2>2, <2>3 DEF Hands
    <2>4. CASE cv[u] = c
      <3>1. u \notin InHand(t)'
        BY <2>1, <2>2, <2>4
      <3> QED
        BY <2>1, <2>4, <3>1 DEF Hands
    <2> QED
      BY <2>3, <2>4
  <1>12. BatchOK'
    BY <1>1 DEF Hands, SleepInv, BatchOK
  <1> QED
    BY <1>7, <1>8, <1>9, <1>10, <1>11, <1>12 DEF SleepInv

\* cond_signal takes a sleeper off the list: it holds the control block, so
\* nobody on the list is still on its way to sleep.
LEMMA PopSleepInv ==
  ASSUME TypeInv, LockInv, SleepInv, NEW t \in Threads, SgPop(t)
  PROVE  SleepInv'
  <1> DEFINE c == cv[t]
             u == Head(waiters[c])
  <1>1. /\ c \in Conds /\ pc[t] = "sg_pop" /\ tgt[t] \notin Threads /\ batch[t] = <<>>
        /\ waiters[c] \in Seq(Threads) /\ waiters[c] # <<>> /\ NoRepeats(waiters[c])
    BY DEF SgPop, At, TypeInv, TypeOK, ArgsOK, UsesCv, UsesTgt, SleepInv, BatchOK,
           WaitsInOnePlace
  <1>2. /\ waiters' = [waiters EXCEPT ![c] = Tail(@)]
        /\ tgt' = [tgt EXCEPT ![t] = u]
        /\ pc' = [pc EXCEPT ![t] = "sg_cas"]
        /\ runFlag' = runFlag /\ batch' = batch
    BY DEF SgPop, Goto
  <1>3. /\ pc \in [Threads -> PCs] /\ tgt \in [Threads -> Threads \cup {None}]
        /\ waiters \in [Conds -> Seq(Threads)]
    BY DEF TypeInv, TypeOK
  <1>4. /\ u \in Members(waiters[c]) /\ u \in Threads
        /\ Members(waiters'[c]) = Members(waiters[c]) \ {u}
        /\ NoRepeats(waiters'[c])
    BY <1>1, <1>2, <1>3, TailList
  <1>5. \A v \in Members(waiters[c]) : Asleep(v)
    BY <1>1, ListedAsleep DEF InWcb, FallingAsleep, Asleep
  <1> HIDE DEF c, u
  <1>6. InHand(t) = {} /\ InHand(t)' = {u}
    <2>1. Members(batch[t]) = {} /\ Members(batch'[t]) = {}
      BY <1>1, <1>2, EmptyList
    <2>2. tgt[t] = None /\ tgt'[t] = u /\ u # None
      BY <1>1, <1>2, <1>3, <1>4, CondVarAssumption
    <2> QED
      BY <2>1, <2>2 DEF InHand
  <1>7. \A w \in Threads : w # t => /\ tgt'[w] = tgt[w] /\ batch'[w] = batch[w]
                                    /\ InHand(w)' = InHand(w)
    BY <1>2, <1>3 DEF InHand
  <1>8. \A d \in Conds : d # c => waiters'[d] = waiters[d]
    BY <1>2, <1>3
  <1>9. NoRepeats(batch'[t]) /\ tgt'[t] \notin Members(batch'[t]) /\ batch'[t] = <<>>
    BY <1>1, <1>2, EmptyList
  <1>10. pc'[t] = "sg_cas"
    BY <1>2, <1>3
  <1>11. Hands(t, c)
    BY <1>1, <1>2, <1>4, <1>6, <1>7, <1>8, <1>9, <1>10 DEF Hands, FallingAsleep
  <1> QED
    BY <1>1, <1>5, <1>11, HandsSleepInv DEF LibStep

\* cond_broadcast takes all the sleepers of a list into its own.
LEMMA DetachSleepInv ==
  ASSUME TypeInv, LockInv, SleepInv, NEW t \in Threads, BcDetach(t)
  PROVE  SleepInv'
  <1> DEFINE c == cv[t]
  <1>1. /\ c \in Conds /\ pc[t] = "bc_detach" /\ tgt[t] \notin Threads /\ batch[t] = <<>>
        /\ waiters[c] \in Seq(Threads) /\ NoRepeats(waiters[c])
    BY DEF BcDetach, At, TypeInv, TypeOK, ArgsOK, UsesCv, UsesTgt, SleepInv, BatchOK,
           WaitsInOnePlace
  <1>2. /\ waiters' = [waiters EXCEPT ![c] = <<>>]
        /\ batch' = [batch EXCEPT ![t] = waiters[c]]
        /\ pc' = [pc EXCEPT ![t] = "bc_unlock"]
        /\ runFlag' = runFlag /\ tgt' = tgt
    BY DEF BcDetach, Goto
  <1>3. /\ pc \in [Threads -> PCs] /\ tgt \in [Threads -> Threads \cup {None}]
        /\ waiters \in [Conds -> Seq(Threads)] /\ batch \in [Threads -> Seq(Threads)]
    BY DEF TypeInv, TypeOK
  <1>5. \A v \in Members(waiters[c]) : Asleep(v)
    BY <1>1, ListedAsleep DEF InWcb, FallingAsleep, Asleep
  <1> HIDE DEF c
  <1>4. waiters'[c] = <<>> /\ batch'[t] = waiters[c] /\ pc'[t] = "bc_unlock"
    BY <1>1, <1>2, <1>3
  <1>6. InHand(t) = {} /\ InHand(t)' = Members(waiters[c]) /\ tgt'[t] \notin Members(batch'[t])
    <2>1. tgt[t] = None /\ tgt'[t] = None
      BY <1>1, <1>2, <1>3
    <2>2. None \notin Members(waiters[c])
      BY <1>1, CondVarAssumption DEF Members
    <2> QED
      BY <1>1, <1>4, <2>1, <2>2, EmptyList DEF InHand
  <1>7. \A w \in Threads : w # t => /\ tgt'[w] = tgt[w] /\ batch'[w] = batch[w]
                                    /\ InHand(w)' = InHand(w)
    BY <1>2, <1>3 DEF InHand
  <1>8. \A d \in Conds : d # c => waiters'[d] = waiters[d]
    BY <1>2, <1>3
  <1>11. Hands(t, c)
    BY <1>1, <1>2, <1>4, <1>6, <1>7, <1>8, EmptyList DEF Hands, FallingAsleep
  <1> QED
    BY <1>1, <1>5, <1>11, HandsSleepInv DEF LibStep

\* cond_broadcast takes the last of its own list in hand.
LEMMA BatchPopSleepInv ==
  ASSUME TypeInv, SleepInv, NEW t \in Threads, BcPop(t), NEW c \in Conds
  PROVE  SleepInv'
  <1> DEFINE b == batch[t]
             u == b[Len(b)]
             f == SubSeq(b, 1, Len(b) - 1)
  <1>1. /\ pc[t] = "bc_next" /\ tgt[t] \notin Threads
        /\ b \in Seq(Threads) /\ b # <<>> /\ NoRepeats(b)
    BY DEF BcPop, At, TypeInv, TypeOK, ArgsOK, UsesTgt, SleepInv, WaitsInOnePlace
  <1>2. /\ batch' = [batch EXCEPT ![t] = f]
        /\ tgt' = [tgt EXCEPT ![t] = u]
        /\ pc' = [pc EXCEPT ![t] = "bc_cas"]
        /\ runFlag' = runFlag /\ waiters' = waiters
    BY DEF BcPop, Goto
  <1>3. /\ pc \in [Threads -> PCs] /\ tgt \in [Threads -> Threads \cup {None}]
        /\ batch \in [Threads -> Seq(Threads)]
    BY DEF TypeInv, TypeOK
  <1>4. /\ u \in Members(b) /\ u \in Threads /\ NoRepeats(f)
        /\ Members(f) = Members(b) \ {u}
    BY <1>1, FrontList
  <1> HIDE DEF b, u, f
  <1>5. tgt[t] = None /\ tgt'[t] = u /\ batch'[t] = f /\ pc'[t] = "bc_cas" /\ batch[t] = b
    BY <1>1, <1>2, <1>3 DEF b
  <1>6. InHand(t) = Members(b) /\ InHand(t)' = Members(b)
    <2>1. u # None
      BY <1>4, CondVarAssumption
    <2> QED
      BY <1>4, <1>5, <2>1 DEF InHand
  <1>7. \A w \in Threads : w # t => /\ tgt'[w] = tgt[w] /\ batch'[w] = batch[w]
                                    /\ InHand(w)' = InHand(w)
    BY <1>2, <1>3 DEF InHand
  <1>8. NoRepeats(waiters[c]) /\ InHand(t) \cap Members(waiters[c]) = {}
    BY DEF SleepInv, WaitsInOnePlace
  <1>9. Hands(t, c)
    BY <1>1, <1>2, <1>4, <1>5, <1>6, <1>7, <1>8 DEF Hands, FallingAsleep
  <1> QED
    BY <1>6, <1>8, <1>9, HandsSleepInv DEF LibStep

\* Starting the thread in hand: cas2i_runflag finds it stopped.
LEMMA CasSleepInv ==
  ASSUME TypeInv, SleepInv, NEW t \in Threads, SgCas(t) \/ BcCas(t)
  PROVE  SleepInv'
  <1> DEFINE u == tgt[t]
  <1>1. /\ pc[t] \in UsesTgt /\ u \in Threads /\ u \in InHand(t) /\ u # None
        /\ batch[t] # <<>> => pc'[t] \in {"bc_unlock", "bc_next", "bc_cas"}
    <2>1. pc[t] \in UsesTgt /\ u \in Threads
      BY DEF SgCas, BcCas, At, TypeInv, ArgsOK, UsesTgt
    <2>2. u # None
      BY <2>1, CondVarAssumption
    <2>3. batch[t] # <<>> => pc'[t] \in {"bc_unlock", "bc_next", "bc_cas"}
      BY DEF SgCas, BcCas, At, Goto, TypeInv, TypeOK, SleepInv, BatchOK
    <2> QED
      BY <2>1, <2>2, <2>3 DEF InHand
  <1>2. Asleep(u) /\ runFlag[u] = Stopped /\ u # t
    <2>1. Asleep(u)
      BY <1>1 DEF SleepInv, InHandOK
    <2> QED
      BY <1>1, <2>1 DEF Asleep, UsesTgt
  <1>3. /\ pc \in [Threads -> PCs] /\ tgt \in [Threads -> Threads \cup {None}]
        /\ runFlag \in [Threads -> {Running, Stopped}]
    BY DEF TypeInv, TypeOK
  <1>4. /\ runFlag' = [runFlag EXCEPT ![u] = Running]
        /\ tgt' = [tgt EXCEPT ![t] = None]
        /\ pc'[t] \in {"sg_unlock", "bc_next"}
        /\ \A v \in Threads : v # t => pc'[v] = pc[v] /\ cv'[v] = cv[v]
        /\ waiters' = waiters /\ batch' = batch /\ cv' = cv
    <2>1. CASE SgCas(t)
      BY <1>2, <1>3, <2>1 DEF SgCas, Cas2i, Goto, Running, Stopped
    <2>2. CASE BcCas(t)
      BY <1>2, <1>3, <2>2 DEF BcCas, Cas2i, Goto, Running, Stopped, Invalid
    <2> QED
      BY <2>1, <2>2
  <1>5. /\ \A d \in Conds : Members(waiters[d]) \subseteq Threads
        /\ \A w \in Threads : InHand(w) \subseteq Threads
    BY HandsFacts DEF TypeInv, TypeOK, Members
  <1>6. /\ \A d \in Conds : u \notin Members(waiters[d])
        /\ \A w \in Threads : w # t => u \notin InHand(w)
        /\ u \notin Members(batch[t])
    BY <1>1 DEF SleepInv, WaitsInOnePlace
  <1> HIDE DEF u
  <1>7. InHand(t)' = InHand(t) \ {u}
    <2>1. InHand(t) = Members(batch[t]) \cup {u}
      BY <1>1 DEF InHand, u
    <2>2. InHand(t)' = Members(batch[t])
      BY <1>3, <1>4 DEF InHand
    <2> QED
      BY <1>6, <2>1, <2>2
  <1>8. \A w \in Threads : w # t => InHand(w)' = InHand(w) /\ tgt'[w] = tgt[w]
    BY <1>3, <1>4 DEF InHand
  <1>9. \A v \in Threads : v # u => (Asleep(v)' <=> Asleep(v)) /\ runFlag'[v] = runFlag[v]
    <2> SUFFICES ASSUME NEW v \in Threads, v # u
                 PROVE  (Asleep(v)' <=> Asleep(v)) /\ runFlag'[v] = runFlag[v]
      OBVIOUS
    <2>1. runFlag'[v] = runFlag[v]
      BY <1>3, <1>4
    <2>2. CASE v = t
      BY <1>1, <1>4, <2>2 DEF Asleep, UsesTgt
    <2>3. CASE v # t
      BY <1>4, <2>1, <2>3 DEF Asleep
    <2> QED
      BY <2>1, <2>2, <2>3
  <1>10. runFlag'[u] = Running /\ pc'[u] = "cw_resume"
    BY <1>1, <1>2, <1>3, <1>4 DEF Asleep
  <1>11. WaitsInOnePlace'
    <2>1. (\A w \in Threads : NoRepeats(batch[w]) /\ tgt[w] \notin Members(batch[w]))'
      <3>1. tgt'[t] = None /\ None \notin Members(batch[t])
        BY <1>3, <1>4, <1>5, CondVarAssumption DEF InHand
      <3> QED
        BY <1>4, <1>8, <3>1 DEF SleepInv, WaitsInOnePlace
    <2>2. \A w \in Threads : InHand(w)' \subseteq InHand(w)
      BY <1>7, <1>8
    <2>3. (\A v, w \in Threads : v # w => InHand(v) \cap InHand(w) = {})'
      BY <2>2 DEF SleepInv, WaitsInOnePlace
    <2> QED
      BY <1>4, <2>1, <2>2, <2>3 DEF SleepInv, WaitsInOnePlace
  <1>12. ListedOK'
    <2> SUFFICES ASSUME NEW d \in Conds, NEW v \in Members(waiters[d])
                 PROVE  cv'[v] = d /\ (pc'[v] \in FallingAsleep \/ Asleep(v)')
      BY <1>4 DEF ListedOK
    <2>1. v # u /\ v \in Threads /\ v # t
      <3>1. pc[t] \notin FallingAsleep /\ ~ Asleep(t)
        BY <1>1 DEF UsesTgt, FallingAsleep, Asleep
      <3> QED
        BY <1>5, <1>6, <3>1 DEF SleepInv, ListedOK
    <2> QED
      BY <1>4, <1>9, <2>1 DEF SleepInv, ListedOK
  <1>13. InHandOK'
    <2> SUFFICES ASSUME NEW w \in Threads, NEW v \in InHand(w)' PROVE Asleep(v)'
      BY DEF InHandOK
    <2>1. v \in InHand(w) /\ v # u
      BY <1>6, <1>7, <1>8
    <2> QED
      BY <1>5, <1>9, <2>1 DEF SleepInv, InHandOK
  <1>14. StoppedOK'
    <2> SUFFICES ASSUME NEW v \in Threads, runFlag'[v] = Stopped
                 PROVE  /\ Asleep(v)'
                        /\ \/ \E d \in Conds : v \in Members(waiters[d])
                           \/ \E w \in Threads : v \in InHand(w)'
      BY <1>4 DEF StoppedOK
    <2>1. v # u /\ runFlag[v] = Stopped
      BY <1>9, <1>10 DEF Running, Stopped
    <2>2. \A w \in Threads : v \in InHand(w) => v \in InHand(w)'
      BY <1>7, <1>8, <2>1
    <2> QED
      BY <1>9, <2>1, <2>2 DEF SleepInv, StoppedOK
  <1>15. FallingOK'
    BY <1>1, <1>4 DEF SleepInv, FallingOK, FallingAsleep
  <1>16. BatchOK'
    BY <1>1, <1>4 DEF SleepInv, BatchOK
  <1> QED
    BY <1>11, <1>12, <1>13, <1>14, <1>15, <1>16 DEF SleepInv

\* All but nine steps are quiet.
LEMMA StepQuiet ==
  ASSUME TypeInv, SleepInv, NEW t \in Threads, LibStep(t) \/ ClientStep(t)
  PROVE  \/ Quiet(t)
         \/ CwEnq(t) \/ CwUnlockMp(t) \/ CwUnlockWorld(t) \/ CwStop(t)
         \/ SgPop(t) \/ SgCas(t) \/ BcDetach(t) \/ BcPop(t) \/ BcCas(t)
  <1>0. /\ batch[t] # <<>> => pc[t] \in {"bc_unlock", "bc_next", "bc_cas"}
        /\ pc \in [Threads -> PCs]
        /\ runFlag[t] >= 0 => runFlag[t] = Running
    BY DEF TypeInv, TypeOK, SleepInv, BatchOK, Running, Stopped
  <1> USE <1>0 DEF Quiet, At, MayCall, Goto, FallingAsleep
  <1>1. CASE (\E m \in Mutexes : Lock(t, m)) \/ Unlock(t) \/ Complete(t)
    BY <1>1 DEF Lock, Unlock, Complete
  <1>2. CASE \E c \in Conds : CondWait(t, c)
    <2>1. /\ pc' = [pc EXCEPT ![t] = "cw_wcb"] \/ pc' = [pc EXCEPT ![t] = "cw_world"]
          /\ UNCHANGED <<waiters, batch, tgt, runFlag>>
          /\ At(t, "run")
      BY <1>2 DEF CondWait
    <2> QED
      BY <2>1
  <1>3. CASE \E c \in Conds : CondSignal(t, c)
    BY <1>3 DEF CondSignal
  <1>4. CASE \E c \in Conds : CondBroadcast(t, c)
    BY <1>4 DEF CondBroadcast
  <1>5. CASE CwWorld(t)
    BY <1>5 DEF CwWorld
  <1>6. CASE CwWcb(t)
    BY <1>6 DEF CwWcb
  <1>7. CASE CwResume(t)
    BY <1>7 DEF CwResume
  <1>8. CASE CwRelock(t)
    BY <1>8 DEF CwRelock
  <1>9. CASE SgLock(t)
    BY <1>9 DEF SgLock
  <1>10. CASE SgNone(t)
    BY <1>10 DEF SgNone
  <1>11. CASE SgUnlock(t)
    BY <1>11 DEF SgUnlock
  <1>12. CASE BcLock(t)
    BY <1>12 DEF BcLock
  <1>13. CASE BcUnlock(t)
    BY <1>13 DEF BcUnlock
  <1>14. CASE BcDone(t)
    BY <1>14 DEF BcDone
  <1> QED
    BY <1>1, <1>2, <1>3, <1>4, <1>5, <1>6, <1>7, <1>8, <1>9,
       <1>10, <1>11, <1>12, <1>13, <1>14
    DEF LibStep, ClientStep

\* Every step keeps the accounts of who waits where.
LEMMA StepSleepInv ==
  ASSUME TypeInv, LockInv, SleepInv, NEW t \in Threads, LibStep(t) \/ ClientStep(t)
  PROVE  SleepInv'
  <1>1. CASE BcPop(t)
    <2>1. batch[t] \in Seq(Threads) /\ batch[t] # <<>> /\ NoRepeats(batch[t])
      BY <1>1 DEF BcPop, TypeInv, TypeOK, SleepInv, WaitsInOnePlace
    <2>2. PICK u \in Threads : u \in Members(batch[t])
      BY <2>1, FrontList
    <2>3. cv[u] \in Conds
      <3>1. Asleep(u)
        BY <2>2 DEF SleepInv, InHandOK, InHand
      <3> QED
        BY <3>1 DEF Asleep, TypeInv, ArgsOK, UsesCv
    <2> QED
      BY <1>1, <2>3, BatchPopSleepInv
  <1> QED
    BY <1>1, StepQuiet, QuietSleepInv, EnqSleepInv, FallSleepInv, StopSleepInv,
       PopSleepInv, DetachSleepInv, CasSleepInv

\* Every step keeps the thread's recorded state in line with where it is.
LEMMA StepStateInv ==
  ASSUME TypeInv, StateInv, NEW t \in Threads, LibStep(t) \/ ClientStep(t)
  PROVE  StateInv'
  <1>1. /\ pc \in [Threads -> PCs] /\ state \in [Threads -> ThreadStates]
    BY DEF TypeInv, TypeOK
  <1>2. \A u \in Threads : u # t => pc'[u] = pc[u]
    BY StepOthersKeep
  <1>3. \A u \in Threads : u # t => state'[u] = state[u] \/ state'[u] = "RUNNABLE"
    BY <1>1 DEF LibStep, ClientStep, Lock, Unlock, Complete, CondWait, CondSignal,
       CondBroadcast, CwWorld, CwWcb, CwEnq, CwUnlockMp, CwUnlockWorld, CwStop,
       CwResume, CwRelock, SgLock, SgPop, SgNone, SgCas, SgUnlock, BcLock, BcDetach,
       BcUnlock, BcPop, BcCas, BcDone
  <1>4. /\ state'[t] = "WAITING" => pc'[t] \in FallingAsleep \cup {"cw_resume"}
        /\ state'[t] = "COMPLETED" =>
             pc'[t] \in {"run", "sg_lock", "sg_pop", "sg_cas", "sg_unlock"}
    BY <1>1 DEF StateInv, FallingAsleep, LibStep, ClientStep, At, MayCall, Goto,
       Lock, Unlock, Complete, CondWait, CondSignal,
       CondBroadcast, CwWorld, CwWcb, CwEnq, CwUnlockMp, CwUnlockWorld, CwStop,
       CwResume, CwRelock, SgLock, SgPop, SgNone, SgCas, SgUnlock, BcLock, BcDetach,
       BcUnlock, BcPop, BcCas, BcDone
  <1> QED
    BY <1>2, <1>3, <1>4 DEF StateInv

CVInv == TypeInv /\ LockInv /\ SleepInv /\ StateInv

\* The task starts with all of the invariant.
LEMMA InitCVInv == CVInit => CVInv
  <1> SUFFICES ASSUME CVInit PROVE CVInv
    OBVIOUS
  <1>1. TypeInv /\ LockInv
    BY InitTypeInv, InitLockInv
  <1>2. /\ \A c \in Conds : Members(waiters[c]) = {} /\ NoRepeats(waiters[c])
        /\ \A w \in Threads : Members(batch[w]) = {} /\ NoRepeats(batch[w])
        /\ \A w \in Threads : InHand(w) = {} /\ batch[w] = <<>>
    BY EmptyList DEF CVInit, InHand
  <1>3. \A t \in Threads : pc[t] = "run" /\ runFlag[t] = Running /\ state[t] = "RUNNABLE"
    BY DEF CVInit
  <1>4. SleepInv
    <2>1. WaitsInOnePlace
      BY <1>2 DEF WaitsInOnePlace
    <2>2. ListedOK /\ InHandOK /\ BatchOK
      BY <1>2 DEF ListedOK, InHandOK, BatchOK
    <2>3. StoppedOK /\ FallingOK
      BY <1>3 DEF StoppedOK, FallingOK, FallingAsleep, Running, Stopped
    <2> QED
      BY <2>1, <2>2, <2>3 DEF SleepInv
  <1>5. StateInv
    BY <1>3 DEF StateInv
  <1> QED
    BY <1>1, <1>4, <1>5 DEF CVInv

\* Every step, and every step of somebody else, keeps all of the invariant.
LEMMA StepCVInv == CVInv /\ [CVNext]_cvvars => CVInv'
  <1> SUFFICES ASSUME CVInv, [CVNext]_cvvars PROVE CVInv'
    OBVIOUS
  <1>1. CASE CVNext
    BY <1>1, StepTypeInv, StepLockInv, StepSleepInv, StepStateInv DEF CVNext, CVInv
  <1>2. CASE UNCHANGED cvvars
    <2>1. TypeInv' /\ LockInv'
      BY <1>2 DEF CVInv, cvvars, TypeInv, TypeOK, ArgsOK, LockInv, MutualExclusion,
                  LockWordExact, WorldOnce, Holds
    <2>2. \A t \in Threads : InHand(t)' = InHand(t) /\ (Asleep(t)' <=> Asleep(t))
      BY <1>2 DEF cvvars, InHand, Asleep
    <2>3. WaitsInOnePlace' /\ FallingOK' /\ BatchOK' /\ StoppedOK'
      <3>1. WaitsInOnePlace'
        BY <1>2, <2>2 DEF CVInv, SleepInv, cvvars, WaitsInOnePlace
      <3>2. FallingOK' /\ BatchOK'
        BY <1>2 DEF CVInv, SleepInv, cvvars, FallingOK, BatchOK
      <3>3. StoppedOK'
        BY <1>2, <2>2 DEF CVInv, SleepInv, cvvars, StoppedOK
      <3> QED
        BY <3>1, <3>2, <3>3
    <2>4. /\ \A c \in Conds : Members(waiters[c]) \subseteq Threads
          /\ \A w \in Threads : InHand(w) \subseteq Threads
      BY HandsFacts DEF CVInv, TypeInv, TypeOK, Members
    <2>5. ListedOK' /\ InHandOK'
      BY <1>2, <2>2, <2>4 DEF CVInv, SleepInv, cvvars, ListedOK, InHandOK
    <2>6. StateInv'
      BY <1>2 DEF CVInv, cvvars, StateInv
    <2> QED
      BY <2>1, <2>3, <2>5, <2>6 DEF CVInv, SleepInv
  <1> QED
    BY <1>1, <1>2

\* The inductive invariant of mutexes and condition variables.
THEOREM CVInvHolds == CVSpec => []CVInv
  BY InitCVInv, StepCVInv, PTL DEF CVSpec

\* No wake-up is lost: a stopped thread is on a list or in the hands of a
\* thread that runs and will start it.
THEOREM NoLostWakeupHolds == CVSpec => []NoLostWakeup
  <1>1. CVInv => NoLostWakeup
    <2> SUFFICES ASSUME CVInv, NEW t \in Threads, runFlag[t] = Stopped
                 PROVE  \/ \E c \in Conds : t \in Members(waiters[c])
                        \/ \E w \in Threads : runFlag[w] = Running /\ t \in InHand(w)
      BY DEF NoLostWakeup
    <2>1. ASSUME NEW w \in Threads, t \in InHand(w) PROVE runFlag[w] = Running
      <3>1. CASE runFlag[w] = Stopped
        <4>1. pc[w] = "cw_resume"
          BY <3>1 DEF CVInv, SleepInv, StoppedOK, Asleep
        <4>2. batch[w] = <<>> /\ InHand(w) = Members(batch[w])
          BY <4>1, HandsFacts DEF CVInv, SleepInv, BatchOK, UsesTgt
        <4> QED
          BY <2>1, <4>2, EmptyList
      <3> QED
        BY <3>1 DEF CVInv, TypeInv, TypeOK
    <2> QED
      BY <2>1 DEF CVInv, SleepInv, StoppedOK
  <1> QED
    BY <1>1, CVInvHolds, PTL

\* A waker never calls cas2i_runflag on a thread that is not stopped yet.
THEOREM WakeupFindsSleeperHolds == CVSpec => []WakeupFindsSleeper
  <1>1. CVInv => WakeupFindsSleeper
    BY CondVarAssumption
    DEF CVInv, SleepInv, InHandOK, InHand, Asleep, TypeInv, ArgsOK, UsesTgt,
        WakeupFindsSleeper
  <1> QED
    BY <1>1, CVInvHolds, PTL

\* A thread is on one list once, or in one waker's hands.
THEOREM WaitsInOnePlaceHolds == CVSpec => []WaitsInOnePlace
  <1>1. CVInv => WaitsInOnePlace
    BY DEF CVInv, SleepInv
  <1> QED
    BY <1>1, CVInvHolds, PTL

\* The assertions of sleep_on_unprotected never fail.
THEOREM EnqueueAssertsHold == CVSpec => []EnqueueAsserts
  <1>1. CVInv => EnqueueAsserts
    <2> SUFFICES ASSUME CVInv, NEW t \in Threads, pc[t] = "cw_enq"
                 PROVE  /\ state[t] = "RUNNABLE"
                        /\ \A c \in Conds : t \notin Members(waiters[c])
                        /\ \A w \in Threads : t \notin InHand(w)
      BY DEF EnqueueAsserts
    <2>1. state[t] = "RUNNABLE"
      BY DEF CVInv, StateInv, TypeInv, TypeOK, ThreadStates, FallingAsleep
    <2> QED
      BY <2>1 DEF CVInv, SleepInv, ListedOK, InHandOK, Asleep, FallingAsleep
  <1> QED
    BY <1>1, CVInvHolds, PTL

\* A thread is started only by a waker that has taken it off its list.
THEOREM OnlyNotifiedResumeHolds == CVSpec => OnlyNotifiedResume
  <1> DEFINE Resumed ==
        \A t \in Threads :
          runFlag[t] = Stopped /\ runFlag'[t] = Running =>
            /\ \A c \in Conds : t \notin Members(waiters[c])
            /\ \E w \in Threads : tgt[w] = t
  <1>1. CVInv /\ [CVNext]_cvvars => [Resumed]_cvvars
    <2> SUFFICES ASSUME CVInv, CVNext, NEW t \in Threads,
                        runFlag[t] = Stopped, runFlag'[t] = Running
                 PROVE  /\ \A c \in Conds : t \notin Members(waiters[c])
                        /\ \E w \in Threads : tgt[w] = t
      OBVIOUS
    <2>1. PICK w \in Threads : LibStep(w) \/ ClientStep(w)
      BY DEF CVNext
    <2>2. runFlag' # runFlag
      BY DEF Running, Stopped
    <2>3. CwStop(w) \/ SgCas(w) \/ BcCas(w)
      BY <2>1, <2>2, StepQuiet DEF CVInv, Quiet, CwEnq, CwUnlockMp, CwUnlockWorld,
         SgPop, BcDetach, BcPop
    <2>4. runFlag \in [Threads -> {Running, Stopped}]
      BY DEF CVInv, TypeInv, TypeOK
    <2>5. ~ CwStop(w)
      BY <2>4 DEF CwStop, Cas2i, At, Running, Stopped, Invalid
    <2>6. tgt[w] = t
      BY <2>2, <2>3, <2>4, <2>5 DEF SgCas, BcCas, Cas2i, Running, Stopped
    <2>7. t \in InHand(w)
      BY <2>6, CondVarAssumption DEF InHand
    <2> QED
      BY <2>6, <2>7 DEF CVInv, SleepInv, WaitsInOnePlace
  <1> QED
    BY <1>1, CVInvHolds, PTL DEF CVSpec, OnlyNotifiedResume

\* Two threads are never inside the same critical section.
THEOREM MutualExclusionHolds == CVSpec => []MutualExclusion
  <1>1. CVInv => MutualExclusion
    BY DEF CVInv, LockInv
  <1> QED
    BY <1>1, CVInvHolds, PTL

\* A lock word is set exactly while somebody is inside.
THEOREM LockWordExactHolds == CVSpec => []LockWordExact
  <1>1. CVInv => LockWordExact
    BY DEF CVInv, LockInv
  <1> QED
    BY <1>1, CVInvHolds, PTL

\* A lock is set exactly while one thread is inside it.
THEOREM LocksExactHold == CVSpec => []LocksExact
  BY MutualExclusionHolds, LockWordExactHolds, PTL DEF LocksExact

\* Every sleeper is in one place, and is asleep when it is started.
THEOREM WakeupsExactHold == CVSpec => []WakeupsExact
  BY NoLostWakeupHolds, WakeupFindsSleeperHolds, WaitsInOnePlaceHolds, PTL DEF WakeupsExact

----------------------------------------------------------------------------
(* Nobody spins for ever for want of a release.                              *)

\* What is held while a thread spins goes one way: whoever is inside a control
\* block spins on nothing, whoever has the world lock on a control block at
\* most, and whoever has a caller's mutex on one of these two at most.
LEMMA LocksInOrder ==
  ASSUME CVInv, NEW t \in Threads, NEW l \in Locks, Holds(t, l)
  PROVE  /\ runFlag[t] = Running
         /\ l \in Conds => Wants(t) = None
         /\ l = World => Wants(t) \in Conds \cup {None}
         /\ Wants(t) \in Conds \cup {World, None}
  <1> USE CondVarAssumption DEF CVInv
  <1>1. pc[t] \notin {"cw_resume", "cw_relock"}
    BY DEF Holds, InWcb, InWorld, WithoutMp, TypeInv, TypeOK, Locks
  <1>2. runFlag[t] = Running
    BY <1>1 DEF SleepInv, StoppedOK, Asleep, TypeInv, TypeOK
  <1>3. pc[t] \in InWcb => Wants(t) = None
    BY DEF InWcb, Wants
  <1>4. Wants(t) \in Conds \cup {World, None}
    BY <1>1 DEF Wants, TypeInv, ArgsOK, UsesCv
  <1>5. l \in Conds => pc[t] \in InWcb
    BY DEF Holds, TypeInv, TypeOK
  <1>6. l = World => pc[t] # "cw_world"
    BY DEF Holds, InWcb, InWorld, LockInv, WorldOnce, TypeInv, ArgsOK, UsesCv, Locks
  <1>7. pc[t] # "cw_world" => Wants(t) \in Conds \cup {None}
    BY <1>1 DEF Wants, TypeInv, ArgsOK, UsesCv
  <1> QED
    BY <1>2, <1>3, <1>4, <1>5, <1>6, <1>7

\* A spinning thread waits for one that goes on: callers' mutexes, the world
\* lock and control blocks are taken in this order (cond_var.c:92-121).
THEOREM NoSpinDeadlockHolds == CVSpec => []NoSpinDeadlock
  <1>1. CVInv => NoSpinDeadlock
    <2> SUFFICES ASSUME CVInv, NEW S \in SUBSET Threads,
                        \A t \in S :
                          /\ Wants(t) # None \/ runFlag[t] # Running
                          /\ Wants(t) # None =>
                               locked[Wants(t)] /\ \A h \in Threads \ S : ~ Holds(h, Wants(t))
                 PROVE  \A t \in S : Wants(t) = None
      BY DEF NoSpinDeadlock
    <2> USE CondVarAssumption
    <2>1. ASSUME NEW t \in S, Wants(t) # None
          PROVE  Wants(t) \in Locks /\ \E h \in S : Holds(h, Wants(t))
      <3>1. Wants(t) \in Locks
        BY <2>1 DEF Wants, CVInv, TypeInv, ArgsOK, UsesCv, UsesMp, Locks
      <3> QED
        BY <2>1, <3>1 DEF CVInv, LockInv, LockWordExact
    <2>2. ASSUME NEW t \in S, Wants(t) \in Conds PROVE FALSE
      <3>1. PICK h \in S : Holds(h, Wants(t))
        BY <2>1, <2>2
      <3>2. runFlag[h] = Running /\ Wants(h) = None
        BY <2>2, <3>1, LocksInOrder DEF Locks
      <3> QED
        BY <3>2
    <2>3. ASSUME NEW t \in S, Wants(t) = World PROVE FALSE
      <3>1. PICK h \in S : Holds(h, World)
        BY <2>1, <2>3
      <3>2. runFlag[h] = Running /\ Wants(h) \in Conds \cup {None}
        BY <3>1, LocksInOrder DEF Locks
      <3> QED
        BY <2>2, <3>2
    <2>4. ASSUME NEW t \in S, Wants(t) # None PROVE FALSE
      <3>1. PICK h \in S : Holds(h, Wants(t)) /\ Wants(t) \in Locks
        BY <2>1, <2>4
      <3>2. runFlag[h] = Running /\ Wants(h) \in Conds \cup {World, None}
        BY <3>1, LocksInOrder
      <3> QED
        BY <2>2, <2>3, <3>2
    <2> QED
      BY <2>4
  <1> QED
    BY <1>1, CVInvHolds, PTL

----------------------------------------------------------------------------
(* CondVar implements Monitor.                                               *)

\* The thread that is falling asleep on a condition was the last to queue on it.
LastOK ==
  \A t \in Threads : pc[t] \in FallingAsleep =>
    waiters[cv[t]] # <<>> /\ waiters[cv[t]][Len(waiters[cv[t]])] = t

\* The invariant of CondVar, and who is last on a list.
MonInv == CVInv /\ LastOK

\* Nobody has the mutex m but the caller that locked it.
Owns(t, m) == pc[t] \notin WithoutMp /\ mp[t] = m

----------------------------------------------------------------------------
(* The last of a list.                                                       *)

\* What was added last is what a list has before it.
LEMMA FrontOfAppend ==
  ASSUME NEW S, NEW w \in Seq(S), NEW e \in S
  PROVE  /\ Append(w, e) # <<>> /\ Append(w, e)[Len(Append(w, e))] = e
         /\ SubSeq(Append(w, e), 1, Len(Append(w, e)) - 1) = w
  <1> DEFINE a == Append(w, e)
             f == SubSeq(a, 1, Len(a) - 1)
  <1>1. /\ a \in Seq(S) /\ Len(a) = Len(w) + 1 /\ Len(w) \in Nat
        /\ a[Len(w) + 1] = e /\ \A i \in 1..Len(w) : a[i] = w[i]
    OBVIOUS
  <1> HIDE DEF a
  <1>2. Len(a) - 1 = Len(w)
    BY <1>1
  <1>3. f \in Seq(S) /\ Len(f) = Len(w) /\ \A i \in 1..Len(w) : f[i] = w[i]
    BY <1>1, <1>2
  <1> HIDE DEF f
  <1>4. f = w
    BY <1>3, SeqEqual
  <1> QED
    BY <1>1, <1>4 DEF a, f

\* A thread that falls asleep has queued itself, or goes on falling asleep.
LEMMA FallsFrom ==
  ASSUME TypeInv, NEW t \in Threads, LibStep(t) \/ ClientStep(t),
         pc'[t] \in FallingAsleep
  PROVE  \/ CwEnq(t)
         \/ pc[t] \in FallingAsleep /\ waiters' = waiters /\ cv' = cv
  BY DEF TypeInv, TypeOK, FallingAsleep, LibStep, ClientStep, At, MayCall, Goto,
     Lock, Unlock, Complete,
     CondWait, CondSignal, CondBroadcast, CwWorld, CwWcb, CwUnlockMp,
     CwUnlockWorld, CwStop, CwResume, CwRelock, SgLock, SgPop, SgNone, SgCas,
     SgUnlock, BcLock, BcDetach, BcUnlock, BcPop, BcCas, BcDone

\* Nobody queues behind a thread that is falling asleep, or takes it off.
LEMMA StepLastOK ==
  ASSUME CVInv, LastOK, NEW t \in Threads, LibStep(t) \/ ClientStep(t)
  PROVE  LastOK'
  <1> SUFFICES ASSUME NEW u \in Threads, pc'[u] \in FallingAsleep
               PROVE  waiters'[cv'[u]] # <<>> /\ waiters'[cv'[u]][Len(waiters'[cv'[u]])] = u
    BY DEF LastOK
  <1>1. TypeInv
    BY DEF CVInv
  <1>2. CASE u = t
    <2>1. CASE CwEnq(t)
      <3>1. cv[t] \in Conds /\ cv' = cv /\ waiters[cv[t]] \in Seq(Threads)
        BY <1>1, <2>1 DEF CwEnq, At, TypeInv, TypeOK, ArgsOK, UsesCv
      <3>2. waiters'[cv[t]] = Append(waiters[cv[t]], t)
        BY <1>1, <2>1, <3>1 DEF CwEnq, TypeInv, TypeOK
      <3> QED
        BY <1>2, <3>1, <3>2
    <2> QED
      BY <1>1, <1>2, <2>1, FallsFrom DEF LastOK
  <1>3. CASE u # t
    <2>1. pc'[u] = pc[u] /\ cv'[u] = cv[u] /\ cv[u] \in Conds
      BY <1>1, <1>3, StepOthersKeep DEF TypeInv, ArgsOK, FallingAsleep, UsesCv
    <2>2. CASE waiters'[cv[u]] # waiters[cv[u]]
      <3>1. cv[u] = cv[t] /\ pc[t] \in {"cw_enq", "sg_pop", "bc_detach"}
        BY <1>1, <2>1, <2>2, ListChange
      <3>2. Holds(t, cv[u]) /\ Holds(u, cv[u])
        BY <2>1, <3>1 DEF Holds, InWcb, FallingAsleep
      <3> QED
        BY <1>3, <2>1, <3>2 DEF CVInv, LockInv, MutualExclusion, Locks
    <2> QED
      BY <2>1, <2>2 DEF LastOK
  <1> QED
    BY <1>2, <1>3

\* The invariant holds at the start and every step keeps it.
LEMMA MonInvHolds == CVSpec => []MonInv
  <1>1. CVInit => MonInv
    BY InitCVInv DEF CVInit, MonInv, LastOK, FallingAsleep
  <1>2. MonInv /\ [CVNext]_cvvars => MonInv'
    <2> SUFFICES ASSUME MonInv, [CVNext]_cvvars PROVE LastOK'
      BY StepCVInv DEF MonInv
    <2>1. CASE CVNext
      BY <2>1, StepLastOK DEF CVNext, MonInv
    <2>2. CASE UNCHANGED cvvars
      BY <2>2 DEF cvvars, MonInv, LastOK
    <2> QED
      BY <2>1, <2>2
  <1> QED
    BY <1>1, <1>2, PTL DEF CVSpec

----------------------------------------------------------------------------
(* What the mapping makes of a state.                                        *)

OwnersExact ==
  /\ AbsOwner \in [Mutexes -> Threads \cup {None}]
  /\ \A m \in Mutexes, t \in Threads : AbsOwner[m] = t <=> Owns(t, m)

\* A caller's mutex has the owner that holds it.
LEMMA OwnersAre == TypeInv /\ LockInv => OwnersExact
  <1> SUFFICES ASSUME TypeInv, LockInv PROVE OwnersExact
    OBVIOUS
  <1> USE CondVarAssumption
  <1>1. ASSUME NEW m \in Mutexes, NEW t \in Threads, NEW u \in Threads,
               Owns(t, m), Owns(u, m)
        PROVE  t = u
    BY <1>1 DEF Owns, LockInv, MutualExclusion, Holds, Locks
  <1>2. ASSUME NEW m \in Mutexes
        PROVE  /\ AbsOwner[m] \in Threads \cup {None}
               /\ \A t \in Threads : AbsOwner[m] = t <=> Owns(t, m)
    <2>1. CASE \E t \in Threads : Owns(t, m)
      <3>1. AbsOwner[m] = CHOOSE t \in Threads : pc[t] \notin WithoutMp /\ mp[t] = m
        BY <2>1 DEF AbsOwner, Owns
      <3>2. AbsOwner[m] \in Threads /\ Owns(AbsOwner[m], m)
        BY <2>1, <3>1 DEF Owns
      <3> QED
        BY <1>1, <3>2
    <2>2. CASE ~ \E t \in Threads : Owns(t, m)
      <3>1. AbsOwner[m] = None
        BY <2>2 DEF AbsOwner, Owns
      <3> QED
        BY <2>2, <3>1
    <2> QED
      BY <2>1, <2>2
  <1>3. AbsOwner = [m \in Mutexes |-> AbsOwner[m]]
    BY DEF AbsOwner
  <1> QED
    BY <1>2, <1>3 DEF OwnersExact

\* What the mapping makes of a step of t that moves no list: the arguments of
\* the three functions that follow t alone.
LEMMA OthersSeen ==
  ASSUME TypeInv, NEW t \in Threads, LibStep(t) \/ ClientStep(t)
  PROVE  /\ AbsWaiting' = [AbsWaiting EXCEPT ![t] = AbsWaiting'[t]]
         /\ AbsPending' = [AbsPending EXCEPT ![t] = AbsPending'[t]]
         /\ \A u \in Threads : u # t => \A m \in Mutexes : Owns(u, m)' <=> Owns(u, m)
  <1>1. \A u \in Threads : u # t => pc'[u] = pc[u] /\ mp'[u] = mp[u] /\ cv'[u] = cv[u]
    BY StepOthersKeep
  <1>2. AbsWaiting' = [AbsWaiting EXCEPT ![t] = AbsWaiting'[t]]
    BY <1>1 DEF AbsWaiting
  <1>3. AbsPending' = [AbsPending EXCEPT ![t] = AbsPending'[t]]
    BY <1>1 DEF AbsPending
  <1> QED
    BY <1>1, <1>2, <1>3 DEF Owns

\* A step after which t owns what it owned changes no owner.
LEMMA SameOwners ==
  ASSUME OwnersExact, OwnersExact', TypeInv, NEW t \in Threads, LibStep(t) \/ ClientStep(t),
         \A m \in Mutexes : Owns(t, m)' <=> Owns(t, m)
  PROVE  AbsOwner' = AbsOwner
  <1>1. \A u \in Threads, m \in Mutexes : Owns(u, m)' <=> Owns(u, m)
    BY OthersSeen
  <1>2. \A m \in Mutexes : AbsOwner'[m] = AbsOwner[m]
    BY <1>1 DEF OwnersExact
  <1> QED
    BY <1>2 DEF OwnersExact

\* A step by which t comes to own m gives it to t.
LEMMA NewOwner ==
  ASSUME OwnersExact, OwnersExact', TypeInv, NEW t \in Threads, LibStep(t) \/ ClientStep(t),
         NEW m \in Mutexes, \A u \in Threads : ~ Owns(u, m),
         \A k \in Mutexes : Owns(t, k)' <=> Owns(t, k) \/ k = m
  PROVE  AbsOwner[m] = None /\ AbsOwner' = [AbsOwner EXCEPT ![m] = t]
  <1>1. \A u \in Threads : u # t => \A k \in Mutexes : Owns(u, k)' <=> Owns(u, k)
    BY OthersSeen
  <1>2. \A k \in Mutexes : k # m => AbsOwner'[k] = AbsOwner[k]
    BY <1>1 DEF OwnersExact
  <1>3. AbsOwner'[m] = t /\ AbsOwner[m] = None
    BY DEF OwnersExact
  <1> QED
    BY <1>2, <1>3 DEF OwnersExact

\* A step by which t stops owning m leaves it to nobody.
LEMMA NoOwner ==
  ASSUME OwnersExact, OwnersExact', TypeInv, NEW t \in Threads, LibStep(t) \/ ClientStep(t),
         NEW m \in Mutexes, Owns(t, m),
         \A k \in Mutexes : Owns(t, k)' <=> Owns(t, k) /\ k # m
  PROVE  AbsOwner[m] = t /\ AbsOwner' = [AbsOwner EXCEPT ![m] = None]
  <1>1. \A u \in Threads : u # t => \A k \in Mutexes : Owns(u, k)' <=> Owns(u, k)
    BY OthersSeen
  <1>2. AbsOwner[m] = t
    BY DEF OwnersExact
  <1>3. \A k \in Mutexes : k # m => AbsOwner'[k] = AbsOwner[k]
    BY <1>1 DEF OwnersExact
  <1>4. \A u \in Threads : ~ Owns(u, m)'
    BY <1>1, <1>2 DEF OwnersExact
  <1>5. AbsOwner'[m] = None
    BY <1>4 DEF OwnersExact
  <1> QED
    BY <1>2, <1>3, <1>5 DEF OwnersExact

\* What is pending, and what t waits with, at each of its labels.
PendingExact ==
  \A t \in Threads :
    /\ pc[t] \in {"sg_lock", "sg_pop"} => AbsPending[t] = <<"signal", cv[t]>>
    /\ pc[t] \in {"bc_lock", "bc_detach"} => AbsPending[t] = <<"broadcast", cv[t]>>
    /\ pc[t] \notin {"sg_lock", "sg_pop", "bc_lock", "bc_detach"} => AbsPending[t] = None

WaitingExact ==
  \A t \in Threads :
    /\ pc[t] \in WithoutMp => AbsWaiting[t] = mp[t]
    /\ pc[t] \notin WithoutMp => AbsWaiting[t] = None

\* The three labels of a call that has not acted, and the four of a wait.
LEMMA SeenExact == PendingExact /\ WaitingExact
  <1>1. PendingExact
    BY DEF PendingExact, AbsPending
  <1>2. WaitingExact
    BY DEF WaitingExact, AbsWaiting
  <1> QED
    BY <1>1, <1>2

\* The mapped state after a step is as exact as before it.
LEMMA SeenExactNext == MonInv /\ MonInv' =>
    /\ OwnersExact /\ PendingExact /\ WaitingExact
    /\ OwnersExact' /\ PendingExact' /\ WaitingExact'
  <1>1. MonInv => OwnersExact /\ PendingExact /\ WaitingExact
    BY OwnersAre, SeenExact DEF MonInv, CVInv
  <1> QED
    BY <1>1, PTL

\* A queue seen from outside lacks only a last that still holds its mutex.
LEMMA SameQueues ==
  ASSUME TypeInv, NEW t \in Threads, LibStep(t) \/ ClientStep(t), waiters' = waiters,
         pc[t] # "cw_unlock_mp", pc'[t] # "cw_unlock_mp"
  PROVE  AbsQueue' = AbsQueue
  <1>1. \A u \in Threads : pc'[u] = "cw_unlock_mp" <=> pc[u] = "cw_unlock_mp"
    BY StepOthersKeep
  <1>2. \A c \in Conds : waiters[c] # <<>> => waiters[c][Len(waiters[c])] \in Threads
    BY DEF TypeInv, TypeOK
  <1> QED
    BY <1>1, <1>2 DEF AbsQueue

\* A thread inside a control block sees the whole queue.
LEMMA WholeQueue ==
  ASSUME MonInv, NEW t \in Threads, pc[t] \in InWcb, pc[t] \notin FallingAsleep
  PROVE  AbsQueue[cv[t]] = waiters[cv[t]]
  <1> DEFINE s == waiters[cv[t]]
  <1>1. cv[t] \in Conds /\ s \in Seq(Threads)
    BY DEF MonInv, CVInv, TypeInv, TypeOK, ArgsOK, InWcb, UsesCv
  <1>2. ASSUME s # <<>>, pc[s[Len(s)]] = "cw_unlock_mp" PROVE FALSE
    <2> DEFINE u == s[Len(s)]
    <2>1. u \in Members(s) /\ u \in Threads
      BY <1>1, <1>2 DEF Members
    <2>2. cv[u] = cv[t]
      BY <1>1, <2>1 DEF MonInv, CVInv, SleepInv, ListedOK
    <2>3. Holds(u, cv[t]) /\ Holds(t, cv[t])
      BY <1>2, <2>2 DEF Holds, InWcb
    <2> QED
      BY <1>1, <1>2, <2>1, <2>3 DEF MonInv, CVInv, LockInv, MutualExclusion, Locks, FallingAsleep
  <1> QED
    BY <1>1, <1>2 DEF AbsQueue

\* The invisible steps change nothing that callers see.
LEMMA InvisibleStep ==
  ASSUME MonInv, MonInv', NEW t \in Threads, LibStep(t) \/ ClientStep(t),
         waiters' = waiters, pc[t] # "cw_unlock_mp", pc'[t] # "cw_unlock_mp",
         mp' = mp, pc'[t] \in WithoutMp <=> pc[t] \in WithoutMp,
         \/ pc'[t] \in {"sg_lock", "sg_pop"} /\ pc[t] \in {"sg_lock", "sg_pop"} /\ cv' = cv
         \/ pc'[t] \in {"bc_lock", "bc_detach"} /\ pc[t] \in {"bc_lock", "bc_detach"} /\ cv' = cv
         \/ {pc[t], pc'[t]} \cap {"sg_lock", "sg_pop", "bc_lock", "bc_detach"} = {}
  PROVE  UNCHANGED Abs!mvars
  <1>1. TypeInv /\ OwnersExact /\ OwnersExact'
    BY SeenExactNext DEF MonInv, CVInv
  <1>2. AbsOwner' = AbsOwner
    <2>1. \A m \in Mutexes : Owns(t, m)' <=> Owns(t, m)
      BY DEF Owns
    <2> QED
      BY <1>1, <2>1, SameOwners
  <1>3. AbsQueue' = AbsQueue
    BY <1>1, SameQueues
  <1>4. AbsWaiting'[t] = AbsWaiting[t]
    BY SeenExactNext DEF WaitingExact
  <1>5. AbsPending'[t] = AbsPending[t]
    BY SeenExactNext DEF PendingExact
  <1>6. AbsWaiting' = AbsWaiting /\ AbsPending' = AbsPending
    <2>1. /\ AbsWaiting' = [AbsWaiting EXCEPT ![t] = AbsWaiting'[t]]
          /\ AbsPending' = [AbsPending EXCEPT ![t] = AbsPending'[t]]
      BY <1>1, OthersSeen
    <2>2. /\ AbsWaiting = [u \in Threads |-> AbsWaiting[u]]
          /\ AbsPending = [u \in Threads |-> AbsPending[u]]
      BY DEF AbsWaiting, AbsPending
    <2> QED
      BY <1>4, <1>5, <2>1, <2>2
  <1> QED
    BY <1>2, <1>3, <1>6 DEF Abs!mvars

----------------------------------------------------------------------------
(* The steps that callers see.                                               *)

\* What a step of t leaves alone of what callers see of the others.
LEMMA KeepsSight ==
  ASSUME MonInv, MonInv', NEW t \in Threads, LibStep(t) \/ ClientStep(t)
  PROVE  /\ AbsWaiting'[t] = AbsWaiting[t] => AbsWaiting' = AbsWaiting
         /\ AbsPending'[t] = AbsPending[t] => AbsPending' = AbsPending
  <1>1. /\ AbsWaiting' = [AbsWaiting EXCEPT ![t] = AbsWaiting'[t]]
        /\ AbsPending' = [AbsPending EXCEPT ![t] = AbsPending'[t]]
    BY OthersSeen DEF MonInv, CVInv
  <1>2. /\ AbsWaiting = [u \in Threads |-> AbsWaiting[u]]
        /\ AbsPending = [u \in Threads |-> AbsPending[u]]
    BY DEF AbsWaiting, AbsPending
  <1> QED
    BY <1>1, <1>2

\* mutex_lock gives the caller a mutex nobody owned.
LEMMA LockIsMLock ==
  ASSUME MonInv, MonInv', NEW t \in Threads, NEW m \in Mutexes, Lock(t, m)
  PROVE  Abs!MLock(t, m)
  <1>1. TypeInv /\ TypeOK /\ ClientStep(t)
    BY DEF MonInv, CVInv, TypeInv, ClientStep
  <1>2. pc[t] = "run" /\ pc' = pc /\ mp[t] = None /\ ~ locked[m] /\ waiters' = waiters
    BY DEF Lock, MayCall, At, Acquire
  <1>3. \A k \in Mutexes : Owns(t, k)' <=> Owns(t, k) \/ k = m
    BY <1>1, <1>2, CondVarAssumption DEF Lock, Owns, WithoutMp, MonInv, CVInv, TypeInv, TypeOK
  <1>4. \A u \in Threads : ~ Owns(u, m)
    BY <1>2, CondVarAssumption DEF MonInv, CVInv, LockInv, LockWordExact, Owns, Holds, Locks
  <1>5. AbsOwner[m] = None /\ AbsOwner' = [AbsOwner EXCEPT ![m] = t]
    BY <1>3, <1>4, NewOwner, SeenExactNext DEF MonInv, CVInv, ClientStep
  <1>6. AbsQueue' = AbsQueue
    BY <1>2, SameQueues DEF MonInv, CVInv, ClientStep
  <1>7. AbsWaiting[t] = None /\ AbsWaiting'[t] = None /\ AbsPending'[t] = AbsPending[t]
    BY <1>2, SeenExactNext DEF WaitingExact, PendingExact, WithoutMp
  <1>8. AbsWaiting' = AbsWaiting /\ AbsPending' = AbsPending
    BY <1>7, KeepsSight DEF ClientStep
  <1> QED
    BY <1>5, <1>6, <1>7, <1>8 DEF Abs!MLock

\* mutex_unlock takes from the caller a mutex it owned.
LEMMA UnlockIsMUnlock ==
  ASSUME MonInv, MonInv', NEW t \in Threads, Unlock(t)
  PROVE  \E m \in Mutexes : Abs!MUnlock(t, m)
  <1>1. /\ pc[t] = "run" /\ pc' = pc /\ waiters' = waiters
        /\ mp[t] \in Mutexes /\ mp'[t] = None
    BY DEF Unlock, At, MonInv, CVInv, TypeInv, TypeOK
  <1>2. PICK m \in Mutexes : m = mp[t]
    BY <1>1
  <1>3. Owns(t, m) /\ \A k \in Mutexes : Owns(t, k)' <=> Owns(t, k) /\ k # m
    BY <1>1, <1>2, CondVarAssumption DEF Owns, WithoutMp
  <1>4. AbsOwner[m] = t /\ AbsOwner' = [AbsOwner EXCEPT ![m] = None]
    BY <1>3, NoOwner, SeenExactNext DEF MonInv, CVInv, ClientStep
  <1>5. AbsQueue' = AbsQueue
    BY <1>1, SameQueues DEF MonInv, CVInv, ClientStep
  <1>6. AbsWaiting[t] = None /\ AbsWaiting'[t] = None /\ AbsPending'[t] = AbsPending[t]
    BY <1>1, SeenExactNext DEF WaitingExact, PendingExact, WithoutMp
  <1>7. AbsWaiting' = AbsWaiting /\ AbsPending' = AbsPending
    BY <1>6, KeepsSight DEF ClientStep
  <1> QED
    BY <1>4, <1>5, <1>6, <1>7 DEF Abs!MUnlock

\* The release of the mutex inside cond_wait is the wait: the thread joins the
\* queue and gives its mutex up in one step.
LEMMA UnlockMpIsMWait ==
  ASSUME MonInv, MonInv', NEW t \in Threads, CwUnlockMp(t)
  PROVE  \E c \in Conds, m \in Mutexes : Abs!MWait(t, c, m)
  <1> DEFINE s == waiters[cv[t]]
  <1>0. TypeInv /\ TypeOK /\ WaitsInOnePlace /\ LastOK /\ ListedOK /\ LibStep(t)
    BY DEF MonInv, CVInv, TypeInv, SleepInv, LibStep
  <1>1. /\ pc[t] = "cw_unlock_mp" /\ pc'[t] \in {"cw_stop", "cw_unlock_world"}
        /\ waiters' = waiters /\ mp' = mp /\ cv' = cv
        /\ mp[t] \in Mutexes /\ cv[t] \in Conds
    BY <1>0 DEF CwUnlockMp, At, Goto, TypeInv, TypeOK, ArgsOK, UsesMp, UsesCv
  <1>2. PICK m \in Mutexes : m = mp[t]
    BY <1>1
  <1>3. PICK c \in Conds : c = cv[t]
    BY <1>1
  <1>4. Owns(t, m) /\ \A k \in Mutexes : Owns(t, k)' <=> Owns(t, k) /\ k # m
    BY <1>1, <1>2 DEF Owns, WithoutMp
  <1>5. AbsOwner[m] = t /\ AbsOwner' = [AbsOwner EXCEPT ![m] = None]
    BY <1>0, <1>4, NoOwner, SeenExactNext
  <1>6. /\ AbsWaiting[t] = None /\ AbsWaiting'[t] = m
        /\ AbsPending'[t] = None /\ AbsPending[t] = None
    BY <1>1, <1>2, SeenExactNext DEF WaitingExact, PendingExact, WithoutMp
  <1>7. AbsPending' = AbsPending /\ AbsWaiting' = [AbsWaiting EXCEPT ![t] = m]
    BY <1>0, <1>6, KeepsSight, OthersSeen
  <1>8. s \in Seq(Threads) /\ s # <<>> /\ s[Len(s)] = t
    BY <1>0, <1>1 DEF LastOK, FallingAsleep, TypeOK
  <1>9. AbsQueue[c] = SubSeq(s, 1, Len(s) - 1) /\ Append(AbsQueue[c], t) = s
    BY <1>1, <1>3, <1>8 DEF AbsQueue
  <1>10. AbsQueue'[c] = s
    BY <1>1, <1>3, <1>8 DEF AbsQueue
  <1>11. ASSUME NEW d \in Conds, d # c PROVE AbsQueue'[d] = AbsQueue[d]
    <2>1. waiters[d] \in Seq(Threads)
      BY <1>0 DEF TypeOK
    <2>2. CASE waiters[d] = <<>>
      BY <1>1, <2>2 DEF AbsQueue
    <2>3. CASE waiters[d] # <<>>
      <3> DEFINE u == waiters[d][Len(waiters[d])]
      <3>1. u \in Members(waiters[d]) /\ u \in Threads
        BY <2>1, <2>3 DEF Members
      <3>2. u # t
        BY <1>0, <1>3, <1>11, <3>1 DEF ListedOK
      <3>3. pc'[u] = pc[u]
        BY <1>0, <3>1, <3>2, StepOthersKeep
      <3> QED
        BY <1>1, <2>3, <3>3 DEF AbsQueue
    <2> QED
      BY <2>2, <2>3
  <1>12. AbsQueue' = [AbsQueue EXCEPT ![c] = Append(@, t)]
    <2>1. AbsQueue = [d \in Conds |-> AbsQueue[d]] /\ AbsQueue' = [d \in Conds |-> AbsQueue'[d]]
      BY DEF AbsQueue
    <2> QED
      BY <1>9, <1>10, <1>11, <2>1
  <1> QED
    BY <1>5, <1>6, <1>7, <1>12 DEF Abs!MWait

\* cond_wait returns with the mutex again, and no longer on any queue.
LEMMA RelockIsMReturn ==
  ASSUME MonInv, MonInv', NEW t \in Threads, CwRelock(t)
  PROVE  \E m \in Mutexes : Abs!MReturn(t, m)
  <1>0. TypeInv /\ TypeOK /\ ListedOK /\ LibStep(t)
    BY DEF MonInv, CVInv, TypeInv, SleepInv, LibStep
  <1>1. /\ pc[t] = "cw_relock" /\ pc'[t] = "run" /\ ~ locked[mp[t]]
        /\ waiters' = waiters /\ mp' = mp /\ mp[t] \in Mutexes
    BY <1>0 DEF CwRelock, At, Goto, Acquire, TypeInv, TypeOK, ArgsOK, UsesMp
  <1>2. PICK m \in Mutexes : m = mp[t]
    BY <1>1
  <1>3. \A k \in Mutexes : Owns(t, k)' <=> Owns(t, k) \/ k = m
    BY <1>1, <1>2 DEF Owns, WithoutMp
  <1>4. \A u \in Threads : ~ Owns(u, m)
    BY <1>1, <1>2, CondVarAssumption DEF MonInv, CVInv, LockInv, LockWordExact, Owns, Holds, Locks
  <1>5. AbsOwner[m] = None /\ AbsOwner' = [AbsOwner EXCEPT ![m] = t]
    BY <1>0, <1>3, <1>4, NewOwner, SeenExactNext
  <1>6. AbsQueue' = AbsQueue
    BY <1>0, <1>1, SameQueues
  <1>7. /\ AbsWaiting[t] = m /\ AbsWaiting'[t] = None
        /\ AbsPending'[t] = None /\ AbsPending[t] = None
    BY <1>1, <1>2, SeenExactNext DEF WaitingExact, PendingExact, WithoutMp
  <1>8. AbsPending' = AbsPending /\ AbsWaiting' = [AbsWaiting EXCEPT ![t] = None]
    BY <1>0, <1>7, KeepsSight, OthersSeen
  <1>9. ~ Abs!Queued(t)
    <2> SUFFICES ASSUME NEW c \in Conds, NEW i \in DOMAIN AbsQueue[c], AbsQueue[c][i] = t
                 PROVE  FALSE
      BY DEF Abs!Queued
    <2>1. waiters[c] \in Seq(Threads)
      BY <1>0 DEF TypeOK
    <2>2. i \in DOMAIN waiters[c] /\ waiters[c][i] = t
      BY <2>1 DEF AbsQueue
    <2> QED
      BY <1>0, <1>1, <2>2 DEF ListedOK, Members, FallingAsleep, Asleep
  <1> QED
    BY <1>5, <1>6, <1>7, <1>8, <1>9 DEF Abs!MReturn

\* A call of cond_signal or cond_broadcast is a notification that is pending.
LEMMA CallIsMNotify ==
  ASSUME MonInv, MonInv', NEW t \in Threads, NEW c \in Conds
  PROVE  /\ CondSignal(t, c) => Abs!MNotify(t, "signal", c)
         /\ CondBroadcast(t, c) => Abs!MNotify(t, "broadcast", c)
  <1> SUFFICES ASSUME CondSignal(t, c) \/ CondBroadcast(t, c)
               PROVE  /\ CondSignal(t, c) => Abs!MNotify(t, "signal", c)
                      /\ CondBroadcast(t, c) => Abs!MNotify(t, "broadcast", c)
    OBVIOUS
  <1>0. TypeInv /\ TypeOK /\ ClientStep(t)
    BY DEF MonInv, CVInv, TypeInv, ClientStep
  <1>1. /\ pc[t] = "run" /\ pc'[t] = (IF CondSignal(t, c) THEN "sg_lock" ELSE "bc_lock")
        /\ waiters' = waiters /\ mp' = mp /\ cv'[t] = c
    BY <1>0 DEF CondSignal, CondBroadcast, MayCall, At, Goto, TypeOK
  <1>2. AbsOwner' = AbsOwner
    <2>1. \A m \in Mutexes : Owns(t, m)' <=> Owns(t, m)
      BY <1>1 DEF Owns, WithoutMp
    <2> QED
      BY <1>0, <2>1, SameOwners, SeenExactNext
  <1>3. AbsQueue' = AbsQueue
    BY <1>0, <1>1, SameQueues
  <1>4. /\ AbsWaiting[t] = None /\ AbsWaiting'[t] = None /\ AbsPending[t] = None
        /\ AbsPending'[t] = IF CondSignal(t, c) THEN <<"signal", c>> ELSE <<"broadcast", c>>
    BY <1>1, SeenExactNext DEF WaitingExact, PendingExact, WithoutMp
  <1>5. /\ AbsWaiting' = AbsWaiting
        /\ AbsPending' = [AbsPending EXCEPT ![t] = AbsPending'[t]]
    BY <1>0, <1>4, KeepsSight, OthersSeen
  <1>6. ASSUME CondSignal(t, c), CondBroadcast(t, c) PROVE FALSE
    <2>1. pc'[t] = "sg_lock" /\ pc'[t] = "bc_lock"
      BY <1>0, <1>6 DEF CondSignal, CondBroadcast, Goto, TypeOK
    <2> QED
      BY <2>1
  <1> QED
    BY <1>2, <1>3, <1>4, <1>5, <1>6 DEF Abs!MNotify

\* What the queue of c becomes is what its list becomes, while the control
\* block is held to start those on it.
LEMMA QueueFollows ==
  ASSUME MonInv, MonInv', NEW t \in Threads, LibStep(t),
         pc[t] \in {"sg_pop", "bc_detach"},
         NEW s, s = <<>> \/ s = waiters[cv[t]] \/ s = Tail(waiters[cv[t]]),
         s = Tail(waiters[cv[t]]) => waiters[cv[t]] # <<>>,
         waiters' = [waiters EXCEPT ![cv[t]] = s]
  PROVE  AbsQueue' = [AbsQueue EXCEPT ![cv[t]] = s]
  <1>0. TypeInv /\ TypeOK /\ cv[t] \in Conds
    BY DEF MonInv, CVInv, TypeInv, ArgsOK, UsesCv
  <1>1. \A u \in Threads : pc'[u] = "cw_unlock_mp" <=> pc[u] = "cw_unlock_mp"
    <2>1. pc'[t] # "cw_unlock_mp"
      BY <1>0 DEF LibStep, At, Goto, TypeOK, CwWorld, CwWcb, CwEnq, CwUnlockMp,
         CwUnlockWorld, CwStop, CwResume, CwRelock, SgLock, SgPop, SgNone, SgCas,
         SgUnlock, BcLock, BcDetach, BcUnlock, BcPop, BcCas, BcDone
    <2> QED
      BY <1>0, <2>1, StepOthersKeep
  <1>2. ASSUME NEW d \in Conds, d # cv[t] PROVE AbsQueue'[d] = AbsQueue[d]
    <2>1. waiters'[d] = waiters[d] /\ waiters[d] \in Seq(Threads)
      BY <1>0, <1>2 DEF TypeOK
    <2>2. waiters[d] # <<>> => waiters[d][Len(waiters[d])] \in Threads
      BY <2>1
    <2> QED
      BY <1>1, <2>1, <2>2 DEF AbsQueue
  <1>3. AbsQueue'[cv[t]] = s
    <2> DEFINE w == waiters[cv[t]]
    <2>1. w \in Seq(Threads) /\ waiters'[cv[t]] = s
      BY <1>0 DEF TypeOK
    <2>2. AbsQueue[cv[t]] = w
      BY WholeQueue DEF InWcb, FallingAsleep
    <2>3. s # <<>> => w # <<>> /\ s[Len(s)] = w[Len(w)] /\ w[Len(w)] \in Threads
      BY <2>1
    <2>4. w # <<>> => pc[w[Len(w)]] # "cw_unlock_mp"
      <3> SUFFICES ASSUME w # <<>>, pc[w[Len(w)]] = "cw_unlock_mp" PROVE FALSE
        OBVIOUS
      <3>1. AbsQueue[cv[t]] = SubSeq(w, 1, Len(w) - 1)
        BY <1>0 DEF AbsQueue
      <3>2. Len(SubSeq(w, 1, Len(w) - 1)) = Len(w) - 1 /\ Len(w) \in Nat
        BY <2>1
      <3> QED
        BY <2>2, <3>1, <3>2
    <2> QED
      BY <1>0, <1>1, <2>1, <2>3, <2>4 DEF AbsQueue
  <1> QED
    <2>1. AbsQueue = [d \in Conds |-> AbsQueue[d]] /\ AbsQueue' = [d \in Conds |-> AbsQueue'[d]]
      BY DEF AbsQueue
    <2> QED
      BY <1>2, <1>3, <2>1

\* What the end of a notification changes of what callers see, beside a queue.
LEMMA ActsFacts ==
  ASSUME MonInv, MonInv', NEW t \in Threads, SgPop(t) \/ SgNone(t) \/ BcDetach(t)
  PROVE  /\ AbsOwner' = AbsOwner /\ AbsWaiting' = AbsWaiting
         /\ AbsPending' = [AbsPending EXCEPT ![t] = None]
         /\ AbsPending[t] = <<IF BcDetach(t) THEN "broadcast" ELSE "signal", cv[t]>>
  <1>0. TypeInv /\ TypeOK /\ LibStep(t)
    BY DEF MonInv, CVInv, TypeInv, LibStep
  <1>1. /\ pc[t] = (IF BcDetach(t) THEN "bc_detach" ELSE "sg_pop")
        /\ pc'[t] \in {"sg_cas", "sg_unlock", "bc_unlock"} /\ mp' = mp
    BY <1>0 DEF SgPop, SgNone, BcDetach, At, Goto, TypeOK
  <1>2. \A m \in Mutexes : Owns(t, m)' <=> Owns(t, m)
    BY <1>1 DEF Owns, WithoutMp
  <1>3. AbsOwner' = AbsOwner
    BY <1>0, <1>2, SameOwners, SeenExactNext
  <1>4. /\ AbsWaiting[t] = None /\ AbsWaiting'[t] = None
        /\ AbsPending[t] = <<IF BcDetach(t) THEN "broadcast" ELSE "signal", cv[t]>>
        /\ AbsPending'[t] = None
    BY <1>1, SeenExactNext DEF WaitingExact, PendingExact, WithoutMp
  <1>5. AbsWaiting' = AbsWaiting /\ AbsPending' = [AbsPending EXCEPT ![t] = None]
    BY <1>0, <1>4, KeepsSight, OthersSeen
  <1> QED
    BY <1>3, <1>4, <1>5

\* A signal takes the thread that has waited longest, or finds nobody.
LEMMA PopIsMSignal ==
  ASSUME MonInv, MonInv', NEW t \in Threads, SgPop(t) \/ SgNone(t)
  PROVE  \E c \in Conds : Abs!MSignal(t, c)
  <1>0. TypeInv /\ TypeOK /\ LibStep(t) /\ pc[t] = "sg_pop" /\ ~ BcDetach(t)
    BY DEF MonInv, CVInv, TypeInv, LibStep, SgPop, SgNone, BcDetach, At
  <1>1. PICK c \in Conds : c = cv[t]
    BY <1>0 DEF TypeInv, ArgsOK, UsesCv
  <1>2. AbsQueue[c] = waiters[c]
    BY <1>0, <1>1, WholeQueue DEF InWcb, FallingAsleep
  <1>3. CASE SgPop(t)
    <2>1. waiters' = [waiters EXCEPT ![c] = Tail(waiters[c])] /\ waiters[c] # <<>>
      BY <1>1, <1>3 DEF SgPop
    <2>2. AbsQueue' = [AbsQueue EXCEPT ![c] = Tail(waiters[c])]
      BY <1>0, <1>1, <2>1, QueueFollows
    <2> QED
      BY <1>0, <1>1, <1>2, <1>3, <2>1, <2>2, ActsFacts DEF Abs!MSignal
  <1>4. CASE SgNone(t)
    <2>1. waiters' = waiters /\ pc'[t] # "cw_unlock_mp" /\ waiters[c] = <<>>
      BY <1>0, <1>1, <1>4 DEF SgNone, Goto, TypeOK
    <2>2. AbsQueue' = AbsQueue
      BY <1>0, <2>1, SameQueues
    <2>3. AbsQueue = [AbsQueue EXCEPT ![c] = <<>>] /\ AbsQueue[c] = <<>>
      <3>1. AbsQueue = [d \in Conds |-> AbsQueue[d]]
        BY DEF AbsQueue
      <3> QED
        BY <1>2, <2>1, <3>1
    <2> QED
      BY <1>0, <1>1, <1>4, <2>2, <2>3, ActsFacts DEF Abs!MSignal
  <1> QED
    BY <1>3, <1>4

\* A broadcast takes everybody.
LEMMA DetachIsMBroadcast ==
  ASSUME MonInv, MonInv', NEW t \in Threads, BcDetach(t)
  PROVE  \E c \in Conds : Abs!MBroadcast(t, c)
  <1>0. TypeInv /\ LibStep(t) /\ pc[t] = "bc_detach"
    BY DEF MonInv, CVInv, LibStep, BcDetach, At
  <1>1. PICK c \in Conds : c = cv[t]
    BY <1>0 DEF TypeInv, ArgsOK, UsesCv
  <1>2. waiters' = [waiters EXCEPT ![c] = <<>>]
    BY <1>1 DEF BcDetach
  <1>3. Tail(waiters[c]) = <<>> => waiters[c] # <<>> \/ <<>> = waiters[c]
    OBVIOUS
  <1>4. AbsQueue' = [AbsQueue EXCEPT ![c] = <<>>]
    <2>1. CASE waiters[c] = <<>>
      <3>1. waiters' = waiters /\ pc'[t] # "cw_unlock_mp"
        BY <1>0, <1>2, <2>1 DEF BcDetach, Goto, TypeInv, TypeOK
      <3>2. AbsQueue' = AbsQueue
        BY <1>0, <3>1, SameQueues
      <3>3. AbsQueue[c] = <<>> /\ AbsQueue = [d \in Conds |-> AbsQueue[d]]
        BY <2>1 DEF AbsQueue
      <3> QED
        BY <3>2, <3>3
    <2>2. CASE waiters[c] # <<>>
      BY <1>0, <1>1, <1>2, <2>2, QueueFollows
    <2> QED
      BY <2>1, <2>2
  <1> QED
    BY <1>1, <1>4, ActsFacts DEF Abs!MBroadcast

----------------------------------------------------------------------------
(* The refinement.                                                           *)

\* Every step of a thread is a step of the monitor, or one that callers do
\* not see.
LEMMA StepIsMStep ==
  ASSUME MonInv, MonInv', NEW t \in Threads, LibStep(t) \/ ClientStep(t)
  PROVE  [Abs!MNext]_(Abs!mvars)
  <1>1. CASE \E m \in Mutexes : Lock(t, m)
    BY <1>1, LockIsMLock DEF Abs!MNext
  <1>2. CASE Unlock(t)
    BY <1>2, UnlockIsMUnlock DEF Abs!MNext
  <1>3. CASE \E c \in Conds : CondSignal(t, c) \/ CondBroadcast(t, c)
    BY <1>3, CallIsMNotify DEF Abs!MNext
  <1>4. CASE CwUnlockMp(t)
    BY <1>4, UnlockMpIsMWait DEF Abs!MNext
  <1>5. CASE CwRelock(t)
    BY <1>5, RelockIsMReturn DEF Abs!MNext
  <1>6. CASE SgPop(t) \/ SgNone(t)
    BY <1>6, PopIsMSignal DEF Abs!MNext
  <1>7. CASE BcDetach(t)
    BY <1>7, DetachIsMBroadcast DEF Abs!MNext
  <1>8. CASE CwEnq(t)
    <2>0. TypeInv /\ TypeOK /\ LibStep(t)
      BY <1>8 DEF MonInv, CVInv, TypeInv, LibStep
    <2>1. /\ pc[t] = "cw_enq" /\ pc'[t] = "cw_unlock_mp" /\ mp' = mp
          /\ cv[t] \in Conds /\ waiters' = [waiters EXCEPT ![cv[t]] = Append(@, t)]
      BY <1>8, <2>0 DEF CwEnq, At, Goto, TypeInv, TypeOK, ArgsOK, UsesCv
    <2>2. AbsOwner' = AbsOwner
      <3>1. \A m \in Mutexes : Owns(t, m)' <=> Owns(t, m)
        BY <2>1 DEF Owns, WithoutMp
      <3> QED
        BY <2>0, <3>1, SameOwners, SeenExactNext
    <2>3. AbsWaiting' = AbsWaiting /\ AbsPending' = AbsPending
      <3>1. AbsWaiting'[t] = AbsWaiting[t] /\ AbsPending'[t] = AbsPending[t]
        BY <2>1, SeenExactNext DEF WaitingExact, PendingExact, WithoutMp
      <3> QED
        BY <2>0, <3>1, KeepsSight
    <2>4. AbsQueue' = AbsQueue
      <3> DEFINE w == waiters[cv[t]]
      <3>1. w \in Seq(Threads) /\ waiters'[cv[t]] = Append(w, t)
        BY <2>0, <2>1 DEF TypeOK
      <3>2. AbsQueue[cv[t]] = w
        BY <2>1, WholeQueue DEF InWcb, FallingAsleep
      <3>3. /\ Append(w, t) # <<>> /\ Append(w, t)[Len(Append(w, t))] = t
            /\ SubSeq(Append(w, t), 1, Len(Append(w, t)) - 1) = w
        BY <3>1, FrontOfAppend
      <3>4. AbsQueue'[cv[t]] = w
        BY <2>1, <3>1, <3>3 DEF AbsQueue
      <3>5. ASSUME NEW d \in Conds, d # cv[t] PROVE AbsQueue'[d] = AbsQueue[d]
        <4>1. waiters'[d] = waiters[d] /\ waiters[d] \in Seq(Threads)
          BY <2>0, <2>1, <3>5 DEF TypeOK
        <4>2. waiters[d] # <<>> =>
                waiters[d][Len(waiters[d])] \in Threads /\ waiters[d][Len(waiters[d])] # t
          <5>1. t \notin Members(waiters[d])
            BY <2>1 DEF MonInv, CVInv, SleepInv, ListedOK, FallingAsleep, Asleep
          <5> QED
            BY <4>1, <5>1 DEF Members
        <4>3. \A u \in Threads : u # t => pc'[u] = pc[u]
          BY <2>0, StepOthersKeep
        <4> QED
          BY <4>1, <4>2, <4>3 DEF AbsQueue
      <3>6. AbsQueue = [d \in Conds |-> AbsQueue[d]] /\ AbsQueue' = [d \in Conds |-> AbsQueue'[d]]
        BY DEF AbsQueue
      <3> QED
        BY <3>2, <3>4, <3>5, <3>6
    <2> QED
      BY <2>2, <2>3, <2>4 DEF Abs!mvars
  <1>9. CASE \/ Complete(t) \/ \E c \in Conds : CondWait(t, c)
             \/ CwWorld(t) \/ CwWcb(t) \/ CwUnlockWorld(t) \/ CwStop(t) \/ CwResume(t)
             \/ SgLock(t) \/ SgCas(t) \/ SgUnlock(t)
             \/ BcLock(t) \/ BcUnlock(t) \/ BcPop(t) \/ BcCas(t) \/ BcDone(t)
    <2>1. UNCHANGED Abs!mvars
      <3>1. /\ waiters' = waiters /\ mp' = mp
            /\ pc[t] # "cw_unlock_mp" /\ pc'[t] # "cw_unlock_mp"
            /\ pc'[t] \in WithoutMp <=> pc[t] \in WithoutMp
            /\ \/ pc'[t] \in {"sg_lock", "sg_pop"} /\ pc[t] \in {"sg_lock", "sg_pop"} /\ cv' = cv
               \/ pc'[t] \in {"bc_lock", "bc_detach"} /\ pc[t] \in {"bc_lock", "bc_detach"} /\ cv' = cv
               \/ {pc[t], pc'[t]} \cap {"sg_lock", "sg_pop", "bc_lock", "bc_detach"} = {}
        BY <1>9 DEF MonInv, CVInv, TypeInv, TypeOK, WithoutMp, At, MayCall, Goto,
           Complete, CondWait, CwWorld, CwWcb, CwUnlockWorld, CwStop, CwResume, SgLock,
           SgCas, SgUnlock, BcLock, BcUnlock, BcPop, BcCas, BcDone
      <3> QED
        BY <3>1, InvisibleStep
    <2> QED
      BY <2>1
  <1> QED
    BY <1>1, <1>2, <1>3, <1>4, <1>5, <1>6, <1>7, <1>8, <1>9 DEF LibStep, ClientStep

\* Mutexes and condition variables implement the monitor: a wait releases and
\* queues in one step, a signal takes the oldest waiter, a broadcast all of
\* them, and a started thread returns owning its mutex.
THEOREM ImplementsMonitorHolds == CVSpec => ImplementsMonitor
  <1>1. CVInit => Abs!MInit
    <2> SUFFICES ASSUME CVInit PROVE Abs!MInit
      OBVIOUS
    <2>1. AbsOwner = [m \in Mutexes |-> None]
      BY CondVarAssumption DEF CVInit, AbsOwner
    <2>2. AbsQueue = [c \in Conds |-> <<>>]
      BY DEF CVInit, AbsQueue
    <2>3. AbsWaiting = [t \in Threads |-> None] /\ AbsPending = [t \in Threads |-> None]
      BY DEF CVInit, AbsWaiting, AbsPending, WithoutMp
    <2> QED
      BY <2>1, <2>2, <2>3 DEF Abs!MInit
  <1>2. MonInv /\ MonInv' /\ [CVNext]_cvvars => [Abs!MNext]_(Abs!mvars)
    <2> SUFFICES ASSUME MonInv, MonInv', [CVNext]_cvvars PROVE [Abs!MNext]_(Abs!mvars)
      OBVIOUS
    <2>1. CASE CVNext
      BY <2>1, StepIsMStep DEF CVNext
    <2>2. CASE UNCHANGED cvvars
      BY <2>2 DEF cvvars, Abs!mvars, AbsOwner, AbsQueue, AbsWaiting, AbsPending
    <2> QED
      BY <2>1, <2>2
  <1> QED
    BY <1>1, <1>2, MonInvHolds, PTL DEF CVSpec, ImplementsMonitor
=============================================================================
