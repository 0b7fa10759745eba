------------------------------ MODULE CondVar ------------------------------
(***************************************************************************)
(* The user-space synchronisation core of libthread: spinning mutexes      *)
(* (mutex.c), wait control blocks (wait_control_block.c) and condition     *)
(* variables (cond_var.c) on top of two atomic kernel services, the        *)
(* instruction xchg and the system call cas2i_runflag.                     *)
(*                                                                         *)
(* A thread runs only while its kernel run flag is not negative.  Every    *)
(* action below is a stretch of code between two accesses to memory other  *)
(* threads touch; the timer may preempt a thread between any two of them.  *)
(* A failed xchg leaves the word as it was and yields, so the retry loop   *)
(* of mutex_lock is an action that waits for the word to be clear.         *)
(***************************************************************************)
EXTENDS Integers, Sequences

CONSTANTS
  Threads,   \* threads of the task
  Mutexes,   \* mutex_t objects, the task's own lock among them
  World,     \* the mutex anchorThrdsMutex of the task control block
  Conds,     \* cond_t objects; c also names the mutex of its control block
  None

ASSUME CondVarAssumption ==
  /\ World \in Mutexes
  /\ Mutexes \cap Conds = {}
  /\ None \notin Mutexes \cup Conds \cup Threads

Running == 0
Stopped == -1
Invalid == -2

Locks == Mutexes \cup Conds

VARIABLES
  locked,    \* is_locked of every mutex, waiters_list_mutex included
  waiters,   \* the list at waiters_anchor of every condition variable
  runFlag,   \* the kernel's run_flag of every thread
  state,     \* THREAD_STATE of every thread control block
  pc,        \* where every thread is
  mp,        \* the mutex its caller holds, and passes to cond_wait
  cv,        \* the condition variable of the call in progress
  tgt,       \* pThis_thread of a wake-up: the thread about to be started
  batch      \* new_head of wakeup_all: the waiters it detached

cvvars == <<locked, waiters, runFlag, state, pc, mp, cv, tgt, batch>>

\* THREAD_STATE_INIT is left out: a control block leaves it before any other
\* thread can find the block (thr_create, modelled by ThreadLib).
ThreadStates == {"RUNNABLE", "WAITING", "COMPLETED"}

PCs == {"run", "cw_world", "cw_wcb", "cw_enq", "cw_unlock_mp",
        "cw_unlock_world", "cw_stop", "cw_resume", "cw_relock",
        "sg_lock", "sg_pop", "sg_cas", "sg_unlock",
        "bc_lock", "bc_detach", "bc_unlock", "bc_next", "bc_cas"}

\* The members of a list.
Members(s) == {s[i] : i \in DOMAIN s}

CVInit ==
  /\ locked  = [l \in Locks |-> FALSE]
  /\ waiters = [c \in Conds |-> <<>>]
  /\ runFlag = [t \in Threads |-> Running]
  /\ state   = [t \in Threads |-> "RUNNABLE"]
  /\ pc      = [t \in Threads |-> "run"]
  /\ mp      = [t \in Threads |-> None]
  /\ cv      = [t \in Threads |-> None]
  /\ tgt     = [t \in Threads |-> None]
  /\ batch   = [t \in Threads |-> <<>>]

----------------------------------------------------------------------------
(* The shared steps. *)

\* The kernel schedules t, and t is at label l.
At(t, l) == pc[t] = l /\ runFlag[t] >= 0

Goto(t, l) == pc' = [pc EXCEPT ![t] = l]

\* Mutant: an exchange whose old value nobody looks at.
AcquireBlindly(l) == locked' = [locked EXCEPT ![l] = TRUE]

\* mutex_lock: the xchg that finds the word clear.
Acquire(l) ==
  /\ ~ locked[l]
  /\ locked' = [locked EXCEPT ![l] = TRUE]

\* mutex_unlock: no look at who holds the mutex.
Release(l) == locked' = [locked EXCEPT ![l] = FALSE]

\* cas2i_runflag(tid, oldp, ev1, nv1, ev2, nv2): the flag of thread u as the
\* system call leaves it.  The system call is one step: the kernel holds
\* preemption off from the read of the flag to the second comparison.
Cas2i(u, ev1, nv1, ev2, nv2) ==
  LET old == runFlag[u]
      mid == IF old = ev1 THEN nv1 ELSE old
  IN  runFlag' = [runFlag EXCEPT ![u] = IF old = ev2 THEN nv2 ELSE mid]

----------------------------------------------------------------------------
(* The caller: locks and unlocks one mutex at a time.  A thread that has     *)
(* marked itself completed is on its way out of thr_exit: it only signals    *)
(* its joiner and unlocks.                                                   *)

MayCall(t) == At(t, "run") /\ state[t] # "COMPLETED"

Lock(t, m) ==
  /\ MayCall(t) /\ mp[t] = None
  /\ Acquire(m)
  /\ mp' = [mp EXCEPT ![t] = m]
  /\ UNCHANGED <<waiters, runFlag, state, pc, cv, tgt, batch>>

Unlock(t) ==
  /\ At(t, "run") /\ mp[t] # None
  /\ Release(mp[t])
  /\ mp' = [mp EXCEPT ![t] = None]
  /\ UNCHANGED <<waiters, runFlag, state, pc, cv, tgt, batch>>

\* thr_exit marks the thread's control block with the world lock held.
Complete(t) ==
  /\ MayCall(t) /\ mp[t] = World
  /\ state' = [state EXCEPT ![t] = "COMPLETED"]
  /\ UNCHANGED <<locked, waiters, runFlag, pc, mp, cv, tgt, batch>>

----------------------------------------------------------------------------
(* cond_wait(cv, mp). *)

\* Mutant: the world lock is taken even when the caller's mutex is that lock.
CondWaitWorldTwice(t, c) ==
  /\ MayCall(t) /\ mp[t] # None
  /\ cv' = [cv EXCEPT ![t] = c]
  /\ Goto(t, "cw_world")
  /\ UNCHANGED <<locked, waiters, runFlag, state, mp, tgt, batch>>

\* The world lock is taken unless the caller's mutex is the world lock.
CondWait(t, c) ==
  /\ MayCall(t) /\ mp[t] # None
  /\ cv' = [cv EXCEPT ![t] = c]
  /\ Goto(t, IF mp[t] = World THEN "cw_wcb" ELSE "cw_world")
  /\ UNCHANGED <<locked, waiters, runFlag, state, mp, tgt, batch>>

CwWorld(t) ==
  /\ At(t, "cw_world")
  /\ Acquire(World)
  /\ Goto(t, "cw_wcb")
  /\ UNCHANGED <<waiters, runFlag, state, mp, cv, tgt, batch>>

CwWcb(t) ==
  /\ At(t, "cw_wcb")
  /\ Acquire(cv[t])
  /\ Goto(t, "cw_enq")
  /\ UNCHANGED <<waiters, runFlag, state, mp, cv, tgt, batch>>

\* sleep_on_unprotected, then the thread's own state.
CwEnq(t) ==
  /\ At(t, "cw_enq")
  /\ waiters' = [waiters EXCEPT ![cv[t]] = Append(@, t)]
  /\ state' = [state EXCEPT ![t] = "WAITING"]
  /\ Goto(t, "cw_unlock_mp")
  /\ UNCHANGED <<locked, runFlag, mp, cv, tgt, batch>>

CwUnlockMp(t) ==
  /\ At(t, "cw_unlock_mp")
  /\ Release(mp[t])
  /\ Goto(t, IF mp[t] = World THEN "cw_stop" ELSE "cw_unlock_world")
  /\ UNCHANGED <<waiters, runFlag, state, mp, cv, tgt, batch>>

CwUnlockWorld(t) ==
  /\ At(t, "cw_unlock_world")
  /\ Release(World)
  /\ Goto(t, "cw_stop")
  /\ UNCHANGED <<waiters, runFlag, state, mp, cv, tgt, batch>>

\* Mutant: the new values of the two pairs are swapped.
CwStopSwapped(t) ==
  /\ At(t, "cw_stop")
  /\ locked' = [locked EXCEPT ![cv[t]] = runFlag[t] # 0]
  /\ Cas2i(t, Running, Invalid, Invalid, Stopped)
  /\ Goto(t, "cw_resume")
  /\ UNCHANGED <<waiters, state, mp, cv, tgt, batch>>

\* cas2i_runflag on the thread itself: oldp is the address of the control
\* block's is_locked, so that storing the old flag there, Running = 0,
\* releases the control block in the same step that stops the thread.
CwStop(t) ==
  /\ At(t, "cw_stop")
  /\ locked' = [locked EXCEPT ![cv[t]] = runFlag[t] # 0]
  /\ Cas2i(t, Running, Stopped, Invalid, Invalid)
  /\ Goto(t, "cw_resume")
  /\ UNCHANGED <<waiters, state, mp, cv, tgt, batch>>

CwResume(t) ==
  /\ At(t, "cw_resume")
  /\ state' = [state EXCEPT ![t] = "RUNNABLE"]
  /\ Goto(t, "cw_relock")
  /\ UNCHANGED <<locked, waiters, runFlag, mp, cv, tgt, batch>>

CwRelock(t) ==
  /\ At(t, "cw_relock")
  /\ Acquire(mp[t])
  /\ cv' = [cv EXCEPT ![t] = None]
  /\ Goto(t, "run")
  /\ UNCHANGED <<waiters, runFlag, state, mp, tgt, batch>>

----------------------------------------------------------------------------
(* cond_signal(cv): wakeup_first_waiter with no mutex to release. *)

CondSignal(t, c) ==
  /\ At(t, "run")
  /\ cv' = [cv EXCEPT ![t] = c]
  /\ Goto(t, "sg_lock")
  /\ UNCHANGED <<locked, waiters, runFlag, state, mp, tgt, batch>>

SgLock(t) ==
  /\ At(t, "sg_lock")
  /\ Acquire(cv[t])
  /\ Goto(t, "sg_pop")
  /\ UNCHANGED <<waiters, runFlag, state, mp, cv, tgt, batch>>

\* Mutant: the first waiter is read, and stays on the list.
SgPopKeeps(t) ==
  /\ At(t, "sg_pop")
  /\ waiters[cv[t]] # <<>>
  /\ tgt' = [tgt EXCEPT ![t] = Head(waiters[cv[t]])]
  /\ state' = [state EXCEPT ![Head(waiters[cv[t]])] = "RUNNABLE"]
  /\ Goto(t, "sg_cas")
  /\ UNCHANGED <<locked, waiters, runFlag, mp, cv, batch>>

\* Mutant: dlist_pop_tail instead of dlist_pop_head.
SgPopLast(t) ==
  /\ At(t, "sg_pop")
  /\ waiters[cv[t]] # <<>>
  /\ LET last == waiters[cv[t]][Len(waiters[cv[t]])]
     IN  /\ tgt' = [tgt EXCEPT ![t] = last]
         /\ state' = [state EXCEPT ![last] = "RUNNABLE"]
  /\ waiters' = [waiters EXCEPT ![cv[t]] = SubSeq(@, 1, Len(@) - 1)]
  /\ Goto(t, "sg_cas")
  /\ UNCHANGED <<locked, runFlag, mp, cv, batch>>

\* The first waiter leaves the list, or there is none.
SgPop(t) ==
  /\ At(t, "sg_pop")
  /\ waiters[cv[t]] # <<>>
  /\ waiters' = [waiters EXCEPT ![cv[t]] = Tail(@)]
  /\ tgt' = [tgt EXCEPT ![t] = Head(waiters[cv[t]])]
  /\ state' = [state EXCEPT ![Head(waiters[cv[t]])] = "RUNNABLE"]
  /\ Goto(t, "sg_cas")
  /\ UNCHANGED <<locked, runFlag, mp, cv, batch>>

SgNone(t) ==
  /\ At(t, "sg_pop")
  /\ waiters[cv[t]] = <<>>
  /\ Goto(t, "sg_unlock")
  /\ UNCHANGED <<locked, waiters, runFlag, state, mp, cv, tgt, batch>>

\* Mutant: expected and new value of the first pair are swapped.
SgCasSwapped(t) ==
  /\ At(t, "sg_cas")
  /\ Cas2i(tgt[t], Running, Stopped, Running, Running)
  /\ tgt' = [tgt EXCEPT ![t] = None]
  /\ Goto(t, "sg_unlock")
  /\ UNCHANGED <<locked, waiters, state, mp, cv, batch>>

SgCas(t) ==
  /\ At(t, "sg_cas")
  /\ Cas2i(tgt[t], Stopped, Running, Running, Running)
  /\ tgt' = [tgt EXCEPT ![t] = None]
  /\ Goto(t, "sg_unlock")
  /\ UNCHANGED <<locked, waiters, state, mp, cv, batch>>

SgUnlock(t) ==
  /\ At(t, "sg_unlock")
  /\ Release(cv[t])
  /\ cv' = [cv EXCEPT ![t] = None]
  /\ Goto(t, "run")
  /\ UNCHANGED <<waiters, runFlag, state, mp, tgt, batch>>

----------------------------------------------------------------------------
(* cond_broadcast(cv): wakeup_all. *)

CondBroadcast(t, c) ==
  /\ MayCall(t)
  /\ cv' = [cv EXCEPT ![t] = c]
  /\ Goto(t, "bc_lock")
  /\ UNCHANGED <<locked, waiters, runFlag, state, mp, tgt, batch>>

BcLock(t) ==
  /\ At(t, "bc_lock")
  /\ Acquire(cv[t])
  /\ Goto(t, "bc_detach")
  /\ UNCHANGED <<waiters, runFlag, state, mp, cv, tgt, batch>>

\* The whole list moves, in order, to the caller's private head.
BcDetach(t) ==
  /\ At(t, "bc_detach")
  /\ batch' = [batch EXCEPT ![t] = waiters[cv[t]]]
  /\ waiters' = [waiters EXCEPT ![cv[t]] = <<>>]
  /\ Goto(t, "bc_unlock")
  /\ UNCHANGED <<locked, runFlag, state, mp, cv, tgt>>

BcUnlock(t) ==
  /\ At(t, "bc_unlock")
  /\ Release(cv[t])
  /\ cv' = [cv EXCEPT ![t] = None]
  /\ Goto(t, "bc_next")
  /\ UNCHANGED <<waiters, runFlag, state, mp, tgt, batch>>

\* dlist_pop_tail: the last waiter is started first.
BcPop(t) ==
  /\ At(t, "bc_next")
  /\ batch[t] # <<>>
  /\ LET last == batch[t][Len(batch[t])]
     IN  /\ tgt' = [tgt EXCEPT ![t] = last]
         /\ state' = [state EXCEPT ![last] = "RUNNABLE"]
  /\ batch' = [batch EXCEPT ![t] = SubSeq(@, 1, Len(@) - 1)]
  /\ Goto(t, "bc_cas")
  /\ UNCHANGED <<locked, waiters, runFlag, mp, cv>>

BcCas(t) ==
  /\ At(t, "bc_cas")
  /\ Cas2i(tgt[t], Stopped, Running, Invalid, Invalid)
  /\ tgt' = [tgt EXCEPT ![t] = None]
  /\ Goto(t, "bc_next")
  /\ UNCHANGED <<locked, waiters, state, mp, cv, batch>>

BcDone(t) ==
  /\ At(t, "bc_next")
  /\ batch[t] = <<>>
  /\ Goto(t, "run")
  /\ UNCHANGED <<locked, waiters, runFlag, state, mp, cv, tgt, batch>>

----------------------------------------------------------------------------

\* The steps inside the library: once called, it needs nothing of its caller.
LibStep(t) ==
  \/ CwWorld(t) \/ CwWcb(t) \/ CwEnq(t) \/ CwUnlockMp(t) \/ CwUnlockWorld(t)
  \/ CwStop(t) \/ CwResume(t) \/ CwRelock(t)
  \/ SgLock(t) \/ SgPop(t) \/ SgNone(t) \/ SgCas(t) \/ SgUnlock(t)
  \/ BcLock(t) \/ BcDetach(t) \/ BcUnlock(t) \/ BcPop(t) \/ BcCas(t) \/ BcDone(t)

ClientStep(t) ==
  \/ \E m \in Mutexes : Lock(t, m)
  \/ Unlock(t)
  \/ Complete(t)
  \/ \E c \in Conds : CondWait(t, c) \/ CondSignal(t, c) \/ CondBroadcast(t, c)

CVNext == \E t \in Threads : LibStep(t) \/ ClientStep(t)

CVSpec == CVInit /\ [][CVNext]_cvvars

\* The kernel is preemptive and round robin: a thread that can always take
\* its next step takes it.  Nothing makes a caller call, and a spinning
\* thread is not promised the lock, so no step of either has more than that.
CVFairSpec == CVSpec /\ \A t \in Threads : WF_cvvars(LibStep(t)) /\ WF_cvvars(Unlock(t))
=============================================================================
