----------------------------- MODULE KernSched -----------------------------
(***************************************************************************)
(* The kernel's scheduler (sched.c), its semaphores (sync.c), the timer    *)
(* tick (timer_driver.c) and the system calls that move a thread between   *)
(* queues without creating or ending one: sleep, yield and cas2i_runflag.  *)
(* One processor: cur is the running thread, and every action but a tick   *)
(* or a device interrupt is a step of cur.                                 *)
(*                                                                         *)
(* An action is a stretch of code the timer cannot interrupt, or where an  *)
(* interrupt finds what it finds before or after it.  The windows are the  *)
(* labels a thread reaches on a queue, or half on one, still running and   *)
(* with interrupts on.  Interrupts are taken there as anywhere.  One that  *)
(* queues the thread it finds there puts it on a second queue through the  *)
(* one link it has: caught records it, and the model says no more of what  *)
(* comes after.                                                            *)
(***************************************************************************)
EXTENDS Integers, FiniteSets, Sequences, SequencesExt

CONSTANTS
  Threads,      \* kernel threads, the idle thread apart
  Idle,         \* the initial thread of the idle task
  RunQ,         \* kern_scheduler.run_queue
  SlackQ,       \* kern_slackers_kthread_head, the sleepers
  Locks,        \* semaphores used as locks: fork_lock, malloc_mutex
  Events,       \* semaphores used to wait for something: vultures, wait_for_chars
  MaxFlag,      \* bound: user space gives run flags down to -MaxFlag; -2 in libthread
  MaxCount,     \* bound: signals kept by a semaphore of Events
  MaxTicks      \* bound: the argument of sleep

Sems == Locks \cup Events
FlagValues == -MaxFlag..0
Queued == {RunQ, SlackQ} \cup Sems

\* The labels at which cur is on a queue, or half on it, with interrupts on.
Windows == {"sem_sched", "sl_link", "sl_tail", "sl_sched"}

PCs == Windows \cup {"run", "sem_ret", "cas_sched"}

ASSUME KernSchedAssumption ==
  /\ IsFiniteSet(Threads)
  /\ Idle \notin Threads
  /\ Locks \cap Events = {}
  /\ RunQ # SlackQ /\ {RunQ, SlackQ} \cap Sems = {}
  /\ (Threads \cup {Idle}) \cap Queued = {}
  /\ MaxFlag \in Nat
  /\ MaxCount \in Nat /\ MaxTicks \in Int

INSTANCE VariableQueue WITH Elems <- Threads, Heads <- Queued

VARIABLES
  cur,         \* CURRENT_THREAD
  q,           \* the links of every queue, and of every thread's kthread_wait
  runFlag,     \* run_flag of every thread
  sleepticks,  \* sleepticks of every thread
  count,       \* count of every semaphore
  pc,          \* where every thread is in the kernel; "run" is in user space
  arg,         \* the semaphore of a sem_wait, pElemPrev of an insertion
  holds,       \* the locks a thread has waited for and not signalled yet
  caught       \* history: an interrupt has queued the thread it found in a window

kvars == <<cur, q, runFlag, sleepticks, count, pc, arg, holds, caught>>

\* The run queue once the threads of s were made, one after the other.
Enqueued(s) ==
  LET fill[k \in 0..Len(s)] ==
        IF k = 0 THEN QInitial ELSE QInsertTail(fill[k - 1], RunQ, s[k])
  IN  fill[Len(s)]

\* The idle thread runs; every thread is fresh on the run queue.
KInit ==
  /\ cur = Idle
  /\ \E s \in SetToSeqs(Threads) : q = Enqueued(s)
  /\ runFlag = [t \in Threads |-> 0]
  /\ sleepticks = [t \in Threads |-> 0]
  /\ count = [s \in Sems |-> IF s \in Locks THEN 1 ELSE 0]
  /\ pc = [t \in Threads |-> "run"]
  /\ arg = [t \in Threads |-> RunQ]
  /\ holds = [t \in Threads |-> {}]
  /\ caught = FALSE

----------------------------------------------------------------------------
(* The scheduler. *)

\* Mutant: a stopped thread stays at the front.
ChoiceStuck(r) ==
  LET front == r.next[RunQ]
  IN  IF QHeadEmpty(r, RunQ) THEN [thread |-> Idle, queue |-> r]
      ELSE IF front \in Queued THEN [thread |-> Idle, queue |-> [r EXCEPT !.wild = TRUE]]
      ELSE [thread |-> IF runFlag[front] < 0 THEN Idle ELSE front, queue |-> r]

\* schedule's choice: the front of the run queue, unless its run flag is
\* negative; then the front goes to the tail and the idle thread is chosen.
\* An empty queue too leaves the idle thread.
Choice(r) ==
  LET front == r.next[RunQ]
  IN  IF QHeadEmpty(r, RunQ) THEN [thread |-> Idle, queue |-> r]
      ELSE IF front \in Queued THEN [thread |-> Idle, queue |-> [r EXCEPT !.wild = TRUE]]
      ELSE IF runFlag[front] < 0
           THEN [thread |-> Idle, queue |-> QInsertTail(QRemove(r, RunQ, front), RunQ, front)]
           ELSE [thread |-> front, queue |-> r]

\* schedule(isCurrentRunnable), with the links as r: nothing happens when the
\* choice is the thread that runs already.
Schedule(r, isCurrentRunnable) ==
  \E next \in {Choice(r).thread}, chosen \in {Choice(r).queue} :
    /\ cur' = next
    /\ IF next = cur THEN q' = chosen
       ELSE \E removed \in {IF next = Idle THEN chosen ELSE QRemove(chosen, RunQ, next)} :
              q' = IF cur # Idle /\ isCurrentRunnable
                   THEN QInsertTail(removed, RunQ, cur) ELSE removed

\* The thread that runs is at label l; the links still mean something.
At(t, l) == cur = t /\ pc[t] = l /\ ~ caught

Goto(t, l) == pc' = [pc EXCEPT ![t] = l]

\* A thread enters a blocking system call, or sem_wait, with no lock held.
MayBlock(t) == At(t, "run") /\ holds[t] = {}

\* The idle loop.
IdleLoop ==
  /\ cur = Idle /\ ~ caught
  /\ Schedule(q, TRUE)
  /\ UNCHANGED <<runFlag, sleepticks, count, pc, arg, holds, caught>>

----------------------------------------------------------------------------
(* Semaphores.  The window of sem_wait: the thread is on the semaphore's     *)
(* queue, interrupts are back on, and it has not called schedule(0) yet.     *)

\* Mutant: a count of zero lets one more in.
SemWaitOneMore(t, s) ==
  /\ MayBlock(t)
  /\ count' = [count EXCEPT ![s] = @ - 1]
  /\ IF count[s] >= 0
     THEN /\ Goto(t, "sem_ret")
          /\ q' = q
     ELSE /\ Goto(t, "sem_sched")
          /\ q' = QInsertTail(q, s, t)
  /\ arg' = [arg EXCEPT ![t] = s]
  /\ UNCHANGED <<cur, runFlag, sleepticks, holds, caught>>

SemWait(t, s) ==
  /\ MayBlock(t)
  /\ count' = [count EXCEPT ![s] = @ - 1]
  /\ IF count[s] > 0
     THEN /\ Goto(t, "sem_ret")
          /\ q' = q
     ELSE /\ Goto(t, "sem_sched")
          /\ q' = QInsertTail(q, s, t)
  /\ arg' = [arg EXCEPT ![t] = s]
  /\ UNCHANGED <<cur, runFlag, sleepticks, holds, caught>>

\* Mutant: schedule(1), which makes the waiting thread runnable.
SemSchedRunnable(t) ==
  /\ At(t, "sem_sched")
  /\ Schedule(q, TRUE)
  /\ Goto(t, "sem_ret")
  /\ UNCHANGED <<runFlag, sleepticks, count, arg, holds, caught>>

SemSched(t) ==
  /\ At(t, "sem_sched")
  /\ Schedule(q, FALSE)
  /\ Goto(t, "sem_ret")
  /\ UNCHANGED <<runFlag, sleepticks, count, arg, holds, caught>>

\* sem_wait returns: the caller has what it waited for.
SemRet(t) ==
  /\ At(t, "sem_ret")
  /\ holds' = [holds EXCEPT ![t] = IF arg[t] \in Locks THEN @ \cup {arg[t]} ELSE @]
  /\ arg' = [arg EXCEPT ![t] = RunQ]
  /\ Goto(t, "run")
  /\ UNCHANGED <<cur, q, runFlag, sleepticks, count, caught>>

\* Mutant: the count is compared after it was incremented.
SemSignalLate(s) ==
  LET first == q.next[s]
  IN  /\ count' = [count EXCEPT ![s] = @ + 1]
      /\ q' = IF count'[s] >= 0 \/ QHeadEmpty(q, s) THEN q
              ELSE IF first \in Queued THEN [q EXCEPT !.wild = TRUE]
              ELSE QInsertTail(QRemove(q, s, first), RunQ, first)

\* sem_signal: the first waiter, if the count says there is one, goes to the
\* run queue.
SemSignal(s) ==
  LET first == q.next[s]
  IN  /\ count' = [count EXCEPT ![s] = @ + 1]
      /\ q' = IF count[s] >= 0 \/ QHeadEmpty(q, s) THEN q
              ELSE IF first \in Queued THEN [q EXCEPT !.wild = TRUE]
              ELSE QInsertTail(QRemove(q, s, first), RunQ, first)

\* A holder gives its lock back; a thread signals an event.
Signal(t, s) ==
  /\ At(t, "run")
  /\ s \in holds[t] \/ (s \in Events /\ count[s] < MaxCount)
  /\ SemSignal(s)
  /\ holds' = [holds EXCEPT ![t] = @ \ {s}]
  /\ UNCHANGED <<cur, runFlag, sleepticks, pc, arg, caught>>

----------------------------------------------------------------------------
(* sleep(ticks).  The insertion into the sleepers' queue runs with           *)
(* interrupts on, and so does the way from there to schedule(0).             *)

\* The argument is stored; pElemPrev is read, and the element's links set.
Sleep(t, ticks) ==
  /\ MayBlock(t)
  /\ sleepticks' = [sleepticks EXCEPT ![t] = ticks]
  /\ arg' = [arg EXCEPT ![t] = q.prev[SlackQ]]
  /\ q' = [q EXCEPT !.next[t] = SlackQ, !.prev[t] = q.prev[SlackQ]]
  /\ Goto(t, "sl_link")
  /\ UNCHANGED <<cur, runFlag, count, holds, caught>>

\* pElemPrev's next, or the head's.
SleepLink(t) ==
  /\ At(t, "sl_link")
  /\ q' = [q EXCEPT !.next[arg[t]] = t, !.wild = Foreign(SlackQ, arg[t])]
  /\ Goto(t, "sl_tail")
  /\ UNCHANGED <<cur, runFlag, sleepticks, count, arg, holds, caught>>

\* The head's prev, and the number of elements.
SleepTail(t) ==
  /\ At(t, "sl_tail")
  /\ q' = [q EXCEPT !.prev[SlackQ] = t, !.nr[SlackQ] = @ + 1]
  /\ Goto(t, "sl_sched")
  /\ UNCHANGED <<cur, runFlag, sleepticks, count, arg, holds, caught>>

SleepSched(t) ==
  /\ At(t, "sl_sched")
  /\ Schedule(q, FALSE)
  /\ arg' = [arg EXCEPT ![t] = RunQ]
  /\ Goto(t, "run")
  /\ UNCHANGED <<runFlag, sleepticks, count, holds, caught>>

----------------------------------------------------------------------------
(* yield and cas2i_runflag. *)

\* yield(tid) schedules unless tid is a thread that may not run.  yield(-1)
\* reads the run flag of a thread that is not there, and may do either.
Yield(t) ==
  /\ MayBlock(t)
  /\ Schedule(q, TRUE)
  /\ UNCHANGED <<runFlag, sleepticks, count, pc, arg, holds, caught>>

\* cas2i_runflag(u, oldp, ev1, nv1, ev2, nv2): both comparisons are with the
\* old flag; a negative value for another thread is refused when its turn
\* comes, which may be after the first store.
Cas2i(t, u, ev1, nv1, ev2, nv2) ==
  LET old      == runFlag[u]
      refused1 == old = ev1 /\ nv1 < 0 /\ u # t
      refused2 == old = ev2 /\ nv2 < 0 /\ u # t
      mid      == IF old = ev1 THEN nv1 ELSE old
  IN  /\ MayBlock(t)
      /\ IF refused1 THEN runFlag' = runFlag
         ELSE runFlag' = [runFlag EXCEPT ![u] = IF old = ev2 /\ ~ refused2 THEN nv2 ELSE mid]
      /\ IF refused1 \/ refused2 THEN pc' = pc ELSE Goto(t, "cas_sched")
      /\ UNCHANGED <<cur, q, sleepticks, count, arg, holds, caught>>

CasSched(t) ==
  /\ At(t, "cas_sched")
  /\ Schedule(q, TRUE)
  /\ Goto(t, "run")
  /\ UNCHANGED <<runFlag, sleepticks, count, arg, holds, caught>>

----------------------------------------------------------------------------
(* Interrupts. *)

\* The running thread is on a queue, or half on it, with interrupts on.
InWindow == cur \in Threads /\ pc[cur] \in Windows

\* One round of sleep_bottom_half: the element the walk stands on, and the one
\* it saved to visit next.
Visit(w) ==
  LET left  == w.ticks[w.at] - 1
      woken == IF left > 0 THEN w.queue
               ELSE QInsertTail(QRemove(w.queue, SlackQ, w.at), RunQ, w.at)
  IN  [queue |-> woken, ticks |-> [w.ticks EXCEPT ![w.at] = left],
       at |-> w.save, save |-> woken.next[w.save]]

\* A walk that has met a queue's head is over.
Round(w) == IF w.at \in Queued THEN w ELSE Visit(w)

\* sleep_bottom_half from element e on: Q_FOREACH_DEL_SAFE over the sleepers.  A
\* walk that meets another queue's head, or more elements than there are
\* threads, does not come back.
Sweep(r, st, e) ==
  LET n == Cardinality(Threads)
      walk[k \in 0..n] ==
        IF k = 0 THEN [queue |-> r, ticks |-> st, at |-> e, save |-> r.next[e]]
        ELSE CHOOSE v \in {Round(w) : w \in {walk[k - 1]}} : TRUE
  IN  [queue |-> IF walk[n].at = SlackQ THEN walk[n].queue
                 ELSE [walk[n].queue EXCEPT !.wild = TRUE],
       ticks |-> walk[n].ticks]

\* Mutant: the sleepers are visited twice in a tick.
TickTwice ==
  /\ ~ caught
  /\ \E once \in {Sweep(q, sleepticks, q.next[SlackQ])} :
       \E swept \in {Sweep(once.queue, once.ticks, once.queue.next[SlackQ])} :
         /\ sleepticks' = swept.ticks
         /\ Schedule(swept.queue, TRUE)
  /\ caught' = InWindow
  /\ UNCHANGED <<runFlag, count, pc, arg, holds>>

\* Mutant: a tick that finds the idle thread does not visit the sleepers.
TickIdle ==
  /\ ~ caught
  /\ \E swept \in {Sweep(q, sleepticks, IF cur = Idle THEN SlackQ ELSE q.next[SlackQ])} :
       /\ sleepticks' = swept.ticks
       /\ Schedule(swept.queue, TRUE)
  /\ caught' = InWindow
  /\ UNCHANGED <<runFlag, count, pc, arg, holds>>

\* The timer: the sleepers, then the scheduler's call back, which puts the
\* running thread on the run queue wherever it was.
Tick ==
  /\ ~ caught
  /\ \E swept \in {Sweep(q, sleepticks, q.next[SlackQ])} :
       /\ sleepticks' = swept.ticks
       /\ Schedule(swept.queue, TRUE)
  /\ caught' = InWindow
  /\ UNCHANGED <<runFlag, count, pc, arg, holds>>

\* A device signals from its interrupt handler, as the keyboard does.  The
\* first waiter may be the running thread.
Interrupt(s) ==
  /\ ~ caught
  /\ count[s] < MaxCount
  /\ SemSignal(s)
  /\ caught' = (InWindow /\ count[s] < 0 /\ q.next[s] = cur)
  /\ UNCHANGED <<cur, runFlag, sleepticks, pc, arg, holds>>

----------------------------------------------------------------------------

Call(t) ==
  \/ \E s \in Sems : SemWait(t, s)
  \/ \E s \in Events : Signal(t, s)
  \/ \E n \in 0..MaxTicks : Sleep(t, n)
  \/ Yield(t)
  \/ \E u \in Threads, ev1, nv1, ev2, nv2 \in FlagValues : Cas2i(t, u, ev1, nv1, ev2, nv2)

\* What a thread does once it is in the kernel, or holds a lock of it.
KernStep(t) ==
  \/ SemSched(t) \/ SemRet(t) \/ \E s \in Locks : Signal(t, s)
  \/ SleepLink(t) \/ SleepTail(t) \/ SleepSched(t)
  \/ CasSched(t)

KNext ==
  \/ \E t \in Threads : Call(t) \/ KernStep(t)
  \/ IdleLoop
  \/ Tick
  \/ \E s \in Events : Interrupt(s)

KSpec == KInit /\ [][KNext]_kvars

\* A thread in the kernel executes some of it whenever it runs, and an
\* interrupt stays pending until it is taken.
KFairSpec ==
  /\ KSpec
  /\ \A t \in Threads : SF_kvars(KernStep(t))
  /\ WF_kvars(IdleLoop) /\ WF_kvars(Tick)
=============================================================================
