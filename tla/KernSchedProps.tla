--------------------------- MODULE KernSchedProps ---------------------------
(***************************************************************************)
(* What the scheduler and the semaphores promise their callers, and what   *)
(* the comments of the code say of them.                                   *)
(***************************************************************************)
EXTENDS KernSched

\* The lists a queue may be; t is on the queue of h.
Lists == UNION {SetToSeqs(S) : S \in SUBSET Threads}
WellFormed(h) == \E s \in Lists : Represents(q, h, s)
On(t, h) == \E s \in Lists : t \in Range(s) /\ Represents(q, h, s)

\* Threads in the middle of sleep's insertion, done with interrupts on.
Inserting == cur \in Threads /\ pc[cur] \in {"sl_link", "sl_tail"}

\* Threads are alike.
Symmetry == Permutations(Threads)

----------------------------------------------------------------------------

\* The shape of the state.
KTypeOK ==
  /\ cur \in Threads \cup {Idle}
  /\ q \in Queues
  /\ runFlag \in [Threads -> FlagValues]
  /\ sleepticks \in [Threads -> Int]
  /\ count \in [Sems -> Int]
  /\ pc \in [Threads -> PCs]
  /\ arg \in [Threads -> Nodes]
  /\ holds \in [Threads -> SUBSET Locks]
  /\ caught \in BOOLEAN

\* Every queue is a ring, the same both ways, with its count right, although
\* one link serves them all; no link is ever followed out of its queue
\* (variable_queue.h:132-355 as sched.c, sync.c and syscall_sleep.c use it).
QueuesWellFormed ==
  /\ ~ q.wild
  /\ \A h \in Queued \ (IF Inserting THEN {SlackQ} ELSE {}) : WellFormed(h)

\* A thread is on one queue, or runs: the running thread is on none until it
\* has gone to wait (sched.c:159, "Assert running thread is not on the run
\* queue"; sync.c:189, "Running thread is already removed").
OnePlace ==
  ~ q.wild /\ ~ Inserting =>
    \A t \in Threads :
      LET places == {h \in Queued : On(t, h)}
      IN  IF t = cur
          THEN places = CASE pc[t] = "sem_sched" -> {arg[t]}
                          [] pc[t] = "sl_sched" -> {SlackQ}
                          [] OTHER -> {}
          ELSE Cardinality(places) = 1

\* Until an interrupt queues the thread it finds in a window: the state has its
\* shape, queues are rings, and each thread is where it should be.  A device's
\* signal in the middle of sleep's insertion, or of sem_wait, is no exception as
\* long as it wakes somebody else.
QueuesSound == ~ caught => KTypeOK /\ QueuesWellFormed /\ OnePlace

\* A negative count is the number of threads waiting (sync.c:168-246), until an
\* interrupt queues the thread it finds in a window.
CountIsWaiters ==
  ~ caught => \A s \in Sems : q.nr[s] = IF count[s] < 0 THEN - count[s] ELSE 0

\* A semaphore used as a lock has one holder, counting the thread sem_signal
\* has already chosen but that has not returned from sem_wait, and is free
\* for nobody while it has one; until an interrupt queues the thread it finds in
\* a window.
Granted(t, s) ==
  \/ s \in holds[t]
  \/ pc[t] = "sem_ret" /\ arg[t] = s /\ ~ On(t, s)
LockHasOneHolder ==
  ~ caught => \A s \in Locks :
    Cardinality({t \in Threads : Granted(t, s)}) = IF count[s] > 0 THEN 0 ELSE 1

\* A thread leaves the sleepers' queue only by the tick that uses up its time,
\* until an interrupt queues the thread it finds in a window.
SleepsItsTicks ==
  [][~ caught' => \A t \in Threads :
       ~ Inserting /\ ~ Inserting' /\ On(t, SlackQ) /\ ~ On(t, SlackQ)' => sleepticks[t] <= 1]_kvars

\* Nobody who may run waits for ever on the run queue, here and below as long as
\* no interrupt queues the thread it finds in a window.
RunnableRuns ==
  \A t \in Threads :
    []<>(cur = t \/ runFlag[t] < 0 \/ ~ On(t, RunQ) \/ caught)

\* Sleepers wake: from the sleepers' queue a thread gets back to the run queue,
\* or straight to the processor.
SleepersWake == \A t \in Threads : On(t, SlackQ) ~> cur = t \/ On(t, RunQ) \/ caught

\* A lock is granted to everyone who waits for it.
LockGranted ==
  \A t \in Threads, s \in Locks : pc[t] = "sem_ret" /\ arg[t] = s ~> s \in holds[t] \/ caught

----------------------------------------------------------------------------
(* What the comments say. *)

\* "there will be no context switch in between": a thread that has put itself
\* on a semaphore's queue runs until its own call of schedule (sync.c:187).
NoSwitchInBetween ==
  [][\A t \in Threads :
       cur = t /\ pc[t] = "sem_sched" /\ cur' # t => pc'[t] = "sem_ret"]_kvars
=============================================================================
