------------------------------ MODULE TaskLife ------------------------------
(***************************************************************************)
(* Tasks and threads from fork to reaping: the system calls fork,          *)
(* thread_fork, vanish, task_vanish and wait, and the killing of a thread  *)
(* that faults.  Scheduling and semaphores are KernSched's: here a thread  *)
(* that may run takes its next step at any time, a lock is held by one     *)
(* thread, and the semaphore vultures is a count and a queue of waiters.   *)
(*                                                                         *)
(* A thread that is about to end gives itself a negative run flag and goes *)
(* on.  If the timer preempts it from then on, it is put on the run queue  *)
(* and never chosen again: it is parked, with all it holds.                *)
(***************************************************************************)
EXTENDS Integers, Sequences, FiniteSets

CONSTANTS
  Tasks,       \* tasks; a task is also its own initial thread
  Forked,      \* the threads thread_fork makes
  InitTask,    \* the task that is there from the start
  Calls,       \* what user code does: see Call
  Parents,     \* bound: the tasks whose user code forks
  MaxSignals,  \* bound: signals kept by a semaphore
  None

ASSUME TaskLifeAssumption ==
  /\ InitTask \in Tasks
  /\ Tasks \cap Forked = {} /\ None \notin Tasks \cup Forked
  /\ Calls \subseteq {"fork", "thread_fork", "vanish", "fault", "fatal", "task_vanish", "wait"}
  /\ Parents \subseteq Tasks /\ MaxSignals \in Nat

Threads == Tasks \cup Forked

VARIABLES
  life,       \* state of every task, and whether its memory is there
  parent,     \* parentTask
  children,   \* ktask_task_head, the youngest first
  threads,    \* ktask_threads_head, the youngest first
  task,       \* pTask of every thread
  forkLock,   \* the thread that holds fork_lock of every task
  count,      \* count of every task's vultures
  waiters,    \* queue of every task's vultures
  pc,         \* where every thread is
  arg,        \* the child a fork is making, the thread task_vanish is at
  parked,     \* threads on the run queue with a negative run flag
  panicked,   \* an assertion has failed
  orphans     \* history: the children that tasks left on their lists when they ended

lifevars == <<life, parent, children, threads, task, forkLock, count, waiters, pc, arg, parked, panicked, orphans>>

Lives == {"none", "live", "zombie", "freed"}

\* Ending, with a negative run flag, and not yet switched out for good.
Doomed == {"vn_list", "vn_signal", "vn_unlock", "vn_sched"}

\* On the way to its end.
Ending == Doomed \cup {"vn_lock", "vn_stop", "tv_lock", "tv_first", "tv_again", "gone"}

PCs == Ending \cup
  {"none", "user", "fk_lock", "fk_new", "fk_map", "tf_lock", "tf_add",
   "wt_look", "wt_sem", "wt_blocked", "wt_lock", "wt_find"}

Members(s) == {s[i] : i \in DOMAIN s}

\* List s without element x, which is on it at most once.
Without(s, x) ==
  IF x \notin Members(s) THEN s
  ELSE LET i == CHOOSE i \in DOMAIN s : s[i] = x
       IN  [j \in 1..Len(s) - 1 |-> IF j < i THEN s[j] ELSE s[j + 1]]

LifeInit ==
  /\ life = [k \in Tasks |-> IF k = InitTask THEN "live" ELSE "none"]
  /\ parent = [k \in Tasks |-> None]
  /\ children = [k \in Tasks |-> <<>>]
  /\ threads = [k \in Tasks |-> IF k = InitTask THEN <<k>> ELSE <<>>]
  /\ task = [t \in Threads |-> IF t \in Tasks THEN t ELSE None]
  /\ forkLock = [k \in Tasks |-> None]
  /\ count = [k \in Tasks |-> 0]
  /\ waiters = [k \in Tasks |-> <<>>]
  /\ pc = [t \in Threads |-> IF t = InitTask THEN "user" ELSE "none"]
  /\ arg = [t \in Threads |-> None]
  /\ parked = {}
  /\ panicked = FALSE
  /\ orphans = {}

----------------------------------------------------------------------------

\* t is at label l and may take its step: no assertion has failed, and nobody
\* else is on its way out, which only a thread that runs is.
At(t, l) ==
  /\ ~ panicked /\ pc[t] = l /\ t \notin parked
  /\ \A u \in Threads \ ({t} \cup parked) : pc[u] \notin Doomed

Goto(t, l) == pc' = [pc EXCEPT ![t] = l]

Lock(t) ==
  /\ forkLock[task[t]] = None
  /\ forkLock' = [forkLock EXCEPT ![task[t]] = t]

Unlock(t) == forkLock' = [forkLock EXCEPT ![task[t]] = None]

\* sem_signal on the vultures of task p, in step with t's going to label l: a
\* waiter returns from sem_wait.  Nobody waits for the initial task, the child
\* of the idle task (None).  What a signal does to a parent whose memory is
\* freed is not followed.
Signal(t, p, l) ==
  IF p = None \/ life[p] = "freed"
  THEN /\ Goto(t, l)
       /\ UNCHANGED <<count, waiters>>
  ELSE /\ count' = [count EXCEPT ![p] = @ + 1]
       /\ IF waiters[p] = <<>>
          THEN /\ Goto(t, l)
               /\ UNCHANGED waiters
          ELSE /\ waiters' = [waiters EXCEPT ![p] = Tail(@)]
               /\ pc' = [pc EXCEPT ![t] = l, ![Head(waiters[p])] = "wt_lock"]

----------------------------------------------------------------------------
(* fork.  The child is on its parent's list before it has memory of its own. *)

FkLock(t) ==
  /\ At(t, "fk_lock")
  /\ Lock(t)
  /\ Goto(t, "fk_new")
  /\ UNCHANGED <<life, parent, children, threads, task, count, waiters, arg, parked, panicked, orphans>>

FkNew(t, k) ==
  /\ At(t, "fk_new")
  /\ life[k] = "none"
  /\ life' = [life EXCEPT ![k] = "live"]
  /\ parent' = [parent EXCEPT ![k] = task[t]]
  /\ children' = [children EXCEPT ![task[t]] = <<k>> \o @]
  /\ threads' = [threads EXCEPT ![k] = <<k>>]
  /\ arg' = [arg EXCEPT ![t] = k]
  /\ Goto(t, "fk_map")
  /\ UNCHANGED <<task, forkLock, count, waiters, parked, panicked, orphans>>

FkNoMemory(t) ==
  /\ At(t, "fk_new")
  /\ Unlock(t)
  /\ Goto(t, "user")
  /\ UNCHANGED <<life, parent, children, threads, task, count, waiters, arg, parked, panicked, orphans>>

\* The child is scheduled.
FkDone(t) ==
  /\ At(t, "fk_map")
  /\ pc' = [pc EXCEPT ![t] = "user", ![arg[t]] = "user"]
  /\ arg' = [arg EXCEPT ![t] = None]
  /\ Unlock(t)
  /\ UNCHANGED <<life, parent, children, threads, task, count, waiters, parked, panicked, orphans>>

\* A range could not be copied: the child stays, and never runs.
FkFails(t) ==
  /\ At(t, "fk_map")
  /\ Goto(t, "user")
  /\ arg' = [arg EXCEPT ![t] = None]
  /\ Unlock(t)
  /\ UNCHANGED <<life, parent, children, threads, task, count, waiters, parked, panicked, orphans>>

----------------------------------------------------------------------------
(* thread_fork.  Without memory for the new thread it returns an error before *)
(* it changes anything.                                                       *)

TfLock(t) ==
  /\ At(t, "tf_lock")
  /\ Lock(t)
  /\ Goto(t, "tf_add")
  /\ UNCHANGED <<life, parent, children, threads, task, count, waiters, arg, parked, panicked, orphans>>

TfAdd(t) ==
  LET k == task[t]
      u == arg[t]
  IN  /\ At(t, "tf_add")
      /\ threads' = [threads EXCEPT ![k] = <<u>> \o @]
      /\ pc' = [pc EXCEPT ![t] = "user", ![u] = "user"]
      /\ arg' = [arg EXCEPT ![t] = None]
      /\ Unlock(t)
      /\ UNCHANGED <<life, parent, children, task, count, waiters, parked, panicked, orphans>>

----------------------------------------------------------------------------
(* vanish, and the killing of a thread that faults, which takes no lock.     *)

VnLock(t) ==
  /\ At(t, "vn_lock")
  /\ Lock(t)
  /\ Goto(t, "vn_stop")
  /\ UNCHANGED <<life, parent, children, threads, task, count, waiters, arg, parked, panicked, orphans>>

\* run_flag = -1.
VnStop(t) ==
  /\ At(t, "vn_stop")
  /\ Goto(t, "vn_list")
  /\ UNCHANGED <<life, parent, children, threads, task, forkLock, count, waiters, arg, parked, panicked, orphans>>

\* Where vanish, which holds the lock, and a kill, which does not, go on.
AfterSignal(t) == IF forkLock[task[t]] = t THEN "vn_unlock" ELSE "vn_sched"

\* The threads of t's task without t.
Others(t) == Without(threads[task[t]], t)

\* VnList with the test for the last thread, and where to go then, as parameters.
VnListWith(t, last, next) ==
  LET k == task[t]
  IN  /\ At(t, "vn_list")
      /\ threads' = [threads EXCEPT ![k] = Others(t)]
      /\ life' = [life EXCEPT ![k] = IF last THEN "zombie" ELSE @]
      /\ orphans' = IF last THEN orphans \cup Members(children[k]) ELSE orphans
      /\ Goto(t, IF last THEN next ELSE AfterSignal(t))
      /\ UNCHANGED <<parent, children, task, forkLock, count, waiters, arg, parked, panicked>>

\* Mutant: one thread too early.
VnListEarly(t) == VnListWith(t, Len(Others(t)) <= 1, "vn_signal")

\* Mutant: the parent is not signalled.
VnListSilent(t) == VnListWith(t, Others(t) = <<>>, AfterSignal(t))

\* The thread leaves its task's list; the last one makes the task a zombie.
VnList(t) == VnListWith(t, Others(t) = <<>>, "vn_signal")

VnSignal(t) ==
  /\ At(t, "vn_signal")
  /\ Signal(t, parent[task[t]], AfterSignal(t))
  /\ UNCHANGED <<life, parent, children, threads, task, forkLock, arg, parked, panicked, orphans>>

VnUnlock(t) ==
  /\ At(t, "vn_unlock")
  /\ Unlock(t)
  /\ Goto(t, "vn_sched")
  /\ UNCHANGED <<life, parent, children, threads, task, count, waiters, arg, parked, panicked, orphans>>

\* schedule(0), on no queue and for the last time.
VnSched(t) ==
  /\ At(t, "vn_sched")
  /\ Goto(t, "gone")
  /\ UNCHANGED <<life, parent, children, threads, task, forkLock, count, waiters, arg, parked, panicked, orphans>>

\* The timer puts a thread with a negative run flag on the run queue.
Preempt(t) ==
  /\ \E l \in Doomed : At(t, l)
  /\ parked' = parked \cup {t}
  /\ UNCHANGED <<life, parent, children, threads, task, forkLock, count, waiters, pc, arg, panicked, orphans>>

----------------------------------------------------------------------------
(* task_vanish.  The loop removes the element it stands on, and so never     *)
(* leaves the first thread.                                                  *)

TvLock(t) ==
  /\ At(t, "tv_lock")
  /\ Lock(t)
  /\ Goto(t, "tv_first")
  /\ UNCHANGED <<life, parent, children, threads, task, count, waiters, arg, parked, panicked, orphans>>

\* The first thread leaves the task's list and the run queue.  (It is the
\* caller or one in user code: what becomes of a semaphore's queue when a
\* thread that waits there is removed from the run queue is left out.)
TvFirst(t) ==
  LET k     == task[t]
      first == Head(threads[k])
      rest  == Tail(threads[k])
  IN  /\ At(t, "tv_first")
      /\ first = t \/ pc[first] = "user"
      /\ threads' = [threads EXCEPT ![k] = rest]
      /\ arg' = [arg EXCEPT ![t] = first]
      /\ IF rest = <<>>
         THEN /\ life' = [life EXCEPT ![k] = "zombie"]
              /\ orphans' = orphans \cup Members(children[k])
              /\ Signal(t, parent[k], "tv_again")
         ELSE /\ pc' = [[pc EXCEPT ![first] = "gone"] EXCEPT ![t] = "tv_again"]
              /\ UNCHANGED <<life, count, waiters, orphans>>
      /\ UNCHANGED <<parent, children, task, forkLock, parked, panicked>>

\* The same element once more: no longer on a list, so it stays where it is.
TvAgain(t) ==
  LET k == task[t]
  IN  /\ At(t, "tv_again")
      /\ threads[k] = <<>> /\ parent[k] # None
      /\ count[parent[k]] < MaxSignals
      /\ life' = [life EXCEPT ![k] = IF @ = "freed" THEN @ ELSE "zombie"]
      /\ Signal(t, parent[k], "tv_again")
      /\ UNCHANGED <<parent, children, threads, task, forkLock, arg, parked, panicked, orphans>>

----------------------------------------------------------------------------
(* wait. *)

\* The lock is taken and given back around the look at the list of children.
WtLook(t) ==
  /\ At(t, "wt_look")
  /\ forkLock[task[t]] = None
  /\ Goto(t, IF children[task[t]] = <<>> THEN "user" ELSE "wt_sem")
  /\ UNCHANGED <<life, parent, children, threads, task, forkLock, count, waiters, arg, parked, panicked, orphans>>

\* Mutant: a signal that was kept stays.
WtSemKeeps(t) ==
  LET k == task[t]
  IN  /\ At(t, "wt_sem")
      /\ IF count[k] > 0
         THEN /\ Goto(t, "wt_lock")
              /\ UNCHANGED <<count, waiters>>
         ELSE /\ Goto(t, "wt_blocked")
              /\ count' = [count EXCEPT ![k] = @ - 1]
              /\ waiters' = [waiters EXCEPT ![k] = Append(@, t)]
      /\ UNCHANGED <<life, parent, children, threads, task, forkLock, arg, parked, panicked, orphans>>

WtSem(t) ==
  LET k == task[t]
  IN  /\ At(t, "wt_sem")
      /\ count' = [count EXCEPT ![k] = @ - 1]
      /\ IF count[k] > 0
         THEN /\ Goto(t, "wt_lock")
              /\ UNCHANGED waiters
         ELSE /\ Goto(t, "wt_blocked")
              /\ waiters' = [waiters EXCEPT ![k] = Append(@, t)]
      /\ UNCHANGED <<life, parent, children, threads, task, forkLock, arg, parked, panicked, orphans>>

WtLock(t) ==
  /\ At(t, "wt_lock")
  /\ Lock(t)
  /\ Goto(t, "wt_find")
  /\ UNCHANGED <<life, parent, children, threads, task, count, waiters, arg, parked, panicked, orphans>>

Zombies(p) == {k \in Members(children[p]) : life[k] = "zombie"}

\* Child k leaves the list, and its memory is freed.
ReapChild(t, k) ==
  LET p == task[t]
  IN  /\ At(t, "wt_find")
      /\ k \in Members(children[p])
      /\ children' = [children EXCEPT ![p] = Without(@, k)]
      /\ life' = [life EXCEPT ![k] = "freed"]
      /\ Unlock(t)
      /\ Goto(t, "user")
      /\ UNCHANGED <<parent, threads, task, count, waiters, arg, parked, panicked, orphans>>

\* Mutant: any child is reaped.
WtReapAny(t, k) == ReapChild(t, k)

\* The first zombie on the list is reaped.
WtReap(t, k) ==
  LET siblings == children[task[t]]
  IN  /\ At(t, "wt_find")
      /\ \E i \in DOMAIN siblings :
           /\ siblings[i] = k /\ life[k] = "zombie"
           /\ \A j \in 1..i - 1 : life[siblings[j]] # "zombie"
      /\ ReapChild(t, k)

\* "someone woke us up so that someone has to be in zombie state"
WtAssert(t) ==
  /\ At(t, "wt_find")
  /\ Zombies(task[t]) = {}
  /\ panicked' = TRUE
  /\ UNCHANGED <<life, parent, children, threads, task, forkLock, count, waiters, pc, arg, parked, orphans>>

----------------------------------------------------------------------------

\* A thread in user code makes a system call, or faults.
Call(t, call) ==
  /\ At(t, "user") /\ call \in Calls \ {"thread_fork", "fatal"}
  /\ call = "fork" => task[t] \in Parents
  /\ Goto(t, CASE call = "fork" -> "fk_lock"
               [] call = "vanish" -> "vn_lock"
               [] call = "fault" -> "vn_list"
               [] call = "task_vanish" -> "tv_lock"
               [] call = "wait" -> "wt_look")
  /\ UNCHANGED <<life, parent, children, threads, task, forkLock, count, waiters, arg, parked, panicked, orphans>>

\* fault_generic_fatal, for the other faults: from here it goes the way of a
\* page fault.  A task's own thread that is not alone frees the others in a
\* loop that stands on them; what comes of that is undefined and left out.
Fatal(t) ==
  /\ At(t, "user") /\ "fatal" \in Calls
  /\ t \in Forked \/ threads[task[t]] = <<t>>
  /\ Goto(t, "vn_list")
  /\ UNCHANGED <<life, parent, children, threads, task, forkLock, count, waiters, arg, parked, panicked, orphans>>

\* thread_fork has the new thread's memory before it takes the lock.
CallThreadFork(t, u) ==
  /\ At(t, "user") /\ "thread_fork" \in Calls
  /\ task[u] = None
  /\ task' = [task EXCEPT ![u] = task[t]]
  /\ arg' = [arg EXCEPT ![t] = u]
  /\ Goto(t, "tf_lock")
  /\ UNCHANGED <<life, parent, children, threads, forkLock, count, waiters, parked, panicked, orphans>>

----------------------------------------------------------------------------

\* The steps at which a thread waits for fork_lock.
TakesLock(t) == FkLock(t) \/ TfLock(t) \/ VnLock(t) \/ TvLock(t) \/ WtLook(t) \/ WtLock(t)

GoesOn(t) ==
  \/ \E k \in Tasks : FkNew(t, k) \/ WtReap(t, k)
  \/ FkNoMemory(t) \/ FkDone(t) \/ FkFails(t)
  \/ TfAdd(t)
  \/ VnStop(t) \/ VnList(t) \/ VnSignal(t) \/ VnUnlock(t) \/ VnSched(t)
  \/ TvFirst(t) \/ TvAgain(t)
  \/ WtSem(t) \/ WtAssert(t)

Kernel(t) == TakesLock(t) \/ GoesOn(t)

LifeNext ==
  \E t \in Threads :
    \/ Kernel(t)
    \/ Preempt(t) \/ Fatal(t)
    \/ \E call \in Calls : Call(t, call)
    \/ \E u \in Forked : CallThreadFork(t, u)

LifeSpec == LifeInit /\ [][LifeNext]_lifevars

\* A thread in the kernel runs again and again, unless it is parked, and
\* fork_lock, when its holder gives it back, is handed to its waiters in the
\* order they came; user code need not do anything, and the timer may preempt a
\* thread that is ending at any of its steps.
LifeFairSpec ==
  LifeSpec /\ \A t \in Threads : WF_lifevars(GoesOn(t)) /\ SF_lifevars(TakesLock(t))
=============================================================================
