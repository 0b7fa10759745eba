---------------------------- MODULE TaskLifeProps ----------------------------
(***************************************************************************)
(* What TaskLife is meant to guarantee.                                    *)
(***************************************************************************)
EXTENDS TaskLife

\* The types; a task lists only threads that it is the task of.
LifeTypeOK ==
  /\ life \in [Tasks -> Lives]
  /\ parent \in [Tasks -> Tasks \cup {None}]
  /\ \A k \in Tasks :
       /\ Members(children[k]) \subseteq Tasks
       /\ Members(threads[k]) \subseteq {t \in Threads : task[t] = k}
  /\ task \in [Threads -> Tasks \cup {None}]
  /\ forkLock \in [Tasks -> Threads \cup {None}]
  /\ count \in [Tasks -> Int] /\ waiters \in [Tasks -> Seq(Threads)]
  /\ pc \in [Threads -> PCs]
  /\ arg \in [Threads -> Threads \cup {None}]
  /\ parked \subseteq Threads
  /\ panicked \in BOOLEAN
  /\ orphans \subseteq Tasks

There(k) == life[k] \in {"live", "zombie"}

\* A task's list of children holds, once each, the tasks that have it as their
\* parent and whose memory is not freed yet: fork inserts and wait removes under
\* the parent's fork_lock, while children end without it.
ListedByParent ==
  \A p \in Tasks : There(p) =>
    /\ Members(children[p]) = {k \in Tasks : There(k) /\ parent[k] = p}
    /\ Len(children[p]) = Cardinality(Members(children[p]))

\* fork_lock is held from where it is taken to where it is given back, and by
\* no thread elsewhere; a thread parked on its way out keeps it.
LockHeldInside ==
  \A k \in Tasks, t \in Threads : task[t] = k =>
    /\ pc[t] \in {"fk_new", "fk_map", "tf_add", "vn_stop", "vn_unlock", "tv_first", "tv_again", "wt_find"}
         => forkLock[k] = t
    /\ forkLock[k] = t
         => pc[t] \in Doomed \cup {"fk_new", "fk_map", "tf_add", "vn_stop", "tv_first", "tv_again", "wt_find"}

\* A task has its parent to signal when it ends, unless the parent ended while
\* this task was on its list (syscall_vanish.c:49 looks at no list of children).
ParentPointersValid ==
  \A k \in Tasks \ {InitTask} : There(k) /\ k \notin orphans => There(parent[k])

\* The tree of tasks is what both ends of its links say, and each task's
\* fork_lock guards it; and the state has its types.
TreeSound == LifeTypeOK /\ ListedByParent /\ ParentPointersValid /\ LockHeldInside

\* A child of p ends by task_vanish, which never ends, or was parked before it
\* could signal.
Unsound(p) ==
  \E t \in Threads :
    /\ task[t] # None /\ parent[task[t]] = p
    /\ pc[t] = "tv_again" \/ (pc[t] = "vn_signal" /\ t \in parked)

\* A thread that has returned from the wait for a zombie and has not reaped yet.
Woken(p) == {t \in Threads : task[t] = p /\ pc[t] \in {"wt_lock", "wt_find"}}

Signalled(p) ==
  {k \in Zombies(p) : \A t \in Threads : task[t] = k => pc[t] # "vn_signal"}

\* Every signal is remembered or taken (syscall_wait.c:48-50): the zombies that
\* have signalled are as many as the signals kept and the threads woken,
\* and a thread is blocked only when no signal is kept, as long as no child's end
\* is unsound.
VulturesExact ==
  \A p \in Tasks : There(p) /\ ~ Unsound(p) =>
    /\ Cardinality(Signalled(p)) = count[p] + Len(waiters[p]) + Cardinality(Woken(p))
    /\ waiters[p] # <<>> => count[p] = -Len(waiters[p])

\* A woken wait finds a child to reap, and no assertion fails, as long as no
\* child's end is unsound.
WokenFindsZombie ==
  /\ \A t \in Threads : pc[t] = "wt_find" /\ ~ Unsound(task[t]) => Zombies(task[t]) # {}
  /\ panicked => \E p \in Tasks : Unsound(p)

\* Signals of children and waits of parents come out even.
WaitsExact == VulturesExact /\ WokenFindsZombie

\* When a task's memory is freed, its last thread has left its stack, which is
\* in that memory, for good, unless it was parked or ended by task_vanish.
FreedIsLeft ==
  \A t \in Threads : task[t] # None /\ life[task[t]] = "freed" =>
    pc[t] \in {"gone", "tv_again"} \/ t \in parked

\* fork_lock of p is held for good: by a thread parked on its way out, or by
\* task_vanish.
LockKept(p) ==
  \E t \in Threads :
    forkLock[p] = t /\ (t \in parked \/ pc[t] \in {"tv_first", "tv_again"})

\* A task does not keep a zombie child and a thread blocked in wait beside each
\* other for ever: the signal of the child's end takes some blocked thread to some
\* zombie.
\* The exceptions are what the code lets happen: a child that did not finish
\* signalling, as the timer parked it (sched.c:168) or it ended by task_vanish;
\* and the parent's fork_lock kept by such a thread of the parent.
WaiterMeetsZombie ==
  \A p \in Tasks :
    []<>(Zombies(p) = {} \/ waiters[p] = <<>> \/ Unsound(p) \/ LockKept(p) \/ panicked)
=============================================================================
