---------------------------- MODULE CondVarProps ----------------------------
(***************************************************************************)
(* What CondVar promises: the type invariant, the safety and liveness      *)
(* properties of the mutexes and condition variables, and the mapping      *)
(* under which CondVar implements Monitor.                                 *)
(***************************************************************************)
EXTENDS CondVar, FiniteSets

\* The labels at which a thread has locked the control block of cv[t], the
\* world lock for its own cond_wait, and its caller's mutex mp[t].
InWcb == {"cw_enq", "cw_unlock_mp", "cw_unlock_world", "cw_stop",
          "sg_pop", "sg_cas", "sg_unlock", "bc_detach", "bc_unlock"}
InWorld == {"cw_wcb", "cw_enq", "cw_unlock_mp", "cw_unlock_world"}
WithoutMp == {"cw_unlock_world", "cw_stop", "cw_resume", "cw_relock"}

\* Thread t is between its lock of l and its unlock of l.
Holds(t, l) ==
  \/ pc[t] \in InWcb /\ l = cv[t]
  \/ pc[t] \in InWorld /\ mp[t] # World /\ l = World
  \/ pc[t] \notin WithoutMp /\ mp[t] # None /\ l = mp[t]

\* The lock a thread spins on, if it does.
Wants(t) ==
  CASE pc[t] = "cw_world" -> World
    [] pc[t] \in {"cw_wcb", "sg_lock", "bc_lock"} -> cv[t]
    [] pc[t] = "cw_relock" -> mp[t]
    [] OTHER -> None

\* The threads that waker w has taken off a list and not yet started.
InHand(w) == Members(batch[w]) \cup ({tgt[w]} \ {None})

NoRepeats(s) == \A i, j \in DOMAIN s : s[i] = s[j] => i = j

----------------------------------------------------------------------------

\* The shape of the state.
TypeOK ==
  /\ locked \in [Locks -> BOOLEAN]
  /\ waiters \in [Conds -> Seq(Threads)]
  /\ runFlag \in [Threads -> {Running, Stopped}]
  /\ state \in [Threads -> ThreadStates]
  /\ pc \in [Threads -> PCs]
  /\ mp \in [Threads -> Mutexes \cup {None}]
  /\ cv \in [Threads -> Conds \cup {None}]
  /\ tgt \in [Threads -> Threads \cup {None}]
  /\ batch \in [Threads -> Seq(Threads)]

\* Mutual exclusion, for the callers' mutexes, the world lock and the control
\* blocks alike (mutex.c:68-115): two threads are never inside the same
\* critical section, although cond_wait hands the control block's mutex to
\* the kernel, which clears it with the store of an old run flag.
MutualExclusion ==
  \A l \in Locks : \A t, u \in Threads : Holds(t, l) /\ Holds(u, l) => t = u

\* The lock word tells the truth: it is set exactly while somebody is inside.
LockWordExact ==
  \A l \in Locks : locked[l] <=> \E t \in Threads : Holds(t, l)

\* Both: a lock is set exactly while one thread is inside it.
LocksExact == MutualExclusion /\ LockWordExact

\* No wake-up is lost (cond_var.c:96-121 against wait_control_block.c:107-145
\* and 236-285): a thread the kernel does not run is still on the list of the
\* condition it waits for, or in the hands of a waker that will start it.
NoLostWakeup ==
  \A t \in Threads : runFlag[t] = Stopped =>
    \/ \E c \in Conds : t \in Members(waiters[c])
    \/ \E w \in Threads : runFlag[w] = Running /\ t \in InHand(w)

\* No wake-up is wasted: a waker calls cas2i_runflag on a thread that has
\* already stopped, never on one still on its way to stop, which would miss
\* it and sleep on (the flag pairs of wait_control_block.c:127-132).
WakeupFindsSleeper ==
  \A w \in Threads : pc[w] \in {"sg_cas", "bc_cas"} => runFlag[tgt[w]] = Stopped

\* A thread waits in one place: on one list once, or in one waker's hands.
\* The assertion of sleep_on_unprotected (wait_control_block.c:49) is this at
\* the moment a thread enqueues itself.
WaitsInOnePlace ==
  /\ \A c \in Conds : NoRepeats(waiters[c])
  /\ \A w \in Threads : NoRepeats(batch[w]) /\ tgt[w] \notin Members(batch[w])
  /\ \A c, d \in Conds : c # d => Members(waiters[c]) \cap Members(waiters[d]) = {}
  /\ \A v, w \in Threads : v # w => InHand(v) \cap InHand(w) = {}
  /\ \A c \in Conds, w \in Threads : Members(waiters[c]) \cap InHand(w) = {}

\* All three: a sleeper is in one place, is started, and is asleep by then
\* (cond_var.c:104-121, wait_control_block.c:107-145, 236-285).
WakeupsExact == NoLostWakeup /\ WakeupFindsSleeper /\ WaitsInOnePlace

\* The two assertions of sleep_on_unprotected (wait_control_block.c:49-50).
EnqueueAsserts ==
  \A t \in Threads : pc[t] = "cw_enq" =>
    /\ state[t] = "RUNNABLE"
    /\ \A c \in Conds : t \notin Members(waiters[c])
    /\ \A w \in Threads : t \notin InHand(w)

\* No spin is forever for want of a release: no threads spin and sleep in a
\* ring, each until another of them goes on.  Of any threads one of which
\* spins, one runs and spins on nothing, or wants a lock that is free or that
\* none of them has (mutex.c:68-89, cond_var.c:92-121).
NoSpinDeadlock ==
  \A S \in SUBSET Threads :
    (\E t \in S : Wants(t) # None) =>
      \E t \in S :
        \/ Wants(t) = None /\ runFlag[t] = Running
        \/ /\ Wants(t) # None
           /\ ~ locked[Wants(t)] \/ \E h \in Threads \ S : Holds(h, Wants(t))

\* A started thread was notified: a thread goes from stopped to running only
\* when a waker has taken it off the list it queued itself on.
OnlyNotifiedResume ==
  [][\A t \in Threads :
       runFlag[t] = Stopped /\ runFlag'[t] = Running =>
         /\ \A c \in Conds : t \notin Members(waiters[c])
         /\ \E w \in Threads : tgt[w] = t]_cvvars

\* Whoever is taken off a list is eventually run again, whatever its waker
\* and the others do: this is the second half of a wake-up.
NotifiedResumes ==
  \A t \in Threads : (\E w \in Threads : t \in InHand(w)) ~> runFlag[t] = Running

----------------------------------------------------------------------------
(* CondVar implements Monitor.  A caller's mutex is owned from the xchg to   *)
(* the store that clears it; a thread waits from the release of its mutex,   *)
(* when it is already on the list, until it has the mutex back; a            *)
(* notification acts when it takes threads off the list.                     *)

AbsOwner == [m \in Mutexes |->
  IF \E t \in Threads : pc[t] \notin WithoutMp /\ mp[t] = m
  THEN CHOOSE t \in Threads : pc[t] \notin WithoutMp /\ mp[t] = m
  ELSE None]

\* Only the last of a list may still hold its mutex: it holds the block too.
AbsQueue == [c \in Conds |->
  LET s == waiters[c]
  IN  IF s # <<>> /\ pc[s[Len(s)]] = "cw_unlock_mp" THEN SubSeq(s, 1, Len(s) - 1) ELSE s]

AbsWaiting == [t \in Threads |-> IF pc[t] \in WithoutMp THEN mp[t] ELSE None]

AbsPending == [t \in Threads |->
  CASE pc[t] \in {"sg_lock", "sg_pop"} -> <<"signal", cv[t]>>
    [] pc[t] \in {"bc_lock", "bc_detach"} -> <<"broadcast", cv[t]>>
    [] OTHER -> None]

Abs == INSTANCE Monitor WITH
  owner <- AbsOwner, queue <- AbsQueue, waiting <- AbsWaiting, pending <- AbsPending

\* The condition variables are a monitor: every step is a step of Monitor or
\* none at all.  In particular the release of the mutex and the queueing of
\* the waiter are one step to everybody else.
ImplementsMonitor == Abs!MInit /\ [][Abs!MNext]_(Abs!mvars)
=============================================================================
