----------------------------- MODULE ThreadGroup -----------------------------
(***************************************************************************)
(* Groups of threads (thrgrp.c), a client of libthread: threads created    *)
(* into a group queue themselves when their function returns, and a join   *)
(* of the group takes whoever is first on that queue.                      *)
(*                                                                         *)
(* One group.  Every action is a step of ThreadLib, or leaves its          *)
(* variables alone, together with what thrgrp.c does around it.            *)
(***************************************************************************)
EXTENDS ThreadLibProps, FiniteSets

CONSTANTS TgLock, TgCond   \* lock and cv of the group

ASSUME GroupAssumption ==
  /\ TgLock \in Mutexes \ {World}
  /\ TgCond \in Conds \ Threads
  /\ IsFiniteSet(Threads)

VARIABLES
  gp,          \* where every thread is in thrgrp.c; "user" is outside
  group,       \* the threads created into the group
  zombie_in,   \* the queue of those that have returned: its last
  zombie_out,  \* and its first
  next,        \* the link in each thread's qel
  taken        \* the thread whose qel a join has taken off the queue

gvars == <<gp, group, zombie_in, zombie_out, next, taken>>
tgvars == <<vars, gvars>>

TGInit ==
  /\ TLInit
  /\ gp = [t \in Threads |-> "user"]
  /\ group = {}
  /\ zombie_in = None /\ zombie_out = None
  /\ next = [t \in Threads |-> None]
  /\ taken = [t \in Threads |-> None]

\* t, outside of thread_lib.c and cond_var.c, goes from place a to place b.
Goes(t, a, b) ==
  /\ at[t] = "user" /\ At(t, "run") /\ aborted = {}
  /\ gp[t] = a
  /\ gp' = [gp EXCEPT ![t] = b]

Queue == <<group, zombie_in, zombie_out, next, taken>>

----------------------------------------------------------------------------
(* thrgrp_create, and thrgrp_bottom around the thread's function. *)

ThrgrpCreate(t, u) ==
  /\ gp[t] = "user"
  /\ ThrCreate(t, u)
  /\ group' = group \cup {u}
  /\ gp' = [gp EXCEPT ![u] = "bt_tid"]
  /\ UNCHANGED <<zombie_in, zombie_out, next, taken>>

\* What thrgrp_create passed is read, and its memory becomes the qel.
BtGetId(t) ==
  /\ Goes(t, "bt_tid", "user")
  /\ GetId(t)
  /\ next' = [next EXCEPT ![t] = None]
  /\ UNCHANGED <<group, zombie_in, zombie_out, taken>>

\* The function has returned.
BtLock(t) ==
  /\ t \in group
  /\ Goes(t, "user", "bt_queue")
  /\ Lock(t, TgLock)
  /\ UNCHANGED <<tlvars, Queue>>

\* Mutant: the end of the queue is moved before it is linked to the new one.
BtQueueUnlinked(t) ==
  /\ Goes(t, "bt_queue", "bt_signal")
  /\ zombie_in' = t
  /\ zombie_out' = IF zombie_out = None THEN t ELSE zombie_out
  /\ UNCHANGED <<vars, group, next, taken>>

BtQueue(t) ==
  /\ Goes(t, "bt_queue", "bt_signal")
  /\ next' = IF zombie_in = None THEN next ELSE [next EXCEPT ![zombie_in] = t]
  /\ zombie_in' = t
  /\ zombie_out' = IF zombie_out = None THEN t ELSE zombie_out
  /\ UNCHANGED <<vars, group, taken>>

\* Mutant: a join is not told.
BtSignalForgotten(t) ==
  /\ Goes(t, "bt_signal", "bt_unlock")
  /\ UNCHANGED <<vars, Queue>>

BtSignal(t) ==
  /\ Goes(t, "bt_signal", "bt_unlock")
  /\ CondSignal(t, TgCond)
  /\ UNCHANGED <<tlvars, Queue>>

BtUnlock(t) ==
  /\ Goes(t, "bt_unlock", "bt_exit")
  /\ Unlock(t)
  /\ UNCHANGED <<tlvars, Queue>>

\* thrgrp_bottom returns into thr_exit.
BtExit(t) ==
  /\ Goes(t, "bt_exit", "gone")
  /\ ThrExit(t)
  /\ UNCHANGED Queue

----------------------------------------------------------------------------
(* thrgrp_join. *)

GjLock(t) ==
  /\ Goes(t, "user", "gj_look")
  /\ Lock(t, TgLock)
  /\ UNCHANGED <<tlvars, Queue>>

\* The test is made again when cond_wait returns.
GjWait(t) ==
  /\ zombie_out = None
  /\ Goes(t, "gj_look", "gj_look")
  /\ CondWait(t, TgCond)
  /\ UNCHANGED <<tlvars, Queue>>

GjTake(t) ==
  /\ zombie_out # None
  /\ Goes(t, "gj_look", "gj_unlock")
  /\ taken' = [taken EXCEPT ![t] = zombie_out]
  /\ zombie_in' = IF zombie_out = zombie_in THEN None ELSE zombie_in
  /\ zombie_out' = IF zombie_out = zombie_in THEN None ELSE next[zombie_out]
  /\ UNCHANGED <<vars, group, next>>

GjUnlock(t) ==
  /\ Goes(t, "gj_unlock", "gj_join")
  /\ Unlock(t)
  /\ UNCHANGED <<tlvars, Queue>>

\* The qel is freed, and thr_join called.
GjJoin(t) ==
  /\ Goes(t, "gj_join", "user")
  /\ Join(t, taken[t])
  /\ taken' = [taken EXCEPT ![t] = None]
  /\ UNCHANGED <<group, zombie_in, zombie_out, next>>

----------------------------------------------------------------------------
(* Threads do as in ThreadLib, except that a thread of the group returns     *)
(* instead of calling thr_exit, and is not joined by thr_join.               *)

GroupStep(t) ==
  \/ BtGetId(t) \/ BtLock(t) \/ BtQueue(t) \/ BtSignal(t) \/ BtUnlock(t) \/ BtExit(t)
  \/ GjLock(t) \/ GjWait(t) \/ GjTake(t) \/ GjUnlock(t) \/ GjJoin(t)
  \/ \E u \in Threads : ThrgrpCreate(t, u)

Alone(t) ==
  /\ gp[t] = "user"
  /\ \/ t \notin group /\ ThrExit(t)
     \/ ThrLookUp(t)
     \/ UserSync(t) /\ mp'[t] # TgLock /\ cv'[t] # TgCond
     \/ \E u \in Threads : ThrCreate(t, u)
     \/ \E u \in Threads \ group : ThrJoin(t, u)

TGNext == \E t \in Threads : GroupStep(t) \/ ((Inside(t) \/ Alone(t)) /\ UNCHANGED gvars)

TGSpec == TGInit /\ [][TGNext]_tgvars

----------------------------------------------------------------------------
(***************************************************************************)
(* What thrgrp.c promises of its group.                                    *)
(***************************************************************************)

\* The first n threads on the queue, as the links have it.
QueueTo[n \in 0..Cardinality(Threads)] ==
  IF n = 0 THEN <<>>
  ELSE LET q == QueueTo[n - 1]
           first == IF q = <<>> THEN zombie_out ELSE next[q[Len(q)]]
       IN  IF first = None \/ (q # <<>> /\ q[Len(q)] = zombie_in) THEN q ELSE Append(q, first)

Zombies == Members(QueueTo[Cardinality(Threads)])

\* Threads that have put themselves on the queue.
Returned == {t \in group : gp[t] \in {"bt_signal", "bt_unlock", "bt_exit", "gone"}}

\* The queue holds whoever has returned and was not taken off it; nobody is
\* taken twice, and thr_join refuses nobody who was and frees no stack twice
\* (thrgrp.c:91-101, 170-190).
GroupQueueSound ==
  /\ Zombies \subseteq Returned
  /\ \A t \in Returned \ Zombies :
       stack[t] = "freed" \/ \E j \in Threads : taken[j] = t \/ (peer[j] = t /\ at[j] # "cr_unlock")
  /\ \A t \in Threads : taken[t] \notin Zombies
  /\ group \cap (aborted \cup freedTwice) = {}

\* While threads wait for one to return, there are no more on the queue than
\* signals on their way and joins that will look at it (thrgrp.c:98, 170).
GroupJoinersAwake ==
  LET asleep == Members(waiters[TgCond])
      looking == {t \in Threads : gp[t] = "gj_look" /\ t \notin asleep}
      signals == {t \in Threads : gp[t] = "bt_signal" \/ (gp[t] = "bt_unlock" /\ pc[t] \in {"sg_lock", "sg_pop"})}
  IN  asleep # {} => Cardinality(Zombies) =< Cardinality(looking) + Cardinality(signals)

\* Nobody sleeps who waits for a thread that has ended, joining one thread or
\* any of the group.
JoinersAwake == JoinerWoken /\ GroupJoinersAwake
=============================================================================
