------------------------------ MODULE Monitor ------------------------------
(***************************************************************************)
(* What mutexes and condition variables promise their callers: a mutex has *)
(* one owner; waiting gives the mutex up and joins the queue of the        *)
(* condition in one indivisible step; a signal starts the thread that has  *)
(* waited longest, a broadcast every thread that waits, and either may     *)
(* come to nothing only when nobody waits; a started thread returns        *)
(* owning the mutex again.                                                 *)
(***************************************************************************)
EXTENDS Sequences

CONSTANTS Threads, Mutexes, Conds, None

VARIABLES
  owner,    \* the thread that owns each mutex, or None
  queue,    \* the threads that wait on each condition, oldest first
  waiting,  \* the mutex a thread gave up in order to wait, or None
  pending   \* the notification a thread has called and that has not acted

mvars == <<owner, queue, waiting, pending>>

Queued(t) == \E c \in Conds : \E i \in DOMAIN queue[c] : queue[c][i] = t

MInit ==
  /\ owner   = [m \in Mutexes |-> None]
  /\ queue   = [c \in Conds |-> <<>>]
  /\ waiting = [t \in Threads |-> None]
  /\ pending = [t \in Threads |-> None]

MLock(t, m) ==
  /\ waiting[t] = None /\ owner[m] = None
  /\ owner' = [owner EXCEPT ![m] = t]
  /\ UNCHANGED <<queue, waiting, pending>>

MUnlock(t, m) ==
  /\ waiting[t] = None /\ owner[m] = t
  /\ owner' = [owner EXCEPT ![m] = None]
  /\ UNCHANGED <<queue, waiting, pending>>

MWait(t, c, m) ==
  /\ waiting[t] = None /\ owner[m] = t
  /\ owner' = [owner EXCEPT ![m] = None]
  /\ queue' = [queue EXCEPT ![c] = Append(@, t)]
  /\ waiting' = [waiting EXCEPT ![t] = m]
  /\ UNCHANGED pending

MReturn(t, m) ==
  /\ waiting[t] = m /\ owner[m] = None /\ ~ Queued(t)
  /\ owner' = [owner EXCEPT ![m] = t]
  /\ waiting' = [waiting EXCEPT ![t] = None]
  /\ UNCHANGED <<queue, pending>>

MNotify(t, kind, c) ==
  /\ waiting[t] = None /\ pending[t] = None
  /\ pending' = [pending EXCEPT ![t] = <<kind, c>>]
  /\ UNCHANGED <<owner, queue, waiting>>

\* Nothing happens only if nobody waits.
MSignal(t, c) ==
  /\ pending[t] = <<"signal", c>>
  /\ queue' = [queue EXCEPT ![c] = IF @ = <<>> THEN @ ELSE Tail(@)]
  /\ pending' = [pending EXCEPT ![t] = None]
  /\ UNCHANGED <<owner, waiting>>

MBroadcast(t, c) ==
  /\ pending[t] = <<"broadcast", c>>
  /\ queue' = [queue EXCEPT ![c] = <<>>]
  /\ pending' = [pending EXCEPT ![t] = None]
  /\ UNCHANGED <<owner, waiting>>

MNext == \E t \in Threads :
  \/ \E m \in Mutexes : MLock(t, m) \/ MUnlock(t, m) \/ MReturn(t, m)
  \/ \E c \in Conds, m \in Mutexes : MWait(t, c, m)
  \/ \E c \in Conds : \/ MNotify(t, "signal", c) \/ MNotify(t, "broadcast", c)
                      \/ MSignal(t, c) \/ MBroadcast(t, c)

MSpec == MInit /\ [][MNext]_mvars
=============================================================================
