---------------------------- MODULE SyncObjects ----------------------------
(***************************************************************************)
(* Semaphores (sem.c) and reader-writer locks (rwlocks.c) of libthread,    *)
(* used by the threads of ThreadLib.  Each object has one mutex, the one   *)
(* of the wait control block its waiters would queue on.                   *)
(*                                                                         *)
(* Who would have to wait locks that mutex a second time, with the world   *)
(* lock held: the places "sw_self" and "rw_self" have no step, and what    *)
(* the source does after them is out of reach.                             *)
(***************************************************************************)
EXTENDS ThreadLib, CondVarProps

CONSTANTS
  Sems,      \* semaphores of SemCount permits, one for each thread inside
  Events,    \* semaphores of no permits, signalled by anybody
  RWLocks,
  SemCount,
  MaxEvents  \* bound: an event is signalled no further than this

Objects == Sems \cup Events \cup RWLocks

ASSUME SyncAssumption ==
  /\ IsFiniteSet(Threads)
  /\ SemCount \in Nat \ {0} /\ MaxEvents \in Nat
  /\ Sems \cap Events = {} /\ (Sems \cup Events) \cap RWLocks = {}
  /\ None \notin Objects /\ Objects \cap Locks = {}

VARIABLES
  call,       \* where every thread is in sem.c or rwlocks.c
  obj,        \* the object of that call
  objLocked,  \* the mutex of every object
  count,      \* count of a semaphore
  readers,    \* active_readers
  writer,     \* whose kernel thread active_writer_tid is
  destroyed,  \* objects not to be used until they are initialised again
  has,        \* history: the object a thread has been let into
  left,       \* history: objects whose mutex sem_destroy has left locked
  failed      \* the threads an assertion has stopped, and with them the task

syncvars == <<call, obj, objLocked, count, readers, writer, destroyed, has, left, failed>>
sovars == <<vars, syncvars>>

Initial(s) == IF s \in Events THEN 0 ELSE SemCount

SOInit ==
  /\ TLInit
  /\ call = [t \in Threads |-> "out"] /\ obj = [t \in Threads |-> None]
  /\ objLocked = [o \in Objects |-> FALSE]
  /\ count = [s \in Sems \cup Events |-> Initial(s)]
  /\ readers = [o \in RWLocks |-> 0] /\ writer = [o \in RWLocks |-> None]
  /\ destroyed = {} /\ left = {} /\ failed = {}
  /\ has = [t \in Threads |-> None]

----------------------------------------------------------------------------
(* Calls, made from user code with no mutex held. *)

\* t goes on from a to b in the call it is in.
Go(t, a, b) ==
  /\ aborted = {} /\ failed = {}
  /\ At(t, "run") /\ call[t] = a
  /\ call' = [call EXCEPT ![t] = b]

Call(t, o, b) ==
  /\ Go(t, "out", b)
  /\ at[t] = "user" /\ mp[t] = None
  /\ obj' = [obj EXCEPT ![t] = o]

Return(t, a) == Go(t, a, "out") /\ obj' = [obj EXCEPT ![t] = None]

InUse(o) == \E t \in Threads : obj[t] = o

LockObj(t) == ~ objLocked[obj[t]] /\ objLocked' = [objLocked EXCEPT ![obj[t]] = TRUE]

UnlockObj(t) == objLocked' = [objLocked EXCEPT ![obj[t]] = FALSE]

World1(t) == Lock(t, World) /\ UNCHANGED tlvars
World0(t) == Unlock(t) /\ UNCHANGED tlvars

KeepCounts == UNCHANGED <<count, readers, writer, has, left>>
Keep == KeepCounts /\ UNCHANGED <<obj, destroyed, failed>>

----------------------------------------------------------------------------
(* sem_wait. *)

SemWait(t, s) ==
  /\ Call(t, s, "sw_world")
  /\ has[t] = None /\ s \notin destroyed
  /\ KeepCounts /\ UNCHANGED <<vars, objLocked, destroyed, failed>>

\* The thread finds its own control block, or an assertion fails.
SwWorld(t) ==
  /\ Go(t, "sw_world", "sw_lock") /\ World1(t)
  /\ failed' = {t} \ anchorThrds
  /\ KeepCounts /\ UNCHANGED <<obj, objLocked, destroyed>>

SwLock(t) ==
  /\ Go(t, "sw_lock", "sw_take") /\ LockObj(t)
  /\ Keep /\ UNCHANGED vars

\* Mutant: a count of -1 still lets the thread in.
SwTakeOneMore(t) ==
  LET s == obj[t]
  IN  /\ Go(t, "sw_take", IF count[s] >= 0 THEN "sw_unworld" ELSE "sw_self")
      /\ count' = [count EXCEPT ![s] = @ - 1]
      /\ has' = [has EXCEPT ![t] = IF count[s] >= 0 /\ s \in Sems THEN s ELSE None]
      /\ UNCHANGED <<vars, obj, objLocked, readers, writer, destroyed, left, failed>>

\* A permit is left, or the thread goes on to sleep_on_no_schedule, whose
\* first step is to lock what is locked already.
SwTake(t) ==
  LET s == obj[t]
  IN  /\ Go(t, "sw_take", IF count[s] > 0 THEN "sw_unworld" ELSE "sw_self")
      /\ count' = [count EXCEPT ![s] = @ - 1]
      /\ has' = [has EXCEPT ![t] = IF count[s] > 0 /\ s \in Sems THEN s ELSE None]
      /\ UNCHANGED <<vars, obj, objLocked, readers, writer, destroyed, left, failed>>

SwUnworld(t) ==
  /\ Go(t, "sw_unworld", "unlock") /\ World0(t)
  /\ Keep /\ UNCHANGED objLocked

----------------------------------------------------------------------------
(* sem_signal. *)

\* The thread looks for its own control block with no lock held.
SemSignal(t, s) ==
  /\ Call(t, s, "ss_lock")
  /\ s \notin destroyed
  /\ IF s \in Events THEN count[s] < MaxEvents ELSE has[t] = s
  /\ failed' = {t} \ anchorThrds
  /\ KeepCounts /\ UNCHANGED <<vars, objLocked, destroyed>>

SsLock(t) ==
  /\ Go(t, "ss_lock", "ss_give") /\ LockObj(t)
  /\ Keep /\ UNCHANGED vars

\* Nobody sleeps: who should has the mutex, and this thread has it.
SsGive(t) ==
  /\ Go(t, "ss_give", "unlock")
  /\ count' = [count EXCEPT ![obj[t]] = @ + 1]
  /\ has' = [has EXCEPT ![t] = IF @ = obj[t] THEN None ELSE @]
  /\ UNCHANGED <<vars, obj, objLocked, readers, writer, destroyed, left, failed>>

\* Mutant: the call returns with the object's mutex locked.
ObjUnlockForgotten(t) ==
  /\ Return(t, "unlock")
  /\ KeepCounts /\ UNCHANGED <<vars, objLocked, destroyed, failed>>

\* The last step of every call that works.
ObjUnlock(t) ==
  /\ Return(t, "unlock") /\ UnlockObj(t)
  /\ KeepCounts /\ UNCHANGED <<vars, destroyed, failed>>

----------------------------------------------------------------------------
(* sem_destroy, of a semaphore nobody uses, and sem_init after it. *)

SemDestroy(t, s) ==
  /\ Call(t, s, "sd_lock")
  /\ s \notin destroyed /\ ~ InUse(s) /\ \A u \in Threads : has[u] # s
  /\ destroyed' = destroyed \cup {s}
  /\ KeepCounts /\ UNCHANGED <<vars, objLocked, failed>>

\* SEM_INIT leaves the mutex as it is, locked.
SdLock(t) ==
  /\ Return(t, "sd_lock") /\ LockObj(t)
  /\ count' = [count EXCEPT ![obj[t]] = 0]
  /\ left' = left \cup {obj[t]}
  /\ UNCHANGED <<vars, readers, writer, destroyed, has, failed>>

SemInit(t, s) ==
  /\ Go(t, "out", "out") /\ at[t] = "user" /\ mp[t] = None
  /\ s \in destroyed /\ ~ InUse(s)
  /\ count' = [count EXCEPT ![s] = Initial(s)]
  /\ destroyed' = destroyed \ {s}
  /\ UNCHANGED <<vars, obj, objLocked, readers, writer, has, left, failed>>

----------------------------------------------------------------------------
(* rwlock_lock, to read or to write. *)

RWLock(t, o, where) ==
  /\ Call(t, o, where)
  /\ has[t] = None /\ o \notin destroyed
  /\ KeepCounts /\ UNCHANGED <<vars, objLocked, destroyed, failed>>

RdLock(t) ==
  /\ Go(t, "rd_lock", "rd_look") /\ LockObj(t)
  /\ Keep /\ UNCHANGED vars

RdEnter(t) ==
  LET o == obj[t]
  IN  /\ Go(t, "rd_look", "unlock")
      /\ writer[o] = None
      /\ readers' = [readers EXCEPT ![o] = @ + 1]
      /\ has' = [has EXCEPT ![t] = o]
      /\ UNCHANGED <<vars, obj, objLocked, count, writer, destroyed, left, failed>>

\* cond_wait is called with the mutex of the condition's own control block.
RdBusy(t) ==
  /\ Go(t, "rd_look", "rw_world")
  /\ writer[obj[t]] # None
  /\ Keep /\ UNCHANGED <<vars, objLocked>>

WrLock(t) ==
  /\ Go(t, "wr_lock", "wr_look") /\ LockObj(t)
  /\ Keep /\ UNCHANGED vars

WrEnter(t) ==
  LET o == obj[t]
  IN  /\ Go(t, "wr_look", "unlock")
      /\ writer[o] = None /\ readers[o] = 0
      /\ writer' = [writer EXCEPT ![o] = t]
      /\ has' = [has EXCEPT ![t] = o]
      /\ UNCHANGED <<vars, obj, objLocked, count, readers, destroyed, left, failed>>

WrBusy(t) ==
  /\ Go(t, "wr_look", "rw_world")
  /\ writer[obj[t]] # None \/ readers[obj[t]] # 0
  /\ Keep /\ UNCHANGED <<vars, objLocked>>

\* cond_wait takes the world lock, then spins on the mutex it was given.
RwWorld(t) ==
  /\ Go(t, "rw_world", "rw_self") /\ World1(t)
  /\ Keep /\ UNCHANGED objLocked

----------------------------------------------------------------------------
(* rwlock_unlock asks thr_getid who calls, in between. *)

RWUnlock(t, o) ==
  /\ Call(t, o, "ru_lock")
  /\ has[t] = o
  /\ KeepCounts /\ UNCHANGED <<vars, objLocked, destroyed, failed>>

RuLock(t) ==
  /\ Go(t, "ru_lock", "ru_world") /\ LockObj(t)
  /\ Keep /\ UNCHANGED vars

RuWorld(t) ==
  /\ Go(t, "ru_world", "ru_unworld") /\ World1(t)
  /\ Keep /\ UNCHANGED objLocked

RuUnworld(t) ==
  /\ Go(t, "ru_unworld", "ru_leave") /\ World0(t)
  /\ Keep /\ UNCHANGED objLocked

\* thr_getid returns the library's number of the thread, active_writer_tid is
\* the kernel's: they are never equal, a writer is taken for a reader, and
\* the assertion that there is no writer fails.
RuLeave(t) ==
  LET o == obj[t]
  IN  /\ Go(t, "ru_leave", "unlock")
      /\ failed' = {u \in {t} : writer[o] # None}
      /\ readers' = [readers EXCEPT ![o] = IF failed' = {} THEN @ - 1 ELSE @]
      /\ has' = [has EXCEPT ![t] = IF failed' = {} THEN None ELSE @]
      /\ UNCHANGED <<vars, obj, objLocked, count, writer, destroyed, left>>

----------------------------------------------------------------------------
(* rwlock_destroy, which may find the lock taken, and rwlock_init. *)

RWDestroy(t, o) ==
  /\ Call(t, o, "rx_lock")
  /\ o \notin destroyed /\ ~ InUse(o) /\ has[t] # o
  /\ destroyed' = destroyed \cup {o}
  /\ KeepCounts /\ UNCHANGED <<vars, objLocked, failed>>

RxLock(t) ==
  /\ Go(t, "rx_lock", "rx_look") /\ LockObj(t)
  /\ Keep /\ UNCHANGED vars

\* Taken, and so in use as before.
RxBusy(t) ==
  /\ Go(t, "rx_look", "unlock")
  /\ readers[obj[t]] # 0 \/ writer[obj[t]] # None
  /\ destroyed' = destroyed \ {obj[t]}
  /\ KeepCounts /\ UNCHANGED <<vars, obj, objLocked, failed>>

\* All of it is set to 0, the mutex too.
RxClear(t) ==
  /\ Return(t, "rx_look")
  /\ readers[obj[t]] = 0 /\ writer[obj[t]] = None
  /\ UnlockObj(t)
  /\ KeepCounts /\ UNCHANGED <<vars, destroyed, failed>>

RWInit(t, o) ==
  /\ Go(t, "out", "out") /\ at[t] = "user" /\ mp[t] = None
  /\ o \in destroyed /\ ~ InUse(o)
  /\ readers' = [readers EXCEPT ![o] = 0] /\ writer' = [writer EXCEPT ![o] = None]
  /\ destroyed' = destroyed \ {o}
  /\ UNCHANGED <<vars, obj, objLocked, count, has, left, failed>>

----------------------------------------------------------------------------

InSync(t) ==
  \/ SwWorld(t) \/ SwLock(t) \/ SwTake(t) \/ SwUnworld(t)
  \/ SsLock(t) \/ SsGive(t) \/ ObjUnlock(t) \/ SdLock(t)
  \/ RdLock(t) \/ RdEnter(t) \/ RdBusy(t) \/ WrLock(t) \/ WrEnter(t) \/ WrBusy(t)
  \/ RwWorld(t) \/ RuLock(t) \/ RuWorld(t) \/ RuUnworld(t) \/ RuLeave(t)
  \/ RxLock(t) \/ RxBusy(t) \/ RxClear(t)

Calls(t) ==
  \/ \E s \in Sems \cup Events :
       SemWait(t, s) \/ SemSignal(t, s) \/ SemDestroy(t, s) \/ SemInit(t, s)
  \/ \E o \in RWLocks :
       \/ RWLock(t, o, "rd_lock") \/ RWLock(t, o, "wr_lock") \/ RWUnlock(t, o)
       \/ RWDestroy(t, o) \/ RWInit(t, o)

SONext ==
  \E t \in Threads :
    \/ failed = {} /\ Inside(t) /\ UNCHANGED syncvars
    \/ failed = {} /\ call[t] = "out" /\ Client(t) /\ UNCHANGED syncvars
    \/ InSync(t)
    \/ Calls(t)

SOSpec == SOInit /\ [][SONext]_sovars

----------------------------------------------------------------------------
(* What is left of these objects when nobody can wait for them. *)
Within(o) == {t \in Threads : has[t] = o}

\* Whoever found no permit has taken one from the count all the same.
Short(s) == {t \in Threads : obj[t] = s /\ call[t] = "sw_self"}

\* An object lets in whom it may: no more threads than a semaphore has
\* permits, and to a reader-writer lock one writer or any number of readers,
\* as its counters say (sem.c:76-83, rwlocks.c:22-48).
LetsIn ==
  /\ \A s \in Sems : Cardinality(Within(s)) <= SemCount
  /\ \A s \in Sems \ destroyed :
       count[s] = SemCount - Cardinality(Within(s)) - Cardinality(Short(s))
  /\ \A o \in RWLocks :
       Cardinality(Within(o)) = readers[o] + (IF writer[o] = None THEN 0 ELSE 1)
  /\ \A o \in RWLocks : writer[o] # None => Within(o) = {writer[o]}

----------------------------------------------------------------------------
(* Who spins on what. *)

InObject == {"sw_take", "sw_unworld", "sw_self", "ss_give", "unlock", "rd_look",
             "wr_look", "rw_world", "rw_self", "ru_world", "ru_unworld", "ru_leave",
             "rx_look"}

WantsObject == {"sw_lock", "sw_self", "ss_lock", "sd_lock", "rd_lock", "wr_lock",
                "rw_self", "ru_lock", "rx_lock"}

WantsWorld(t) ==
  \/ at[t] \in {"cr_lock", "jn_lock", "ex_lock", "lk_lock"}
  \/ call[t] \in {"sw_world", "rw_world", "ru_world"}

\* Thread t spins on lock l.
SpinsOn(t, l) ==
  \/ l = World /\ WantsWorld(t)
  \/ l \in Objects /\ call[t] \in WantsObject /\ obj[t] = l
  \/ l = Wants(t)

Keeps(t, l) ==
  IF l \in Objects THEN obj[t] = l /\ call[t] \in InObject ELSE Holds(t, l)

Taken(l) == IF l \in Objects THEN objLocked[l] ELSE locked[l]

AllLocks == Locks \cup Objects

\* Threads that create, join, look up, wait and use these objects hang for
\* two reasons only: somebody had to wait for an object, or uses a semaphore
\* that was destroyed and initialised again (sem.c:42-52, 76-87).  Of any
\* threads one of which spins, one goes on, or has had to wait, or wants a
\* lock that is free, or that sem_destroy has left locked, or that none of
\* them has.
HangsForAReason ==
  \A S \in SUBSET Threads :
    (\E t \in S : \E l \in AllLocks : SpinsOn(t, l)) =>
      \E t \in S :
        \/ runFlag[t] = Running /\ \A l \in AllLocks : ~ SpinsOn(t, l)
        \/ call[t] \in {"sw_self", "rw_self"}
        \/ \E l \in AllLocks :
             /\ SpinsOn(t, l)
             /\ ~ Taken(l) \/ l \in left \/ \E h \in Threads \ S : Keeps(h, l)
=============================================================================
