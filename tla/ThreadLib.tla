----------------------------- MODULE ThreadLib -----------------------------
(***************************************************************************)
(* Creating, joining and ending threads in libthread (thread_lib.c), on    *)
(* top of the mutexes and condition variables of CondVar: every action     *)
(* here is a step of CondVar, or leaves its variables alone, together with *)
(* what the caller does between two library calls.                         *)
(*                                                                         *)
(* A thread's control block lies on its own stack, and the condition its   *)
(* joiner waits on in the control block: join frees all of it at once.     *)
(***************************************************************************)
EXTENDS CondVar

CONSTANTS
  Main,         \* the thread thr_init finds, whose block is not on a stack
  JoinedOnce,   \* the threads joined once, by somebody who knows their tid
  CreateFails,  \* TRUE: thread_fork may fail
  LookUps       \* TRUE: threads call thr_getid and thr_yield, as often as they like

\* The joinCondition of thread t is named t.
ASSUME ThreadLibAssumption ==
  /\ Main \in Threads /\ Threads \subseteq Conds
  /\ JoinedOnce \subseteq Threads
  /\ {CreateFails, LookUps} \subseteq BOOLEAN

VARIABLES
  at,          \* where every thread is in thread_lib.c; "user" is outside
  peer,        \* the thread the call in progress creates or joins
  anchorThrds, \* the threads on the task's list
  stack,       \* the memory of every thread's stack and control block
  aborted,     \* the threads whose exit or join an assertion has stopped
  freedTwice   \* the threads whose stack was freed again

tlvars == <<at, peer, anchorThrds, stack, aborted, freedTwice>>
vars == <<cvvars, tlvars>>

Places == {"none", "user",
           "cr_lock", "cr_fork", "cr_failed", "cr_register", "cr_unlock",
           "jn_lock", "jn_look", "jn_wait", "jn_reap", "jn_unlock",
           "ex_lock", "ex_mark", "ex_signal", "ex_unlock", "ex_vanish", "gone",
           "lk_lock", "lk_unlock"}

StackStates == {"none", "live", "leaked", "freed"}

\* After thr_init: the main thread alone, and on the list.
TLInit ==
  /\ CVInit
  /\ at = [t \in Threads |-> IF t = Main THEN "user" ELSE "none"]
  /\ peer = [t \in Threads |-> None]
  /\ anchorThrds = {Main}
  /\ stack = [t \in Threads |-> IF t = Main THEN "live" ELSE "none"]
  /\ aborted = {}
  /\ freedTwice = {}

\* t goes from place a to place b of thread_lib.c.
Step(t, a, b) ==
  /\ aborted = {}
  /\ at[t] = a
  /\ at' = [at EXCEPT ![t] = b]

\* The calls are made with no mutex held.
Enter(t, b) == At(t, "run") /\ mp[t] = None /\ Step(t, "user", b)

----------------------------------------------------------------------------
(* thr_create. *)

\* malloc of the stack, and the control block on it.
ThrCreate(t, u) ==
  /\ Enter(t, "cr_lock")
  /\ stack[u] = "none"
  /\ stack' = [stack EXCEPT ![u] = "live"]
  /\ peer' = [peer EXCEPT ![t] = u]
  /\ UNCHANGED <<cvvars, anchorThrds, aborted, freedTwice>>

CrLock(t) ==
  /\ Step(t, "cr_lock", "cr_fork")
  /\ Lock(t, World)
  /\ UNCHANGED <<peer, anchorThrds, stack, aborted, freedTwice>>

\* thread_fork: the child may run at once.
CrFork(t) ==
  /\ aborted = {} /\ at[t] = "cr_fork"
  /\ at' = [at EXCEPT ![t] = "cr_register", ![peer[t]] = "user"]
  /\ UNCHANGED <<cvvars, peer, anchorThrds, stack, aborted, freedTwice>>

CrForkFails(t) ==
  /\ CreateFails
  /\ Step(t, "cr_fork", "cr_failed")
  /\ UNCHANGED <<cvvars, peer, anchorThrds, stack, aborted, freedTwice>>

\* The pointer freed is the control block's, which malloc did not return: the
\* stack stays allocated, and what else free does is not modelled.
CrFailed(t) ==
  /\ Step(t, "cr_failed", "user")
  /\ Unlock(t)
  /\ stack' = [stack EXCEPT ![peer[t]] = "leaked"]
  /\ peer' = [peer EXCEPT ![t] = None]
  /\ UNCHANGED <<anchorThrds, aborted, freedTwice>>

CrRegister(t) ==
  /\ Step(t, "cr_register", "cr_unlock")
  /\ state' = [state EXCEPT ![peer[t]] = "RUNNABLE"]
  /\ anchorThrds' = anchorThrds \cup {peer[t]}
  /\ UNCHANGED <<locked, waiters, runFlag, pc, mp, cv, tgt, batch,
                 peer, stack, aborted, freedTwice>>

CrUnlock(t) ==
  /\ Step(t, "cr_unlock", "user")
  /\ Unlock(t)
  /\ peer' = [peer EXCEPT ![t] = None]
  /\ UNCHANGED <<anchorThrds, stack, aborted, freedTwice>>

----------------------------------------------------------------------------
(* thr_join. *)

\* What a caller may name: any thread ever created, or only one it can join.
MayJoin(u) ==
  IF u \in JoinedOnce THEN u \in anchorThrds /\ \A v \in Threads : peer[v] # u
  ELSE stack[u] # "none"

Join(t, u) ==
  /\ Enter(t, "jn_lock")
  /\ peer' = [peer EXCEPT ![t] = u]
  /\ UNCHANGED <<cvvars, anchorThrds, stack, aborted, freedTwice>>

ThrJoin(t, u) == u # t /\ MayJoin(u) /\ Join(t, u)

JnLock(t) ==
  /\ Step(t, "jn_lock", "jn_look")
  /\ Lock(t, World)
  /\ UNCHANGED <<peer, anchorThrds, stack, aborted, freedTwice>>

\* Not on the list, or somebody waits for it already: assert(0).
JnRefused(t) ==
  /\ aborted = {} /\ at[t] = "jn_look"
  /\ peer[t] \notin anchorThrds \/ waiters[peer[t]] # <<>>
  /\ aborted' = {peer[t]}
  /\ UNCHANGED <<cvvars, at, peer, anchorThrds, stack, freedTwice>>

JnWait(t) ==
  /\ Step(t, "jn_look", "jn_wait")
  /\ peer[t] \in anchorThrds /\ waiters[peer[t]] = <<>>
  /\ state[peer[t]] # "COMPLETED"
  /\ CondWait(t, peer[t])
  /\ UNCHANGED <<peer, anchorThrds, stack, aborted, freedTwice>>

\* Mutant: a thread found on the list is taken for one that has completed.
JnReadyUnchecked(t) ==
  /\ Step(t, "jn_look", "jn_reap")
  /\ peer[t] \in anchorThrds /\ waiters[peer[t]] = <<>>
  /\ UNCHANGED <<cvvars, peer, anchorThrds, stack, aborted, freedTwice>>

JnReady(t) ==
  /\ Step(t, "jn_look", "jn_reap")
  /\ peer[t] \in anchorThrds /\ waiters[peer[t]] = <<>>
  /\ state[peer[t]] = "COMPLETED"
  /\ UNCHANGED <<cvvars, peer, anchorThrds, stack, aborted, freedTwice>>

\* Mutant: the control block that is freed stays on the list.
JnReapKeeps(t) ==
  LET u == peer[t]
  IN  /\ aborted = {} /\ At(t, "run") /\ at[t] \in {"jn_wait", "jn_reap"}
      /\ at' = [at EXCEPT ![t] = "jn_unlock"]
      /\ aborted' = {u} \cap {v \in Threads : state[v] # "COMPLETED"}
      /\ stack' = [stack EXCEPT ![u] = IF u = Main THEN @ ELSE "freed"]
      /\ freedTwice' = freedTwice \cup ({u} \cap {v \in Threads : stack[v] = "freed"})
      /\ UNCHANGED <<cvvars, peer, anchorThrds>>

\* From cond_wait, or straight from the look: the thread is taken off the
\* list and its stack freed.  The main thread has no stack to free.
JnReap(t) ==
  LET u == peer[t]
  IN  /\ aborted = {} /\ At(t, "run") /\ at[t] \in {"jn_wait", "jn_reap"}
      /\ at' = [at EXCEPT ![t] = "jn_unlock"]
      /\ aborted' = {u} \cap {v \in Threads : state[v] # "COMPLETED"}
      /\ anchorThrds' = anchorThrds \ {u}
      /\ stack' = [stack EXCEPT ![u] = IF u = Main THEN @ ELSE "freed"]
      /\ freedTwice' = freedTwice \cup ({u} \cap {v \in Threads : stack[v] = "freed"})
      /\ UNCHANGED <<cvvars, peer>>

JnUnlock(t) ==
  /\ Step(t, "jn_unlock", "user")
  /\ Unlock(t)
  /\ peer' = [peer EXCEPT ![t] = None]
  /\ UNCHANGED <<anchorThrds, stack, aborted, freedTwice>>

----------------------------------------------------------------------------
(* thr_exit. *)

ThrExit(t) ==
  /\ Enter(t, "ex_lock")
  /\ UNCHANGED <<cvvars, peer, anchorThrds, stack, aborted, freedTwice>>

ExLock(t) ==
  /\ Step(t, "ex_lock", "ex_mark")
  /\ Lock(t, World)
  /\ UNCHANGED <<peer, anchorThrds, stack, aborted, freedTwice>>

\* Mutant: the join condition is emptied before it is signalled.
ExMarkEmpties(t) ==
  /\ Step(t, "ex_mark", "ex_signal")
  /\ aborted' = {t} \ anchorThrds
  /\ At(t, "run")
  /\ state' = [state EXCEPT ![t] = "COMPLETED"]
  /\ waiters' = [waiters EXCEPT ![t] = <<>>]
  /\ UNCHANGED <<locked, runFlag, pc, mp, cv, tgt, batch,
                 peer, anchorThrds, stack, freedTwice>>

\* The thread finds its own control block, or an assertion fails.
ExMark(t) ==
  /\ Step(t, "ex_mark", "ex_signal")
  /\ aborted' = {t} \ anchorThrds
  /\ Complete(t)
  /\ UNCHANGED <<peer, anchorThrds, stack, freedTwice>>

ExSignal(t) ==
  /\ Step(t, "ex_signal", "ex_unlock")
  /\ CondSignal(t, t)
  /\ UNCHANGED <<peer, anchorThrds, stack, aborted, freedTwice>>

\* Returned from cond_signal.
ExUnlock(t) ==
  /\ Step(t, "ex_unlock", "ex_vanish")
  /\ Unlock(t)
  /\ UNCHANGED <<peer, anchorThrds, stack, aborted, freedTwice>>

\* mutex_unlock returns, and vanish is called, on the thread's stack.
ExVanish(t) ==
  /\ Step(t, "ex_vanish", "gone")
  /\ UNCHANGED <<cvvars, peer, anchorThrds, stack, aborted, freedTwice>>

----------------------------------------------------------------------------
(* thr_getid and thr_yield look a thread up in the task's list, under the    *)
(* world lock; what yield does then is the kernel's business.                *)

GetId(t) ==
  /\ Enter(t, "lk_lock")
  /\ UNCHANGED <<cvvars, peer, anchorThrds, stack, aborted, freedTwice>>

ThrLookUp(t) == LookUps /\ GetId(t)

LkLock(t) ==
  /\ Step(t, "lk_lock", "lk_unlock")
  /\ Lock(t, World)
  /\ UNCHANGED <<peer, anchorThrds, stack, aborted, freedTwice>>

LkUnlock(t) ==
  /\ Step(t, "lk_unlock", "user")
  /\ Unlock(t)
  /\ UNCHANGED <<peer, anchorThrds, stack, aborted, freedTwice>>

----------------------------------------------------------------------------
(* A thread in user code uses its own mutexes and condition variables; once  *)
(* inside a call of CondVar it goes on there.                                *)

UserSync(t) ==
  /\ aborted = {} /\ at[t] = "user"
  /\ \/ \E m \in Mutexes \ {World} : Lock(t, m)
     \/ Unlock(t)
     \/ \E c \in Conds \ Threads : CondWait(t, c) \/ CondSignal(t, c) \/ CondBroadcast(t, c)
  /\ UNCHANGED tlvars

InLibrary(t) == aborted = {} /\ LibStep(t) /\ UNCHANGED tlvars

Inside(t) ==
  \/ InLibrary(t)
  \/ CrLock(t) \/ CrFork(t) \/ CrForkFails(t) \/ CrFailed(t)
  \/ CrRegister(t) \/ CrUnlock(t)
  \/ JnLock(t) \/ JnRefused(t) \/ JnWait(t) \/ JnReady(t) \/ JnReap(t) \/ JnUnlock(t)
  \/ ExLock(t) \/ ExMark(t) \/ ExSignal(t) \/ ExUnlock(t) \/ ExVanish(t)
  \/ LkLock(t) \/ LkUnlock(t)

Client(t) ==
  \/ UserSync(t)
  \/ ThrExit(t)
  \/ ThrLookUp(t)
  \/ \E u \in Threads : ThrCreate(t, u) \/ ThrJoin(t, u)

TLNext == \E t \in Threads : Inside(t) \/ Client(t)

TLSpec == TLInit /\ [][TLNext]_vars
=============================================================================
