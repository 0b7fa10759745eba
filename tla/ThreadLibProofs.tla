-------------------------- MODULE ThreadLibProofs --------------------------
(***************************************************************************)
(* Theorems about ThreadLib, for any number of threads, mutexes and        *)
(* condition variables, about SyncObjects, for any number of semaphores    *)
(* and reader-writer locks besides, and about ThreadGroup.                 *)
(***************************************************************************)
EXTENDS ThreadLibProps, SyncObjects, ThreadGroup, CondVarProofs, FiniteSetTheorems

----------------------------------------------------------------------------
(* The invariant.                                                            *)

\* Outside of a call, or before its first lock, or after its last unlock.
Idle == {"none", "cr_lock", "jn_lock", "ex_lock", "lk_lock", "ex_vanish", "gone"}

\* With the world lock, and not inside cond_var.c.
Locked == {"cr_fork", "cr_failed", "cr_register", "cr_unlock", "jn_look", "jn_reap",
           "jn_unlock", "ex_mark", "ex_signal", "lk_unlock"}

Creating == {"cr_lock", "cr_fork", "cr_failed", "cr_register", "cr_unlock"}
Joining  == {"jn_lock", "jn_look", "jn_wait", "jn_reap", "jn_unlock"}

Signalling == {"sg_lock", "sg_pop", "sg_cas", "sg_unlock"}
Waiting == {"cw_wcb", "cw_enq", "cw_unlock_mp", "cw_stop", "cw_resume", "cw_relock"}

\* Past the call of vanish, or just before it: nothing of the library is used.
Ended(u) == at[u] \in {"ex_vanish", "gone"}

\* The thread has taken its joiner off the list, if there was one.
Signalled(u) == Ended(u) \/ (at[u] = "ex_unlock" /\ pc[u] \in {"run", "sg_cas", "sg_unlock"})

\* A thread that has not had the world lock yet.
NewBorn(u) ==
  /\ at[u] \in {"user", "cr_lock", "jn_lock", "ex_lock", "lk_lock"}
  /\ pc[u] \notin Waiting \cup {"cw_unlock_world"}
  /\ state[u] = "RUNNABLE"

\* What a thread holds, and what it is doing in cond_var.c, at each place.
PlacesOK ==
  \A t \in Threads :
    /\ at[t] \in Idle => pc[t] = "run" /\ mp[t] = None
    /\ at[t] \in Locked => pc[t] = "run" /\ mp[t] = World
    /\ at[t] = "ex_unlock" =>
         /\ mp[t] = World /\ pc[t] \in {"run"} \cup Signalling
         /\ pc[t] # "run" => cv[t] = t
    /\ at[t] = "jn_wait" =>
         /\ mp[t] = World /\ pc[t] \in {"run"} \cup Waiting
         /\ pc[t] # "run" => cv[t] = peer[t]
    /\ at[t] = "user" => mp[t] # World /\ cv[t] \notin Threads
    /\ pc[t] \in {"run", "bc_next", "bc_cas"} => cv[t] = None

\* A call has a peer while it creates or joins, and nobody joins itself.
PeersOK ==
  \A t \in Threads :
    /\ peer[t] = None <=> at[t] \notin Creating \cup Joining
    /\ at[t] \in Joining => peer[t] # t

\* A thread that is being created has one creator, and has not run yet or
\* not come far.
BirthOK ==
  \A t \in Threads : at[t] \in Creating =>
    /\ stack[peer[t]] = "live"
    /\ at[t] \in {"cr_lock", "cr_fork", "cr_failed"} => at[peer[t]] = "none"
    /\ at[t] = "cr_register" => NewBorn(peer[t])
    /\ at[t] # "cr_unlock" => peer[t] \notin anchorThrds
    /\ \A v \in Threads : at[v] \in Creating /\ peer[v] = peer[t] => v = t

\* Stack and list go with the life of a thread.
BlocksOK ==
  \A u \in Threads :
    /\ stack[u] = "none" => at[u] = "none"
    /\ u \in anchorThrds => stack[u] = "live" /\ at[u] # "none"
    /\ at[u] # "none" /\ u \notin anchorThrds =>
         Ended(u) \/ \E t \in Threads : at[t] = "cr_register" /\ peer[t] = u
    /\ stack[u] = "freed" => Ended(u)
    /\ state[u] = "COMPLETED" <=> at[u] \in {"ex_signal", "ex_unlock"} \/ Ended(u)

\* Whoever waits to join is on the list of the thread it joins, alone, until
\* that thread takes it off, which it does on its way out.
JoinOK ==
  /\ \A u \in Threads :
       /\ Len(waiters[u]) =< 1
       /\ Signalled(u) => waiters[u] = <<>>
  /\ \A t \in Threads :
       /\ at[t] = "jn_wait" /\ pc[t] \in {"cw_wcb", "cw_enq"} =>
            waiters[peer[t]] = <<>> /\ state[peer[t]] # "COMPLETED"
       /\ at[t] = "jn_wait" /\ pc[t] \notin {"cw_wcb", "cw_enq"} =>
            t \in Members(waiters[peer[t]]) \/ Signalled(peer[t])
       /\ at[t] = "jn_reap" => Ended(peer[t])
       /\ at[t] = "jn_wait" =>
            \A w \in Threads : t \in InHand(w) =>
              w = peer[t] /\ at[w] = "ex_unlock" /\ pc[w] = "sg_cas"

\* The threads of S have one joiner each, which finds them on the list.
OnceIn(S) ==
  \A t \in Threads : at[t] \in Joining /\ peer[t] \in S =>
    /\ \A v \in Threads : at[v] \in Joining /\ peer[v] = peer[t] => v = t
    /\ at[t] # "jn_unlock" => peer[t] \in anchorThrds

\* So have those that are joined once.
OnceOK == OnceIn(JoinedOnce)

TLInv ==
  /\ CVInv /\ TLTypeOK /\ PlacesOK /\ PeersOK /\ BirthOK /\ BlocksOK
  /\ JoinOK /\ OnceOK /\ JoinsInOrder

----------------------------------------------------------------------------
(* Every step is one of CondVar, or leaves its variables alone.              *)

\* What threads do, whether or not LookUps lets them look each other up.
TLStep(t) ==
  \/ Inside(t) \/ UserSync(t) \/ ThrExit(t) \/ GetId(t)
  \/ \E u \in Threads : ThrCreate(t, u) \/ ThrJoin(t, u)

\* A step of thread_lib.c uses mutexes and condition variables as it may: the
\* state that thr_create writes is already there.
LEMMA StepUsesCondVar ==
  ASSUME TLInv, NEW t \in Threads, TLStep(t)
  PROVE  LibStep(t) \/ ClientStep(t) \/ UNCHANGED cvvars
  <1>1. CASE InLibrary(t)
    BY <1>1 DEF InLibrary
  <1>2. CASE CrLock(t) \/ JnLock(t) \/ ExLock(t) \/ LkLock(t)
    BY <1>2, CondVarAssumption DEF CrLock, JnLock, ExLock, LkLock, ClientStep
  <1>3. CASE CrFailed(t) \/ CrUnlock(t) \/ JnUnlock(t) \/ ExUnlock(t) \/ LkUnlock(t)
    BY <1>3 DEF CrFailed, CrUnlock, JnUnlock, ExUnlock, LkUnlock, ClientStep
  <1>4. CASE CrFork(t) \/ CrForkFails(t) \/ JnRefused(t) \/ JnReady(t) \/ JnReap(t) \/ ExVanish(t)
    BY <1>4 DEF CrFork, CrForkFails, JnRefused, JnReady, JnReap, ExVanish
  <1>5. CASE CrRegister(t)
    <2>1. peer[t] \in Threads /\ state[peer[t]] = "RUNNABLE"
      BY <1>5 DEF CrRegister, Step, TLInv, TLTypeOK, PeersOK, BirthOK, NewBorn, Creating
    <2>2. state' = state
      BY <1>5, <2>1 DEF CrRegister, TLInv, CVInv, TypeInv, TypeOK
    <2> QED
      BY <1>5, <2>2 DEF CrRegister, cvvars
  <1>6. CASE JnWait(t)
    <2>1. peer[t] \in Conds
      BY <1>6, ThreadLibAssumption DEF JnWait, Step, TLInv, TLTypeOK, PeersOK, Joining
    <2> QED
      BY <1>6, <2>1 DEF JnWait, ClientStep
  <1>7. CASE ExMark(t)
    BY <1>7 DEF ExMark, ClientStep
  <1>8. CASE ExSignal(t)
    BY <1>8, ThreadLibAssumption DEF ExSignal, ClientStep
  <1>9. CASE UserSync(t)
    BY <1>9 DEF UserSync, ClientStep
  <1>10. CASE ThrExit(t) \/ GetId(t) \/ \E u \in Threads : ThrCreate(t, u) \/ ThrJoin(t, u)
    BY <1>10 DEF ThrExit, GetId, ThrCreate, ThrJoin, Join
  <1> QED
    BY <1>1, <1>2, <1>3, <1>4, <1>5, <1>6, <1>7, <1>8, <1>9, <1>10 DEF TLStep, Inside

\* The invariant of CondVar is kept.
LEMMA StepKeepsCVInv ==
  ASSUME TLInv, NEW t \in Threads, TLStep(t)
  PROVE  CVInv'
  BY StepUsesCondVar, StepCVInv DEF CVNext, TLInv

\* What a step of t leaves alone of other threads.
LEMMA OthersStay ==
  ASSUME TLInv, NEW t \in Threads, TLStep(t), NEW u \in Threads, u # t
  PROVE  /\ pc'[u] = pc[u] /\ mp'[u] = mp[u] /\ cv'[u] = cv[u] /\ peer'[u] = peer[u]
         /\ InHand(u)' = InHand(u)
         /\ at'[u] = at[u] \/ (CrFork(t) /\ u = peer[t])
  <1>1. /\ pc'[u] = pc[u] /\ mp'[u] = mp[u] /\ cv'[u] = cv[u]
        /\ InHand(u)' = InHand(u)
    BY StepUsesCondVar, StepOthersKeep DEF TLInv, CVInv, cvvars, InHand
  <1>2. peer'[u] = peer[u] /\ (at'[u] = at[u] \/ (CrFork(t) /\ u = peer[t]))
    BY DEF TLInv, TLTypeOK, TLStep, Inside, Step, Enter, InLibrary, UserSync, tlvars,
       CrLock, CrFork, CrForkFails, CrFailed, CrRegister, CrUnlock, JnLock, JnRefused,
       JnWait, JnReady, JnReap, JnUnlock, ExLock, ExMark, ExSignal, ExUnlock, ExVanish,
       LkLock, LkUnlock, ThrExit, GetId, ThrCreate, ThrJoin, Join
  <1> QED
    BY <1>1, <1>2

\* Where a step inside cond_var.c takes a thread, by the call it is in.
LEMMA LibraryMoves ==
  ASSUME CVInv, NEW t \in Threads, LibStep(t)
  PROVE  /\ pc[t] # "run" /\ mp' = mp
         /\ cv'[t] = cv[t] \/ (cv'[t] = None /\ pc'[t] \in {"run", "bc_next"})
         /\ pc'[t] \in {"run", "bc_next"} /\ pc[t] # "bc_cas" /\ pc[t] # "bc_next" => cv'[t] = None
         /\ pc'[t] = "bc_cas" => pc[t] = "bc_next"
         /\ pc[t] \in Waiting /\ mp[t] = World => pc'[t] \in Waiting \cup {"run"}
         /\ pc[t] \in Signalling => pc'[t] \in Signalling \cup {"run"}
         /\ pc'[t] \in Waiting \cup {"cw_unlock_world"} =>
              pc[t] \in Waiting \cup {"cw_unlock_world"} \/ (pc[t] = "cw_world" /\ ~ locked[World])
  BY DEF CVInv, TypeInv, TypeOK, Waiting, Signalling, LibStep, At, Goto, Acquire,
     CwWorld, CwWcb, CwEnq, CwUnlockMp, CwUnlockWorld, CwStop, CwResume, CwRelock,
     SgLock, SgPop, SgNone, SgCas, SgUnlock,
     BcLock, BcDetach, BcUnlock, BcPop, BcCas, BcDone

\* Every step leaves its thread holding what its place says.
LEMMA StepPlacesOK ==
  ASSUME TLInv, NEW t \in Threads, TLStep(t)
  PROVE  PlacesOK'
  <1> USE CondVarAssumption, ThreadLibAssumption
  <1>0. CVInv /\ TLTypeOK /\ PlacesOK /\ TypeOK /\ CVInv'
    BY StepKeepsCVInv DEF TLInv, CVInv, TypeInv
  <1> DEFINE Fits(u) ==
        /\ at[u] \in Idle => pc[u] = "run" /\ mp[u] = None
        /\ at[u] \in Locked => pc[u] = "run" /\ mp[u] = World
        /\ at[u] = "ex_unlock" =>
             /\ mp[u] = World /\ pc[u] \in {"run"} \cup Signalling
             /\ pc[u] # "run" => cv[u] = u
        /\ at[u] = "jn_wait" =>
             /\ mp[u] = World /\ pc[u] \in {"run"} \cup Waiting
             /\ pc[u] # "run" => cv[u] = peer[u]
        /\ at[u] = "user" => mp[u] # World /\ cv[u] \notin Threads
        /\ pc[u] \in {"run", "bc_next", "bc_cas"} => cv[u] = None
  <1>1. \A u \in Threads : Fits(u)
    BY <1>0 DEF PlacesOK
  <1>2. ASSUME NEW u \in Threads, u # t PROVE Fits(u)'
    <2>1. CASE at'[u] = at[u]
      BY <1>1, <1>2, <2>1, OthersStay
    <2>2. CASE CrFork(t) /\ u = peer[t]
      <3>1. at[u] = "none" /\ at'[u] = "user"
        BY <1>0, <1>2, <2>2 DEF CrFork, TLInv, TLTypeOK, BirthOK, Creating
      <3> QED
        BY <1>1, <1>2, <3>1, OthersStay DEF Idle, Locked
    <2> QED
      BY <1>2, <2>1, <2>2, OthersStay
  <1>3. Fits(t)'
    <2>1. CASE InLibrary(t)
      <3>1. at' = at /\ peer' = peer /\ LibStep(t)
        BY <2>1 DEF InLibrary, tlvars
      <3>2. Fits(t)
        BY <1>1
      <3>3. at[t] \notin Idle \cup Locked
        BY <1>0, <3>1, <3>2, LibraryMoves
      <3> QED
        BY <1>0, <3>1, <3>2, <3>3, LibraryMoves DEF Waiting, Signalling
    <2>2. CASE CrLock(t) \/ JnLock(t) \/ ExLock(t) \/ LkLock(t)
      BY <1>0, <1>1, <2>2 DEF CrLock, JnLock, ExLock, LkLock, Lock, MayCall, At, Step,
         TLTypeOK, TypeOK, Idle, Locked
    <2>3. CASE CrFailed(t) \/ CrUnlock(t) \/ JnUnlock(t) \/ ExUnlock(t) \/ LkUnlock(t)
      BY <1>0, <1>1, <2>3 DEF CrFailed, CrUnlock, JnUnlock, ExUnlock, LkUnlock, Unlock, At,
         Step, TLTypeOK, TypeOK, Idle, Locked
    <2>4. CASE CrFork(t) \/ CrForkFails(t) \/ JnRefused(t) \/ JnReady(t) \/ JnReap(t) \/ ExVanish(t)
      BY <1>0, <1>1, <2>4 DEF CrFork, CrForkFails, JnRefused, JnReady, JnReap, ExVanish,
         cvvars, At, Step, TLTypeOK, TypeOK, Idle, Locked, TLInv, BirthOK, Creating
    <2>5. CASE CrRegister(t)
      BY <1>0, <1>1, <2>5 DEF CrRegister, Step, TLTypeOK, TypeOK, Idle, Locked
    <2>6. CASE JnWait(t)
      BY <1>0, <1>1, <2>6 DEF JnWait, CondWait, MayCall, At, Goto, Step, TLTypeOK, TypeOK,
         Idle, Locked, Waiting
    <2>7. CASE ExMark(t)
      BY <1>0, <1>1, <2>7 DEF ExMark, Complete, Step, TLTypeOK, TypeOK, Idle, Locked
    <2>8. CASE ExSignal(t)
      BY <1>0, <1>1, <2>8 DEF ExSignal, CondSignal, At, Goto, Step, TLTypeOK, TypeOK,
         Idle, Locked, Signalling
    <2>9. CASE UserSync(t)
      BY <1>0, <1>1, <2>9 DEF UserSync, tlvars, Lock, Unlock, CondWait, CondSignal,
         CondBroadcast, MayCall, At, Goto, TLTypeOK, TypeOK, Idle, Locked
    <2>10. CASE ThrExit(t) \/ GetId(t) \/ \E u \in Threads : ThrCreate(t, u) \/ ThrJoin(t, u)
      BY <1>0, <1>1, <2>10 DEF ThrExit, GetId, ThrCreate, ThrJoin, Join, cvvars, Enter, At,
         Step, TLTypeOK, TypeOK, Idle, Locked
    <2> QED
      BY <2>1, <2>2, <2>3, <2>4, <2>5, <2>6, <2>7, <2>8, <2>9, <2>10 DEF TLStep, Inside
  <1> QED
    BY <1>2, <1>3 DEF PlacesOK

\* Inside the world lock, whoever took it.
InsideWorld(t) ==
  \/ at[t] \in Locked \cup {"ex_unlock"}
  \/ at[t] = "jn_wait" /\ pc[t] \in {"run", "cw_wcb", "cw_enq", "cw_unlock_mp"}
  \/ at[t] = "user" /\ pc[t] \in InWorld

\* One thread at a time is inside, and the lock word is set meanwhile.
LEMMA OneInsideWorld ==
  ASSUME TLInv, NEW t \in Threads, InsideWorld(t)
  PROVE  locked[World] /\ \A u \in Threads : InsideWorld(u) => u = t
  <1>1. ASSUME NEW u \in Threads, InsideWorld(u) PROVE Holds(u, World)
    BY <1>1, CondVarAssumption
    DEF InsideWorld, TLInv, PlacesOK, Holds, Signalling, WithoutMp, InWorld
  <1> QED
    BY <1>1, CondVarAssumption DEF TLInv, CVInv, LockInv, MutualExclusion, LockWordExact, Locks

\* Steps inside cond_var.c make nobody completed, and undo no completion.
LEMMA LibraryStates ==
  ASSUME CVInv, NEW t \in Threads, LibStep(t)
  PROVE  /\ \A u \in Threads : state'[u] = "COMPLETED" <=> state[u] = "COMPLETED"
         /\ \A u \in Threads \ {t} : state'[u] = state[u] \/ state'[u] = "RUNNABLE"
         /\ state[t] = "RUNNABLE" /\ pc[t] # "cw_enq" => state'[t] = "RUNNABLE"
  <1>1. TypeOK /\ ArgsOK /\ SleepInv /\ StateInv
    BY DEF CVInv, TypeInv
  <1>2. CASE CwEnq(t) \/ CwResume(t)
    BY <1>1, <1>2 DEF CwEnq, CwResume, At, StateInv, TypeOK
  <1>3. CASE SgPop(t)
    <2>1. cv[t] \in Conds /\ waiters[cv[t]] \in Seq(Threads) /\ waiters[cv[t]] # <<>>
      BY <1>1, <1>3 DEF SgPop, At, ArgsOK, UsesCv, TypeOK
    <2> DEFINE h == Head(waiters[cv[t]])
    <2>2. h \in Members(waiters[cv[t]]) /\ h \in Threads
      BY <2>1 DEF Members
    <2>3. state[h] # "COMPLETED"
      BY <1>1, <2>1, <2>2 DEF SleepInv, ListedOK, StateInv, FallingAsleep, Asleep
    <2>4. state' = [state EXCEPT ![h] = "RUNNABLE"]
      BY <1>3 DEF SgPop
    <2> HIDE DEF h
    <2> QED
      BY <1>1, <2>2, <2>3, <2>4 DEF TypeOK
  <1>4. CASE BcPop(t)
    <2>1. batch[t] \in Seq(Threads) /\ batch[t] # <<>>
      BY <1>1, <1>4 DEF BcPop, TypeOK
    <2> DEFINE h == batch[t][Len(batch[t])]
    <2>2. h \in InHand(t) /\ h \in Threads
      BY <2>1 DEF InHand, Members
    <2>3. state[h] # "COMPLETED"
      BY <1>1, <2>2 DEF SleepInv, InHandOK, StateInv, Asleep
    <2>4. state' = [state EXCEPT ![h] = "RUNNABLE"]
      BY <1>4 DEF BcPop
    <2> HIDE DEF h
    <2> QED
      BY <1>1, <2>2, <2>3, <2>4 DEF TypeOK
  <1>5. CASE state' = state
    BY <1>5
  <1> QED
    BY <1>2, <1>3, <1>4, <1>5 DEF LibStep, CwWorld, CwWcb, CwUnlockMp, CwUnlockWorld,
       CwStop, CwRelock, SgLock, SgNone, SgCas, SgUnlock, BcLock, BcDetach, BcUnlock,
       BcCas, BcDone

\* The state keeps its shape.
LEMMA StepTLTypeOK ==
  ASSUME TLInv, NEW t \in Threads, TLStep(t)
  PROVE  TLTypeOK'
  <1>1. runFlag' \in [Threads -> {Running, Stopped}] /\ pc' \in [Threads -> PCs]
    BY StepKeepsCVInv DEF CVInv, TypeInv, TypeOK
  <1>2. peer[t] \in Threads \/ at[t] \notin Creating \cup Joining
    BY DEF TLInv, TLTypeOK, PeersOK
  <1>3. /\ at' \in [Threads -> Places] /\ peer' \in [Threads -> Threads \cup {None}]
        /\ anchorThrds' \subseteq Threads /\ stack' \in [Threads -> StackStates]
        /\ aborted' \subseteq Threads /\ freedTwice' \subseteq Threads
    BY <1>2 DEF TLInv, TLTypeOK, TLStep, Inside, Step, Enter, InLibrary, UserSync, tlvars,
       CrLock, CrFork, CrForkFails, CrFailed, CrRegister, CrUnlock, JnLock, JnRefused,
       JnWait, JnReady, JnReap, JnUnlock, ExLock, ExMark, ExSignal, ExUnlock, ExVanish,
       LkLock, LkUnlock, ThrExit, GetId, ThrCreate, ThrJoin, Join,
       Places, StackStates, Creating, Joining
  <1> QED
    BY <1>1, <1>3 DEF TLTypeOK

\* A call has a peer while it creates or joins.
LEMMA StepPeersOK ==
  ASSUME TLInv, NEW t \in Threads, TLStep(t)
  PROVE  PeersOK'
  <1> USE CondVarAssumption
  <1>0. TLTypeOK /\ PeersOK /\ BirthOK
    BY DEF TLInv
  <1>1. ASSUME NEW u \in Threads, u # t
        PROVE  /\ peer'[u] = None <=> at'[u] \notin Creating \cup Joining
               /\ at'[u] \in Joining => peer'[u] # u
    BY <1>0, <1>1, OthersStay DEF TLTypeOK, PeersOK, BirthOK, CrFork, Creating, Joining
  <1>2. /\ peer'[t] = None <=> at'[t] \notin Creating \cup Joining
        /\ at'[t] \in Joining => peer'[t] # t
    BY <1>0 DEF PeersOK, BirthOK, TLTypeOK, TLStep, Inside, Step, Enter, InLibrary, UserSync, tlvars,
       CrLock, CrFork, CrForkFails, CrFailed, CrRegister, CrUnlock, JnLock, JnRefused,
       JnWait, JnReady, JnReap, JnUnlock, ExLock, ExMark, ExSignal, ExUnlock, ExVanish,
       LkLock, LkUnlock, ThrExit, GetId, ThrCreate, ThrJoin, Join,
       Creating, Joining
  <1> QED
    BY <1>1, <1>2 DEF PeersOK

\* A thread is completed by the step that marks it, and by no other.
LEMMA StepStates ==
  ASSUME TLInv, NEW t \in Threads, TLStep(t)
  PROVE  /\ \A u \in Threads :
              state'[u] = "COMPLETED" <=> state[u] = "COMPLETED" \/ (ExMark(t) /\ u = t)
         /\ \A u \in Threads \ {t} : state'[u] = state[u] \/ state'[u] = "RUNNABLE"
  <1>0. CVInv /\ TypeOK
    BY DEF TLInv, CVInv, TypeInv
  <1>1. CASE InLibrary(t)
    <2>1. LibStep(t) /\ at' = at /\ pc[t] # "run"
      BY <1>0, <1>1, LibraryMoves DEF InLibrary, tlvars
    <2>2. ~ ExMark(t)
      BY <2>1 DEF ExMark, Complete, MayCall, At
    <2> QED
      BY <1>0, <2>1, <2>2, LibraryStates
  <1>2. CASE ExMark(t)
    BY <1>0, <1>2 DEF ExMark, Complete, TypeOK
  <1>3. CASE CrRegister(t)
    <2>1. peer[t] \in Threads /\ state[peer[t]] = "RUNNABLE"
      BY <1>3 DEF CrRegister, Step, TLInv, TLTypeOK, PeersOK, BirthOK, NewBorn, Creating
    <2>2. state' = state
      BY <1>0, <1>3, <2>1 DEF CrRegister, TypeOK
    <2>3. ~ ExMark(t)
      BY <1>3 DEF CrRegister, ExMark, Step
    <2> QED
      BY <2>2, <2>3
  <1>4. CASE ~ InLibrary(t) /\ ~ ExMark(t) /\ ~ CrRegister(t)
    <2>1. state' = state
      BY <1>4 DEF TLStep, Inside, Step, Enter, UserSync, tlvars, cvvars,
       CrLock, CrFork, CrForkFails, CrFailed, CrUnlock, JnLock, JnRefused,
       JnWait, JnReady, JnReap, JnUnlock, ExLock, ExSignal, ExUnlock, ExVanish,
       LkLock, LkUnlock, ThrExit, GetId, ThrCreate, ThrJoin, Join,
       Lock, Unlock, CondWait, CondSignal, CondBroadcast
    <2> QED
      BY <1>4, <2>1
  <1> QED
    BY <1>1, <1>2, <1>3, <1>4

\* A thread stays newborn while its creator has the world lock.
LEMMA NewBornStays ==
  ASSUME TLInv, NEW t \in Threads, TLStep(t), NEW v \in Threads, NEW u \in Threads,
         at[v] = "cr_register", peer[v] = u, NewBorn(u)
  PROVE  NewBorn(u)'
  <1>0. CVInv /\ TypeOK /\ TLTypeOK /\ PlacesOK
    BY DEF TLInv, CVInv, TypeInv
  <1>1. locked[World] /\ u # v
    BY OneInsideWorld DEF InsideWorld, Locked, NewBorn
  <1>2. CASE t = u
    <2>1. CASE InLibrary(t)
      <3>1. LibStep(t) /\ at' = at /\ pc[t] \notin Waiting
        BY <1>2, <2>1 DEF InLibrary, tlvars, NewBorn
      <3>2. pc'[u] \notin Waiting \cup {"cw_unlock_world"}
        BY <1>0, <1>1, <1>2, <3>1, LibraryMoves DEF NewBorn
      <3>3. state'[u] = "RUNNABLE"
        BY <1>0, <1>2, <3>1, LibraryStates DEF NewBorn, Waiting
      <3> QED
        BY <3>1, <3>2, <3>3 DEF NewBorn
    <2>2. CASE UserSync(t)
      BY <1>0, <1>2, <2>2 DEF UserSync, tlvars, NewBorn, PlacesOK, TypeOK, Goto, MayCall, At,
         Lock, Unlock, CondWait, CondSignal, CondBroadcast, Waiting
    <2>3. CASE ThrExit(t) \/ GetId(t) \/ \E w \in Threads : ThrCreate(t, w) \/ ThrJoin(t, w)
      BY <1>0, <1>2, <2>3 DEF ThrExit, GetId, ThrCreate, ThrJoin, Join, cvvars, Enter, Step,
         NewBorn, TLTypeOK
    <2>4. CASE Inside(t) /\ ~ InLibrary(t)
      BY <1>0, <1>1, <1>2, <2>4 DEF Inside, NewBorn, Step, Lock, Acquire,
       CrLock, CrFork, CrForkFails, CrFailed, CrRegister, CrUnlock, JnLock, JnRefused,
       JnWait, JnReady, JnReap, JnUnlock, ExLock, ExMark, ExSignal, ExUnlock, ExVanish,
       LkLock, LkUnlock, PlacesOK, Waiting, Signalling, At, TLTypeOK, TypeOK
    <2> QED
      BY <2>1, <2>2, <2>3, <2>4 DEF TLStep
  <1>3. CASE t # u
    <2>1. pc'[u] = pc[u] /\ at'[u] = at[u]
      <3>1. ~ (CrFork(t) /\ u = peer[t])
        BY DEF CrFork, TLInv, BirthOK, Creating, NewBorn
      <3> QED
        BY <1>3, <3>1, OthersStay
    <2>2. state'[u] = "RUNNABLE"
      BY <1>3, StepStates DEF NewBorn
    <2> QED
      BY <2>1, <2>2 DEF NewBorn
  <1> QED
    BY <1>2, <1>3

\* A thread is reaped when it has ended, and is not the one that reaps.
LEMMA ReapedHasEnded ==
  ASSUME TLInv, NEW t \in Threads, JnReap(t)
  PROVE  /\ peer[t] \in Threads /\ peer[t] # t /\ InsideWorld(t)
         /\ Ended(peer[t]) /\ state[peer[t]] = "COMPLETED"
  <1>1. /\ peer[t] \in Threads /\ peer[t] # t
        /\ at[t] \in {"jn_wait", "jn_reap"} /\ pc[t] = "run" /\ InsideWorld(t)
    BY DEF JnReap, At, TLInv, TLTypeOK, PeersOK, Joining, InsideWorld, Locked
  <1>2. Ended(peer[t])
    <2>1. CASE at[t] = "jn_wait"
      <3>1. t \notin Members(waiters[peer[t]])
        BY <1>1, ThreadLibAssumption
        DEF TLInv, CVInv, SleepInv, ListedOK, FallingAsleep, Asleep
      <3>2. Signalled(peer[t])
        BY <1>1, <2>1, <3>1 DEF TLInv, JoinOK
      <3>3. at[peer[t]] # "ex_unlock"
        BY <1>1, OneInsideWorld DEF InsideWorld
      <3> QED
        BY <3>2, <3>3 DEF Signalled
    <2>2. CASE at[t] = "jn_reap"
      BY <2>2 DEF TLInv, JoinOK
    <2> QED
      BY <1>1, <2>1, <2>2
  <1> QED
    BY <1>1, <1>2 DEF TLInv, BlocksOK

\* Nobody starts a thread that has not been created but its creator.
LEMMA UnbornStays ==
  ASSUME TLInv, NEW t \in Threads, TLStep(t), NEW u \in Threads, at[u] = "none"
  PROVE  u # t /\ (at'[u] = "none" \/ (CrFork(t) /\ u = peer[t]))
  <1>1. u # t
    <2> SUFFICES ASSUME at[t] = "none" PROVE FALSE
      OBVIOUS
    <2>1. ~ LibStep(t)
      BY LibraryMoves DEF TLInv, PlacesOK, Idle
    <2> QED
      BY <2>1 DEF TLStep, Inside, Step, Enter, InLibrary, UserSync,
       CrLock, CrFork, CrForkFails, CrFailed, CrRegister, CrUnlock, JnLock, JnRefused,
       JnWait, JnReady, JnReap, JnUnlock, ExLock, ExMark, ExSignal, ExUnlock, ExVanish,
       LkLock, LkUnlock, ThrExit, GetId, ThrCreate, ThrJoin, Join
  <1> QED
    BY <1>1, OthersStay

\* What a step does to the stacks, and who is on the task's list.
LEMMA BlockChanges ==
  ASSUME TLInv, NEW t \in Threads, TLStep(t), NEW u \in Threads
  PROVE  /\ \/ stack'[u] = stack[u]
            \/ ThrCreate(t, u) /\ stack[u] = "none" /\ stack'[u] = "live"
            \/ CrFailed(t) /\ u = peer[t] /\ stack'[u] = "leaked"
            \/ JnReap(t) /\ u = peer[t] /\ stack'[u] = "freed" /\ u # Main
         /\ \/ u \in anchorThrds' <=> u \in anchorThrds
            \/ CrRegister(t) /\ u = peer[t] /\ u \in anchorThrds'
            \/ JnReap(t) /\ u = peer[t] /\ u \notin anchorThrds'
  <1>1. TLTypeOK
    BY DEF TLInv
  <1>2. CASE \E w \in Threads : ThrCreate(t, w)
    <2>1. PICK w \in Threads : ThrCreate(t, w)
      BY <1>2
    <2> QED
      BY <1>1, <2>1 DEF ThrCreate, TLTypeOK
  <1>3. CASE CrFailed(t)
    BY <1>1, <1>3 DEF CrFailed, TLTypeOK
  <1>4. CASE JnReap(t)
    BY <1>1, <1>4 DEF JnReap, TLTypeOK
  <1>5. CASE CrRegister(t)
    BY <1>1, <1>5 DEF CrRegister, TLTypeOK
  <1>6. CASE ~ (\E w \in Threads : ThrCreate(t, w)) /\ ~ CrFailed(t) /\ ~ JnReap(t) /\ ~ CrRegister(t)
    <2>1. stack' = stack /\ anchorThrds' = anchorThrds
      BY <1>6 DEF TLStep, Inside, InLibrary, UserSync, tlvars,
       CrLock, CrFork, CrForkFails, CrUnlock, JnLock, JnRefused,
       JnWait, JnReady, JnUnlock, ExLock, ExMark, ExSignal, ExUnlock, ExVanish,
       LkLock, LkUnlock, ThrExit, GetId, ThrJoin, Join
    <2> QED
      BY <2>1
  <1> QED
    BY <1>2, <1>3, <1>4, <1>5, <1>6

\* A thread that is being created has one creator and has not come far.
LEMMA StepBirthOK ==
  ASSUME TLInv, NEW t \in Threads, TLStep(t)
  PROVE  BirthOK'
  <1> USE CondVarAssumption
  <1>0. TLTypeOK /\ PeersOK /\ BirthOK /\ BlocksOK /\ TLTypeOK'
    BY StepTLTypeOK DEF TLInv
  <1> SUFFICES ASSUME NEW v \in Threads, at'[v] \in Creating, NEW u \in Threads, u = peer'[v]
               PROVE  /\ stack'[u] = "live"
                      /\ at'[v] \in {"cr_lock", "cr_fork", "cr_failed"} => at'[u] = "none"
                      /\ at'[v] = "cr_register" => NewBorn(u)'
                      /\ at'[v] # "cr_unlock" => u \notin anchorThrds'
                      /\ \A w \in Threads : at'[w] \in Creating /\ peer'[w] = u => w = v
    <2>1. \A v \in Threads : at'[v] \in Creating => peer'[v] \in Threads
      BY <1>0, StepPeersOK DEF PeersOK, TLTypeOK
    <2> QED
      BY <2>1 DEF BirthOK, NewBorn
  <1>1. CASE \E x \in Threads : ThrCreate(t, x)
    <2>1. PICK x \in Threads : ThrCreate(t, x)
      BY <1>1
    <2>2. /\ stack[x] = "none" /\ at[x] = "none" /\ x \notin anchorThrds /\ x # t
          /\ stack' = [stack EXCEPT ![x] = "live"] /\ peer' = [peer EXCEPT ![t] = x]
          /\ at' = [at EXCEPT ![t] = "cr_lock"] /\ at[t] = "user"
          /\ anchorThrds' = anchorThrds
      BY <1>0, <2>1 DEF ThrCreate, Enter, Step, BlocksOK
    <2>3. \A w \in Threads : at[w] \in Creating => peer[w] # x /\ peer[w] \in Threads
      BY <1>0, <2>2 DEF BirthOK, PeersOK, TLTypeOK
    <2>4. CASE v = t
      <3>1. u = x /\ at'[v] = "cr_lock"
        BY <1>0, <2>2, <2>4 DEF TLTypeOK
      <3>2. \A w \in Threads : at'[w] \in Creating /\ peer'[w] = u => w = v
        BY <1>0, <2>2, <2>3, <2>4, <3>1 DEF TLTypeOK
      <3> QED
        BY <1>0, <2>2, <2>4, <3>1, <3>2 DEF TLTypeOK
    <2>5. CASE v # t
      <3>1. at[v] \in Creating /\ at'[v] = at[v] /\ peer[v] = u /\ u # x
        BY <1>0, <2>2, <2>3, <2>5 DEF TLTypeOK
      <3>2. at[v] = "cr_register" => NewBorn(u)'
        BY <1>0, <3>1, NewBornStays DEF BirthOK, Creating
      <3>3. at[u] = "none" => at'[u] = "none"
        BY <1>0, <2>2 DEF TLTypeOK
      <3>4. \A w \in Threads : at'[w] \in Creating /\ peer'[w] = u => w = v
        BY <1>0, <2>2, <3>1 DEF BirthOK, TLTypeOK
      <3> QED
        BY <1>0, <2>2, <3>1, <3>2, <3>3, <3>4 DEF BirthOK, TLTypeOK
    <2> QED
      BY <2>4, <2>5
  <1>2. CASE ~ \E x \in Threads : ThrCreate(t, x)
    <2>1. \A w \in Threads : at'[w] \in Creating =>
            /\ at[w] \in Creating /\ peer'[w] = peer[w]
            /\ at'[w] # at[w] => w = t /\ (CrLock(t) \/ CrFork(t) \/ CrForkFails(t) \/ CrRegister(t))
      <3> SUFFICES ASSUME NEW w \in Threads, at'[w] \in Creating
                   PROVE  /\ at[w] \in Creating /\ peer'[w] = peer[w]
                          /\ at'[w] # at[w] =>
                               w = t /\ (CrLock(t) \/ CrFork(t) \/ CrForkFails(t) \/ CrRegister(t))
        OBVIOUS
      <3>1. CASE w # t
        BY <1>0, <3>1, OthersStay DEF CrFork, BirthOK, TLTypeOK, Creating
      <3>2. CASE w = t
        BY <1>0, <1>2, <3>2 DEF TLTypeOK, TLStep, Inside, Step, Enter, InLibrary, UserSync, tlvars,
         CrLock, CrFork, CrForkFails, CrFailed, CrRegister, CrUnlock, JnLock, JnRefused,
         JnWait, JnReady, JnReap, JnUnlock, ExLock, ExMark, ExSignal, ExUnlock, ExVanish,
         LkLock, LkUnlock, ThrExit, GetId, ThrJoin, Join, Creating
      <3> QED
        BY <3>1, <3>2
    <2>2. at[v] \in Creating /\ peer[v] = u /\ stack[u] = "live"
      BY <1>0, <2>1 DEF BirthOK
    <2>3. \A w \in Threads : at'[w] \in Creating /\ peer'[w] = u => w = v
      BY <1>0, <2>1, <2>2 DEF BirthOK
    <2>4. stack'[u] = "live"
      <3>1. ~ (CrFailed(t) /\ u = peer[t])
        <4>1. CASE v = t
          BY <1>0, <4>1 DEF CrFailed, Step, Creating, TLTypeOK
        <4>2. CASE v # t
          BY <1>0, <2>2, <4>2 DEF CrFailed, Step, BirthOK, Creating
        <4> QED
          BY <4>1, <4>2
      <3>2. ~ (JnReap(t) /\ u = peer[t])
        <4> SUFFICES ASSUME JnReap(t), u = peer[t] PROVE FALSE
          OBVIOUS
        <4>1. Ended(u) /\ InsideWorld(t) /\ at[t] \notin Creating
          BY ReapedHasEnded DEF JnReap, Creating
        <4>2. at[v] = "cr_unlock"
          BY <1>0, <2>2, <4>1 DEF BirthOK, Ended, NewBorn, Creating
        <4> QED
          BY <2>2, <4>1, <4>2, OneInsideWorld DEF InsideWorld, Locked
      <3> QED
        BY <1>2, <2>2, <3>1, <3>2, BlockChanges
    <2>5. at'[v] \in {"cr_lock", "cr_fork", "cr_failed"} => at'[u] = "none"
      <3> SUFFICES ASSUME at'[v] \in {"cr_lock", "cr_fork", "cr_failed"} PROVE at'[u] = "none"
        OBVIOUS
      <3>1. at[v] \in {"cr_lock", "cr_fork", "cr_failed"} /\ at[u] = "none"
        BY <1>0, <2>1, <2>2 DEF BirthOK, CrLock, CrFork, CrForkFails, CrRegister, Step, TLTypeOK
      <3>2. ~ (CrFork(t) /\ u = peer[t])
        <4> SUFFICES ASSUME CrFork(t), u = peer[t] PROVE FALSE
          OBVIOUS
        <4>1. t = v /\ t # u
          <5>1. at[t] = "cr_fork" /\ at[v] \in Creating /\ peer[v] = peer[t]
            BY <2>2 DEF CrFork
          <5> QED
            BY <1>0, <3>1, <5>1 DEF BirthOK, Creating
        <4> QED
          BY <1>0, <2>2, <4>1 DEF CrFork, TLTypeOK
      <3> QED
        BY <3>1, <3>2, UnbornStays
    <2>6. at'[v] = "cr_register" => NewBorn(u)'
      <3>1. CASE at[v] = "cr_register"
        BY <1>0, <2>2, <3>1, NewBornStays DEF BirthOK
      <3>2. CASE at[v] # "cr_register" /\ at'[v] = "cr_register"
        <4>1. v = t /\ CrFork(t) /\ at[u] = "none" /\ u = peer[t]
          BY <1>0, <2>1, <2>2, <3>2
          DEF CrLock, CrForkFails, CrRegister, Step, TLTypeOK, BirthOK, CrFork
        <4>2. at'[u] = "user" /\ UNCHANGED cvvars
          BY <1>0, <4>1, UnbornStays DEF CrFork, TLTypeOK
        <4>3. pc[u] = "run" /\ state[u] = "RUNNABLE"
          <5>1. pc[u] = "run"
            BY <4>1 DEF TLInv, PlacesOK, Idle
          <5>2. state[u] # "COMPLETED"
            BY <1>0, <4>1 DEF BlocksOK, Ended
          <5>3. state[u] # "WAITING"
            BY <5>1 DEF TLInv, CVInv, StateInv, FallingAsleep
          <5> QED
            BY <5>1, <5>2, <5>3 DEF TLInv, CVInv, TypeInv, TypeOK, ThreadStates
        <4> QED
          BY <4>2, <4>3 DEF NewBorn, cvvars, Waiting
      <3> QED
        BY <3>1, <3>2
    <2>7. at'[v] # "cr_unlock" => u \notin anchorThrds'
      <3> SUFFICES ASSUME at'[v] # "cr_unlock", u \in anchorThrds' PROVE FALSE
        OBVIOUS
      <3>1. at[v] # "cr_unlock" /\ u \notin anchorThrds
        BY <1>0, <2>1, <2>2 DEF BirthOK, CrLock, CrFork, CrForkFails, CrRegister, Step, TLTypeOK
      <3>2. CrRegister(t) /\ u = peer[t]
        BY <3>1, BlockChanges
      <3>3. t = v
        BY <1>0, <2>2, <3>2 DEF CrRegister, Step, BirthOK, Creating
      <3> QED
        BY <1>0, <3>2, <3>3 DEF CrRegister, Step, TLTypeOK
    <2> QED
      BY <2>3, <2>4, <2>5, <2>6, <2>7
  <1> QED
    BY <1>1, <1>2

\* The way out has one entry, and no way back.
LEMMA WayOut ==
  ASSUME TLInv, NEW t \in Threads, TLStep(t), NEW u \in Threads
  PROVE  /\ Ended(u) => Ended(u)'
         /\ (at[u] \in {"ex_signal", "ex_unlock"} \/ Ended(u))' <=>
              at[u] \in {"ex_signal", "ex_unlock"} \/ Ended(u) \/ (ExMark(t) /\ u = t)
         /\ at'[u] = "none" => at[u] = "none"
         /\ at[u] = "cr_register" => at'[u] = "cr_register" \/ (CrRegister(t) /\ u = t)
  <1>0. TLTypeOK /\ BirthOK /\ PlacesOK /\ CVInv
    BY DEF TLInv
  <1>1. CASE u # t
    <2>1. at'[u] = at[u] \/ (at[u] = "none" /\ at'[u] = "user")
      BY <1>0, <1>1, OthersStay DEF CrFork, BirthOK, Creating, TLTypeOK
    <2> QED
      BY <1>1, <2>1 DEF Ended
  <1>2. CASE u = t
    BY <1>0, <1>2, LibraryMoves DEF PlacesOK, Idle, Locked, Ended,
       TLTypeOK, TLStep, Inside, Step, Enter, InLibrary, UserSync, tlvars,
       CrLock, CrFork, CrForkFails, CrFailed, CrRegister, CrUnlock, JnLock, JnRefused,
       JnWait, JnReady, JnReap, JnUnlock, ExLock, ExMark, ExSignal, ExUnlock, ExVanish,
       LkLock, LkUnlock, ThrExit, GetId, ThrCreate, ThrJoin, Join, Creating
  <1> QED
    BY <1>1, <1>2

\* Stack and list go with the life of a thread.
LEMMA StepBlocksOK ==
  ASSUME TLInv, NEW t \in Threads, TLStep(t)
  PROVE  BlocksOK'
  <1>0. TLTypeOK /\ PeersOK /\ BirthOK /\ BlocksOK
    BY DEF TLInv
  <1> SUFFICES ASSUME NEW u \in Threads
               PROVE  /\ stack'[u] = "none" => at'[u] = "none"
                      /\ u \in anchorThrds' => stack'[u] = "live" /\ at'[u] # "none"
                      /\ at'[u] # "none" /\ u \notin anchorThrds' =>
                           Ended(u)' \/ \E v \in Threads : at'[v] = "cr_register" /\ peer'[v] = u
                      /\ stack'[u] = "freed" => Ended(u)'
                      /\ state'[u] = "COMPLETED" <=> at'[u] \in {"ex_signal", "ex_unlock"} \/ Ended(u)'
    BY DEF BlocksOK, Ended
  <1>1. stack'[u] = "none" => at'[u] = "none"
    <2> SUFFICES ASSUME stack'[u] = "none" PROVE at'[u] = "none"
      OBVIOUS
    <2>1. stack[u] = "none" /\ at[u] = "none"
      BY <1>0, BlockChanges DEF BlocksOK
    <2>2. ~ (CrFork(t) /\ u = peer[t])
      BY <1>0, <2>1 DEF CrFork, BirthOK, Creating
    <2> QED
      BY <2>1, <2>2, UnbornStays
  <1>2. u \in anchorThrds' => stack'[u] = "live" /\ at'[u] # "none"
    <2> SUFFICES ASSUME u \in anchorThrds' PROVE stack'[u] = "live" /\ at'[u] # "none"
      OBVIOUS
    <2>1. CASE u \in anchorThrds
      <3>1. stack[u] = "live" /\ at[u] # "none"
        BY <1>0, <2>1 DEF BlocksOK
      <3>2. ~ (CrFailed(t) /\ u = peer[t])
        BY <1>0, <2>1 DEF CrFailed, Step, BirthOK, Creating
      <3>3. ~ (JnReap(t) /\ u = peer[t])
        BY DEF JnReap
      <3> QED
        BY <3>1, <3>2, <3>3, BlockChanges, WayOut
    <2>2. CASE u \notin anchorThrds
      <3>1. CrRegister(t) /\ u = peer[t]
        BY <2>2, BlockChanges
      <3>2. stack[u] = "live" /\ stack' = stack /\ NewBorn(u)
        BY <1>0, <3>1 DEF CrRegister, Step, BirthOK, Creating
      <3> QED
        BY <3>2, WayOut DEF NewBorn
    <2> QED
      BY <2>1, <2>2
  <1>3. at'[u] # "none" /\ u \notin anchorThrds' =>
          Ended(u)' \/ \E v \in Threads : at'[v] = "cr_register" /\ peer'[v] = u
    <2> SUFFICES ASSUME at'[u] # "none", u \notin anchorThrds', ~ Ended(u)'
                 PROVE  \E v \in Threads : at'[v] = "cr_register" /\ peer'[v] = u
      OBVIOUS
    <2>1. CASE at[u] = "none"
      <3>1. CrFork(t) /\ u = peer[t] /\ u # t
        BY <2>1, UnbornStays
      <3> QED
        BY <1>0, <3>1 DEF CrFork, TLTypeOK
    <2>2. CASE at[u] # "none" /\ u \notin anchorThrds
      <3>1. PICK v \in Threads : at[v] = "cr_register" /\ peer[v] = u
        BY <1>0, <2>2, WayOut DEF BlocksOK
      <3>2. ~ (CrRegister(t) /\ v = t)
        BY <3>1 DEF CrRegister
      <3>3. at'[v] = "cr_register"
        BY <3>1, <3>2, WayOut
      <3>4. peer'[v] = peer[v]
        <4>1. CASE v = t
          BY <3>1, <3>3, <4>1 DEF TLTypeOK, TLStep, Inside, Step, Enter, InLibrary, UserSync, tlvars,
            CrLock, CrFork, CrForkFails, CrFailed, CrRegister, CrUnlock, JnLock, JnRefused,
            JnWait, JnReady, JnReap, JnUnlock, ExLock, ExMark, ExSignal, ExUnlock, ExVanish,
            LkLock, LkUnlock, ThrExit, GetId, ThrCreate, ThrJoin, Join
        <4>2. CASE v # t
          BY <4>2, OthersStay
        <4> QED
          BY <4>1, <4>2
      <3> QED
        BY <3>1, <3>3, <3>4
    <2>3. CASE u \in anchorThrds
      <3>1. JnReap(t) /\ u = peer[t]
        BY <2>3, BlockChanges
      <3> QED
        BY <3>1, ReapedHasEnded, WayOut
    <2> QED
      BY <2>1, <2>2, <2>3
  <1>4. stack'[u] = "freed" => Ended(u)'
    BY <1>0, BlockChanges, ReapedHasEnded, WayOut DEF BlocksOK
  <1>5. state'[u] = "COMPLETED" <=> at'[u] \in {"ex_signal", "ex_unlock"} \/ Ended(u)'
    BY <1>0, StepStates, WayOut DEF BlocksOK
  <1> QED
    BY <1>1, <1>2, <1>3, <1>4, <1>5

\* Threads that nobody asks to join while they are joined, or when they are not
\* on the list, keep one joiner.
LEMMA StepOnceIn ==
  ASSUME TLInv, NEW t \in Threads, TLStep(t), NEW S \in SUBSET Threads, OnceIn(S),
         \A u \in S : ThrJoin(t, u) => u \in anchorThrds /\ \A v \in Threads : peer[v] # u
  PROVE  OnceIn(S)'
  <1> USE CondVarAssumption
  <1>0. TLTypeOK /\ PeersOK /\ BirthOK
    BY DEF TLInv
  <1>1. ASSUME NEW v \in Threads, at'[v] \in Joining
        PROVE  /\ v # t => at[v] = at'[v] /\ peer'[v] = peer[v] /\ at[v] \in Joining
               /\ v = t => \/ \E u \in Threads : ThrJoin(t, u) /\ peer'[v] = u
                           \/ at[v] \in Joining /\ peer'[v] = peer[v]
               /\ at[v] = "jn_unlock" /\ v = t => at'[v] = "jn_unlock"
               /\ at'[v] # "jn_unlock" => ~ (JnReap(t) /\ v = t)
    <2>1. CASE v # t
      BY <1>0, <1>1, <2>1, OthersStay DEF CrFork, BirthOK, Creating, TLTypeOK, Joining
    <2>2. CASE v = t
      BY <1>0, <1>1, <2>2 DEF TLTypeOK, TLStep, Inside, Step, Enter, InLibrary, UserSync, tlvars,
        CrLock, CrFork, CrForkFails, CrFailed, CrRegister, CrUnlock, JnLock, JnRefused,
        JnWait, JnReady, JnReap, JnUnlock, ExLock, ExMark, ExSignal, ExUnlock, ExVanish,
        LkLock, LkUnlock, ThrExit, GetId, ThrCreate, ThrJoin, Join, Joining
    <2> QED
      BY <2>1, <2>2
  <1> SUFFICES ASSUME NEW v \in Threads, at'[v] \in Joining, NEW u \in S, peer'[v] = u
               PROVE  /\ \A w \in Threads : at'[w] \in Joining /\ peer'[w] = u => w = v
                      /\ at'[v] # "jn_unlock" => u \in anchorThrds'
    BY DEF OnceIn
  <1>2. u \in Threads
    OBVIOUS
  <1>3. \A w \in Threads : at'[w] \in Joining /\ peer'[w] = u => w = v
    <2> SUFFICES ASSUME NEW w \in Threads, at'[w] \in Joining, peer'[w] = u, w # v
                 PROVE  FALSE
      OBVIOUS
    <2>1. CASE \E x \in Threads : ThrJoin(t, x) /\ peer'[t] = x /\ (v = t \/ w = t)
      <3>1. ThrJoin(t, u) /\ (\A y \in Threads : peer[y] # u)
        BY <2>1 DEF ThrJoin, Join
      <3> QED
        BY <1>1, <2>1, <3>1
    <2>2. CASE ~ \E x \in Threads : ThrJoin(t, x) /\ peer'[t] = x /\ (v = t \/ w = t)
      <3>1. at[v] \in Joining /\ at[w] \in Joining /\ peer[v] = u /\ peer[w] = u
        BY <1>1, <2>2
      <3> QED
        BY <1>0, <3>1 DEF OnceIn
    <2> QED
      BY <2>1, <2>2
  <1>4. at'[v] # "jn_unlock" => u \in anchorThrds'
    <2> SUFFICES ASSUME at'[v] # "jn_unlock" PROVE u \in anchorThrds'
      OBVIOUS
    <2>1. CASE \E x \in Threads : ThrJoin(t, x) /\ peer'[t] = x /\ v = t
      <3>1. ThrJoin(t, u) /\ u \in anchorThrds /\ anchorThrds' = anchorThrds
        BY <2>1 DEF ThrJoin, Join
      <3> QED
        BY <3>1
    <2>2. CASE ~ \E x \in Threads : ThrJoin(t, x) /\ peer'[t] = x /\ v = t
      <3>1. at[v] \in Joining /\ peer[v] = u /\ at[v] # "jn_unlock"
        BY <1>1, <2>2
      <3>2. u \in anchorThrds
        BY <1>0, <3>1 DEF OnceIn
      <3>3. ~ (JnReap(t) /\ u = peer[t])
        <4> SUFFICES ASSUME JnReap(t), u = peer[t] PROVE FALSE
          OBVIOUS
        <4>1. at[t] \in Joining
          BY DEF JnReap, Joining
        <4>2. t = v
          BY <1>0, <3>1, <4>1 DEF OnceIn
        <4> QED
          BY <1>1, <4>2
      <3> QED
        BY <1>2, <3>2, <3>3, BlockChanges
    <2> QED
      BY <2>1, <2>2
  <1> QED
    BY <1>3, <1>4

\* The threads joined once do: their joiners ask as they may.
LEMMA StepOnceOK ==
  ASSUME TLInv, NEW t \in Threads, TLStep(t)
  PROVE  OnceOK'
  <1>1. JoinedOnce \in SUBSET Threads /\ OnceIn(JoinedOnce)
    BY ThreadLibAssumption DEF TLInv, OnceOK
  <1>2. \A u \in JoinedOnce : ThrJoin(t, u) => u \in anchorThrds /\ \A v \in Threads : peer[v] # u
    BY DEF ThrJoin, MayJoin
  <1> QED
    BY <1>1, <1>2, StepOnceIn DEF OnceOK

\* A thread inside cond_var.c goes on there.
LEMMA GoesOnInside ==
  ASSUME TLInv, NEW t \in Threads, TLStep(t), pc[t] # "run"
  PROVE  InLibrary(t) /\ LibStep(t) /\ at' = at /\ peer' = peer
  <1>1. InLibrary(t)
    BY DEF TLInv, PlacesOK, Idle, Locked, TLStep, Inside, Step, Enter, UserSync,
       CrLock, CrFork, CrForkFails, CrFailed, CrRegister, CrUnlock, JnLock, JnRefused,
       JnWait, JnReady, JnReap, JnUnlock, ExLock, ExMark, ExSignal, ExUnlock, ExVanish,
       LkLock, LkUnlock, ThrExit, GetId, ThrCreate, ThrJoin, Join, At, MayCall,
       Lock, Unlock, CondWait, CondSignal, CondBroadcast
  <1> QED
    BY <1>1 DEF InLibrary, tlvars

\* The join condition of u is used by whoever joins u, and by u itself on its
\* way out.
LEMMA UsersOfJoin ==
  ASSUME TLInv, NEW t \in Threads, pc[t] # "run", cv[t] \in Threads
  PROVE  \/ at[t] = "jn_wait" /\ pc[t] \in Waiting /\ cv[t] = peer[t]
         \/ at[t] = "ex_unlock" /\ pc[t] \in Signalling /\ cv[t] = t
  <1>1. at[t] \in Places
    BY DEF TLInv, TLTypeOK
  <1> QED
    BY <1>1 DEF TLInv, PlacesOK, Idle, Locked, Places

\* Whoever is on the list of a join condition is joining that thread.
LEMMA ListedJoins ==
  ASSUME TLInv, NEW u \in Threads, NEW v \in Members(waiters[u])
  PROVE  /\ v \in Threads /\ at[v] = "jn_wait" /\ peer[v] = u
         /\ pc[v] \in FallingAsleep \cup {"cw_resume"}
  <1>1. u \in Conds
    BY ThreadLibAssumption
  <1>2. v \in Threads
    BY <1>1 DEF TLInv, CVInv, TypeInv, TypeOK, Members
  <1>3. cv[v] = u /\ pc[v] \in FallingAsleep \cup {"cw_resume"}
    BY <1>1 DEF TLInv, CVInv, SleepInv, ListedOK, Asleep
  <1> QED
    BY <1>2, <1>3, UsersOfJoin DEF FallingAsleep, Signalling

\* Who changes the list of a join condition, and how.
LEMMA JoinListChange ==
  ASSUME TLInv, NEW t \in Threads, TLStep(t), NEW u \in Threads
  PROVE  \/ waiters'[u] = waiters[u]
         \/ /\ at[t] = "jn_wait" /\ pc[t] = "cw_enq" /\ peer[t] = u
            /\ waiters[u] = <<>> /\ state[u] # "COMPLETED"
            /\ waiters'[u] = Append(<<>>, t)
         \/ /\ t = u /\ at[u] = "ex_unlock" /\ pc[u] = "sg_pop" /\ pc'[u] = "sg_cas"
            /\ at' = at /\ waiters'[u] = <<>>
  <1> SUFFICES ASSUME waiters'[u] # waiters[u]
               PROVE  \/ /\ at[t] = "jn_wait" /\ pc[t] = "cw_enq" /\ peer[t] = u
                         /\ waiters[u] = <<>> /\ state[u] # "COMPLETED"
                         /\ waiters'[u] = Append(<<>>, t)
                      \/ /\ t = u /\ at[u] = "ex_unlock" /\ pc[u] = "sg_pop" /\ pc'[u] = "sg_cas"
                         /\ at' = at /\ waiters'[u] = <<>>
    OBVIOUS
  <1>0. TypeInv /\ TypeOK /\ u \in Conds /\ JoinOK
    BY ThreadLibAssumption DEF TLInv, CVInv, TypeInv
  <1>1. LibStep(t) \/ ClientStep(t)
    BY StepUsesCondVar DEF cvvars
  <1>2. u = cv[t] /\ pc[t] \in {"cw_enq", "sg_pop", "bc_detach"}
    BY <1>0, <1>1, ListChange
  <1>3. LibStep(t) /\ at' = at
    BY <1>2, GoesOnInside
  <1>4. \/ at[t] = "jn_wait" /\ pc[t] = "cw_enq" /\ peer[t] = u
        \/ at[t] = "ex_unlock" /\ pc[t] = "sg_pop" /\ t = u
    BY <1>2, UsersOfJoin DEF Waiting, Signalling
  <1>5. CASE at[t] = "jn_wait" /\ pc[t] = "cw_enq" /\ peer[t] = u
    <2>1. CwEnq(t)
      BY <1>3, <1>5 DEF LibStep, At, CwWorld, CwWcb, CwEnq, CwUnlockMp, CwUnlockWorld,
         CwStop, CwResume, CwRelock, SgLock, SgPop, SgNone, SgCas, SgUnlock,
         BcLock, BcDetach, BcUnlock, BcPop, BcCas, BcDone
    <2>2. waiters[u] = <<>> /\ state[u] # "COMPLETED"
      BY <1>0, <1>5 DEF JoinOK
    <2>3. waiters'[u] = Append(waiters[u], t)
      BY <1>0, <1>2, <2>1 DEF CwEnq, TypeOK
    <2> QED
      BY <1>5, <2>2, <2>3
  <1>6. CASE at[t] = "ex_unlock" /\ pc[t] = "sg_pop" /\ t = u
    <2>1. SgPop(t) \/ SgNone(t)
      BY <1>3, <1>6 DEF LibStep, At, CwWorld, CwWcb, CwEnq, CwUnlockMp, CwUnlockWorld,
         CwStop, CwResume, CwRelock, SgLock, SgPop, SgNone, SgCas, SgUnlock,
         BcLock, BcDetach, BcUnlock, BcPop, BcCas, BcDone
    <2>2. SgPop(t)
      BY <2>1 DEF SgNone
    <2>3. waiters'[u] = Tail(waiters[u]) /\ waiters[u] # <<>> /\ pc'[u] = "sg_cas"
      BY <1>0, <1>2, <1>6, <2>2 DEF SgPop, TypeOK, Goto
    <2>4. waiters[u] \in Seq(Threads) /\ Len(waiters[u]) =< 1
      BY <1>0 DEF TypeOK, JoinOK
    <2>5. Tail(waiters[u]) = <<>>
      BY <2>3, <2>4
    <2> QED
      BY <1>3, <1>6, <2>3, <2>5
  <1> QED
    BY <1>4, <1>5, <1>6

\* A thread that has signalled its joiner goes on to its end.
LEMMA SignalledStays ==
  ASSUME TLInv, NEW t \in Threads, TLStep(t), NEW u \in Threads, Signalled(u)
  PROVE  Signalled(u)'
  <1>0. TypeOK /\ TLTypeOK
    BY DEF TLInv, CVInv, TypeInv
  <1>1. CASE Ended(u)
    BY <1>1, WayOut DEF Signalled
  <1>2. CASE at[u] = "ex_unlock" /\ u # t
    <2>1. ~ (CrFork(t) /\ u = peer[t])
      BY <1>2 DEF CrFork, TLInv, BirthOK, Creating
    <2> QED
      BY <1>2, <2>1, OthersStay DEF Signalled, Ended
  <1>3. CASE at[u] = "ex_unlock" /\ u = t /\ pc[t] # "run"
    <2>1. LibStep(t) /\ at' = at
      BY <1>3, GoesOnInside
    <2>2. pc'[t] \in {"sg_unlock", "run"}
      BY <1>0, <1>3, <2>1 DEF Signalled, Ended, TypeOK, LibStep, At, Goto, CwWorld, CwWcb,
         CwEnq, CwUnlockMp, CwUnlockWorld, CwStop, CwResume, CwRelock, SgLock, SgPop, SgNone,
         SgCas, SgUnlock, BcLock, BcDetach, BcUnlock, BcPop, BcCas, BcDone
    <2> QED
      BY <1>3, <2>1, <2>2 DEF Signalled
  <1>4. CASE at[u] = "ex_unlock" /\ u = t /\ pc[t] = "run"
    <2>1. ~ LibStep(t)
      BY <1>4, LibraryMoves DEF TLInv
    <2>2. at'[t] = "ex_vanish"
      BY <1>0, <1>4, <2>1 DEF TLTypeOK, TLStep, Inside, Step, Enter, UserSync, InLibrary,
       CrLock, CrFork, CrForkFails, CrFailed, CrRegister, CrUnlock, JnLock, JnRefused,
       JnWait, JnReady, JnReap, JnUnlock, ExLock, ExMark, ExSignal, ExUnlock, ExVanish,
       LkLock, LkUnlock, ThrExit, GetId, ThrCreate, ThrJoin, Join
    <2> QED
      BY <1>4, <2>2 DEF Signalled, Ended
  <1> QED
    BY <1>1, <1>2, <1>3, <1>4 DEF Signalled

\* Whoever is newly in hand has just been taken off a list.
LEMMA NewInHand ==
  ASSUME TLInv, NEW t \in Threads, TLStep(t), NEW w \in Threads, NEW v \in InHand(w)',
         v \notin InHand(w)
  PROVE  /\ w = t /\ LibStep(t) /\ at' = at /\ cv[t] \in Conds
         /\ v \in Members(waiters[cv[t]])
         /\ \/ pc[t] = "sg_pop" /\ pc'[t] = "sg_cas"
            \/ pc[t] = "bc_detach"
  <1>0. TypeOK /\ ArgsOK /\ SleepInv
    BY DEF TLInv, CVInv, TypeInv
  <1>1. w = t
    BY OthersStay
  <1>2. LibStep(t) /\ at' = at
    <2>1. CASE pc[t] = "run"
      <3>1. ~ LibStep(t)
        BY <2>1, LibraryMoves DEF TLInv
      <3>2. tgt' = tgt /\ batch' = batch
        BY <3>1, StepUsesCondVar DEF ClientStep, Lock, Unlock, Complete, CondWait, CondSignal,
           CondBroadcast, cvvars
      <3> QED
        BY <3>2 DEF InHand
    <2>2. CASE pc[t] # "run"
      BY <2>2, GoesOnInside
    <2> QED
      BY <2>1, <2>2
  <1>3. CASE SgPop(t)
    <2>1. pc[t] = "sg_pop" /\ pc'[t] = "sg_cas" /\ cv[t] \in Conds
      BY <1>0, <1>3 DEF SgPop, At, Goto, TypeOK, ArgsOK, UsesCv
    <2>2. tgt'[t] = Head(waiters[cv[t]]) /\ batch' = batch
      BY <1>0, <1>3 DEF SgPop, TypeOK
    <2>3. Head(waiters[cv[t]]) \in Members(waiters[cv[t]])
      BY <1>0, <1>3, <2>1, TailList DEF SgPop, SleepInv, WaitsInOnePlace, TypeOK
    <2> QED
      BY <1>1, <1>2, <2>1, <2>2, <2>3 DEF InHand
  <1>4. CASE BcDetach(t)
    <2>1. pc[t] = "bc_detach" /\ cv[t] \in Conds
      BY <1>0, <1>4 DEF BcDetach, At, ArgsOK, UsesCv
    <2>2. batch'[t] = waiters[cv[t]] /\ tgt' = tgt
      BY <1>0, <1>4 DEF BcDetach, TypeOK
    <2> QED
      BY <1>1, <1>2, <2>1, <2>2 DEF InHand
  <1>5. CASE BcPop(t)
    <2>1. batch[t] \in Seq(Threads) /\ batch[t] # <<>> /\ NoRepeats(batch[t])
      BY <1>0, <1>5 DEF BcPop, SleepInv, WaitsInOnePlace, TypeOK
    <2>2. /\ tgt'[t] = batch[t][Len(batch[t])]
          /\ batch'[t] = SubSeq(batch[t], 1, Len(batch[t]) - 1)
      BY <1>0, <1>5 DEF BcPop, TypeOK
    <2>3. InHand(t)' \subseteq Members(batch[t])
      BY <2>1, <2>2, FrontList DEF InHand
    <2> QED
      BY <1>1, <2>3 DEF InHand
  <1>6. CASE ~ SgPop(t) /\ ~ BcDetach(t) /\ ~ BcPop(t)
    <2>1. batch' = batch /\ (tgt' = tgt \/ tgt'[t] = None)
      BY <1>0, <1>2, <1>6 DEF TypeOK, LibStep, CwWorld, CwWcb, CwEnq, CwUnlockMp, CwUnlockWorld,
         CwStop, CwResume, CwRelock, SgLock, SgNone, SgCas, SgUnlock,
         BcLock, BcUnlock, BcCas, BcDone
    <2> QED
      BY <1>1, <2>1 DEF InHand
  <1> QED
    BY <1>3, <1>4, <1>5, <1>6

\* The lists of join conditions, and when they are emptied.
LEMMA StepJoinLists ==
  ASSUME TLInv, NEW t \in Threads, TLStep(t), NEW u \in Threads
  PROVE  /\ Len(waiters'[u]) =< 1
         /\ Signalled(u)' => waiters'[u] = <<>>
  <1>0. TypeOK /\ TLTypeOK /\ JoinOK /\ BlocksOK /\ u \in Conds
    BY ThreadLibAssumption DEF TLInv, CVInv, TypeInv
  <1>1. Len(waiters'[u]) =< 1
    <2>1. Len(waiters[u]) =< 1 /\ Len(Append(<<>>, t)) =< 1 /\ Len(<<>>) =< 1
      BY <1>0 DEF JoinOK
    <2>2. waiters'[u] = waiters[u] \/ waiters'[u] = Append(<<>>, t) \/ waiters'[u] = <<>>
      BY JoinListChange
    <2> QED
      BY <2>1, <2>2, Zenon
  <1>2. ASSUME Signalled(u)' PROVE waiters'[u] = <<>>
    <2>1. CASE Signalled(u)
      <3>1. waiters[u] = <<>> /\ state[u] = "COMPLETED"
        BY <1>0, <2>1 DEF JoinOK, BlocksOK, Signalled
      <3> QED
        BY <3>1, JoinListChange
    <2>2. CASE ~ Signalled(u)
      <3>1. u = t
        <4>1. CASE u # t
          <5>1. at'[u] = at[u] /\ pc'[u] = pc[u]
            BY <1>2, <4>1, OthersStay DEF CrFork, TLTypeOK, TLInv, BirthOK, Creating, Signalled, Ended
          <5> QED
            BY <1>2, <2>2, <5>1 DEF Signalled, Ended
        <4> QED
          BY <4>1
      <3>2. pc[t] # "run"
        <4> SUFFICES ASSUME pc[t] = "run" PROVE FALSE
          OBVIOUS
        <4>1. ~ LibStep(t)
          BY LibraryMoves DEF TLInv
        <4>2. at'[t] \in {"ex_vanish", "gone", "ex_unlock"} => at[t] \in {"ex_unlock", "ex_vanish"} \/ ExSignal(t)
          BY <1>0, <4>1, <2>2, <3>1 DEF Signalled, Ended, TLTypeOK, TLStep, Inside, Step, Enter,
           UserSync, InLibrary, tlvars,
           CrLock, CrFork, CrForkFails, CrFailed, CrRegister, CrUnlock, JnLock, JnRefused,
           JnWait, JnReady, JnReap, JnUnlock, ExLock, ExMark, ExUnlock, ExVanish,
           LkLock, LkUnlock, ThrExit, GetId, ThrCreate, ThrJoin, Join
        <4>3. ExSignal(t) => at'[t] = "ex_unlock" /\ pc'[t] = "sg_lock"
          BY <1>0 DEF ExSignal, Step, CondSignal, Goto, TypeOK, TLTypeOK
        <4> QED
          BY <1>2, <2>2, <3>1, <4>2, <4>3 DEF Signalled, Ended
      <3>3. LibStep(t) /\ at' = at
        BY <3>2, GoesOnInside
      <3>4. at[t] = "ex_unlock" /\ pc[t] \in {"sg_lock", "sg_pop"} /\ cv[t] = t
        BY <1>0, <1>2, <2>2, <3>1, <3>2, <3>3 DEF Signalled, Ended, TLInv, PlacesOK, Signalling
      <3>5. SgPop(t) \/ SgNone(t) \/ SgLock(t)
        BY <3>3, <3>4 DEF LibStep, At, CwWorld, CwWcb, CwEnq, CwUnlockMp, CwUnlockWorld,
         CwStop, CwResume, CwRelock, SgLock, SgPop, SgNone, SgCas, SgUnlock,
         BcLock, BcDetach, BcUnlock, BcPop, BcCas, BcDone
      <3>6. ~ SgLock(t)
        BY <1>0, <1>2, <3>1, <3>3, <3>4 DEF SgLock, Goto, TypeOK, Signalled, Ended
      <3>7. CASE SgNone(t)
        BY <1>0, <3>1, <3>4, <3>7 DEF SgNone
      <3>8. CASE SgPop(t)
        <4>1. waiters'[u] # waiters[u]
          <5>1. waiters'[u] = Tail(waiters[u]) /\ waiters[u] # <<>> /\ waiters[u] \in Seq(Threads)
            BY <1>0, <3>1, <3>4, <3>8 DEF SgPop, TypeOK
          <5>2. Len(Tail(waiters[u])) # Len(waiters[u])
            BY <5>1
          <5> QED
            BY <5>1, <5>2
        <4> QED
          BY <3>4, <4>1, JoinListChange
      <3> QED
        BY <3>5, <3>6, <3>7, <3>8
    <2> QED
      BY <2>1, <2>2
  <1> QED
    BY <1>1, <1>2

\* Where a thread that waits to join came from.
LEMMA JoinMoves ==
  ASSUME TLInv, NEW t \in Threads, TLStep(t), NEW v \in Threads
  PROVE  /\ at'[v] = "jn_wait" =>
              \/ at[v] = "jn_wait" /\ peer'[v] = peer[v] /\ (v # t => pc'[v] = pc[v])
              \/ v = t /\ JnWait(t) /\ peer'[v] = peer[v] /\ pc'[v] = "cw_wcb"
         /\ at'[v] = "jn_reap" =>
              \/ at[v] = "jn_reap" /\ peer'[v] = peer[v]
              \/ v = t /\ JnReady(t) /\ peer'[v] = peer[v]
  <1>0. TypeOK /\ TLTypeOK /\ BirthOK /\ PlacesOK
    BY DEF TLInv, CVInv, TypeInv
  <1>1. CASE v # t
    BY <1>0, <1>1, OthersStay DEF CrFork, BirthOK, Creating, TLTypeOK
  <1>2. CASE v = t
    <2>1. JnWait(t) => pc'[t] = "cw_wcb"
      BY <1>0 DEF JnWait, Step, CondWait, Goto, PlacesOK, Locked, TypeOK
    <2> QED
      BY <1>0, <1>2, <2>1 DEF TLTypeOK, TLStep, Inside, Step, Enter,
       UserSync, InLibrary, tlvars,
       CrLock, CrFork, CrForkFails, CrFailed, CrRegister, CrUnlock, JnLock, JnRefused,
       JnWait, JnReady, JnReap, JnUnlock, ExLock, ExMark, ExSignal, ExUnlock, ExVanish,
       LkLock, LkUnlock, ThrExit, GetId, ThrCreate, ThrJoin, Join
  <1> QED
    BY <1>1, <1>2

\* Whoever waits to join is on the list, alone, until the other takes it off.
LEMMA StepJoinOK ==
  ASSUME TLInv, NEW t \in Threads, TLStep(t)
  PROVE  JoinOK'
  <1>0. TypeOK /\ TLTypeOK /\ JoinOK /\ BlocksOK /\ PeersOK /\ PlacesOK /\ SleepInv
    BY DEF TLInv, CVInv, TypeInv
  <1> SUFFICES ASSUME NEW v \in Threads, NEW u \in Threads, peer'[v] = u
               PROVE  /\ at'[v] = "jn_wait" /\ pc'[v] \in {"cw_wcb", "cw_enq"} =>
                           waiters'[u] = <<>> /\ state'[u] # "COMPLETED"
                      /\ at'[v] = "jn_wait" /\ pc'[v] \notin {"cw_wcb", "cw_enq"} =>
                           v \in Members(waiters'[u]) \/ Signalled(u)'
                      /\ at'[v] = "jn_reap" => Ended(u)'
                      /\ at'[v] = "jn_wait" =>
                           \A w \in Threads : v \in InHand(w)' =>
                             w = u /\ at'[w] = "ex_unlock" /\ pc'[w] = "sg_cas"
    <2>1. \A v \in Threads : at'[v] \in {"jn_wait", "jn_reap"} => peer'[v] \in Threads
      BY StepPeersOK, StepTLTypeOK DEF PeersOK, TLTypeOK, Joining
    <2>2. \A u \in Threads : Len(waiters'[u]) =< 1 /\ (Signalled(u)' => waiters'[u] = <<>>)
      BY StepJoinLists
    <2> QED
      BY <2>1, <2>2 DEF JoinOK, Signalled, Ended
  <1>1. ASSUME at'[v] = "jn_wait", at[v] = "jn_wait", peer[v] = u, v = t
        PROVE  /\ LibStep(t) /\ pc[t] # "run" /\ u # t
               /\ pc'[t] = "cw_wcb" => FALSE
               /\ pc'[t] = "cw_enq" => pc[t] = "cw_wcb"
               /\ pc[t] = "cw_wcb" => pc'[t] = "cw_enq"
               /\ pc[t] = "cw_enq" => t \in Members(waiters'[u])
    <2>1. pc[t] # "run"
      BY <1>0, <1>1 DEF TLTypeOK, TLStep, Inside, Step, Enter,
       UserSync, InLibrary, LibStep, At, CwWorld, CwWcb, CwEnq, CwUnlockMp, CwUnlockWorld,
       CwStop, CwResume, CwRelock, SgLock, SgPop, SgNone, SgCas, SgUnlock,
       BcLock, BcDetach, BcUnlock, BcPop, BcCas, BcDone,
       CrLock, CrFork, CrForkFails, CrFailed, CrRegister, CrUnlock, JnLock, JnRefused,
       JnWait, JnReady, JnReap, JnUnlock, ExLock, ExMark, ExSignal, ExUnlock, ExVanish,
       LkLock, LkUnlock, ThrExit, GetId, ThrCreate, ThrJoin, Join
    <2>2. LibStep(t)
      BY <2>1, GoesOnInside
    <2>3. u # t
      BY <1>0, <1>1 DEF PeersOK, Joining
    <2>4. pc[t] \in Waiting /\ cv[t] = u
      BY <1>0, <1>1, <2>1 DEF PlacesOK
    <2>5. /\ pc'[t] = "cw_wcb" => FALSE
          /\ pc'[t] = "cw_enq" => pc[t] = "cw_wcb"
          /\ pc[t] = "cw_wcb" => pc'[t] = "cw_enq"
      BY <1>0, <2>2, <2>4 DEF Waiting, TypeOK, LibStep, At, Goto, CwWorld, CwWcb, CwEnq,
         CwUnlockMp, CwUnlockWorld,
         CwStop, CwResume, CwRelock, SgLock, SgPop, SgNone, SgCas, SgUnlock,
         BcLock, BcDetach, BcUnlock, BcPop, BcCas, BcDone
    <2>6. ASSUME pc[t] = "cw_enq" PROVE t \in Members(waiters'[u])
      <3>1. CwEnq(t)
        BY <2>2, <2>6 DEF LibStep, At, CwWorld, CwWcb, CwEnq, CwUnlockMp, CwUnlockWorld,
         CwStop, CwResume, CwRelock, SgLock, SgPop, SgNone, SgCas, SgUnlock,
         BcLock, BcDetach, BcUnlock, BcPop, BcCas, BcDone
      <3>2. waiters'[u] = Append(waiters[u], t) /\ waiters[u] \in Seq(Threads)
        BY <1>0, <2>4, <3>1, ThreadLibAssumption DEF CwEnq, TypeOK
      <3> QED
        BY <3>2, AppendList
    <2> QED
      BY <2>1, <2>2, <2>3, <2>5, <2>6
  <1>2. ASSUME at'[v] = "jn_wait", pc'[v] \in {"cw_wcb", "cw_enq"}
        PROVE  waiters'[u] = <<>> /\ state'[u] # "COMPLETED"
    <2>1. CASE v = t /\ JnWait(t)
      BY <1>0, <2>1 DEF JnWait, CondWait
    <2>2. CASE at[v] = "jn_wait" /\ peer[v] = u
      <3>1. pc[v] \in {"cw_wcb", "cw_enq"} /\ (v = t => pc[t] = "cw_wcb")
        BY <1>1, <1>2, <2>2, JoinMoves
      <3>2. waiters[u] = <<>> /\ state[u] # "COMPLETED" /\ InsideWorld(v)
        BY <1>0, <2>2, <3>1 DEF JoinOK, InsideWorld
      <3>3. InsideWorld(t) => t = v
        BY <3>2, OneInsideWorld
      <3>4. waiters'[u] = waiters[u]
        BY <2>2, <3>1, <3>3, JoinListChange DEF InsideWorld
      <3>5. ~ ExMark(t)
        BY <2>2, <3>3 DEF ExMark, Step, InsideWorld, Locked
      <3> QED
        BY <3>2, <3>4, <3>5, StepStates
    <2> QED
      BY <1>2, <2>1, <2>2, JoinMoves
  <1>3. ASSUME at'[v] = "jn_wait", pc'[v] \notin {"cw_wcb", "cw_enq"}
        PROVE  v \in Members(waiters'[u]) \/ Signalled(u)'
    <2>1. at[v] = "jn_wait" /\ peer[v] = u /\ (v # t => pc'[v] = pc[v])
      BY <1>3, JoinMoves
    <2>2. CASE v = t /\ pc[t] = "cw_enq"
      BY <1>1, <1>3, <2>1, <2>2
    <2>3. CASE pc[v] \notin {"cw_wcb", "cw_enq"}
      <3>1. CASE Signalled(u)
        BY <3>1, SignalledStays
      <3>2. CASE v \in Members(waiters[u])
        <4>1. waiters[u] # <<>>
          BY <3>2, EmptyList
        <4>2. CASE waiters'[u] = waiters[u]
          BY <3>2, <4>2
        <4>3. CASE t = u /\ at[u] = "ex_unlock" /\ pc'[u] = "sg_cas" /\ at' = at
          BY <4>3 DEF Signalled
        <4> QED
          BY <4>1, <4>2, <4>3, JoinListChange
      <3> QED
        BY <1>0, <2>1, <2>3, <3>1, <3>2 DEF JoinOK
    <2> QED
      BY <1>1, <1>3, <2>1, <2>2, <2>3
  <1>4. ASSUME at'[v] = "jn_reap" PROVE Ended(u)'
    <2>1. CASE at[v] = "jn_reap" /\ peer[v] = u
      BY <1>0, <2>1, WayOut DEF JoinOK
    <2>2. CASE v = t /\ JnReady(t) /\ peer[v] = u
      <3>1. at[t] = "jn_look" /\ state[u] = "COMPLETED" /\ u # t
        BY <1>0, <2>2 DEF JnReady, Step, PeersOK, Joining
      <3>2. at[u] \notin {"ex_signal", "ex_unlock"}
        BY <3>1, OneInsideWorld DEF InsideWorld, Locked
      <3> QED
        BY <1>0, <3>1, <3>2, WayOut DEF BlocksOK
    <2> QED
      BY <1>4, <2>1, <2>2, JoinMoves
  <1>5. ASSUME at'[v] = "jn_wait", NEW w \in Threads, v \in InHand(w)'
        PROVE  w = u /\ at'[w] = "ex_unlock" /\ pc'[w] = "sg_cas"
    <2>1. CASE v \in InHand(w)
      <3>1. pc[v] = "cw_resume"
        BY <1>0, <2>1 DEF SleepInv, InHandOK, Asleep
      <3>2. at[v] = "jn_wait" /\ peer[v] = u
        BY <1>5, <3>1, JoinMoves DEF JnWait, CondWait, MayCall, At
      <3>3. w = u /\ at[w] = "ex_unlock" /\ pc[w] = "sg_cas"
        BY <1>0, <2>1, <3>2 DEF JoinOK
      <3>4. w # t
        <4> SUFFICES ASSUME w = t PROVE FALSE
          OBVIOUS
        <4>1. LibStep(t)
          BY <3>3, GoesOnInside
        <4>2. SgCas(t)
          BY <3>3, <4>1 DEF LibStep, At, CwWorld, CwWcb, CwEnq, CwUnlockMp, CwUnlockWorld,
         CwStop, CwResume, CwRelock, SgLock, SgPop, SgNone, SgCas, SgUnlock,
         BcLock, BcDetach, BcUnlock, BcPop, BcCas, BcDone
        <4>3. batch[t] = <<>>
          BY <1>0, <3>3 DEF SleepInv, BatchOK
        <4>4. batch'[t] = <<>> /\ tgt'[t] = None
          BY <1>0, <4>2, <4>3 DEF SgCas, TypeOK
        <4> QED
          BY <1>5, <4>4, EmptyList DEF InHand
      <3>5. ~ (CrFork(t) /\ w = peer[t])
        BY <3>3 DEF CrFork, TLInv, BirthOK, Creating
      <3> QED
        BY <3>3, <3>4, <3>5, OthersStay
    <2>2. CASE v \notin InHand(w)
      <3>1. /\ w = t /\ LibStep(t) /\ at' = at /\ cv[t] \in Conds
            /\ v \in Members(waiters[cv[t]])
            /\ \/ pc[t] = "sg_pop" /\ pc'[t] = "sg_cas"
               \/ pc[t] = "bc_detach"
        BY <1>5, <2>2, NewInHand
      <3>2. cv[v] = cv[t] /\ pc[v] \in FallingAsleep \cup {"cw_resume"} /\ v # t
        BY <1>0, <3>1 DEF SleepInv, ListedOK, Asleep, FallingAsleep
      <3>3. at[v] = "jn_wait" /\ peer[v] = u
        BY <1>5, <3>1, <3>2, OthersStay
      <3>4. cv[t] = u
        BY <1>0, <3>2, <3>3 DEF PlacesOK, FallingAsleep
      <3>5. at[t] = "ex_unlock" /\ t = u /\ pc[t] = "sg_pop"
        BY <3>1, <3>4, UsersOfJoin DEF Waiting, Signalling
      <3> QED
        BY <3>1, <3>5
    <2> QED
      BY <2>1, <2>2
  <1> QED
    BY <1>2, <1>3, <1>4, <1>5

\* The assertions about threads that have one joiner hold, and their stacks are
\* freed once.
LEMMA NoneFails ==
  ASSUME TLInv, NEW t \in Threads, TLStep(t), NEW S \in SUBSET Threads, OnceIn(S),
         S \cap (aborted \cup freedTwice) = {}
  PROVE  S \cap (aborted' \cup freedTwice') = {}
  <1>0. TypeOK /\ TLTypeOK /\ BlocksOK /\ PeersOK
    BY DEF TLInv, CVInv, TypeInv
  <1>1. CASE JnRefused(t)
    <2> DEFINE u == peer[t]
    <2>1. u \in Threads /\ at[t] = "jn_look" /\ aborted' = {u} /\ freedTwice' = freedTwice
      BY <1>0, <1>1 DEF JnRefused, PeersOK, TLTypeOK, Joining
    <2>2. CASE u \in S
      <3>1. u \in anchorThrds
        BY <1>0, <2>1, <2>2 DEF OnceIn, Joining
      <3>2. waiters[u] # <<>> /\ waiters[u] \in Seq(Threads)
        BY <1>0, <1>1, <2>1, <3>1, ThreadLibAssumption DEF JnRefused, TypeOK
      <3>3. Head(waiters[u]) \in Members(waiters[u])
        <4>1. 1 \in DOMAIN waiters[u] /\ Head(waiters[u]) = waiters[u][1]
          BY <3>2
        <4> QED
          BY <4>1 DEF Members
      <3>4. PICK x \in Members(waiters[u]) : TRUE
        BY <3>3
      <3>5. x \in Threads /\ at[x] = "jn_wait" /\ peer[x] = u
        BY <2>1, ListedJoins
      <3>6. x = t
        BY <1>0, <2>1, <2>2, <3>5 DEF OnceIn, Joining
      <3> QED
        BY <2>1, <3>5, <3>6
    <2>3. CASE u \notin S
      BY <1>0, <2>1, <2>3
    <2> QED
      BY <2>2, <2>3
  <1>2. CASE JnReap(t)
    <2> DEFINE u == peer[t]
    <2>1. u \in Threads /\ state[u] = "COMPLETED" /\ at[t] \in {"jn_wait", "jn_reap"}
      BY <1>2, ReapedHasEnded DEF JnReap
    <2>2. aborted' = {}
      BY <1>2, <2>1 DEF JnReap
    <2>3. u \in S => stack[u] = "live"
      BY <1>0, <2>1 DEF OnceIn, BlocksOK, Joining
    <2>4. u \in S => freedTwice' = freedTwice
      BY <1>2, <2>1, <2>3 DEF JnReap
    <2>5. freedTwice' \subseteq freedTwice \cup {u}
      BY <1>2 DEF JnReap
    <2> QED
      BY <1>0, <2>2, <2>4, <2>5
  <1>3. CASE ExMark(t)
    <2>1. at[t] = "ex_mark" /\ aborted' = {t} \ anchorThrds /\ freedTwice' = freedTwice
      BY <1>3 DEF ExMark, Step
    <2>2. t \in anchorThrds
      <3>1. ~ Ended(t) /\ InsideWorld(t)
        BY <2>1 DEF Ended, InsideWorld, Locked
      <3>2. ~ \E v \in Threads : at[v] = "cr_register" /\ peer[v] = t
        BY <2>1, <3>1, OneInsideWorld DEF InsideWorld, Locked
      <3> QED
        BY <1>0, <2>1, <3>1, <3>2 DEF BlocksOK
    <2> QED
      BY <1>0, <2>1, <2>2
  <1>4. CASE ~ JnRefused(t) /\ ~ JnReap(t) /\ ~ ExMark(t)
    <2>1. aborted' = aborted /\ freedTwice' = freedTwice
      BY <1>4 DEF TLStep, Inside, InLibrary, UserSync, tlvars,
       CrLock, CrFork, CrForkFails, CrFailed, CrRegister, CrUnlock, JnLock,
       JnWait, JnReady, JnUnlock, ExLock, ExSignal, ExUnlock, ExVanish,
       LkLock, LkUnlock, ThrExit, GetId, ThrCreate, ThrJoin, Join
    <2> QED
      BY <1>0, <2>1
  <1> QED
    BY <1>1, <1>2, <1>3, <1>4

\* So it is with the threads joined once.
LEMMA StepJoinsInOrder ==
  ASSUME TLInv, NEW t \in Threads, TLStep(t)
  PROVE  JoinsInOrder'
  BY NoneFails, ThreadLibAssumption DEF TLInv, OnceOK, JoinsInOrder

----------------------------------------------------------------------------
(* The theorems.                                                             *)

\* After thr_init there is one thread, and it is on the list.
LEMMA InitTLInv == TLInit => TLInv
  <1> SUFFICES ASSUME TLInit PROVE TLInv
    OBVIOUS
  <1> USE CondVarAssumption, ThreadLibAssumption
  <1>1. CVInv /\ TypeOK
    BY InitCVInv DEF TLInit, CVInv, TypeInv
  <1>2. \A t \in Threads :
          /\ at[t] = (IF t = Main THEN "user" ELSE "none") /\ peer[t] = None
          /\ stack[t] = (IF t = Main THEN "live" ELSE "none")
          /\ pc[t] = "run" /\ mp[t] = None /\ cv[t] = None /\ state[t] = "RUNNABLE"
          /\ waiters[t] = <<>>
    BY DEF TLInit, CVInit
  <1>3. TLTypeOK
    BY <1>1 DEF TLInit, TLTypeOK, Places, StackStates, TypeOK
  <1>4. PlacesOK
    BY <1>2 DEF PlacesOK, Idle, Locked
  <1>5. PeersOK /\ BirthOK /\ OnceOK
    BY <1>2 DEF PeersOK, BirthOK, OnceOK, OnceIn, Creating, Joining
  <1>6. BlocksOK
    BY <1>2 DEF TLInit, BlocksOK, Ended
  <1>7. JoinOK
    <2>1. Len(<<>>) =< 1
      OBVIOUS
    <2> QED
      BY <1>2, <2>1 DEF JoinOK
  <1>8. JoinsInOrder
    BY DEF TLInit, JoinsInOrder
  <1> QED
    BY <1>1, <1>3, <1>4, <1>5, <1>6, <1>7, <1>8 DEF TLInv

\* Every step of every thread keeps the invariant.
LEMMA StepTLInv ==
  ASSUME TLInv, NEW t \in Threads, TLStep(t)
  PROVE  TLInv'
  BY StepKeepsCVInv, StepTLTypeOK, StepPlacesOK, StepPeersOK, StepBirthOK, StepBlocksOK,
     StepJoinOK, StepOnceOK, StepJoinsInOrder DEF TLInv

\* So does a step of another part of the program.
LEMMA StutterTLInv == TLInv /\ UNCHANGED vars => TLInv'
  <1> SUFFICES ASSUME TLInv, UNCHANGED vars PROVE TLInv'
    OBVIOUS
  <1>1. CVInv'
    BY StepCVInv DEF TLInv, vars
  <1>2. TLTypeOK' /\ PlacesOK' /\ PeersOK' /\ OnceOK' /\ JoinsInOrder'
    BY DEF vars, cvvars, tlvars, TLInv, TLTypeOK, PlacesOK, PeersOK, OnceOK, OnceIn, JoinsInOrder
  <1>3. BirthOK' /\ BlocksOK'
    BY DEF vars, cvvars, tlvars, TLInv, BirthOK, BlocksOK, NewBorn, Ended
  <1>4. JoinOK'
    BY DEF vars, cvvars, tlvars, TLInv, JoinOK, Signalled, Ended, InHand
  <1> QED
    BY <1>1, <1>2, <1>3, <1>4 DEF TLInv

\* The steps that TLNext takes, in the form the lemmas are about.
LEMMA NextIsTLStep == TLNext => \E t \in Threads : TLStep(t)
  BY DEF TLNext, Client, TLStep, ThrLookUp

\* The inductive invariant holds for any number of threads.
THEOREM TLInvHolds == TLSpec => []TLInv
  <1>1. TLInv /\ [TLNext]_vars => TLInv'
    BY StepTLInv, StutterTLInv, NextIsTLStep
  <1> QED
    BY <1>1, InitTLInv, PTL DEF TLSpec

\* Thread creation, join and exit use mutexes and condition variables only as
\* CondVar lets its callers use them, so that what is proved about CondVar
\* holds under them (thread_lib.c:140-404 calls mutex.c and cond_var.c).
THEOREM UsesCondVarHolds == TLSpec => UsesCondVar
  <1>1. TLInit => CVInit
    BY DEF TLInit
  <1>2. TLInv /\ [TLNext]_vars => [CVNext]_cvvars
    BY StepUsesCondVar, NextIsTLStep DEF CVNext, vars
  <1> QED
    BY <1>1, <1>2, TLInvHolds, PTL DEF TLSpec, UsesCondVar, CVSpec

\* No assertion of thr_join or thr_exit fails about a thread that is joined by
\* one thread, and its stack is freed once (thread_lib.c:320-404).
THEOREM JoinsInOrderHolds == TLSpec => []JoinsInOrder
  <1>1. TLInv => JoinsInOrder
    BY DEF TLInv
  <1> QED
    BY <1>1, TLInvHolds, PTL

\* A thread that looks for its own control block finds it.
LEMMA FindsItself == TLInv => KnowsItself
  <1> SUFFICES ASSUME TLInv, NEW t \in Threads,
                      pc[t] \in {"cw_wcb", "cw_enq"} \/ at[t] = "ex_mark"
               PROVE  t \in anchorThrds
    BY DEF KnowsItself
  <1>1. /\ at[t] \notin {"none", "ex_vanish", "gone"} /\ InsideWorld(t)
        /\ at[t] # "cr_register"
    BY DEF TLInv, TLTypeOK, PlacesOK, Idle, Locked, Places, InsideWorld, InWorld, Signalling
  <1>2. ~ \E v \in Threads : at[v] = "cr_register" /\ peer[v] = t
    <2> SUFFICES ASSUME NEW v \in Threads, at[v] = "cr_register", peer[v] = t PROVE FALSE
      OBVIOUS
    <2>1. v = t
      BY <1>1, OneInsideWorld DEF InsideWorld, Locked
    <2> QED
      BY <1>1, <2>1
  <1> QED
    BY <1>1, <1>2 DEF TLInv, BlocksOK, Ended

\* Nobody is inside the library with a control block that has been freed.
LEMMA NotUsedAfterFree == TLInv => FreedAfterUse
  <1> USE CondVarAssumption
  <1> SUFFICES ASSUME TLInv, NEW u \in JoinedOnce, stack[u] = "freed"
               PROVE  /\ at[u] \in {"ex_vanish", "gone"} /\ pc[u] = "run"
                      /\ waiters[u] = <<>> /\ ~ locked[u]
                      /\ \A t \in Threads : cv[t] # u
    BY DEF FreedAfterUse
  <1>0. u \in Threads /\ u \in Conds /\ u \notin Mutexes
    BY ThreadLibAssumption
  <1>1. Ended(u) /\ pc[u] = "run" /\ waiters[u] = <<>>
    BY <1>0 DEF TLInv, BlocksOK, PlacesOK, Ended, Idle, JoinOK, Signalled
  <1>2. ASSUME NEW t \in Threads, cv[t] = u PROVE FALSE
    <2>1. pc[t] # "run"
      BY <1>0, <1>2 DEF TLInv, PlacesOK
    <2>2. at[t] = "jn_wait" /\ peer[t] = u
      BY <1>0, <1>1, <1>2, <2>1, UsersOfJoin DEF Ended
    <2>3. u \in anchorThrds
      BY <2>2 DEF TLInv, OnceOK, OnceIn, Joining
    <2> QED
      BY <1>0, <2>3 DEF TLInv, BlocksOK
  <1>3. \A t \in Threads : ~ Holds(t, u)
    BY <1>0, <1>2 DEF Holds, TLInv, CVInv, TypeInv, TypeOK
  <1>4. ~ locked[u]
    BY <1>0, <1>3 DEF TLInv, CVInv, LockInv, LockWordExact, Locks, TypeInv, TypeOK
  <1> QED
    BY <1>1, <1>2, <1>4 DEF Ended

\* The invariant knows of every control block what is promised of it.
LEMMA BlocksAreSound == TLInv => BlocksSound
  BY FindsItself, NotUsedAfterFree DEF BlocksSound, TLInv

\* A control block can be found while it is used, and is freed when nobody is
\* inside the library with it (thread_lib.c:353-371, 391, cond_var.c:105).
THEOREM BlocksSoundHolds == TLSpec => []BlocksSound
  BY BlocksAreSound, TLInvHolds, PTL

\* Whoever joins a thread that has ended has been taken off the list and started.
LEMMA JoinerIsWoken == TLInv => JoinerWoken
  <1> SUFFICES ASSUME TLInv, NEW t \in Threads, NEW u \in Threads,
                      peer[t] = u, at[t] = "jn_wait", Ended(u)
               PROVE  /\ runFlag[t] = Running
                      /\ \A c \in Conds : t \notin Members(waiters[c])
    BY DEF JoinerWoken, Ended, Members
  <1>0. TypeOK /\ SleepInv
    BY DEF TLInv, CVInv, TypeInv
  <1>1. \A c \in Conds : t \notin Members(waiters[c])
    <2> SUFFICES ASSUME NEW c \in Conds, t \in Members(waiters[c]) PROVE FALSE
      OBVIOUS
    <2>1. c = cv[t] /\ pc[t] # "run"
      BY <1>0 DEF SleepInv, ListedOK, FallingAsleep, Asleep
    <2>2. c = u
      BY <2>1 DEF TLInv, PlacesOK
    <2>3. waiters[u] = <<>>
      BY DEF TLInv, JoinOK, Signalled
    <2> QED
      BY <2>2, <2>3, EmptyList
  <1>2. \A w \in Threads : t \notin InHand(w)
    BY DEF TLInv, JoinOK, Ended
  <1>3. runFlag[t] = Running
    BY <1>0, <1>1, <1>2 DEF SleepInv, StoppedOK, TypeOK
  <1> QED
    BY <1>1, <1>3

\* Once a thread is past its signal, its joiner has been taken off the list
\* and started (thread_lib.c:350-353 against 397-400).
THEOREM JoinerWokenHolds == TLSpec => []JoinerWoken
  BY JoinerIsWoken, TLInvHolds, PTL

----------------------------------------------------------------------------
(* Semaphores and reader-writer locks.                                       *)

\* Where a thread is in sem.c, and where in rwlocks.c.
SemPlaces == {"sw_world", "sw_lock", "sw_take", "sw_unworld", "sw_self",
              "ss_lock", "ss_give", "sd_lock"}
RWPlaces == {"rd_lock", "rd_look", "wr_lock", "wr_look", "rw_world", "rw_self", "ru_lock",
             "ru_world", "ru_unworld", "ru_leave", "rx_lock", "rx_look"}

\* Where a thread asks to be let in, and where it gives back what it has.
Asks == {"sw_world", "sw_lock", "sw_take", "rd_lock", "rd_look", "wr_lock", "wr_look"}
Gives == {"ss_lock", "ss_give", "ru_lock", "ru_world", "ru_unworld", "ru_leave"}

\* The shape of the state.
SyncTypeOK ==
  /\ call \in [Threads -> SemPlaces \cup RWPlaces \cup {"out", "unlock"}]
  /\ obj \in [Threads -> Objects \cup {None}]
  /\ count \in [Sems \cup Events -> Int]
  /\ readers \in [RWLocks -> Int]
  /\ writer \in [RWLocks -> Threads \cup {None}]
  /\ destroyed \subseteq Objects
  /\ has \in [Threads -> Sems \cup RWLocks \cup {None}]
  /\ failed \subseteq Threads

\* A thread is in a call of the object's kind; who asks has nothing, and who
\* gives something back has it.
CallsOK ==
  \A t \in Threads :
    /\ call[t] = "out" <=> obj[t] = None
    /\ call[t] \in SemPlaces => obj[t] \in Sems \cup Events
    /\ call[t] \in RWPlaces => obj[t] \in RWLocks
    /\ call[t] \in Asks => has[t] = None
    /\ call[t] \in Gives /\ obj[t] \notin Events => has[t] = obj[t]

\* Nobody asks a destroyed object, and nobody is within it, but that a
\* reader-writer lock may yet turn out to be taken.
DestroyedOK ==
  /\ \A t \in Threads : call[t] \in (SemPlaces \ {"sd_lock"}) \cup Asks => obj[t] \notin destroyed
  /\ \A t \in Threads : call[t] = "sd_lock" => obj[t] \in destroyed
  /\ \A s \in Sems \cap destroyed : Within(s) = {}
  /\ \A o \in RWLocks \cap destroyed :
       Within(o) = {} \/ \E t \in Threads : obj[t] = o /\ call[t] \in {"rx_lock", "rx_look"}

\* What every step of sem.c and rwlocks.c keeps.
SyncInv == SyncTypeOK /\ CallsOK /\ DestroyedOK /\ LetsIn

----------------------------------------------------------------------------

\* Threads within an object can be counted.
LEMMA WithinFinite ==
  ASSUME NEW o
  PROVE  /\ IsFiniteSet(Within(o)) /\ Cardinality(Within(o)) \in Nat
         /\ Cardinality(Within(o)) = 0 <=> Within(o) = {}
         /\ IsFiniteSet(Short(o)) /\ Cardinality(Short(o)) \in Nat
  <1>1. Within(o) \subseteq Threads /\ Short(o) \subseteq Threads /\ IsFiniteSet(Threads)
    BY SyncAssumption DEF Within, Short
  <1> QED
    BY <1>1, FS_Subset, FS_CardinalityType, FS_EmptySet

\* A thread that had nothing is let in.
LEMMA Enters ==
  ASSUME SyncTypeOK, NEW t \in Threads, has[t] = None, NEW o \in Sems \cup RWLocks,
         has' = [has EXCEPT ![t] = o]
  PROVE  /\ Within(o)' = Within(o) \cup {t} /\ t \notin Within(o)
         /\ Cardinality(Within(o)') = Cardinality(Within(o)) + 1
         /\ \A p \in (Sems \cup RWLocks) \ {o} : Within(p)' = Within(p)
  <1>1. o # None
    BY SyncAssumption DEF Objects
  <1>2. /\ Within(o)' = Within(o) \cup {t} /\ t \notin Within(o)
        /\ \A p \in (Sems \cup RWLocks) \ {o} : Within(p)' = Within(p)
    BY <1>1, SyncAssumption DEF Within, SyncTypeOK, Objects
  <1> QED
    BY <1>2, WithinFinite, FS_AddElement

\* A thread gives back what it had.
LEMMA Leaves ==
  ASSUME SyncTypeOK, NEW t \in Threads, NEW o \in Sems \cup RWLocks, has[t] = o,
         has' = [has EXCEPT ![t] = None]
  PROVE  /\ Within(o)' = Within(o) \ {t} /\ t \in Within(o)
         /\ Cardinality(Within(o)') = Cardinality(Within(o)) - 1
         /\ \A p \in (Sems \cup RWLocks) \ {o} : Within(p)' = Within(p)
  <1>1. o # None
    BY SyncAssumption DEF Objects
  <1>2. /\ Within(o)' = Within(o) \ {t} /\ t \in Within(o)
        /\ \A p \in (Sems \cup RWLocks) \ {o} : Within(p)' = Within(p)
    BY <1>1, SyncAssumption DEF Within, SyncTypeOK, Objects
  <1> QED
    BY <1>2, WithinFinite, FS_RemoveElement

\* Nothing but has and the places that count for it changes what is within.
LEMMA WithinSame ==
  ASSUME has' = has
  PROVE  \A o : Within(o)' = Within(o)
BY DEF Within

\* Initially nobody is anywhere.
LEMMA InitSyncInv == SOInit => SyncInv
  <1> SUFFICES ASSUME SOInit PROVE SyncInv
    OBVIOUS
  <1>1. SyncTypeOK
    BY SyncAssumption DEF SOInit, SyncTypeOK, Initial
  <1>2. CallsOK
    BY SyncAssumption DEF SOInit, CallsOK, SemPlaces, RWPlaces, Asks, Gives
  <1>3. \A o \in Sems \cup RWLocks : Within(o) = {} /\ Short(o) = {}
    BY SyncAssumption DEF SOInit, Within, Short, Objects
  <1>4. DestroyedOK
    BY DEF SOInit, DestroyedOK, SemPlaces, Asks
  <1>5. LetsIn
    <2>1. \A o \in Sems \cup RWLocks :
            Cardinality(Within(o)) = 0 /\ Cardinality(Short(o)) = 0
      BY <1>3, FS_EmptySet
    <2>2. \A s \in Sems : count[s] = SemCount
      BY SyncAssumption DEF SOInit, Initial
    <2>3. \A o \in RWLocks : readers[o] = 0 /\ writer[o] = None
      BY DEF SOInit
    <2>4. SemCount \in Nat
      BY SyncAssumption
    <2>5. \A s \in Sems : Cardinality(Within(s)) <= SemCount
      BY <2>1, <2>4
    <2>6. \A s \in Sems \ destroyed :
            count[s] = SemCount - Cardinality(Within(s)) - Cardinality(Short(s))
      BY <2>1, <2>2, <2>4
    <2>7. \A o \in RWLocks :
            Cardinality(Within(o)) = readers[o] + (IF writer[o] = None THEN 0 ELSE 1)
      BY <2>1, <2>3
    <2> QED
      BY <2>3, <2>5, <2>6, <2>7 DEF LetsIn
  <1> QED
    BY <1>1, <1>2, <1>4, <1>5 DEF SyncInv

----------------------------------------------------------------------------
(* The steps. *)

\* The steps of a thread in sem.c and rwlocks.c.
SyncStep(t) == InSync(t) \/ Calls(t)

\* Every step leaves the state in shape.
LEMMA StepSyncTypeOK ==
  ASSUME SyncTypeOK, CallsOK, NEW t \in Threads, SyncStep(t)
  PROVE  SyncTypeOK'
  <1> USE SyncAssumption DEF SyncTypeOK, Go, Call, Return, Keep, KeepCounts, Objects
  <1>1. CASE SwWorld(t) \/ SwLock(t) \/ SwUnworld(t) \/ SsLock(t) \/ ObjUnlock(t)
    BY <1>1 DEF SwWorld, SwLock, SwUnworld, SsLock, ObjUnlock, SemPlaces
  <1>2. CASE SwTake(t)
    <2>1. obj[t] \in Sems \cup Events
      BY <1>2 DEF SwTake, CallsOK, SemPlaces
    <2> QED
      BY <1>2, <2>1 DEF SwTake, SemPlaces
  <1>3. CASE SsGive(t)
    <2>1. obj[t] \in Sems \cup Events
      BY <1>3 DEF SsGive, CallsOK, SemPlaces
    <2> QED
      BY <1>3, <2>1 DEF SsGive, SemPlaces
  <1>4. CASE SdLock(t)
    <2>1. obj[t] \in Sems \cup Events
      BY <1>4 DEF SdLock, CallsOK, SemPlaces
    <2> QED
      BY <1>4, <2>1 DEF SdLock, SemPlaces
  <1>5. CASE RdLock(t) \/ RdBusy(t) \/ WrLock(t) \/ WrBusy(t) \/ RwWorld(t)
    BY <1>5 DEF RdLock, RdBusy, WrLock, WrBusy, RwWorld, RWPlaces
  <1>6. CASE RdEnter(t) \/ WrEnter(t) \/ RuLeave(t)
    <2>1. obj[t] \in RWLocks
      BY <1>6 DEF RdEnter, WrEnter, RuLeave, CallsOK, RWPlaces
    <2> QED
      BY <1>6, <2>1 DEF RdEnter, WrEnter, RuLeave, RWPlaces
  <1>7. CASE RuLock(t) \/ RuWorld(t) \/ RuUnworld(t) \/ RxLock(t) \/ RxBusy(t) \/ RxClear(t)
    BY <1>7 DEF RuLock, RuWorld, RuUnworld, RxLock, RxBusy, RxClear, RWPlaces
  <1>8. ASSUME NEW s \in Sems \cup Events, SemWait(t, s) \/ SemSignal(t, s) \/ SemDestroy(t, s)
        PROVE  SyncTypeOK'
    BY <1>8 DEF SemWait, SemSignal, SemDestroy, SemPlaces
  <1>9. ASSUME NEW s \in Sems \cup Events, SemInit(t, s)
        PROVE  SyncTypeOK'
    BY <1>9 DEF SemInit, Initial
  <1>10. ASSUME NEW o \in RWLocks,
                \/ RWLock(t, o, "rd_lock") \/ RWLock(t, o, "wr_lock") \/ RWUnlock(t, o)
                \/ RWDestroy(t, o) \/ RWInit(t, o)
         PROVE  SyncTypeOK'
    BY <1>10 DEF RWLock, RWUnlock, RWDestroy, RWInit, RWPlaces
  <1> QED
    BY <1>1, <1>2, <1>3, <1>4, <1>5, <1>6, <1>7, <1>8, <1>9, <1>10 DEF SyncStep, InSync, Calls

\* The other steps of the threads leave the objects alone.
LEMMA ShortSame ==
  ASSUME SyncTypeOK, NEW t \in Threads, NEW a, NEW b, Go(t, a, b),
         a # "sw_self", b # "sw_self",
         obj' = [obj EXCEPT ![t] = obj'[t]]
  PROVE  \A s : Short(s)' = Short(s)
  <1> SUFFICES ASSUME NEW s PROVE Short(s)' = Short(s)
    OBVIOUS
  <1>1. \A u \in Threads : u # t => obj'[u] = obj[u] /\ call'[u] = call[u]
    BY DEF SyncTypeOK, Go
  <1>2. call[t] # "sw_self" /\ call'[t] # "sw_self"
    BY DEF SyncTypeOK, Go
  <1> QED
    BY <1>1, <1>2 DEF Short

\* As long as the counters and who is within stay, what they say is true.
LEMMA LetsInSame ==
  ASSUME LetsIn, UNCHANGED <<count, readers, writer, has>>,
         \A s : Short(s)' = Short(s), Sems \ destroyed' \subseteq Sems \ destroyed
  PROVE  LetsIn'
  <1>1. \A o : Within(o)' = Within(o)
    BY WithinSame
  <1>2. \A o : Cardinality(Within(o))' = Cardinality(Within(o))
    BY <1>1
  <1>3. \A o : Cardinality(Short(o))' = Cardinality(Short(o))
    OBVIOUS
  <1>4. (\A s \in Sems : Cardinality(Within(s)) <= SemCount)'
    BY <1>2 DEF LetsIn
  <1>5. (\A s \in Sems \ destroyed :
            count[s] = SemCount - Cardinality(Within(s)) - Cardinality(Short(s)))'
    BY <1>2, <1>3 DEF LetsIn
  <1>6. (\A o \in RWLocks :
            Cardinality(Within(o)) = readers[o] + (IF writer[o] = None THEN 0 ELSE 1))'
    BY <1>2 DEF LetsIn
  <1>7. (\A o \in RWLocks : writer[o] # None => Within(o) = {writer[o]})'
    BY <1>1 DEF LetsIn
  <1> QED
    BY <1>4, <1>5, <1>6, <1>7 DEF LetsIn

\* A thread stays in a call of the object's kind.
LEMMA StepCallsOK ==
  ASSUME SyncTypeOK, CallsOK, NEW t \in Threads, SyncStep(t)
  PROVE  CallsOK'
  <1> USE SyncAssumption DEF SyncTypeOK, CallsOK, Go, Call, Return, Keep, KeepCounts, Objects,
                             SemPlaces, RWPlaces, Asks, Gives
  <1> SUFFICES ASSUME NEW u \in Threads
               PROVE  /\ call'[u] = "out" <=> obj'[u] = None
                      /\ call'[u] \in SemPlaces => obj'[u] \in Sems \cup Events
                      /\ call'[u] \in RWPlaces => obj'[u] \in RWLocks
                      /\ call'[u] \in Asks => has'[u] = None
                      /\ call'[u] \in Gives /\ obj'[u] \notin Events => has'[u] = obj'[u]
    OBVIOUS
  <1>1. CASE SwWorld(t) \/ SwLock(t) \/ SwUnworld(t) \/ SsLock(t) \/ ObjUnlock(t) \/ SdLock(t)
    BY <1>1 DEF SwWorld, SwLock, SwUnworld, SsLock, ObjUnlock, SdLock
  <1>2. CASE SwTake(t) \/ SsGive(t)
    BY <1>2 DEF SwTake, SsGive
  <1>3. CASE RdLock(t) \/ RdBusy(t) \/ WrLock(t) \/ WrBusy(t) \/ RwWorld(t)
    BY <1>3 DEF RdLock, RdBusy, WrLock, WrBusy, RwWorld
  <1>4. CASE RdEnter(t) \/ WrEnter(t) \/ RuLeave(t)
    BY <1>4 DEF RdEnter, WrEnter, RuLeave
  <1>5. CASE RuLock(t) \/ RuWorld(t) \/ RuUnworld(t) \/ RxLock(t) \/ RxBusy(t) \/ RxClear(t)
    BY <1>5 DEF RuLock, RuWorld, RuUnworld, RxLock, RxBusy, RxClear
  <1>6. CASE \E s \in Sems \cup Events :
               SemWait(t, s) \/ SemSignal(t, s) \/ SemDestroy(t, s) \/ SemInit(t, s)
    BY <1>6 DEF SemWait, SemSignal, SemDestroy, SemInit
  <1>7. CASE \E o \in RWLocks :
               \/ RWLock(t, o, "rd_lock") \/ RWLock(t, o, "wr_lock") \/ RWUnlock(t, o)
               \/ RWDestroy(t, o) \/ RWInit(t, o)
    BY <1>7 DEF RWLock, RWUnlock, RWDestroy, RWInit
  <1> QED
    BY <1>1, <1>2, <1>3, <1>4, <1>5, <1>6, <1>7 DEF SyncStep, InSync, Calls

\* A destroyed object is left alone until it is initialised again.
LEMMA StepDestroyedOK ==
  ASSUME SyncInv, NEW t \in Threads, SyncStep(t)
  PROVE  DestroyedOK'
  <1> USE SyncAssumption DEF SyncInv, SyncTypeOK, CallsOK, Go, Call, Return, Keep, KeepCounts,
                             Objects, SemPlaces, RWPlaces, Asks, Gives
  <1>a. \A u \in Threads :
          /\ call'[u] \in (SemPlaces \ {"sd_lock"}) \cup Asks => obj'[u] \notin destroyed'
          /\ call'[u] = "sd_lock" => obj'[u] \in destroyed'
    <2> USE DEF DestroyedOK
    <2>1. CASE SwWorld(t) \/ SwLock(t) \/ SwUnworld(t) \/ SsLock(t) \/ ObjUnlock(t) \/ SdLock(t)
      BY <2>1 DEF SwWorld, SwLock, SwUnworld, SsLock, ObjUnlock, SdLock
    <2>2. CASE SwTake(t) \/ SsGive(t)
      BY <2>2 DEF SwTake, SsGive
    <2>3. CASE RdLock(t) \/ RdBusy(t) \/ WrLock(t) \/ WrBusy(t) \/ RwWorld(t)
      BY <2>3 DEF RdLock, RdBusy, WrLock, WrBusy, RwWorld
    <2>4. CASE RdEnter(t) \/ WrEnter(t) \/ RuLeave(t)
      BY <2>4 DEF RdEnter, WrEnter, RuLeave
    <2>5. CASE RuLock(t) \/ RuWorld(t) \/ RuUnworld(t) \/ RxLock(t) \/ RxBusy(t) \/ RxClear(t)
      BY <2>5 DEF RuLock, RuWorld, RuUnworld, RxLock, RxBusy, RxClear
    <2>6. CASE \E s \in Sems \cup Events :
                 SemWait(t, s) \/ SemSignal(t, s) \/ SemDestroy(t, s) \/ SemInit(t, s)
      BY <2>6 DEF SemWait, SemSignal, SemDestroy, SemInit, InUse
    <2>7. CASE \E o \in RWLocks :
                 \/ RWLock(t, o, "rd_lock") \/ RWLock(t, o, "wr_lock") \/ RWUnlock(t, o)
                 \/ RWDestroy(t, o) \/ RWInit(t, o)
      BY <2>7 DEF RWLock, RWUnlock, RWDestroy, RWInit, InUse
    <2> QED
      BY <2>1, <2>2, <2>3, <2>4, <2>5, <2>6, <2>7 DEF SyncStep, InSync, Calls
  \* Only who asked an object that is not destroyed gets in.
  <1>b. \A o \in destroyed : Within(o)' \subseteq Within(o)
    <2> SUFFICES ASSUME NEW o \in destroyed, NEW u \in Threads, has'[u] = o
                 PROVE  has[u] = o
      BY DEF Within
    <2>0. o # None
      BY DEF Objects
    <2>1. CASE UNCHANGED has
      BY <2>1
    <2>2. CASE SwTake(t)
      BY <2>0, <2>2 DEF SwTake, DestroyedOK
    <2>3. CASE SsGive(t)
      BY <2>0, <2>3 DEF SsGive
    <2>4. CASE RdEnter(t) \/ WrEnter(t)
      BY <2>0, <2>4 DEF RdEnter, WrEnter, DestroyedOK
    <2>5. CASE RuLeave(t)
      BY <2>0, <2>5 DEF RuLeave
    <2>6. \/ UNCHANGED has \/ SwTake(t) \/ SsGive(t) \/ RdEnter(t) \/ WrEnter(t) \/ RuLeave(t)
      BY DEF SyncStep, InSync, Calls, SwWorld, SwLock, SwUnworld, SsLock, ObjUnlock, SdLock,
             RdLock, RdBusy, WrLock, WrBusy, RwWorld, RuLock, RuWorld, RuUnworld, RxLock, RxBusy,
             RxClear, SemWait, SemSignal, SemDestroy, SemInit, RWLock, RWUnlock, RWDestroy, RWInit
    <2> QED
      BY <2>1, <2>2, <2>3, <2>4, <2>5, <2>6
  <1>c. \/ destroyed' \subseteq destroyed
        \/ \E s \in Sems \cup Events : SemDestroy(t, s)
        \/ \E o \in RWLocks : RWDestroy(t, o)
    BY DEF SyncStep, InSync, Calls, SwWorld, SwLock, SwTake, SwUnworld, SsLock, SsGive, ObjUnlock,
           SdLock, RdLock, RdEnter, RdBusy, WrLock, WrEnter, WrBusy, RwWorld, RuLock, RuWorld,
           RuUnworld, RuLeave, RxLock, RxBusy, RxClear, SemWait, SemSignal, SemInit,
           RWLock, RWUnlock, RWInit
  <1>d. \A s \in Sems \cap destroyed' : Within(s)' = {}
    <2>1. \A s \in Sems \cap destroyed : Within(s)' = {}
      BY <1>b DEF DestroyedOK
    <2>2. ASSUME NEW r \in Sems \cup Events, SemDestroy(t, r)
          PROVE  \A s \in Sems \cap destroyed' : Within(s)' = {}
      BY <2>1, <2>2 DEF SemDestroy, Within
    <2>3. ASSUME NEW o \in RWLocks, RWDestroy(t, o)
          PROVE  \A s \in Sems \cap destroyed' : Within(s)' = {}
      BY <2>1, <2>3 DEF RWDestroy
    <2> QED
      BY <1>c, <2>1, <2>2, <2>3
  <1>e. \A o \in RWLocks \cap destroyed' :
          \/ Within(o)' = {}
          \/ \E u \in Threads : obj'[u] = o /\ call'[u] \in {"rx_lock", "rx_look"}
    <2> SUFFICES ASSUME NEW o \in RWLocks \cap destroyed'
                 PROVE  \/ Within(o)' = {}
                        \/ \E u \in Threads : obj'[u] = o /\ call'[u] \in {"rx_lock", "rx_look"}
      OBVIOUS
    <2>1. CASE o \notin destroyed
      <3>1. RWDestroy(t, o)
        BY <1>c, <2>1 DEF SemDestroy, RWDestroy
      <3> QED
        BY <3>1 DEF RWDestroy
    <2>2. CASE o \in destroyed /\ Within(o) = {}
      BY <1>b, <2>2
    <2>3. ASSUME o \in destroyed, NEW u \in Threads, obj[u] = o, call[u] \in {"rx_lock", "rx_look"}
          PROVE  \/ Within(o)' = {}
                 \/ \E v \in Threads : obj'[v] = o /\ call'[v] \in {"rx_lock", "rx_look"}
      <3>1. CASE obj'[u] = o /\ call'[u] \in {"rx_lock", "rx_look"}
        BY <3>1
      <3>2. CASE ~ (obj'[u] = o /\ call'[u] \in {"rx_lock", "rx_look"})
        <4>1. u = t
          BY <2>3, <3>2 DEF SyncStep, InSync, Calls, SwWorld, SwLock, SwTake, SwUnworld, SsLock,
                SsGive, ObjUnlock, SdLock, RdLock, RdEnter, RdBusy, WrLock, WrEnter, WrBusy,
                RwWorld, RuLock, RuWorld, RuUnworld, RuLeave, RxLock, RxBusy, RxClear,
                SemWait, SemSignal, SemDestroy, SemInit, RWLock, RWUnlock, RWDestroy, RWInit
        <4>2. RxBusy(t) \/ RxClear(t)
          BY <2>3, <3>2, <4>1 DEF SyncStep, InSync, Calls, SwWorld, SwLock, SwTake, SwUnworld,
                SsLock, SsGive, ObjUnlock, SdLock, RdLock, RdEnter, RdBusy, WrLock, WrEnter, WrBusy,
                RwWorld, RuLock, RuWorld, RuUnworld, RuLeave, RxLock,
                SemWait, SemSignal, SemDestroy, SemInit, RWLock, RWUnlock, RWDestroy, RWInit
        <4>3. CASE RxBusy(t)
          BY <2>3, <4>1, <4>3 DEF RxBusy
        <4>4. CASE RxClear(t)
          <5>1. readers[o] = 0 /\ writer[o] = None
            BY <2>3, <4>1, <4>4 DEF RxClear
          <5>2. Cardinality(Within(o)) = 0
            BY <5>1 DEF LetsIn
          <5> QED
            BY <1>b, <2>3, <5>2, WithinFinite
        <4> QED
          BY <4>2, <4>3, <4>4
      <3> QED
        BY <3>1, <3>2
    <2> QED
      BY <2>1, <2>2, <2>3 DEF DestroyedOK
  <1> QED
    BY <1>a, <1>d, <1>e DEF DestroyedOK

\* A thread that finds a permit, takes it and is within; one that finds none
\* has taken one all the same.
LEMMA TakeLetsIn ==
  ASSUME SyncInv, NEW t \in Threads, SwTake(t)
  PROVE  LetsIn'
  <1>0. PICK s : s = obj[t]
    OBVIOUS
  <1> USE SyncAssumption DEF SyncInv
  <1>1. s \in Sems \cup Events /\ has[t] = None /\ s \notin destroyed /\ s \notin RWLocks
    BY <1>0 DEF SwTake, Go, CallsOK, DestroyedOK, SemPlaces, Asks
  <1>2. /\ call[t] = "sw_take"
        /\ call' = [call EXCEPT ![t] = IF count[s] > 0 THEN "sw_unworld" ELSE "sw_self"]
        /\ count' = [count EXCEPT ![s] = @ - 1]
        /\ has' = [has EXCEPT ![t] = IF count[s] > 0 /\ s \in Sems THEN s ELSE None]
        /\ UNCHANGED <<obj, readers, writer, destroyed>>
    BY <1>0 DEF SwTake, Go
  <1>3. SemCount \in Nat /\ \A p \in Sems \cup Events : count[p] \in Int
    BY DEF SyncTypeOK
  <1>4. \A p \in Sems \ {s} : Short(p)' = Short(p) /\ count'[p] = count[p]
    BY <1>0, <1>1, <1>2 DEF Short, SyncTypeOK
  <1>5. count'[s] = count[s] - 1
    BY <1>1, <1>2 DEF SyncTypeOK
  <1>6. CASE s \in Sems /\ count[s] > 0
    <2>1. has' = [has EXCEPT ![t] = s]
      BY <1>2, <1>6
    <2>2. /\ Cardinality(Within(s)') = Cardinality(Within(s)) + 1
          /\ \A p \in (Sems \cup RWLocks) \ {s} : Within(p)' = Within(p)
      BY <1>1, <1>6, <2>1, Enters
    <2>3. Short(s)' = Short(s)
      BY <1>2, <1>6 DEF Short, SyncTypeOK
    <2>4. count[s] = SemCount - Cardinality(Within(s)) - Cardinality(Short(s))
      BY <1>1, <1>6 DEF LetsIn
    <2>5. Cardinality(Within(s)) \in Nat /\ Cardinality(Short(s)) \in Nat
      BY WithinFinite
    <2>6. Cardinality(Within(s)') <= SemCount
      BY <1>3, <1>6, <2>2, <2>4, <2>5
    <2>7. count'[s] = SemCount - Cardinality(Within(s)') - Cardinality(Short(s)')
      BY <1>3, <1>5, <1>6, <2>2, <2>3, <2>4, <2>5
    <2>8. (\A p \in Sems : Cardinality(Within(p)) <= SemCount)'
      BY <2>2, <2>6 DEF LetsIn
    <2>9. (\A p \in Sems \ destroyed :
             count[p] = SemCount - Cardinality(Within(p)) - Cardinality(Short(p)))'
      BY <1>2, <1>4, <2>2, <2>7 DEF LetsIn
    <2>10. \A o \in RWLocks : Within(o)' = Within(o)
      BY <1>1, <2>2
    <2>11. (\A o \in RWLocks :
              Cardinality(Within(o)) = readers[o] + (IF writer[o] = None THEN 0 ELSE 1))'
      BY <1>2, <2>10 DEF LetsIn
    <2>12. (\A o \in RWLocks : writer[o] # None => Within(o) = {writer[o]})'
      BY <1>2, <2>10 DEF LetsIn
    <2> QED
      BY <2>8, <2>9, <2>11, <2>12 DEF LetsIn
  <1>7. CASE ~ (s \in Sems /\ count[s] > 0)
    <2>1. has' = has
      BY <1>1, <1>2, <1>7 DEF SyncTypeOK
    <2>2. \A o : Within(o)' = Within(o)
      BY <2>1, WithinSame
    <2>3. ASSUME s \in Sems
          PROVE  count'[s] = SemCount - Cardinality(Within(s)') - Cardinality(Short(s)')
      <3>1. Short(s)' = Short(s) \cup {t} /\ t \notin Short(s)
        BY <1>0, <1>2, <1>3, <1>7, <2>3 DEF Short, SyncTypeOK
      <3>2. Cardinality(Short(s)') = Cardinality(Short(s)) + 1
        BY <3>1, WithinFinite, FS_AddElement
      <3>3. count[s] = SemCount - Cardinality(Within(s)) - Cardinality(Short(s))
        BY <1>1, <2>3 DEF LetsIn
      <3>4. Cardinality(Within(s)) \in Nat /\ Cardinality(Short(s)) \in Nat
        BY WithinFinite
      <3>5. Within(s)' = Within(s)
        BY <2>2
      <3> QED
        BY <1>3, <1>5, <3>2, <3>3, <3>4, <3>5
    <2>4. (\A p \in Sems : Cardinality(Within(p)) <= SemCount)'
      BY <2>2 DEF LetsIn
    <2>5. (\A p \in Sems \ destroyed :
             count[p] = SemCount - Cardinality(Within(p)) - Cardinality(Short(p)))'
      BY <1>2, <1>4, <2>2, <2>3 DEF LetsIn
    <2>6. (\A o \in RWLocks :
              Cardinality(Within(o)) = readers[o] + (IF writer[o] = None THEN 0 ELSE 1))'
      BY <1>2, <2>2 DEF LetsIn
    <2>7. (\A o \in RWLocks : writer[o] # None => Within(o) = {writer[o]})'
      BY <1>2, <2>2 DEF LetsIn
    <2> QED
      BY <2>4, <2>5, <2>6, <2>7 DEF LetsIn
  <1> QED
    BY <1>6, <1>7

\* What sem_signal gives back is what the thread had, or it is an event.
LEMMA GiveLetsIn ==
  ASSUME SyncInv, NEW t \in Threads, SsGive(t)
  PROVE  LetsIn'
  <1>0. PICK s : s = obj[t]
    OBVIOUS
  <1> USE SyncAssumption DEF SyncInv
  <1>1. s \in Sems \cup Events /\ s \notin destroyed /\ s \notin RWLocks /\ s # None
    BY <1>0 DEF SsGive, Go, CallsOK, DestroyedOK, SemPlaces, Objects
  <1>2. /\ count' = [count EXCEPT ![s] = @ + 1]
        /\ has' = [has EXCEPT ![t] = IF @ = s THEN None ELSE @]
        /\ UNCHANGED <<obj, readers, writer, destroyed>>
    BY <1>0 DEF SsGive, Go
  <1>3. SemCount \in Nat /\ \A p \in Sems \cup Events : count[p] \in Int
    BY DEF SyncTypeOK
  <1>4. count'[s] = count[s] + 1 /\ \A p \in Sems \ {s} : count'[p] = count[p]
    BY <1>1, <1>2 DEF SyncTypeOK
  <1>5. \A p : Short(p)' = Short(p)
    <2>1. Go(t, "ss_give", "unlock") /\ obj' = [obj EXCEPT ![t] = obj'[t]]
      BY DEF SsGive, SyncTypeOK
    <2> QED
      BY <2>1, ShortSame
  <1>6. CASE s \in Events
    <2>1. has[t] # s
      BY <1>1, <1>6 DEF SyncTypeOK
    <2>2. has' = has
      BY <1>2, <2>1 DEF SyncTypeOK
    <2>3. \A o : Within(o)' = Within(o)
      BY <2>2, WithinSame
    <2>4. (\A p \in Sems : Cardinality(Within(p)) <= SemCount)'
      BY <2>3 DEF LetsIn
    <2>5. (\A p \in Sems \ destroyed :
             count[p] = SemCount - Cardinality(Within(p)) - Cardinality(Short(p)))'
      BY <1>2, <1>4, <1>5, <1>6, <2>3 DEF LetsIn
    <2>6. (\A o \in RWLocks :
              Cardinality(Within(o)) = readers[o] + (IF writer[o] = None THEN 0 ELSE 1))'
      BY <1>2, <2>3 DEF LetsIn
    <2>7. (\A o \in RWLocks : writer[o] # None => Within(o) = {writer[o]})'
      BY <1>2, <2>3 DEF LetsIn
    <2> QED
      BY <2>4, <2>5, <2>6, <2>7 DEF LetsIn
  <1>7. CASE s \in Sems
    <2>1. has[t] = s
      BY <1>0, <1>7 DEF SsGive, Go, CallsOK, Gives
    <2>2. has' = [has EXCEPT ![t] = None]
      BY <1>2, <2>1
    <2>3. /\ Cardinality(Within(s)') = Cardinality(Within(s)) - 1
          /\ \A p \in (Sems \cup RWLocks) \ {s} : Within(p)' = Within(p)
      BY <1>7, <2>1, <2>2, Leaves
    <2>4. count[s] = SemCount - Cardinality(Within(s)) - Cardinality(Short(s))
      BY <1>1, <1>7 DEF LetsIn
    <2>5. Cardinality(Within(s)) \in Nat /\ Cardinality(Short(s)) \in Nat
      BY WithinFinite
    <2>6. Cardinality(Within(s)') <= SemCount
      BY <1>3, <1>7, <2>3, <2>5 DEF LetsIn
    <2>7. Short(s)' = Short(s)
      BY <1>5
    <2>8. count'[s] = SemCount - Cardinality(Within(s)') - Cardinality(Short(s)')
      BY <1>3, <1>4, <2>3, <2>4, <2>5, <2>7
    <2>9. (\A p \in Sems : Cardinality(Within(p)) <= SemCount)'
      BY <2>3, <2>6 DEF LetsIn
    <2>10. (\A p \in Sems \ destroyed :
              count[p] = SemCount - Cardinality(Within(p)) - Cardinality(Short(p)))'
      BY <1>2, <1>4, <1>5, <2>3, <2>8 DEF LetsIn
    <2>11. \A o \in RWLocks : Within(o)' = Within(o)
      BY <1>1, <2>3
    <2>12. (\A o \in RWLocks :
              Cardinality(Within(o)) = readers[o] + (IF writer[o] = None THEN 0 ELSE 1))'
      BY <1>2, <2>11 DEF LetsIn
    <2>13. (\A o \in RWLocks : writer[o] # None => Within(o) = {writer[o]})'
      BY <1>2, <2>11 DEF LetsIn
    <2> QED
      BY <2>9, <2>10, <2>12, <2>13 DEF LetsIn
  <1> QED
    BY <1>1, <1>6, <1>7

\* A reader or a writer is let in when nobody forbids it.
LEMMA RWEnterLetsIn ==
  ASSUME SyncInv, NEW t \in Threads, RdEnter(t) \/ WrEnter(t)
  PROVE  LetsIn'
  <1>0. PICK o : o = obj[t]
    OBVIOUS
  <1> USE SyncAssumption DEF SyncInv
  <1>1. o \in RWLocks /\ o \notin Sems /\ has[t] = None /\ t # None
    BY <1>0, CondVarAssumption DEF RdEnter, WrEnter, Go, CallsOK, RWPlaces, Asks
  <1>2. writer[o] = None /\ has' = [has EXCEPT ![t] = o]
    BY <1>0 DEF RdEnter, WrEnter
  <1>3. UNCHANGED <<obj, count, destroyed>>
    BY DEF RdEnter, WrEnter
  <1>4. /\ Cardinality(Within(o)') = Cardinality(Within(o)) + 1
        /\ Within(o)' = Within(o) \cup {t}
        /\ \A p \in (Sems \cup RWLocks) \ {o} : Within(p)' = Within(p)
    BY <1>1, <1>2, Enters
  <1>5. \A p : Short(p)' = Short(p)
    <2>1. CASE RdEnter(t)
      <3>1. Go(t, "rd_look", "unlock") /\ obj' = [obj EXCEPT ![t] = obj'[t]]
        BY <1>3, <2>1 DEF RdEnter, SyncTypeOK
      <3> QED
        BY <3>1, ShortSame
    <2>2. CASE WrEnter(t)
      <3>1. Go(t, "wr_look", "unlock") /\ obj' = [obj EXCEPT ![t] = obj'[t]]
        BY <1>3, <2>2 DEF WrEnter, SyncTypeOK
      <3> QED
        BY <3>1, ShortSame
    <2> QED
      BY <2>1, <2>2
  <1>6. \A s \in Sems : Within(s)' = Within(s)
    BY <1>1, <1>4
  <1>7. (\A s \in Sems : Cardinality(Within(s)) <= SemCount)'
    BY <1>6 DEF LetsIn
  <1>8. (\A s \in Sems \ destroyed :
           count[s] = SemCount - Cardinality(Within(s)) - Cardinality(Short(s)))'
    BY <1>3, <1>5, <1>6 DEF LetsIn
  <1>9. \A p \in RWLocks \ {o} :
          readers'[p] = readers[p] /\ writer'[p] = writer[p] /\ Within(p)' = Within(p)
    BY <1>0, <1>4 DEF RdEnter, WrEnter, SyncTypeOK
  <1>10. Cardinality(Within(o)) = readers[o] /\ readers[o] \in Int
    BY <1>1, <1>2, WithinFinite DEF LetsIn, SyncTypeOK
  <1>11. /\ Cardinality(Within(o)') = readers'[o] + (IF writer'[o] = None THEN 0 ELSE 1)
         /\ writer'[o] # None => Within(o)' = {writer'[o]}
    <2>1. CASE RdEnter(t)
      <3>1. readers'[o] = readers[o] + 1 /\ writer'[o] = None
        BY <1>0, <1>1, <1>2, <2>1 DEF RdEnter, SyncTypeOK
      <3> QED
        BY <1>4, <1>10, <3>1
    <2>2. CASE WrEnter(t)
      <3>1. readers'[o] = 0 /\ readers[o] = 0 /\ writer'[o] = t
        BY <1>0, <1>1, <2>2 DEF WrEnter, SyncTypeOK
      <3>2. Within(o) = {}
        BY <1>10, <3>1, WithinFinite
      <3> QED
        BY <1>1, <1>4, <1>10, <3>1, <3>2
    <2> QED
      BY <2>1, <2>2
  <1>12. (\A p \in RWLocks :
            Cardinality(Within(p)) = readers[p] + (IF writer[p] = None THEN 0 ELSE 1))'
    BY <1>9, <1>11 DEF LetsIn
  <1>13. (\A p \in RWLocks : writer[p] # None => Within(p) = {writer[p]})'
    BY <1>9, <1>11 DEF LetsIn
  <1> QED
    BY <1>7, <1>8, <1>12, <1>13 DEF LetsIn

\* Only a reader leaves: for a writer the assertion fails.
LEMMA RWLeaveLetsIn ==
  ASSUME SyncInv, NEW t \in Threads, RuLeave(t)
  PROVE  LetsIn'
  <1>0. PICK o : o = obj[t]
    OBVIOUS
  <1> USE SyncAssumption DEF SyncInv
  <1>1. o \in RWLocks /\ o \notin Sems /\ o \notin Events /\ has[t] = o
    BY <1>0 DEF RuLeave, Go, CallsOK, RWPlaces, Gives
  <1>2. UNCHANGED <<obj, count, writer, destroyed>>
    BY DEF RuLeave
  <1>3. \A p : Short(p)' = Short(p)
    <2>1. Go(t, "ru_leave", "unlock") /\ obj' = [obj EXCEPT ![t] = obj'[t]]
      BY <1>2 DEF RuLeave, SyncTypeOK
    <2> QED
      BY <2>1, ShortSame
  <1>4. CASE writer[o] # None
    <2>1. failed' # {}
      BY <1>0, <1>4 DEF RuLeave
    <2>2. readers' = readers /\ has' = has
      BY <2>1 DEF RuLeave, SyncTypeOK
    <2> QED
      BY <1>2, <1>3, <2>2, LetsInSame
  <1>5. CASE writer[o] = None
    <2>1. failed' = {}
      BY <1>0, <1>5 DEF RuLeave
    <2>2. readers' = [readers EXCEPT ![o] = @ - 1] /\ has' = [has EXCEPT ![t] = None]
      BY <1>0, <2>1 DEF RuLeave
    <2>3. /\ Cardinality(Within(o)') = Cardinality(Within(o)) - 1
          /\ \A p \in (Sems \cup RWLocks) \ {o} : Within(p)' = Within(p)
      BY <1>1, <2>2, Leaves
    <2>4. \A s \in Sems : Within(s)' = Within(s)
      BY <1>1, <2>3
    <2>5. (\A s \in Sems : Cardinality(Within(s)) <= SemCount)'
      BY <2>4 DEF LetsIn
    <2>6. (\A s \in Sems \ destroyed :
             count[s] = SemCount - Cardinality(Within(s)) - Cardinality(Short(s)))'
      BY <1>2, <1>3, <2>4 DEF LetsIn
    <2>7. Cardinality(Within(o)) = readers[o] /\ readers[o] \in Int
      BY <1>1, <1>5, WithinFinite DEF LetsIn, SyncTypeOK
    <2>8. readers'[o] = readers[o] - 1 /\ \A p \in RWLocks \ {o} : readers'[p] = readers[p]
      BY <1>1, <2>2 DEF SyncTypeOK
    <2>9. Cardinality(Within(o)') = readers'[o] /\ writer'[o] = None
      BY <1>2, <1>5, <2>3, <2>7, <2>8
    <2>10. (\A p \in RWLocks :
              Cardinality(Within(p)) = readers[p] + (IF writer[p] = None THEN 0 ELSE 1))'
      BY <1>2, <2>3, <2>7, <2>8, <2>9 DEF LetsIn
    <2>11. (\A p \in RWLocks : writer[p] # None => Within(p) = {writer[p]})'
      BY <1>2, <2>3, <2>9 DEF LetsIn
    <2> QED
      BY <2>5, <2>6, <2>10, <2>11 DEF LetsIn
  <1> QED
    BY <1>4, <1>5

\* Who initialises an object finds it with nobody in it and nobody waiting.
LEMMA InitLetsIn ==
  ASSUME SyncInv, NEW t \in Threads, NEW o \in Objects,
         SdLock(t) \/ SemInit(t, o) \/ (o \in RWLocks /\ RWInit(t, o))
  PROVE  LetsIn'
  <1> USE SyncAssumption DEF SyncInv
  <1>1. has' = has
    BY DEF SdLock, SemInit, RWInit
  <1>2. \A p : Within(p)' = Within(p)
    BY <1>1, WithinSame
  <1>3. \A p : Short(p)' = Short(p)
    <2>1. CASE SdLock(t)
      <3>1. Go(t, "sd_lock", "out") /\ obj' = [obj EXCEPT ![t] = obj'[t]]
        BY <2>1 DEF SdLock, Return, SyncTypeOK
      <3> QED
        BY <3>1, ShortSame
    <2>2. CASE SemInit(t, o) \/ RWInit(t, o)
      <3>1. Go(t, "out", "out") /\ obj' = [obj EXCEPT ![t] = obj'[t]]
        BY <2>2 DEF SemInit, RWInit, SyncTypeOK
      <3> QED
        BY <3>1, ShortSame
    <2> QED
      BY <2>1, <2>2
  <1>4. (\A s \in Sems : Cardinality(Within(s)) <= SemCount)'
    BY <1>2 DEF LetsIn
  <1>5. (\A s \in Sems \ destroyed :
           count[s] = SemCount - Cardinality(Within(s)) - Cardinality(Short(s)))'
    <2>1. CASE SdLock(t)
      <3>1. obj[t] \in Sems \cup Events /\ destroyed' = destroyed
        BY <2>1 DEF SdLock, Return, Go, CallsOK, SemPlaces
      <3>2. \A s \in Sems \cup Events : s # obj[t] => count'[s] = count[s]
        BY <2>1, <3>1 DEF SdLock, SyncTypeOK
      <3>3. obj[t] \in destroyed
        BY <2>1 DEF SdLock, Return, Go, DestroyedOK
      <3> QED
        BY <1>2, <1>3, <3>1, <3>2, <3>3 DEF LetsIn
    <2>2. CASE SemInit(t, o)
      <3>1. \A s \in Sems \ destroyed' : s # o => s \notin destroyed /\ count'[s] = count[s]
        BY <2>2 DEF SemInit, SyncTypeOK, Objects
      <3>2. ASSUME o \in Sems
            PROVE  count'[o] = SemCount /\ Within(o)' = {} /\ Short(o)' = {}
        <4>1. Within(o) = {} /\ Short(o) = {}
          BY <2>2, <3>2 DEF SemInit, DestroyedOK, InUse, Short
        <4> QED
          BY <1>2, <1>3, <2>2, <3>2, <4>1 DEF SemInit, SyncTypeOK, Initial
      <3>3. ASSUME o \in Sems
            PROVE  count'[o] = SemCount - Cardinality(Within(o)') - Cardinality(Short(o)')
        <4>1. Cardinality({}) = 0 /\ SemCount \in Nat
          BY FS_EmptySet
        <4> QED
          BY <3>2, <3>3, <4>1
      <3> QED
        BY <1>2, <1>3, <3>1, <3>3 DEF LetsIn
    <2>3. CASE RWInit(t, o) /\ o \in RWLocks
      <3>1. Sems \ destroyed' = Sems \ destroyed /\ count' = count
        BY <2>3 DEF RWInit
      <3> QED
        BY <1>2, <1>3, <3>1 DEF LetsIn
    <2> QED
      BY <2>1, <2>2, <2>3
  <1>6. CASE RWInit(t, o) /\ o \in RWLocks
    <2>1. Within(o)' = {}
      BY <1>2, <1>6 DEF RWInit, DestroyedOK, InUse
    <2>2. /\ readers'[o] = 0 /\ writer'[o] = None
          /\ \A p \in RWLocks \ {o} : readers'[p] = readers[p] /\ writer'[p] = writer[p]
      BY <1>6 DEF RWInit, SyncTypeOK
    <2>3. Cardinality(Within(o)') = 0
      BY <2>1, FS_EmptySet
    <2>4. (\A p \in RWLocks :
             Cardinality(Within(p)) = readers[p] + (IF writer[p] = None THEN 0 ELSE 1))'
      BY <1>2, <2>2, <2>3 DEF LetsIn
    <2>5. (\A p \in RWLocks : writer[p] # None => Within(p) = {writer[p]})'
      BY <1>2, <2>2 DEF LetsIn
    <2> QED
      BY <1>4, <1>5, <2>4, <2>5 DEF LetsIn
  <1>7. CASE UNCHANGED <<readers, writer>>
    <2>1. (\A p \in RWLocks :
             Cardinality(Within(p)) = readers[p] + (IF writer[p] = None THEN 0 ELSE 1))'
      BY <1>2, <1>7 DEF LetsIn
    <2>2. (\A p \in RWLocks : writer[p] # None => Within(p) = {writer[p]})'
      BY <1>2, <1>7 DEF LetsIn
    <2> QED
      BY <1>4, <1>5, <2>1, <2>2 DEF LetsIn
  <1>8. (RWInit(t, o) /\ o \in RWLocks) \/ UNCHANGED <<readers, writer>>
    BY DEF SdLock, SemInit, RWInit, SyncTypeOK
  <1> QED
    BY <1>6, <1>7, <1>8

\* Every other step moves a thread through a call, and nothing else.
LEMMA OtherLetsIn ==
  ASSUME SyncInv, NEW t \in Threads, SyncStep(t),
         ~ SwTake(t), ~ SsGive(t), ~ RdEnter(t), ~ WrEnter(t), ~ RuLeave(t), ~ SdLock(t),
         \A o \in Objects : ~ SemInit(t, o) /\ ~ (o \in RWLocks /\ RWInit(t, o))
  PROVE  LetsIn'
  <1> USE SyncAssumption DEF SyncInv, Call, Return, Keep, KeepCounts, Objects
  <1>1. UNCHANGED <<count, readers, writer, has>>
    BY DEF SyncStep, InSync, Calls, SwWorld, SwLock, SwUnworld, SsLock, ObjUnlock,
           RdLock, RdBusy, WrLock, WrBusy, RwWorld, RuLock, RuWorld, RuUnworld, RxLock, RxBusy,
           RxClear, SemWait, SemSignal, SemDestroy, RWLock, RWUnlock, RWDestroy
  <1>2. Sems \ destroyed' \subseteq Sems \ destroyed
    <2>1. destroyed \subseteq destroyed' \/ RxBusy(t)
      BY DEF SyncStep, InSync, Calls, SwWorld, SwLock, SwUnworld, SsLock, ObjUnlock,
             RdLock, RdBusy, WrLock, WrBusy, RwWorld, RuLock, RuWorld, RuUnworld, RxLock,
             RxClear, SemWait, SemSignal, SemDestroy, RWLock, RWUnlock, RWDestroy
    <2>2. CASE RxBusy(t)
      <3>1. obj[t] \in RWLocks /\ destroyed' = destroyed \ {obj[t]}
        BY <2>2 DEF RxBusy, Go, CallsOK, RWPlaces
      <3> QED
        BY <3>1
    <2> QED
      BY <2>1, <2>2
  <1>3. /\ obj' = [obj EXCEPT ![t] = obj'[t]]
        /\ \E a \in SemPlaces \cup RWPlaces \cup {"out", "unlock"} :
           \E b \in SemPlaces \cup RWPlaces \cup {"out", "unlock"} : Go(t, a, b)
    BY DEF SyncStep, InSync, Calls, SwWorld, SwLock, SwUnworld, SsLock, ObjUnlock,
           RdLock, RdBusy, WrLock, WrBusy, RwWorld, RuLock, RuWorld, RuUnworld, RxLock, RxBusy,
           RxClear, SemWait, SemSignal, SemDestroy, RWLock, RWUnlock, RWDestroy,
           SyncTypeOK, SemPlaces, RWPlaces
  <1>4. call[t] # "sw_self" /\ call'[t] # "sw_self"
    BY DEF SyncStep, InSync, Calls, SwWorld, SwLock, SwUnworld, SsLock, ObjUnlock,
           RdLock, RdBusy, WrLock, WrBusy, RwWorld, RuLock, RuWorld, RuUnworld, RxLock, RxBusy,
           RxClear, SemWait, SemSignal, SemDestroy, RWLock, RWUnlock, RWDestroy,
           SyncTypeOK, Go
  <1>5. \A s : Short(s)' = Short(s)
    <2>1. PICK a, b : Go(t, a, b)
      BY <1>3
    <2>2. a # "sw_self" /\ b # "sw_self"
      BY <1>4, <2>1 DEF Go, SyncTypeOK
    <2> QED
      BY <1>3, <2>1, <2>2, ShortSame
  <1> QED
    BY <1>1, <1>2, <1>5, LetsInSame

\* A step of a thread in sem.c or rwlocks.c, or one that calls it.
LEMMA StepSyncInv ==
  ASSUME SyncInv, NEW t \in Threads, SyncStep(t)
  PROVE  SyncInv'
  <1>1. SyncTypeOK' /\ CallsOK' /\ DestroyedOK'
    BY StepSyncTypeOK, StepCallsOK, StepDestroyedOK DEF SyncInv
  <1>2. LetsIn'
    <2>1. CASE SwTake(t) \/ SsGive(t)
      BY <2>1, TakeLetsIn, GiveLetsIn
    <2>2. CASE RdEnter(t) \/ WrEnter(t) \/ RuLeave(t)
      BY <2>2, RWEnterLetsIn, RWLeaveLetsIn
    <2>3. ASSUME NEW o \in Objects, SemInit(t, o) \/ (o \in RWLocks /\ RWInit(t, o))
          PROVE  LetsIn'
      BY <2>3, InitLetsIn
    <2>4. CASE SdLock(t)
      <3>1. obj[t] \in Objects
        BY <2>4 DEF SdLock, Return, Go, SyncInv, CallsOK, SemPlaces, Objects
      <3> QED
        BY <2>4, <3>1, InitLetsIn
    <2> QED
      BY <2>1, <2>2, <2>3, <2>4, OtherLetsIn
  <1> QED
    BY <1>1, <1>2 DEF SyncInv

\* Steps elsewhere in the library leave the objects alone.
LEMMA AloneSyncInv ==
  ASSUME SyncInv, UNCHANGED syncvars
  PROVE  SyncInv'
  <1> USE DEF SyncInv, syncvars
  <1>1. SyncTypeOK' /\ CallsOK'
    BY DEF SyncTypeOK, CallsOK
  <1>2. \A o : Within(o)' = Within(o)
    BY WithinSame
  <1>3. DestroyedOK'
    BY <1>2 DEF DestroyedOK
  <1>4. \A s : Short(s)' = Short(s)
    BY DEF Short
  <1>5. LetsIn'
    BY <1>4, LetsInSame
  <1> QED
    BY <1>1, <1>3, <1>5

\* A semaphore lets in no more threads than it has permits, a reader-writer
\* lock one writer or any number of readers, and their counters say so
\* (sem.c:76-83, rwlocks.c:22-48), whatever is destroyed and initialised again.
THEOREM LetsInHolds == SOSpec => []LetsIn
  <1>1. SyncInv /\ [SONext]_sovars => SyncInv'
    <2> SUFFICES ASSUME SyncInv, [SONext]_sovars PROVE SyncInv'
      OBVIOUS
    <2>1. CASE UNCHANGED sovars
      BY <2>1, AloneSyncInv DEF sovars
    <2>2. ASSUME NEW t \in Threads, SyncStep(t) PROVE SyncInv'
      BY <2>2, StepSyncInv
    <2>3. CASE UNCHANGED syncvars
      BY <2>3, AloneSyncInv
    <2> QED
      BY <2>1, <2>2, <2>3 DEF SONext, SyncStep
  <1>2. SyncInv => LetsIn
    BY DEF SyncInv
  <1> QED
    BY InitSyncInv, <1>1, <1>2, PTL DEF SOSpec

----------------------------------------------------------------------------
(* Who hangs, and why.                                                       *)

\* Where thread_lib.c spins on the world lock.
LockPlaces == {"cr_lock", "jn_lock", "ex_lock", "lk_lock"}

\* Where sem.c and rwlocks.c have the world lock.
UnderWorld == {"sw_lock", "sw_take", "sw_unworld", "sw_self", "rw_self", "ru_unworld"}

\* Who spins on the world lock in thread_lib.c has no lock, and a call of
\* sem.c or rwlocks.c has the world lock at most.
SpotsOK ==
  /\ at \in [Threads -> Places] /\ peer \in [Threads -> Threads \cup {None}]
  /\ \A t \in Threads :
       /\ at[t] \in LockPlaces => pc[t] = "run" /\ mp[t] = None
       /\ at[t] \in Creating \cup Joining => peer[t] \in Threads
       /\ call[t] # "out" =>
            /\ at[t] = "user" /\ pc[t] = "run"
            /\ mp[t] = IF call[t] \in UnderWorld THEN World ELSE None

\* A locked object has a thread in it, unless sem_destroy has left it locked.
KeptOK ==
  /\ objLocked \in [Objects -> BOOLEAN]
  /\ \A o \in Objects \ left : objLocked[o] => \E h \in Threads : Keeps(h, o)

\* All that is needed to follow a spinning thread to whom it waits for.
HangInv == CVInv /\ SyncInv /\ SpotsOK /\ KeptOK

\* A step of thread_lib.c is one of cond_var.c, or writes a new thread's state.
LEMMA BaseUsesCondVar ==
  ASSUME SpotsOK, NEW t \in Threads, TLStep(t)
  PROVE  LibStep(t) \/ ClientStep(t) \/ UNCHANGED cvvars \/ CrRegister(t)
  <1>1. CASE InLibrary(t)
    BY <1>1 DEF InLibrary
  <1>2. CASE CrLock(t) \/ JnLock(t) \/ ExLock(t) \/ LkLock(t)
    BY <1>2, CondVarAssumption DEF CrLock, JnLock, ExLock, LkLock, ClientStep
  <1>3. CASE CrFailed(t) \/ CrUnlock(t) \/ JnUnlock(t) \/ ExUnlock(t) \/ LkUnlock(t)
    BY <1>3 DEF CrFailed, CrUnlock, JnUnlock, ExUnlock, LkUnlock, ClientStep
  <1>4. CASE CrFork(t) \/ CrForkFails(t) \/ JnRefused(t) \/ JnReady(t) \/ JnReap(t) \/ ExVanish(t)
    BY <1>4 DEF CrFork, CrForkFails, JnRefused, JnReady, JnReap, ExVanish
  <1>5. CASE JnWait(t)
    <2>1. peer[t] \in Conds
      BY <1>5, ThreadLibAssumption DEF JnWait, Step, SpotsOK, Joining
    <2> QED
      BY <1>5, <2>1 DEF JnWait, ClientStep
  <1>6. CASE ExMark(t) \/ ExSignal(t)
    BY <1>6, ThreadLibAssumption DEF ExMark, ExSignal, ClientStep
  <1>7. CASE UserSync(t)
    BY <1>7 DEF UserSync, ClientStep
  <1>8. CASE ThrExit(t) \/ GetId(t) \/ \E u \in Threads : ThrCreate(t, u) \/ ThrJoin(t, u)
    BY <1>8 DEF ThrExit, GetId, ThrCreate, ThrJoin, Join
  <1> QED
    BY <1>1, <1>2, <1>3, <1>4, <1>5, <1>6, <1>7, <1>8 DEF TLStep, Inside

\* The state of a new thread is nothing that cond_var.c relies on.
LEMMA RegisterKeepsCVInv ==
  ASSUME CVInv, SpotsOK, NEW t \in Threads, CrRegister(t)
  PROVE  CVInv'
  <1>1. UNCHANGED <<locked, waiters, runFlag, pc, mp, cv, tgt, batch>>
    BY DEF CrRegister
  <1>2. peer[t] \in Threads /\ state' = [state EXCEPT ![peer[t]] = "RUNNABLE"]
    BY DEF CrRegister, Step, SpotsOK, Creating
  <1>3. TypeInv'
    BY <1>1, <1>2 DEF CVInv, TypeInv, TypeOK, ArgsOK, ThreadStates
  <1>4. LockInv'
    BY <1>1 DEF CVInv, LockInv, MutualExclusion, LockWordExact, WorldOnce, Holds
  <1>5. \A w \in Threads : InHand(w)' = InHand(w) /\ (Asleep(w)' <=> Asleep(w))
    BY <1>1 DEF InHand, Asleep
  <1>6. WaitsInOnePlace' /\ FallingOK' /\ BatchOK'
    <2>1. WaitsInOnePlace'
      BY <1>1, <1>5 DEF CVInv, SleepInv, WaitsInOnePlace
    <2> QED
      BY <1>1, <2>1 DEF CVInv, SleepInv, FallingOK, BatchOK
  <1>7. StoppedOK'
    BY <1>1, <1>5 DEF CVInv, SleepInv, StoppedOK
  <1>8. /\ \A c \in Conds : Members(waiters[c]) \subseteq Threads
        /\ \A w \in Threads : InHand(w) \subseteq Threads
    BY HandsFacts DEF CVInv, TypeInv, TypeOK, Members
  <1>9. ListedOK' /\ InHandOK'
    BY <1>1, <1>5, <1>8 DEF CVInv, SleepInv, ListedOK, InHandOK
  <1>10. StateInv'
    BY <1>1, <1>2 DEF CVInv, TypeInv, TypeOK, StateInv
  <1> QED
    BY <1>3, <1>4, <1>6, <1>7, <1>9, <1>10 DEF CVInv, SleepInv

\* Elsewhere in the library threads go on from where they are.
LEMMA BaseSpotsOK ==
  ASSUME CVInv, SpotsOK, NEW t \in Threads, UNCHANGED syncvars,
         Inside(t) \/ (call[t] = "out" /\ Client(t))
  PROVE  SpotsOK'
  <1>0. TLStep(t)
    BY DEF TLStep, Client, ThrLookUp
  <1>1. call' = call /\ TypeOK
    BY DEF syncvars, CVInv, TypeInv
  <1>2. \A u \in Threads : u # t => pc'[u] = pc[u] /\ mp'[u] = mp[u]
    <2>1. CASE LibStep(t) \/ ClientStep(t)
      BY <2>1, StepOthersKeep DEF CVInv, TypeInv
    <2>2. CASE UNCHANGED cvvars \/ CrRegister(t)
      BY <2>2 DEF cvvars, CrRegister
    <2> QED
      BY <1>0, <2>1, <2>2, BaseUsesCondVar
  \* How the place and the peer of t change, and of nobody else but a new thread.
  <1>3. CASE InLibrary(t)
    <2>1. pc[t] # "run" /\ UNCHANGED tlvars
      BY <1>3 DEF InLibrary, LibStep, CwWorld, CwWcb, CwEnq, CwUnlockMp, CwUnlockWorld, CwStop,
             CwResume, CwRelock, SgLock, SgPop, SgNone, SgCas, SgUnlock, BcLock, BcDetach, BcUnlock,
             BcPop, BcCas, BcDone, At
    <2> QED
      BY <1>1, <1>2, <2>1 DEF SpotsOK, tlvars
  <1>4. CASE CrFork(t)
    <2>1. /\ at[t] = "cr_fork" /\ UNCHANGED <<cvvars, peer>>
          /\ at' = [at EXCEPT ![t] = "cr_register", ![peer[t]] = "user"]
      BY <1>4 DEF CrFork
    <2>2. \A u \in Threads : at'[u] \in {at[u], "user"} \/ (u = t /\ at'[u] = "cr_register")
      BY <2>1 DEF SpotsOK
    <2>3. at' \in [Threads -> Places]
      BY <2>1 DEF SpotsOK, Places
    <2>4. \A u \in Threads : at'[u] \in Creating \cup Joining => peer[u] \in Threads
      BY <2>1, <2>2 DEF SpotsOK, Creating, Joining
    <2> QED
      BY <1>1, <2>1, <2>2, <2>3, <2>4 DEF SpotsOK, cvvars, LockPlaces
  <1>5. ASSUME ~ InLibrary(t), ~ CrFork(t)
        PROVE  /\ \E b \in Places : at' = [at EXCEPT ![t] = b]
               /\ \E p \in Threads \cup {None} : peer' = [peer EXCEPT ![t] = p]
               /\ call[t] = "out"
               /\ at'[t] \in LockPlaces => pc'[t] = "run" /\ mp'[t] = None
               /\ at'[t] \in Creating \cup Joining => peer'[t] \in Threads
    <2> USE DEF SpotsOK, Places, LockPlaces, Creating, Joining, Step, Enter
    <2>1. CASE CrLock(t) \/ CrForkFails(t) \/ CrFailed(t) \/ CrRegister(t) \/ CrUnlock(t)
      BY <1>1, <2>1 DEF CrLock, CrForkFails, CrFailed, CrRegister, CrUnlock
    <2>2. CASE JnLock(t) \/ JnWait(t) \/ JnReady(t) \/ JnUnlock(t)
      BY <1>1, <2>2 DEF JnLock, JnWait, JnReady, JnUnlock
    <2>3. CASE JnRefused(t) \/ JnReap(t)
      BY <1>1, <2>3 DEF JnRefused, JnReap
    <2>4. CASE ExLock(t) \/ ExMark(t) \/ ExSignal(t) \/ ExUnlock(t) \/ ExVanish(t)
      BY <1>1, <2>4 DEF ExLock, ExMark, ExSignal, ExUnlock, ExVanish
    <2>5. CASE LkLock(t) \/ LkUnlock(t)
      BY <1>1, <2>5 DEF LkLock, LkUnlock
    <2>6. CASE call[t] = "out" /\ UserSync(t)
      BY <2>6 DEF UserSync, tlvars
    <2>7. CASE call[t] = "out" /\ (ThrExit(t) \/ ThrLookUp(t))
      BY <2>7 DEF ThrExit, ThrLookUp, GetId, cvvars, At
    <2>8. CASE call[t] = "out" /\ \E u \in Threads : ThrCreate(t, u) \/ ThrJoin(t, u)
      BY <2>8 DEF ThrCreate, ThrJoin, Join, cvvars, At
    <2> QED
      BY <1>5, <2>1, <2>2, <2>3, <2>4, <2>5, <2>6, <2>7, <2>8 DEF Inside, Client
  <1>6. CASE ~ InLibrary(t) /\ ~ CrFork(t)
    <2>1. \A u \in Threads : u # t => at'[u] = at[u] /\ peer'[u] = peer[u]
      BY <1>5, <1>6 DEF SpotsOK
    <2>2. at' \in [Threads -> Places] /\ peer' \in [Threads -> Threads \cup {None}]
      BY <1>5, <1>6 DEF SpotsOK
    <2> QED
      BY <1>1, <1>2, <1>5, <1>6, <2>1, <2>2 DEF SpotsOK
  <1> QED
    BY <1>3, <1>4, <1>6

\* A step of sem.c or rwlocks.c moves one thread of user code, and takes or
\* leaves the world lock, if anything.
LEMMA SyncMoves ==
  ASSUME SyncTypeOK, NEW t \in Threads, SyncStep(t)
  PROVE  /\ UNCHANGED tlvars
         /\ call' = [call EXCEPT ![t] = call'[t]]
         /\ \/ /\ UNCHANGED vars
               /\ \/ call[t] # "out" /\ (call'[t] \in UnderWorld <=> call[t] \in UnderWorld)
                  \/ call[t] # "out" /\ call'[t] = "out" /\ call[t] \notin UnderWorld
                  \/ /\ call[t] = "out" /\ at[t] = "user" /\ mp[t] = None /\ pc[t] = "run"
                     /\ call'[t] \notin UnderWorld
            \/ Lock(t, World) /\ call[t] # "out" /\ call'[t] \in UnderWorld
            \/ Unlock(t) /\ call[t] \in UnderWorld /\ call'[t] \notin UnderWorld
  <1> USE DEF SyncTypeOK, Go, Call, Return, Keep, KeepCounts, World1, World0, vars, tlvars,
              UnderWorld, At
  <1>1. CASE SwWorld(t) \/ SwLock(t) \/ SwTake(t) \/ SwUnworld(t) \/ SsLock(t) \/ SsGive(t)
             \/ ObjUnlock(t) \/ SdLock(t)
    BY <1>1 DEF SwWorld, SwLock, SwTake, SwUnworld, SsLock, SsGive, ObjUnlock, SdLock
  <1>2. CASE RdLock(t) \/ RdEnter(t) \/ RdBusy(t) \/ WrLock(t) \/ WrEnter(t) \/ WrBusy(t)
             \/ RwWorld(t)
    BY <1>2 DEF RdLock, RdEnter, RdBusy, WrLock, WrEnter, WrBusy, RwWorld
  <1>3. CASE RuLock(t) \/ RuWorld(t) \/ RuUnworld(t) \/ RuLeave(t)
             \/ RxLock(t) \/ RxBusy(t) \/ RxClear(t)
    BY <1>3 DEF RuLock, RuWorld, RuUnworld, RuLeave, RxLock, RxBusy, RxClear
  <1>4. CASE Calls(t)
    BY <1>4 DEF Calls, SemWait, SemSignal, SemDestroy, SemInit, RWLock, RWUnlock, RWDestroy, RWInit
  <1> QED
    BY <1>1, <1>2, <1>3, <1>4 DEF SyncStep, InSync

\* The places of the others stay, and t has the world lock where it should.
LEMMA SyncSpotsOK ==
  ASSUME CVInv, SyncTypeOK, SpotsOK, NEW t \in Threads, SyncStep(t)
  PROVE  SpotsOK' /\ (UNCHANGED cvvars \/ ClientStep(t))
  <1>1. /\ mp \in [Threads -> Mutexes \cup {None}]
        /\ call \in [Threads -> SemPlaces \cup RWPlaces \cup {"out", "unlock"}]
    BY DEF CVInv, TypeInv, TypeOK, SyncTypeOK
  <1>2. UNCHANGED cvvars \/ ClientStep(t)
    BY SyncMoves, CondVarAssumption DEF ClientStep, vars
  <1>3. UNCHANGED <<at, peer, pc>>
    BY SyncMoves DEF vars, cvvars, tlvars, Lock, Unlock
  <1>4. \A u \in Threads : u # t => call'[u] = call[u] /\ mp'[u] = mp[u]
    BY <1>1, SyncMoves DEF vars, cvvars, Lock, Unlock
  <1>5. call'[t] # "out" => /\ at[t] = "user" /\ pc[t] = "run"
                            /\ mp'[t] = IF call'[t] \in UnderWorld THEN World ELSE None
    BY <1>1, SyncMoves DEF SpotsOK, vars, cvvars, Lock, Unlock, UnderWorld
  <1>6. at[t] = "user"
    BY SyncMoves DEF SpotsOK, UnderWorld
  <1> QED
    BY <1>2, <1>3, <1>4, <1>5, <1>6 DEF SpotsOK, LockPlaces

\* Who locks an object is in it until it unlocks it, or leaves it locked.
LEMMA StepKeptOK ==
  ASSUME SyncTypeOK, CallsOK, KeptOK, NEW t \in Threads, SyncStep(t)
  PROVE  KeptOK'
  <1> DEFINE In(u, o) == obj[u] = o /\ call[u] \in InObject
  <1>1. \A o \in Objects, u \in Threads : Keeps(u, o) <=> In(u, o)
    BY DEF Keeps
  <1>2. \A u \in Threads : u # t => call'[u] = call[u] /\ obj'[u] = obj[u]
    <2>1. call' = [call EXCEPT ![t] = call'[t]]
      BY SyncMoves
    <2>2. obj' = [obj EXCEPT ![t] = obj'[t]]
      BY DEF SyncTypeOK, SyncStep, InSync, Calls, SwWorld, SwLock, SwTake, SwUnworld, SsLock,
             SsGive, ObjUnlock, SdLock, RdLock, RdEnter, RdBusy, WrLock, WrEnter, WrBusy, RwWorld,
             RuLock, RuWorld, RuUnworld, RuLeave, RxLock, RxBusy, RxClear, SemWait, SemSignal,
             SemDestroy, SemInit, RWLock, RWUnlock, RWDestroy, RWInit, Call, Return, Keep
    <2> QED
      BY <2>1, <2>2 DEF SyncTypeOK
  <1> USE DEF Go, Call, Return, Keep, KeepCounts, InObject
  \* What becomes of the object of t, and of its mutex.
  <1>3. CASE SwLock(t) \/ SsLock(t) \/ RdLock(t) \/ WrLock(t) \/ RuLock(t) \/ RxLock(t)
    <2>1. /\ ~ objLocked[obj[t]] /\ objLocked' = [objLocked EXCEPT ![obj[t]] = TRUE]
          /\ obj' = obj /\ left' = left /\ call'[t] \in InObject
      BY <1>3 DEF SwLock, SsLock, RdLock, WrLock, RuLock, RxLock, LockObj, SyncTypeOK
    <2>2. call[t] \notin InObject
      BY <1>3 DEF SwLock, SsLock, RdLock, WrLock, RuLock, RxLock
    <2>3. ASSUME NEW o \in Objects \ left', objLocked'[o] PROVE \E h \in Threads : In(h, o)'
      <3>1. CASE o = obj[t]
        BY <2>1, <3>1
      <3>2. CASE o # obj[t]
        <4>1. objLocked[o]
          BY <2>1, <2>3, <3>2 DEF KeptOK
        <4>2. PICK h \in Threads : In(h, o)
          BY <1>1, <2>1, <4>1 DEF KeptOK
        <4>3. h # t
          BY <3>2, <4>2
        <4> QED
          BY <1>2, <4>2, <4>3
      <3> QED
        BY <3>1, <3>2
    <2>4. objLocked' \in [Objects -> BOOLEAN]
      BY <2>1 DEF KeptOK
    <2> QED
      BY <2>3, <2>4 DEF KeptOK, Keeps
  <1>4. CASE ObjUnlock(t) \/ RxClear(t) \/ SdLock(t)
    <2>1. /\ \/ objLocked' = [objLocked EXCEPT ![obj[t]] = FALSE] /\ left' = left
             \/ /\ objLocked' = [objLocked EXCEPT ![obj[t]] = TRUE]
                /\ left' = left \cup {obj[t]}
      BY <1>4 DEF ObjUnlock, RxClear, SdLock, LockObj, UnlockObj
    <2>2. ASSUME NEW o \in Objects \ left', objLocked'[o] PROVE \E h \in Threads : In(h, o)'
      <3>1. o # obj[t] /\ objLocked[o] /\ o \notin left
        BY <2>1, <2>2 DEF KeptOK
      <3>2. PICK h \in Threads : In(h, o)
        BY <1>1, <3>1 DEF KeptOK
      <3>3. h # t
        BY <3>1, <3>2
      <3> QED
        BY <1>2, <3>2, <3>3
    <2>3. objLocked' \in [Objects -> BOOLEAN]
      BY <2>1 DEF KeptOK
    <2> QED
      BY <2>2, <2>3 DEF KeptOK, Keeps
  <1>5. ASSUME UNCHANGED <<objLocked, left>>,
               call[t] \in InObject => call'[t] \in InObject /\ obj'[t] = obj[t]
        PROVE  KeptOK'
    BY <1>1, <1>2, <1>5 DEF KeptOK, Keeps
  <1>6. CASE \/ SwWorld(t) \/ SwTake(t) \/ SwUnworld(t) \/ SsGive(t) \/ RdEnter(t) \/ RdBusy(t)
             \/ WrEnter(t) \/ WrBusy(t) \/ RwWorld(t) \/ RuWorld(t) \/ RuUnworld(t) \/ RuLeave(t)
             \/ RxBusy(t) \/ Calls(t)
    <2>1. UNCHANGED <<objLocked, left>>
      BY <1>6 DEF Calls, SwWorld, SwTake, SwUnworld, SsGive, RdEnter, RdBusy, WrEnter, WrBusy,
                  RwWorld, RuWorld, RuUnworld, RuLeave, RxBusy, SemWait, SemSignal, SemDestroy,
                  SemInit, RWLock, RWUnlock, RWDestroy, RWInit
    <2>2. call[t] \in InObject => call'[t] \in InObject /\ obj'[t] = obj[t]
      BY <1>6 DEF Calls, SwWorld, SwTake, SwUnworld, SsGive, RdEnter, RdBusy, WrEnter, WrBusy,
                  RwWorld, RuWorld, RuUnworld, RuLeave, RxBusy, SemWait, SemSignal, SemDestroy,
                  SemInit, RWLock, RWUnlock, RWDestroy, RWInit, SyncTypeOK
    <2> QED
      BY <1>5, <2>1, <2>2
  <1> QED
    BY <1>3, <1>4, <1>6 DEF SyncStep, InSync

\* Initially nobody is in any object.
LEMMA InitHangInv == SOInit => HangInv
  <1> SUFFICES ASSUME SOInit PROVE HangInv
    OBVIOUS
  <1>1. CVInv
    BY InitCVInv DEF SOInit, TLInit
  <1>2. SyncInv
    BY InitSyncInv
  <1>3. SpotsOK
    BY DEF SOInit, TLInit, CVInit, SpotsOK, Places, LockPlaces, Creating, Joining
  <1>4. KeptOK
    BY DEF SOInit, KeptOK
  <1> QED
    BY <1>1, <1>2, <1>3, <1>4 DEF HangInv

\* Every step keeps all of it.
LEMMA StepHangInv == HangInv /\ [SONext]_sovars => HangInv'
  <1> SUFFICES ASSUME HangInv, [SONext]_sovars PROVE HangInv'
    OBVIOUS
  <1> USE DEF HangInv
  <1>1. CASE UNCHANGED sovars
    <2>1. UNCHANGED cvvars /\ UNCHANGED syncvars /\ UNCHANGED tlvars
      BY <1>1 DEF sovars, vars
    <2>2. CVInv' /\ SyncInv'
      BY <2>1, StepCVInv, AloneSyncInv
    <2>3. SpotsOK' /\ KeptOK'
      BY <2>1 DEF cvvars, tlvars, syncvars, SpotsOK, KeptOK, Keeps, Holds
    <2> QED
      BY <2>2, <2>3
  <1>2. ASSUME NEW t \in Threads, SyncStep(t) PROVE HangInv'
    <2>1. SyncTypeOK /\ CallsOK
      BY DEF SyncInv
    <2>2. SyncInv' /\ KeptOK'
      BY <1>2, <2>1, StepSyncInv, StepKeptOK
    <2>3. SpotsOK' /\ (UNCHANGED cvvars \/ ClientStep(t))
      BY <1>2, <2>1, SyncSpotsOK
    <2>4. CVInv'
      BY <2>3, StepCVInv DEF CVNext
    <2> QED
      BY <2>2, <2>3, <2>4
  <1>3. ASSUME NEW t \in Threads, Inside(t) \/ (call[t] = "out" /\ Client(t)), UNCHANGED syncvars
        PROVE  HangInv'
    <2>1. SyncInv' /\ SpotsOK'
      BY <1>3, AloneSyncInv, BaseSpotsOK
    <2>2. CVInv'
      <3>1. TLStep(t)
        BY <1>3 DEF TLStep, Client, ThrLookUp
      <3> QED
        BY <3>1, BaseUsesCondVar, RegisterKeepsCVInv, StepCVInv DEF CVNext
    <2>3. KeptOK'
      BY <1>3 DEF syncvars, KeptOK, Keeps
    <2> QED
      BY <2>1, <2>2, <2>3
  <1> QED
    BY <1>1, <1>2, <1>3 DEF SONext, SyncStep

\* Whoever has the mutex of an object goes on, has had to wait, or wants the
\* world lock, and then the object is a reader-writer lock.
LEMMA KeeperOfObject ==
  ASSUME HangInv, NEW h \in Threads, NEW o \in Objects, Keeps(h, o),
         call[h] \notin {"sw_self", "rw_self"}
  PROVE  /\ runFlag[h] = Running
         /\ \A k \in AllLocks : SpinsOn(h, k) => k = World /\ o \in RWLocks
  <1> USE DEF HangInv
  <1>1. obj[h] = o /\ call[h] \in InObject
    BY DEF Keeps
  <1>2. at[h] = "user" /\ pc[h] = "run"
    BY <1>1 DEF SpotsOK, InObject
  <1>3. runFlag[h] = Running
    BY <1>2 DEF CVInv, SleepInv, StoppedOK, Asleep, TypeInv, TypeOK
  <1>4. Wants(h) = None /\ None \notin AllLocks
    BY <1>2, SyncAssumption, CondVarAssumption DEF Wants, AllLocks, Locks
  <1>5. call[h] \notin WantsObject
    BY <1>1 DEF InObject, WantsObject
  <1>6. WantsWorld(h) => call[h] \in {"rw_world", "ru_world"}
    BY <1>1, <1>2 DEF WantsWorld, InObject
  <1>7. WantsWorld(h) => o \in RWLocks
    BY <1>1, <1>6 DEF SyncInv, CallsOK, RWPlaces
  <1> QED
    BY <1>3, <1>4, <1>5, <1>7 DEF SpinsOn

\* Whoever has a lock of cond_var.c or of its caller's goes on, has had to
\* wait, or wants one that comes later: control blocks, and the mutexes of
\* semaphores, come after the world lock, and that after the callers'.
LEMMA KeeperOfLock ==
  ASSUME HangInv, NEW h \in Threads, NEW l \in Locks, Holds(h, l),
         call[h] \notin {"sw_self", "rw_self"}
  PROVE  /\ runFlag[h] = Running
         /\ \A k \in AllLocks : SpinsOn(h, k) =>
              /\ l \notin Conds
              /\ k \in Conds \cup Sems \cup Events \/ (k = World /\ l # World)
  <1> USE CondVarAssumption DEF HangInv
  <1>1. /\ runFlag[h] = Running
        /\ l \in Conds => Wants(h) = None
        /\ l = World => Wants(h) \in Conds \cup {None}
        /\ Wants(h) \in Conds \cup {World, None}
    BY LocksInOrder
  <1>2. None \notin AllLocks
    BY SyncAssumption DEF AllLocks, Locks
  <1>3. CASE pc[h] # "run"
    <2>1. call[h] = "out" /\ at[h] \notin LockPlaces
      BY <1>3 DEF SpotsOK
    <2>2. \A k \in AllLocks : SpinsOn(h, k) => k = Wants(h)
      BY <2>1 DEF SpinsOn, WantsWorld, WantsObject, LockPlaces
    <2> QED
      BY <1>1, <1>2, <2>2
  <1>4. CASE pc[h] = "run"
    <2>1. mp[h] = l /\ l # None /\ l \in Mutexes
      BY <1>4 DEF Holds, InWcb, InWorld, Locks, CVInv, TypeInv, TypeOK
    <2>2. Wants(h) = None /\ at[h] \notin LockPlaces
      BY <1>4, <2>1 DEF Wants, SpotsOK
    <2>3. call[h] # "out" => l = World /\ call[h] \in UnderWorld
      BY <2>1 DEF SpotsOK
    <2>4. ~ WantsWorld(h)
      BY <2>2, <2>3 DEF WantsWorld, LockPlaces, UnderWorld
    <2>5. call[h] \in WantsObject => call[h] = "sw_lock"
      BY <2>3 DEF WantsObject, UnderWorld
    <2>6. call[h] = "sw_lock" => obj[h] \in Sems \cup Events
      BY DEF SyncInv, CallsOK, SemPlaces
    <2> QED
      BY <1>1, <1>2, <2>1, <2>2, <2>4, <2>5, <2>6 DEF SpinsOn
  <1> QED
    BY <1>3, <1>4

\* Only two things hang threads that create, join, look up, wait and use
\* these objects: somebody had to wait for an object, or sem_destroy has left
\* a mutex locked (sem.c:42-52, 76-87, rwlocks.c:27, cond_var.c:92-121).
THEOREM HangsForAReasonHolds == SOSpec => []HangsForAReason
  <1>1. HangInv => HangsForAReason
    <2> SUFFICES ASSUME HangInv, NEW S \in SUBSET Threads,
                        \A t \in S :
                          /\ runFlag[t] # Running \/ \E l \in AllLocks : SpinsOn(t, l)
                          /\ call[t] \notin {"sw_self", "rw_self"}
                          /\ \A l \in AllLocks : SpinsOn(t, l) =>
                               Taken(l) /\ l \notin left /\ \A h \in Threads \ S : ~ Keeps(h, l)
                 PROVE  \A t \in S : \A l \in AllLocks : ~ SpinsOn(t, l)
      BY DEF HangsForAReason
    <2> USE SyncAssumption DEF HangInv
    <2>1. ASSUME NEW t \in S, NEW o \in Objects, SpinsOn(t, o)
          PROVE  \E h \in S : Keeps(h, o)
      <3>1. objLocked[o] /\ o \notin left
        BY <2>1 DEF Taken, AllLocks
      <3> QED
        BY <2>1, <3>1 DEF KeptOK, AllLocks
    <2>2. ASSUME NEW t \in S, NEW l \in Locks, SpinsOn(t, l)
          PROVE  \E h \in S : Holds(h, l)
      <3>1. l \in AllLocks /\ l \notin Objects
        BY DEF AllLocks
      <3>2. locked[l] /\ \A h \in Threads \ S : ~ Holds(h, l)
        BY <2>2, <3>1 DEF Taken, Keeps
      <3> QED
        BY <3>2 DEF CVInv, LockInv, LockWordExact
    <2>3. ASSUME NEW t \in S, NEW l \in Conds \cup Sems \cup Events, SpinsOn(t, l)
          PROVE  FALSE
      <3>1. CASE l \in Conds
        <4>1. PICK h \in S : Holds(h, l)
          BY <2>2, <2>3, <3>1 DEF Locks
        <4> QED
          BY <3>1, <4>1, KeeperOfLock DEF Locks
      <3>2. CASE l \in Sems \cup Events
        <4>1. l \in Objects /\ l \notin RWLocks
          BY <3>2 DEF Objects
        <4>2. PICK h \in S : Keeps(h, l)
          BY <2>1, <2>3, <4>1
        <4> QED
          BY <4>1, <4>2, KeeperOfObject
      <3> QED
        BY <3>1, <3>2
    <2>4. ASSUME NEW t \in S, SpinsOn(t, World) PROVE FALSE
      <3>1. World \in Locks
        BY CondVarAssumption DEF Locks
      <3>2. PICK h \in S : Holds(h, World)
        BY <2>2, <2>4, <3>1
      <3>3. PICK k \in AllLocks : SpinsOn(h, k)
        BY <3>1, <3>2, KeeperOfLock
      <3>4. k \in Conds \cup Sems \cup Events
        BY <3>1, <3>2, <3>3, KeeperOfLock
      <3> QED
        BY <2>3, <3>3, <3>4
    <2>5. ASSUME NEW t \in S, NEW o \in RWLocks, SpinsOn(t, o) PROVE FALSE
      <3>1. PICK h \in S : Keeps(h, o) /\ o \in Objects
        BY <2>1, <2>5 DEF Objects
      <3>2. SpinsOn(h, World)
        BY <3>1, KeeperOfObject
      <3> QED
        BY <2>4, <3>2
    <2>6. ASSUME NEW t \in S, NEW l \in Locks, SpinsOn(t, l) PROVE FALSE
      <3>1. PICK h \in S : Holds(h, l)
        BY <2>2, <2>6
      <3>2. PICK k \in AllLocks : SpinsOn(h, k)
        BY <3>1, KeeperOfLock
      <3>3. k \in Conds \cup Sems \cup Events \/ k = World
        BY <3>1, <3>2, KeeperOfLock
      <3> QED
        BY <2>3, <2>4, <3>2, <3>3
    <2> QED
      BY <2>3, <2>5, <2>6 DEF AllLocks, Objects
  <1> QED
    BY <1>1, InitHangInv, StepHangInv, PTL DEF SOSpec


----------------------------------------------------------------------------
(* A group.                                                                  *)

GroupPlaces == {"user", "bt_tid", "bt_queue", "bt_signal", "bt_unlock", "bt_exit", "gone",
                "gj_look", "gj_unlock", "gj_join"}

\* The shape of the state.
GroupTypeOK ==
  /\ gp \in [Threads -> GroupPlaces] /\ group \subseteq Threads
  /\ zombie_in \in Threads \cup {None} /\ zombie_out \in Threads \cup {None}
  /\ next \in [Threads -> Threads \cup {None}]
  /\ taken \in [Threads -> Threads \cup {None}]

\* What a thread holds, and what it is doing in thread_lib.c and cond_var.c, at
\* each place in thrgrp.c.
GroupPlacesOK ==
  \A t \in Threads :
    /\ gp[t] \notin {"user", "bt_tid", "gone"} => at[t] = "user"
    /\ gp[t] \in {"bt_queue", "bt_signal", "bt_unlock", "gj_look", "gj_unlock"} <=> mp[t] = TgLock
    /\ gp[t] \in {"bt_tid", "bt_exit", "gj_join"} => mp[t] = None
    /\ gp[t] \in {"bt_tid", "bt_queue", "bt_signal", "bt_exit", "gj_unlock", "gj_join"} => pc[t] = "run"
    /\ gp[t] = "bt_unlock" => pc[t] \in {"run"} \cup Signalling
    /\ gp[t] = "gj_look" => pc[t] \in {"run", "cw_world", "cw_unlock_world"} \cup Waiting
    /\ gp[t] \in {"bt_unlock", "gj_look"} /\ pc[t] # "run" => cv[t] = TgCond
    /\ cv[t] = TgCond => gp[t] \in {"bt_unlock", "gj_look"}
    /\ gp[t] = "bt_tid" => at[t] \in {"none", "user"} /\ t \in group
    /\ t \in group /\ at[t] = "none" => gp[t] = "bt_tid"
    /\ gp[t] = "gone" => at[t] \in {"ex_lock", "ex_mark", "ex_signal", "ex_unlock", "ex_vanish", "gone"}
    /\ gp[t] \in {"bt_queue", "bt_signal", "bt_unlock", "bt_exit", "gone"} => t \in group
    /\ gp[t] \in {"gj_unlock", "gj_join"} <=> taken[t] # None

\* u has found itself on the task's list since it began.
Registered(u) == at[u] \notin {"none", "lk_lock"} /\ gp[u] # "bt_tid"

\* Threads of the group have a stack, are being created no longer once they are
\* registered, and stay on the list until they are freed.
MembersOK ==
  /\ Main \notin group /\ stack[Main] # "none"
  /\ \A t \in Threads : at[t] \in Joining => stack[peer[t]] # "none"
  /\ \A u \in freedTwice : stack[u] # "none"
  /\ \A u \in group :
       /\ stack[u] # "none"
       /\ Registered(u) =>
            /\ \A v \in Threads : at[v] \in Creating => peer[v] # u
            /\ u \in anchorThrds \/ stack[u] = "freed"

\* The links are those of the sequence s.
IsQueue(s) ==
  /\ NoRepeats(s)
  /\ zombie_out = IF s = <<>> THEN None ELSE s[1]
  /\ zombie_in = IF s = <<>> THEN None ELSE s[Len(s)]
  /\ \A i \in 1..(Len(s) - 1) : next[s[i]] = s[i + 1]

Joins(j, u) == at[j] \in Joining /\ peer[j] = u

\* Whoever has returned is on the queue Q, or was taken off it by one thread,
\* or is being joined by one, or is freed.
HandsOK(Q) ==
  /\ Q \subseteq Returned
  /\ \A u \in Returned \ Q : stack[u] = "freed" \/ \E j \in Threads : taken[j] = u \/ Joins(j, u)
  /\ \A u \in Q : stack[u] # "freed" /\ \A j \in Threads : taken[j] # u /\ ~ Joins(j, u)
  /\ \A j \in Threads : taken[j] # None =>
       /\ taken[j] \in Returned /\ stack[taken[j]] # "freed"
       /\ \A k \in Threads : ~ Joins(k, taken[j]) /\ (taken[k] = taken[j] => k = j)
  /\ \A j \in Threads : \A u \in group : Joins(j, u) =>
       u \in Returned /\ (at[j] = "jn_unlock" => stack[u] = "freed")
  /\ OnceIn(group)
  /\ group \cap (aborted \cup freedTwice) = {}

\* The threads that sleep until one returns, those that will look, and those
\* that will wake one.
Sleepers == Members(waiters[TgCond])
Lookers == {t \in Threads : gp[t] = "gj_look" /\ t \notin Sleepers}
Wakers == {t \in Threads : gp[t] = "bt_signal" \/ (gp[t] = "bt_unlock" /\ pc[t] \in {"sg_lock", "sg_pop"})}

\* Whoever goes to sleep has found the queue empty, and while somebody sleeps
\* there is a waker or a looker for each on the queue.
AwakeOK(Q) ==
  /\ \A t \in Threads : gp[t] = "gj_look" /\ pc[t] \in {"cw_world", "cw_wcb", "cw_enq"} => zombie_out = None
  /\ Sleepers # {} => Cardinality(Q) =< Cardinality(Lookers) + Cardinality(Wakers)

GroupInv ==
  /\ TLInv /\ GroupTypeOK /\ GroupPlacesOK /\ MembersOK
  /\ \E s \in Seq(Threads) : IsQueue(s) /\ HandsOK(Members(s)) /\ AwakeOK(Members(s))

----------------------------------------------------------------------------
(* Every step is one of thread_lib.c, or leaves its variables alone.         *)

TGStep(t) == GroupStep(t) \/ ((Inside(t) \/ Alone(t)) /\ UNCHANGED gvars)

\* Who has returned is on the task's list until it is freed, and nobody is
\* creating it any more.
LEMMA ReturnedOK ==
  ASSUME GroupTypeOK, GroupPlacesOK, MembersOK, NEW u \in Returned
  PROVE  /\ u \in group /\ u \in Threads /\ u # Main /\ Registered(u)
         /\ \A v \in Threads : at[v] \in Creating => peer[v] # u
         /\ u \in anchorThrds \/ stack[u] = "freed"
  <1>1. u \in group /\ u \in Threads /\ u # Main
    BY DEF Returned, GroupTypeOK, MembersOK
  <1>2. Registered(u)
    BY <1>1 DEF Returned, GroupPlacesOK, Registered
  <1> QED
    BY <1>1, <1>2 DEF MembersOK

\* A join of the group asks for one that may be joined.
LEMMA TakenMayJoin ==
  ASSUME TLInv, GroupTypeOK, GroupPlacesOK, MembersOK, NEW Q, HandsOK(Q),
         NEW t \in Threads, taken[t] # None
  PROVE  /\ taken[t] \in group /\ taken[t] # t /\ taken[t] \in anchorThrds
         /\ \A v \in Threads : peer[v] # taken[t]
         /\ MayJoin(taken[t])
  <1>1. PICK u : u = taken[t]
    OBVIOUS
  <1>2. /\ u \in Returned /\ stack[u] # "freed" /\ \A k \in Threads : ~ Joins(k, u)
    BY <1>1 DEF HandsOK
  <1>3. u \in group /\ u \in Threads /\ u \in anchorThrds
    BY <1>2, ReturnedOK
  <1>4. \A v \in Threads : peer[v] # u
    <2> SUFFICES ASSUME NEW v \in Threads, peer[v] = u PROVE FALSE
      OBVIOUS
    <2>1. at[v] \in Creating \cup Joining
      BY <1>3, CondVarAssumption DEF TLInv, PeersOK
    <2>2. at[v] \notin Creating
      BY <1>2, ReturnedOK
    <2> QED
      BY <1>2, <2>1, <2>2 DEF Joins
  <1>5. u # t
    BY <1>1, <1>2 DEF GroupPlacesOK, Returned
  <1>6. stack[u] # "none"
    BY <1>3 DEF MembersOK
  <1> QED
    BY <1>1, <1>3, <1>4, <1>5, <1>6 DEF MayJoin

\* Every step is one that threads take in ThreadLib, or one on the queue alone.
LEMMA GroupUsesThreadLib ==
  ASSUME TLInv, GroupTypeOK, GroupPlacesOK, MembersOK, NEW Q, HandsOK(Q),
         NEW t \in Threads, TGStep(t)
  PROVE  TLStep(t) \/ (UNCHANGED vars /\ (BtQueue(t) \/ GjTake(t)))
  <1>1. CASE Inside(t) \/ Alone(t)
    BY <1>1 DEF Alone, TLStep, ThrLookUp
  <1>2. CASE BtGetId(t) \/ BtExit(t) \/ \E u \in Threads : ThrgrpCreate(t, u)
    BY <1>2 DEF BtGetId, BtExit, ThrgrpCreate, TLStep
  <1>3. CASE BtLock(t) \/ GjLock(t)
    <2>1. UserSync(t)
      BY <1>3, GroupAssumption DEF BtLock, GjLock, Goes, UserSync
    <2> QED
      BY <2>1 DEF TLStep
  <1>4. CASE BtUnlock(t) \/ GjUnlock(t) \/ BtSignal(t) \/ GjWait(t)
    <2>1. UserSync(t)
      BY <1>4, GroupAssumption DEF BtUnlock, GjUnlock, BtSignal, GjWait, Goes, UserSync
    <2> QED
      BY <2>1 DEF TLStep
  <1>5. CASE BtQueue(t) \/ GjTake(t)
    BY <1>5 DEF BtQueue, GjTake
  <1>6. CASE GjJoin(t)
    <2>1. taken[t] # None
      BY <1>6 DEF GjJoin, Goes, GroupPlacesOK
    <2>2. taken[t] \in Threads /\ ThrJoin(t, taken[t])
      BY <1>6, <2>1, TakenMayJoin DEF GjJoin, ThrJoin, GroupTypeOK
    <2> QED
      BY <2>2 DEF TLStep
  <1> QED
    BY <1>1, <1>2, <1>3, <1>4, <1>5, <1>6 DEF TGStep, GroupStep

----------------------------------------------------------------------------
(* Shape and places.                                                         *)

\* The state keeps its shape.
LEMMA StepGroupTypeOK ==
  ASSUME GroupTypeOK, NEW t \in Threads, TGStep(t)
  PROVE  GroupTypeOK'
  BY DEF GroupTypeOK, GroupPlaces, TGStep, GroupStep, gvars, Goes, Queue, ThrgrpCreate, BtGetId,
     BtLock, BtQueue, BtSignal, BtUnlock, BtExit, GjLock, GjWait, GjTake, GjUnlock, GjJoin

\* What a step of t leaves alone of other threads.
LEMMA GroupOthersStay ==
  ASSUME GroupTypeOK, NEW t \in Threads, TGStep(t), NEW u \in Threads, u # t
  PROVE  /\ gp'[u] = gp[u] \/ (ThrgrpCreate(t, u) /\ gp'[u] = "bt_tid" /\ u \in group')
         /\ taken'[u] = taken[u]
         /\ u \in group' => u \in group \/ ThrgrpCreate(t, u)
         /\ group \subseteq group'
  BY DEF GroupTypeOK, TGStep, GroupStep, gvars, Goes, Queue, ThrgrpCreate, BtGetId,
     BtLock, BtQueue, BtSignal, BtUnlock, BtExit, GjLock, GjWait, GjTake, GjUnlock, GjJoin

\* A thread that calls nothing is outside of cond_var.c.
LEMMA NoTgCond ==
  ASSUME TLInv, NEW t \in Threads, pc[t] = "run"
  PROVE  cv[t] = None /\ cv[t] # TgCond
  BY CondVarAssumption, GroupAssumption DEF TLInv, PlacesOK

\* A thread that waits goes on waiting, and one that signals signalling.
LEMMA CallGoesOn ==
  ASSUME CVInv, NEW t \in Threads, LibStep(t)
  PROVE  /\ pc[t] \in {"cw_world", "cw_unlock_world"} \cup Waiting =>
              pc'[t] \in {"run", "cw_world", "cw_unlock_world"} \cup Waiting
         /\ pc[t] \in {"cw_world", "cw_unlock_world"} \cup Waiting \cup Signalling =>
              cv'[t] = cv[t] \/ pc'[t] = "run"
         /\ pc[t] \in Signalling => pc'[t] \in {"run"} \cup Signalling
         /\ cv'[t] = cv[t] \/ cv'[t] = None
  BY DEF CVInv, TypeInv, TypeOK, Waiting, Signalling, LibStep, At, Goto, Acquire,
     CwWorld, CwWcb, CwEnq, CwUnlockMp, CwUnlockWorld, CwStop, CwResume, CwRelock,
     SgLock, SgPop, SgNone, SgCas, SgUnlock,
     BcLock, BcDetach, BcUnlock, BcPop, BcCas, BcDone

\* Whose memory is not yet used is in no place of a call.
LEMMA UnusedPlace ==
  ASSUME TLInv, GroupTypeOK, GroupPlacesOK, MembersOK, NEW u \in Threads, stack[u] = "none"
  PROVE  /\ at[u] = "none" /\ u \notin group /\ gp[u] = "user" /\ taken[u] = None
         /\ mp[u] = None /\ pc[u] = "run" /\ cv[u] = None
  <1>1. at[u] = "none" /\ u \notin group
    BY DEF TLInv, BlocksOK, MembersOK
  <1>2. mp[u] = None /\ pc[u] = "run" /\ cv[u] = None
    BY <1>1, NoTgCond DEF TLInv, PlacesOK, Idle
  <1>3. gp[u] = "user"
    BY <1>1 DEF GroupPlacesOK, GroupTypeOK, GroupPlaces
  <1> QED
    BY <1>1, <1>2, <1>3 DEF GroupPlacesOK

\* Every step leaves its thread holding what its place says.
LEMMA StepGroupPlacesOK ==
  ASSUME TLInv, GroupTypeOK, GroupPlacesOK, MembersOK,
         NEW t \in Threads, TGStep(t), TLStep(t) \/ UNCHANGED vars
  PROVE  GroupPlacesOK'
  <1> USE CondVarAssumption, GroupAssumption
  <1> DEFINE Fits(u) ==
        /\ gp[u] \notin {"user", "bt_tid", "gone"} => at[u] = "user"
        /\ gp[u] \in {"bt_queue", "bt_signal", "bt_unlock", "gj_look", "gj_unlock"} <=> mp[u] = TgLock
        /\ gp[u] \in {"bt_tid", "bt_exit", "gj_join"} => mp[u] = None
        /\ gp[u] \in {"bt_tid", "bt_queue", "bt_signal", "bt_exit", "gj_unlock", "gj_join"} => pc[u] = "run"
        /\ gp[u] = "bt_unlock" => pc[u] \in {"run"} \cup Signalling
        /\ gp[u] = "gj_look" => pc[u] \in {"run", "cw_world", "cw_unlock_world"} \cup Waiting
        /\ gp[u] \in {"bt_unlock", "gj_look"} /\ pc[u] # "run" => cv[u] = TgCond
        /\ cv[u] = TgCond => gp[u] \in {"bt_unlock", "gj_look"}
        /\ gp[u] = "bt_tid" => at[u] \in {"none", "user"} /\ u \in group
        /\ u \in group /\ at[u] = "none" => gp[u] = "bt_tid"
        /\ gp[u] = "gone" => at[u] \in {"ex_lock", "ex_mark", "ex_signal", "ex_unlock", "ex_vanish", "gone"}
        /\ gp[u] \in {"bt_queue", "bt_signal", "bt_unlock", "bt_exit", "gone"} => u \in group
        /\ gp[u] \in {"gj_unlock", "gj_join"} <=> taken[u] # None
  <1>0. CVInv /\ TLTypeOK /\ PlacesOK /\ TypeOK /\ BirthOK
    BY DEF TLInv, CVInv, TypeInv
  <1>1. \A u \in Threads : Fits(u)
    BY DEF GroupPlacesOK
  <1>2. ASSUME NEW u \in Threads, u # t PROVE Fits(u)'
    <2>1. /\ pc'[u] = pc[u] /\ mp'[u] = mp[u] /\ cv'[u] = cv[u] /\ taken'[u] = taken[u]
          /\ at'[u] = at[u] \/ (at[u] = "none" /\ at'[u] = "user")
      <3>1. CASE TLStep(t)
        BY <1>0, <1>2, <3>1, OthersStay, GroupOthersStay DEF CrFork, BirthOK, Creating, TLTypeOK
      <3>2. CASE UNCHANGED vars
        BY <1>2, <3>2, GroupOthersStay DEF vars, cvvars, tlvars
      <3> QED
        BY <3>1, <3>2
    <2>2. CASE gp'[u] = gp[u] /\ (u \in group' => u \in group)
      <3>1. Fits(u) /\ group \subseteq group'
        BY <1>1, <1>2, GroupOthersStay
      <3>2. at[u] = "none" => gp[u] \in {"user", "bt_tid"}
        BY <3>1, <1>0 DEF GroupTypeOK, GroupPlaces
      <3> QED
        BY <2>1, <2>2, <3>1, <3>2
    <2>3. CASE ThrgrpCreate(t, u)
      <3>1. stack[u] = "none" /\ at'[u] = at[u] /\ gp'[u] = "bt_tid" /\ u \in group'
        BY <1>0, <1>2, <2>3 DEF ThrgrpCreate, ThrCreate, Enter, Step, GroupTypeOK, TLTypeOK
      <3>2. /\ at[u] = "none" /\ taken[u] = None
            /\ mp[u] = None /\ pc[u] = "run" /\ cv[u] = None
        BY <3>1, UnusedPlace
      <3> QED
        BY <2>1, <3>1, <3>2
    <2> QED
      BY <1>2, <2>2, <2>3, GroupOthersStay
  <1>3. Fits(t)'
    <2>0. Fits(t) /\ gp[t] \in GroupPlaces /\ (pc[t] = "run" => cv[t] = None)
      BY <1>1, NoTgCond DEF GroupTypeOK
    <2>1. CASE InLibrary(t) /\ UNCHANGED gvars
      <3>1. at' = at /\ LibStep(t) /\ UNCHANGED <<gp, group, taken>>
        BY <2>1 DEF InLibrary, tlvars, gvars
      <3>2. pc[t] # "run" /\ mp' = mp
        BY <1>0, <3>1, LibraryMoves
      <3>3. gp[t] \in {"user", "gone", "bt_unlock", "gj_look"}
        BY <2>0, <3>2 DEF GroupPlaces
      <3>4. CASE gp[t] \in {"user", "gone"}
        BY <1>0, <2>0, <3>1, <3>2, <3>4, CallGoesOn
      <3>5. CASE gp[t] = "bt_unlock"
        BY <1>0, <2>0, <3>1, <3>2, <3>5, CallGoesOn
      <3>6. CASE gp[t] = "gj_look"
        BY <1>0, <2>0, <3>1, <3>2, <3>6, CallGoesOn
      <3> QED
        BY <3>3, <3>4, <3>5, <3>6
    <2>2. CASE Inside(t) /\ ~ InLibrary(t) /\ UNCHANGED gvars
      <3>1. UNCHANGED <<gp, group, taken>>
        BY <2>2 DEF gvars
      <3>2. /\ at[t] \notin {"none", "user"} /\ at'[t] # "none"
            /\ mp'[t] \in {mp[t], World, None} /\ cv'[t] \in {cv[t]} \cup Threads
            /\ at[t] \in {"ex_lock", "ex_mark", "ex_signal", "ex_unlock", "ex_vanish"} =>
                 at'[t] \in {"ex_mark", "ex_signal", "ex_unlock", "ex_vanish", "gone"}
            /\ at[t] # "gone"
        BY <1>0, <2>2 DEF Inside, Step, CrLock, CrFork, CrForkFails, CrFailed, CrRegister,
         CrUnlock, JnLock, JnRefused, JnWait, JnReady, JnReap, JnUnlock, ExLock, ExMark,
         ExSignal, ExUnlock, ExVanish, LkLock, LkUnlock, Lock, Unlock, Complete, CondWait,
         CondSignal, cvvars, TypeOK, TLTypeOK, TLInv, PeersOK, Joining, Creating
      <3>3. gp[t] \in {"user", "gone"} /\ mp[t] # TgLock /\ cv[t] # TgCond
        BY <2>0, <3>2 DEF GroupPlaces
      <3> QED
        BY <2>0, <3>1, <3>2, <3>3
    <2>3. CASE Alone(t) /\ UNCHANGED gvars
      <3>1. UNCHANGED <<gp, group, taken>> /\ gp[t] = "user"
        BY <2>3 DEF gvars, Alone
      <3>2. mp[t] # TgLock /\ cv[t] # TgCond
        BY <2>0, <3>1
      <3>3. mp'[t] # TgLock /\ cv'[t] # TgCond /\ at'[t] # "none"
        BY <1>0, <2>3, <3>2 DEF Alone, ThrLookUp, ThrExit, GetId, UserSync, ThrCreate, ThrJoin, Join,
         Enter, Step, cvvars, tlvars, TypeOK, TLTypeOK
      <3> QED
        BY <2>0, <3>1, <3>3
    <2>4. CASE \E u \in Threads : ThrgrpCreate(t, u)
      <3>1. PICK u \in Threads : ThrgrpCreate(t, u)
        BY <2>4
      <3>2. u # t
        BY <3>1, UnusedPlace DEF ThrgrpCreate, ThrCreate, Enter, Step
      <3>3. /\ gp'[t] = "user" /\ gp[t] = "user" /\ at'[t] = "cr_lock" /\ taken' = taken
            /\ UNCHANGED cvvars
        BY <1>0, <3>1, <3>2 DEF ThrgrpCreate, ThrCreate, Enter, Step, GroupTypeOK, TLTypeOK
      <3> QED
        BY <2>0, <3>3 DEF cvvars
    <2>5. CASE BtGetId(t) \/ BtLock(t) \/ BtQueue(t) \/ BtSignal(t) \/ BtUnlock(t) \/ BtExit(t)
      BY <1>0, <2>0, <2>5 DEF BtGetId, BtLock, BtQueue, BtSignal, BtUnlock, BtExit, Goes, Queue,
         GetId, ThrExit, Enter, Step, Lock, Unlock, CondSignal, Goto, MayCall, At, vars, cvvars,
         tlvars, TypeOK, TLTypeOK, GroupTypeOK, Signalling
    <2>6. CASE GjLock(t) \/ GjWait(t) \/ GjTake(t) \/ GjUnlock(t) \/ GjJoin(t)
      BY <1>0, <2>0, <2>6 DEF GjLock, GjWait, GjTake, GjUnlock, GjJoin, Goes, Queue,
         Join, Enter, Step, Lock, Unlock, CondWait, Goto, MayCall, At, vars, cvvars,
         tlvars, TypeOK, TLTypeOK, GroupTypeOK, Waiting
    <2> QED
      BY <2>1, <2>2, <2>3, <2>4, <2>5, <2>6 DEF TGStep, GroupStep
  <1> QED
    BY <1>2, <1>3 DEF GroupPlacesOK

\* A stack that there is stays, if only as one that was freed or lost.
LEMMA StackStays ==
  ASSUME TLInv, NEW t \in Threads, TLStep(t), NEW u \in Threads
  PROVE  /\ stack[u] # "none" => stack'[u] # "none"
         /\ stack[u] = "freed" /\ (\A v \in Threads : at[v] \in Creating => peer[v] # u) =>
              stack'[u] = "freed"
  <1>1. CrFailed(t) => at[t] \in Creating
    BY DEF CrFailed, Step, Creating
  <1> QED
    BY <1>1, BlockChanges

\* Whom a thread joins, before a step and after it.
LEMMA JoinsChange ==
  ASSUME TLInv, NEW t \in Threads, TLStep(t), NEW j \in Threads, NEW u \in Threads
  PROVE  /\ Joins(j, u)' => Joins(j, u) \/ (j = t /\ ThrJoin(t, u))
         /\ Joins(j, u) => Joins(j, u)' \/ (j = t /\ at[t] = "jn_unlock")
         /\ Joins(j, u)' /\ at'[j] = "jn_unlock" =>
              Joins(j, u) /\ (at[j] = "jn_unlock" \/ (JnReap(t) /\ peer[t] = u))
  <1>0. TLTypeOK /\ PeersOK /\ BirthOK
    BY DEF TLInv
  <1>1. CASE j # t
    BY <1>0, <1>1, OthersStay DEF CrFork, BirthOK, Creating, TLTypeOK, Joining, Joins
  <1>2. CASE j = t
    BY <1>0, <1>2, LibraryMoves DEF Joins, TLTypeOK, TLStep, Inside, Step, Enter, InLibrary, UserSync, tlvars,
      CrLock, CrFork, CrForkFails, CrFailed, CrRegister, CrUnlock, JnLock, JnRefused,
      JnWait, JnReady, JnReap, JnUnlock, ExLock, ExMark, ExSignal, ExUnlock, ExVanish,
      LkLock, LkUnlock, ThrExit, GetId, ThrCreate, ThrJoin, Join, Joining
  <1> QED
    BY <1>1, <1>2

\* A thread registers itself with the world lock, which its creator had until
\* it was on the list.
LEMMA Registers ==
  ASSUME TLInv, GroupTypeOK, GroupPlacesOK, NEW t \in Threads, TLStep(t), TGStep(t),
         NEW u \in group, ~ Registered(u), Registered(u)'
  PROVE  /\ \A v \in Threads : at[v] \in Creating => peer[v] # u
         /\ u \in anchorThrds
  <1>0. TLTypeOK /\ PeersOK /\ BirthOK /\ BlocksOK /\ u \in Threads
    BY DEF TLInv, GroupTypeOK
  <1>1. gp[u] # "bt_tid" /\ at[u] = "lk_lock"
    <2>1. CASE gp[u] = "bt_tid"
      <3>1. u = t /\ BtGetId(t)
        BY <1>0, <2>1, GroupOthersStay DEF Registered, TGStep, GroupStep, gvars, Goes, ThrgrpCreate,
         GroupTypeOK, BtLock, BtQueue, BtSignal, BtUnlock, BtExit, GjLock, GjWait, GjTake, GjUnlock,
         GjJoin
      <3>2. at'[u] = "lk_lock"
        BY <1>0, <3>1 DEF BtGetId, GetId, Enter, Step, TLTypeOK
      <3> QED
        BY <3>2 DEF Registered
    <2>2. CASE at[u] = "none"
      BY <2>1, <2>2, <1>0 DEF GroupPlacesOK
    <2> QED
      BY <2>1, <2>2 DEF Registered
  <1>2. u = t /\ LkLock(t)
    <2>1. at'[u] # "lk_lock"
      BY DEF Registered
    <2>2. u = t
      BY <1>0, <1>1, <2>1, OthersStay DEF CrFork, BirthOK, Creating, TLTypeOK
    <2> QED
      BY <1>0, <1>1, <2>1, <2>2, LibraryMoves DEF TLTypeOK, TLStep, Inside, Step, Enter, InLibrary,
        UserSync, tlvars,
        CrLock, CrFork, CrForkFails, CrFailed, CrRegister, CrUnlock, JnLock, JnRefused,
        JnWait, JnReady, JnReap, JnUnlock, ExLock, ExMark, ExSignal, ExUnlock, ExVanish,
        LkUnlock, ThrExit, GetId, ThrCreate, ThrJoin, Join
  <1>3. ~ locked[World]
    BY <1>2 DEF LkLock, Lock, Acquire
  <1>4. \A v \in Threads : at[v] \in Creating => peer[v] # u
    <2> SUFFICES ASSUME NEW v \in Threads, at[v] \in Creating, peer[v] = u PROVE FALSE
      OBVIOUS
    <2>1. at[v] \in {"cr_register", "cr_unlock"}
      BY <1>0, <1>1 DEF BirthOK, Creating
    <2> QED
      BY <1>3, <2>1, OneInsideWorld DEF InsideWorld, Locked
  <1>5. u \in anchorThrds
    BY <1>0, <1>1, <1>4 DEF BlocksOK, Ended, Creating
  <1> QED
    BY <1>4, <1>5

\* A step of ThreadLib keeps the members of the group what they are.
LEMMA StepMembersOK ==
  ASSUME TLInv, GroupTypeOK, GroupPlacesOK, MembersOK, NEW t \in Threads, TLStep(t), TGStep(t)
  PROVE  MembersOK'
  <1>0. TLTypeOK /\ PeersOK /\ BirthOK /\ BlocksOK /\ Main \in Threads
    BY ThreadLibAssumption DEF TLInv
  <1>1. \A u \in group' : u \in group \/ (ThrgrpCreate(t, u) /\ u \in Threads)
    BY DEF TGStep, GroupStep, gvars, Queue, ThrgrpCreate, BtGetId,
     BtLock, BtQueue, BtSignal, BtUnlock, BtExit, GjLock, GjWait, GjTake, GjUnlock, GjJoin
  <1>2. \A u \in Threads : ThrgrpCreate(t, u) =>
          stack[u] = "none" /\ stack'[u] = "live" /\ gp'[u] = "bt_tid"
    BY <1>0 DEF ThrgrpCreate, ThrCreate, TLTypeOK, GroupTypeOK
  <1>3. Main \notin group' /\ stack'[Main] # "none"
    BY <1>0, <1>1, <1>2, StackStays DEF MembersOK
  <1>4. \A v \in Threads : at'[v] \in Joining => stack'[peer'[v]] # "none"
    <2> SUFFICES ASSUME NEW v \in Threads, at'[v] \in Joining
                 PROVE  stack'[peer'[v]] # "none"
      OBVIOUS
    <2>1. PICK u \in Threads : u = peer'[v]
      BY StepPeersOK, StepTLTypeOK DEF PeersOK, TLTypeOK
    <2>2. Joins(v, u) \/ ThrJoin(t, u)
      BY <2>1, JoinsChange DEF Joins
    <2>3. stack[u] # "none"
      <3>1. CASE Joins(v, u)
        BY <3>1 DEF Joins, MembersOK
      <3>2. CASE ThrJoin(t, u)
        BY <1>0, <3>2 DEF ThrJoin, MayJoin, BlocksOK
      <3> QED
        BY <2>2, <3>1, <3>2
    <2> QED
      BY <2>1, <2>3, StackStays
  <1>5. \A u \in freedTwice' : stack'[u] # "none"
    <2> SUFFICES ASSUME NEW u \in freedTwice' PROVE stack'[u] # "none"
      OBVIOUS
    <2>1. u \in Threads
      BY StepTLTypeOK DEF TLTypeOK
    <2>2. u \in freedTwice \/ (JnReap(t) /\ stack[u] = "freed")
      BY <2>1 DEF TLStep, Inside, InLibrary, UserSync, tlvars,
       CrLock, CrFork, CrForkFails, CrFailed, CrRegister, CrUnlock, JnLock, JnRefused,
       JnWait, JnReady, JnReap, JnUnlock, ExLock, ExMark, ExSignal, ExUnlock, ExVanish,
       LkLock, LkUnlock, ThrExit, GetId, ThrCreate, ThrJoin, Join
    <2> QED
      BY <2>1, <2>2, StackStays DEF MembersOK
  <1>6. ASSUME NEW u \in group' PROVE stack'[u] # "none"
    BY <1>1, <1>2, StackStays DEF MembersOK, GroupTypeOK
  <1>7. ASSUME NEW u \in group', Registered(u)'
        PROVE  /\ \A v \in Threads : at'[v] \in Creating => peer'[v] # u
               /\ u \in anchorThrds' \/ stack'[u] = "freed"
    <2>1. u \in group /\ u \in Threads /\ u # Main
      BY <1>1, <1>2, <1>7 DEF Registered, GroupTypeOK, MembersOK
    <2>2. /\ \A v \in Threads : at[v] \in Creating => peer[v] # u
          /\ u \in anchorThrds \/ stack[u] = "freed"
      BY <1>7, <2>1, Registers DEF MembersOK
    <2>3. stack[u] # "none"
      BY <2>1 DEF MembersOK
    <2>4. \A v \in Threads : at'[v] \in Creating => peer'[v] # u
      <3> SUFFICES ASSUME NEW v \in Threads, at'[v] \in Creating, peer'[v] = u PROVE FALSE
        OBVIOUS
      <3>1. CASE v # t
        BY <1>0, <2>2, <3>1, OthersStay DEF CrFork, BirthOK, Creating, TLTypeOK
      <3>2. CASE v = t
        <4>1. ThrCreate(t, u)
          BY <1>0, <2>2, <3>2, LibraryMoves DEF TLTypeOK, TLStep, Inside, Step, Enter, InLibrary, UserSync,
           tlvars, CrLock, CrFork, CrForkFails, CrFailed, CrRegister, CrUnlock, JnLock, JnRefused,
           JnWait, JnReady, JnReap, JnUnlock, ExLock, ExMark, ExSignal, ExUnlock, ExVanish,
           LkLock, LkUnlock, ThrExit, GetId, ThrCreate, ThrJoin, Join, Creating
        <4> QED
          BY <2>3, <4>1 DEF ThrCreate
      <3> QED
        BY <3>1, <3>2
    <2>5. u \in anchorThrds' \/ stack'[u] = "freed"
      <3>1. CASE stack[u] = "freed"
        BY <2>1, <2>2, <3>1, StackStays
      <3>2. CASE u \in anchorThrds
        <4>1. JnReap(t) /\ u = peer[t] => stack'[u] = "freed"
          BY <1>0, <2>1 DEF JnReap, TLTypeOK
        <4> QED
          BY <2>1, <3>2, <4>1, BlockChanges
      <3> QED
        BY <2>2, <3>1, <3>2
    <2> QED
      BY <2>4, <2>5
  <1> QED
    BY <1>3, <1>4, <1>5, <1>6, <1>7 DEF MembersOK, Registered

----------------------------------------------------------------------------
(* Who has returned.                                                         *)

\* Whom the group's threads are joined by, when they are on nobody's way.
LEMMA HandsStay ==
  ASSUME TLInv, GroupTypeOK, GroupPlacesOK, MembersOK, NEW Q, HandsOK(Q),
         NEW t \in Threads, TLStep(t), \A u \in group : ~ ThrJoin(t, u),
         taken' = taken, group' = group, Returned' = Returned
  PROVE  HandsOK(Q)'
  <1>0. TLTypeOK /\ group \in SUBSET Threads
    BY DEF TLInv, GroupTypeOK
  <1>1. \A u \in Returned : stack[u] = "freed" => stack'[u] = "freed"
    BY ReturnedOK, StackStays
  <1>2. ASSUME NEW u \in Returned, stack[u] # "freed", \A k \in Threads : ~ Joins(k, u)
        PROVE  stack'[u] # "freed" /\ \A k \in Threads : ~ Joins(k, u)'
    <2>1. u \in Threads /\ u \in group
      BY ReturnedOK
    <2>2. ~ (JnReap(t) /\ u = peer[t])
      BY <1>2 DEF JnReap, Joins, Joining
    <2> QED
      BY <1>2, <2>1, <2>2, BlockChanges, JoinsChange
  <1>3. \A u \in Returned \ Q : stack'[u] = "freed" \/ \E j \in Threads : taken[j] = u \/ Joins(j, u)'
    <2> SUFFICES ASSUME NEW u \in Returned \ Q, stack'[u] # "freed"
                 PROVE  \E j \in Threads : taken[j] = u \/ Joins(j, u)'
      OBVIOUS
    <2>1. u \in Threads /\ u \in group
      BY ReturnedOK
    <2>2. PICK j \in Threads : taken[j] = u \/ Joins(j, u)
      BY <1>1 DEF HandsOK
    <2>3. Joins(j, u) => at[j] # "jn_unlock"
      BY <1>1, <2>1 DEF HandsOK
    <2> QED
      BY <2>1, <2>2, <2>3, JoinsChange
  <1>4. \A u \in Q : stack'[u] # "freed" /\ \A j \in Threads : taken[j] # u /\ ~ Joins(j, u)'
    <2> SUFFICES ASSUME NEW u \in Q
                 PROVE  stack'[u] # "freed" /\ \A j \in Threads : taken[j] # u /\ ~ Joins(j, u)'
      OBVIOUS
    <2>1. /\ u \in Returned /\ stack[u] # "freed"
          /\ \A j \in Threads : taken[j] # u /\ ~ Joins(j, u)
      BY DEF HandsOK
    <2> QED
      BY <1>2, <2>1
  <1>5. \A j \in Threads : taken[j] # None =>
          /\ taken[j] \in Returned /\ stack'[taken[j]] # "freed"
          /\ \A k \in Threads : ~ Joins(k, taken[j])' /\ (taken[k] = taken[j] => k = j)
    <2> SUFFICES ASSUME NEW j \in Threads, NEW u, u = taken[j], u # None
                 PROVE  /\ u \in Returned /\ stack'[u] # "freed"
                        /\ \A k \in Threads : ~ Joins(k, u)' /\ (taken[k] = u => k = j)
      BY DEF Joins
    <2>1. /\ u \in Returned /\ stack[u] # "freed"
          /\ \A k \in Threads : ~ Joins(k, u) /\ (taken[k] = u => k = j)
      BY DEF HandsOK
    <2> QED
      BY <1>2, <2>1
  <1>6. \A j \in Threads : \A u \in group : Joins(j, u)' =>
          u \in Returned /\ (at'[j] = "jn_unlock" => stack'[u] = "freed")
    <2> SUFFICES ASSUME NEW j \in Threads, NEW u \in group, Joins(j, u)'
                 PROVE  u \in Returned /\ (at'[j] = "jn_unlock" => stack'[u] = "freed")
      OBVIOUS
    <2>1. Joins(j, u) /\ u \in Threads
      BY <1>0, JoinsChange
    <2>2. u \in Returned /\ (at[j] = "jn_unlock" => stack[u] = "freed")
      BY <2>1 DEF HandsOK
    <2>3. JnReap(t) /\ peer[t] = u => stack'[u] = "freed"
      BY <1>0, <2>2, ReturnedOK DEF JnReap, TLTypeOK
    <2> QED
      BY <1>1, <2>1, <2>2, <2>3, JoinsChange
  <1>7. OnceIn(group)' /\ group \cap (aborted' \cup freedTwice') = {}
    <2>1. PICK S \in SUBSET Threads : S = group
      BY <1>0
    <2>2. OnceIn(S) /\ S \cap (aborted \cup freedTwice) = {}
      BY <2>1 DEF HandsOK
    <2>3. OnceIn(S)' /\ S \cap (aborted' \cup freedTwice') = {}
      BY <2>1, <2>2, StepOnceIn, NoneFails
    <2> QED
      BY <2>1, <2>3 DEF OnceIn
  <1> QED
    BY <1>3, <1>4, <1>5, <1>6, <1>7 DEF HandsOK, Joins

\* A thread that has not begun has returned from nothing.
LEMMA HandsCreate ==
  ASSUME TLInv, GroupTypeOK, GroupPlacesOK, MembersOK, NEW Q, HandsOK(Q),
         NEW t \in Threads, NEW x \in Threads, ThrgrpCreate(t, x)
  PROVE  HandsOK(Q)' /\ Returned' = Returned
  <1>0. TLTypeOK /\ TypeOK
    BY DEF TLInv, CVInv, TypeInv
  <1>1. /\ at[t] = "user" /\ at' = [at EXCEPT ![t] = "cr_lock"] /\ peer' = [peer EXCEPT ![t] = x]
        /\ stack[x] = "none" /\ stack' = [stack EXCEPT ![x] = "live"]
        /\ group' = group \cup {x} /\ gp' = [gp EXCEPT ![x] = "bt_tid"]
        /\ aborted = {} /\ UNCHANGED <<taken, anchorThrds, aborted, freedTwice>>
    BY DEF ThrgrpCreate, ThrCreate, Enter, Step
  <1>2. at[x] = "none" /\ x \notin group /\ x # t
    BY <1>1, UnusedPlace
  <1>3. Returned' = Returned
    BY <1>1, <1>2 DEF Returned, GroupTypeOK
  <1>4. \A j \in Threads, u \in Threads : Joins(j, u)' <=> Joins(j, u)
    BY <1>0, <1>1 DEF Joins, Joining, TLTypeOK
  <1>5. \A u \in Returned : u \in Threads /\ u # x /\ stack'[u] = stack[u]
    BY <1>0, <1>1, <1>2, ReturnedOK DEF TLTypeOK
  <1>6. \A j \in Threads : ~ Joins(j, x)
    BY <1>1 DEF MembersOK, Joins
  <1>7. OnceIn(group)'
    <2> SUFFICES ASSUME NEW j \in Threads, at'[j] \in Joining, peer'[j] \in group \cup {x}
                 PROVE  /\ \A v \in Threads : at'[v] \in Joining /\ peer'[v] = peer'[j] => v = j
                        /\ at'[j] # "jn_unlock" => peer'[j] \in anchorThrds'
      BY <1>1 DEF OnceIn
    <2>1. \A v \in Threads : at'[v] \in Joining => v # t /\ at'[v] = at[v] /\ peer'[v] = peer[v]
      BY <1>0, <1>1 DEF Joining, TLTypeOK
    <2>2. peer[j] \in group
      BY <1>6, <2>1 DEF Joins
    <2> QED
      BY <1>1, <2>1, <2>2 DEF HandsOK, OnceIn
  <1>8. group' \cap (aborted' \cup freedTwice') = {}
    BY <1>1 DEF HandsOK, MembersOK
  <1>9. \A j \in Threads : \A u \in group' : Joins(j, u)' =>
          u \in Returned /\ (at'[j] = "jn_unlock" => stack'[u] = "freed")
    <2> SUFFICES ASSUME NEW j \in Threads, NEW u \in group', Joins(j, u)'
                 PROVE  u \in Returned /\ (at'[j] = "jn_unlock" => stack'[u] = "freed")
      OBVIOUS
    <2>1. u \in Threads /\ Joins(j, u) /\ u \in group
      BY <1>1, <1>4, <1>6 DEF GroupTypeOK
    <2>2. at'[j] = at[j]
      BY <1>0, <1>1, <2>1 DEF Joins, Joining, TLTypeOK
    <2> QED
      BY <1>5, <2>1, <2>2 DEF HandsOK
  <1>10. Q \subseteq Returned /\ Q \subseteq Threads
    BY <1>5 DEF HandsOK
  <1>11. \A j \in Threads : taken[j] # None =>
           /\ taken[j] \in Returned /\ stack'[taken[j]] # "freed"
           /\ \A k \in Threads : ~ Joins(k, taken[j])' /\ (taken[k] = taken[j] => k = j)
    <2> SUFFICES ASSUME NEW j \in Threads, NEW u, u = taken[j], u # None
                 PROVE  /\ u \in Returned /\ stack'[u] # "freed"
                        /\ \A k \in Threads : ~ Joins(k, u)' /\ (taken[k] = u => k = j)
      BY <1>1 DEF Joins
    <2>1. /\ u \in Returned /\ stack[u] # "freed"
          /\ \A k \in Threads : ~ Joins(k, u) /\ (taken[k] = u => k = j)
      BY DEF HandsOK
    <2> QED
      BY <1>4, <1>5, <2>1
  <1>12. \A u \in Q : stack'[u] # "freed" /\ \A j \in Threads : taken[j] # u /\ ~ Joins(j, u)'
    BY <1>4, <1>5, <1>10 DEF HandsOK
  <1>13. \A u \in Returned \ Q : stack'[u] = "freed" \/ \E j \in Threads : taken[j] = u \/ Joins(j, u)'
    BY <1>4, <1>5 DEF HandsOK
  <1> QED
    BY <1>1, <1>3, <1>7, <1>8, <1>9, <1>10, <1>11, <1>12, <1>13 DEF HandsOK, Joins, OnceIn

\* A thread that queues itself is on the queue, and nowhere else.
LEMMA HandsQueue ==
  ASSUME TLInv, GroupTypeOK, GroupPlacesOK, MembersOK, NEW Q, HandsOK(Q),
         NEW t \in Threads, BtQueue(t)
  PROVE  HandsOK(Q \cup {t})' /\ t \notin Q /\ t \notin Returned
  <1>1. /\ gp[t] = "bt_queue" /\ gp' = [gp EXCEPT ![t] = "bt_signal"] /\ at[t] = "user"
        /\ UNCHANGED <<at, peer, stack, anchorThrds, aborted, freedTwice, taken, group>>
    BY DEF BtQueue, Goes, vars, tlvars
  <1>2. t \in group /\ t \notin Returned /\ Returned' = Returned \cup {t}
    BY <1>1 DEF GroupPlacesOK, Returned, GroupTypeOK
  <1>3. stack[t] # "freed"
    BY <1>1 DEF TLInv, BlocksOK, Ended
  <1>4. \A j \in Threads : taken[j] # t /\ ~ Joins(j, t)
    BY <1>2, CondVarAssumption DEF HandsOK
  <1>5. OnceIn(group)'
    BY <1>1 DEF HandsOK, OnceIn
  <1>6. \A j, u \in Threads : Joins(j, u)' <=> Joins(j, u)
    BY <1>1 DEF Joins
  <1> QED
    BY <1>1, <1>2, <1>3, <1>4, <1>5 DEF HandsOK, Joins

\* A join takes a thread off the queue into its own hands.
LEMMA HandsTake ==
  ASSUME TLInv, GroupTypeOK, GroupPlacesOK, MembersOK, NEW Q, HandsOK(Q),
         NEW t \in Threads, GjTake(t), NEW x \in Q, x = zombie_out
  PROVE  HandsOK(Q \ {x})' /\ Returned' = Returned
  <1>1. /\ gp[t] = "gj_look" /\ gp' = [gp EXCEPT ![t] = "gj_unlock"]
        /\ taken' = [taken EXCEPT ![t] = x] /\ x # None
        /\ UNCHANGED <<at, peer, stack, anchorThrds, aborted, freedTwice, group>>
    BY DEF GjTake, Goes, vars, tlvars
  <1>2. Returned' = Returned
    BY <1>1 DEF Returned, GroupTypeOK
  <1>3. taken[t] = None
    BY <1>1 DEF GroupPlacesOK
  <1>4. /\ x \in Returned /\ stack[x] # "freed"
        /\ \A j \in Threads : taken[j] # x /\ ~ Joins(j, x)
    BY DEF HandsOK
  <1>5. \A j \in Threads : taken'[j] = IF j = t THEN x ELSE taken[j]
    BY <1>1 DEF GroupTypeOK
  <1>6. OnceIn(group)' /\ group \cap (aborted' \cup freedTwice') = {}
    BY <1>1 DEF HandsOK, OnceIn
  <1>7. Q \ {x} \subseteq Returned
    BY DEF HandsOK
  <1>8. \A u \in Returned \ (Q \ {x}) :
          stack[u] = "freed" \/ \E j \in Threads : taken'[j] = u \/ Joins(j, u)
    <2> SUFFICES ASSUME NEW u \in Returned \ (Q \ {x}), stack[u] # "freed"
                 PROVE  \E j \in Threads : taken'[j] = u \/ Joins(j, u)
      OBVIOUS
    <2>1. CASE u = x
      BY <1>5, <2>1
    <2>2. CASE u # x
      <3>1. PICK j \in Threads : taken[j] = u \/ Joins(j, u)
        BY <2>2 DEF HandsOK
      <3>2. taken[j] = u => j # t
        BY <1>3, CondVarAssumption, ReturnedOK
      <3> QED
        BY <1>5, <3>1, <3>2
    <2> QED
      BY <2>1, <2>2
  <1>9. \A u \in Q \ {x} : stack[u] # "freed" /\ \A j \in Threads : taken'[j] # u /\ ~ Joins(j, u)
    BY <1>5 DEF HandsOK
  <1>10. \A j \in Threads : taken'[j] # None =>
           /\ taken'[j] \in Returned /\ stack[taken'[j]] # "freed"
           /\ \A k \in Threads : ~ Joins(k, taken'[j]) /\ (taken'[k] = taken'[j] => k = j)
    <2> SUFFICES ASSUME NEW j \in Threads, NEW u, u = taken'[j], u # None
                 PROVE  /\ u \in Returned /\ stack[u] # "freed"
                        /\ \A k \in Threads : ~ Joins(k, u) /\ (taken'[k] = u => k = j)
      OBVIOUS
    <2>1. CASE j = t
      BY <1>4, <1>5, <2>1
    <2>2. CASE j # t
      <3>1. /\ u = taken[j] /\ u \in Returned /\ stack[u] # "freed"
            /\ \A k \in Threads : ~ Joins(k, u) /\ (taken[k] = u => k = j)
        BY <1>5, <2>2 DEF HandsOK
      <3> QED
        BY <1>4, <1>5, <3>1
    <2> QED
      BY <2>1, <2>2
  <1>11. \A j \in Threads : \A u \in group : Joins(j, u) =>
           u \in Returned /\ (at[j] = "jn_unlock" => stack[u] = "freed")
    BY DEF HandsOK
  <1>12. HandsOK(Q \ {x})'
    BY <1>1, <1>2, <1>6, <1>7, <1>8, <1>9, <1>10, <1>11 DEF HandsOK, Joins
  <1> QED
    BY <1>2, <1>12

\* A join gives what it has in its hands to thr_join.
LEMMA HandsJoin ==
  ASSUME TLInv, GroupTypeOK, GroupPlacesOK, MembersOK, NEW Q, HandsOK(Q),
         NEW t \in Threads, GjJoin(t)
  PROVE  HandsOK(Q)' /\ Returned' = Returned
  <1>0. TLTypeOK /\ PeersOK /\ group \in SUBSET Threads
    BY DEF TLInv, GroupTypeOK
  <1>1. PICK x : x = taken[t]
    OBVIOUS
  <1>2. /\ gp[t] = "gj_join" /\ gp' = [gp EXCEPT ![t] = "user"]
        /\ at[t] = "user" /\ at' = [at EXCEPT ![t] = "jn_lock"] /\ peer' = [peer EXCEPT ![t] = x]
        /\ taken' = [taken EXCEPT ![t] = None]
        /\ UNCHANGED <<stack, anchorThrds, aborted, freedTwice, group>>
    BY <1>1 DEF GjJoin, Goes, Join, Enter, Step
  <1>3. x # None
    BY <1>1, <1>2 DEF GroupPlacesOK
  <1>4. Returned' = Returned
    BY <1>2 DEF Returned, GroupTypeOK
  <1>5. /\ x \in group /\ x # t /\ x \in anchorThrds /\ MayJoin(x)
        /\ \A v \in Threads : peer[v] # x
    BY <1>1, <1>3, TakenMayJoin
  <1>6. /\ x \in Threads /\ x \in Returned /\ stack[x] # "freed"
        /\ \A k \in Threads : ~ Joins(k, x) /\ (taken[k] = x => k = t)
    BY <1>1, <1>3, ReturnedOK DEF HandsOK
  <1>7. /\ \A j \in Threads : taken'[j] = IF j = t THEN None ELSE taken[j]
        /\ \A j, u \in Threads : Joins(j, u)' <=> Joins(j, u) \/ (j = t /\ u = x)
        /\ \A j, u \in Threads : Joins(j, u)' /\ at'[j] = "jn_unlock" => Joins(j, u) /\ at[j] = "jn_unlock"
    BY <1>0, <1>2 DEF Joins, Joining, TLTypeOK, GroupTypeOK
  <1>8. OnceIn(group)' /\ group \cap (aborted' \cup freedTwice') = {}
    <2>1. PICK S \in SUBSET Threads : S = group
      BY <1>0
    <2>2. OnceIn(S) /\ S \cap (aborted \cup freedTwice) = {}
      BY <2>1 DEF HandsOK
    <2>3. ThrJoin(t, x) /\ TLStep(t)
      BY <1>1, <1>5, <1>6 DEF GjJoin, ThrJoin, TLStep
    <2>4. \A u \in S : ThrJoin(t, u) => u = x
      BY <1>0, <1>2 DEF ThrJoin, Join, TLTypeOK
    <2>5. OnceIn(S)'
      BY <1>5, <2>2, <2>3, <2>4, StepOnceIn
    <2> QED
      BY <1>2, <2>1, <2>2, <2>5 DEF OnceIn
  <1>9. Q \subseteq Returned /\ \A u \in Returned : u \in Threads
    BY ReturnedOK DEF HandsOK
  <1>10. \A u \in Returned \ Q : stack[u] = "freed" \/ \E j \in Threads : taken'[j] = u \/ Joins(j, u)'
    <2> SUFFICES ASSUME NEW u \in Returned \ Q, stack[u] # "freed"
                 PROVE  \E j \in Threads : taken'[j] = u \/ Joins(j, u)'
      OBVIOUS
    <2>1. PICK j \in Threads : taken[j] = u \/ Joins(j, u)
      BY DEF HandsOK
    <2>2. u = x \/ Joins(j, u) \/ (taken[j] = u /\ j # t)
      BY <1>1, <2>1
    <2> QED
      BY <1>6, <1>7, <1>9, <2>2
  <1>11. \A u \in Q : stack[u] # "freed" /\ \A j \in Threads : taken'[j] # u /\ ~ Joins(j, u)'
    <2> SUFFICES ASSUME NEW u \in Q, NEW j \in Threads
                 PROVE  stack[u] # "freed" /\ taken'[j] # u /\ ~ Joins(j, u)'
      BY DEF HandsOK
    <2>1. stack[u] # "freed" /\ taken[j] # u /\ ~ Joins(j, u) /\ u # x /\ u \in Threads
      BY <1>1, <1>9 DEF HandsOK
    <2>2. u # None
      BY <2>1, CondVarAssumption
    <2> QED
      BY <1>7, <2>1, <2>2
  <1>12. \A j \in Threads : taken'[j] # None =>
           /\ taken'[j] \in Returned /\ stack[taken'[j]] # "freed"
           /\ \A k \in Threads : ~ Joins(k, taken[j])' /\ (taken'[k] = taken'[j] => k = j)
    <2> SUFFICES ASSUME NEW j \in Threads, NEW u, u = taken'[j], u # None
                 PROVE  /\ u \in Returned /\ stack[u] # "freed"
                        /\ \A k \in Threads : ~ Joins(k, u)' /\ (taken'[k] = u => k = j)
      BY DEF Joins
    <2>1. j # t /\ u = taken[j]
      BY <1>7
    <2>2. /\ u \in Returned /\ stack[u] # "freed"
          /\ \A k \in Threads : ~ Joins(k, u) /\ (taken[k] = u => k = j)
      BY <2>1 DEF HandsOK
    <2>3. u # x
      BY <1>6, <2>1
    <2> QED
      BY <1>7, <1>9, <2>2, <2>3
  <1>13. \A j \in Threads : \A u \in group : Joins(j, u)' =>
           u \in Returned /\ (at'[j] = "jn_unlock" => stack[u] = "freed")
    BY <1>0, <1>6, <1>7 DEF HandsOK
  <1> QED
    BY <1>2, <1>4, <1>8, <1>9, <1>10, <1>11, <1>12, <1>13 DEF HandsOK, Joins

\* The other steps of the group leave alone who has returned.
LEMMA SameReturned ==
  ASSUME TLInv, GroupTypeOK, GroupPlacesOK, NEW t \in Threads, TGStep(t), TLStep(t),
         ~ BtQueue(t), ~ GjTake(t), ~ GjJoin(t), ~ \E u \in Threads : ThrgrpCreate(t, u)
  PROVE  /\ Returned' = Returned /\ taken' = taken /\ group' = group
         /\ UNCHANGED <<zombie_in, zombie_out>>
         /\ \A u \in group : ~ ThrJoin(t, u)
         /\ \A u \in Threads : next'[u] = next[u] \/ u \notin Returned
  <1>0. TLTypeOK /\ TypeOK
    BY DEF TLInv, CVInv, TypeInv
  <1>1. CASE (Inside(t) \/ Alone(t)) /\ UNCHANGED gvars
    <2>1. Returned' = Returned
      BY <1>1 DEF gvars, Returned
    <2>2. \A u \in group : ~ ThrJoin(t, u)
      <3> SUFFICES ASSUME NEW u \in group, ThrJoin(t, u) PROVE FALSE
        OBVIOUS
      <3>1. /\ at[t] = "user" /\ at'[t] = "jn_lock" /\ pc[t] = "run"
            /\ peer'[t] = u /\ u \in Threads
        BY <1>0 DEF ThrJoin, Join, Enter, Step, At, TLTypeOK, GroupTypeOK
      <3>2. ~ Inside(t)
        BY <1>0, <3>1, LibraryMoves DEF TLInv, Inside, InLibrary, Step,
         CrLock, CrFork, CrForkFails, CrFailed, CrRegister, CrUnlock, JnLock, JnRefused,
         JnWait, JnReady, JnReap, JnUnlock, ExLock, ExMark, ExSignal, ExUnlock, ExVanish,
         LkLock, LkUnlock
      <3>3. ~ Alone(t)
        BY <1>0, <3>1 DEF Alone, ThrExit, ThrLookUp, GetId, UserSync, tlvars, ThrCreate, ThrJoin, Join,
         Enter, Step, TLTypeOK
      <3> QED
        BY <1>1, <3>2, <3>3
    <2> QED
      BY <1>1, <2>1, <2>2 DEF gvars
  <1>2. CASE BtGetId(t) \/ BtLock(t) \/ BtSignal(t) \/ BtUnlock(t) \/ BtExit(t)
             \/ GjLock(t) \/ GjWait(t) \/ GjUnlock(t)
    <2>1. /\ taken' = taken /\ group' = group /\ UNCHANGED <<zombie_in, zombie_out>>
          /\ \A u \in Threads : next'[u] = next[u] \/ (u = t /\ gp[t] = "bt_tid")
      BY <1>2 DEF BtGetId, BtLock, BtSignal, BtUnlock, BtExit, GjLock, GjWait, GjUnlock, Queue,
         Goes, GroupTypeOK
    <2>2. /\ \A u \in Threads \ {t} : gp'[u] = gp[u]
          /\ gp[t] \in {"bt_signal", "bt_unlock", "bt_exit", "gone"} <=>
               gp'[t] \in {"bt_signal", "bt_unlock", "bt_exit", "gone"}
      BY <1>2 DEF BtGetId, BtLock, BtSignal, BtUnlock, BtExit, GjLock, GjWait, GjUnlock,
         Goes, GroupTypeOK
    <2>3. Returned' = Returned
      BY <2>1, <2>2 DEF Returned, GroupTypeOK
    <2>4. peer' = peer /\ at'[t] # "jn_lock"
      BY <1>0, <1>2 DEF BtGetId, BtLock, BtSignal, BtUnlock, BtExit, GjLock, GjWait, GjUnlock,
         Goes, GetId, ThrExit, Enter, Step, tlvars, TLTypeOK
    <2>5. \A u \in group : ~ ThrJoin(t, u)
      BY <1>0, <2>4 DEF ThrJoin, Join, Enter, Step, TLTypeOK
    <2> QED
      BY <2>1, <2>3, <2>5 DEF Returned
  <1> QED
    BY <1>1, <1>2 DEF TGStep, GroupStep

----------------------------------------------------------------------------
(* The queue.                                                                *)

\* The first and the last of the queue are its ends, or it is empty.
LEMMA QueueEnds ==
  ASSUME NEW s \in Seq(Threads), IsQueue(s)
  PROVE  /\ zombie_out = None <=> s = <<>>
         /\ zombie_in = None <=> s = <<>>
         /\ s # <<>> => /\ zombie_out = s[1] /\ zombie_in = s[Len(s)] /\ Len(s) > 0
                        /\ zombie_out \in Members(s) /\ zombie_in \in Members(s)
         /\ Members(s) \subseteq Threads
  <1>1. Len(s) \in Nat /\ DOMAIN s = 1..Len(s) /\ \A i \in 1..Len(s) : s[i] \in Threads
    OBVIOUS
  <1>2. Members(s) \subseteq Threads
    BY <1>1 DEF Members
  <1>3. s # <<>> => Len(s) > 0 /\ 1 \in 1..Len(s) /\ Len(s) \in 1..Len(s)
    BY <1>1
  <1>4. s # <<>> => /\ s[1] \in Members(s) /\ s[Len(s)] \in Members(s)
                    /\ s[1] # None /\ s[Len(s)] # None
    BY <1>1, <1>3, CondVarAssumption DEF Members
  <1> QED
    BY <1>2, <1>3, <1>4 DEF IsQueue

\* A thread links itself behind the last.
LEMMA QueueAppend ==
  ASSUME GroupTypeOK, NEW s \in Seq(Threads), IsQueue(s),
         NEW t \in Threads, BtQueue(t), t \notin Members(s)
  PROVE  /\ IsQueue(Append(s, t))' /\ Append(s, t) \in Seq(Threads)
         /\ Members(Append(s, t)) = Members(s) \cup {t}
  <1> DEFINE q == Append(s, t)
  <1>1. /\ Len(s) \in Nat /\ DOMAIN s = 1..Len(s) /\ \A i \in 1..Len(s) : s[i] \in Threads
        /\ q \in Seq(Threads) /\ q # <<>> /\ Len(q) = Len(s) + 1
        /\ \A i \in 1..Len(s) : q[i] = s[i]
        /\ q[Len(s) + 1] = t
    OBVIOUS
  <1>2. Members(q) = Members(s) \cup {t} /\ NoRepeats(q)
    BY AppendList DEF IsQueue
  <1> HIDE DEF q
  <1>3. /\ next' = IF zombie_in = None THEN next ELSE [next EXCEPT ![zombie_in] = t]
        /\ zombie_in' = t
        /\ zombie_out' = IF zombie_out = None THEN t ELSE zombie_out
    BY DEF BtQueue
  <1>4. zombie_out' = q[1] /\ zombie_in' = q[Len(q)]
    <2>1. CASE s = <<>>
      <3>1. zombie_out' = t
        BY <1>3, <2>1, QueueEnds
      <3>2. Len(s) = 0
        BY <2>1
      <3>3. Len(q) = 1 /\ q[1] = t
        BY <1>1, <3>2
      <3> QED
        BY <1>3, <3>1, <3>3
    <2>2. CASE s # <<>>
      <3>1. Len(s) > 0 /\ zombie_out # None /\ zombie_out = s[1]
        BY <2>2, QueueEnds
      <3> QED
        BY <1>1, <1>3, <3>1
    <2> QED
      BY <2>1, <2>2
  <1>5. \A i \in 1..(Len(q) - 1) : next'[q[i]] = q[i + 1]
    <2> SUFFICES ASSUME NEW i \in 1..Len(s) PROVE next'[s[i]] = q[i + 1]
      BY <1>1
    <2>1. /\ zombie_in # None /\ zombie_in = s[Len(s)] /\ Len(s) \in 1..Len(s)
          /\ next' = [next EXCEPT ![zombie_in] = t] /\ s[i] \in Threads
      BY <1>1, <1>3, QueueEnds
    <2>2. CASE i = Len(s)
      BY <1>1, <2>1, <2>2 DEF GroupTypeOK
    <2>3. CASE i # Len(s)
      <3>1. i \in 1..(Len(s) - 1) /\ i + 1 \in 1..Len(s)
        <4>1. PICK n \in Nat : n = Len(s)
          OBVIOUS
        <4>2. i \in 1..n /\ i # n
          BY <2>3, <4>1
        <4>3. i \in 1..(n - 1) /\ i + 1 \in 1..n
          BY <4>2
        <4> QED
          BY <4>1, <4>3
      <3>2. s[i] # s[Len(s)]
        BY <1>1, <2>1, <2>3 DEF IsQueue, NoRepeats
      <3>3. next'[s[i]] = next[s[i]]
        BY <2>1, <3>2 DEF GroupTypeOK
      <3> QED
        BY <1>1, <3>1, <3>3 DEF IsQueue
    <2> QED
      BY <2>2, <2>3
  <1>6. IsQueue(q)'
    BY <1>1, <1>2, <1>4, <1>5 DEF IsQueue, NoRepeats
  <1> QED
    BY <1>1, <1>2, <1>6 DEF q

\* A join takes the first.
LEMMA QueueTail ==
  ASSUME GroupTypeOK, NEW s \in Seq(Threads), IsQueue(s), NEW t \in Threads, GjTake(t)
  PROVE  /\ s # <<>> /\ zombie_out \in Members(s)
         /\ IsQueue(Tail(s))' /\ Tail(s) \in Seq(Threads)
         /\ Members(Tail(s)) = Members(s) \ {zombie_out}
  <1> DEFINE q == Tail(s)
  <1>1. /\ zombie_out # None /\ next' = next
        /\ zombie_in' = IF zombie_out = zombie_in THEN None ELSE zombie_in
        /\ zombie_out' = IF zombie_out = zombie_in THEN None ELSE next[zombie_out]
    BY DEF GjTake
  <1>2. s # <<>> /\ zombie_out = s[1] /\ zombie_in = s[Len(s)] /\ zombie_out \in Members(s)
    BY <1>1, QueueEnds
  <1>3. /\ Len(s) \in Nat /\ Len(s) > 0 /\ DOMAIN s = 1..Len(s) /\ Head(s) = s[1]
        /\ q \in Seq(Threads) /\ Len(q) = Len(s) - 1
        /\ \A i \in 1..(Len(s) - 1) : q[i] = s[i + 1]
    BY <1>2
  <1>4. Members(q) = Members(s) \ {zombie_out} /\ NoRepeats(q)
    BY <1>2, <1>3, TailList DEF IsQueue
  <1>5. zombie_out = zombie_in <=> Len(s) = 1
    BY <1>2, <1>3 DEF IsQueue, NoRepeats
  <1> HIDE DEF q
  <1>6. q = <<>> <=> Len(s) = 1
    <2>1. \A p \in Seq(Threads) : p = <<>> <=> Len(p) = 0
      OBVIOUS
    <2>2. q = <<>> <=> Len(q) = 0
      BY <1>3, <2>1
    <2> QED
      BY <1>3, <2>2
  <1>7. /\ zombie_out' = IF q = <<>> THEN None ELSE q[1]
        /\ zombie_in' = IF q = <<>> THEN None ELSE q[Len(q)]
    <2>1. CASE Len(s) = 1
      BY <1>1, <1>5, <1>6, <2>1
    <2>2. CASE Len(s) # 1
      <3>1. /\ 1 \in 1..(Len(s) - 1) /\ Len(s) - 1 \in 1..(Len(s) - 1)
            /\ (Len(s) - 1) + 1 = Len(s) /\ 1 + 1 = 2
        BY <1>3, <2>2
      <3>2. next[s[1]] = s[1 + 1] /\ q[1] = s[1 + 1] /\ q[Len(s) - 1] = s[Len(s)]
        BY <1>3, <3>1 DEF IsQueue
      <3> QED
        BY <1>1, <1>2, <1>3, <1>5, <1>6, <2>2, <3>2
    <2> QED
      BY <2>1, <2>2
  <1>8. \A i \in 1..(Len(q) - 1) : next'[q[i]] = q[i + 1]
    <2> SUFFICES ASSUME NEW i \in 1..((Len(s) - 1) - 1) PROVE next[q[i]] = q[i + 1]
      BY <1>1, <1>3
    <2>1. i \in 1..(Len(s) - 1) /\ i + 1 \in 1..(Len(s) - 1)
      BY <1>3
    <2>2. q[i] = s[i + 1] /\ q[i + 1] = s[(i + 1) + 1]
      BY <1>3, <2>1
    <2> QED
      BY <2>1, <2>2 DEF IsQueue
  <1>9. IsQueue(q)'
    BY <1>4, <1>7, <1>8 DEF IsQueue, NoRepeats
  <1> QED
    BY <1>2, <1>3, <1>4, <1>9 DEF q

\* Who has queued itself is linked by nobody but the next to do so.
LEMMA QueueStays ==
  ASSUME NEW s \in Seq(Threads), IsQueue(s), UNCHANGED <<zombie_in, zombie_out>>,
         \A u \in Members(s) : next'[u] = next[u]
  PROVE  IsQueue(s)'
  <1>1. Len(s) \in Nat /\ DOMAIN s = 1..Len(s)
    OBVIOUS
  <1>2. \A i \in 1..(Len(s) - 1) : i \in DOMAIN s
    BY <1>1
  <1>3. \A i \in 1..(Len(s) - 1) : s[i] \in Members(s)
    BY <1>2 DEF Members
  <1> QED
    BY <1>3 DEF IsQueue

----------------------------------------------------------------------------
(* Sleeping until one returns.                                               *)

\* One thread at a time has the group's lock.
LEMMA OneInGroup ==
  ASSUME TLInv, NEW u \in Threads, NEW v \in Threads, mp[u] = TgLock, mp[v] = TgLock,
         pc[u] \notin WithoutMp, pc[v] \notin WithoutMp
  PROVE  u = v
  BY CondVarAssumption, GroupAssumption
     DEF TLInv, CVInv, LockInv, MutualExclusion, Holds, Locks

\* Inside of thrgrp.c a thread goes on there, or in the call it makes.
LEMMA InGroupCode ==
  ASSUME TLInv, GroupTypeOK, GroupPlacesOK, NEW t \in Threads, TGStep(t),
         gp[t] \notin {"user", "bt_tid", "gone"}
  PROVE  /\ GroupStep(t) => pc[t] = "run"
         /\ GroupStep(t) \/ (LibStep(t) /\ UNCHANGED gvars)
  <1>1. at[t] = "user"
    BY DEF GroupPlacesOK
  <1>2. ~ Alone(t)
    BY DEF Alone
  <1>3. Inside(t) => LibStep(t)
    BY <1>1 DEF Inside, InLibrary, Step, CrLock, CrFork, CrForkFails, CrFailed, CrRegister,
       CrUnlock, JnLock, JnRefused, JnWait, JnReady, JnReap, JnUnlock, ExLock, ExMark,
       ExSignal, ExUnlock, ExVanish, LkLock, LkUnlock
  <1>4. GroupStep(t) => pc[t] = "run"
    BY DEF GroupStep, Goes, At, ThrgrpCreate, ThrCreate, Enter, BtGetId, BtLock, BtQueue,
       BtSignal, BtUnlock, BtExit, GjLock, GjWait, GjTake, GjUnlock, GjJoin
  <1> QED
    BY <1>2, <1>3, <1>4 DEF TGStep

\* A thread on its way to the list has found the queue empty, which nobody
\* has changed since.
LEMMA StepFoundEmpty ==
  ASSUME TLInv, GroupTypeOK, GroupPlacesOK, MembersOK, NEW Q, AwakeOK(Q),
         NEW t \in Threads, TGStep(t), TLStep(t) \/ UNCHANGED vars, NEW v \in Threads,
         gp'[v] = "gj_look", pc'[v] \in {"cw_world", "cw_wcb", "cw_enq"}
  PROVE  zombie_out' = None
  <1>0. CVInv /\ TLTypeOK /\ TypeOK
    BY DEF TLInv, CVInv, TypeInv
  <1>1. CASE v = t
    <2>1. gp[t] # "gj_look" => pc'[t] = "run"
      <3> SUFFICES ASSUME gp[t] # "gj_look" PROVE pc'[t] = "run"
        OBVIOUS
      <3>1. GjLock(t)
        BY <1>1 DEF TGStep, GroupStep, gvars, GroupTypeOK, Goes, ThrgrpCreate, BtGetId, BtLock,
           BtQueue, BtSignal, BtUnlock, BtExit, GjLock, GjWait, GjTake, GjUnlock, GjJoin
      <3> QED
        BY <3>1 DEF GjLock, Goes, At, Lock
    <2>2. gp[t] = "gj_look"
      BY <1>1, <2>1
    <2>3. CASE LibStep(t) /\ UNCHANGED gvars
      <3>1. pc[t] \in {"cw_world", "cw_wcb"}
        BY <1>0, <1>1, <2>3 DEF LibStep, At, Goto, TypeOK,
           CwWorld, CwWcb, CwEnq, CwUnlockMp, CwUnlockWorld, CwStop, CwResume, CwRelock,
           SgLock, SgPop, SgNone, SgCas, SgUnlock,
           BcLock, BcDetach, BcUnlock, BcPop, BcCas, BcDone
      <3> QED
        BY <2>2, <2>3, <3>1 DEF AwakeOK, gvars
    <2>4. CASE GroupStep(t)
      <3>1. GjWait(t)
        BY <1>1, <2>2, <2>4 DEF GroupStep, GroupTypeOK, Goes, ThrgrpCreate, BtGetId, BtLock,
           BtQueue, BtSignal, BtUnlock, BtExit, GjLock, GjWait, GjTake, GjUnlock, GjJoin
      <3> QED
        BY <3>1 DEF GjWait, Queue
    <2> QED
      BY <2>2, <2>3, <2>4, InGroupCode
  <1>2. CASE v # t
    <2>1. gp[v] = "gj_look"
      BY <1>2, GroupOthersStay
    <2>2. pc'[v] = pc[v]
      BY <1>2, OthersStay DEF vars, cvvars
    <2>3. zombie_out = None /\ mp[v] = TgLock /\ pc[v] \notin WithoutMp
      BY <2>1, <2>2 DEF AwakeOK, GroupPlacesOK, WithoutMp
    <2>4. ~ BtQueue(t) /\ ~ GjTake(t)
      <3>1. BtQueue(t) \/ GjTake(t) => mp[t] = TgLock /\ pc[t] = "run"
        BY DEF BtQueue, GjTake, Goes, At, GroupPlacesOK
      <3> QED
        BY <1>2, <2>3, <3>1, OneInGroup DEF WithoutMp
    <2>5. zombie_out' = zombie_out
      BY <2>4 DEF TGStep, GroupStep, gvars, Queue, ThrgrpCreate, BtGetId, BtLock,
           BtSignal, BtUnlock, BtExit, GjLock, GjWait, GjUnlock, GjJoin
    <2> QED
      BY <2>3, <2>5
  <1> QED
    BY <1>1, <1>2

\* Only a join that found nothing goes on the list, and only the signal of one
\* that returns takes somebody off it.
LEMMA SleepersChange ==
  ASSUME TLInv, GroupTypeOK, GroupPlacesOK, NEW t \in Threads, TGStep(t),
         TLStep(t) \/ UNCHANGED vars, waiters'[TgCond] # waiters[TgCond]
  PROVE  /\ UNCHANGED gvars /\ cv[t] = TgCond
         /\ \/ gp[t] = "gj_look" /\ pc[t] = "cw_enq" /\ CwEnq(t)
            \/ gp[t] = "bt_unlock" /\ pc[t] = "sg_pop" /\ SgPop(t)
  <1>1. TypeInv /\ (LibStep(t) \/ ClientStep(t))
    BY StepUsesCondVar DEF TLInv, CVInv, vars, cvvars
  <1>2. TgCond = cv[t] /\ pc[t] \in {"cw_enq", "sg_pop", "bc_detach"}
    BY <1>1, ListChange, GroupAssumption
  <1>3. \/ gp[t] = "gj_look" /\ pc[t] = "cw_enq"
        \/ gp[t] = "bt_unlock" /\ pc[t] = "sg_pop"
    BY <1>2 DEF GroupPlacesOK, Waiting, Signalling
  <1>4. LibStep(t) /\ UNCHANGED gvars
    BY <1>3, InGroupCode
  <1>5. CwEnq(t) \/ SgPop(t) \/ SgNone(t)
    BY <1>3, <1>4 DEF LibStep, At,
       CwWorld, CwWcb, CwEnq, CwUnlockMp, CwUnlockWorld, CwStop, CwResume, CwRelock,
       SgLock, SgPop, SgNone, SgCas, SgUnlock,
       BcLock, BcDetach, BcUnlock, BcPop, BcCas, BcDone
  <1>6. ~ SgNone(t)
    BY DEF SgNone
  <1> QED
    BY <1>2, <1>3, <1>4, <1>5, <1>6 DEF CwEnq, SgPop, At

\* Whoever looks or wakes goes on while others sleep.
LEMMA AwakeStay ==
  ASSUME TLInv, GroupTypeOK, GroupPlacesOK, MembersOK, NEW t \in Threads, TGStep(t),
         TLStep(t) \/ UNCHANGED vars, ~ GjTake(t),
         waiters'[TgCond] = waiters[TgCond], Sleepers # {}
  PROVE  Lookers \subseteq Lookers' /\ Wakers \subseteq Wakers'
  <1>0. CVInv /\ TLTypeOK /\ TypeOK
    BY DEF TLInv, CVInv, TypeInv
  <1>1. Sleepers' = Sleepers
    BY DEF Sleepers
  <1>2. ASSUME NEW v \in Threads, v # t, gp[v] # "user" PROVE gp'[v] = gp[v] /\ pc'[v] = pc[v]
    <2>1. ~ ThrgrpCreate(t, v)
      BY <1>2, UnusedPlace DEF ThrgrpCreate, ThrCreate
    <2> QED
      BY <1>2, <2>1, GroupOthersStay, OthersStay DEF vars, cvvars
  <1>3. gp[t] = "gj_look" => gp'[t] = "gj_look"
    <2> SUFFICES ASSUME gp[t] = "gj_look" PROVE gp'[t] = "gj_look"
      OBVIOUS
    <2>1. GjWait(t) \/ UNCHANGED gvars
      BY InGroupCode DEF GroupStep, Goes, ThrgrpCreate, BtGetId, BtLock,
         BtQueue, BtSignal, BtUnlock, BtExit, GjLock, GjUnlock, GjJoin
    <2> QED
      BY <2>1 DEF GjWait, Goes, GroupTypeOK, gvars
  <1>4. t \in Wakers => t \in Wakers'
    <2>1. CASE gp[t] = "bt_signal"
      <3>1. BtSignal(t)
        BY <2>1, InGroupCode, LibraryMoves, <1>0 DEF GroupPlacesOK, GroupStep, Goes, ThrgrpCreate, BtGetId, BtLock,
         BtQueue, BtUnlock, BtExit, GjLock, GjWait, GjTake, GjUnlock, GjJoin
      <3>2. gp'[t] = "bt_unlock" /\ pc'[t] = "sg_lock"
        BY <1>0, <3>1 DEF BtSignal, Goes, CondSignal, Goto, GroupTypeOK, TypeOK
      <3> QED
        BY <3>2 DEF Wakers
    <2>2. CASE gp[t] = "bt_unlock" /\ pc[t] \in {"sg_lock", "sg_pop"}
      <3>1. LibStep(t) /\ UNCHANGED gvars
        BY <2>2, InGroupCode
      <3>2. SgLock(t) \/ SgPop(t) \/ SgNone(t)
        BY <2>2, <3>1 DEF LibStep, At,
           CwWorld, CwWcb, CwEnq, CwUnlockMp, CwUnlockWorld, CwStop, CwResume, CwRelock,
           SgLock, SgPop, SgNone, SgCas, SgUnlock,
           BcLock, BcDetach, BcUnlock, BcPop, BcCas, BcDone
      <3>3. cv[t] = TgCond /\ waiters[TgCond] # <<>>
        BY <2>2, EmptyList DEF GroupPlacesOK, Sleepers
      <3>4. ~ SgNone(t)
        BY <3>3 DEF SgNone
      <3>5. ~ SgPop(t)
        <4> SUFFICES ASSUME SgPop(t) PROVE FALSE
          OBVIOUS
        <4>1. waiters[TgCond] \in Seq(Threads) /\ TgCond \in Conds
          BY <1>0, GroupAssumption DEF TypeOK
        <4>2. waiters'[TgCond] = Tail(waiters[TgCond])
          BY <1>0, <3>3, <4>1 DEF SgPop, TypeOK
        <4>3. \A s \in Seq(Threads) : s # <<>> => Tail(s) # s
          <5> SUFFICES ASSUME NEW s \in Seq(Threads), s # <<>> PROVE Len(Tail(s)) # Len(s)
            OBVIOUS
          <5> QED
            OBVIOUS
        <4> QED
          BY <3>3, <4>1, <4>2, <4>3
      <3>6. gp'[t] = "bt_unlock" /\ pc'[t] = "sg_pop"
        BY <1>0, <2>2, <3>1, <3>2, <3>4, <3>5 DEF SgLock, Goto, gvars, TypeOK
      <3> QED
        BY <3>6 DEF Wakers
    <2> QED
      BY <2>1, <2>2 DEF Wakers
  <1>5. Lookers \subseteq Lookers'
    BY <1>1, <1>2, <1>3 DEF Lookers
  <1>6. \A v \in Wakers : v # t => v \in Wakers'
    BY <1>2 DEF Wakers
  <1> QED
    BY <1>4, <1>5, <1>6

\* The signal wakes the first that sleeps, who will look.
LEMMA PopWakes ==
  ASSUME TLInv, GroupTypeOK, GroupPlacesOK, NEW t \in Threads, UNCHANGED gvars,
         SgPop(t), cv[t] = TgCond, gp[t] = "bt_unlock"
  PROVE  \E h \in Threads :
           /\ h \notin Lookers /\ Lookers' = Lookers \cup {h}
           /\ t \in Wakers /\ Wakers' = Wakers \ {t}
           /\ Sleepers # {}
  <1>0. CVInv /\ TypeOK /\ TgCond \in Conds
    BY GroupAssumption DEF TLInv, CVInv, TypeInv
  <1> DEFINE s == waiters[TgCond]
             h == Head(s)
  <1>1. s \in Seq(Threads) /\ NoRepeats(s) /\ s # <<>>
    BY <1>0 DEF TypeOK, CVInv, SleepInv, WaitsInOnePlace, SgPop
  <1>2. waiters'[TgCond] = Tail(s) /\ pc[t] = "sg_pop" /\ pc' = [pc EXCEPT ![t] = "sg_cas"]
    BY <1>0 DEF SgPop, TypeOK, At, Goto
  <1> HIDE DEF s
  <1>3. h \in Threads /\ h \in Members(s) /\ Members(Tail(s)) = Members(s) \ {h}
    BY <1>1, TailList
  <1>4. Sleepers = Members(s) /\ Sleepers' = Members(s) \ {h}
    BY <1>2, <1>3 DEF Sleepers, s
  <1>5. cv[h] = TgCond /\ (pc[h] \in FallingAsleep \/ Asleep(h))
    BY <1>0, <1>3 DEF s, CVInv, SleepInv, ListedOK
  <1>6. gp[h] = "gj_look"
    BY <1>3, <1>5 DEF GroupPlacesOK, FallingAsleep, Asleep, Signalling
  <1>7. gp' = gp
    BY DEF gvars
  <1>8. Lookers' = Lookers \cup {h} /\ h \notin Lookers
    BY <1>3, <1>4, <1>6, <1>7 DEF Lookers
  <1>9. t \in Wakers /\ Wakers' = Wakers \ {t}
    BY <1>0, <1>2, <1>7 DEF Wakers, TypeOK
  <1> QED
    BY <1>3, <1>4, <1>8, <1>9

\* The counts are of finite sets.
LEMMA Counts ==
  /\ IsFiniteSet(Lookers) /\ IsFiniteSet(Wakers)
  /\ Cardinality(Lookers) \in Nat /\ Cardinality(Wakers) \in Nat
  <1>1. Lookers \subseteq Threads /\ Wakers \subseteq Threads
    BY DEF Lookers, Wakers
  <1> QED
    BY <1>1, GroupAssumption, FS_Subset, FS_CardinalityType

\* So they are after a step.
LEMMA CountsNext ==
  /\ IsFiniteSet(Lookers') /\ IsFiniteSet(Wakers')
  /\ Cardinality(Lookers') \in Nat /\ Cardinality(Wakers') \in Nat
  <1>1. Lookers' \subseteq Threads /\ Wakers' \subseteq Threads
    BY DEF Lookers, Wakers
  <1> QED
    BY <1>1, GroupAssumption, FS_Subset, FS_CardinalityType

\* A step that leaves the queue alone leaves enough that will look at it.
LEMMA StepAwakeOK ==
  ASSUME TLInv, GroupTypeOK, GroupPlacesOK, MembersOK,
         NEW Q \in SUBSET Threads, AwakeOK(Q), zombie_out = None => Q = {},
         NEW t \in Threads, TGStep(t), TLStep(t) \/ UNCHANGED vars, ~ BtQueue(t), ~ GjTake(t)
  PROVE  AwakeOK(Q)'
  <1>1. \A v \in Threads : gp'[v] = "gj_look" /\ pc'[v] \in {"cw_world", "cw_wcb", "cw_enq"} =>
          zombie_out' = None
    BY StepFoundEmpty
  <1>2. ASSUME Sleepers' # {}
        PROVE  Cardinality(Q) =< Cardinality(Lookers') + Cardinality(Wakers')
    <2>1. CASE Q = {}
      <3>1. Cardinality(Q) = 0
        BY <2>1, FS_EmptySet
      <3> QED
        BY <3>1, CountsNext
    <2>2. CASE waiters'[TgCond] = waiters[TgCond]
      <3>1. Sleepers # {}
        BY <1>2, <2>2 DEF Sleepers
      <3>2. Lookers \subseteq Lookers' /\ Wakers \subseteq Wakers'
        BY <2>2, <3>1, AwakeStay
      <3>3. Cardinality(Lookers) =< Cardinality(Lookers') /\ Cardinality(Wakers) =< Cardinality(Wakers')
        BY <3>2, CountsNext, FS_Subset
      <3>4. Cardinality(Q) =< Cardinality(Lookers) + Cardinality(Wakers) /\ Cardinality(Q) \in Nat
        BY <3>1, GroupAssumption, FS_Subset, FS_CardinalityType DEF AwakeOK
      <3> QED
        BY <3>3, <3>4, Counts, CountsNext
    <2>3. CASE waiters'[TgCond] # waiters[TgCond] /\ Q # {}
      <3>1. UNCHANGED gvars /\ cv[t] = TgCond /\ gp[t] = "bt_unlock" /\ SgPop(t)
        BY <2>3, SleepersChange DEF AwakeOK
      <3>2. PICK h \in Threads :
              /\ h \notin Lookers /\ Lookers' = Lookers \cup {h}
              /\ t \in Wakers /\ Wakers' = Wakers \ {t}
              /\ Sleepers # {}
        BY <3>1, PopWakes
      <3>3. Cardinality(Lookers') = Cardinality(Lookers) + 1
        BY <3>2, Counts, FS_AddElement
      <3>4. Cardinality(Wakers') = Cardinality(Wakers) - 1
        BY <3>2, Counts, FS_RemoveElement
      <3>5. Cardinality(Q) =< Cardinality(Lookers) + Cardinality(Wakers) /\ Cardinality(Q) \in Nat
        BY <3>2, GroupAssumption, FS_Subset, FS_CardinalityType DEF AwakeOK
      <3> QED
        BY <3>3, <3>4, <3>5, Counts
    <2> QED
      BY <2>1, <2>2, <2>3
  <1> QED
    BY <1>1, <1>2 DEF AwakeOK

\* One that queues itself is going to signal.
LEMMA AwakeQueue ==
  ASSUME TLInv, GroupTypeOK, GroupPlacesOK, MembersOK,
         NEW Q \in SUBSET Threads, AwakeOK(Q),
         NEW t \in Threads, BtQueue(t), t \notin Q
  PROVE  AwakeOK(Q \cup {t})'
  <1>1. /\ gp[t] = "bt_queue" /\ gp' = [gp EXCEPT ![t] = "bt_signal"] /\ pc[t] = "run"
        /\ UNCHANGED <<pc, waiters>> /\ UNCHANGED vars
    BY DEF BtQueue, Goes, At, vars, cvvars
  <1>2. \A v \in Threads : gp'[v] = "gj_look" /\ pc'[v] \in {"cw_world", "cw_wcb", "cw_enq"} =>
          zombie_out' = None
    BY <1>1, StepFoundEmpty DEF TGStep, GroupStep
  <1>3. Sleepers' = Sleepers /\ Lookers' = Lookers
    BY <1>1 DEF Sleepers, Lookers, GroupTypeOK
  <1>4. Wakers' = Wakers \cup {t} /\ t \notin Wakers
    BY <1>1 DEF Wakers, GroupTypeOK
  <1>5. Cardinality(Wakers') = Cardinality(Wakers) + 1
    BY <1>4, Counts, FS_AddElement
  <1>6. IsFiniteSet(Q) /\ Cardinality(Q) \in Nat /\ Cardinality(Q \cup {t}) = Cardinality(Q) + 1
    BY GroupAssumption, FS_Subset, FS_CardinalityType, FS_AddElement
  <1>7. Sleepers # {} => Cardinality(Q) =< Cardinality(Lookers) + Cardinality(Wakers)
    BY DEF AwakeOK
  <1>8. Sleepers' # {} => Cardinality(Q \cup {t}) =< Cardinality(Lookers') + Cardinality(Wakers')
    BY <1>3, <1>5, <1>6, <1>7, Counts
  <1> QED
    BY <1>2, <1>8 DEF AwakeOK

\* A join that takes one need not look again.
LEMMA AwakeTake ==
  ASSUME TLInv, GroupTypeOK, GroupPlacesOK, MembersOK,
         NEW Q \in SUBSET Threads, AwakeOK(Q),
         NEW t \in Threads, GjTake(t), NEW x \in Q
  PROVE  AwakeOK(Q \ {x})'
  <1>1. /\ gp[t] = "gj_look" /\ gp' = [gp EXCEPT ![t] = "gj_unlock"]
        /\ UNCHANGED <<pc, waiters>> /\ UNCHANGED vars
    BY DEF GjTake, Goes, At, vars, cvvars
  <1>2. \A v \in Threads : gp'[v] = "gj_look" /\ pc'[v] \in {"cw_world", "cw_wcb", "cw_enq"} =>
          zombie_out' = None
    BY <1>1, StepFoundEmpty DEF TGStep, GroupStep
  <1>3. Sleepers' = Sleepers /\ Lookers' = Lookers \ {t} /\ Wakers' = Wakers
    BY <1>1 DEF Sleepers, Lookers, Wakers, GroupTypeOK
  <1>4. Cardinality(Lookers') >= Cardinality(Lookers) - 1
    <2>1. CASE t \in Lookers
      <3>1. Cardinality(Lookers') = Cardinality(Lookers) - 1
        BY <1>3, <2>1, Counts, FS_RemoveElement
      <3> QED
        BY <3>1, Counts
    <2>2. CASE t \notin Lookers
      BY <1>3, <2>2, Counts
    <2> QED
      BY <2>1, <2>2
  <1>5. IsFiniteSet(Q) /\ Cardinality(Q) \in Nat /\ Cardinality(Q \ {x}) = Cardinality(Q) - 1
    BY GroupAssumption, FS_Subset, FS_CardinalityType, FS_RemoveElement
  <1>6. Sleepers # {} => Cardinality(Q) =< Cardinality(Lookers) + Cardinality(Wakers)
    BY DEF AwakeOK
  <1>7. Sleepers' # {} => Cardinality(Q \ {x}) =< Cardinality(Lookers') + Cardinality(Wakers')
    BY <1>3, <1>4, <1>5, <1>6, Counts, CountsNext
  <1> QED
    BY <1>2, <1>7 DEF AwakeOK

----------------------------------------------------------------------------
(* The invariant of the group.                                               *)

\* The steps that move neither end of the queue.
LEMMA StepQueueKept ==
  ASSUME TLInv, GroupTypeOK, GroupPlacesOK, MembersOK,
         NEW s \in Seq(Threads), IsQueue(s), HandsOK(Members(s)), AwakeOK(Members(s)),
         NEW t \in Threads, TGStep(t), TLStep(t), ~ BtQueue(t), ~ GjTake(t)
  PROVE  IsQueue(s)' /\ HandsOK(Members(s))' /\ AwakeOK(Members(s))'
  <1>1. PICK Q : Q = Members(s)
    OBVIOUS
  <1>2. Q \in SUBSET Threads /\ (zombie_out = None => Q = {}) /\ HandsOK(Q) /\ AwakeOK(Q)
    BY <1>1, QueueEnds, EmptyList
  <1>3. AwakeOK(Q)'
    BY <1>2, StepAwakeOK
  <1>4. /\ HandsOK(Q)' /\ UNCHANGED <<zombie_in, zombie_out>>
        /\ \A u \in Q : next'[u] = next[u]
    <2>1. CASE \E u \in Threads : ThrgrpCreate(t, u)
      BY <1>2, <2>1, HandsCreate DEF ThrgrpCreate
    <2>2. CASE GjJoin(t)
      BY <1>2, <2>2, HandsJoin DEF GjJoin
    <2>3. CASE ~ GjJoin(t) /\ ~ \E u \in Threads : ThrgrpCreate(t, u)
      <3>1. /\ Returned' = Returned /\ taken' = taken /\ group' = group
            /\ UNCHANGED <<zombie_in, zombie_out>>
            /\ \A u \in group : ~ ThrJoin(t, u)
            /\ \A u \in Threads : next'[u] = next[u] \/ u \notin Returned
        BY <2>3, SameReturned
      <3>2. HandsOK(Q)' /\ Q \subseteq Returned
        BY <1>2, <3>1, HandsStay DEF HandsOK
      <3> QED
        BY <1>2, <3>1, <3>2
    <2> QED
      BY <2>1, <2>2, <2>3
  <1>5. IsQueue(s)'
    BY <1>1, <1>4, QueueStays
  <1> QED
    BY <1>1, <1>3, <1>4, <1>5 DEF HandsOK, AwakeOK

\* Every step of every thread keeps the invariant.
LEMMA StepGroupInv ==
  ASSUME GroupInv, NEW t \in Threads, TGStep(t)
  PROVE  GroupInv'
  <1>1. TLInv /\ GroupTypeOK /\ GroupPlacesOK /\ MembersOK
    BY DEF GroupInv
  <1>2. PICK s \in Seq(Threads) : IsQueue(s) /\ HandsOK(Members(s)) /\ AwakeOK(Members(s))
    BY DEF GroupInv
  <1>3. PICK Q : Q = Members(s)
    OBVIOUS
  <1>4. Q \in SUBSET Threads /\ HandsOK(Q) /\ AwakeOK(Q)
    BY <1>2, <1>3, QueueEnds
  <1>5. TLStep(t) \/ (UNCHANGED vars /\ (BtQueue(t) \/ GjTake(t)))
    BY <1>1, <1>4, GroupUsesThreadLib
  <1>6. TLInv' /\ GroupTypeOK' /\ GroupPlacesOK'
    BY <1>1, <1>5, StepTLInv, StutterTLInv, StepGroupTypeOK, StepGroupPlacesOK
  <1>7. CASE BtQueue(t)
    <2>1. MembersOK'
      BY <1>1, <1>7 DEF BtQueue, Goes, vars, tlvars, GroupTypeOK, MembersOK, Registered
    <2>2. HandsOK(Q \cup {t})' /\ t \notin Q
      BY <1>1, <1>4, <1>7, HandsQueue
    <2>3. AwakeOK(Q \cup {t})'
      BY <1>1, <1>4, <1>7, <2>2, AwakeQueue
    <2>4. PICK q \in Seq(Threads) : IsQueue(q)' /\ Members(q) = Q \cup {t}
      BY <1>1, <1>2, <1>3, <1>7, <2>2, QueueAppend
    <2>5. HandsOK(Members(q))' /\ AwakeOK(Members(q))'
      BY <2>2, <2>3, <2>4 DEF HandsOK, AwakeOK
    <2> QED
      BY <1>6, <2>1, <2>4, <2>5 DEF GroupInv
  <1>8. CASE GjTake(t)
    <2>1. MembersOK'
      BY <1>1, <1>8 DEF GjTake, Goes, vars, tlvars, GroupTypeOK, MembersOK, Registered
    <2>2. PICK x : x = zombie_out
      OBVIOUS
    <2>3. PICK q \in Seq(Threads) : IsQueue(q)' /\ Members(q) = Q \ {x} /\ x \in Q
      BY <1>1, <1>2, <1>3, <1>8, <2>2, QueueTail
    <2>4. HandsOK(Q \ {x})'
      BY <1>1, <1>4, <1>8, <2>2, <2>3, HandsTake
    <2>5. AwakeOK(Q \ {x})'
      BY <1>1, <1>4, <1>8, <2>2, <2>3, AwakeTake
    <2>6. HandsOK(Members(q))' /\ AwakeOK(Members(q))'
      BY <2>3, <2>4, <2>5 DEF HandsOK, AwakeOK
    <2> QED
      BY <1>6, <2>1, <2>3, <2>6 DEF GroupInv
  <1>9. CASE ~ BtQueue(t) /\ ~ GjTake(t)
    <2>1. TLStep(t)
      BY <1>5, <1>9
    <2>2. MembersOK'
      BY <1>1, <2>1, StepMembersOK
    <2>3. IsQueue(s)' /\ HandsOK(Members(s))' /\ AwakeOK(Members(s))'
      BY <1>1, <1>2, <1>9, <2>1, StepQueueKept
    <2> QED
      BY <1>6, <2>2, <2>3 DEF GroupInv
  <1> QED
    BY <1>7, <1>8, <1>9

\* The invariant speaks of the variables of the group and of thread_lib.c alone.
LEMMA StutterGroupInv == GroupInv /\ UNCHANGED tgvars => GroupInv'
  <1> SUFFICES ASSUME GroupInv, UNCHANGED tgvars PROVE GroupInv'
    OBVIOUS
  <1> USE DEF tgvars, gvars
  <1>1. TLInv' /\ UNCHANGED vars
    BY StutterTLInv DEF GroupInv
  <1>2. GroupTypeOK' /\ MembersOK'
    BY <1>1 DEF vars, tlvars, GroupInv, GroupTypeOK, MembersOK, Registered
  <1>3. GroupPlacesOK'
    BY <1>1 DEF vars, cvvars, tlvars, GroupInv, GroupPlacesOK
  <1>4. PICK s \in Seq(Threads) : IsQueue(s) /\ HandsOK(Members(s)) /\ AwakeOK(Members(s))
    BY DEF GroupInv
  <1>5. PICK Q : Q = Members(s)
    OBVIOUS
  <1>6. IsQueue(s)'
    BY <1>4 DEF IsQueue
  <1>7. HandsOK(Q)'
    BY <1>1, <1>4, <1>5 DEF vars, tlvars, HandsOK, Joins, Returned, OnceIn
  <1>8. AwakeOK(Q)'
    BY <1>1, <1>4, <1>5 DEF vars, cvvars, AwakeOK, Sleepers, Lookers, Wakers
  <1>9. HandsOK(Members(s))' /\ AwakeOK(Members(s))'
    BY <1>5, <1>7, <1>8 DEF HandsOK, AwakeOK
  <1> QED
    BY <1>1, <1>2, <1>3, <1>4, <1>6, <1>9 DEF GroupInv

\* At the start there is no group, and nobody on its queue.
LEMMA InitGroupInv == TGInit => GroupInv
  <1> SUFFICES ASSUME TGInit PROVE GroupInv
    OBVIOUS
  <1> USE CondVarAssumption, ThreadLibAssumption, GroupAssumption
  <1>1. TLInv
    BY InitTLInv DEF TGInit
  <1>2. \A t \in Threads :
          /\ at[t] = (IF t = Main THEN "user" ELSE "none") /\ peer[t] = None
          /\ stack[t] = (IF t = Main THEN "live" ELSE "none")
          /\ pc[t] = "run" /\ mp[t] = None /\ cv[t] = None
          /\ gp[t] = "user" /\ taken[t] = None
    BY DEF TGInit, TLInit, CVInit
  <1>3. GroupTypeOK
    BY DEF TGInit, GroupTypeOK, GroupPlaces
  <1>4. GroupPlacesOK
    <2>1. group = {} /\ None # TgLock /\ None # TgCond
      BY DEF TGInit
    <2>2. \A t \in Threads :
            /\ gp[t] = "user" /\ taken[t] = None /\ t \notin group
            /\ mp[t] # TgLock /\ cv[t] # TgCond
      BY <1>2, <2>1
    <2> QED
      BY <2>2 DEF GroupPlacesOK
  <1>5. MembersOK
    BY <1>2 DEF TGInit, TLInit, MembersOK, Joining
  <1>6. IsQueue(<<>>) /\ <<>> \in Seq(Threads)
    BY EmptyList DEF TGInit, IsQueue
  <1>7. HandsOK({})
    BY <1>2 DEF TGInit, TLInit, HandsOK, Returned, Joins, Joining, OnceIn
  <1>8. AwakeOK({})
    BY EmptyList DEF TGInit, TLInit, CVInit, AwakeOK, Sleepers
  <1> QED
    BY <1>1, <1>3, <1>4, <1>5, <1>6, <1>7, <1>8, EmptyList DEF GroupInv

\* The steps that TGNext takes, in the form the lemmas are about.
LEMMA NextIsTGStep == TGNext => \E t \in Threads : TGStep(t)
  BY DEF TGNext, TGStep

\* The inductive invariant of a group holds for any number of threads.
THEOREM GroupInvHolds == TGSpec => []GroupInv
  <1>1. GroupInv /\ [TGNext]_tgvars => GroupInv'
    BY StepGroupInv, StutterGroupInv, NextIsTGStep
  <1> QED
    BY <1>1, InitGroupInv, PTL DEF TGSpec

----------------------------------------------------------------------------
(* The queue as the links have it.                                           *)

\* Induction, as a fact about sets: a least number outside of G is the size of
\* a smallest interval of them.
LEMMA EveryNumber ==
  ASSUME NEW G \in SUBSET Nat, 0 \in G, \A n \in G : n + 1 \in G
  PROVE  G = Nat
  <1> SUFFICES ASSUME NEW N \in Nat, N \notin G PROVE FALSE
    OBVIOUS
  <1> DEFINE S == 1..N
             Outside == {X \in SUBSET S : \E n \in 0..N : X = 1..n /\ n \notin G}
  <1>1. IsWellFoundedOn(StrictSubsetOrdering(S), SUBSET S)
    <2>1. IsFiniteSet(S)
      BY FS_Interval
    <2>2. FiniteSubsetsOf(S) = SUBSET S
      BY <2>1, FS_FiniteSubsetsOfFinite
    <2>3. IsWellFoundedOn(StrictSubsetOrdering(S), FiniteSubsetsOf(S))
      BY FS_StrictSubsetOrderingWellFounded
    <2> QED
      BY <2>2, <2>3
  <1>2. Outside \subseteq SUBSET S /\ S \in Outside
    BY N \in 0..N
  <1>3. PICK X \in Outside : \A Y \in Outside : ~ (<<Y, X>> \in StrictSubsetOrdering(S))
    <2> HIDE DEF S, Outside
    <2> QED
      BY <1>1, <1>2, WFMin
  <1>4. PICK n \in 0..N : X = 1..n /\ n \notin G
    OBVIOUS
  <1>5. n # 0 /\ n - 1 \in 0..N /\ (n - 1) + 1 = n
    BY <1>4
  <1>6. 1..(n - 1) \in Outside
    BY <1>4, <1>5
  <1>7. 1..(n - 1) \subseteq 1..n /\ n \in 1..n /\ n \notin 1..(n - 1)
    BY <1>5
  <1>8. <<1..(n - 1), X>> \in StrictSubsetOrdering(S)
    BY <1>4, <1>5, <1>7 DEF StrictSubsetOrdering
  <1> QED
    BY <1>3, <1>6, <1>8

\* A queue is no longer than there are threads.
LEMMA QueueLength ==
  ASSUME NEW s \in Seq(Threads), NoRepeats(s)
  PROVE  Len(s) \in Nat /\ Cardinality(Threads) \in Nat /\ Len(s) =< Cardinality(Threads)
  <1>1. Len(s) \in Nat /\ DOMAIN s = 1..Len(s) /\ s \in [1..Len(s) -> Threads]
    OBVIOUS
  <1>2. Members(s) \subseteq Threads /\ s \in [1..Len(s) -> Members(s)]
    BY <1>1 DEF Members
  <1>3. s \in Bijection(1..Len(s), Members(s))
    BY <1>1, <1>2 DEF Bijection, Injection, Surjection, IsInjective, NoRepeats, Members
  <1>4. ExistsBijection(1..Len(s), Members(s))
    BY <1>3 DEF ExistsBijection
  <1>5. Cardinality(Members(s)) = Len(s)
    BY <1>1, <1>4, FS_CountingElements
  <1> QED
    BY <1>1, <1>2, <1>5, GroupAssumption, FS_Subset, FS_CardinalityType

\* One more of the first of a sequence.
LEMMA OneMore ==
  ASSUME NEW S, NEW s \in Seq(S), NEW k \in Nat, k < Len(s)
  PROVE  /\ Append(SubSeq(s, 1, k), s[k + 1]) = SubSeq(s, 1, k + 1)
         /\ Len(SubSeq(s, 1, k)) = k /\ \A i \in 1..k : SubSeq(s, 1, k)[i] = s[i]
  <1> DEFINE p == SubSeq(s, 1, k)
             q == SubSeq(s, 1, k + 1)
  <1>1. /\ Len(s) \in Nat /\ k + 1 \in 1..Len(s) /\ s[k + 1] \in S
        /\ p \in Seq(S) /\ Len(p) = k /\ \A i \in 1..k : p[i] = s[i]
        /\ q \in Seq(S) /\ Len(q) = k + 1 /\ \A i \in 1..(k + 1) : q[i] = s[i]
    OBVIOUS
  <1> HIDE DEF p, q
  <1>2. /\ Append(p, s[k + 1]) \in Seq(S) /\ Len(Append(p, s[k + 1])) = k + 1
        /\ \A i \in 1..(k + 1) : Append(p, s[k + 1])[i] = s[i]
    BY <1>1
  <1>3. Append(p, s[k + 1]) = q
    BY <1>1, <1>2
  <1> QED
    BY <1>1, <1>3 DEF p, q

FirstOf(s, k) == IF k < Len(s) THEN SubSeq(s, 1, k) ELSE s

\* From the first of the queue to one more of them, as QueueTo goes.
Further(q) ==
  LET first == IF q = <<>> THEN zombie_out ELSE next[q[Len(q)]]
  IN  IF first = None \/ (q # <<>> /\ q[Len(q)] = zombie_in) THEN q ELSE Append(q, first)

\* The links lead from each to the next, and no further than the last.
LEMMA LinksLead ==
  ASSUME NEW s \in Seq(Threads), IsQueue(s), NEW k \in Nat
  PROVE  Further(FirstOf(s, k)) = FirstOf(s, k + 1)
  <1>1. PICK n \in Nat : n = Len(s)
    OBVIOUS
  <1>2. DOMAIN s = 1..n /\ (\A i \in 1..n : s[i] \in Threads) /\ SubSeq(s, 1, n) = s
    BY <1>1
  <1>3. \A j : FirstOf(s, j) = IF j < n THEN SubSeq(s, 1, j) ELSE s
    BY <1>1 DEF FirstOf
  <1>4. CASE n =< k
    <2>1. ~ k < n /\ ~ k + 1 < n
      BY <1>4
    <2>2. FirstOf(s, k) = s /\ FirstOf(s, k + 1) = s
      BY <1>3, <2>1
    <2>3. Further(s) = s
      BY QueueEnds DEF Further
    <2> QED
      BY <2>2, <2>3
  <1>5. CASE k < n
    <2> DEFINE p == SubSeq(s, 1, k)
    <2>1. s # <<>> /\ zombie_out = s[1] /\ zombie_in = s[n]
      <3>1. s # <<>>
        BY <1>1, <1>5
      <3> QED
        BY <1>1, <3>1, QueueEnds
    <2>2. /\ p \in Seq(Threads) /\ Append(p, s[k + 1]) = SubSeq(s, 1, k + 1)
          /\ Len(p) = k /\ \A i \in 1..k : p[i] = s[i]
      BY <1>1, <1>5, OneMore
    <2>3. FirstOf(s, k) = p
      BY <1>3, <1>5
    <2> HIDE DEF p
    <2>4. FirstOf(s, k + 1) = SubSeq(s, 1, k + 1)
      <3>1. k + 1 < n \/ k + 1 = n
        BY <1>5
      <3> QED
        BY <1>2, <1>3, <3>1
    <2>5. p = <<>> <=> k = 0
      BY <2>2
    <2>6. s[k + 1] # None
      <3>1. k + 1 \in 1..n
        BY <1>5
      <3> QED
        BY <1>2, <3>1, CondVarAssumption
    <2>7. Further(p) = Append(p, s[k + 1])
      <3>1. CASE k = 0
        BY <2>1, <2>5, <2>6, <3>1 DEF Further
      <3>2. CASE k # 0
        <4>1. k \in 1..k /\ k \in 1..(n - 1) /\ k \in 1..n /\ n \in 1..n /\ k # n
          BY <1>5, <3>2
        <4>2. p[k] = s[k] /\ next[s[k]] = s[k + 1] /\ s[k] # s[n]
          BY <1>1, <1>2, <2>2, <4>1 DEF IsQueue, NoRepeats
        <4> QED
          BY <2>1, <2>2, <2>5, <2>6, <3>2, <4>2 DEF Further
      <3> QED
        BY <3>1, <3>2
    <2> QED
      BY <2>2, <2>3, <2>4, <2>7
  <1> QED
    BY <1>4, <1>5

\* Followed to the end, the links give the queue.
LEMMA QueueIsLinked ==
  ASSUME NEW s \in Seq(Threads), IsQueue(s)
  PROVE  QueueTo[Cardinality(Threads)] = s /\ Zombies = Members(s)
  <1>1. PICK n : n = Cardinality(Threads)
    OBVIOUS
  <1>2. n \in Nat /\ Len(s) \in Nat /\ Len(s) =< n
    BY <1>1, QueueLength DEF IsQueue
  <1> DEFINE f == [k \in 0..n |-> FirstOf(s, k)]
  <1>3. FirstOf(s, 0) = <<>> /\ FirstOf(s, n) = s
    BY <1>2 DEF FirstOf
  <1>4. f = [k \in 0..n |-> IF k = 0 THEN <<>> ELSE Further(f[k - 1])]
    <2>1. ASSUME NEW k \in 0..n, k # 0 PROVE f[k] = Further(f[k - 1])
      <3>1. k - 1 \in 0..n /\ k - 1 \in Nat /\ (k - 1) + 1 = k
        BY <1>2, <2>1
      <3>2. f[k - 1] = FirstOf(s, k - 1) /\ f[k] = FirstOf(s, k)
        BY <3>1
      <3> QED
        BY <3>1, <3>2, LinksLead
    <2>2. 0 \in 0..n /\ f[0] = <<>>
      BY <1>2, <1>3
    <2> QED
      BY <2>1, <2>2
  <1>5. f = [k \in 0..Cardinality(Threads) |->
               IF k = 0 THEN <<>>
               ELSE LET q == f[k - 1]
                        first == IF q = <<>> THEN zombie_out ELSE next[q[Len(q)]]
                    IN  IF first = None \/ (q # <<>> /\ q[Len(q)] = zombie_in) THEN q ELSE Append(q, first)]
    <2> HIDE DEF f
    <2> QED
      BY <1>1, <1>4 DEF Further
  <1>6. QueueTo = [k \in 0..Cardinality(Threads) |->
               IF k = 0 THEN <<>>
               ELSE LET q == QueueTo[k - 1]
                        first == IF q = <<>> THEN zombie_out ELSE next[q[Len(q)]]
                    IN  IF first = None \/ (q # <<>> /\ q[Len(q)] = zombie_in) THEN q ELSE Append(q, first)]
    <2> HIDE DEF f
    <2> QED
      BY <1>5 DEF QueueTo
  <1>7. \A k \in 0..n : QueueTo[k] = f[k]
    <2> DEFINE H == {k \in Nat : k =< n => QueueTo[k] = f[k]}
    <2> HIDE DEF f
    <2>1. QueueTo = [k \in 0..n |-> IF k = 0 THEN <<>> ELSE Further(QueueTo[k - 1])]
      BY <1>1, <1>6 DEF Further
    <2>2. 0 \in H
      BY <1>2, <1>4, <2>1
    <2>3. ASSUME NEW k \in H PROVE k + 1 \in H
      <3>1. CASE k + 1 =< n
        <4>1. k + 1 \in 0..n /\ k + 1 # 0 /\ (k + 1) - 1 = k /\ QueueTo[k] = f[k]
          BY <1>2, <3>1
        <4>2. QueueTo[k + 1] = Further(QueueTo[k]) /\ f[k + 1] = Further(f[k])
          BY <1>4, <2>1, <4>1
        <4> QED
          BY <4>1, <4>2
      <3>2. CASE ~ k + 1 =< n
        BY <3>2
      <3> QED
        BY <3>1, <3>2
    <2>4. H = Nat
      <3>1. H \in SUBSET Nat
        OBVIOUS
      <3> HIDE DEF H
      <3> QED
        BY <2>2, <2>3, <3>1, EveryNumber
    <2> QED
      BY <2>4
  <1>8. n \in 0..n /\ f[n] = s
    BY <1>2, <1>3
  <1>9. QueueTo[Cardinality(Threads)] = s
    <2> HIDE DEF f
    <2> QED
      BY <1>1, <1>7, <1>8
  <1> QED
    BY <1>9 DEF Zombies

----------------------------------------------------------------------------
(* What thrgrp.c promises.                                                   *)

\* The queue holds whoever has returned and was not taken off it; nobody is
\* taken twice, refused or freed twice, for any number of threads that return
\* and join in any order (thrgrp.c:91-101, 170-190).
THEOREM GroupQueueSoundHolds == TGSpec => []GroupQueueSound
  <1>1. GroupInv => GroupQueueSound
    <2> SUFFICES ASSUME GroupInv PROVE GroupQueueSound
      OBVIOUS
    <2>1. PICK s \in Seq(Threads) : IsQueue(s) /\ HandsOK(Members(s))
      BY DEF GroupInv
    <2>2. Zombies = Members(s) /\ Zombies \subseteq Threads
      BY <2>1, QueueIsLinked, QueueEnds
    <2>3. HandsOK(Zombies)
      BY <2>1, <2>2
    <2>4. \A t \in Returned \ Zombies :
            stack[t] = "freed" \/ \E j \in Threads : taken[j] = t \/ (peer[j] = t /\ at[j] # "cr_unlock")
      BY <2>3 DEF HandsOK, Joins, Joining
    <2> QED
      BY <2>3, <2>4 DEF HandsOK, GroupQueueSound
  <1> QED
    BY <1>1, GroupInvHolds, PTL

\* Nobody sleeps in a join of the group while more have returned than there
\* are signals on their way and joins that will look, nor in a join of a thread
\* that has ended (thrgrp.c:98, 170; thread_lib.c:350-353 against 397-400).
THEOREM JoinersAwakeHolds == TGSpec => []JoinersAwake
  <1>1. GroupInv => JoinersAwake
    <2> SUFFICES ASSUME GroupInv PROVE JoinersAwake
      OBVIOUS
    <2>1. PICK s \in Seq(Threads) : IsQueue(s) /\ AwakeOK(Members(s))
      BY DEF GroupInv
    <2>2. Zombies = Members(s)
      BY <2>1, QueueIsLinked
    <2>3. GroupJoinersAwake
      BY <2>1, <2>2 DEF AwakeOK, GroupJoinersAwake, Sleepers, Lookers, Wakers
    <2> QED
      BY <2>3, JoinerIsWoken DEF GroupInv, JoinersAwake
  <1> QED
    BY <1>1, GroupInvHolds, PTL

\* thrgrp.c calls thread_lib.c, mutex.c and cond_var.c only as their callers
\* may, so that what is promised of them is kept when threads are created and
\* joined through a group (thrgrp.c:75-190).
THEOREM GroupKeepsThreadLib == TGSpec => [](JoinsInOrder /\ BlocksSound) /\ UsesCondVar
  <1>1. GroupInv => JoinsInOrder /\ BlocksSound
    BY BlocksAreSound DEF GroupInv, TLInv
  <1>2. TGInit => CVInit
    BY DEF TGInit, TLInit
  <1>3. GroupInv /\ [TGNext]_tgvars => [CVNext]_cvvars
    <2> SUFFICES ASSUME GroupInv, [TGNext]_tgvars PROVE [CVNext]_cvvars
      OBVIOUS
    <2>1. CASE UNCHANGED tgvars
      BY <2>1 DEF tgvars, vars
    <2>2. CASE TGNext
      <3>1. PICK t \in Threads : TGStep(t)
        BY <2>2, NextIsTGStep
      <3>2. PICK s \in Seq(Threads) : HandsOK(Members(s))
        BY DEF GroupInv
      <3>3. TLStep(t) \/ UNCHANGED vars
        BY <3>1, <3>2, GroupUsesThreadLib DEF GroupInv
      <3>4. LibStep(t) \/ ClientStep(t) \/ UNCHANGED cvvars
        BY <3>3, StepUsesCondVar DEF GroupInv, vars
      <3> QED
        BY <3>4 DEF CVNext
    <2> QED
      BY <2>1, <2>2
  <1> QED
    BY <1>1, <1>2, <1>3, GroupInvHolds, PTL DEF TGSpec, UsesCondVar, CVSpec
=============================================================================
