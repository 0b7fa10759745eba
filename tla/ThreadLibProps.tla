--------------------------- MODULE ThreadLibProps ---------------------------
(***************************************************************************)
(* What thread_lib.c promises, and where its comments promise more.        *)
(***************************************************************************)
EXTENDS ThreadLib

\* The shape of the state.
TLTypeOK ==
  /\ at \in [Threads -> Places]
  /\ peer \in [Threads -> Threads \cup {None}]
  /\ anchorThrds \subseteq Threads
  /\ stack \in [Threads -> StackStates]
  /\ aborted \subseteq Threads /\ freedTwice \subseteq Threads
  /\ runFlag \in [Threads -> {Running, Stopped}]
  /\ pc \in [Threads -> PCs]

\* No assertion of thr_join or thr_exit fails about a thread that is joined by
\* one thread, and its stack is not freed twice (thread_lib.c:320-404), however
\* wrongly others are joined.
JoinsInOrder == JoinedOnce \cap (aborted \cup freedTwice) = {}

\* A control block is freed only when nobody is inside the library with it:
\* its thread has left its last critical section, and nobody waits on its
\* join condition or holds the condition's mutex (thread_lib.c:353-371).
FreedAfterUse ==
  \A u \in JoinedOnce : stack[u] = "freed" =>
    /\ at[u] \in {"ex_vanish", "gone"} /\ pc[u] = "run"
    /\ waiters[u] = <<>> /\ ~ locked[u]
    /\ \A t \in Threads : cv[t] # u

\* A thread that looks for its own control block finds it, although it may
\* run before its creator has put the block on the list: the assertions of
\* cond_wait (cond_var.c:105) and thr_exit (thread_lib.c:391).
KnowsItself ==
  \A t \in Threads :
    pc[t] \in {"cw_wcb", "cw_enq"} \/ at[t] = "ex_mark" => t \in anchorThrds

\* A control block can be found while it is used, and is there; and the state
\* has its shape.
BlocksSound == TLTypeOK /\ KnowsItself /\ FreedAfterUse

\* No join of a thread that has ended is left waiting: once a thread is past its
\* signal, its joiner has been taken off the list and started
\* (thread_lib.c:350-353 against 397-400).
JoinerWoken ==
  \A t, u \in Threads :
    u \in JoinedOnce /\ peer[t] = u /\ at[t] = "jn_wait" /\ at[u] \in {"ex_vanish", "gone"} =>
      /\ runFlag[t] = Running
      /\ \A c \in Conds : \A i \in DOMAIN waiters[c] : waiters[c][i] # t

\* Thread creation, join and exit use mutexes and condition variables as
\* CondVar lets its callers use them.
UsesCondVar == CVSpec
=============================================================================
