------------------------------ MODULE MCTaskLife ------------------------------
(***************************************************************************)
(* TaskLife for TLC.                                                       *)
(***************************************************************************)
EXTENDS TaskLifeProps, ExecArgs, TLC

CONSTANTS init, a, b, f

MCSym == Permutations({a, b})

\* The arguments of exec reach the new program as they were, and a program
\* that cannot be loaded leaves the caller where it was (Arrives, ExecStarts);
\* this does not depend on the state, and is looked at in the initial one only.
ArgumentsArrive == LifeInit => Arrives /\ ExecStarts

\* Nor does what the frames on a thread's kernel stack give back to it, and to
\* its children.
LOCAL F == INSTANCE Frames

FramesKept == LifeInit => F!FramesAgree

=============================================================================
