------------------------------- MODULE MCVmm -------------------------------
\* Text, a gap and the stack, one page each; text and gap share a directory.
\* Beside it, the checks of arguments over memory of four blocks of two bytes.
EXTENDS VmmProps, ParamCheck

CONSTANTS a, b

LOCAL Range(s, n) == [start |-> s, len |-> n]
MCDirectory == <<1, 1, 2>>
MCText  == Range(1, 1)
MCHeap  == Range(2, 1)
MCStack == Range(3, 1)
MCImage == {MCText, MCStack}
MCAsked == {MCHeap}

\* What passes the checks of system calls is in the task's ranges, but for
\* a readline of a length below zero and for exec
\* (ChecksAgree); this does not depend on the state, and is looked at in the
\* initial one only.
ChecksSound == VmInit => ChecksAgree
=============================================================================
