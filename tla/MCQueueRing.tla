---------------------------- MODULE MCQueueRing ----------------------------
(***************************************************************************)
(* Five elements, three queues on one link field.  Beside them, what       *)
(* kernel and programs are linked with: allocators, the C library and the  *)
(* loader's view of programs.  These have no state of their own: they are  *)
(* compared with what they promise over bounded inputs, in the initial     *)
(* state only.                                                             *)
(***************************************************************************)
EXTENDS QueueRing

CONSTANTS e1, e2, e3, e4, e5, h1, h2, h3

MCElems == {e1, e2, e3, e4, e5}
MCHeads == {h1, h2, h3}

LOCAL K == INSTANCE KernHeap
LOCAL U == INSTANCE UserHeap

LOCAL W == INSTANCE DlinkList

\* What malloc hands out is kept apart, and the lists of free blocks are the
\* free memory, in a program and in the kernel; libthread's lists are the
\* rings that dlink_list.h keeps (RingsAgree), and walks over the kernel's
\* queues see what is on them (WalksSeeAll).
ListsAndHeapsSound == WalksSeeAll /\ (RInit => U!UserHeapAgrees /\ K!KernHeapAgrees /\ W!RingsAgree)

LOCAL D == INSTANCE Division WITH HalfBits <- 3
LOCAL S == INSTANCE Stdio WITH LongBits <- 6, BufMax <- 2
LOCAL L == INSTANCE Library

\* Printing and scanning agree (StdioSound).
PrintsAndScans == RInit => S!StdioSound

\* Division, sorting, copying and the splitting of command lines are right.
\* A quotient of digits of three bits needs every correction there is.
AlgorithmsSound ==
  RInit =>
    /\ L!LibrarySound
    /\ D!DivisionSound({x \in D!Quads : x % 11 = 0}, {y \in 1..511 : y % 3 = 0} \cup {y \in D!Quads : y % 61 = 1})

LOCAL B == INSTANCE UserCalls

\* Gates, controllers, segments and the first tasks' memory are set up for
\* what comes (GatesLead, MachineSetUp, FirstTasksStart), the arguments of
\* system calls reach the handlers behind those gates (CallsArrive), and the
\* cursor is seen where the driver has it (CursorSeen, CellsKept).
MachineStarts ==
  RInit =>
    /\ B!GatesLead /\ B!MachineSetUp /\ B!FirstTasksStart /\ B!CallsArrive
    /\ B!CursorSeen /\ B!CellsKept

----------------------------------------------------------------------------
LOCAL P == INSTANCE Loader WITH
  PageSize <- 4, UserStart <- 8, StackStart <- 32, StackLen <- 8, NrFrames <- 8

Header == [ident |-> "ELF", type |-> "exec", machine |-> "386", version |-> "current"]
Section(n, o, l, s) == [name |-> n, off |-> o, len |-> l, start |-> s]

\* A program whose text starts at t; gaps before constants and data.
Program(t, txtlen, gap1, rodatlen, gap2, datlen, bsslen) ==
  LET r == t + txtlen + gap1
      d == r + rodatlen + gap2
  IN  [execname |-> "p", header |-> Header, entry |-> t,
       sections |-> <<Section(".text", 0, txtlen, t), Section(".data", 100, datlen, d),
                      Section(".rodata", 50, rodatlen, r), Section(".comment", 90, 5, 0),
                      Section(".bss", 103, bsslen, d + datlen)>>]

Programs ==
  {Program(t, tl, g1, rl, g2, dl, bl) :
     t \in 8..10, tl \in {1, 3, 5}, g1 \in 0..2, rl \in {1, 4}, g2 \in 0..3, dl \in {1, 3}, bl \in {0, 3}}

\* Files that cannot be loaded: no program, no constants, none of a length.
Others ==
  {[execname |-> "q", header |-> [Header EXCEPT !.type = "dyn"]],
   [execname |-> "q", header |-> Header, entry |-> 8, sections |-> <<Section(".text", 0, 5, 8)>>],
   [execname |-> "q", header |-> Header, entry |-> 8,
    sections |-> <<Section(".text", 0, 5, 9), Section(".rodata", 5, 0, 16)>>]}

LOCAL H == INSTANCE Shell WITH NameLen <- 4, MaxApps <- 5, LsSize <- 3, LineLen <- 8

\* Names of programs, one as long as its field; a build of all of them, with
\* some stripped, and one that finds a single file.
Names == {<<97>>, <<97, 97>>, <<97, 98>>, <<98, 97, 97>>, <<97, 97, 97, 97>>}
Arguments == UNION {{a \in [1..n -> Names] : \A i, j \in 1..n : i # j => a[i] # a[j]} : n \in 0..5}
Whole(names) == names \X {"whole"}
Stripped(names) == names \X {"strip"}
Hosts ==
  {[f \in Whole(Names) \cup Stripped(s) |-> IF f[2] = "strip" THEN <<3>> ELSE <<1, 2>>] : s \in {{}, {<<97>>, <<98, 97, 97>>}}}
  \cup {[f \in Whole({<<97>>}) |-> <<1, 2>>]}

\* What is typed: up to three of exit, ls, a letter, a blank, a tab, a line feed.
Pieces == {H!ExitWord, H!LsWord, <<97>>, <<32>>, <<9>>, <<10>>}
Lines == {<<>>} \cup {a \o b \o c : a, b, c \in Pieces}

\* exec loads a program completely or not at all (LoadsRight), and what the
\* shell lists and starts are the programs of the build (ShellSound).
ProgramsLoad ==
  RInit =>
    /\ \A p \in Programs, o \in Others : P!LoadsRight(<<o, p, [p EXCEPT !.header = P!NoFile.header]>>)
    /\ H!ShellSound(Hosts, Arguments, Lines)
=============================================================================
