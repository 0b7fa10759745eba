----------------------------- MODULE LineBuffer -----------------------------
(***************************************************************************)
(* What the readers of the keyboard may rely on: a bounded line of         *)
(* characters.  A key is appended, or erases the last one, or is dropped   *)
(* when there is no room; a reader takes the first, or is told that there  *)
(* is none when there is none.                                             *)
(***************************************************************************)
EXTENDS Integers, Sequences

CONSTANTS
  Readers,    \* the threads that read
  Keys,       \* the characters that can be typed
  Backspace,  \* the one of them that erases
  Room,       \* how many characters there is room for
  None,       \* what a call that has only begun has read
  NoChar      \* what it has read when there was nothing

VARIABLES
  line,  \* the characters typed and not read
  read   \* the last character every reader was given

lbvars == <<line, read>>

LBInit == line = <<>> /\ read = [t \in Readers |-> None]

Full == Len(line) = Room

Type(k) ==
  /\ ~ Full /\ k # Backspace
  /\ line' = Append(line, k)
  /\ UNCHANGED read

Erase ==
  /\ line # <<>>
  /\ line' = SubSeq(line, 1, Len(line) - 1)
  /\ UNCHANGED read

Take(t) ==
  /\ line # <<>>
  /\ line' = Tail(line)
  /\ read' = [read EXCEPT ![t] = Head(line)]

Miss(t) ==
  /\ line = <<>>
  /\ read' = [read EXCEPT ![t] = NoChar]
  /\ UNCHANGED line

Begin(t) ==
  /\ read' = [read EXCEPT ![t] = None]
  /\ UNCHANGED line

LBNext ==
  \/ \E k \in Keys : Type(k)
  \/ Erase
  \/ \E t \in Readers : Take(t) \/ Miss(t) \/ Begin(t)
=============================================================================
