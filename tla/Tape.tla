-------------------------------- MODULE Tape --------------------------------
(***************************************************************************)
(* The console without rows: a tape of Width * Height cells and a head on  *)
(* one of them.  When the head runs off the end, the tape moves on by      *)
(* Width cells and the head with it.                                       *)
(***************************************************************************)
EXTENDS Integers

CONSTANTS
  Width, Height,
  Vals,    \* what can be printed and shows
  Colors,  \* the colours it can have
  Space,   \* the cell value that a backspace leaves
  Blank    \* the whole cell that comes in at the end

VARIABLES
  tape,   \* the cells
  head,   \* where the next one is printed
  color   \* in which colour

tapevars == <<tape, head, color>>

Length == Width * Height

TInit ==
  /\ \E c \in Colors : tape = [i \in 0..(Length - 1) |-> <<Space, c>>]
  /\ head = 0
  /\ color \in Colors

\* The head goes to h with the cells f, which may be one tape too far.
GoTo(f, h) ==
  IF h < Length THEN tape' = f /\ head' = h
  ELSE /\ tape' = [i \in 0..(Length - 1) |->
                     IF i + Width < Length THEN f[i + Width] ELSE Blank]
       /\ head' = h - Width

Put(v) == GoTo([tape EXCEPT ![head] = <<v, color>>], head + 1) /\ UNCHANGED color

LineFeed == GoTo(tape, head - (head % Width) + Width) /\ UNCHANGED color

LineStart == GoTo(tape, head - (head % Width)) /\ UNCHANGED color

Erase ==
  /\ head > 0
  /\ GoTo([tape EXCEPT ![head - 1] = <<Space, color>>], head - 1)
  /\ UNCHANGED color

\* Only the one who sets the head may do this.
Jump == head' \in 0..(Length - 1) /\ UNCHANGED <<tape, color>>

Recolor == color' \in Colors /\ UNCHANGED <<tape, head>>

TNext == (\E v \in Vals : Put(v)) \/ LineFeed \/ LineStart \/ Erase \/ Recolor
=============================================================================
