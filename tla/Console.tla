------------------------------ MODULE Console ------------------------------
(***************************************************************************)
(* The console driver, console_driver.c.  Threads print and set the cursor *)
(* with interrupts on and no lock: an action of theirs is a stretch between*)
(* two accesses to the cursor.  The keyboard's interrupt echoes what is    *)
(* typed in between, all of it in one action.                              *)
(***************************************************************************)
EXTENDS Integers, TLC

CONSTANTS
  Printers,         \* threads in print, set_cursor_pos and set_term_color
  Vals,             \* characters that are printed as they are
  Colors,           \* terminal colours
  Width, Height,    \* CONSOLE_WIDTH, CONSOLE_HEIGHT
  None

ASSUME ConsoleAssumption ==
  /\ {Width, Height} \subseteq Nat \ {0, 1}
  /\ 0 \in Colors

Symmetry == Permutations(Printers)

VARIABLES
  frame,     \* the cells of the screen, row by row: value and colour
  rpos,      \* row of the cursor
  cpos,      \* column of the cursor
  termcolor, \* colour of what is printed
  pc,        \* where every printer is
  chr,       \* the character it prints
  newcol,    \* the column it is still to set
  outside,   \* something that is not the screen has been written
  panicked,  \* an assertion of putbyte has stopped the kernel
  met,       \* history: two have been at it at once
  strayed    \* history: and one where that leads off the screen

cursor == <<rpos, cpos>>
convars == <<frame, cursor, termcolor, pc, chr, newcol, outside, panicked, met, strayed>>

Newline == "nl"
Return == "cr"
Backspace == "bs"
Space == "sp"
Nul == "nul"

Cells == 0..(Width * Height - 1)
Chars == Vals \cup {Newline, Return, Backspace}

Places == {"user", "place", "inc", "wrap", "zero", "row", "scroll", "down", "home",
           "back", "edge", "up", "end", "blank", "check", "col"}

\* After console_drv_init, whose banner is left out.
COInit ==
  /\ frame = [i \in Cells |-> <<Space, 0>>]
  /\ rpos = 0 /\ cpos = 0
  /\ termcolor \in Colors
  /\ pc = [t \in Printers |-> "user"]
  /\ chr = [t \in Printers |-> None]
  /\ newcol = [t \in Printers |-> 0]
  /\ outside = FALSE /\ panicked = FALSE
  /\ met = FALSE /\ strayed = FALSE

----------------------------------------------------------------------------
(* The screen. *)

\* term_get_frame[r][c] = <<v, colour>>: rows lie one behind the other.
Written(f, r, c, v) ==
  LET i == r * Width + c
  IN  IF i \in Cells THEN [f EXCEPT ![i] = <<v, termcolor>>] ELSE f

OffScreen(r, c) == r * Width + c \notin Cells

\* page_scroll: the new row is filled with zeros, not with spaces.
Scrolled(f) ==
  [i \in Cells |-> IF i + Width \in Cells THEN f[i + Width] ELSE <<Nul, 0>>]

LastRow == Height - 1

InFrame(r, c) == r \in 0..LastRow /\ c \in 0..(Width - 1)

----------------------------------------------------------------------------
(* Who is in whose way. *)

At == rpos * Width + cpos

Goes == ~ panicked /\ ~ outside

\* Printer t has left the cursor beside the screen, or has seen a row that is
\* not the last and is to go down from it.
Exposed(t) ==
  \/ pc[t] \in {"wrap", "zero"} /\ cpos >= Width
  \/ pc[t] = "down"
  \/ pc[t] \in {"edge", "up", "end"} /\ cpos < 0

\* Somebody acts while others are inside a call.
Meets(others) == met' = (met \/ \E u \in others : pc[u] # "user")

\* Somebody, a thread or the interrupt, moves the cursor or the rows, or looks
\* whether the cursor is on the screen.
Moves(others) ==
  /\ Meets(others)
  /\ strayed' = (strayed \/ \E u \in others : Exposed(u))

\* The same when the cursor goes back, which it must not do from the top left.
MovesBack(others) ==
  /\ Meets(others)
  /\ strayed' = (strayed \/ At <= 0 \/ \E u \in others : Exposed(u))

----------------------------------------------------------------------------
(* The interrupt. *)

\* Mutant: the last column is one too far to the right.
EchoWide(v) ==
  LET c == IF cpos = Width THEN 0 ELSE cpos + 1
      r == IF c = 0 THEN rpos + 1 ELSE rpos
      f == Written(frame, rpos, cpos, v)
  IN  /\ Goes
      /\ frame' = IF r > LastRow /\ c = 0 THEN Scrolled(f) ELSE f
      /\ rpos' = IF r > LastRow THEN rpos ELSE r
      /\ cpos' = c
      /\ outside' = OffScreen(rpos, cpos)
      /\ panicked' = ~ InFrame(rpos', cpos')
      /\ Moves(Printers)
      /\ UNCHANGED <<termcolor, pc, chr, newcol>>

\* putbytes of one character, from keyb_bottom_half.
Echo(v) ==
  LET c == IF cpos + 1 = Width THEN 0 ELSE cpos + 1
      f == Written(frame, rpos, cpos, v)
      scroll == c = 0 /\ rpos = LastRow
  IN  /\ Goes
      /\ frame' = IF scroll THEN Scrolled(f) ELSE f
      /\ rpos' = IF c = 0 /\ ~ scroll THEN rpos + 1 ELSE rpos
      /\ cpos' = c
      /\ outside' = OffScreen(rpos, cpos)
      /\ panicked' = ~ InFrame(rpos', cpos')
      /\ Moves(Printers)
      /\ UNCHANGED <<termcolor, pc, chr, newcol>>

EchoNewline ==
  /\ Goes
  /\ frame' = IF rpos = LastRow THEN Scrolled(frame) ELSE frame
  /\ rpos' = IF rpos = LastRow THEN rpos ELSE rpos + 1
  /\ cpos' = 0
  /\ panicked' = ~ InFrame(rpos', cpos')
  /\ Moves(Printers)
  /\ UNCHANGED <<termcolor, pc, chr, newcol, outside>>

\* handle_backspace from keyb_bottom_half: no assertion follows.
EchoBackspace ==
  LET r == IF cpos - 1 < 0 THEN rpos - 1 ELSE rpos
      c == IF cpos - 1 < 0 THEN Width - 1 ELSE cpos - 1
  IN  /\ Goes
      /\ rpos' = r /\ cpos' = c
      /\ frame' = Written(frame, r, c, Space)
      /\ outside' = OffScreen(r, c)
      /\ MovesBack(Printers)
      /\ UNCHANGED <<termcolor, pc, chr, newcol, panicked>>

----------------------------------------------------------------------------
(* A thread's calls. *)

Step(t, l, m) == Goes /\ pc[t] = l /\ pc' = [pc EXCEPT ![t] = m]

Quiet == UNCHANGED <<termcolor, chr, newcol, panicked>>

\* A step of t that moves the cursor or changes what is on the screen.
StepMoves(t, l, m) ==
  /\ Step(t, l, m)
  /\ Moves(Printers \ {t})
  /\ Quiet

\* putbyte, as far as the switch.
PutByte(t, ch) ==
  /\ Step(t, "user", CASE ch = Newline -> "row"
                       [] ch = Return -> "home"
                       [] ch = Backspace -> "back"
                       [] OTHER -> "place")
  /\ chr' = [chr EXCEPT ![t] = ch]
  /\ Meets(Printers \ {t})
  /\ UNCHANGED <<frame, cursor, termcolor, newcol, outside, panicked, strayed>>

Place(t) ==
  /\ StepMoves(t, "place", "inc")
  /\ frame' = Written(frame, rpos, cpos, chr[t])
  /\ outside' = OffScreen(rpos, cpos)
  /\ UNCHANGED cursor

Inc(t) ==
  /\ StepMoves(t, "inc", "wrap")
  /\ cpos' = cpos + 1
  /\ UNCHANGED <<frame, rpos, outside>>

Wrap(t) ==
  /\ Step(t, "wrap", IF cpos = Width THEN "zero" ELSE "check")
  /\ Quiet /\ UNCHANGED <<frame, cursor, outside, met, strayed>>

Zero(t) ==
  /\ StepMoves(t, "zero", "row")
  /\ cpos' = 0
  /\ UNCHANGED <<frame, rpos, outside>>

Row(t) ==
  /\ Step(t, "row", IF rpos = LastRow THEN "scroll" ELSE "down")
  /\ Quiet /\ UNCHANGED <<frame, cursor, outside, met, strayed>>

\* Mutant: a break after the new row.
AfterRowBreaks(t) == "check"

\* After a new row, a '\n' goes on as a '\r'.
AfterRow(t) == IF chr[t] = Newline THEN "home" ELSE "check"

Scroll(t) ==
  /\ StepMoves(t, "scroll", AfterRow(t))
  /\ frame' = Scrolled(frame)
  /\ UNCHANGED <<cursor, outside>>

Down(t) ==
  /\ StepMoves(t, "down", AfterRow(t))
  /\ rpos' = rpos + 1
  /\ UNCHANGED <<frame, cpos, outside>>

Home(t) ==
  /\ StepMoves(t, "home", "check")
  /\ cpos' = 0
  /\ UNCHANGED <<frame, rpos, outside>>

\* handle_backspace, statement by statement.
BackCol(t) ==
  /\ Step(t, "back", "edge")
  /\ MovesBack(Printers \ {t}) /\ Quiet
  /\ cpos' = cpos - 1
  /\ UNCHANGED <<frame, rpos, outside>>

Edge(t) ==
  /\ Step(t, "edge", IF cpos < 0 THEN "up" ELSE "blank")
  /\ Quiet /\ UNCHANGED <<frame, cursor, outside, met, strayed>>

Up(t) ==
  /\ StepMoves(t, "up", "end")
  /\ rpos' = rpos - 1
  /\ UNCHANGED <<frame, cpos, outside>>

End(t) ==
  /\ StepMoves(t, "end", "blank")
  /\ cpos' = Width - 1
  /\ UNCHANGED <<frame, rpos, outside>>

BlankIt(t) ==
  /\ StepMoves(t, "blank", "check")
  /\ frame' = Written(frame, rpos, cpos, Space)
  /\ outside' = OffScreen(rpos, cpos)
  /\ UNCHANGED cursor

\* The assertions at the end of putbyte.
Check(t) ==
  /\ Step(t, "check", "user")
  /\ panicked' = ~ InFrame(rpos, cpos)
  /\ chr' = [chr EXCEPT ![t] = None]
  /\ Moves(Printers \ {t})
  /\ UNCHANGED <<frame, cursor, termcolor, newcol, outside>>

\* set_cursor with a position it accepts: the row, then the column.
SetRow(t, row, col) ==
  /\ Step(t, "user", "col")
  /\ InFrame(row, col)
  /\ rpos' = row
  /\ newcol' = [newcol EXCEPT ![t] = col]
  /\ Moves(Printers \ {t})
  /\ UNCHANGED <<frame, cpos, termcolor, chr, outside, panicked>>

SetCol(t) ==
  /\ Step(t, "col", "user")
  /\ cpos' = newcol[t]
  /\ newcol' = [newcol EXCEPT ![t] = 0]
  /\ Moves(Printers \ {t})
  /\ UNCHANGED <<frame, rpos, termcolor, chr, outside, panicked>>

\* set_term_color: one store.
SetTermColor(t, c) ==
  /\ Goes /\ pc[t] = "user"
  /\ termcolor' = c
  /\ Meets(Printers \ {t})
  /\ UNCHANGED <<frame, cursor, pc, chr, newcol, outside, panicked, strayed>>

----------------------------------------------------------------------------

CONext ==
  \/ \E v \in Vals : Echo(v)
  \/ EchoNewline \/ EchoBackspace
  \/ \E t \in Printers :
       \/ \E ch \in Chars : PutByte(t, ch)
       \/ \E row \in -1..Height, col \in -1..Width : SetRow(t, row, col)
       \/ \E c \in Colors : SetTermColor(t, c)
       \/ Place(t) \/ Inc(t) \/ Wrap(t) \/ Zero(t) \/ Row(t) \/ Scroll(t) \/ Down(t)
       \/ Home(t) \/ BackCol(t) \/ Edge(t) \/ Up(t) \/ End(t) \/ BlankIt(t)
       \/ Check(t) \/ SetCol(t)

COSpec == COInit /\ [][CONext]_convars

----------------------------------------------------------------------------
(* What the console promises, and what the want of a lock leaves of it. *)
\* The shape of the state.  Of those that have strayed each may move the cursor
\* once more before anything is written: it has no bounds.
COTypeOK ==
  /\ frame \in [Cells -> (Vals \cup {Space, Nul}) \X Colors]
  /\ rpos \in Int /\ cpos \in Int
  /\ termcolor \in Colors
  /\ pc \in [Printers -> Places]
  /\ chr \in [Printers -> Chars \cup {None}] /\ newcol \in [Printers -> 0..(Width - 1)]

\* The assertions of putbyte hold, nothing beside the screen is written, and
\* the cursor rests on the screen (console_driver.c:218-290): whatever is
\* printed and typed meanwhile, unless somebody acts in the few instructions in
\* which a printer has put the cursor beside the screen or is about to go down,
\* or a '\b' comes when the cursor is at the top left.
CursorKept ==
  ~ strayed =>
    /\ ~ panicked /\ ~ outside
    /\ (\A t \in Printers : pc[t] \in {"user", "col"}) => InFrame(rpos, cpos)

\* That, and the state has its shape.
OnScreen == COTypeOK /\ CursorKept

----------------------------------------------------------------------------
(* The console without rows.  What a printer has begun counts as done.       *)

Busy == {t \in Printers : pc[t] \notin {"user", "place", "back"}}

\* Where the head will be when t is done, before the tape moves.
Ahead(t) ==
  CASE pc[t] = "inc" -> At + 1
    [] pc[t] \in {"row", "scroll", "down"} -> (rpos + 1) * Width
    [] pc[t] = "home" -> rpos * Width
    [] pc[t] = "up" -> rpos * Width - 1
    [] pc[t] = "end" -> rpos * Width + Width - 1
    [] pc[t] = "col" -> rpos * Width + newcol[t]
    [] OTHER -> At

TapeHead == IF met \/ strayed \/ Busy = {} THEN At ELSE Ahead(CHOOSE t \in Busy : TRUE)

Tape == IF \E t \in Busy : pc[t] \in {"edge", "up", "end", "blank"}
        THEN Written(frame, 0, TapeHead, Space)
        ELSE frame

Moved == TapeHead = Width * Height

Con == INSTANCE Tape WITH
  Blank <- <<Nul, 0>>,
  tape <- IF Moved THEN Scrolled(Tape) ELSE Tape,
  head <- IF Moved THEN TapeHead - Width ELSE TapeHead,
  color <- termcolor

SetsCursor == \E t \in Printers : pc[t] = "user" /\ pc'[t] = "col"

\* As long as no two print at once the console is that tape: a character
\* goes to the cell after the last one's, a new line starts at the next
\* multiple of the width, what scrolls off is the oldest row, and nobody but
\* set_cursor_pos goes anywhere else (console_driver.c:195-384).
ImplementsTape ==
  /\ Con!TInit
  /\ [][~ (met' \/ strayed') => IF SetsCursor THEN Con!Jump ELSE Con!TNext]_(Con!tapevars)
=============================================================================
