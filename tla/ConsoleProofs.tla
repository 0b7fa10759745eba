--------------------------- MODULE ConsoleProofs ---------------------------
(***************************************************************************)
(* Theorems about Console, for any printers and a screen of any size: the  *)
(* cursor keeps to the screen, and the console is a tape, as far as the    *)
(* want of a lock leaves that.                                             *)
(***************************************************************************)
EXTENDS Console, TLAPS

\* The state has its shape, and who is to place a character has one that shows.
ShapeOK == COTypeOK /\ \A t \in Printers : pc[t] = "place" => chr[t] \in Vals

\* Printer t has left the cursor beside the screen.
Beside(t) ==
  \/ pc[t] \in {"wrap", "zero"} /\ cpos >= Width
  \/ pc[t] \in {"edge", "up", "end"} /\ cpos < 0

\* The cursor is on the screen, or one column beside it in the hands of a
\* printer; and what a printer has seen of it still holds.
KeptInv ==
  /\ ~ panicked /\ ~ outside
  /\ rpos \in 0..LastRow /\ cpos \in -1..Width
  /\ cpos \notin 0..(Width - 1) => \E t \in Printers : Beside(t)
  /\ \A t \in Printers :
       /\ pc[t] = "zero" => cpos = Width
       /\ pc[t] \in {"up", "end"} => cpos = -1
       /\ pc[t] \in {"edge", "up"} /\ cpos = -1 => rpos >= 1
       /\ pc[t] = "down" => rpos < LastRow

COInv == ShapeOK /\ (~ strayed => KeptInv)

----------------------------------------------------------------------------
(* The screen. *)

\* The screen has rows and columns.
LEMMA Sizes == Width \in Nat /\ Height \in Nat /\ Width > 1 /\ Height > 1
  BY ConsoleAssumption

\* A row and a column of the screen are a cell of it.
LEMMA CellOf ==
  ASSUME NEW r, NEW c, InFrame(r, c)
  PROVE  r * Width + c \in Cells /\ ~ OffScreen(r, c)
<1>1. r \in 0..(Height - 1) /\ c \in 0..(Width - 1)
  BY DEF InFrame, LastRow
<1>2. r * Width \in Nat /\ Height * Width \in Nat /\ Width * Height = Height * Width
  BY <1>1, Sizes
<1>3. (r + 1) * Width <= Height * Width
  BY <1>1, Sizes
<1>4. (r + 1) * Width = r * Width + Width
  BY <1>1, Sizes
<1> QED
  BY <1>1, <1>2, <1>3, <1>4, Sizes DEF Cells, OffScreen

\* What is written to a screen leaves a screen.
LEMMA WrittenShape ==
  ASSUME NEW f \in [Cells -> (Vals \cup {Space, Nul}) \X Colors], NEW r, NEW c,
         NEW v \in Vals \cup {Space, Nul}, termcolor \in Colors
  PROVE  Written(f, r, c, v) \in [Cells -> (Vals \cup {Space, Nul}) \X Colors]
BY DEF Written

\* So does scrolling.
LEMMA ScrolledShape ==
  ASSUME NEW f \in [Cells -> (Vals \cup {Space, Nul}) \X Colors]
  PROVE  Scrolled(f) \in [Cells -> (Vals \cup {Space, Nul}) \X Colors]
BY ConsoleAssumption DEF Scrolled

----------------------------------------------------------------------------
(* Nobody exposed. *)

\* When nobody is exposed the cursor is on the screen.
LEMMA CursorSafe ==
  ASSUME KeptInv, \A t \in Printers : ~ Exposed(t)
  PROVE  InFrame(rpos, cpos)
BY Sizes DEF KeptInv, InFrame, Beside, Exposed

----------------------------------------------------------------------------
(* The steps. *)

\* The steps of a printer.
PrinterStep(t) ==
  \/ \E ch \in Chars : PutByte(t, ch)
  \/ \E row \in -1..Height, col \in -1..Width : SetRow(t, row, col)
  \/ \E c \in Colors : SetTermColor(t, c)
  \/ Place(t) \/ Inc(t) \/ Wrap(t) \/ Zero(t) \/ Row(t) \/ Scroll(t) \/ Down(t)
  \/ Home(t) \/ BackCol(t) \/ Edge(t) \/ Up(t) \/ End(t) \/ BlankIt(t)
  \/ Check(t) \/ SetCol(t)

\* The interrupt leaves the state in shape.
LEMMA EchoShape ==
  ASSUME ShapeOK, (\E v \in Vals : Echo(v)) \/ EchoNewline \/ EchoBackspace
  PROVE  ShapeOK'
<1>1. CASE \E v \in Vals : Echo(v)
  <2>1. PICK v \in Vals : Echo(v)
    BY <1>1
  <2>2. frame' \in [Cells -> (Vals \cup {Space, Nul}) \X Colors]
    BY <2>1, WrittenShape, ScrolledShape DEF Echo, ShapeOK, COTypeOK
  <2> QED
    BY <2>1, <2>2, Sizes DEF Echo, ShapeOK, COTypeOK, LastRow
<1>2. CASE EchoNewline
  <2>1. frame' \in [Cells -> (Vals \cup {Space, Nul}) \X Colors]
    BY <1>2, ScrolledShape DEF EchoNewline, ShapeOK, COTypeOK
  <2> QED
    BY <1>2, <2>1, Sizes DEF EchoNewline, ShapeOK, COTypeOK, LastRow
<1>3. CASE EchoBackspace
  <2>1. frame' \in [Cells -> (Vals \cup {Space, Nul}) \X Colors]
    BY <1>3, WrittenShape DEF EchoBackspace, ShapeOK, COTypeOK
  <2> QED
    BY <1>3, <2>1, Sizes DEF EchoBackspace, ShapeOK, COTypeOK, LastRow
<1> QED
  BY <1>1, <1>2, <1>3

\* So does a printer.
LEMMA PrinterShape ==
  ASSUME ShapeOK, NEW t \in Printers, PrinterStep(t)
  PROVE  ShapeOK'
<1> USE DEF ShapeOK, COTypeOK, Step, StepMoves, Quiet, Places, cursor
<1>1. CASE \E ch \in Chars : PutByte(t, ch)
  BY <1>1 DEF PutByte, Chars, Newline, Return, Backspace
<1>2. CASE \E row \in -1..Height, col \in -1..Width : SetRow(t, row, col)
  BY <1>2, Sizes DEF SetRow, InFrame, LastRow
<1>3. CASE \E c \in Colors : SetTermColor(t, c)
  BY <1>3 DEF SetTermColor
<1>4. CASE Place(t)
  BY <1>4, WrittenShape DEF Place
<1>5. CASE Inc(t) \/ Wrap(t) \/ Zero(t) \/ Row(t) \/ Down(t) \/ Home(t)
  BY <1>5 DEF Inc, Wrap, Zero, Row, Down, Home, AfterRow
<1>6. CASE Scroll(t)
  BY <1>6, ScrolledShape DEF Scroll, AfterRow
<1>7. CASE BackCol(t) \/ Edge(t) \/ Up(t) \/ End(t)
  BY <1>7, Sizes DEF BackCol, Edge, Up, End
<1>8. CASE BlankIt(t)
  BY <1>8, WrittenShape DEF BlankIt
<1>9. CASE Check(t) \/ SetCol(t)
  BY <1>9, Sizes DEF Check, SetCol
<1> QED
  BY <1>1, <1>2, <1>3, <1>4, <1>5, <1>6, <1>7, <1>8, <1>9 DEF PrinterStep

----------------------------------------------------------------------------
(* The cursor keeps to the screen. *)

\* The interrupt that strays nowhere finds the cursor on the screen, and
\* leaves it there.
LEMMA EchoKept ==
  ASSUME COInv, ~ strayed', (\E v \in Vals : Echo(v)) \/ EchoNewline \/ EchoBackspace
  PROVE  KeptInv'
<1>1. ~ strayed /\ \A u \in Printers : ~ Exposed(u)
  BY DEF Echo, EchoNewline, EchoBackspace, Moves, MovesBack
<1>2. KeptInv /\ InFrame(rpos, cpos)
  BY <1>1, CursorSafe DEF COInv
<1>3. pc' = pc /\ \A u \in Printers : pc[u] \notin {"zero", "up", "end", "down"}
  BY <1>1, <1>2, Sizes DEF Echo, EchoNewline, EchoBackspace, KeptInv, Exposed
<1>4. InFrame(rpos', cpos') /\ ~ panicked' /\ ~ outside'
  <2>1. CASE \E v \in Vals : Echo(v)
    <3>1. ~ OffScreen(rpos, cpos)
      BY <1>2, CellOf
    <3>2. InFrame(rpos', cpos')
      BY <1>2, <2>1, Sizes DEF Echo, InFrame, LastRow
    <3> QED
      BY <2>1, <3>1, <3>2 DEF Echo
  <2>2. CASE EchoNewline
    <3>1. InFrame(rpos', cpos')
      BY <1>2, <2>2, Sizes DEF EchoNewline, InFrame, LastRow
    <3> QED
      BY <1>2, <2>2, <3>1 DEF EchoNewline, KeptInv
  <2>3. CASE EchoBackspace
    <3>1. ~ (rpos * Width + cpos <= 0)
      BY <2>3 DEF EchoBackspace, MovesBack, At
    <3>2. ~ (rpos = 0 /\ cpos = 0)
      BY <3>1, Sizes
    <3>3. InFrame(rpos', cpos')
      BY <1>2, <2>3, <3>2, Sizes DEF EchoBackspace, InFrame, LastRow
    <3>4. ~ OffScreen(rpos', cpos')
      BY <3>3, CellOf
    <3> QED
      BY <1>2, <2>3, <3>3, <3>4 DEF EchoBackspace, KeptInv
  <2> QED
    BY <2>1, <2>2, <2>3
<1> QED
  BY <1>3, <1>4, Sizes DEF KeptInv, InFrame

\* A step of a printer that moves anything and strays nowhere finds the cursor
\* on the screen, if the printer is not exposed itself.
LEMMA FindsCursor ==
  ASSUME COInv, ~ strayed', NEW t \in Printers,
         Moves(Printers \ {t}) \/ MovesBack(Printers \ {t})
  PROVE  /\ ~ strayed /\ KeptInv
         /\ \A u \in Printers \ {t} : ~ Exposed(u)
         /\ ~ Exposed(t) => InFrame(rpos, cpos)
<1>1. ~ strayed /\ \A u \in Printers \ {t} : ~ Exposed(u)
  BY DEF Moves, MovesBack
<1>2. KeptInv
  BY <1>1 DEF COInv
<1> QED
  BY <1>1, <1>2, CursorSafe

\* While nobody else is exposed the others' places say nothing of the cursor.
LEMMA OthersSafe ==
  ASSUME KeptInv, NEW t \in Printers, \A u \in Printers \ {t} : ~ Exposed(u)
  PROVE  \A u \in Printers \ {t} : pc[u] \notin {"zero", "up", "end", "down"}
<1> SUFFICES ASSUME NEW u \in Printers \ {t} PROVE pc[u] \notin {"zero", "up", "end", "down"}
  OBVIOUS
<1>1. ~ (pc[u] \in {"wrap", "zero"} /\ cpos >= Width) /\ pc[u] # "down"
  BY DEF Exposed
<1>2. ~ (pc[u] \in {"edge", "up", "end"} /\ cpos < 0)
  BY DEF Exposed
<1>3. (pc[u] = "zero" => cpos = Width) /\ (pc[u] \in {"up", "end"} => cpos = -1)
  BY DEF KeptInv
<1>4. Width >= Width /\ -1 < 0
  BY Sizes
<1> QED
  BY <1>1, <1>2, <1>3, <1>4

\* Steps that look only, and those that start a call.
LEMMA LookKept ==
  ASSUME COInv, ~ strayed', NEW t \in Printers,
         \/ Wrap(t) \/ Row(t) \/ Edge(t)
         \/ \E ch \in Chars : PutByte(t, ch)
         \/ \E c \in Colors : SetTermColor(t, c)
  PROVE  KeptInv'
<1>1. /\ ~ strayed /\ KeptInv /\ pc \in [Printers -> Places]
      /\ UNCHANGED <<rpos, cpos, outside, panicked>>
  BY DEF COInv, ShapeOK, COTypeOK, Wrap, Row, Edge, PutByte, SetTermColor, Quiet, cursor
<1>2. ASSUME NEW u \in Printers, Beside(u)
      PROVE  \E w \in Printers : Beside(w)'
  <2>1. CASE u # t
    BY <1>1, <1>2, <2>1 DEF Wrap, Row, Edge, PutByte, SetTermColor, Step, Beside
  <2>2. CASE u = t /\ Wrap(t)
    BY <1>1, <1>2, <2>2, Sizes DEF Wrap, Step, Beside, KeptInv
  <2>3. CASE u = t /\ Edge(t)
    BY <1>1, <1>2, <2>3, Sizes DEF Edge, Step, Beside, KeptInv
  <2>4. CASE u = t /\ ~ Wrap(t) /\ ~ Edge(t)
    BY <1>1, <1>2, <2>4 DEF Row, PutByte, SetTermColor, Step, Beside
  <2> QED
    BY <2>1, <2>2, <2>3, <2>4
<1>3. /\ ~ panicked' /\ ~ outside'
      /\ rpos' \in 0..LastRow /\ cpos' \in -1..Width
      /\ cpos' \notin 0..(Width - 1) => \E w \in Printers : Beside(w)'
  BY <1>1, <1>2 DEF KeptInv, LastRow
<1>4. ASSUME NEW u \in Printers
      PROVE  /\ pc'[u] = "zero" => cpos' = Width
             /\ pc'[u] \in {"up", "end"} => cpos' = -1
             /\ pc'[u] \in {"edge", "up"} /\ cpos' = -1 => rpos' >= 1
             /\ pc'[u] = "down" => rpos' < LastRow
  <2>1. CASE u # t
    BY <1>1, <2>1 DEF Wrap, Row, Edge, PutByte, SetTermColor, Step, KeptInv
  <2>2. CASE u = t /\ Wrap(t)
    BY <1>1, <2>2 DEF Wrap, Step, KeptInv
  <2>3. CASE u = t /\ Row(t)
    BY <1>1, <2>3, Sizes DEF Row, Step, KeptInv, LastRow
  <2>4. CASE u = t /\ Edge(t)
    BY <1>1, <2>4, Sizes DEF Edge, Step, KeptInv
  <2>5. CASE u = t /\ \E ch \in Chars : PutByte(t, ch)
    BY <1>1, <2>5 DEF PutByte, Step
  <2>6. CASE u = t /\ \E c \in Colors : SetTermColor(t, c)
    BY <1>1, <2>6 DEF SetTermColor
  <2> QED
    BY <2>1, <2>2, <2>3, <2>4, <2>5, <2>6
<1> QED
  BY <1>3, <1>4 DEF KeptInv

\* Steps that move the cursor or write.
LEMMA MoveKept ==
  ASSUME COInv, ~ strayed', NEW t \in Printers,
         \/ Place(t) \/ Inc(t) \/ Zero(t) \/ Scroll(t) \/ Down(t) \/ Home(t)
         \/ BackCol(t) \/ Up(t) \/ End(t) \/ BlankIt(t) \/ Check(t) \/ SetCol(t)
         \/ \E row \in -1..Height, col \in -1..Width : SetRow(t, row, col)
  PROVE  KeptInv'
<1>1. /\ ~ strayed /\ KeptInv
      /\ \A u \in Printers \ {t} : ~ Exposed(u)
      /\ ~ Exposed(t) => InFrame(rpos, cpos)
  <2>1. Moves(Printers \ {t}) \/ MovesBack(Printers \ {t})
    BY DEF Place, Inc, Zero, Scroll, Down, Home, BackCol, Up, End, BlankIt, Check, SetCol,
       SetRow, StepMoves
  <2> QED
    BY <2>1, FindsCursor
<1>2. \A u \in Printers \ {t} : pc[u] \notin {"zero", "up", "end", "down"}
  BY <1>1, OthersSafe
<1>3. pc \in [Printers -> Places] /\ newcol[t] \in 0..(Width - 1)
  BY DEF COInv, ShapeOK, COTypeOK
<1>4. \A u \in Printers \ {t} : pc'[u] = pc[u]
  BY <1>3 DEF Place, Inc, Zero, Scroll, Down, Home, BackCol, Up, End, BlankIt, Check, SetCol,
     SetRow, StepMoves, Step
<1>5. ASSUME InFrame(rpos', cpos'), ~ panicked', ~ outside',
             pc'[t] \notin {"zero", "up", "end", "down"}
      PROVE  KeptInv'
  BY <1>2, <1>4, <1>5, Sizes DEF KeptInv, InFrame
<1>6. CASE Place(t) \/ BlankIt(t)
  <2>1. ~ Exposed(t)
    BY <1>6 DEF Place, BlankIt, StepMoves, Step, Exposed
  <2>2. ~ OffScreen(rpos, cpos) /\ InFrame(rpos, cpos)
    BY <1>1, <2>1, CellOf
  <2>3. ~ outside'
    BY <1>6, <2>2 DEF Place, BlankIt
  <2>4. InFrame(rpos', cpos') /\ ~ panicked' /\ pc'[t] \in {"inc", "check"}
    BY <1>1, <1>3, <1>6, <2>2 DEF Place, BlankIt, StepMoves, Step, Quiet, cursor, KeptInv
  <2> QED
    BY <1>5, <2>3, <2>4
<1>7. CASE Inc(t)
  <2>1. InFrame(rpos, cpos) /\ pc'[t] = "wrap" /\ rpos' = rpos /\ cpos' = cpos + 1
    BY <1>1, <1>3, <1>7 DEF Inc, StepMoves, Step, Exposed
  <2>2. ~ panicked' /\ ~ outside'
    BY <1>1, <1>7 DEF Inc, StepMoves, Quiet, KeptInv
  <2>3. cpos' \in 0..(Width - 1) \/ cpos' = Width
    BY <2>1, Sizes DEF InFrame
  <2>4. CASE cpos' \in 0..(Width - 1)
    BY <1>5, <2>1, <2>2, <2>4 DEF InFrame
  <2>5. CASE cpos' = Width
    <3>1. Beside(t)'
      BY <2>1, <2>5, Sizes DEF Beside
    <3> QED
      BY <1>2, <1>4, <2>1, <2>2, <2>5, <3>1, Sizes DEF KeptInv, InFrame
  <2> QED
    BY <2>3, <2>4, <2>5
<1>8. CASE Zero(t) \/ Home(t)
  <2>1. rpos' = rpos /\ cpos' = 0 /\ pc'[t] \in {"row", "check"} /\ ~ panicked' /\ ~ outside'
    BY <1>1, <1>3, <1>8 DEF Zero, Home, StepMoves, Step, Quiet, KeptInv
  <2>2. InFrame(rpos', cpos')
    BY <1>1, <2>1, Sizes DEF KeptInv, InFrame
  <2> QED
    BY <1>5, <2>1, <2>2
<1>9. CASE Scroll(t) \/ Down(t)
  <2>1. cpos' = cpos /\ pc'[t] \in {"home", "check"} /\ ~ panicked' /\ ~ outside'
    BY <1>1, <1>3, <1>9 DEF Scroll, Down, StepMoves, Step, Quiet, KeptInv, AfterRow, cursor
  <2>2. InFrame(rpos', cpos')
    <3>1. CASE Scroll(t)
      BY <1>1, <3>1 DEF Scroll, StepMoves, Step, Exposed, cursor
    <3>2. CASE Down(t)
      <4>1. cpos \in 0..(Width - 1)
        BY <1>1, <1>2, <3>2, Sizes DEF KeptInv, Beside, Exposed, Down, StepMoves, Step
      <4> QED
        BY <1>1, <3>2, <4>1, Sizes DEF KeptInv, InFrame, Down, StepMoves, Step, LastRow
    <3> QED
      BY <1>9, <3>1, <3>2
  <2> QED
    BY <1>5, <2>1, <2>2
<1>10. CASE BackCol(t)
  <2>1. /\ InFrame(rpos, cpos) /\ pc'[t] = "edge" /\ rpos' = rpos /\ cpos' = cpos - 1
        /\ ~ panicked' /\ ~ outside'
    BY <1>1, <1>3, <1>10 DEF BackCol, Step, Quiet, Exposed, KeptInv
  <2>2. ~ (rpos * Width + cpos <= 0)
    BY <1>10 DEF BackCol, MovesBack, At
  <2>3. ~ (rpos = 0 /\ cpos = 0)
    BY <2>2, Sizes
  <2>4. CASE cpos' \in 0..(Width - 1)
    BY <1>5, <2>1, <2>4 DEF InFrame
  <2>5. CASE cpos' = -1
    <3>1. Beside(t)' /\ rpos' >= 1
      BY <2>1, <2>3, <2>5, Sizes DEF Beside, InFrame, LastRow
    <3>2. rpos' \in 0..LastRow /\ cpos' \in -1..Width
      BY <2>1, <2>5, Sizes DEF InFrame
    <3> QED
      BY <1>2, <1>4, <2>1, <2>5, <3>1, <3>2 DEF KeptInv
  <2> QED
    BY <2>1, <2>4, <2>5, Sizes DEF InFrame
<1>11. CASE Up(t)
  <2>1. /\ cpos = -1 /\ rpos >= 1 /\ pc'[t] = "end" /\ rpos' = rpos - 1 /\ cpos' = cpos
        /\ ~ panicked' /\ ~ outside' /\ rpos \in 0..LastRow
    BY <1>1, <1>3, <1>11 DEF Up, StepMoves, Step, Quiet, KeptInv
  <2>2. Beside(t)' /\ rpos' \in 0..LastRow /\ cpos' \in -1..Width
    BY <2>1, Sizes DEF Beside, LastRow
  <2>3. \A u \in Printers \ {t} : pc[u] # "edge"
    BY <1>1, <2>1 DEF Exposed
  <2> QED
    BY <1>2, <1>4, <2>1, <2>2, <2>3 DEF KeptInv
<1>12. CASE End(t)
  <2>1. /\ pc'[t] = "blank" /\ rpos' = rpos /\ cpos' = Width - 1 /\ ~ panicked' /\ ~ outside'
    BY <1>1, <1>3, <1>12 DEF End, StepMoves, Step, Quiet, KeptInv
  <2>2. InFrame(rpos', cpos')
    BY <1>1, <2>1, Sizes DEF InFrame, KeptInv
  <2> QED
    BY <1>5, <2>1, <2>2
<1>13. CASE Check(t)
  <2>1. InFrame(rpos, cpos)
    BY <1>1, <1>13 DEF Check, Step, Exposed
  <2>2. /\ rpos' = rpos /\ cpos' = cpos /\ pc'[t] = "user" /\ ~ panicked' /\ ~ outside'
    BY <1>1, <1>3, <1>13, <2>1 DEF Check, Step, cursor, KeptInv
  <2> QED
    BY <1>5, <2>1, <2>2
<1>14. CASE SetCol(t)
  <2>1. /\ rpos' = rpos /\ cpos' \in 0..(Width - 1) /\ pc'[t] = "user" /\ ~ panicked' /\ ~ outside'
    BY <1>1, <1>3, <1>14 DEF SetCol, Step, KeptInv
  <2>2. InFrame(rpos', cpos')
    BY <1>1, <2>1 DEF InFrame, KeptInv
  <2> QED
    BY <1>5, <2>1, <2>2
<1>15. ASSUME NEW row \in -1..Height, NEW col \in -1..Width, SetRow(t, row, col)
       PROVE  KeptInv'
  <2>1. InFrame(rpos, cpos)
    BY <1>1, <1>15 DEF SetRow, Step, Exposed
  <2>2. /\ rpos' = row /\ cpos' = cpos /\ pc'[t] = "col" /\ ~ panicked' /\ ~ outside'
        /\ InFrame(row, col)
    BY <1>1, <1>3, <1>15 DEF SetRow, Step, KeptInv
  <2>3. InFrame(rpos', cpos')
    BY <2>1, <2>2 DEF InFrame
  <2> QED
    BY <1>5, <2>2, <2>3
<1> QED
  BY <1>6, <1>7, <1>8, <1>9, <1>10, <1>11, <1>12, <1>13, <1>14, <1>15

\* Every step keeps the invariant.
LEMMA StepCOInv == COInv /\ [CONext]_convars => COInv'
<1> SUFFICES ASSUME COInv, [CONext]_convars PROVE COInv'
  OBVIOUS
<1>1. CASE (\E v \in Vals : Echo(v)) \/ EchoNewline \/ EchoBackspace
  BY <1>1, EchoShape, EchoKept DEF COInv
<1>2. CASE \E t \in Printers : PrinterStep(t)
  <2>1. PICK t \in Printers : PrinterStep(t)
    BY <1>2
  <2>2. ShapeOK'
    BY <2>1, PrinterShape DEF COInv
  <2>3. ASSUME ~ strayed' PROVE KeptInv'
    BY <2>1, <2>3, LookKept, MoveKept DEF PrinterStep
  <2> QED
    BY <2>2, <2>3 DEF COInv
<1>3. CASE UNCHANGED convars
  BY <1>3 DEF convars, cursor, COInv, ShapeOK, COTypeOK, KeptInv, Beside
<1> QED
  BY <1>1, <1>2, <1>3 DEF CONext, PrinterStep

\* The invariant holds in every state.
THEOREM COInvHolds == COSpec => []COInv
<1>1. COInit => COInv
  BY Sizes, ConsoleAssumption
  DEF COInit, COInv, ShapeOK, COTypeOK, KeptInv, LastRow, Places, Beside
<1> QED
  BY <1>1, StepCOInv, PTL DEF COSpec

\* Whatever is printed and typed meanwhile, no assertion of putbyte fails,
\* nothing beside the screen is written and the cursor rests on the screen, as
\* long as nobody acts while a printer is exposed and no '\b' comes at the top
\* left; and the state has its shape.
THEOREM OnScreenHolds == COSpec => []OnScreen
<1>1. COInv => OnScreen
  BY CursorSafe DEF COInv, ShapeOK, OnScreen, CursorKept, KeptInv, Exposed
<1> QED
  BY <1>1, COInvHolds, PTL

----------------------------------------------------------------------------
(* One printer at a time. *)

\* As long as no two have met, at most one is in a call, and what it has seen
\* of the cursor is so.
LoneInv ==
  ~ met =>
    /\ \A t, u \in Printers : pc[t] # "user" /\ pc[u] # "user" => t = u
    /\ ~ strayed => \A t \in Printers :
         /\ pc[t] = "scroll" => rpos = LastRow
         /\ pc[t] \in {"row", "scroll", "down"} /\ chr[t] # Newline => cpos = 0

TapeInv == COInv /\ LoneInv

\* Nobody meets anybody whom the step does not find outside.
LEMMA StepLoneInv == COInv /\ LoneInv /\ [CONext]_convars => LoneInv'
<1> SUFFICES ASSUME COInv, LoneInv, [CONext]_convars, ~ met'
             PROVE  LoneInv'
  BY DEF LoneInv
<1> USE DEF LoneInv
<1>1. pc \in [Printers -> Places] /\ chr \in [Printers -> Chars \cup {None}]
  BY DEF COInv, ShapeOK, COTypeOK
<1>2. CASE (\E v \in Vals : Echo(v)) \/ EchoNewline \/ EchoBackspace
  <2>1. ~ met /\ \A u \in Printers : pc[u] = "user"
    BY <1>2 DEF Echo, EchoNewline, EchoBackspace, Moves, MovesBack, Meets
  <2>2. pc' = pc
    BY <1>2 DEF Echo, EchoNewline, EchoBackspace
  <2> QED
    BY <2>1, <2>2
<1>3. ASSUME NEW t \in Printers, PrinterStep(t)
      PROVE  LoneInv'
  <2>1. CASE Wrap(t) \/ Row(t) \/ Edge(t)
    <3>1. ~ met /\ UNCHANGED <<rpos, cpos, chr>> /\ (~ strayed' => ~ strayed)
      BY <2>1 DEF Wrap, Row, Edge, Quiet, cursor
    <3>2. pc[t] # "user" /\ \A u \in Printers \ {t} : pc[u] = "user" /\ pc'[u] = "user"
      BY <1>1, <2>1, <3>1 DEF Wrap, Row, Edge, Step
    <3>3. /\ pc'[t] = "scroll" => rpos = LastRow
          /\ pc'[t] \in {"row", "scroll", "down"} => pc[t] = "row"
      BY <1>1, <2>1 DEF Wrap, Row, Edge, Step
    <3> QED
      BY <3>1, <3>2, <3>3
  <2>2. CASE ~ (Wrap(t) \/ Row(t) \/ Edge(t))
    <3>1. Meets(Printers \ {t})
      BY <1>3, <2>2 DEF PrinterStep, PutByte, SetRow, SetTermColor, Place, Inc, Zero, Scroll,
         Down, Home, BackCol, Up, End, BlankIt, Check, SetCol, StepMoves, Moves, MovesBack
    <3>2. ~ met /\ \A u \in Printers \ {t} : pc[u] = "user"
      BY <3>1 DEF Meets
    <3>3. \A u \in Printers \ {t} : pc'[u] = "user"
      BY <1>1, <1>3, <2>2, <3>2 DEF PrinterStep, PutByte, SetRow, SetTermColor, Place, Inc,
         Zero, Scroll, Down, Home, BackCol, Up, End, BlankIt, Check, SetCol, StepMoves, Step
    <3>4. /\ pc'[t] # "scroll"
          /\ pc'[t] \in {"row", "scroll", "down"} /\ chr'[t] # Newline => cpos' = 0
      <4>1. CASE \E ch \in Chars : PutByte(t, ch)
        BY <1>1, <4>1 DEF PutByte, Step
      <4>2. CASE \E row \in -1..Height, col \in -1..Width : SetRow(t, row, col)
        BY <1>1, <4>2 DEF SetRow, Step
      <4>3. CASE \E c \in Colors : SetTermColor(t, c)
        BY <1>1, <4>3 DEF SetTermColor
      <4>4. CASE Place(t) \/ Inc(t) \/ Zero(t) \/ Scroll(t) \/ Down(t) \/ Home(t)
        BY <1>1, <4>4 DEF Place, Inc, Zero, Scroll, Down, Home, StepMoves, Step, AfterRow
      <4>5. CASE BackCol(t) \/ Up(t) \/ End(t) \/ BlankIt(t) \/ Check(t) \/ SetCol(t)
        BY <1>1, <4>5 DEF BackCol, Up, End, BlankIt, Check, SetCol, StepMoves, Step
      <4> QED
        BY <1>3, <2>2, <4>1, <4>2, <4>3, <4>4, <4>5 DEF PrinterStep
    <3> QED
      BY <3>2, <3>3, <3>4
  <2> QED
    BY <2>1, <2>2
<1>4. CASE UNCHANGED convars
  BY <1>4 DEF convars, cursor
<1> QED
  BY <1>2, <1>3, <1>4 DEF CONext, PrinterStep

----------------------------------------------------------------------------
(* The tape. *)

\* With nobody in a call the head is the cursor.
RawIdle == TapeHead = At /\ Tape = frame

\* Printer t is in a call that has begun.
RawBusy(t) ==
  /\ TapeHead = Ahead(t)
  /\ Tape = IF pc[t] \in {"edge", "up", "end", "blank"}
            THEN Written(frame, 0, Ahead(t), Space) ELSE frame

\* Where the places are that have not begun.
Outside == {"user", "place", "back"}

\* Printer t has begun and nobody else is in a call.
Alone(t) ==
  /\ ~ met /\ ~ strayed
  /\ pc[t] \notin Outside
  /\ \A u \in Printers \ {t} : pc[u] = "user"

\* Nobody has begun.
LEMMA IdleNow ==
  (\A u \in Printers : pc[u] \in Outside) => RawIdle
<1> SUFFICES ASSUME \A u \in Printers : pc[u] \in Outside PROVE RawIdle
  OBVIOUS
<1>1. Busy = {}
  BY DEF Busy, Outside
<1>2. TapeHead = At
  BY <1>1 DEF TapeHead
<1>3. Tape = frame
  BY <1>1 DEF Tape
<1> QED
  BY <1>2, <1>3 DEF RawIdle

\* One has begun, and no other.
LEMMA BusyNow ==
  ASSUME NEW t \in Printers
  PROVE  Alone(t) => RawBusy(t)
<1> SUFFICES ASSUME Alone(t) PROVE RawBusy(t)
  OBVIOUS
<1> USE DEF Alone
<1>1. Busy = {t}
  BY DEF Busy, Outside
<1>2. (CHOOSE u \in Busy : TRUE) = t
  BY <1>1
<1>3. TapeHead = Ahead(t)
  BY <1>1, <1>2 DEF TapeHead
<1>4. Tape = IF pc[t] \in {"edge", "up", "end", "blank"}
             THEN Written(frame, 0, TapeHead, Space) ELSE frame
  BY <1>1 DEF Tape
<1> QED
  BY <1>3, <1>4 DEF RawBusy

\* The tape does not see what moves neither head nor cells.
LEMMA TapeStutters ==
  ASSUME TapeHead' = TapeHead, Tape' = Tape, termcolor' = termcolor
  PROVE  UNCHANGED Con!tapevars
BY DEF Con!tapevars, Moved, Scrolled, Cells

\* The head, which is not at the end, goes to h with the cells f.
LEMMA TapeGoes ==
  ASSUME NEW f, NEW h \in Int, TapeHead < Width * Height,
         h <= Width * Height, Tape' = f, TapeHead' = h
  PROVE  Con!GoTo(f, h)
<1>1. Width * Height \in Int
  BY Sizes
<1>2. CASE h < Width * Height
  BY <1>1, <1>2 DEF Con!GoTo, Con!Length, Moved
<1>3. CASE h = Width * Height
  <2>1. [i \in 0..(Width * Height - 1) |->
            IF i + Width < Width * Height THEN f[i + Width] ELSE <<Nul, 0>>] = Scrolled(f)
    BY <1>1, Sizes DEF Scrolled, Cells
  <2>2. Moved' /\ Scrolled(Tape)' = Scrolled(f)
    BY <1>3 DEF Moved, Scrolled, Cells
  <2> QED
    BY <1>1, <1>3, <2>1, <2>2 DEF Con!GoTo, Con!Length
<1> QED
  BY <1>1, <1>2, <1>3

\* The same of the next state.
LEMMA IdleNext ==
  (\A u \in Printers : pc'[u] \in Outside) => RawIdle'
<1>1. (\A u \in Printers : pc[u] \in Outside) => RawIdle
  BY IdleNow
<1>2. ((\A u \in Printers : pc[u] \in Outside) => RawIdle)'
  BY <1>1, PTL
<1> QED
  BY <1>2

\* And of one that has begun there.
LEMMA BusyNext ==
  ASSUME NEW t \in Printers
  PROVE  Alone(t)' => RawBusy(t)'
<1>1. Alone(t) => RawBusy(t)
  BY BusyNow
<1>2. (Alone(t) => RawBusy(t))'
  BY <1>1, PTL
<1> QED
  BY <1>2

\* A row is as long as the screen is wide.
LEMMA RowOf ==
  ASSUME NEW r \in Nat, NEW c \in 0..(Width - 1)
  PROVE  /\ (r * Width + c) % Width = c
         /\ r * Width \in Nat
         /\ (r + 1) * Width = r * Width + Width
         /\ (r - 1) * Width = r * Width - Width
<1>1. r * Width \in Nat /\ (r + 1) * Width = r * Width + Width /\ (r - 1) * Width = r * Width - Width
  BY Sizes
<1>2. (r * Width + c) % Width = c
  <2> DEFINE a == r * Width + c
             k == a \div Width
             m == a % Width
  <2>1. a \in Int /\ k \in Int /\ m \in 0..(Width - 1) /\ a = Width * k + m
    BY Sizes, <1>1
  <2>2. CASE k > r
    <3>1. Width * (k - r) >= Width
      BY <2>1, <2>2, Sizes
    <3> QED
      BY <2>1, <3>1, Sizes
  <2>3. CASE k < r
    <3>1. Width * (r - k) >= Width
      BY <2>1, <2>3, Sizes
    <3> QED
      BY <2>1, <3>1, Sizes
  <2> QED
    BY <2>1, <2>2, <2>3, Sizes
<1> QED
  BY <1>1, <1>2

\* The head runs off the end, and the console scrolls in the same step.
LEMMA TapeScrolls ==
  ASSUME NEW f, TapeHead < Width * Height,
         Tape' = Scrolled(f), TapeHead' = Width * Height - Width
  PROVE  Con!GoTo(f, Width * Height)
<1>1. Width * Height \in Int /\ Width * Height - Width < Width * Height
  BY Sizes
<1>2. [i \in 0..(Width * Height - 1) |->
          IF i + Width < Width * Height THEN f[i + Width] ELSE <<Nul, 0>>] = Scrolled(f)
  BY <1>1, Sizes DEF Scrolled, Cells
<1> QED
  BY <1>1, <1>2 DEF Con!GoTo, Con!Length, Moved

\* A tape whose head is on it is the cells, and the head.
LEMMA Unmoved ==
  ASSUME TapeHead < Width * Height
  PROVE  /\ ~ Moved
         /\ Con!LineFeed <=> /\ Con!GoTo(Tape, TapeHead - (TapeHead % Width) + Width)
                             /\ UNCHANGED termcolor
         /\ Con!LineStart <=> /\ Con!GoTo(Tape, TapeHead - (TapeHead % Width))
                              /\ UNCHANGED termcolor
         /\ Con!Erase <=>
              /\ TapeHead > 0
              /\ Con!GoTo([Tape EXCEPT ![TapeHead - 1] = <<Space, termcolor>>], TapeHead - 1)
              /\ UNCHANGED termcolor
         /\ \A v : Con!Put(v) <=>
              /\ Con!GoTo([Tape EXCEPT ![TapeHead] = <<v, termcolor>>], TapeHead + 1)
              /\ UNCHANGED termcolor
<1>1. ~ Moved
  BY Sizes DEF Moved
<1> QED
  BY <1>1 DEF Con!LineFeed, Con!LineStart, Con!Erase, Con!Put

\* What a step of the console is on the tape.
OnTape == IF SetsCursor THEN Con!Jump ELSE Con!TNext

\* What the keyboard's interrupt echoes is printed, when nobody is in a call.
LEMMA EchoOnTape ==
  ASSUME COInv, COInv', ~ met', ~ strayed',
         (\E v \in Vals : Echo(v)) \/ EchoNewline \/ EchoBackspace
  PROVE  OnTape
<1>1. ~ met /\ ~ strayed /\ pc' = pc /\ \A u \in Printers : pc[u] = "user"
  BY DEF Echo, EchoNewline, EchoBackspace, Moves, MovesBack, Meets
<1>2. KeptInv /\ InFrame(rpos, cpos) /\ InFrame(rpos', cpos')
  <2>1. KeptInv /\ KeptInv'
    BY <1>1 DEF COInv
  <2>2. \A u \in Printers : ~ Exposed(u) /\ ~ Exposed(u)'
    BY <1>1 DEF Exposed
  <2>3. (KeptInv /\ (\A u \in Printers : ~ Exposed(u)) => InFrame(rpos, cpos))
    BY CursorSafe
  <2>4. (KeptInv /\ (\A u \in Printers : ~ Exposed(u)) => InFrame(rpos, cpos))'
    BY <2>1, <2>2, Sizes DEF KeptInv, InFrame, Beside, Exposed
  <2> QED
    BY <2>1, <2>2, <2>3, <2>4 DEF InFrame
<1>3. TapeHead = At /\ Tape = frame /\ TapeHead' = At' /\ Tape' = frame'
  BY <1>1, IdleNow, IdleNext DEF RawIdle, Outside
<1>4. ~ SetsCursor
  BY <1>1 DEF SetsCursor
<1>5. At \in Cells /\ Width * Height \in Int /\ At < Width * Height /\ ~ OffScreen(rpos, cpos)
  BY <1>2, CellOf, Sizes DEF At, Cells
<1>6. rpos \in 0..LastRow /\ cpos \in 0..(Width - 1) /\ rpos \in Nat /\ LastRow = Height - 1
  BY <1>2, Sizes DEF InFrame, LastRow
<1>7. At % Width = cpos /\ rpos * Width \in Nat
      /\ (rpos + 1) * Width = rpos * Width + Width
      /\ (rpos - 1) * Width = rpos * Width - Width
  BY <1>6, RowOf DEF At
<1>8. LastRow * Width = Width * Height - Width
  BY Sizes DEF LastRow
<1>9. ASSUME NEW v \in Vals, Echo(v)
      PROVE  Con!Put(v)
  <2> DEFINE f == Written(frame, rpos, cpos, v)
  <2>1. f = [frame EXCEPT ![At] = <<v, termcolor>>]
    BY <1>5 DEF Written, At
  <2>2. /\ termcolor' = termcolor
        /\ frame' = IF cpos + 1 = Width /\ rpos = LastRow THEN Scrolled(f) ELSE f
        /\ rpos' = IF cpos + 1 = Width /\ rpos # LastRow THEN rpos + 1 ELSE rpos
        /\ cpos' = IF cpos + 1 = Width THEN 0 ELSE cpos + 1
    BY <1>6, <1>9, Sizes DEF Echo
  <2> HIDE DEF f
  <2>3. CASE cpos + 1 = Width /\ rpos = LastRow
    <3>1. At + 1 = Width * Height /\ At' = Width * Height - Width
      BY <1>6, <1>8, <2>2, <2>3, Sizes DEF At
    <3>2. Con!GoTo(f, Width * Height)
      BY <1>3, <1>5, <2>2, <2>3, <3>1, TapeScrolls
    <3> QED
      BY <1>3, <1>5, <2>1, <2>2, <3>1, <3>2, Unmoved
  <2>4. CASE ~ (cpos + 1 = Width /\ rpos = LastRow)
    <3>1. At' = At + 1 /\ At + 1 \in Int /\ At + 1 <= Width * Height
      BY <1>5, <1>6, <1>7, <2>2, <2>4, Sizes DEF At, Cells
    <3>2. Con!GoTo(f, At + 1)
      BY <1>3, <1>5, <2>2, <2>4, <3>1, TapeGoes
    <3> QED
      BY <1>3, <1>5, <2>1, <2>2, <3>2, Unmoved
  <2> QED
    BY <2>3, <2>4
<1>10. ASSUME EchoNewline PROVE Con!LineFeed
  <2>1. At - (At % Width) + Width = (rpos + 1) * Width
    BY <1>6, <1>7, Sizes DEF At
  <2>2. CASE rpos = LastRow
    <3>1. /\ (rpos + 1) * Width = Width * Height /\ At' = Width * Height - Width
          /\ frame' = Scrolled(frame) /\ termcolor' = termcolor
      BY <1>6, <1>7, <1>8, <1>10, <2>2, Sizes DEF EchoNewline, At
    <3>2. Con!GoTo(frame, Width * Height)
      BY <1>3, <1>5, <3>1, TapeScrolls
    <3> QED
      BY <1>3, <1>5, <2>1, <3>1, <3>2, Unmoved
  <2>3. CASE rpos # LastRow
    <3>1. /\ At' = (rpos + 1) * Width /\ frame' = frame /\ termcolor' = termcolor
          /\ (rpos + 1) * Width \in Int
      BY <1>6, <1>7, <1>10, <2>3, Sizes DEF EchoNewline, At
    <3>2. (rpos + 1) * Width <= Width * Height
      BY <1>6, Sizes
    <3>3. Con!GoTo(frame, (rpos + 1) * Width)
      BY <1>3, <1>5, <3>1, <3>2, TapeGoes
    <3> QED
      BY <1>3, <1>5, <2>1, <3>1, <3>3, Unmoved
  <2> QED
    BY <2>2, <2>3
<1>11. ASSUME EchoBackspace PROVE Con!Erase
  <2>1. ~ (At <= 0)
    BY <1>11 DEF EchoBackspace, MovesBack
  <2>2. /\ termcolor' = termcolor /\ frame' = Written(frame, rpos', cpos', Space)
        /\ rpos' = (IF cpos - 1 < 0 THEN rpos - 1 ELSE rpos)
        /\ cpos' = (IF cpos - 1 < 0 THEN Width - 1 ELSE cpos - 1)
    BY <1>11 DEF EchoBackspace
  <2>3. rpos' * Width + cpos' = At - 1 /\ At' = At - 1 /\ At - 1 \in Cells
    BY <1>5, <1>6, <1>7, <2>1, <2>2, Sizes DEF At, Cells
  <2>4. frame' = [frame EXCEPT ![At - 1] = <<Space, termcolor>>]
    BY <2>2, <2>3 DEF Written
  <2>5. Con!GoTo(frame', At - 1)
    BY <1>3, <1>5, <2>3, TapeGoes DEF Cells
  <2>6. Con!GoTo([Tape EXCEPT ![TapeHead - 1] = <<Space, termcolor>>], TapeHead - 1)
    BY <1>3, <2>4, <2>5
  <2>7. TapeHead > 0 /\ termcolor' = termcolor /\ TapeHead < Width * Height
    BY <1>3, <1>5, <2>1, <2>2 DEF Cells
  <2> QED
    BY <2>6, <2>7, Unmoved
<1> QED
  BY <1>4, <1>9, <1>10, <1>11 DEF OnTape, Con!TNext

\* What a printer begins, when nobody else is in a call.
LEMMA CallOnTape ==
  ASSUME COInv, COInv', ~ met', ~ strayed', NEW t \in Printers,
         \/ \E ch \in Chars : PutByte(t, ch)
         \/ \E row \in -1..Height, col \in -1..Width : SetRow(t, row, col)
         \/ \E c \in Colors : SetTermColor(t, c)
         \/ Place(t) \/ BackCol(t)
  PROVE  [OnTape]_(Con!tapevars)
<1>1. /\ ~ met /\ ~ strayed /\ \A u \in Printers \ {t} : pc[u] = "user"
      /\ pc[t] \in Outside
  <2>1. Meets(Printers \ {t}) /\ (strayed => strayed')
    <3>1. CASE \E ch \in Chars : PutByte(t, ch)
      BY <3>1 DEF PutByte
    <3>2. CASE \E row \in -1..Height, col \in -1..Width : SetRow(t, row, col)
      BY <3>2 DEF SetRow, Moves
    <3>3. CASE \E c \in Colors : SetTermColor(t, c)
      BY <3>3 DEF SetTermColor
    <3>4. CASE Place(t) \/ BackCol(t)
      BY <3>4 DEF Place, BackCol, StepMoves, Moves, MovesBack
    <3> QED
      BY <3>1, <3>2, <3>3, <3>4
  <2>2. pc[t] \in Outside
    BY DEF PutByte, SetRow, SetTermColor, Place, BackCol, StepMoves, Step, Outside
  <2> QED
    BY <2>1, <2>2 DEF Meets
<1>2. KeptInv /\ KeptInv' /\ pc \in [Printers -> Places] /\ newcol' \in [Printers -> 0..(Width - 1)]
  BY <1>1 DEF COInv, ShapeOK, COTypeOK
<1>3. InFrame(rpos, cpos)
  BY <1>1, <1>2, CursorSafe DEF Exposed, Outside
<1>4. TapeHead = At /\ Tape = frame
  BY <1>1, IdleNow DEF RawIdle, Outside
<1>5. At \in Cells /\ Width * Height \in Int /\ At < Width * Height
  BY <1>3, CellOf, Sizes DEF At, Cells
<1>6. rpos \in 0..LastRow /\ cpos \in 0..(Width - 1) /\ rpos \in Nat /\ LastRow = Height - 1
  BY <1>3, Sizes DEF InFrame, LastRow
<1>7. At % Width = cpos /\ rpos * Width \in Nat /\ (rpos + 1) * Width = rpos * Width + Width
  BY <1>6, RowOf DEF At
<1>8. \A u \in Printers \ {t} : pc'[u] = "user"
  BY <1>1, <1>2 DEF PutByte, SetRow, SetTermColor, Place, BackCol, StepMoves, Step
<1>9. pc'[t] \notin Outside => RawBusy(t)'
  BY <1>8, BusyNext DEF Alone
<1>10. pc'[t] \in Outside => TapeHead' = At' /\ Tape' = frame'
  BY <1>8, IdleNext DEF RawIdle, Outside
<1>11. pc'[t] # "col" => ~ SetsCursor
  BY <1>8 DEF SetsCursor
<1>12. ASSUME NEW ch \in Chars, PutByte(t, ch)
       PROVE  [OnTape]_(Con!tapevars)
  <2>1. UNCHANGED <<frame, rpos, cpos, termcolor>> /\ pc[t] = "user" /\ At' = At
    BY <1>12 DEF PutByte, Step, cursor, At
  <2>2. pc'[t] = CASE ch = Newline -> "row"
                   [] ch = Return -> "home"
                   [] ch = Backspace -> "back"
                   [] OTHER -> "place"
    BY <1>2, <1>12 DEF PutByte, Step
  <2>3. CASE pc'[t] \in {"back", "place"}
    BY <1>4, <1>10, <2>1, <2>3, TapeStutters DEF Outside
  <2>4. CASE pc'[t] = "row"
    <3>1. TapeHead' = (rpos + 1) * Width /\ Tape' = frame
      BY <1>9, <2>1, <2>4 DEF RawBusy, Ahead, Outside
    <3>2. (rpos + 1) * Width <= Width * Height /\ (rpos + 1) * Width \in Int
      BY <1>6, Sizes
    <3>3. Con!GoTo(Tape, (rpos + 1) * Width)
      BY <1>4, <1>5, <3>1, <3>2, TapeGoes
    <3>4. TapeHead - (TapeHead % Width) + Width = (rpos + 1) * Width
      BY <1>4, <1>6, <1>7, Sizes DEF At
    <3>5. Con!LineFeed
      BY <1>4, <1>5, <2>1, <3>3, <3>4, Unmoved
    <3> QED
      BY <1>11, <2>4, <3>5 DEF OnTape, Con!TNext
  <2>5. CASE pc'[t] = "home"
    <3>1. TapeHead' = rpos * Width /\ Tape' = frame
      BY <1>9, <2>1, <2>5 DEF RawBusy, Ahead, Outside
    <3>2. TapeHead - (TapeHead % Width) = rpos * Width /\ rpos * Width <= Width * Height
      BY <1>4, <1>5, <1>6, <1>7, Sizes DEF At
    <3>3. Con!GoTo(Tape, rpos * Width)
      BY <1>4, <1>5, <1>7, <3>1, <3>2, TapeGoes
    <3>4. Con!LineStart
      BY <1>4, <1>5, <2>1, <3>2, <3>3, Unmoved
    <3> QED
      BY <1>11, <2>5, <3>4 DEF OnTape, Con!TNext
  <2> QED
    BY <2>2, <2>3, <2>4, <2>5
<1>13. ASSUME NEW row \in -1..Height, NEW col \in -1..Width, SetRow(t, row, col)
       PROVE  OnTape
  <2>1. /\ UNCHANGED <<frame, termcolor>> /\ pc[t] = "user" /\ pc'[t] = "col"
        /\ rpos' = row /\ row \in 0..LastRow
    BY <1>2, <1>13 DEF SetRow, Step, InFrame
  <2>2. TapeHead' = rpos' * Width + newcol'[t] /\ Tape' = frame
    BY <1>9, <2>1 DEF RawBusy, Ahead, Outside
  <2>3. InFrame(rpos', newcol'[t])
    BY <1>2, <2>1 DEF InFrame
  <2>4. TapeHead' \in Cells
    BY <2>2, <2>3, CellOf
  <2>5. ~ Moved /\ ~ Moved'
    BY <1>4, <1>5, <2>4, Sizes DEF Moved, Cells
  <2>6. Con!Jump
    BY <1>4, <2>1, <2>2, <2>4, <2>5 DEF Con!Jump, Con!Length, Cells
  <2> QED
    BY <2>1, <2>6 DEF OnTape, SetsCursor
<1>14. ASSUME NEW c \in Colors, SetTermColor(t, c)
       PROVE  OnTape
  <2>1. UNCHANGED <<frame, rpos, cpos, pc>> /\ pc[t] = "user" /\ termcolor' = c
    BY <1>14 DEF SetTermColor, cursor
  <2>2. TapeHead' = TapeHead /\ Tape' = Tape
    BY <1>4, <1>10, <2>1 DEF Outside, At
  <2>3. ~ Moved /\ ~ Moved'
    BY <1>4, <1>5, <2>2, Sizes DEF Moved
  <2>4. Con!Recolor
    BY <2>1, <2>2, <2>3 DEF Con!Recolor
  <2> QED
    BY <1>11, <2>1, <2>4 DEF OnTape, Con!TNext
<1>15. ASSUME Place(t)
       PROVE  OnTape
  <2>1. /\ frame' = Written(frame, rpos, cpos, chr[t]) /\ UNCHANGED <<rpos, cpos, termcolor>>
        /\ pc[t] = "place" /\ pc'[t] = "inc" /\ chr[t] \in Vals
    BY <1>2, <1>15 DEF Place, StepMoves, Step, Quiet, cursor, COInv, ShapeOK, COTypeOK
  <2>2. frame' = [frame EXCEPT ![At] = <<chr[t], termcolor>>]
    BY <1>5, <2>1 DEF Written, At
  <2>3. TapeHead' = At + 1 /\ Tape' = frame'
    BY <1>9, <2>1 DEF RawBusy, Ahead, Outside, At
  <2>4. At + 1 \in Int /\ At + 1 <= Width * Height
    BY <1>5 DEF Cells
  <2>5. Con!GoTo(frame', At + 1)
    BY <1>4, <1>5, <2>3, <2>4, TapeGoes
  <2>6. Con!Put(chr[t])
    BY <1>4, <1>5, <2>1, <2>2, <2>5, Unmoved
  <2> QED
    BY <1>11, <2>1, <2>6 DEF OnTape, Con!TNext
<1>16. ASSUME BackCol(t)
       PROVE  OnTape
  <2>1. /\ UNCHANGED <<frame, rpos, termcolor>> /\ cpos' = cpos - 1
        /\ pc[t] = "back" /\ pc'[t] = "edge"
    BY <1>2, <1>16 DEF BackCol, Step, Quiet
  <2>2. ~ (At <= 0)
    BY <1>16 DEF BackCol, MovesBack
  <2>3. At' = At - 1 /\ At - 1 \in Cells
    BY <1>5, <1>6, <1>7, <2>1, <2>2, Sizes DEF At, Cells
  <2>4. /\ TapeHead' = At - 1 /\ Ahead(t)' = At - 1
        /\ Tape' = Written(frame, 0, Ahead(t), Space)'
    BY <1>9, <2>1, <2>3 DEF RawBusy, Ahead, Outside
  <2>5. Tape' = [frame EXCEPT ![At - 1] = <<Space, termcolor>>]
    <3>1. 0 * Width + (At - 1) = At - 1
      BY <2>3, Sizes DEF Cells
    <3> QED
      BY <2>1, <2>3, <2>4, <3>1 DEF Written
  <2>6. Con!GoTo([Tape EXCEPT ![TapeHead - 1] = <<Space, termcolor>>], TapeHead - 1)
    <3>1. Con!GoTo(Tape', At - 1)
      BY <1>4, <1>5, <2>3, <2>4, TapeGoes DEF Cells
    <3> QED
      BY <1>4, <2>5, <3>1
  <2>7. TapeHead > 0 /\ TapeHead < Width * Height
    BY <1>4, <1>5, <2>2 DEF Cells
  <2>8. Con!Erase
    BY <2>1, <2>6, <2>7, Unmoved
  <2> QED
    BY <1>11, <2>1, <2>8 DEF OnTape, Con!TNext
<1> QED
  BY <1>12, <1>13, <1>14, <1>15, <1>16

\* The tape does not see the console scroll under a head that has run off.
LEMMA TapeCatchesUp ==
  ASSUME TapeHead = Width * Height, Tape' = Scrolled(Tape),
         TapeHead' = Width * Height - Width, termcolor' = termcolor
  PROVE  UNCHANGED Con!tapevars
<1>1. Width * Height \in Int /\ Width * Height - Width # Width * Height
  BY Sizes
<1>2. Moved /\ ~ Moved'
  BY <1>1, Sizes DEF Moved
<1> QED
  BY <1>2 DEF Con!tapevars

\* What a printer goes through once it has begun.
Inner(t) ==
  \/ Inc(t) \/ Wrap(t) \/ Zero(t) \/ Row(t) \/ Scroll(t) \/ Down(t) \/ Home(t)
  \/ Edge(t) \/ Up(t) \/ End(t) \/ BlankIt(t) \/ Check(t) \/ SetCol(t)

\* A printer that goes on in its call, with nobody else in one, was alone.
LEMMA InnerAlone ==
  ASSUME COInv, LoneInv, ~ met', ~ strayed', NEW t \in Printers, Inner(t)
  PROVE  Alone(t)
<1>1. pc[t] \notin Outside
  BY DEF Inner, Inc, Wrap, Zero, Row, Scroll, Down, Home, Edge, Up, End, BlankIt, Check, SetCol,
     StepMoves, Step, Outside
<1>2. ~ met /\ ~ strayed
  <2>1. CASE Inc(t) \/ Zero(t) \/ Scroll(t) \/ Down(t) \/ Home(t)
    BY <2>1 DEF Inc, Zero, Scroll, Down, Home, StepMoves, Moves, Meets
  <2>2. CASE Wrap(t) \/ Row(t) \/ Edge(t)
    BY <2>2 DEF Wrap, Row, Edge
  <2>3. CASE Up(t) \/ End(t) \/ BlankIt(t) \/ Check(t) \/ SetCol(t)
    BY <2>3 DEF Up, End, BlankIt, Check, SetCol, StepMoves, Moves, Meets
  <2> QED
    BY <2>1, <2>2, <2>3 DEF Inner
<1>3. \A u \in Printers \ {t} : pc[u] = "user"
  BY <1>1, <1>2 DEF LoneInv, Outside
<1> QED
  BY <1>1, <1>2, <1>3 DEF Alone

\* What a printer goes through once it has begun the tape does not see.
LEMMA InnerStutters ==
  ASSUME COInv, LoneInv, ~ met', ~ strayed', NEW t \in Printers, Inner(t)
  PROVE  UNCHANGED Con!tapevars
<1>1. Alone(t)
  BY InnerAlone
<1>2. /\ KeptInv /\ pc \in [Printers -> Places] /\ newcol \in [Printers -> 0..(Width - 1)]
      /\ chr \in [Printers -> Chars \cup {None}]
  BY <1>1 DEF COInv, ShapeOK, COTypeOK, Alone
<1>3. /\ TapeHead = Ahead(t)
      /\ Tape = IF pc[t] \in {"edge", "up", "end", "blank"}
                THEN Written(frame, 0, Ahead(t), Space) ELSE frame
  BY <1>1, BusyNow DEF RawBusy
<1>4. \A u \in Printers \ {t} : pc'[u] = "user"
  BY <1>1, <1>2 DEF Alone, Inner, Inc, Wrap, Zero, Row, Scroll, Down, Home, Edge, Up, End,
     BlankIt, Check, SetCol, StepMoves, Step
<1>5. pc'[t] \notin Outside => RawBusy(t)'
  BY <1>4, BusyNext DEF Alone
<1>6. pc'[t] \in Outside => TapeHead' = At' /\ Tape' = frame'
  BY <1>4, IdleNext DEF RawIdle, Outside
<1>7. /\ rpos \in Nat /\ cpos \in Int /\ rpos \in 0..LastRow
      /\ rpos * Width \in Nat
      /\ (rpos + 1) * Width = rpos * Width + Width
      /\ (rpos - 1) * Width = rpos * Width - Width
  <2>1. rpos \in Nat /\ cpos \in Int /\ rpos \in 0..LastRow /\ 0 \in 0..(Width - 1)
    BY <1>2, Sizes DEF KeptInv, LastRow
  <2> QED
    BY <2>1, RowOf
<1>8. termcolor' = termcolor
  BY DEF Inner, Inc, Wrap, Zero, Row, Scroll, Down, Home, Edge, Up, End, BlankIt, Check, SetCol,
     StepMoves, Quiet
<1>9. SUFFICES \/ Tape' = Tape /\ TapeHead' = TapeHead
               \/ /\ TapeHead = Width * Height /\ Tape' = Scrolled(Tape)
                  /\ TapeHead' = Width * Height - Width
  BY <1>8, TapeStutters, TapeCatchesUp
<1>10. CASE Inc(t)
  <2>1. /\ pc[t] = "inc" /\ pc'[t] = "wrap" /\ rpos' = rpos /\ cpos' = cpos + 1 /\ frame' = frame
    BY <1>2, <1>10 DEF Inc, StepMoves, Step
  <2>2. TapeHead' = At' /\ Tape' = frame
    BY <1>5, <2>1 DEF RawBusy, Ahead, Outside
  <2>3. At' = At + 1
    BY <1>7, <2>1 DEF At
  <2> QED
    BY <1>3, <2>1, <2>2, <2>3 DEF Ahead
<1>11. CASE Wrap(t)
  <2>1. /\ pc[t] = "wrap" /\ pc'[t] \in {"zero", "check"} /\ UNCHANGED <<frame, rpos, cpos>>
    BY <1>2, <1>11 DEF Wrap, Step, cursor
  <2>2. TapeHead' = At' /\ Tape' = frame
    BY <1>5, <2>1 DEF RawBusy, Ahead, Outside
  <2> QED
    BY <1>3, <2>1, <2>2 DEF Ahead, At
<1>12. CASE Zero(t)
  <2>1. /\ pc[t] = "zero" /\ pc'[t] = "row" /\ rpos' = rpos /\ cpos = Width /\ frame' = frame
    BY <1>2, <1>12 DEF Zero, StepMoves, Step, KeptInv
  <2>2. TapeHead' = (rpos + 1) * Width /\ Tape' = frame
    BY <1>5, <2>1 DEF RawBusy, Ahead, Outside
  <2>3. At = (rpos + 1) * Width
    BY <1>7, <2>1 DEF At
  <2> QED
    BY <1>3, <2>1, <2>2, <2>3 DEF Ahead
<1>13. CASE Row(t)
  <2>1. /\ pc[t] = "row" /\ pc'[t] \in {"scroll", "down"} /\ UNCHANGED <<frame, rpos, cpos>>
    BY <1>2, <1>13 DEF Row, Step, cursor
  <2>2. TapeHead' = (rpos + 1) * Width /\ Tape' = frame
    BY <1>5, <2>1 DEF RawBusy, Ahead, Outside
  <2> QED
    BY <1>3, <2>1, <2>2 DEF Ahead
<1>14. CASE Scroll(t)
  <2>1. /\ pc[t] = "scroll" /\ UNCHANGED <<rpos, cpos>> /\ frame' = Scrolled(frame)
        /\ pc'[t] \in {"home", "check"} /\ (pc'[t] = "check" => cpos = 0) /\ rpos = LastRow
    BY <1>1, <1>2, <1>14 DEF Scroll, StepMoves, Step, AfterRow, cursor, LoneInv, Alone
  <2>2. Tape' = Scrolled(frame) /\ TapeHead' = rpos * Width
    <3>1. CASE pc'[t] = "home"
      BY <1>5, <2>1, <3>1 DEF RawBusy, Ahead, Outside
    <3>2. CASE pc'[t] = "check"
      BY <1>5, <1>7, <2>1, <3>2 DEF RawBusy, Ahead, Outside, At
    <3> QED
      BY <2>1, <3>1, <3>2
  <2>3. TapeHead = (rpos + 1) * Width /\ Tape = frame
    BY <1>3, <2>1 DEF Ahead
  <2>4. (rpos + 1) * Width = Width * Height /\ rpos * Width = Width * Height - Width
    BY <1>7, <2>1, Sizes DEF LastRow
  <2> QED
    BY <2>2, <2>3, <2>4
<1>15. CASE Down(t)
  <2>1. /\ pc[t] = "down" /\ rpos' = rpos + 1 /\ cpos' = cpos /\ frame' = frame
        /\ pc'[t] \in {"home", "check"} /\ (pc'[t] = "check" => cpos = 0)
    BY <1>1, <1>2, <1>15 DEF Down, StepMoves, Step, AfterRow, cursor, LoneInv, Alone
  <2>2. Tape' = frame /\ TapeHead' = (rpos + 1) * Width
    <3>1. CASE pc'[t] = "home"
      BY <1>5, <2>1, <3>1 DEF RawBusy, Ahead, Outside
    <3>2. CASE pc'[t] = "check"
      <4>1. Tape' = frame /\ TapeHead' = rpos' * Width + cpos'
        BY <1>5, <2>1, <3>2 DEF RawBusy, Ahead, Outside, At
      <4>2. (rpos + 1) * Width + 0 = (rpos + 1) * Width
        BY <1>7, Sizes
      <4> QED
        BY <2>1, <3>2, <4>1, <4>2
    <3> QED
      BY <2>1, <3>1, <3>2
  <2> QED
    BY <1>3, <2>1, <2>2 DEF Ahead
<1>16. CASE Home(t)
  <2>1. /\ pc[t] = "home" /\ pc'[t] = "check" /\ rpos' = rpos /\ cpos' = 0 /\ frame' = frame
    BY <1>2, <1>16 DEF Home, StepMoves, Step
  <2>2. TapeHead' = At' /\ Tape' = frame
    BY <1>5, <2>1 DEF RawBusy, Ahead, Outside
  <2>3. At' = rpos * Width
    BY <1>7, <2>1 DEF At
  <2> QED
    BY <1>3, <2>1, <2>2, <2>3 DEF Ahead
<1>17. CASE Edge(t) \/ Up(t) \/ End(t)
  <2>1. /\ pc[t] \in {"edge", "up", "end"} /\ pc'[t] \in {"up", "end", "blank"} /\ frame' = frame
    BY <1>2, <1>17 DEF Edge, Up, End, StepMoves, Step
  <2>2. Ahead(t)' = Ahead(t)
    <3>1. CASE Edge(t)
      <4>1. /\ pc[t] = "edge" /\ rpos' = rpos /\ cpos' = cpos
            /\ pc'[t] = IF cpos < 0 THEN "up" ELSE "blank"
        BY <1>2, <3>1 DEF Edge, Step, cursor
      <4>2. cpos < 0 => cpos = -1
        BY <1>2, Sizes DEF KeptInv
      <4>3. CASE cpos < 0
        BY <1>7, <4>1, <4>2, <4>3 DEF Ahead, At
      <4>4. CASE ~ (cpos < 0)
        BY <4>1, <4>4 DEF Ahead, At
      <4> QED
        BY <4>3, <4>4
    <3>2. CASE Up(t)
      <4>1. pc[t] = "up" /\ pc'[t] = "end" /\ rpos' = rpos - 1
        BY <1>2, <3>2 DEF Up, StepMoves, Step
      <4>2. Ahead(t) = rpos * Width - 1 /\ Ahead(t)' = (rpos - 1) * Width + Width - 1
        BY <4>1 DEF Ahead
      <4> QED
        BY <1>7, <4>2, Sizes
    <3>3. CASE End(t)
      <4>1. pc[t] = "end" /\ pc'[t] = "blank" /\ rpos' = rpos /\ cpos' = Width - 1
        BY <1>2, <3>3 DEF End, StepMoves, Step
      <4>2. Ahead(t) = rpos * Width + Width - 1 /\ Ahead(t)' = rpos * Width + (Width - 1)
        BY <4>1 DEF Ahead, At
      <4> QED
        BY <1>7, <4>2, Sizes
    <3> QED
      BY <1>17, <3>1, <3>2, <3>3
  <2>3. TapeHead' = Ahead(t)' /\ Tape' = Written(frame, 0, Ahead(t), Space)'
    BY <1>5, <2>1 DEF RawBusy, Outside
  <2> QED
    BY <1>3, <1>8, <2>1, <2>2, <2>3 DEF Written
<1>18. CASE BlankIt(t)
  <2>1. /\ pc[t] = "blank" /\ pc'[t] = "check" /\ rpos' = rpos /\ cpos' = cpos
        /\ frame' = Written(frame, rpos, cpos, Space)
    BY <1>2, <1>18 DEF BlankIt, StepMoves, Step, cursor
  <2>2. TapeHead' = At' /\ Tape' = frame' /\ At' = At /\ Ahead(t) = At
    BY <1>5, <2>1 DEF RawBusy, Ahead, Outside, At
  <2>3. At = rpos * Width + cpos /\ 0 * Width + At = At
    BY <1>7, Sizes DEF At
  <2>4. Written(frame, 0, At, Space) = Written(frame, rpos, cpos, Space)
    BY <2>3 DEF Written
  <2> QED
    BY <1>3, <2>1, <2>2, <2>4
<1>19. CASE Check(t) \/ SetCol(t)
  <2>1. /\ pc[t] \in {"check", "col"} /\ pc'[t] = "user" /\ rpos' = rpos /\ frame' = frame
        /\ cpos' = IF pc[t] = "check" THEN cpos ELSE newcol[t]
    BY <1>2, <1>19 DEF Check, SetCol, Step, cursor
  <2>2. At' = Ahead(t)
    BY <2>1 DEF Ahead, At
  <2> QED
    BY <1>3, <1>6, <2>1, <2>2 DEF Outside
<1> QED
  BY <1>10, <1>11, <1>12, <1>13, <1>14, <1>15, <1>16, <1>17, <1>18, <1>19 DEF Inner

\* As long as no two print at once and nobody strays, the console is a tape:
\* a character goes to the cell after the last one's, a new line starts at the
\* next multiple of the width, what scrolls off is the oldest row, and nobody
\* but set_cursor_pos goes anywhere else.
THEOREM ImplementsTapeHolds == COSpec => ImplementsTape
<1>1. COInit => TapeInv
  BY Sizes, ConsoleAssumption
  DEF COInit, TapeInv, LoneInv, COInv, ShapeOK, COTypeOK, KeptInv, LastRow, Places, Beside
<1>2. TapeInv /\ [CONext]_convars => TapeInv'
  BY StepCOInv, StepLoneInv DEF TapeInv
<1>3. COInit => Con!TInit
  <2> SUFFICES ASSUME COInit PROVE Con!TInit
    OBVIOUS
  <2>1. TapeHead = At /\ Tape = frame
    BY IdleNow DEF COInit, RawIdle, Outside
  <2>2. At = 0 /\ 0 < Width * Height
    BY Sizes DEF COInit, At
  <2>3. ~ Moved
    BY <2>1, <2>2 DEF Moved
  <2> QED
    BY <2>1, <2>2, <2>3, ConsoleAssumption DEF COInit, Con!TInit, Con!Length, Cells
<1>4. TapeInv /\ TapeInv' /\ [CONext]_convars
      => [~ (met' \/ strayed') => OnTape]_(Con!tapevars)
  <2> SUFFICES ASSUME TapeInv, TapeInv', [CONext]_convars, ~ met', ~ strayed'
               PROVE  [OnTape]_(Con!tapevars)
    OBVIOUS
  <2> USE DEF TapeInv
  <2>1. CASE (\E v \in Vals : Echo(v)) \/ EchoNewline \/ EchoBackspace
    BY <2>1, EchoOnTape
  <2>2. ASSUME NEW t \in Printers, PrinterStep(t)
        PROVE  [OnTape]_(Con!tapevars)
    BY <2>2, CallOnTape, InnerStutters DEF PrinterStep, Inner
  <2>3. CASE UNCHANGED convars
    <3>1. UNCHANGED <<frame, rpos, cpos, termcolor, pc, newcol, met, strayed>>
      BY <2>3 DEF convars, cursor
    <3>2. TapeHead' = TapeHead /\ Tape' = Tape
      BY <3>1 DEF TapeHead, Tape, Busy, Ahead, At, Written
    <3> QED
      BY <3>1, <3>2, TapeStutters
  <2> QED
    BY <2>1, <2>2, <2>3 DEF CONext, PrinterStep
<1> QED
  BY <1>1, <1>2, <1>3, <1>4, PTL DEF COSpec, ImplementsTape, OnTape
=============================================================================
