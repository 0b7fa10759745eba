------------------------------- MODULE Memory -------------------------------
(***************************************************************************)
(* What virtual memory promises: a task has a memory of its own.  A write  *)
(* changes what the writer sees at one page and what nobody else sees; fork *)
(* copies; new pages read as zero.                                         *)
(***************************************************************************)
CONSTANTS
  Tasks, InitTask, Pages, Values,
  Loaded,   \* the pages a program has when it starts
  Stack,    \* those among them that the program's file says nothing of
  None

VARIABLE mem   \* what every task that lives sees at every page, or None

\* A program just loaded: its pages hold what the file says, here zero, and
\* its stack holds anything.
Programs ==
  {m \in [Pages -> Values \cup {None}] :
     \A p \in Pages : /\ m[p] = None <=> p \notin Loaded
                      /\ p \in Loaded \ Stack => m[p] = 0}

MInit ==
  \E m \in Programs : mem = [k \in Tasks |-> IF k = InitTask THEN m ELSE None]

MWrite(k, p, v) ==
  /\ mem[k][p] # None
  /\ mem' = [mem EXCEPT ![k][p] = v]

MFork(k, c) ==
  /\ mem[c] = None
  /\ mem' = [mem EXCEPT ![c] = mem[k]]

\* Nobody sees a change but task k, which goes on.
MOnly(k) == mem'[k] # None /\ mem' = [mem EXCEPT ![k] = mem'[k]]

Changed(k) == {p \in Pages : mem'[k][p] # mem[k][p]}

\* new_pages and the growth of the stack.
MNew(k) == MOnly(k) /\ \A p \in Changed(k) : mem[k][p] = None /\ mem'[k][p] = 0

MRemove(k) == MOnly(k) /\ \A p \in Changed(k) : mem'[k][p] = None

MExec(k) ==
  /\ mem'[k] \in Programs
  /\ mem' = [mem EXCEPT ![k] = mem'[k]]

MEnd(k) == mem' = [mem EXCEPT ![k] = None]

MNext ==
  \E k \in {t \in Tasks : mem[t] # None} :
    \/ \E p \in Pages, v \in Values : MWrite(k, p, v)
    \/ \E c \in Tasks : MFork(k, c)
    \/ MNew(k) \/ MRemove(k)
    \/ MExec(k) \/ MEnd(k)

MSpec == MInit /\ [][MNext]_mem
=============================================================================
