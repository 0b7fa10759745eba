------------------------------ MODULE VmmProps ------------------------------
(***************************************************************************)
(* What virtual memory keeps true.                                         *)
(***************************************************************************)
EXTENDS Vmm

\* Counts, entries, ranges and faults have their shapes.
VTypeOK ==
  /\ refs \in [Frames -> Nat]
  /\ data \in [Frames -> Values]
  /\ pte \in [Tasks -> [Pages -> [frame : Frames \cup {0}, present : BOOLEAN, rw : BOOLEAN]]]
  /\ pdeRW \in [Tasks -> [Dirs -> BOOLEAN]]
  /\ ranges \in [Tasks -> SUBSET [start : Pages, len : Pages]]
  /\ stackStart \in [Tasks -> Pages \cup {0}]
  /\ status \in [Tasks -> {"none", "live", "zombie", "stillborn"}]
  /\ fault \in [Tasks -> {NoFault} \cup
                         [kind : {"back", "cow"}, page : Pages, frame : Frames]]
  /\ panicked \in Assertions \cup {None}
  /\ wild \subseteq WildCases

\* No frame is given away while an entry can still lead to it: its count is
\* at least the number of entries that hold its address, whatever forks,
\* copies, removals and ends of tasks came before (vmm.c:54-75; the count may
\* be greater, as copy on write never drops the old frame's).
CountCovers ==
  \A f \in Frames :
    Cardinality({e \in Tasks \X Pages : pte[e[1]][e[2]].frame = f}) <= refs[f]

\* A frame that two entries map can be written through neither: the next
\* writer gets a copy (syscall_fork.c:124-127, faulthandlers.c:300-327).
SharedReadOnly ==
  \A k \in Tasks, p \in Pages : Writable(k, p) => ~ Shared(k, p)

\* "there is one reference from getfreepages" (vmm.c:59): neither the
\* assertion before it nor that of vmm_putref_user_page (vmm.c:74) fails.
OneReference == panicked \notin {"no reference", "negative count"}

\* What the frames and their counts promise together.  Counts cover as long as
\* no frame is found twice, whatever tasks do at the same time: a fault that
\* has found a frame is followed by another task's, or by a program that is
\* loaded, before it takes it.  For shared frames the growth of a stack with a
\* shared page makes an exception too, as it makes the page writable.
FramesSound ==
  /\ VTypeOK
  /\ "found_twice" \notin wild => CountCovers /\ OneReference
  /\ wild \cap {"found_twice", "grow_any"} = {} => SharedReadOnly

\* What task k sees at page p: the frame mapped there, and zero at pages it
\* was given and has not touched.
Value(k, p) ==
  IF pte[k][p].present /\ pte[k][p].frame # 0 THEN data[pte[k][p].frame]
  ELSE IF p \in Covered(ranges[k]) THEN 0 ELSE None

\* What the tasks that live see.
Seen == [k \in Tasks |-> IF status[k] = "live" THEN [p \in Pages |-> Value(k, p)] ELSE None]

Private == INSTANCE Memory WITH
  Loaded <- Covered(Image),
  Stack <- Span(StackRange),
  mem <- Seen

\* The end of a fault: nobody wrote, so nobody may see a change.
FaultEnds == \E k \in Tasks : fault[k] # NoFault /\ fault'[k] = NoFault

\* A step is not seen, or one of the memories; the end of a fault is not seen.
StepPrivate == Seen' = Seen \/ (~ FaultEnds /\ Private!MNext)

\* Sharing, copying on write and filling with zeros on demand cannot be seen:
\* every task has a memory of its own, and no fault changes it
\* (README.dox:97-100).  This is so up to the step in which one of the
\* WildCases comes about.
ImplementsMemory == Private!MInit /\ [][wild' = {} => StepPrivate]_vmvars
=============================================================================
