-------------------------------- MODULE Vmm --------------------------------
(***************************************************************************)
(* Virtual memory of tasks with one thread each: physical frames and their *)
(* reference counts, the page tables and ranges of every task, and what    *)
(* fork, exec, new_pages, remove_pages, the end of a task and the page     *)
(* fault handler do to them.  Pages and frames are small numbers, a page   *)
(* holds one value, and frame 0 is the address of an entry never backed.   *)
(* The kernel's own pages, the TLB and the memory for tables are left out; *)
(* where the code can fail for lack of the last, an action says so.  A     *)
(* program's sections share no page here: what becomes of those that do is *)
(* in Loader.                                                              *)
(*                                                                         *)
(* vmm_get_free_user_pages finds a frame with count 0 and then stores 1.   *)
(* Page faults enter through a trap gate, so other tasks run between the   *)
(* two.                                                                    *)
(***************************************************************************)
EXTENDS Integers, FiniteSets

CONSTANTS
  Tasks, InitTask,
  MaxPage,      \* pages are 1..MaxPage
  NrFrames,     \* frames are 1..NrFrames
  Values,       \* what a page may hold
  Directory,    \* the page directory entry of every page
  Image,        \* the ranges loader_install_ranges makes
  TextRange,    \* the range of Image it marks read only at the end
  StackRange,   \* the range of Image that grows
  Asked,        \* bound: the ranges programs add and remove
  MaxRefs,      \* bound: entries that count on one frame
  Followed,     \* bound: the WildCases after which a run goes on
  None

Span(r) == r.start..r.start + r.len - 1

Covered(rs) == UNION {Span(r) : r \in rs}

\* Situations that programs and ticks bring about, after which memory is no
\* longer what it was.  "found_twice": a frame that a fault has found is given
\* out before the fault takes it.  "grow_any": a stack grows that has a page
\* without a frame or one that is shared.  "fork_grown": a task that growth has
\* left pages outside its ranges forks, or asks for ranges over them.
\* "kernel_write": the kernel writes to a page that is shared.
WildCases == {"found_twice", "grow_any", "fork_grown", "kernel_write"}

\* The assertions that can stop the kernel.
Assertions == {"null frame", "no reference", "negative count", "no pages", "no stack range"}

ASSUME VmmAssumption ==
  /\ IsFiniteSet(Tasks) /\ InitTask \in Tasks
  /\ None \notin Values /\ None \notin Assertions
  /\ None \notin [1..MaxPage -> Values \cup {None}]
  /\ MaxPage \in Nat \ {0} /\ NrFrames \in Nat \ {0} /\ MaxRefs \in Nat \ {0}
  /\ 0 \in Values
  /\ DOMAIN Directory = 1..MaxPage
  /\ Image \subseteq [start : 1..MaxPage, len : 1..MaxPage]
  /\ Asked \subseteq [start : 1..MaxPage, len : 1..MaxPage]
  /\ \A r \in Image \cup Asked : Span(r) \subseteq 1..MaxPage
  /\ TextRange \in Image /\ StackRange \in Image
  /\ \A r, s \in Image : r # s => Span(r) \cap Span(s) = {}
  /\ Cardinality(Covered(Image)) <= NrFrames
  /\ Followed \subseteq WildCases

Pages  == 1..MaxPage
Frames == 1..NrFrames
Dirs   == {Directory[p] : p \in Pages}

VARIABLES
  refs,        \* m_pages[f].refcount
  data,        \* what every frame holds
  pte,         \* page table entries of every task
  pdeRW,       \* RW bit of every task's page directory entries
  ranges,      \* vm_ranges_head without the kernel's range
  stackStart,  \* vm_stack_start
  status,      \* of every task; stillborn: a child whose fork failed
  fault,       \* a fault whose handler has found a frame not taken yet
  panicked,    \* the assertion that stopped the kernel
  wild         \* history: the WildCases that have come about

vmvars == <<refs, data, pte, pdeRW, ranges, stackStart, status, fault, panicked, wild>>

ReadOnly == Span(TextRange)

Entry(f, pres, w) == [frame |-> f, present |-> pres, rw |-> w]

Unmapped == Entry(0, FALSE, FALSE)

NoTables == [p \in Pages |-> Unmapped]

NoDirs == [d \in Dirs |-> FALSE]

\* What vmm_init leaves: no frame is in use.
NoReferences == [f \in Frames |-> 0]

NoFault == [kind |-> "none", page |-> 0, frame |-> 0]

----------------------------------------------------------------------------
(* Frames. *)

Free == {f \in Frames : refs[f] = 0}

Lowest(S) == CHOOSE f \in S : \A g \in S : f <= g

\* The frame that is given out next, if there is one.
NextFree == {f \in Free : \A g \in Free : f <= g}

\* References of the entries in S dropped from the counts, one for each.
Drop(counts, S) == [f \in Frames |-> counts[f] - Cardinality({e \in S : e[3] = f})]

Without(S) == Drop(refs, S)

\* vmm_putref_user_page's assertion.
Overdrawn(counts, S) == \E f \in Frames : Drop(counts, S)[f] < 0

\* vmm_unback_all_user_ranges: PRESENT or not, every address in a range.
Backed(k) == {e \in {<<k, p, pte[k][p].frame>> : p \in Covered(ranges[k])} : e[3] # 0}

\* Present pages that are no longer in a range: what growth leaves behind.
Stray(k) == {p \in Pages \ Covered(ranges[k]) : pte[k][p].present}

\* Another entry that can be reached maps the frame of this one.
Shared(k, p) ==
  \E j \in Tasks, q \in Pages :
    /\ <<j, q>> # <<k, p>> /\ pte[k][p].frame # 0
    /\ pte[j][q].present /\ pte[j][q].frame = pte[k][p].frame

----------------------------------------------------------------------------
(* Loading a program. *)

\* Pages that are backed before p: the range made last is first on the list.
LoadedBefore(p) ==
  {q \in Covered(Image) :
     \E r, s \in Image : /\ q \in Span(r) /\ p \in Span(s)
                         /\ r.start > s.start \/ (r = s /\ q < p)}

\* The frame that page p gets: frames are given out from the lowest.
LoadFrame(free, p) ==
  CHOOSE f \in free :
    Cardinality({g \in free : g < f}) = Cardinality(LoadedBefore(p))

LoadedTables(free) ==
  [p \in Pages |-> IF p \in Covered(Image)
                   THEN Entry(LoadFrame(free, p), TRUE, p \notin ReadOnly)
                   ELSE Unmapped]

LoadedDirs ==
  [d \in Dirs |-> /\ \E p \in Covered(Image) : Directory[p] = d
                  /\ \A p \in ReadOnly : Directory[p] # d]

VmInit ==
  /\ refs = [f \in Frames |-> IF f \in 1..Cardinality(Covered(Image)) THEN 1 ELSE NoReferences[f]]
  /\ data = [f \in Frames |-> 0]
  /\ pte = [k \in Tasks |-> IF k = InitTask THEN LoadedTables(Frames) ELSE NoTables]
  /\ pdeRW = [k \in Tasks |-> IF k = InitTask THEN LoadedDirs ELSE NoDirs]
  /\ ranges = [k \in Tasks |-> IF k = InitTask THEN Image ELSE {}]
  /\ stackStart = [k \in Tasks |-> IF k = InitTask THEN StackRange.start ELSE 0]
  /\ status = [k \in Tasks |-> IF k = InitTask THEN "live" ELSE "none"]
  /\ fault = [k \in Tasks |-> NoFault]
  /\ panicked = None
  /\ wild = {}

Going == panicked = None /\ wild \subseteq Followed

\* Task k takes a step: nothing has panicked, and its fault handler is not at
\* work.
Runs(k) == Going /\ status[k] = "live" /\ fault[k] = NoFault

Panic(assertion) ==
  /\ panicked' = assertion
  /\ UNCHANGED <<refs, data, pte, pdeRW, ranges, stackStart, status, fault, wild>>

\* The situation comes about if cond holds.
Wilder(cond, situation) == IF cond THEN {situation} ELSE {}

\* The frames F are given out, and a fault has found one of them.
FoundTwice(F) == Wilder(\E j \in Tasks : fault[j] # NoFault /\ fault[j].frame \in F, "found_twice")

----------------------------------------------------------------------------
(* Writes, and the faults they cause. *)

Writable(k, p) == pte[k][p].present /\ pte[k][p].rw /\ pdeRW[k][Directory[p]]

Write(k, p, v) ==
  /\ Runs(k)
  /\ Writable(k, p) /\ pte[k][p].frame # 0
  /\ data' = [data EXCEPT ![pte[k][p].frame] = v]
  /\ UNCHANGED <<refs, pte, pdeRW, ranges, stackStart, status, fault, panicked, wild>>

\* The kernel writes to a buffer of the user's: the processor's WP bit is
\* clear, so a read-only entry does not fault.  (What goes to frame 0, by an
\* entry that grow_any has made present, is not followed.)
KernelWrite(k, p, v) ==
  /\ Runs(k)
  /\ pte[k][p].present /\ pte[k][p].frame # 0
  /\ data' = [data EXCEPT ![pte[k][p].frame] = v]
  /\ wild' = wild \cup Wilder(Shared(k, p), "kernel_write")
  /\ UNCHANGED <<refs, pte, pdeRW, ranges, stackStart, status, fault, panicked>>

\* The first half of vmm_get_free_user_pages, for the fault at p.
FrameFound(k, p, kind) ==
  /\ Free # {}
  /\ fault' = [fault EXCEPT ![k] = [kind |-> kind, page |-> p, frame |-> Lowest(Free)]]

\* ... which is found once more, if a fault in the middle has found it.
FoundAgain == wild' = wild \cup FoundTwice(NextFree)

\* A page of a range that is not there.
FaultBack(k, p) ==
  /\ Runs(k)
  /\ p \in Covered(ranges[k]) /\ ~ pte[k][p].present
  /\ FrameFound(k, p, "back") /\ FoundAgain
  /\ UNCHANGED <<refs, data, pte, pdeRW, ranges, stackStart, status, panicked>>

\* A write to a page that is there and may not be written.
FaultCow(k, p) ==
  /\ Runs(k)
  /\ p \in Covered(ranges[k]) \ ReadOnly
  /\ pte[k][p].present /\ ~ Writable(k, p)
  /\ FrameFound(k, p, "cow") /\ FoundAgain
  /\ UNCHANGED <<refs, data, pte, pdeRW, ranges, stackStart, status, panicked>>

Growing(k, p) == p = stackStart[k] - 1 /\ p \notin Covered(ranges[k]) /\ ~ Writable(k, p)

StackRanges(k) == {r \in ranges[k] : stackStart[k] \in Span(r)}

\* The stack range r moves down by a page, every entry of the moved range is
\* made present and writable, and the new page is backed.
Grow(k, p, r) ==
  LET moved == [r EXCEPT !.start = @ - 1]
      unsound == \E q \in Span(r) : pte[k][q].frame = 0 \/ Shared(k, q)
  IN /\ ranges' = [ranges EXCEPT ![k] = (@ \ {r}) \cup {moved}]
     /\ pte' = [pte EXCEPT ![k] = [q \in Pages |->
                  IF q \in Span(moved) THEN Entry(@[q].frame, TRUE, TRUE) ELSE @[q]]]
     /\ pdeRW' = [pdeRW EXCEPT ![k] = [d \in Dirs |->
                    @[d] \/ \E q \in Span(moved) : Directory[q] = d]]
     /\ stackStart' = [stackStart EXCEPT ![k] = p]
     /\ IF Free # {}
        THEN FrameFound(k, p, "back") /\ UNCHANGED status
        ELSE status' = [status EXCEPT ![k] = "zombie"] /\ UNCHANGED fault
     /\ wild' = wild \cup Wilder(unsound, "grow_any") \cup FoundTwice(NextFree)
     /\ UNCHANGED <<refs, data, panicked>>

\* The last byte below the stack; a stack range that was removed is missed.
FaultGrow(k, p) ==
  /\ Runs(k) /\ Growing(k, p)
  /\ IF StackRanges(k) = {}
     THEN Panic("no stack range")
     ELSE \E r \in StackRanges(k) : Grow(k, p, r)

\* Any other fault, and a fault that finds no frame, ends the task.
FaultKill(k, p) ==
  /\ Runs(k) /\ k # InitTask
  /\ ~ Writable(k, p)
  /\ \/ p \notin Covered(ranges[k])
     \/ p \in ReadOnly /\ pte[k][p].present
     \/ Free = {}
  /\ status' = [status EXCEPT ![k] = "zombie"]
  /\ UNCHANGED <<refs, data, pte, pdeRW, ranges, stackStart, fault, panicked, wild>>

\* The other half: the frame is taken and filled, and the page maps frame f.
TakeFrame(k, f, content) ==
  LET p == fault[k].page
  IN /\ Going /\ fault[k] # NoFault
     /\ refs' = [refs EXCEPT ![fault[k].frame] = 1]
     /\ data' = [data EXCEPT ![fault[k].frame] = content]
     /\ pte' = [pte EXCEPT ![k][p] = Entry(f, TRUE, TRUE)]
     /\ pdeRW' = [pdeRW EXCEPT ![k][Directory[p]] = @ \/ fault[k].kind = "cow"]
     /\ fault' = [fault EXCEPT ![k] = NoFault]
     /\ UNCHANGED <<ranges, stackStart, status, panicked, wild>>

OldFrame(k) == pte[k][fault[k].page].frame

\* What a copy is made of.  (Physical page 0, which an entry leads to that
\* grow_any has made present, is not followed.)
Copied(k) == IF OldFrame(k) # 0 THEN data[OldFrame(k)] ELSE 0

\* Mutant: a page filled on demand is not zeroed.
FaultDoneDirty(k) ==
  TakeFrame(k, fault[k].frame,
            IF fault[k].kind = "cow" THEN Copied(k) ELSE data[fault[k].frame])

\* A page of a range gets zeros, a shared page a copy; the copied frame keeps
\* the reference of this entry.
FaultDone(k) ==
  TakeFrame(k, fault[k].frame, IF fault[k].kind = "cow" THEN Copied(k) ELSE 0)

----------------------------------------------------------------------------
(* new_pages and remove_pages. *)

\* set_range_attr makes the pages present and writable, then new_pages makes
\* them absent again: the directory entry is what stays writable.
NewPages(k, r) ==
  /\ Runs(k)
  /\ Span(r) \cap Covered(ranges[k]) = {}
  /\ ranges' = [ranges EXCEPT ![k] = @ \cup {r}]
  /\ pte' = [pte EXCEPT ![k] = [q \in Pages |->
               IF q \in Span(r) THEN Entry(@[q].frame, FALSE, TRUE) ELSE @[q]]]
  /\ pdeRW' = [pdeRW EXCEPT ![k] = [d \in Dirs |->
                 @[d] \/ \E q \in Span(r) : Directory[q] = d]]
  /\ wild' = wild \cup Wilder(Span(r) \cap Stray(k) # {}, "fork_grown")
  /\ UNCHANGED <<refs, data, stackStart, status, fault, panicked>>

\* new_pages with length 0 passes its checks and fails vmm_install_range's.
NewPagesNone(k) == Runs(k) /\ Panic("no pages")

\* The entry of a page that was present, after vmm_uninstall_range.
Uninstalled(e) == Entry(0, FALSE, e.rw)

\* Pages that are not present keep what their entries hold.
UninstallRange(k, r) ==
  LET gone    == {q \in Span(r) : pte[k][q].present}
      dropped == {<<k, q, pte[k][q].frame>> : q \in gone}
  IN IF \E q \in gone : pte[k][q].frame = 0 THEN Panic("null frame")
     ELSE IF Overdrawn(refs, dropped) THEN Panic("negative count")
     ELSE /\ refs' = Without(dropped)
          /\ pte' = [pte EXCEPT ![k] = [q \in Pages |->
                       IF q \in gone THEN Uninstalled(@[q]) ELSE @[q]]]
          /\ ranges' = [ranges EXCEPT ![k] = @ \ {r}]
          /\ UNCHANGED <<data, pdeRW, stackStart, status, fault, panicked, wild>>

RemovePages(k, r) == Runs(k) /\ r \in ranges[k] /\ UninstallRange(k, r)

----------------------------------------------------------------------------
(* fork, exec and the end of a task. *)

\* Every entry of the ranges rs of k is in c as well, read only in both.
ShareTables(k, c, rs) ==
  LET S == Covered(rs)
      readOnly == [p \in Pages |-> Entry(pte[k][p].frame, TRUE, FALSE)]
  IN /\ pte' = [pte EXCEPT ![k] = [p \in Pages |-> IF p \in S THEN readOnly[p] ELSE @[p]],
                           ![c] = [p \in Pages |-> IF p \in S THEN readOnly[p] ELSE Unmapped]]
     /\ pdeRW' = [pdeRW EXCEPT ![k] = [d \in Dirs |-> @[d] /\ \A p \in S : Directory[p] # d],
                               ![c] = NoDirs]
     /\ ranges' = [ranges EXCEPT ![c] = rs]
     /\ stackStart' = [stackStart EXCEPT ![c] = stackStart[k]]
     /\ wild' = wild \cup Wilder(Stray(k) # {}, "fork_grown")

\* Mutant: the child's entries take no references.
ShareUncounted(k, c, rs) == refs' = refs /\ ShareTables(k, c, rs)

\* The body of fork's loop, for the ranges rs.
Share(k, c, rs) ==
  /\ refs' = [f \in Frames |->
                refs[f] + Cardinality({p \in Covered(rs) : pte[k][p].frame = f})]
  /\ ShareTables(k, c, rs)

CanFork(k, c) ==
  /\ Runs(k) /\ status[c] = "none"
  /\ \A f \in Frames : refs[f] < MaxRefs

\* vmm_getref_user_page's assertions, for the pages of the ranges rs.
NullFrame(k, rs)   == \E p \in Covered(rs) : pte[k][p].frame = 0
NoReference(k, rs) == \E p \in Covered(rs) : pte[k][p].frame # 0 /\ refs[pte[k][p].frame] < 1

Fork(k, c) ==
  /\ CanFork(k, c)
  /\ ~ NullFrame(k, ranges[k]) /\ ~ NoReference(k, ranges[k])
  /\ Share(k, c, ranges[k])
  /\ status' = [status EXCEPT ![c] = "live"]
  /\ UNCHANGED <<data, fault, panicked>>

\* Memory for a table runs out when some ranges are shared already.
ForkFails(k, c, rs) ==
  /\ CanFork(k, c)
  /\ rs \subseteq ranges[k] /\ rs # ranges[k]
  /\ ~ NullFrame(k, rs) /\ ~ NoReference(k, rs)
  /\ Share(k, c, rs)
  /\ status' = [status EXCEPT ![c] = "stillborn"]
  /\ UNCHANGED <<data, fault, panicked>>

ForkPanics(k, c) ==
  /\ CanFork(k, c)
  /\ NullFrame(k, ranges[k]) \/ NoReference(k, ranges[k])
  /\ Panic(IF NullFrame(k, ranges[k]) THEN "null frame" ELSE "no reference")

\* vmm_copy_user_ptes: the tables of the task that was made for loading.
CopyUserPtes(k) ==
  /\ pte' = [pte EXCEPT ![k] = LoadedTables(Free)]
  /\ pdeRW' = [pdeRW EXCEPT ![k] = LoadedDirs]

\* vmm_copy_vmranges_struct: its ranges, and where its stack starts.
CopyVmranges(k) ==
  /\ ranges' = [ranges EXCEPT ![k] = Image]
  /\ stackStart' = [stackStart EXCEPT ![k] = StackRange.start]

\* The frames that get the image's pages.
LoadFrames == {LoadFrame(Free, p) : p \in Covered(Image)}

\* The counts when the image is there.
LoadedRefs == [f \in Frames |-> IF f \in LoadFrames THEN 1 ELSE refs[f]]

\* The new image is loaded while the old one is held.  Files are read into
\* all of it but the stack, which keeps what its frames held.
Load(k) ==
  /\ refs' = Drop(LoadedRefs, Backed(k))
  /\ data' = [f \in Frames |->
                IF \E p \in Covered(Image) \ Span(StackRange) : LoadFrame(Free, p) = f
                THEN 0 ELSE data[f]]
  /\ CopyUserPtes(k) /\ CopyVmranges(k)
  /\ wild' = wild \cup FoundTwice(LoadFrames)
  /\ UNCHANGED <<status, fault, panicked>>

Exec(k) ==
  /\ Runs(k)
  /\ Cardinality(Free) >= Cardinality(Covered(Image))
  /\ IF Overdrawn(LoadedRefs, Backed(k)) THEN Panic("negative count") ELSE Load(k)

\* The last thread of a task vanishes: its memory stays until it is reaped.
Exit(k) ==
  /\ Runs(k) /\ k # InitTask
  /\ status' = [status EXCEPT ![k] = "zombie"]
  /\ UNCHANGED <<refs, data, pte, pdeRW, ranges, stackStart, fault, panicked, wild>>

FreeMemory(k) ==
  /\ refs' = Without(Backed(k))
  /\ pte' = [pte EXCEPT ![k] = NoTables]
  /\ pdeRW' = [pdeRW EXCEPT ![k] = NoDirs]
  /\ ranges' = [ranges EXCEPT ![k] = {}]
  /\ stackStart' = [stackStart EXCEPT ![k] = 0]
  /\ status' = [status EXCEPT ![k] = "none"]
  /\ UNCHANGED <<data, fault, panicked, wild>>

\* vmm_free_task_vm, called by the wait of the parent.
FreeTask(k) ==
  /\ Going /\ status[k] = "zombie"
  /\ IF Overdrawn(refs, Backed(k)) THEN Panic("negative count") ELSE FreeMemory(k)

VmStep(k) ==
  \/ \E p \in Pages, v \in Values : Write(k, p, v) \/ KernelWrite(k, p, v)
  \/ \E p \in Pages : FaultBack(k, p) \/ FaultCow(k, p) \/ FaultGrow(k, p) \/ FaultKill(k, p)
  \/ FaultDone(k)
  \/ \E r \in Asked : NewPages(k, r) \/ RemovePages(k, r)
  \/ NewPagesNone(k)
  \/ \E c \in Tasks : \/ Fork(k, c) \/ ForkPanics(k, c)
                      \/ \E rs \in SUBSET ranges[k] : ForkFails(k, c, rs)
  \/ Exec(k) \/ Exit(k) \/ FreeTask(k)

VmNext == \E k \in Tasks : VmStep(k)

VmSpec == VmInit /\ [][VmNext]_vmvars
=============================================================================
