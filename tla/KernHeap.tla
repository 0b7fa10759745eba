------------------------------ MODULE KernHeap ------------------------------
(***************************************************************************)
(* The kernel's allocator: the list memory manager of 410kern/lmm, the     *)
(* calls of 410kern/malloc that malloc_wrappers.c guards, and how          *)
(* util_lmm.c and kernel_main fill it when the machine starts.             *)
(*                                                                         *)
(* A manager is a sequence of regions, each with the sequence of its free  *)
(* blocks.  Nobody here asks for memory with flags, so there are none.     *)
(* An assertion that fails makes the manager Failed.                       *)
(***************************************************************************)
EXTENDS Integers, Sequences, FiniteSets, SequencesExt

AlignSize == 4   \* bound: sizeof(struct lmm_node), for 8
WordSize == 2    \* sizeof(size_t)
Top == 31        \* bound: the last address, for 0xffffffff

Down(a) == a - (a % AlignSize)
Up(a) == Down(a + AlignSize - 1)

Failed == <<"assertion">>

NULL == 0

Node(addr, size) == [addr |-> addr, size |-> size]

End(b) == b.addr + b.size

----------------------------------------------------------------------------
(* Allocation. *)

\* The list without its i-th block, but with what is left of it before and
\* behind what is taken.
Split(nodes, i, before, behind) ==
  LET keep(b) == IF b.size > 0 THEN <<b>> ELSE <<>>
  IN  SubSeq(nodes, 1, i - 1) \o keep(before) \o keep(behind) \o SubSeq(nodes, i + 1, Len(nodes))

Least(S) == CHOOSE x \in S : \A y \in S : x <= y

Taken(lmm, r, nodes, size) ==
  [lmm EXCEPT ![r].nodes = nodes, ![r].free = @ - size]

\* lmm_alloc: the first block that is large enough, in the first region that
\* has one, from its start.
LmmAlloc(lmm, size0) ==
  LET size == Up(size0)
      fits == [r \in DOMAIN lmm |-> {i \in DOMAIN lmm[r].nodes : lmm[r].nodes[i].size >= size}]
      regions == {r \in DOMAIN lmm : fits[r] # {}}
      r == Least(regions)
      i == Least(fits[r])
      node == lmm[r].nodes[i]
  IN  IF regions = {} THEN [lmm |-> lmm, ptr |-> NULL]
      ELSE [lmm |-> Taken(lmm, r, Split(lmm[r].nodes, i, Node(node.addr, 0),
                                        Node(node.addr + size, node.size - size)), size),
            ptr |-> node.addr]

\* The loop over the low bits, each set as in ofs with a carry into the next.
Aligned(addr, bits, ofs) ==
  LET bit(a, n) == (a \div 2^n) % 2
      up[n \in 0..bits] ==
        IF n = 0 THEN addr
        ELSE IF bit(up[n - 1], n - 1) # bit(ofs, n - 1) THEN up[n - 1] + 2^(n - 1) ELSE up[n - 1]
  IN  up[bits]

\* lmm_alloc_gen: as aligned as asked, between min and max.  In each region
\* the first block with room for it decides, even if it leads beyond max.
LmmAllocGen(lmm, size, bits, ofs, min, max) ==
  LET start(node) == Aligned(IF node.addr < min THEN min ELSE node.addr, bits, ofs)
      fits(r) == {i \in DOMAIN lmm[r].nodes :
                    LET node == lmm[r].nodes[i] IN start(node) + size <= End(node)}
      stays(r) == fits(r) # {} /\ start(lmm[r].nodes[Least(fits(r))]) + size <= max
      regions == {r \in DOMAIN lmm : lmm[r].min < max /\ lmm[r].max > min /\ stays(r)}
      r == Least(regions)
      i == Least(fits(r))
      node == lmm[r].nodes[i]
      addr == start(node)
      whole == Up((addr % AlignSize) + size)
      first == Down(addr)
  IN  IF regions = {} THEN [lmm |-> lmm, ptr |-> NULL]
      ELSE [lmm |-> Taken(lmm, r, Split(lmm[r].nodes, i, Node(node.addr, first - node.addr),
                                        Node(first + whole, End(node) - first - whole)), whole),
            ptr |-> addr]

LmmAllocAligned(lmm, size, bits, ofs) == LmmAllocGen(lmm, size, bits, ofs, 0, Top)

----------------------------------------------------------------------------
(* Giving back. *)

\* lmm_free: into the region the block starts in, and one with the blocks it
\* touches.  That it overlaps none before it is asserted.
LmmFree(lmm, block, size0) ==
  LET addr == Down(block)
      size == Up((block % AlignSize) + size0)
      regions == {r \in DOMAIN lmm : addr >= lmm[r].min /\ addr < lmm[r].max}
      r == Least(regions)
      nodes == lmm[r].nodes
      k == Cardinality({i \in DOMAIN nodes : nodes[i].addr < addr})
      back == k > 0 /\ End(nodes[k]) >= addr
      ahead == k < Len(nodes) /\ addr + size >= nodes[k + 1].addr
      node == Node(IF back THEN nodes[k].addr ELSE addr,
                   size + (IF back THEN nodes[k].size ELSE 0)
                        + (IF ahead THEN nodes[k + 1].size ELSE 0))
  IN  IF \/ lmm = Failed \/ block = 0 \/ regions = {}
         \/ lmm[r].free + size > lmm[r].max - lmm[r].min
         \/ back /\ End(nodes[k]) # addr
         \/ back /\ ahead /\ addr + size # nodes[k + 1].addr
      THEN Failed
      ELSE [lmm EXCEPT
              ![r].free = @ + size,
              ![r].nodes = SubSeq(@, 1, IF back THEN k - 1 ELSE k) \o <<node>>
                             \o SubSeq(@, IF ahead THEN k + 2 ELSE k + 1, Len(@))]

\* lmm_add_free: the whole cells of a block, to the regions they are in.  A
\* block inside one cell, at neither of its ends, fails an assertion.
LmmAddFree(lmm, block, size) ==
  LET min == Up(block)
      max == Down(block + size)
      add(m, r) ==
        LET new_min == IF min < r.min THEN r.min ELSE min
            new_max == IF max > r.max THEN r.max ELSE max
        IN  IF max > r.min /\ min < r.max THEN LmmFree(m, new_min, new_max - new_min) ELSE m
  IN  IF lmm = Failed \/ max < min THEN Failed
      ELSE IF max = min THEN lmm ELSE FoldLeft(add, lmm, lmm)

\* lmm_find_free: the lowest free memory at start or above, in any region.
LmmFindFree(lmm, start) ==
  LET from == Up(start)
      ends(r) == {i \in DOMAIN lmm[r].nodes : End(lmm[r].nodes[i]) > from}
      found == {lmm[r].nodes[Least(ends(r))] : r \in {s \in DOMAIN lmm : ends(s) # {}}}
      at(n) == IF n.addr > from THEN n.addr ELSE from
      n == CHOOSE x \in found : \A y \in found : at(x) <= at(y)
  IN  IF found = {} THEN Node(Top, 0) ELSE Node(at(n), End(n) - at(n))

\* lmm_remove_free: free memory found is allocated, piece by piece.
LmmRemoveFree(lmm, block, size) ==
  LET last == block + size
      after[n \in 0..Top \div AlignSize] ==
        IF n = 0 THEN [lmm |-> lmm, start |-> block]
        ELSE LET was == after[n - 1]
                 f == LmmFindFree(was.lmm, was.start)
                 part == IF End(f) > last THEN last - f.addr ELSE f.size
                 got == LmmAllocGen(was.lmm, part, 0, 0, f.addr, f.addr + part)
             IN  IF was.lmm = Failed \/ was.start >= last THEN was
                 ELSE IF f.size = 0 \/ f.addr >= last THEN [was EXCEPT !.start = last]
                 ELSE [lmm |-> IF got.ptr = f.addr THEN got.lmm ELSE Failed, start |-> f.addr]
  IN  after[Top \div AlignSize].lmm

----------------------------------------------------------------------------
(* The calls that malloc_wrappers.c makes. *)

\* The word before what _malloc returns is what _free is to give back.
Malloc(lmm, size) ==
  LET r == LmmAlloc(lmm, size + WordSize)
  IN  IF r.ptr = NULL THEN r ELSE [r EXCEPT !.ptr = @ + WordSize]

Free(lmm, ptr, size) == LmmFree(lmm, ptr - WordSize, size + WordSize)

Smemalign(lmm, alignment, size) ==
  LET shift == Least({n \in 0..alignment : 2^n >= alignment})
  IN  LmmAllocAligned(lmm, size, shift, 0)

Sfree(lmm, ptr, size) == LmmFree(lmm, ptr, size)

----------------------------------------------------------------------------
(* The machine starts. *)

\* Bounds: 1 MB, 16 MB where user memory starts, and the end of the data of
\* the BIOS.
OneMB == 8
SixteenMB == 20
BiosEnd == 4

\* A priority is unsigned; 256 stands for 2^32.
Pri(n) == n % 256

\* lmm_add_region: behind the regions of higher priority, and those as high
\* that are larger.
LmmAddRegion(lmm, addr, size, pri) ==
  LET min == Up(addr)
      max == Down(addr + size)
      before(r) == r.pri > pri \/ (r.pri = pri /\ r.max - r.min > max - min)
      k == Least({n \in 0..Len(lmm) : n < Len(lmm) => ~ before(lmm[n + 1])})
      new == [min |-> min, max |-> max, pri |-> pri, nodes |-> <<>>, free |-> 0]
  IN  IF max <= min THEN lmm
      ELSE IF \E i \in 1..k : max > lmm[i].min /\ min < lmm[i].max THEN Failed
      ELSE SubSeq(lmm, 1, k) \o <<new>> \o SubSeq(lmm, k + 1, Len(lmm))

Regions ==
  LET low == LmmAddRegion(<<>>, 0, OneMB, Pri(-2))
      middle == LmmAddRegion(low, OneMB, SixteenMB - OneMB, Pri(-1))
  IN  LmmAddRegion(middle, SixteenMB, Top - SixteenMB, Pri(0))

\* Mutant: behind a hole the search goes on with the end found so far.
SkipOn(w, hole) ==
  IF w.retry \/ ~ (w.max > hole.min /\ w.min < hole.max) THEN w
  ELSE IF w.min < hole.min THEN [w EXCEPT !.max = hole.min]
  ELSE [w EXCEPT !.min = hole.max]

\* The macro skip: the piece of memory found so far ends before the hole, or,
\* when it starts inside, the search starts again behind it.
Skip(w, hole) ==
  IF w.retry \/ ~ (w.max > hole.min /\ w.min < hole.max) THEN w
  ELSE IF w.min < hole.min THEN [w EXCEPT !.max = hole.min]
  ELSE [w EXCEPT !.min = hole.max, !.retry = TRUE]

\* mb_util_lmm: all memory between the holes is free.
MbUtilLmm(holes) ==
  LET after[n \in 0..Top] ==
        IF n = 0 THEN [lmm |-> Regions, min |-> BiosEnd]
        ELSE LET was == after[n - 1]
                 w == FoldLeft(Skip, [min |-> was.min, max |-> Top, retry |-> FALSE], holes)
             IN  IF was.min >= Top THEN was
                 ELSE [lmm |-> IF w.retry THEN was.lmm ELSE LmmAddFree(was.lmm, w.min, w.max - w.min),
                       min |-> IF w.retry THEN w.min ELSE w.max]
  IN  after[Top].lmm

\* The first lines of kernel_main: what users get and what the BIOS has.
KernelMain(lmm) ==
  LmmRemoveFree(LmmRemoveFree(lmm, SixteenMB, Top + 1 - AlignSize - SixteenMB), 0, OneMB)

----------------------------------------------------------------------------
(***************************************************************************)
(* The kernel's allocator against the set of free cells.                   *)
(***************************************************************************)

\* A cell is AlignSize bytes; a block takes all the cells it has a byte of.
Cell(a) == a \div AlignSize
CellsOf(a, size) == Cell(a)..Cell(a + size - 1)

InRegion(r) == Cell(r.min)..Cell(r.max) - 1
AllCells == UNION {InRegion(Regions[r]) : r \in DOMAIN Regions}

\* The runs of cells of a set, in order, as blocks.
Runs(S) ==
  LET starts == {c \in S : c - 1 \notin S}
      last(c) == Least({d \in S : d >= c /\ d + 1 \notin S})
  IN  [i \in 1..Cardinality(starts) |->
         LET c == CHOOSE c \in starts : Cardinality({d \in starts : d < c}) = i - 1
         IN  Node(c * AlignSize, (last(c) - c + 1) * AlignSize)]

\* The manager in which the cells of F are free.
Of(F) ==
  [r \in DOMAIN Regions |->
     LET own == F \cap InRegion(Regions[r])
     IN  [Regions[r] EXCEPT !.nodes = Runs(own), !.free = AlignSize * Cardinality(own)]]

\* A block of that size may be had at a.
Fits(F, a, size) ==
  \E r \in DOMAIN Regions : CellsOf(a, size) \subseteq F \cap InRegion(Regions[r])

\* The block r.ptr of that size has been taken from F, or there is none to be
\* had at any of the addresses.
Takes(F, r, ptr, size, addresses) ==
  IF ptr = NULL THEN r.lmm = Of(F) /\ \A a \in addresses : ~ Fits(F, a, size)
  ELSE ptr \in addresses /\ Fits(F, ptr, size) /\ r.lmm = Of(F \ CellsOf(ptr, size))

Sizes == 1..11

\* Whatever is free, which the cell at address 0 never is: an allocation takes
\* cells that are free and no more than its size touches, fails only when no
\* region has room, and what is given back is free again, as one with its
\* neighbours; assertions do not fail
\* (lmm_alloc.c:28-86, lmm_alloc_gen.c:29-155, lmm_free.c:28-108).
CellsKept ==
  \A F \in SUBSET (AllCells \ {Cell(0)}) : \A size \in Sizes :
    /\ \A r \in {Malloc(Of(F), size)} :
       LET chunk == IF r.ptr = NULL THEN NULL ELSE r.ptr - WordSize
       IN  /\ Takes(F, r, chunk, size + WordSize, {c * AlignSize : c \in AllCells})
           /\ r.ptr # NULL => Free(r.lmm, r.ptr, size) = Of(F)
    /\ \A alignment \in {1, 2, 4, 8, 16} : \A r \in {Smemalign(Of(F), alignment, size)} :
         /\ Takes(F, r, r.ptr, size, {a \in 0..Top - size : a % alignment = 0})
         /\ r.ptr # NULL => Sfree(r.lmm, r.ptr, size) = Of(F)

\* Memory found at the start: mem_lower and mem_upper, and what else is there.
Hole(min, max) == [min |-> min, max |-> max]

Held(holes) == UNION {holes[i].min..holes[i].max - 1 : i \in DOMAIN holes}

\* A gap between holes inside one cell.
Sliver(held) ==
  \E a \in held, b \in held :
    a < b - 1 /\ (a + 1..b - 1) \cap held = {} /\ Up(a + 1) > Down(b)

\* When the kernel runs it allocates from the cells between 1 MB and the
\* users' memory that touch nothing the boot loader and the kernel's image
\* are in, and from all of these, however the holes lie to each other; but if
\* two of them leave a gap inside one cell, an assertion fails
\* (util_lmm.c:63-150, lmm_add_free.c:40, kernel.c:54-57).
StartsRight ==
  \A lower \in {OneMB - AlignSize, OneMB}, upper \in {SixteenMB - AlignSize, Top} :
  \A h, g \in {Hole(a, b) : a \in OneMB - 1..SixteenMB, b \in OneMB..SixteenMB} :
    h.min < h.max /\ g.min < g.max =>
      LET holes == <<Hole(lower, OneMB), Hole(upper, Top), h, g>>
          free == {c \in Cell(OneMB)..Cell(SixteenMB) - 1 :
                     (c * AlignSize..c * AlignSize + AlignSize - 1) \cap Held(holes) = {}}
      IN  KernelMain(MbUtilLmm(holes)) = IF Sliver(Held(holes)) THEN Failed ELSE Of(free)

KernHeapAgrees == CellsKept /\ StartsRight
=============================================================================
