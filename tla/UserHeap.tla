------------------------------ MODULE UserHeap ------------------------------
(***************************************************************************)
(* The allocator under libthread's malloc: mm_malloc.c over memlib.c, an   *)
(* implicit list of blocks with a tag at both ends, and the stacks that    *)
(* thread_lib.c lays out in its blocks.                                    *)
(*                                                                         *)
(* Memory is words.  A heap h is its words mem, brk, where it ends, and    *)
(* top, the end of the pages it has.  A tag is the size of a block in      *)
(* words and whether it is allocated; a word of no tag is none, so reading *)
(* a program's word as a tag is an error.  Pages come zeroed, and a zero   *)
(* word is the tag of size 0.                                              *)
(***************************************************************************)
EXTENDS Integers, Sequences, FiniteSets, SequencesExt, FiniteSetsExt

WordBytes == 4

Dword == 2       \* DSIZE in words
Overhead == 2    \* header and footer
Page == 8        \* bound: words in a page, and CHUNKSIZE
Base == 0        \* the page mem_init was given

NULL == -1

Tag(size, alloc) == [size |-> size, alloc |-> alloc]

Zero == Tag(0, FALSE)

Header(bp) == bp - 1

Footer(h, bp) == bp + h.mem[Header(bp)].size - Dword

NextBlock(h, bp) == bp + h.mem[Header(bp)].size

PrevBlock(h, bp) == bp - h.mem[bp - Dword].size

Put(h, a, tag) == [h EXCEPT !.mem[a] = tag]

\* Header first: where the footer is follows from it.
PutTags(h, bp, tag) ==
  LET m == Put(h, Header(bp), tag) IN Put(m, Footer(m, bp), tag)

\* Mutant: the block before is not looked at.
CoalesceForward(h, bp) ==
  LET next == NextBlock(h, bp)
  IN  IF h.mem[Header(next)].alloc THEN [heap |-> h, ptr |-> bp]
      ELSE [heap |-> PutTags(h, bp, Tag(h.mem[Header(bp)].size + h.mem[Header(next)].size, FALSE)),
            ptr |-> bp]

\* coalesce: the four cases by neighbours.  The middle tags stay where they are.
Coalesce(h, bp) ==
  LET prev == PrevBlock(h, bp)
      next == NextBlock(h, bp)
      ahead == ~ h.mem[Footer(h, prev)].alloc
      behind == ~ h.mem[Header(next)].alloc
      size == h.mem[Header(bp)].size
      first == IF ahead THEN prev ELSE bp
      total == size + (IF ahead THEN h.mem[Header(prev)].size ELSE 0)
                    + (IF ~ behind THEN 0 ELSE h.mem[IF ahead THEN Footer(h, next) ELSE Header(next)].size)
      last == IF behind THEN Footer(h, next) ELSE Footer(h, bp)
  IN  IF ~ ahead /\ ~ behind THEN [heap |-> h, ptr |-> bp]
      ELSE [heap |-> Put(Put(h, Header(first), Tag(total, FALSE)), last, Tag(total, FALSE)),
            ptr |-> first]

\* mem_sbrk of n words; more says whether new_pages has the pages it may need.
Refused(h, n, more) == h.brk + n > h.top /\ ~ more

Sbrk(h, n) ==
  LET short == h.brk + n - h.top
      top == IF short > 0 THEN h.top + Page * ((short + Page - 1) \div Page) ELSE h.top
  IN  [mem |-> h.mem @@ [a \in h.top..top - 1 |-> Zero],
       brk |-> h.brk + n, top |-> top]

\* extend_heap: the old epilogue becomes the header of the new block.
ExtendHeap(h, words) ==
  LET n == words + (words % 2)
      bp == h.brk
      m == PutTags(Sbrk(h, n), bp, Tag(n, FALSE))
  IN  Coalesce(Put(m, Header(NextBlock(m, bp)), Tag(0, TRUE)), bp)

\* mm_init, when both its pages are there.
MmInit ==
  LET first == [mem |-> [a \in Base..Base + Page - 1 |-> Zero], brk |-> Base, top |-> Base + Page]
      h == Sbrk(first, 4)
      p == Put(Put(h, Base + 1, Tag(Overhead, TRUE)), Base + 2, Tag(Overhead, TRUE))
  IN  ExtendHeap(Put(p, Base + 3, Tag(0, TRUE)), Page).heap

HeapList == Base + Dword

FindFit(h, asize) ==
  LET from[bp \in HeapList..h.brk] ==
        LET tag == h.mem[Header(bp)]
        IN  IF tag.size = 0 THEN NULL
            ELSE IF ~ tag.alloc /\ asize <= tag.size THEN bp
            ELSE from[NextBlock(h, bp)]
  IN  from[HeapList]

Place(h, bp, asize) ==
  LET csize == h.mem[Header(bp)].size
      m == PutTags(h, bp, Tag(asize, TRUE))
  IN  IF csize - asize >= Dword + Overhead
      THEN PutTags(m, NextBlock(m, bp), Tag(csize - asize, FALSE))
      ELSE PutTags(h, bp, Tag(csize, TRUE))

\* Bytes asked for, in words with tags.
Adjusted(size) ==
  IF size <= Dword * WordBytes THEN Dword + Overhead
  ELSE Dword * ((size + (Overhead + Dword) * WordBytes - 1) \div (Dword * WordBytes))

MmMalloc(h, size, more) ==
  LET asize == Adjusted(size)
      fit == FindFit(h, asize)
      need == IF asize > Page THEN asize ELSE Page
      grown == ExtendHeap(h, need)
  IN  IF size <= 0 THEN [heap |-> h, ptr |-> NULL]
      ELSE IF fit # NULL THEN [heap |-> Place(h, fit, asize), ptr |-> fit]
      ELSE IF Refused(h, need, more) THEN [heap |-> h, ptr |-> NULL]
      ELSE [heap |-> Place(grown.heap, grown.ptr, asize), ptr |-> grown.ptr]

\* mm_free of an address that is not NULL.
MmFree(h, bp) == Coalesce(PutTags(h, bp, Tag(h.mem[Header(bp)].size, FALSE)), bp).heap

\* mm_realloc of an address that is not NULL: the old size counts the tags.
Copied(h, to, bp, words) ==
  [h EXCEPT !.mem = [a \in DOMAIN @ |-> IF a - to \in 0..words - 1 THEN @[a - to + bp] ELSE @[a]]]

MovedTo(new, bp, words) ==
  IF new.ptr = NULL THEN new
  ELSE [heap |-> MmFree(Copied(new.heap, new.ptr, bp, words), bp), ptr |-> new.ptr]

MmRealloc(h, bp, size, more) ==
  LET old == h.mem[Header(bp)].size
      words == IF old * WordBytes < size THEN old ELSE size \div WordBytes
  IN  MovedTo(MmMalloc(h, size, more), bp, words)

----------------------------------------------------------------------------
(* malloc.c: lib is the heap, and whether there is one yet.                *)

IntMod == 2 ^ 8   \* bound: an int has 8 bits

ToInt(n) == LET m == n % IntMod IN IF m >= IntMod \div 2 THEN m - IntMod ELSE m

\* mm_init fails when its second page is refused; the next call tries again.
Inited(lib, more) == IF lib.inited \/ ~ more THEN lib ELSE [inited |-> TRUE, heap |-> MmInit]

Answered(lib, r) == [ptr |-> r.ptr, lib |-> [lib EXCEPT !.heap = r.heap]]

MallocIn(lib, size, more) ==
  IF lib.inited THEN Answered(lib, MmMalloc(lib.heap, size, more)) ELSE [ptr |-> NULL, lib |-> lib]

_malloc(lib, size, more) == MallocIn(Inited(lib, more), size, more)

\* Mutant: only the first element is zeroed.
ZeroedBytesOne(nelt, eltsize) == eltsize

ZeroedBytes(nelt, eltsize) == ToInt(nelt * eltsize)

Zeroed(r, words) ==
  IF r.ptr = NULL THEN r
  ELSE [r EXCEPT !.lib.heap.mem =
          [a \in DOMAIN @ |-> IF a - r.ptr \in 0..words - 1 THEN Zero ELSE @[a]]]

_calloc(lib, nelt, eltsize, more) ==
  Zeroed(_malloc(lib, ToInt(nelt * eltsize), more), ZeroedBytes(nelt, eltsize) \div WordBytes)

_realloc(lib, buf, size, more) ==
  IF ~ lib.inited THEN [ptr |-> NULL, lib |-> lib]
  ELSE Answered(lib, IF buf = NULL THEN MmMalloc(lib.heap, size, more)
                                   ELSE MmRealloc(lib.heap, buf, size, more))

_free(lib, buf) ==
  IF ~ lib.inited \/ buf = NULL THEN lib ELSE [lib EXCEPT !.heap = MmFree(@, buf)]

----------------------------------------------------------------------------
(* The stacks of threads, in bytes. *)

PageBytes == Page * WordBytes

Block == 3 * WordBytes  \* bound: sizeof(THREAD_CNTRL_BLCK)

\* thr_init, asked for stacks of size bytes.
ThreadStackSize(size) ==
  PageBytes * ((size + 2 * Block + PageBytes - 1) \div PageBytes) + PageBytes

\* thr_create, in the block at address base: the control block goes under the
\* last page boundary, and room for another one is left below it.
ControlBlock(base, size) ==
  LET end == base + ThreadStackSize(size) - 1 IN end - (end % PageBytes) - Block

ThreadEsp(base, size) == ControlBlock(base, size) - Block

----------------------------------------------------------------------------
(***************************************************************************)
(* The allocator against lists of blocks, over every list of a few words.  *)
(***************************************************************************)

Most == 12  \* bound: words in the blocks of a heap

Sum(bs) == FoldFunction(LAMBDA b, n : b.size + n, 0, bs)

Compositions[n \in 0..Most] ==
  IF n = 0 THEN {<<>>}
  ELSE UNION {{<<Tag(k, alloc)>> \o bs : bs \in Compositions[n - k], alloc \in BOOLEAN} :
                k \in {j \in 4..n : j % 2 = 0}}

\* Between calls no two free blocks are neighbours.
Merged(bs) == \A i \in 1..Len(bs) - 1 : bs[i].alloc \/ bs[i + 1].alloc

BlockLists == {bs \in UNION {Compositions[n] : n \in {j \in 0..Most : j % 2 = 0}} : Merged(bs)}

\* The address of the i-th block.
At(bs, i) == HeapList + Overhead + Sum(SubSeq(bs, 1, i - 1))

Data == [data |-> TRUE]

\* A heap of these blocks; what is in them is anything but tags.
HeapOf(bs, top) ==
  LET end == Base + 4 + Sum(bs)
      at(i) == {Header(At(bs, i)), At(bs, i) + bs[i].size - Dword}
      of(a) == {i \in DOMAIN bs : a \in at(i)}
  IN  [mem |-> [a \in Base..top - 1 |->
                  CASE a \in {Base + 1, Base + 2} -> Tag(Overhead, TRUE)
                    [] a = end - 1 -> Tag(0, TRUE)
                    [] of(a) # {} -> bs[CHOOSE i \in of(a) : TRUE]
                    [] OTHER -> Data],
       brk |-> end, top |-> top]

\* Where the pages of that heap may end.
Tops(bs) == {t \in {2 * Page, 3 * Page} : t - (Base + 4 + Sum(bs)) \in 0..Page - 1}

\* The heap h is these blocks: its tags are theirs, and the data of the
\* allocated ones, but for the one at fresh, is untouched.
IsHeap(h, bs, fresh) ==
  LET g == HeapOf(bs, h.top)
      kept == {j \in DOMAIN bs : bs[j].alloc /\ At(bs, j) # fresh}
      counts(a) == \/ g.mem[a] # Data
                   \/ \E j \in kept : a - At(bs, j) \in 0..bs[j].size - Overhead - 1
  IN  h.brk = g.brk /\ \A a \in {b \in Base + 1..h.brk - 1 : counts(b)} : h.mem[a] = g.mem[a]

Replace(bs, i, j, new) == SubSeq(bs, 1, i - 1) \o new \o SubSeq(bs, j + 1, Len(bs))

\* The i-th block given back, and one with its free neighbours.
Freed(bs, i) ==
  LET a == IF i > 1 /\ ~ bs[i - 1].alloc THEN i - 1 ELSE i
      b == IF i < Len(bs) /\ ~ bs[i + 1].alloc THEN i + 1 ELSE i
  IN  Replace(bs, a, b, <<Tag(Sum(SubSeq(bs, a, b)), FALSE)>>)

\* The first n words of a free block given out, or all of it.
Given(bs, i, n) ==
  LET rest == bs[i].size - n
  IN  Replace(bs, i, i, IF rest >= 4 THEN <<Tag(n, TRUE), Tag(rest, FALSE)>>
                        ELSE <<Tag(bs[i].size, TRUE)>>)

Extended(bs, n) ==
  LET new == Append(bs, Tag(n, FALSE)) IN Freed(new, Len(new))

\* The first block that has room for n words, or what new pages add.
Allocated(bs, n) ==
  LET fits == {i \in DOMAIN bs : ~ bs[i].alloc /\ bs[i].size >= n}
      long == Extended(bs, IF n > Page THEN n ELSE Page)
  IN  IF fits # {} THEN [blocks |-> Given(bs, Min(fits), n), ptr |-> At(bs, Min(fits)), grows |-> FALSE]
      ELSE [blocks |-> Given(long, Len(long), n), ptr |-> At(long, Len(long)), grows |-> TRUE]

\* NULL only where new pages are needed and there are none, and nothing has
\* changed then.
NoPages(h, n, more) == Refused(h, IF n > Page THEN n ELSE Page, more)

AllocatesAs(to, h, r, n, more) ==
  IF to.grows /\ NoPages(h, n, more) THEN r.ptr = NULL /\ r.heap = h
  ELSE r.ptr = to.ptr /\ IsHeap(r.heap, to.blocks, to.ptr)

Allocates(bs, h, size, more) ==
  LET n == Adjusted(size)
  IN  /\ (n - Overhead) * WordBytes >= size
      /\ AllocatesAs(Allocated(bs, n), h, MmMalloc(h, size, more), n, more)

\* A block that moves takes along as much data as there was and is room for.
MovesAs(to, r, from, words) ==
  LET old == CHOOSE k \in DOMAIN to.blocks : At(to.blocks, k) = from
  IN  /\ r.ptr = to.ptr /\ IsHeap(r.heap, Freed(to.blocks, old), to.ptr)
      /\ \A a \in 0..words - 1 : r.heap.mem[r.ptr + a] = Data

Moves(bs, h, i, size) ==
  MovesAs(Allocated(bs, Adjusted(size)), MmRealloc(h, At(bs, i), size, TRUE), At(bs, i),
          Min({bs[i].size - Overhead, size \div WordBytes}))

\* The allocator keeps a list of blocks, whatever blocks there are and
\* whatever programs have written into them: no call reads a program's word
\* as a tag or changes data in a block in use, free blocks that touch become
\* one, and a call that fails changes nothing (mm_malloc.c:77-305,
\* memlib.c:47-72).
BlocksKept ==
  \A bs \in BlockLists : \A top \in Tops(bs) : LET h == HeapOf(bs, top) IN
    /\ \A size \in 1..2 * Page * WordBytes, more \in BOOLEAN : Allocates(bs, h, size, more)
    /\ \A i \in {j \in DOMAIN bs : bs[j].alloc} :
         /\ IsHeap(MmFree(h, At(bs, i)), Freed(bs, i), NULL)
         /\ \A size \in {1, 8, 9, 24, 25} : Moves(bs, h, i, size)

\* A thread has the stack that thr_init was asked for, between the start of
\* its block and its control block, which ends inside the block, wherever
\* malloc puts it (thread_lib.c:202-222, 283-289).  The pointer that thr_create
\* frees when thread_fork fails is the control block's, inside the block: in a
\* heap that was never used this changes no tag and no other block's data, and
\* the block is lost (thread_lib.c:233).
StacksFit ==
  /\ \A size \in 0..2 * PageBytes, word \in {a \in 0..Page - 1 : a % 2 = 0} :
       LET base == PageBytes + word * WordBytes
       IN  /\ ThreadEsp(base, size) - base >= size
           /\ ControlBlock(base, size) + Block <= base + ThreadStackSize(size)
           /\ size % WordBytes = 0 => ThreadEsp(base, size) % WordBytes = 0
  /\ \A size \in {1, PageBytes} :
       LET r == MmMalloc(MmInit, ThreadStackSize(size), TRUE)
           block == ControlBlock(r.ptr * WordBytes, size) \div WordBytes
           data == r.ptr..r.ptr + r.heap.mem[Header(r.ptr)].size - Overhead - 1
       IN  \A a \in (Base..r.heap.top - 1) \ data :
             MmFree(r.heap, block).mem[a] = r.heap.mem[a]

\* The block has room for all elements, and they are zero whatever was in it
\* before, without a word of another block; only where the product of number
\* and size does not fit an int the block may be too small.
CallocsAs(bs, h, r, bytes, more) ==
  LET n == Adjusted(bytes)
  IN  /\ AllocatesAs(Allocated(bs, n), h, [ptr |-> r.ptr, heap |-> r.lib.heap], n, more)
      /\ r.ptr # NULL => \A a \in 0..bytes \div WordBytes - 1 : r.lib.heap.mem[r.ptr + a] = Zero

Callocs(bs, h, nelt, eltsize, more) ==
  nelt * eltsize < IntMod \div 2 =>
    CallocsAs(bs, h, _calloc([inited |-> TRUE, heap |-> h], nelt, eltsize, more), nelt * eltsize, more)

\* The first call makes the heap, a later one if there is no page for it yet;
\* until then realloc gives nothing and free does nothing; and NULL can be
\* given to both (malloc.c:21-80).
HeapMadeOnce ==
  LET none == [inited |-> FALSE, heap |-> Zero]
  IN  \A made \in {Inited(none, TRUE)}, size \in {1, 24} :
        /\ _malloc(none, size, FALSE) = [ptr |-> NULL, lib |-> none]
        /\ _malloc(_malloc(none, size, FALSE).lib, size, TRUE) = _malloc(made, size, TRUE)
        /\ _calloc(none, size, 2, FALSE).lib = none
        /\ _realloc(none, 4, size, TRUE).ptr = NULL /\ _free(none, 4) = none
        /\ _realloc(made, NULL, size, TRUE) = _malloc(made, size, TRUE) /\ _free(made, NULL) = made
        /\ \A r \in {_malloc(none, size, TRUE)} :
             IsHeap(_free(r.lib, r.ptr).heap, <<Tag(Page, FALSE)>>, NULL)

\* calloc on every list of blocks.
ZerosGiven ==
  \A bs \in BlockLists : \A top \in Tops(bs) :
    \A nelt \in {1, 3, 20}, eltsize \in {4, 8}, more \in BOOLEAN :
      Callocs(bs, HeapOf(bs, top), nelt, eltsize, more)

UserHeapAgrees == BlocksKept /\ StacksFit /\ HeapMadeOnce /\ ZerosGiven
=============================================================================
