------------------------------- MODULE Loader -------------------------------
(***************************************************************************)
(* What exec makes of a file of the ramdisk, byte by byte: the headers are *)
(* read, a range of whole pages is made for each section and the stack,    *)
(* every page of every range gets a frame, the bytes are copied, and text  *)
(* and constants are marked read only.  Ranges of sections that share a    *)
(* page overlap.                                                           *)
(*                                                                         *)
(* A file is a record: what of its header is tested, where the program   *)
(* is entered, and its sections.  A byte of it is known by its offset.     *)
(* The address space vm is a record too: ranges, newest first, the frame   *)
(* and the RW bit of every page, the frames whose count is 1, what they    *)
(* hold, and ret, how it went so far.                                      *)
(***************************************************************************)
EXTENDS Integers, SequencesExt, FiniteSetsExt

CONSTANTS
  PageSize, UserStart,   \* USER_MEM_START, a page boundary
  StackStart, StackLen,  \* the stack's range
  NrFrames               \* frames are 1..NrFrames

Frames == 1..NrFrames

Old == "old"   \* what a byte of a frame held before

Page(a) == a \div PageSize

Pages == 0..Page(StackStart + StackLen) - 1

Nowhere == [off |-> 0, len |-> 0, start |-> 0]

----------------------------------------------------------------------------
(* The headers. *)

NoFile == [execname |-> "none", header |-> "none"]

\* getbytes: the first file of that name on the ramdisk.
FileNamed(name, toc) ==
  LET named == {i \in DOMAIN toc : toc[i].execname = name}
  IN  IF named = {} THEN NoFile ELSE toc[Min(named)]

\* elf_check_header, which the bytes of a missing file fail too.
ElfCheckHeader(file) == file.header = [ident |-> "ELF", type |-> "exec", machine |-> "386", version |-> "current"]

\* elf_load_helper: of two sections of one name the later counts, and one
\* that is missing has length 0 and starts at 0.
SimpleElf(file) ==
  LET place(s) == [off |-> s.off, len |-> s.len, start |-> s.start]
      note(se, s) == CASE s.name = ".text"   -> [se EXCEPT !.txt = place(s)]
                       [] s.name = ".rodata" -> [se EXCEPT !.rodat = place(s)]
                       [] s.name = ".data"   -> [se EXCEPT !.dat = place(s)]
                       [] s.name = ".bss"    -> [se EXCEPT !.bsslen = s.len]
                       [] OTHER -> se
  IN  FoldLeft(note, [entry |-> file.entry, txt |-> Nowhere, rodat |-> Nowhere, dat |-> Nowhere, bsslen |-> 0],
               file.sections)

----------------------------------------------------------------------------
(* Ranges and frames. *)

RoundDown(a) == Page(a) * PageSize

\* vmm_install_range makes the range whole pages, for its caller as well.
Rounded(r) ==
  [start |-> RoundDown(r.start), len |-> RoundDown(r.start + r.len + PageSize - 1) - RoundDown(r.start)]

PagesOf(r) == Page(r.start)..Page(r.start + r.len - 1)

\* The page table entries for q have their tables and are writable.
InstallRange(vm, r) ==
  LET q == Rounded(r)
  IN  IF vm.ret # "success" THEN vm
      ELSE IF q.start < UserStart THEN [vm EXCEPT !.ret = "cannot map"]
      ELSE IF q.len = 0 THEN [vm EXCEPT !.ret = "panic"]
      ELSE [vm EXCEPT !.ranges = <<q>> \o @,
                      !.rw = [p \in Pages |-> @[p] \/ p \in PagesOf(q)]]

\* vmm_back_all_user_ranges: a page of two ranges gets a frame twice, and
\* keeps the second.
BackPage(vm, p) ==
  LET free == Frames \ vm.used
  IN  IF vm.ret # "success" THEN vm
      ELSE IF free = {} THEN [vm EXCEPT !.ret = "no memory"]
      ELSE [vm EXCEPT !.frame[p] = Min(free), !.used = @ \cup {Min(free)}]

BackAll(vm) ==
  FoldLeft(BackPage, vm, FlattenSeq([i \in DOMAIN vm.ranges |->
             LET r == vm.ranges[i] IN [k \in 1..Cardinality(PagesOf(r)) |-> Page(r.start) + k - 1]]))

Mapped(vm) == {vm.frame[p] : p \in Pages} \ {0}

\* vmm_unback_all_user_ranges and vmm_free_all_vma.
Unloaded(vm) ==
  [vm EXCEPT !.used = @ \ Mapped(vm), !.frame = [p \in Pages |-> 0], !.ranges = <<>>]

\* loader_install_ranges
InstallRanges(vm, se) ==
  LET data == [start |-> se.dat.start, len |-> se.dat.len + se.bsslen]
      stack == [start |-> StackStart, len |-> StackLen]
      backed == BackAll(FoldLeft(InstallRange, vm, <<se.txt, se.rodat, data, stack>>))
  IN  IF backed.ret \in {"success", "panic"} THEN backed ELSE Unloaded(backed)

----------------------------------------------------------------------------
(* Bytes. *)

At(vm, a) == vm.mem[vm.frame[Page(a)]][a % PageSize]

Store(vm, a, v) == [vm EXCEPT !.mem[vm.frame[Page(a)]][a % PageSize] = v]

\* getbytes copies a section to where it starts.
CopySection(vm, s) ==
  FoldLeft(LAMBDA m, i : Store(m, s.start + i - 1, s.off + i - 1), vm, [i \in 1..s.len |-> i])

\* Mutant: the clearing begins with the data.
ClearBssFromData(vm, se) ==
  FoldLeft(LAMBDA m, i : Store(m, se.dat.start + i - 1, 0), vm, [i \in 1..se.bsslen |-> i])

ClearBss(vm, se) ==
  FoldLeft(LAMBDA m, i : Store(m, se.dat.start + se.dat.len + i - 1, 0), vm, [i \in 1..se.bsslen |-> i])

\* vmm_set_range_attr from the first byte on, a page size at a time.
MarkReadOnly(vm, s) ==
  LET marked == {Page(s.start + k * PageSize) : k \in {j \in 0..s.len : j * PageSize < s.len}}
  IN  [vm EXCEPT !.rw = [p \in Pages |-> @[p] /\ p \notin marked]]

NoSpace ==
  [ranges |-> <<>>, frame |-> [p \in Pages |-> 0], rw |-> [p \in Pages |-> FALSE], used |-> {},
   mem |-> [f \in Frames |-> [o \in 0..PageSize - 1 |-> Old]], ret |-> "success"]

\* load_elf, when the old image gives back none of the frames in between.
LoadElf(name, toc) ==
  LET file == FileNamed(name, toc)
      se == SimpleElf(file)
      vm == InstallRanges(NoSpace, se)
      full == CopySection(ClearBss(CopySection(CopySection(vm, se.txt), se.dat), se), se.rodat)
  IN  IF ~ ElfCheckHeader(file) THEN [NoSpace EXCEPT !.ret = "not an elf"]
      ELSE IF vm.ret # "success" THEN vm
      ELSE MarkReadOnly(MarkReadOnly(full, se.txt), se.rodat)

\* vmm_is_address_ro, with the whole pages that vm_text_start and the others
\* were set to.
IsAddressRo(se, a) == \E s \in {se.txt, se.rodat} : a \in Rounded(s).start..Rounded(s).start + Rounded(s).len - 1

----------------------------------------------------------------------------
Bytes(s) == s.start..s.start + s.len - 1

Backings(rs) == FoldLeft(LAMBDA n, r : n + Cardinality(PagesOf(r)), 0, rs)

\* Frames that no page leads to, although their count is 1.
Lost(vm) == vm.used \ Mapped(vm)

\* A program's bytes are where its headers say, its .bss is zero, its stack
\* apart from them, and each page has a frame of its own; a page that two
\* sections share costs one more frame, which is lost.
ImageComplete(se, vm) ==
  LET bss == se.dat.start + se.dat.len..se.dat.start + se.dat.len + se.bsslen - 1
      covered == UNION {PagesOf(r) : r \in ToSet(vm.ranges)}
  IN  /\ \A s \in {se.txt, se.rodat, se.dat} : \A a \in Bytes(s) : At(vm, a) = s.off + a - s.start
      /\ \A a \in bss : At(vm, a) = 0
      /\ {p \in Pages : vm.frame[p] # 0} = covered
      /\ Cardinality(Mapped(vm)) = Cardinality(covered)
      /\ Cardinality(Lost(vm)) = Backings(vm.ranges) - Cardinality(covered)

\* No fault lets the program write to its text and constants, and its data
\* can be written if no page of it holds some of them.  A page of text that
\* the entry leaves writable is the last one, behind a start inside a page.
ImageProtected(se, vm) ==
  LET data == [start |-> se.dat.start, len |-> se.dat.len + se.bsslen]
      fixed == PagesOf(se.txt) \cup PagesOf(se.rodat)
  IN  /\ \A a \in Bytes(se.txt) \cup Bytes(se.rodat) : IsAddressRo(se, a)
      /\ PagesOf(data) \cap fixed = {} => \A a \in Bytes(data) : ~ IsAddressRo(se, a) /\ vm.rw[Page(a)]
      /\ \A s \in {se.txt, se.rodat} : \A p \in PagesOf(s) :
           vm.rw[p] => p = Page(s.start + s.len - 1) /\ s.start # RoundDown(s.start)

\* What exec promises of each file of the ramdisk (loader.c, load_helper.c):
\* it is loaded completely, or not at all and then no frame stays used but
\* those that overlapping ranges lose.
LoadsRight(toc) ==
  \A name \in {toc[i].execname : i \in DOMAIN toc} :
    LET vm == LoadElf(name, toc)
        se == SimpleElf(FileNamed(name, toc))
    IN  CASE vm.ret = "success" -> ImageComplete(se, vm) /\ ImageProtected(se, vm)
          [] vm.ret = "no memory" -> /\ vm.ranges = <<>> /\ Mapped(vm) = {}
                                     /\ Cardinality(vm.used) <= 2
          [] OTHER -> vm.used = {}
=============================================================================
