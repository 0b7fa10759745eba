-------------------------------- MODULE Shell --------------------------------
(***************************************************************************)
(* From the files of the build to the programs a user can list and start:  *)
(* exec2obj, which makes the ramdisk, the ls system call, and the shell.   *)
(* Names and lines are sequences of characters; characters are numbers, so *)
(* that strcmp has an order, and 0 is NUL.                                 *)
(***************************************************************************)
EXTENDS Library

CONSTANTS
  NameLen,   \* MAX_EXECNAME_LEN
  MaxApps,   \* MAX_NUM_APP_ENTRIES
  LsSize,    \* the size of the shell's first buffer for ls
  LineLen    \* MAX_LENGTH

----------------------------------------------------------------------------
(* exec2obj: host is the files there are, by name and whether stripped.    *)

\* The file that is read for an argument.
Opened(host, name) ==
  IF <<name, "strip">> \in DOMAIN host THEN host[<<name, "strip">>] ELSE host[<<name, "whole">>]

\* emit_file_header and emit_file_bytes
EmitFile(name, bytes) == [symbol |-> name, size |-> Len(bytes), bytes |-> bytes]

\* emit_dir_header
EmitDirHeader(nrfiles) == [count |-> nrfiles, size |-> MaxApps]

\* emit_dir_entry: the name in its field, with zeros up to the end of it.
EmitDirEntry(name, size) ==
  [execname |-> [i \in 1..NameLen |-> IF i <= Len(name) THEN name[i] ELSE 0], code |-> name, execlen |-> size]

\* emit_dir_footer
EmitDirFooter(nrfiles) == MaxApps - nrfiles

\* main comes to its end, and the assembler, which refuses a negative .zero,
\* takes what it has written.
Builds(host, args) ==
  /\ args # <<>>
  /\ \A i \in DOMAIN args :
       {<<args[i], "strip">>, <<args[i], "whole">>} \cap DOMAIN host # {} /\ Len(args[i]) < NameLen
  /\ EmitDirFooter(Len(args)) >= 0

\* execsizes[] is written from index 1 on.
SizesFit(args) == Len(args) <= MaxApps - 1

Exec2obj(host, args) ==
  LET bytes == [i \in DOMAIN args |-> Opened(host, args[i])]
      n == Len(args)
  IN  [files |-> [i \in 1..n |-> EmitFile(args[i], bytes[i])],
       dir |-> EmitDirHeader(n),
       toc |-> [i \in 1..n |-> EmitDirEntry(args[i], Len(bytes[i]))],
       unused |-> EmitDirFooter(n)]

----------------------------------------------------------------------------
(* The ls system call. *)

ExecName(e) == SubSeq(e.execname, 1, StrCspn(e.execname, {0}))

NamesLen(disk) == FoldLeft(LAMBDA n, e : n + Len(ExecName(e)) + 1, 0, disk.toc)

\* syscall_ls: the buffer it leaves, and how many names it holds.
SyscallLs(disk, len) ==
  IF NamesLen(disk) > len THEN [ret |-> -1, buf |-> <<>>]
  ELSE LET names == FlattenSeq([i \in DOMAIN disk.toc |-> Append(ExecName(disk.toc[i]), 0)])
       IN  [ret |-> disk.dir.count, buf |-> names \o [i \in 1..len - Len(names) |-> 0]]

----------------------------------------------------------------------------
(* The shell's listing. *)

Below(s, t) == StrCmp(s, t) <= 0

\* partition
Partition(buf, start, end) ==
  LET st == FoldLeft(LAMBDA p, j : IF Below(p.buf[j], p.buf[end])
                                   THEN [buf |-> Swap(p.buf, p.i + 1, j), i |-> p.i + 1] ELSE p,
                     [buf |-> buf, i |-> start - 1], [k \in 1..end - start |-> start + k - 1])
  IN  [buf |-> Swap(st.buf, st.i + 1, end), at |-> st.i + 1]

\* Mutant: what stands right before the pivot is not sorted.
QuicksortWhole(names) ==
  LET sort[b \in Seq(Seq(Nat)), start \in Int, end \in Int] ==
        IF start >= end THEN b
        ELSE LET p == Partition(b, start, end) IN sort[sort[p.buf, start, p.at - 2], p.at + 1, end]
  IN  sort[names, 1, Len(names)]

Quicksort(names) ==
  LET sort[b \in Seq(Seq(Nat)), start \in Int, end \in Int] ==
        IF start >= end THEN b
        ELSE LET p == Partition(b, start, end) IN sort[sort[p.buf, start, p.at - 1], p.at + 1, end]
  IN  sort[names, 1, Len(names)]

\* How much room ls is given in the end: twice as much until it is enough.
LsRoom(disk) ==
  LET sizes == {LsSize * 2 ^ k : k \in 0..4}
  IN  Min({size \in sizes : SyscallLs(disk, size).ret >= 0})

Beyond == <<0>>   \* what is behind the buffer

\* The names up to an empty one; the walk does not look for the buffer's end.
NamesIn(buf) ==
  LET walk[at \in 1..Len(buf) + 1] ==
        LET len == StrCspn(Skip(buf, at - 1), {0})
        IN  IF at > Len(buf) THEN <<Beyond>>
            ELSE IF len = 0 THEN <<>> ELSE <<SubSeq(buf, at, at + len - 1)>> \o walk[at + len + 1]
  IN  walk[1]

\* console_height: the first row the cursor cannot be set to.
ConsoleHeight(accepted) == Min((0..25) \ accepted)

Key == <<0, 0>>   \* "Hit a key to continue"

InPages(names, height) ==
  FlattenSeq([i \in DOMAIN names |->
    IF i # 1 /\ (i - 1) % (height - 2) = 0 THEN <<Key, names[i]>> ELSE <<names[i]>>])

\* print_ls: what appears line by line.
PrintLs(disk, height) ==
  InPages(Quicksort(NamesIn(SyscallLs(disk, LsRoom(disk)).buf)), height)

----------------------------------------------------------------------------
(* The shell's command line. *)

Separators == {32, 9, 10}
ExitWord == <<101, 120, 105, 116>>
LsWord == <<108, 115>>

Again == [does |-> "again"]
Ends(status) == [does |-> "exit", status |-> status]

\* mystical_readline outside of the simulator that can fill buf itself; n is
\* what readline returns.
MysticalReadline(len, n) == IF len <= 0 THEN 0 ELSE n

\* main, once around its loop: buf is its buffer after readline, n what that
\* returned, pid what fork will.
MainLoop(buf, n, pid) ==
  LET line == [i \in DOMAIN buf |-> IF i = n + 1 THEN 0 ELSE buf[i]]
      argv == Words(SubSeq(line, 1, StrCspn(line, {0})), Separators)
  IN  IF n = 0 THEN Again
      ELSE IF n >= LineLen \/ buf[LineLen] # 0 THEN Ends(-1)
      ELSE IF argv = <<>> THEN Again
      ELSE IF argv[1] = ExitWord THEN Ends(0)
      ELSE IF argv[1] = LsWord THEN [does |-> "print_ls"]
      ELSE IF pid < 0 THEN Again
      ELSE IF pid = 0 THEN [does |-> "exec", name |-> argv[1], argv |-> argv, orElse |-> Ends(-1)]
      ELSE [does |-> "wait"]

----------------------------------------------------------------------------

\* The bytes that the kernel finds under a name.
BytesOf(disk, name) ==
  LET at == Min({i \in DOMAIN disk.toc : ExecName(disk.toc[i]) = name})
      file == CHOOSE f \in ToSet(disk.files) : f.symbol = disk.toc[at].code
  IN  SubSeq(file.bytes, 1, disk.toc[at].execlen)

\* All programs are in the disk, and shown line by line.
Listed(host, args, disk) ==
  /\ \A i \in DOMAIN args : BytesOf(disk, args[i]) = Opened(host, args[i])
  /\ disk.dir.count + disk.unused = MaxApps /\ Len(disk.toc) = disk.dir.count

ShownOf(args, full, shown, names, height) ==
  /\ full => Beyond \in ToSet(names)
  /\ ~ full =>
       /\ ToSet(names) = ToSet(args) /\ Len(names) = Len(args)
       /\ \A i \in 1..Len(names) - 1 : Below(names[i], names[i + 1])
       /\ \A i \in DOMAIN shown : i + height - 2 <= Len(shown) => Key \in ToSet(SubSeq(shown, i, i + height - 2))

\* The build makes a ramdisk of all programs it is given or of none.  Each of
\* them can be found, with the bytes of its stripped file if there is one;
\* and unless the names fill the buffer of ls to its last byte, the shell shows
\* every program once, in order, and never more than fit on the screen
\* (exec2obj.c, syscall_ls.c:35, shell.c:113).
ProgramsListed(Hosts, Arguments, height) ==
  \A host \in Hosts, args \in Arguments : Builds(host, args) /\ SizesFit(args) =>
    \A disk \in {Exec2obj(host, args)} : \A shown \in {PrintLs(disk, height)} :
      /\ Listed(host, args, disk)
      /\ ShownOf(args, NamesLen(disk) = LsRoom(disk), shown, SelectSeq(shown, LAMBDA s : s # Key), height)

\* A line that readline has read starts the program that is its first word
\* with all its words, unless that is a command of the shell's own; an empty
\* line and one that readline failed to read start nothing.
LinesRun(Lines) ==
  \A line \in Lines :
    LET n == MysticalReadline(LineLen - 1, Min({Len(line), LineLen - 1}))
        buf == [i \in 1..LineLen |-> IF i <= n THEN line[i] ELSE 0]
        read == SubSeq(line, 1, n)
        words == Words(read, Separators)
    IN  /\ \A child \in {MainLoop(buf, n, 0)} : \A pid \in {-1, 0, 7} : \A r \in {MainLoop(buf, n, pid)} :
             /\ r.does = "exec" => pid = 0 /\ r.argv = words /\ words # <<>>
             /\ r.does = "print_ls" <=> words # <<>> /\ words[1] = LsWord
             /\ r.does = "exit" <=> words # <<>> /\ words[1] = ExitWord
             /\ pid # 0 => r.does # "exec"
             /\ r.does = "wait" <=> pid > 0 /\ child.does = "exec"
        /\ \A pid \in {-1, 0, 7} : MainLoop([i \in 1..LineLen |-> 0], -1, pid) = Again

ShellSound(Hosts, Arguments, Lines) ==
  /\ ProgramsListed(Hosts, Arguments, ConsoleHeight(0..3))
  /\ LinesRun(Lines)
=============================================================================
