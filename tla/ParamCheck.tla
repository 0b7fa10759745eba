----------------------------- MODULE ParamCheck -----------------------------
(***************************************************************************)
(* What syscall_enter lets through: the checks of arguments that stand     *)
(* before the system calls.  Memory is bytes 0..Top; a task's ranges are a *)
(* set of records as in Vmm, in bytes, and p is the packet of arguments, a *)
(* sequence.  Numbers of calls are names.  The packet itself is read       *)
(* without a check, and so is the thread that a tid points to: here a      *)
(* packet can be read, and a tid that is no thread's finds no list to be   *)
(* on.                                                                     *)
(***************************************************************************)
EXTENDS Integers, Sequences, FiniteSets

CONSTANTS
  Top,          \* bound: the last byte of memory
  PageSize,
  IntSize,      \* sizeof(int)
  UserStart,    \* USER_MEM_START
  NamesLen      \* the bytes of the names of all files

ASSUME ParamAssumption ==
  /\ Top \in Nat /\ PageSize \in Nat \ {0} /\ IntSize \in 1..PageSize
  /\ UserStart \in 0..Top /\ NamesLen \in Nat

Bytes == 0..Top

End(r) == r.start + r.len

GetRange(rs, a) == {r \in rs : a >= r.start /\ a < End(r)}

\* Mutant: a byte too many fits.
IsRangePresentWide(rs, base, len) ==
  LET present[a \in 0..Top + 1] ==
        \E r \in GetRange(rs, a) : len <= End(r) - a + 1 \/ present[End(r)]
  IN present[base]

\* vmm_is_range_present: where a range ends the walk goes on behind it, for
\* the whole length again.
IsRangePresent(rs, base, len) ==
  LET present[a \in 0..Top + 1] ==
        \E r \in GetRange(rs, a) : len <= End(r) - a \/ present[End(r)]
  IN present[base]

\* The thread is on the list of the task it names itself.
TidChecker(threads, tid) == tid \in threads

SetTermColorCheck(color) == color \in 0..127

BufferCheck(rs, p) == IsRangePresent(rs, p[2], p[1])

GetCursorPosCheck(rs, p) == \A i \in {1, 2} : IsRangePresent(rs, p[i], IntSize)

Cas2iCheck(rs, threads, p) == IsRangePresent(rs, p[2], IntSize) /\ TidChecker(threads, p[1])

NewPagesCheck(p) == p[1] >= UserStart /\ p[1] % PageSize = 0 /\ p[2] % PageSize = 0

RemovePagesCheck(rs, p) == IsRangePresent(rs, p[1], PageSize)

WaitCheck(rs, p) == IsRangePresent(rs, p[1], IntSize)

YieldCheck(threads, p) == p[1] = -1 \/ TidChecker(threads, p[1])

\* Calls whose check looks at nothing, and numbers nobody implements.
Unchecked == {"fork", "exec", "gettid", "sleep", "getchar", "set_cursor_pos", "thread_fork",
              "get_ticks", "halt", "task_vanish", "set_status", "vanish"}

Unimplemented == {"syscall", "misbehave"}

\* The handler of call nr runs.
SyscallEnter(rs, threads, nr, p) ==
  \/ nr \in Unchecked
  \/ nr = "set_term_color" /\ SetTermColorCheck(p[1])
  \/ nr \in {"readline", "print", "ls"} /\ BufferCheck(rs, p)
  \/ nr = "get_cursor_pos" /\ GetCursorPosCheck(rs, p)
  \/ nr = "cas2i_runflag" /\ Cas2iCheck(rs, threads, p)
  \/ nr = "new_pages" /\ NewPagesCheck(p)
  \/ nr = "remove_pages" /\ RemovePagesCheck(rs, p)
  \/ nr = "wait" /\ WaitCheck(rs, p)
  \/ nr = "yield" /\ YieldCheck(threads, p)

\* syscall_newpages goes on: no page of what is asked for is there yet.
NewPagesFree(rs, p) ==
  \A i \in {j \in 0..p[2] - 1 : j % PageSize = 0} : ~ IsRangePresent(rs, p[1] + i, PageSize)

\* n bytes from base on; addresses wrap.
Stretch(base, n) == {(base + i) % (Top + 1) : i \in 0..n - 1}

\* A length as memset takes it, a size_t: below zero it is nearly all of memory.
AsSize(len) == IF len < 0 THEN len + Top + 1 ELSE len

\* syscall_readline clears the buffer first; the line never reaches further.
ReadlineTouches(p) == Stretch(p[2], AsSize(p[1]))

\* putbytes compares with the length as an int.
PrintTouches(p) == Stretch(p[2], p[1])

\* syscall_ls leaves early where the names do not fit.
LsTouches(p) == IF NamesLen > p[1] THEN {} ELSE Stretch(p[2], p[1])

\* What exec_copy_argv reads whatever is there: the first byte of the name and
\* the first word of the array (ExecArgs has the walk from there on).
ExecTouches(p) == Stretch(p[1], 1) \cup Stretch(p[2], IntSize)

\* The bytes of the user's memory a handler goes to, by their addresses.
Touched(nr, p) ==
  CASE nr = "readline" -> ReadlineTouches(p)
    [] nr = "print" -> PrintTouches(p)
    [] nr = "ls" -> LsTouches(p)
    [] nr = "exec" -> ExecTouches(p)
    [] nr = "get_cursor_pos" -> Stretch(p[1], IntSize) \cup Stretch(p[2], IntSize)
    [] nr = "cas2i_runflag" -> Stretch(p[2], IntSize)
    [] nr = "wait" -> Stretch(p[1], IntSize)
    [] OTHER -> {}

----------------------------------------------------------------------------
(* The inputs of the comparison: aligned ranges that do not overlap. *)

Aligned == {r \in [start : Bytes, len : 1..Top + 1] :
              r.start % PageSize = 0 /\ r.len % PageSize = 0 /\ End(r) <= Top + 1}

Maps == {rs \in SUBSET Aligned :
           \A r, s \in rs : r = s \/ End(r) <= s.start \/ End(s) <= r.start}

Held(rs) == UNION {r.start..End(r) - 1 : r \in rs}

Touching == {"readline", "print", "ls", "exec", "get_cursor_pos", "cas2i_runflag", "wait"}

\* Below zero as far as an int goes, which is half of memory.
Lengths == -((Top + 1) \div 2)..Top + 1

Packets(nr) == IF nr \in {"readline", "print", "ls"} THEN Lengths \X Bytes ELSE Bytes \X Bytes

\* The two calls that go past the checks: a readline of a length below zero,
\* which only has to begin in a range (vmm.c:905, syscall_console.c:57), and
\* exec, whose check looks at nothing (syscall_paramcheck.c:336-342).
PastChecks(rs, nr, p) ==
  \/ nr = "readline" /\ p[1] < 0 /\ p[2] \in Held(rs)
  \/ nr = "exec"

\* A handler runs with a byte to go to that is in no range of the task exactly
\* where it is one of the two calls that go past the checks and some of its
\* bytes are in no range; of every other call that runs each byte is held
\* (syscall_paramcheck.c:136-137).  A buffer inside one range is never
\* refused, wherever the other ranges lie.  The pages of new_pages, of a
\* length above zero, that pass its own loop overlap no range, so ranges never
\* do (syscall_pages.c:74-78).  Buffers across two ranges that meet are held
\* and may be refused: the walk asks the last range for the whole length.
ChecksAgree ==
  \A rs \in Maps :
    /\ \A nr \in Touching : \A p \in Packets(nr) :
         LET outside == ~ (Touched(nr, p) \subseteq Held(rs))
         IN SyscallEnter(rs, Bytes, nr, p) /\ outside <=> PastChecks(rs, nr, p) /\ outside
    /\ \A len \in Lengths, base \in Bytes :
         (\E r \in rs : base \in r.start..End(r) - 1 /\ base + len <= End(r))
           => SyscallEnter(rs, Bytes, "print", <<len, base>>)
    /\ \A p \in {q \in Bytes \X (1..Top + 1) : q[1] + q[2] <= Top + 1} :
         SyscallEnter(rs, Bytes, "new_pages", p) /\ NewPagesFree(rs, p)
           => Held(rs) \cap p[1]..p[1] + p[2] - 1 = {}
=============================================================================
