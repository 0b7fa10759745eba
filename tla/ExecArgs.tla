------------------------------ MODULE ExecArgs ------------------------------
(***************************************************************************)
(* The arguments of exec on their way from the old image to the stack of   *)
(* the new one: exec_copy_argv and exec_copy_argv_to_stack.  A string is a *)
(* sequence of characters without its NUL.  Memory is a function from      *)
(* addresses to characters; a word is a record at its first address.       *)
(***************************************************************************)
EXTENDS Integers, Sequences, FiniteSets

LOCAL INSTANCE SequencesExt

CONSTANT WordSize   \* sizeof(STACK_ELT)

ASSUME ExecArgsAssumption == WordSize \in Nat \ {0}

Nul == "nul"

Word(v) == [word |-> v]

\* The list ends before its first empty string, or at its NULL.
Argc(args) ==
  CHOOSE n \in 0..Len(args) :
    /\ \A i \in 1..n : args[i] # <<>>
    /\ n < Len(args) => args[n + 1] = <<>>

\* The first n strings, one after the other.
Packed(args, n) == FlattenSeq([i \in 1..n |-> Append(args[i], Nul)])

\* Mutant: the NULs are not counted.
DataLenBare(args, file) == Len(FlattenSeq(SubSeq(args, 1, Argc(args)))) + 1 + Len(file) + 1

\* data_len, which leaves room for the name of the file too.
DataLen(args, file) == Len(Packed(args, Argc(args))) + 1 + Len(file) + 1

\* The kernel's copy: characters at 0 and up, and where each string starts.
\* The file name stands last.
Copied(args, file) ==
  LET all == Packed(args, Argc(args)) \o Append(file, Nul)
  IN  [data |-> [a \in 0..Len(all) - 1 |-> all[a + 1]],
       argv |-> [i \in 1..Argc(args) |-> Len(Packed(args, i - 1))],
       filename |-> Len(Packed(args, Argc(args)))]

\* The string at address a of the memory m.
StringAt(m, a) ==
  LET len == CHOOSE n \in 0..Cardinality(DOMAIN m) :
               m[a + n] = Nul /\ \A i \in 0..n - 1 : m[a + i] # Nul
  IN  [i \in 1..len |-> m[a + i - 1]]

\* Where the strings go, under the top of the stack.
DataStart(top, args, file) ==
  LET at == top - WordSize - DataLen(args, file)
  IN  at - (at % WordSize)

\* The return address, argc and argv stand below the array of argv, and that
\* below the strings.
NewStack(top, args, file) == DataStart(top, args, file) - WordSize * (Argc(args) + 3)

\* The new stack from NewStack up; the strings are copied out of the kernel.
OnStack(top, args, file) ==
  LET n == Argc(args)
      from == Copied(args, file)
      strings == [i \in 1..n |-> StringAt(from.data, from.argv[i])]
      start == DataStart(top, args, file)
      sp == NewStack(top, args, file)
      array == start - WordSize * n
      at == [i \in 1..n |-> start + Len(Packed(strings, i - 1))]
      text == Packed(strings, n)
  IN  [a \in (sp..top - 1) \cup (start..start + Len(text) - 1) |->
         CASE a = sp -> Word("return")
           [] a = sp + WordSize -> Word(n)
           [] a = sp + 2 * WordSize -> Word(array)
           [] a \in array..start - 1 -> IF (a - array) % WordSize = 0
                                        THEN Word(at[(a - array) \div WordSize + 1]) ELSE Nul
           [] a \in start..start + Len(text) - 1 -> text[a - start + 1]
           [] OTHER -> Nul]

\* The whole call: k has the fork_lock's holders, the copies that live, what
\* the thread comes back to and its new stack; image is what load_elf answers.
Copies(k) == [k EXCEPT !.locked = @ + 1, !.copies = @ + 1]

\* Mutant: the copy of the arguments is never freed.
LeavesCopy(k, ret) == [k EXCEPT !.locked = @ - 1, !.ret = ret]

Leaves(k, ret) == [k EXCEPT !.locked = @ - 1, !.copies = @ - 1, !.ret = ret]

Enters(k, args, file, image) ==
  [k EXCEPT !.stack = OnStack(image.stack, args, file),
            !.frame = [eip |-> image.start, esp |-> NewStack(image.stack, args, file), eflags |-> 0]]

SyscallExec(k, args, file, image) ==
  IF image.ret # 0 THEN Leaves(Copies(k), image.ret)
  ELSE Leaves(Enters(Copies(k), args, file, image), 0)

----------------------------------------------------------------------------

\* What main() gets, read off the stack as the new program reads it.
Received(m, sp) ==
  LET argc == m[sp + WordSize].word
      argv == m[sp + 2 * WordSize].word
  IN  [i \in 1..argc |-> StringAt(m, m[argv + (i - 1) * WordSize].word)]

Strings == {<<>>, <<"x">>, <<"x", "y">>, <<"x", "x", "y">>}

Lists == UNION {[1..n -> Strings] : n \in 0..3}

StackTop == 64

\* A program gets the arguments that exec was called with, up to the first
\* empty one, whatever their lengths: nothing is written at the top of the
\* stack or above, the words are aligned, and no string runs into another or
\* into the words (syscall_exec.c:51-183).
Arrives ==
  \A args \in Lists, file \in Strings :
    LET m == OnStack(StackTop, args, file)
        sp == NewStack(StackTop, args, file)
    IN  /\ sp % WordSize = 0
        /\ DOMAIN m \subseteq sp..StackTop - 1
        /\ Received(m, sp) = SubSeq(args, 1, Argc(args))
        /\ LET c == Copied(args, file)
           IN  /\ StringAt(c.data, c.filename) = file
               /\ DOMAIN c.data \subseteq 0..DataLen(args, file) - 1

\* The program that exec starts reads its arguments from where it is started,
\* and one that cannot be loaded leaves the thread where it was; either way the
\* lock is given back and no copy of the arguments is left
\* (syscall_exec.c:192-240).
ExecStarts ==
  \A args \in Lists, file \in Strings, ret \in {0, -1} :
    LET k == [locked |-> 0, copies |-> 0, frame |-> "old", stack |-> "old", ret |-> 7]
        e == SyscallExec(k, args, file, [ret |-> ret, start |-> 1, stack |-> StackTop])
    IN  /\ <<e.locked, e.copies, e.ret>> = <<0, 0, ret>>
        /\ IF ret # 0 THEN e.frame = k.frame /\ e.stack = k.stack
           ELSE e.frame.eip = 1 /\ Received(e.stack, e.frame.esp) = SubSeq(args, 1, Argc(args))
=============================================================================
