-------------------------------- MODULE Frames --------------------------------
(***************************************************************************)
(* What is on a thread's kernel stack, word by word: the frames of system  *)
(* calls, interrupts and faults (syscallWrapper.S, i386isrwrapper.S), of a *)
(* switch of threads (sched.c), those made up for a new thread (task.c,    *)
(* syscall_fork.c), and what the page fault handler does to its own.       *)
(*                                                                         *)
(* A processor c is its registers, eip among them, and the stack it is on, *)
(* a sequence from the top (the lowest address) to kstack.  An address in  *)
(* the kernel is a label.  gs and fs are left out: nobody saves them.      *)
(***************************************************************************)
EXTENDS Integers, Sequences, SequencesExt

\* SAVE_REGS pushes in this order, RESTORE_REGS pops in that of the fields of
\* i386_context.
Saved == <<"ebx", "ecx", "edx", "esi", "edi", "es", "ds", "ebp", "eax">>
Context == <<"eax", "ebp", "ds", "es", "edi", "esi", "edx", "ecx", "ebx">>

IretFrame == <<"eip", "cs", "eflags", "esp", "ss">>

Regs == Range(Context) \cup Range(IretFrame)

Push(c, v) == [c EXCEPT !.stack = <<v>> \o @]

Pop(c, r) == [c EXCEPT !.reg[r] = Head(c.stack), !.stack = Tail(@)]

Drop(c, n) == [c EXCEPT !.stack = SubSeq(@, n + 1, Len(@))]

SaveRegs(c) == FoldLeft(LAMBDA d, r : Push(d, d.reg[r]), c, Saved)

RestoreRegs(c) == FoldLeft(Pop, c, Context)

----------------------------------------------------------------------------
(* The processor. *)

InUser(c) == c.reg.cs = "user_cs"

\* From user mode the kernel stack is used from kstack on (set_esp0).
Trap(c) ==
  LET frame == IF InUser(c) THEN IretFrame ELSE SubSeq(IretFrame, 1, 3)
  IN  [reg |-> [c.reg EXCEPT !.eip = "wrapper", !.cs = "kernel_cs", !.esp = "kernel", !.ss = "kernel_ds"],
       stack |-> [i \in DOMAIN frame |-> c.reg[frame[i]]] \o IF InUser(c) THEN <<>> ELSE c.stack]

Iret(c) ==
  LET d == FoldLeft(Pop, c, SubSeq(IretFrame, 1, 3))
  IN  IF InUser(d) THEN FoldLeft(Pop, d, <<"esp", "ss">>) ELSE d

Call(c, next) == [Push(c, next) EXCEPT !.reg.eip = "handler"]

\* A function in C is free to use these three registers.
Returns(c, result) ==
  Pop([c EXCEPT !.reg.eax = result, !.reg.ecx = "used", !.reg.edx = "used"], "eip")

----------------------------------------------------------------------------
(* Into the kernel and back. *)

\* sc_wrapper_template up to the handler.
SyscallEntry(c) ==
  LET d == SaveRegs(Trap(c))
      k == [d EXCEPT !.reg.eax = "kernel_ds", !.reg.es = "kernel_ds", !.reg.ds = "kernel_ds"]
  IN  Call(Push(Push(k, k.reg.esi), "index"), "sc_next")

ScRetFromSyscall(c) ==
  LET d == RestoreRegs(c) IN Iret([d EXCEPT !.reg.ds = "user_ds", !.reg.es = "user_ds"])

\* What the handler returns takes the place of the saved eax.
ScNext(c) ==
  LET d == Drop(c, 2) IN ScRetFromSyscall([d EXCEPT !.stack[1] = d.reg.eax])

\* isr_wrapper_template; a fault may have pushed an error code before it.
IsrWrapper(c) ==
  LET d == SaveRegs(c) IN Call(Push(Push(d, d.reg.esi), "index"), "iw_next")

IwNext(c) == Iret(RestoreRegs(Drop(c, 2)))

IsrEntry(c) == IsrWrapper(Trap(c))

\* The handler's last call has returned: all the way back to where the
\* processor was interrupted.
Leave(c, result) ==
  LET d == Returns(c, result)
  IN  CASE d.reg.eip = "sc_next" -> ScNext(d)
        [] d.reg.eip = "iw_next" -> IwNext(d)

----------------------------------------------------------------------------
(* From thread to thread. *)

\* What schedule's compiled code has on the stack around context_switch.
CalleeSaved == <<"ebx", "esi", "edi", "ebp">>
Locals == 3

\* A thread calls schedule, and context_switch stores its stack in r_esp.
SwitchOut(c) ==
  LET d == FoldLeft(LAMBDA e, r : Push(e, e.reg[r]), Push(c, c.reg.eip), CalleeSaved)
  IN  SaveRegs(FoldLeft(LAMBDA e, i : Push(e, "local"), d, [i \in 1..Locals |-> i])).stack

\* It is chosen again, on the processor c of another thread.
SwitchIn(c, r_esp) ==
  LET d == RestoreRegs([c EXCEPT !.stack = r_esp])
      e == FoldLeft(Pop, Drop(d, Locals), Reverse(CalleeSaved))
      back == Pop(e, "eip")
  IN  IF back.reg.eip = "sc_ret_from_syscall" THEN ScRetFromSyscall(back) ELSE back

----------------------------------------------------------------------------
(* Frames that no processor pushed. *)

\* Mutant: the registers are pushed from the first on.
ThreadSetupUp(frame, user, switch) ==
  [i \in 1..9 |-> switch[Context[i]]] \o <<"x", "x", "x", "x", "x", "x", "x", "sc_ret_from_syscall">>
    \o [i \in 1..9 |-> user[Context[10 - i]]] \o frame

\* thread_setup_ret_from_syscall, on an empty stack.
ThreadSetupRetFromSyscall(frame, user, switch) ==
  [i \in 1..9 |-> switch[Context[i]]] \o <<"x", "x", "x", "x", "x", "x", "x", "sc_ret_from_syscall">>
    \o [i \in 1..9 |-> user[Context[i]]] \o frame

\* thread_setup_iret_frame: under kstack, whatever is there.
ThreadSetupIretFrame(esp, eip) == <<eip, "user_cs", "enabled", esp, "user_ds">>

\* The i-th word under kstack.
Kstack(c, i) == c.stack[Len(c.stack) + 1 + i]

\* thread_setup_ret_from_fork for the thread that is running as c.
ThreadSetupRetFromFork(c) ==
  LET user == [r \in Range(Context) |-> Kstack(c, -15 + CHOOSE i \in 1..9 : Context[i] = r)]
  IN  ThreadSetupRetFromSyscall(ThreadSetupIretFrame(Kstack(c, -2), Kstack(c, -5)),
                                [user EXCEPT !.eax = "0"], [r \in Range(Context) |-> "unset"])

\* syscall_exec leaves through the frame it has changed.
ExecFrame(c, esp, eip) ==
  [c EXCEPT !.stack = SubSeq(@, 1, Len(@) - 5) \o ThreadSetupIretFrame(esp, eip)]

\* relocate_iret_frame: six words move down by one, the last from above kstack.
RelocateIretFrame(c) ==
  LET n == Len(c.stack)
  IN  [c EXCEPT !.stack = SubSeq(@, 1, n - 6) \o SubSeq(@, n - 4, n) \o <<"guard">>]

----------------------------------------------------------------------------
(* Faults. *)

\* Faults for which the processor pushes an error code.
WithErrorCode == {"DF", "TS", "NP", "SS", "GP", "PF", "AC"}

\* faulthandler_table without the double fault, which is not installed.
Relocating == {"SS", "GP", "PF"}
Fatal == {"DE", "UD", "NM", "CSO", "TS", "NP", "AC", "MC"}
Generic == {"DB", "NMI", "BP", "OF", "BR", "RESERVED", "MF", "XF"}

\* A fault whose handler returns: c once it has.
Faulted(c, f) ==
  LET t == Trap(c)
      h == IsrWrapper(IF f \in WithErrorCode THEN Push(t, "code") ELSE t)
  IN  Leave(IF f \in Relocating THEN RelocateIretFrame(h) ELSE h, "any")

----------------------------------------------------------------------------
(***************************************************************************)
(* What threads see of the frames: nothing.                                *)
(***************************************************************************)

Flat == [cs |-> "user_cs", ss |-> "user_ds", ds |-> "user_ds", es |-> "user_ds"]

\* A thread in user mode, and what another has left in the registers.
User == [reg |-> [r \in Regs |-> IF r \in DOMAIN Flat THEN Flat[r] ELSE r],
         stack |-> <<>>]
Other == [reg |-> [r \in Regs |-> "other"], stack |-> <<>>]

\* A thread that gives the processor up, or not, and has it again from another
\* one in the kernel; schedule's caller enables interrupts as they were.
Away(c) ==
  LET kernel == {"cs", "ss", "esp", "eflags"}
  IN  {c, SwitchIn([Other EXCEPT !.reg = [r \in Regs |-> IF r \in kernel THEN c.reg[r] ELSE @[r]]],
                   SwitchOut(c))}

\* In the kernel, up to three frames deep.
Deeper(S) == S \cup {IsrEntry(c) : c \in S}
InKernel == Deeper(Deeper({SyscallEntry(User), IsrEntry(User)}))

\* An interrupt, a switch to other threads and back in its handler or not, is
\* not noticed, neither by a program nor by what it interrupts in the kernel.
NotNoticed ==
  /\ \A c \in InKernel \cup {User} : \A d \in Away(IsrEntry(c)) :
       LET e == Leave(d, "any") IN e.reg = c.reg /\ (c # User => e.stack = c.stack)
  /\ \A c \in InKernel : \A d \in Away(c) : d.stack = c.stack /\ d.reg = c.reg

\* A call gives the program its registers back with the result in eax; after
\* exec it starts where it is told to.
CallsAnswer ==
  \A c \in Away(SyscallEntry(User)) :
    /\ Leave(c, "result").reg = [User.reg EXCEPT !.eax = "result"]
    /\ Leave(ExecFrame(c, "sp", "start"), "0").reg =
         [User.reg EXCEPT !.eax = "0", !.esp = "sp", !.eip = "start", !.eflags = "enabled"]

\* The new thread of a fork or thread_fork comes out of the first switch to it
\* as its parent, with 0 in eax, however deep the parent is in its stack.
ChildIsParent ==
  \A c \in Deeper({SyscallEntry(User)}) :
    SwitchIn(Other, ThreadSetupRetFromFork(c)).reg = [User.reg EXCEPT !.eax = "0", !.eflags = "enabled"]

\* A program goes on where a fault has stopped it, if its handler returns.
FaultsReturn == \A f \in Relocating \cup Generic : Faulted(User, f).reg = User.reg

\* However a thread enters the kernel and whoever runs meanwhile, it comes back
\* with the registers it had; a new one starts with those of its parent
\* (syscallWrapper.S, i386isrwrapper.S, sched.c:106-146, task.c:104-196,
\* syscall_fork.c:33-61, faulthandlers.c:121-126).
FramesAgree == NotNoticed /\ CallsAnswer /\ ChildIsParent /\ FaultsReturn
=============================================================================
