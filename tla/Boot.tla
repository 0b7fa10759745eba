-------------------------------- MODULE Boot --------------------------------
(***************************************************************************)
(* kernel_main: what every step of the start leaves in the descriptor      *)
(* table, in the memory of the first two tasks and in their page tables,   *)
(* wherever malloc fails.  A machine m is its table of gates, the blocks   *)
(* of code that were made for them, how often memory was asked for, the    *)
(* last return value and whether the kernel panicked.  m.fails are the     *)
(* requests for memory that fail.                                          *)
(***************************************************************************)
EXTENDS Machine

Faults ==
  <<"divby0_fault_handler", "fault_generic", "fault_generic", "fault_generic", "fault_generic",
    "fault_generic", "opcode_fault_handler", "device_fault_handler", "double_fault_handler",
    "fault_generic_fatal", "fault_generic_fatal", "fault_generic_fatal", "page_fault_handler",
    "page_fault_handler", "page_fault_handler", "fault_generic", "fault_generic",
    "alignment_fault_handler", "fault_generic_fatal", "fault_generic">>

FaultDF == 8

Call(int_nr, fn, check) == [int_nr |-> int_nr, fn |-> fn, check |-> check]

Listed ==
  <<Call(\h40, "unimpl", "unimpl"), Call(\h41, "fork", "noargs_check"), Call(\h42, "exec", "exec_check"),
    Call(\h44, "wait", "wait_check"), Call(\h45, "yield", "yield_check"), Call(\h48, "gettid", "noargs_check"),
    Call(\h49, "newpages", "newpages_check"), Call(\h4A, "removepages", "removepages_check"),
    Call(\h4B, "sleep", "singleargs_check"), Call(\h4C, "getchar", "noargs_check"),
    Call(\h4D, "readline", "readline_check"), Call(\h4E, "print", "print_check"),
    Call(\h4F, "settermcolor", "settermcolor_check"), Call(\h50, "setcursorpos", "setcursorpos_check"),
    Call(\h51, "getcursorpos", "getcursorpos_check"), Call(\h52, "threadfork", "noargs_check"),
    Call(\h53, "getticks", "noargs_check"), Call(\h54, "unimpl", "unimpl"), Call(\h55, "halt", "noargs_check"),
    Call(\h56, "ls", "ls_check"), Call(\h57, "taskvanish", "noargs_check"),
    Call(\h59, "set_status", "singleargs_check"), Call(\h60, "vanish", "noargs_check"),
    Call(\h61, "cas2irunflag", "cas2i_check")>>

TotalSystemCalls == \h61 - \h40 + 1

\* sys_call_table: what has no initialiser is zero.
SysCall(i) == IF i < Len(Listed) THEN Listed[i + 1] ELSE Call(0, "NULL", "NULL")

----------------------------------------------------------------------------
(* Code blocks and gates. *)

\* Addresses that functions and allocated blocks might have.
Functions == <<"_BASE_TIMER_CALL_BACK", "_BASE_KEYB_CALL_BACK", "syscall_enter", "never_land_isr">> \o Faults
FnAt(f)    == \h10ff00 + 32 * Min({i \in DOMAIN Functions : Functions[i] = f})
BlockAt(k) == \h10fe00 + 64 * k

Modulus == 2 ^ 24

\* The displacement of the template's call counts from behind it.
NextInstr == 20
TemplateAt == \h10f000
IsrTemplate == [kind |-> "isr", disp |-> (FnAt("never_land_isr") - (TemplateAt + NextInstr)) % Modulus]
ScMagic == \hBABE
ScTemplate == [kind |-> "syscall", pushed |-> ScMagic]

\* Mutant: the displacement counts from the start of the block.
PatchFromStart(code_block, at, fn) == [code_block EXCEPT !.disp = (fn - at) % Modulus]

\* patch_code_block
PatchCodeBlock(code_block, at, fn) == [code_block EXCEPT !.disp = (fn - (at + NextInstr)) % Modulus]

\* patch_sc_code_block
PatchScCodeBlock(code_block, sys_call_idx) == [code_block EXCEPT !.pushed = sys_call_idx]

\* i386_set_idt_entry
SetIdtEntry(idt, code_offset, v, type, dpl) ==
  [idt EXCEPT ![v] = GateBits(code_offset, KernelCS, type, dpl)]

\* malloc: the next request, and whether it fails.
Asked(m) == [m EXCEPT !.asked = @ + 1]
NoMem(m) == m.asked + 1 \in m.fails

Returned(m, ret) == [m EXCEPT !.ret = ret]

Installed(m, code_block, v, type, dpl) ==
  LET at == BlockAt(m.asked + 1)
  IN  [Asked(m) EXCEPT !.ret = "KERN_SUCCESS",
                       !.blocks = @ @@ (at :> code_block),
                       !.idt = SetIdtEntry(@, at, v, type, dpl)]

\* i386_install_isr
InstallIsr(m, pisr, v, type, dpl) ==
  IF NoMem(m) THEN Returned(Asked(m), "KERN_NO_MEM")
  ELSE Installed(m, PatchCodeBlock(IsrTemplate, BlockAt(m.asked + 1), FnAt(pisr)), v, type, dpl)

\* i386_sc_set_idt_entry
ScSetIdtEntry(m, sys_call_idx, int_nr) ==
  IF NoMem(m) THEN Returned(Asked(m), "KERN_NO_MEM")
  ELSE Installed(m, PatchScCodeBlock(ScTemplate, sys_call_idx), int_nr, TrapGate, PL3)

\* A sequence of steps that ends with the first that fails.
InOrder(m, step(_, _), from, to) ==
  FoldLeftDomain(LAMBDA n, i : IF n.ret # "KERN_SUCCESS" THEN n ELSE step(n, from + i - 1),
                 Returned(m, "KERN_SUCCESS"), [i \in 1..to - from + 1 |-> i])

----------------------------------------------------------------------------
(* The steps of kernel_main. *)

FaulthandlerInit(m) ==
  LET install(n, i) == IF i = FaultDF THEN n ELSE InstallIsr(n, Faults[i + 1], i, TrapGate, PL0)
  IN  IF NoMem(m) THEN Returned(Asked(m), "KERN_NO_MEM") ELSE InOrder(Asked(m), install, 0, 19)

TimerDrvInit(m) == InstallIsr(m, "_BASE_TIMER_CALL_BACK", IrqBase.master, IntrGate, PL0)

KeybDrvInit(m) == InstallIsr(m, "_BASE_KEYB_CALL_BACK", \h21, IntrGate, PL0)

\* boot_driver_init: what its last step returned.
BootDriverInit(m) == KeybDrvInit(TimerDrvInit(m))

\* vmm_init on a machine with pages enough.
VmmInit(m) == Returned(Asked(m), IF NoMem(m) THEN "KERN_NO_MEM" ELSE "KERN_SUCCESS")

SyscallInit(m) ==
  LET install(n, i) == ScSetIdtEntry(n, i, SysCall(i).int_nr)
  IN  InOrder(m, install, 0, TotalSystemCalls - 1)

\* task_init: memory for the idle task and for init.  It asks for a page
\* table too, and does not look whether it gets one.
SchedInit(m) ==
  LET task(n, i) == Returned(Asked(n), IF NoMem(n) THEN "KERN_NO_MEM" ELSE "KERN_SUCCESS")
      n == InOrder(m, task, 1, 2)
  IN  IF n.ret = "KERN_SUCCESS" THEN Asked(n) ELSE n

\* kernel_main; sleep_init cannot fail.
KernelMain(fails) ==
  LET ok(m) == IF m.ret = "KERN_SUCCESS" THEN m ELSE [m EXCEPT !.panicked = TRUE]
      step(m, f(_)) == IF m.panicked THEN m ELSE ok(f(m))
      start == [idt |-> InitIdt, blocks |-> << >>, asked |-> 0, ret |-> "KERN_SUCCESS",
                panicked |-> FALSE, fails |-> fails]
  IN  step(step(step(step(step(start, FaulthandlerInit), BootDriverInit), VmmInit), SyscallInit), SchedInit)

----------------------------------------------------------------------------
(* An interrupt, a fault or a system call. *)

\* What the block behind a gate calls, and with which index.
Calls(m, g) ==
  LET b == m.blocks[g.offset]
      target == (g.offset + NextInstr + b.disp) % Modulus
  IN  IF g.offset \notin DOMAIN m.blocks THEN [fn |-> "none", idx |-> -1]
      ELSE IF b.kind = "syscall" THEN [fn |-> "syscall_enter", idx |-> b.pushed]
      ELSE IF \E i \in DOMAIN Functions : FnAt(Functions[i]) = target
      THEN [fn |-> CHOOSE f \in ToSet(Functions) : FnAt(f) = target, idx |-> -1]
      ELSE [fn |-> "nowhere", idx |-> -1]

\* What syscall_enter calls: the check and the handler.
SyscallEnter(idx) ==
  IF idx \notin 0..TotalSystemCalls - 1 THEN [check |-> "KERN_ERROR_INVALID_SYSCALL", fn |-> "none"]
  ELSE [check |-> SysCall(idx).check, fn |-> SysCall(idx).fn]

\* What a handler writes into its errmsg, with a pointer and the line's end,
\* and how it ends: the thread is killed, or goes on where it was.
ErrmsgSize == 100
Kills(text) == [said |-> text + 10 + 1, ends |-> "killed"]

divby0_fault_handler    == Kills(33)
alignment_fault_handler == Kills(41)
opcode_fault_handler    == Kills(33)
device_fault_handler    == Kills(37)
double_fault_handler    == Kills(31)
fault_generic           == [said |-> 0, ends |-> "returns"]

HandlerDoes(f) ==
  CASE f = "divby0_fault_handler" -> divby0_fault_handler
    [] f = "alignment_fault_handler" -> alignment_fault_handler
    [] f = "opcode_fault_handler" -> opcode_fault_handler
    [] f = "device_fault_handler" -> device_fault_handler
    [] f = "double_fault_handler" -> double_fault_handler
    [] f = "fault_generic" -> fault_generic
    [] f = "fault_generic_fatal" -> [said |-> 0, ends |-> "killed"]
    [] f = "page_fault_handler" -> [said |-> 0, ends |-> "repaired or killed"]
    [] OTHER -> [said |-> 0, ends |-> "other"]

\* The processor comes back to the instruction that raised these.
Restarts == {0, 5, 6, 7, 10, 11, 12, 13, 14, 16, 17, 19}

\* The faults that a program raises again and again, because nobody kills it:
\* bounds, the coprocessor's and SSE's.
RaisedAgain(m) == {v \in Restarts : HandlerDoes(Calls(m, Gate(m.idt[v])).fn).ends = "returns"}

LeadsTo(m, v, f, type, dpl) ==
  LET g == Gate(m.idt[v])
  IN  /\ g.present /\ g.selector = KernelCS /\ g.type = type /\ g.dpl = dpl
      /\ Calls(m, g).fn = f

\* Entries of sys_call_table without initialiser are installed at 0, over the
\* gate of divby0_fault_handler: int 0 and a division by zero come in as the
\* last of them, whose check is at address 0.
DivideGateLost(m) ==
  /\ LeadsTo(m, 0, "syscall_enter", "trap", PL3)
  /\ SyscallEnter(Calls(m, Gate(m.idt[0])).idx) = [check |-> "NULL", fn |-> "NULL"]

\* The gates that m has: faults 1 to 19 other than 8 reach their handlers
\* and cannot be raised with int by a program; the keyboard, and the timer
\* unless its block could not be had, come in with interrupts off; every
\* number a program may use reaches the handler and the check listed for it;
\* fault 8 goes to head.S, and what is left goes nowhere.  A fault that
\* the page fault handler does not get ends its thread, but for those raised
\* again; what is said of it fits.
GatesLeadIn(m) ==
  LET called == {Listed[i].int_nr : i \in DOMAIN Listed}
  IN  /\ \A v \in 1..19 \ {FaultDF} : LeadsTo(m, v, Faults[v + 1], "trap", PL0)
      /\ LeadsTo(m, IrqVector(1), "_BASE_KEYB_CALL_BACK", "interrupt", PL0)
      /\ LeadsTo(m, IrqVector(0), "_BASE_TIMER_CALL_BACK", "interrupt", PL0) \/ m.fails # {}
      /\ \A i \in DOMAIN Listed :
           /\ LeadsTo(m, Listed[i].int_nr, "syscall_enter", "trap", PL3)
           /\ SyscallEnter(Calls(m, Gate(m.idt[Listed[i].int_nr])).idx) = [check |-> Listed[i].check, fn |-> Listed[i].fn]
      /\ Gate(m.idt[FaultDF]).offset = DfHandler /\ Gate(m.idt[FaultDF]).present
      /\ DivideGateLost(m)
      /\ \A f \in ToSet(Faults) : HandlerDoes(f).said < ErrmsgSize
      /\ RaisedAgain(m) = {5, 16, 19}
      /\ \A v \in 0..255 \ (0..19 \cup {IrqVector(0), IrqVector(1)} \cup called) : ~ Gate(m.idt[v]).present

\* The kernel starts when it gets all its memory.  When one request fails it
\* panics, or has all these gates nevertheless (kernel.c:43, bootdrivers.c:37).
GatesLead ==
  /\ ~ KernelMain({}).panicked
  /\ \A k \in 0..KernelMain({}).asked : KernelMain({k}).panicked \/ GatesLeadIn(KernelMain({k}))

\* No request comes in at a vector that is a fault's or a program's, and both
\* controllers are wired to each other at line 2 and have nothing masked; the
\* segments that the kernel loads are what it takes them for, and inside the
\* table, as the 256 gates are in theirs; what head.S says when it can go no
\* further fills the screen but for less than once more, and nothing beside it
\* (head.S:36-154); and both headers mean the same bits of control registers.
MachineSetUp ==
  /\ \A irq \in 0..15 : IrqVector(irq) \notin 0..31 \cup {Listed[i].int_nr : i \in DOMAIN Listed}
  /\ Cardinality({IrqVector(irq) : irq \in 0..15}) = 16
  /\ LET chip(c) == Controller(c, InterruptSetup)
     IN  /\ chip("master").wiring = 2 ^ chip("slave").wiring
         /\ \A c \in {"master", "slave"} : chip(c).mask = 0 /\ chip(c).mode = 1 /\ chip(c).next = "mask"
  /\ \A s \in {KernelCS, KernelDS, UserCS, UserDS} :
       LET d == Segment(s)
       IN  /\ d.present /\ d.pages /\ d.base = 0 /\ d.limit = 2 ^ 20 - 1 /\ d.dpl = d.rpl
           /\ d.kind = IF s \in {KernelCS, UserCS} THEN "code" ELSE "data"
           /\ d.rpl = IF s \in {UserCS, UserDS} THEN 3 ELSE 0
           /\ s - (s % 8) + 7 <= Gdtr.limit
  /\ Gdtr.limit + 1 = 8 * Len(InitGdt) /\ Idtr.limit + 1 = 8 * Cardinality(DOMAIN InitIdt)
  /\ Gdtr.base = Idtr.base + Idtr.limit + 1 /\ InitTss = Gdtr.base + Gdtr.limit + 1
  /\ \A len \in 20..50 : Blat(len) \in ScreenBytes - len..ScreenBytes
  /\ \A r \in {<<Cr0Fields, Cr0Bit>>, <<Cr3Fields, Cr3Bit>>, <<Cr4Fields, Cr4Bit>>} :
       /\ FieldAt(r[1], Len(r[1]) + 1) = 32
       /\ \A f \in DOMAIN r[2] : \E i \in DOMAIN r[1] : r[1][i] = <<f, 1>> /\ FieldAt(r[1], i) = r[2][f]
  /\ Segment(Tss).kind = "tss" /\ Segment(Tss).base = InitTss /\ TssWords[EspZeroAt + 4] = KernelDS

----------------------------------------------------------------------------
(* The memory of the first tasks. *)

UserMemStart  == 2 ^ 24
KernelPagesNr == UserMemStart \div PageSize
KstackPages   == 2

InitialPtePages ==
  IF KernelPagesNr % PtePerPage # 0 THEN 1 ELSE KernelPagesNr \div PtePerPage

Mapping == {"PRESENT", "RW", "GLOBAL"}
UserMapping == {"PRESENT", "RW", "US"}

\* The pages of a task's directory and tables behind its kernel stack.
PdeBase(taskmem) == taskmem + KstackPages
PteBase(taskmem) == PdeBase(taskmem) + 1

\* Mutant: the tables' own entries begin with the page of the directory.
KernelEntryFromPde(taskmem, page, i) ==
  CASE page = PdeBase(taskmem) /\ i < InitialPtePages -> PteWord(Mapping, PdeBase(taskmem) + i)
    [] page \in PteBase(taskmem)..PteBase(taskmem) + InitialPtePages - 1 ->
         PteWord(Mapping, PtePerPage * (page - PteBase(taskmem)) + i)
    [] OTHER -> PteWord({}, 0)

\* vmm_init_task_vm: entry i of the table in a page.
KernelEntry(taskmem, page, i) ==
  CASE page = PdeBase(taskmem) /\ i < InitialPtePages -> PteWord(Mapping, PteBase(taskmem) + i)
    [] page \in PteBase(taskmem)..PteBase(taskmem) + InitialPtePages - 1 ->
         PteWord(Mapping, PtePerPage * (page - PteBase(taskmem)) + i)
    [] OTHER -> PteWord({}, 0)

\* task_setup_init_code: the first free entry of the directory gets a table
\* in the page new_pte, whose entry 0 gets the frame user_pfn.
InitEntry(taskmem, new_pte, user_pfn, page, i) ==
  LET used(j) == Part(KernelEntry(taskmem, PdeBase(taskmem), j), 0, 0) = 1
      free == CHOOSE j \in 0..PtePerPage - 1 : ~ used(j) /\ \A k \in 0..j - 1 : used(k)
  IN  IF page = PdeBase(taskmem) /\ i = free THEN PteWord(UserMapping, new_pte)
      ELSE IF page = new_pte /\ i = 0 THEN PteWord(UserMapping, user_pfn)
      ELSE KernelEntry(taskmem, page, i)

InitCodeLen == 4   \* int $0x42; jmp
Nul == "nul"

\* What task_setup_init_code writes to init's one page: the code, the packet
\* of exec behind it and the name of the program at the end.  A word is a
\* record at its first address; the page is zero elsewhere.
InitPage(name) ==
  LET at == PageSize - 1 - Len(name) - 1
  IN  [a \in 0..PageSize - 1 |->
         CASE a \in at..at + Len(name) - 1 -> name[a - at + 1]
           [] a < InitCodeLen -> [code |-> a]
           [] a = InitCodeLen -> [word |-> UserMemStart + PageSize - Len(name) - 2]
           [] a = InitCodeLen + 4 -> [word |-> UserMemStart + InitCodeLen + 8]
           [] a = InitCodeLen + 8 -> [word |-> UserMemStart + PageSize - 1]
           [] OTHER -> Nul]

\* The registers init starts with.
InitRegs(name) ==
  LET sp == UserMemStart + PageSize - 2 - Len(name) - 8
  IN  [eip |-> UserMemStart, esi |-> UserMemStart + InitCodeLen, esp |-> sp - (sp % 4),
       cs |-> UserCS, ss |-> UserDS, ds |-> UserDS, es |-> UserDS]

\* PAGING_ENABLE, and with which directory.
PagingEnable(cr0, cr3) == [cr0 |-> SetBit(cr0, Cr0Bit.PG), cr3 |-> cr3]

\* The string at an address, one byte after the other.
StringFrom(read(_), a) ==
  LET n == CHOOSE k \in 0..8 : read(a + k) = Nul /\ \A j \in 0..k - 1 : read(a + j) # Nul
  IN  [i \in 1..n |-> read(a + i - 1)]

\* The kernel finds itself where it was when paging is turned on, in every
\* task, and programs find nothing of it; init starts at its code with a
\* stack of its own in a page of its own, from which exec reads the name and
\* an empty list of arguments (task.c:222, 277; vmm.c:84).  Nobody sets WP: the
\* kernel itself writes to pages that programs can only read.
FirstTasksStart ==
  LET taskmem == 514  new_pte == 530  user_pfn == 5000
      E(p, i) == InitEntry(taskmem, new_pte, user_pfn, p, i)
      mmu == PagingEnable(SetBit([i \in 1..32 |-> 0], Cr0Bit.PE), PdeBase(taskmem))
      to(a) == Walk(E, mmu.cr3, a)
      on(f) == mmu.cr0[Cr0Bit[f] + 1] = 1
      pages == {0, 1, 2, 15, 255, 256, 1023, 1024, 2047, 3071, 3072, 4095}
  IN  /\ {f \in DOMAIN Cr0Bit : on(f)} = {"PE", "PG"}
      /\ \A p \in pages, o \in {0, 4095} :
           LET a == p * PageSize + o
           IN  /\ to(a).present /\ to(a).write /\ ~ to(a).user /\ ~ to(a).large /\ to(a).address = a
               /\ Linear(a) = [offset |-> o, pte_idx |-> p % 1024, pde_idx |-> p \div 1024]
      /\ \A a \in {UserMemStart + PageSize, 2 * UserMemStart, UserMemStart + 2 ^ 22} : ~ to(a).present
      /\ \A name \in {<<"i">>, <<"i", "n", "i", "t">>, <<"i", "n", "i", "t", "2">>} :
           LET regs == InitRegs(name)
               page == InitPage(name)
               read(a) == page[to(a).address - user_pfn * PageSize]
               packet == [i \in 0..1 |-> read(regs.esi + 4 * i).word]
           IN  /\ \A a \in {UserMemStart, UserMemStart + PageSize - 1} :
                    to(a).present /\ to(a).write /\ to(a).user /\ to(a).address = user_pfn * PageSize + a - UserMemStart
               /\ read(regs.eip) = [code |-> 0]
               /\ StringFrom(read, packet[0]) = name
               /\ StringFrom(read, read(packet[1]).word) = <<>>
               /\ regs.esp % 4 = 0 /\ regs.esp \in regs.esi + 12..packet[0]
=============================================================================
