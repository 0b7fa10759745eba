------------------------------- MODULE Machine -------------------------------
(***************************************************************************)
(* The words that tell the processor and the interrupt controllers what to *)
(* do, bit by bit: gates (i386systemregs.h), the descriptors that are      *)
(* literals in head.S, page table entries, the commands of pic_init, and   *)
(* the cursor of the video controller.                                     *)
(* The kernel writes them by the names of bit fields; the processor and    *)
(* the controllers read them by position, as their manuals say.            *)
(***************************************************************************)
EXTENDS Integers, Sequences, SequencesExt, FiniteSetsExt

\* The w low bits of n, the lowest first; n may be negative.
Bits(n, w) == [i \in 1..w |-> (n \div 2 ^ (i - 1)) % 2]

\* The fields of a struct in order, each <<its width, what is stored>>.
Fields(fs) == FlattenSeq([i \in DOMAIN fs |-> Bits(fs[i][2], fs[i][1])])

\* Bits lo to hi of a word, counted from 0.
Part(word, lo, hi) == FoldRight(LAMBDA b, n : 2 * n + b, SubSeq(word, lo + 1, hi + 1), 0)

Ones  == -1
Zeros == 0

----------------------------------------------------------------------------
(* Gates. *)

TrapGate == 7
IntrGate == 6

KernelCS == \h10
KernelDS == \h18
UserCS   == \h23
UserDS   == \h2b
Tss      == \h08

PL0 == 0
PL3 == 3

\* i386_TRAP_GATE_DESC and i386_INTR_GATE_DESC, which differ in the type.
GateBits(offset, selector, type, dpl) ==
  Fields(<<<<16, offset % 2 ^ 16>>, <<16, selector>>,
           <<5, Zeros>>, <<3, Zeros>>, <<3, type>>, <<1, Ones>>, <<1, Zeros>>, <<2, dpl>>, <<1, Ones>>,
           <<16, offset \div 2 ^ 16>>>>)

NoGate == [i \in 1..64 |-> 0]

\* How the processor reads a gate.
Gate(word) ==
  [offset   |-> Part(word, 0, 15) + 2 ^ 16 * Part(word, 48, 63),
   selector |-> Part(word, 16, 31),
   type     |-> CASE Part(word, 40, 44) = 14 -> "interrupt" [] Part(word, 40, 44) = 15 -> "trap" [] OTHER -> "other",
   dpl      |-> Part(word, 45, 46),
   present  |-> Part(word, 47, 47) = 1]

----------------------------------------------------------------------------
(* The tables that head.S starts with: halves of words, the low one first. *)

Halves(hs) == Fields([i \in DOMAIN hs |-> <<16, hs[i]>>])

InitTss   == \h100930
DfHandler == \h100998

\* The first sixteen words of 16 in init_idt that are not zero are gate 8.
InitIdt == [v \in 0..255 |-> IF v = 8 THEN Halves(<<\h0998, \h0010, \h8f00, \h0010>>) ELSE NoGate]

InitGdt ==
  <<Halves(<<0, 0, 0, 0>>),
    Halves(<<\h0067, \h0930, \h8910, 0>>),
    Halves(<<\hffff, 0, \h9b00, \h00cf>>), Halves(<<\hffff, 0, \h9300, \h00cf>>),
    Halves(<<\hffff, 0, \hfb00, \h00cf>>), Halves(<<\hffff, 0, \hf200, \h00cf>>)>>

\* Where set_esp0 stores, and what init_tss holds behind it for ss.
EspZeroAt == 4
TssWords == (8 :> \h18)

\* lgdt and lidt in asm.S, as _start calls them: the tables end where the
\* next one begins.
InitIdtAt == \h100100
InitGdtAt == \h100900

LoadedTable(base, limit) == [base |-> base, limit |-> limit % 2 ^ 16]

Gdtr == LoadedTable(InitGdtAt, InitTss - InitGdtAt - 1)
Idtr == LoadedTable(InitIdtAt, InitGdtAt - InitIdtAt - 1)

\* blat: how far it fills the screen with a message of len bytes, which it
\* copies until the next copy might not have room.
ScreenBytes == 2 * 80 * 25

Blat(len) ==
  LET from[edi \in 0..ScreenBytes + len] ==
        IF ScreenBytes - len > edi + len THEN from[edi + len] ELSE edi + len
  IN  from[0]

\* How the processor finds and reads a segment's descriptor.
Segment(selector) ==
  LET word == InitGdt[selector \div 8 + 1]
  IN  [base |-> Part(word, 16, 39) + 2 ^ 24 * Part(word, 56, 63),
       limit |-> Part(word, 0, 15) + 2 ^ 16 * Part(word, 48, 51),
       kind |-> CASE Part(word, 40, 44) \in 24..31 -> "code" [] Part(word, 40, 44) \in 16..23 -> "data"
                  [] Part(word, 40, 44) = 9 -> "tss" [] OTHER -> "other",
       dpl |-> Part(word, 45, 46), rpl |-> selector % 4,
       present |-> Part(word, 47, 47) = 1, pages |-> Part(word, 55, 55) = 1]

----------------------------------------------------------------------------
(* Control registers: the fields of the unions in i386systemregs.h, each    *)
(* <<its name, its width>>, and the bits by which cr.h names them.          *)

Cr0Fields ==
  <<<<"PE", 1>>, <<"MP", 1>>, <<"EM", 1>>, <<"TS", 1>>, <<"ET", 1>>, <<"NE", 1>>, <<"UNDEF10", 10>>, <<"WP", 1>>,
    <<"UNDEF1", 1>>, <<"AM", 1>>, <<"UNDEF2_10", 10>>, <<"NW", 1>>, <<"CD", 1>>, <<"PG", 1>>>>

Cr3Fields == <<<<"UNDEF3", 3>>, <<"PWT", 1>>, <<"PCD", 1>>, <<"UNDEF7", 7>>, <<"PDBASE", 20>>>>

Cr4Fields ==
  <<<<"VME", 1>>, <<"PVI", 1>>, <<"TSD", 1>>, <<"DE", 1>>, <<"PSE", 1>>, <<"PAE", 1>>, <<"MCE", 1>>, <<"PGE", 1>>,
    <<"PCE", 1>>, <<"FXSR", 1>>, <<"MMEXCPT", 1>>, <<"RESERVED", 21>>>>

Cr0Bit == [PE |-> 0, MP |-> 1, EM |-> 2, TS |-> 3, ET |-> 4, NE |-> 5, WP |-> 16, AM |-> 18, NW |-> 29, CD |-> 30, PG |-> 31]
Cr3Bit == [PWT |-> 3, PCD |-> 4]
Cr4Bit == [VME |-> 0, PVI |-> 1, TSD |-> 2, DE |-> 3, PSE |-> 4, PAE |-> 5, MCE |-> 6, PGE |-> 7,
           PCE |-> 8, FXSR |-> 9, MMEXCPT |-> 10]

\* Where the i-th field begins; behind the last one, how wide they all are.
FieldAt(fs, i) == FoldLeft(LAMBDA n, f : n + f[2], 0, SubSeq(fs, 1, i - 1))

SetBit(word, i) == [word EXCEPT ![i + 1] = 1]

----------------------------------------------------------------------------
(* Page tables. *)

PteBits == {"PRESENT", "RW", "US", "WT", "CACHE_DISABLED", "ACCESSED", "DIRTY", "_PAGE_SIZE", "GLOBAL"}

\* struct _PTE with the fields of S set, for the page address.
PteWord(S, address) ==
  LET bit(f) == <<1, IF f \in S THEN 1 ELSE 0>>
  IN  Fields(<<bit("PRESENT"), bit("RW"), bit("US"), bit("WT"), bit("CACHE_DISABLED"), bit("ACCESSED"),
               bit("DIRTY"), bit("_PAGE_SIZE"), bit("GLOBAL"), <<3, 0>>, <<20, address>>>>)

PtePerPage == 1024
PageSize   == 4096

\* LINEAR_ADDRESS_BREAKER
Linear(address) ==
  [offset |-> address % PageSize,
   pte_idx |-> (address \div PageSize) % PtePerPage,
   pde_idx |-> address \div (PageSize * PtePerPage)]

\* How the processor translates an address, when EntryAt(p, i) is entry i of
\* the table in the page p and cr3 is the page of the directory.
Walk(EntryAt(_, _), cr3, address) ==
  LET pde == EntryAt(cr3, (address \div 2 ^ 22) % 2 ^ 10)
      pte == EntryAt(Part(pde, 12, 31), (address \div 2 ^ 12) % 2 ^ 10)
      both(i) == Part(pde, i, i) = 1 /\ Part(pte, i, i) = 1
  IN  [present |-> both(0), write |-> both(1), user |-> both(2),
       address |-> 2 ^ 12 * Part(pte, 12, 31) + (address % 2 ^ 12), large |-> Part(pde, 7, 7) = 1]

----------------------------------------------------------------------------
(* Interrupt controllers. *)

IrqBase == [master |-> \h20, slave |-> \h28]

\* ICW_TEMPLATE | ICW4__NEEDED; SLAVE_ON_IR2; I_AM_SLAVE_2; I8086_EMM_MOD
Icw1 == \h11
Icw3 == [master |-> \h04, slave |-> \h02]
Icw4 == \h01
NonSpecEoi == \h20

\* What pic_init writes: the chip, 0 for its ICW port and 1 for its OCW port.
PicInit(master_base, slave_base) ==
  LET dance(chip, base) ==
        <<<<chip, 0, Icw1>>, <<chip, 1, base>>, <<chip, 1, Icw3[chip]>>, <<chip, 1, Icw4>>>>
  IN  dance("master", master_base) \o dance("slave", slave_base)
      \o <<<<"master", 0, NonSpecEoi>>, <<"slave", 0, NonSpecEoi>>, <<"slave", 1, 0>>, <<"master", 1, 0>>>>

\* interrupt_setup
InterruptSetup == PicInit(IrqBase.master, IrqBase.slave)

\* How one controller takes what is written: bit 4 on port 0 begins the
\* dance, in which the next words on port 1 are the base, the wiring and,
\* when bit 0 said so, the mode; any other word on port 1 is the mask.
Controller(chip, writes) ==
  LET one(st, w) ==
        IF w[2] = 0
        THEN IF (w[3] \div 16) % 2 = 1 THEN [st EXCEPT !.next = "base", !.more = w[3] % 2 = 1] ELSE st
        ELSE CASE st.next = "base"   -> [st EXCEPT !.base = w[3] - (w[3] % 8), !.next = "wiring"]
               [] st.next = "wiring" -> [st EXCEPT !.wiring = w[3], !.next = IF st.more THEN "mode" ELSE "mask"]
               [] st.next = "mode"   -> [st EXCEPT !.mode = w[3], !.next = "mask"]
               [] st.next = "mask"   -> [st EXCEPT !.mask = w[3]]
  IN  FoldLeft(one, [next |-> "mask", more |-> FALSE, base |-> 0, wiring |-> 0, mode |-> 0, mask |-> 255],
               SelectSeq(writes, LAMBDA w : w[1] = chip))

\* The vector of an interrupt request.
IrqVector(irq) ==
  IF irq < 8 THEN Controller("master", InterruptSetup).base + irq
  ELSE Controller("slave", InterruptSetup).base + irq - 8

----------------------------------------------------------------------------
(* The video controller's cursor, and what console_driver.c does to it.  A  *)
(* terminal d is the driver's state and the controller's registers crtc.    *)
(* A call of these is not interrupted unless a property says so.            *)

\* What clears a cell.
Space == "sp"

CrtcLsb == 15
CrtcMsb == 14
ConsoleWidth == 80
ConsoleHeight == 25
Fadango == -5   \* KERN_ERROR_CURSOR_FADANGO

\* outb: the index register chooses what a byte of data goes to.
Outb(crtc, w) == IF w.idx THEN [crtc EXCEPT !.idx = w.val] ELSE [crtc EXCEPT !.regs[crtc.idx] = w.val]

Outbs(crtc, ws) == FoldLeft(Outb, crtc, ws)

\* Mutant: the index is only chosen for the lower byte.
CrtcWritesOnce(p) ==
  <<[idx |-> TRUE, val |-> CrtcLsb], [idx |-> FALSE, val |-> p % 256],
    [idx |-> FALSE, val |-> (p \div 256) % 256], [idx |-> TRUE, val |-> CrtcMsb]>>

\* What draw_crtc_cursor writes: the bytes of a linear_cursor_pos.
CrtcWrites(p) ==
  <<[idx |-> TRUE, val |-> CrtcLsb], [idx |-> FALSE, val |-> p % 256],
    [idx |-> TRUE, val |-> CrtcMsb], [idx |-> FALSE, val |-> (p \div 256) % 256]>>

LinearPos(row, column) == row * ConsoleWidth + column

DrawCrtcCursor(d, row, column) ==
  IF d.cursor_visible THEN [d EXCEPT !.crtc = Outbs(@, CrtcWrites(LinearPos(row, column)))] ELSE d

HideCursor(d) == [DrawCrtcCursor(d, ConsoleHeight, ConsoleWidth + 1) EXCEPT !.cursor_visible = FALSE]

ShowCursor(d) == DrawCrtcCursor([d EXCEPT !.cursor_visible = TRUE], d.rpos, d.cpos)

GetCursor(d) == <<d.rpos, d.cpos>>

OnConsole(row, col) == row \in 0..ConsoleHeight - 1 /\ col \in 0..ConsoleWidth - 1

SetCursor(d, row, col) ==
  IF OnConsole(row, col)
  THEN [ret |-> 0, d |-> DrawCrtcCursor([d EXCEPT !.rpos = row, !.cpos = col], row, col)]
  ELSE [ret |-> Fadango, d |-> d]

\* putbyte, once it has left the cursor at row and col.
Printed(d, row, col) == DrawCrtcCursor([d EXCEPT !.rpos = row, !.cpos = col], row, col)

\* clear_console: the column it draws the cursor at is the row.
ClearConsole(d) ==
  DrawCrtcCursor([d EXCEPT !.rpos = 0, !.cpos = 0, !.frame = [p \in DOMAIN @ |-> <<Space, d.termcolor>>]], 0, 0)

\* draw_char where its assertions hold.
DrawChar(d, row, col, ch, color) == [d EXCEPT !.frame[<<row, col>>] = <<ch, color>>]

CharAt(d, row, col) == IF OnConsole(row, col) THEN d.frame[<<row, col>>][1] ELSE Fadango

\* console_drv_init, up to its banner.
ConsoleDrvInit(crtc) ==
  LET d == [rpos |-> 0, cpos |-> 0, termcolor |-> 0, cursor_visible |-> FALSE, crtc |-> crtc,
            frame |-> [p \in (0..ConsoleHeight - 1) \X (0..ConsoleWidth - 1) |-> "unset"]]
  IN  ShowCursor([ClearConsole(d) EXCEPT !.termcolor = 2])

Shown(crtc) == crtc.regs[CrtcLsb] + 256 * crtc.regs[CrtcMsb]

\* Positions of every kind: corners, and both sides of a change of the upper byte.
Corners == {<<0, 0>>, <<3, 15>>, <<3, 16>>, <<12, 79>>, <<24, 79>>}

\* Where one call leads from a terminal.
After(d) ==
  {HideCursor(d), ShowCursor(d), ClearConsole(d)}
  \cup {SetCursor(d, p[1], p[2]).d : p \in Corners \cup {<<25, 0>>, <<0, 80>>, <<-1, 5>>}}
  \cup {Printed(d, p[1], p[2]) : p \in Corners}

Powered == [idx |-> 0, regs |-> [i \in {0, CrtcLsb, CrtcMsb} |-> 7]]

\* Whatever is called in whatever order, the cursor is seen where the next
\* character goes if it is to be visible, and else nowhere.  A draw that the
\* keyboard's interrupt breaks into with one of its own shows the lower byte
\* of the one position with the upper byte of the other, which may be none of
\* the two, until something is drawn again (console_driver.c:70, 415, 433).
CursorSeen ==
  LET start == ConsoleDrvInit(Powered)
      seen(d) == IF d.cursor_visible THEN Shown(d.crtc) = LinearPos(d.rpos, d.cpos)
                 ELSE Shown(d.crtc) >= ConsoleWidth * ConsoleHeight
  IN  /\ seen(start)
      /\ \A d \in After(start) : \A e \in After(d) : \A f \in After(e) : seen(e) /\ seen(f)
      /\ \A p, q \in Corners : \A k \in 0..4 :
           LET mine == CrtcWrites(LinearPos(p[1], p[2]))
               echo == CrtcWrites(LinearPos(q[1], q[2]))
               c == Outbs(start.crtc, SubSeq(mine, 1, k) \o echo \o SubSeq(mine, k + 1, 4))
           IN  /\ Shown(c) = CASE k = 0 -> LinearPos(p[1], p[2])
                               [] k = 4 -> LinearPos(q[1], q[2])
                               [] OTHER -> (LinearPos(q[1], q[2]) % 256) + (LinearPos(p[1], p[2]) \div 256) * 256
               /\ Shown(Outbs(c, echo)) = LinearPos(q[1], q[2])

\* What is drawn at a place is found there and nowhere else, and get_cursor
\* gives what set_cursor takes, which is nothing beside the screen.
CellsKept ==
  LET start == ConsoleDrvInit(Powered)
  IN  \A p \in Corners, q \in Corners \cup {<<25, 0>>, <<0, 80>>, <<-1, 5>>} :
        LET d == DrawChar(start, p[1], p[2], "v", 3)
            r == SetCursor(d, q[1], q[2])
        IN  /\ CharAt(d, q[1], q[2]) = IF ~ OnConsole(q[1], q[2]) THEN Fadango
                                      ELSE IF p = q THEN "v" ELSE Space
            /\ IF r.ret = 0 THEN GetCursor(r.d) = q ELSE r.d = d
=============================================================================
