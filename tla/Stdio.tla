------------------------------- MODULE Stdio -------------------------------
(***************************************************************************)
(* What printf and its relatives make of numbers and strings, and what     *)
(* strtol, strtoul, atol and sscanf make of characters.  A string is a     *)
(* sequence of characters without the NUL that ends it; a directive of a   *)
(* format is a record.  Left out are the flag _doprnt_truncates that nobody *)
(* sets, and the capitals that stand for small letters.                    *)
(***************************************************************************)
EXTENDS Integers, SequencesExt, FiniteSetsExt

CONSTANTS
  LongBits,   \* bits of a long, at least 2
  BufMax      \* PRINTF_BUFMAX: characters that printf gathers

Nul == ""   \* what is read at the end of a string

Decimals == <<"0", "1", "2", "3", "4", "5", "6", "7", "8", "9">>

Digs == Decimals \o <<"a", "b", "c", "d", "e", "f">>

Blanks == {" ", "\t", "\n", "\r", "\f"}

Modulus == 2 ^ LongBits

Longs == -(Modulus \div 2)..Modulus \div 2 - 1

ToLong(n) == ((n + Modulus \div 2) % Modulus) - Modulus \div 2

At(s, i) == IF i \in 1..Len(s) THEN s[i] ELSE Nul

\* Where the run of characters of S that begins at i has ended.
After(s, i, S) ==
  Min({j \in i..Len(s) + 1 : At(s, j) \notin S})

Times(n, c) == [i \in 1..Max({n, 0}) |-> c]

----------------------------------------------------------------------------
(* Printing. *)

\* printnum, and the loop of print_num.
PrintNum(u, base) ==
  LET digits[x \in Nat] == IF x < base THEN <<Digs[x + 1]>>
                           ELSE digits[x \div base] \o <<Digs[(x % base) + 1]>>
  IN  digits[u]

\* The number that the decimal digits s spell.
Decimal(s) == FoldLeft(LAMBDA n, c : 10 * n + CHOOSE d \in 0..9 : Decimals[d + 1] = c, 0, s)

\* A width or a precision at k, of digits or the next of the arguments a.
Numeral(fmt, k, a) ==
  LET e == After(fmt, k, ToSet(Decimals))
  IN  IF e > k THEN [n |-> Decimal(SubSeq(fmt, k, e - 1)), next |-> e, args |-> a]
      ELSE IF At(fmt, k) = "*" THEN [n |-> Head(a), next |-> k + 1, args |-> Tail(a)]
      ELSE [n |-> 0, next |-> k, args |-> a]

\* No precision is -1, and so is a point with nothing behind it.
Precision(fmt, k, a) ==
  LET p == Numeral(fmt, k + 1, a)
  IN  IF At(fmt, k) # "." THEN [n |-> -1, next |-> k, args |-> a]
      ELSE IF p.next = k + 1 THEN [p EXCEPT !.n = -1] ELSE p

\* What the flags, the width w and the precision p ask for.
Asked(fmt, flags, zero, w, p) ==
  LET e == After(fmt, p.next, {"l"})
  IN  [alt  |-> "#" \in flags,
       left |-> ("-" \in flags) # (w.n < 0),
       plus |-> IF "+" \in flags THEN <<"+">> ELSE IF " " \in flags THEN <<" ">> ELSE <<>>,
       padc |-> IF zero THEN "0" ELSE " ",
       length |-> IF w.n < 0 THEN -w.n ELSE w.n,
       prec |-> p.n,
       long |-> e > p.next, conv |-> At(fmt, e), next |-> e + 1, args |-> p.args]

Sized(fmt, flags, zero, w) == Asked(fmt, flags, zero, w, Precision(fmt, w.next, w.args))

\* The directive behind the % at i, when a are the arguments not used yet:
\* what it asks for, where it ends, and the arguments it leaves.
Directive(fmt, i, a) ==
  LET f == After(fmt, i + 1, {"#", "-", "+", " "})
      zero == At(fmt, f) = "0"
  IN  Sized(fmt, {fmt[k] : k \in i + 1..f - 1}, zero, Numeral(fmt, IF zero THEN f + 1 ELSE f, a))

\* Mutant: the zeros go before the sign, as the blanks do.
PrintNumberZerosFirst(d, u, sign, base) ==
  LET number == sign \o PrintNum(u, base)
      pad == Times(d.length - Len(number), d.padc)
  IN  IF d.left /\ d.padc = " " THEN number \o pad ELSE pad \o number

\* print_num: blanks go before the sign and the prefix, zeros behind them.
PrintNumber(d, u, sign, base) ==
  LET prefix == IF u # 0 /\ d.alt THEN CASE base = 8 -> <<"0">> [] base = 16 -> <<"0", "x">> [] OTHER -> <<>>
                ELSE <<>>
      number == PrintNum(u, base)
      pad(c) == Times(d.length - Len(sign) - Len(prefix) - Len(number), c)
  IN  IF d.padc = "0" THEN sign \o prefix \o pad("0") \o number
      ELSE IF d.left  THEN sign \o prefix \o number \o pad(" ")
                      ELSE pad(" ") \o sign \o prefix \o number

PrintSigned(d, n, base) ==
  IF n >= 0 THEN PrintNumber(d, n, d.plus, base) ELSE PrintNumber(d, -n, <<"-">>, base)

PrintUnsigned(d, n, base) == PrintNumber(d, n % Modulus, <<>>, base)

\* %s: what is cut off counts for one character in the padding behind it.
PrintString(d, s) ==
  LET n == IF d.prec = -1 THEN Len(s) ELSE Max({Min({Len(s), d.prec}), 0})
      cut == d.prec # -1 /\ n < Len(s)
      shown == SubSeq(s, 1, n)
  IN  IF d.left THEN shown \o Times(d.length - n - (IF cut THEN 1 ELSE 0), " ")
      ELSE Times(d.length - n, " ") \o shown

\* %b: the number u, then the names of its bits and the values of its fields,
\* as parts tells them: a field is of the bits from one to another.
PrintBits(u, base, parts) ==
  LET field(t) == (u \div 2 ^ (t.low - 1)) % 2 ^ (t.high - t.low + 1)
      seen == SelectSeq(parts, LAMBDA t : t.isField \/ field(t) = 1)
      one(t) == IF t.isField THEN t.name \o PrintNum(field(t), base) ELSE t.name
      all == FoldLeft(LAMBDA s, t : s \o (IF s = <<>> THEN <<"<">> ELSE <<",">>) \o one(t), <<>>, seen)
  IN  PrintNum(u, base) \o IF u = 0 \/ seen = <<>> THEN <<>> ELSE Append(all, ">")

\* printnum_16: as many digits as a word has.
PrintNum16(u) == LET n == PrintNum(u, 16) IN Times(8 - Len(n), "0") \o n

Bracketed(d, s) == IF d.alt THEN <<"[">> \o s \o <<"]">> ELSE s

\* %t: task and thread, two places kept for the thread when they are padded
\* from the left; zeros go inside the brackets, and one may follow the point.
PrintThread(d, tid) ==
  LET task == PrintNum(tid.task, 16)
      thread == PrintNum(tid.lthread, 16)
      n == Len(task) + 1 + (IF d.alt THEN 2 ELSE 0)
      before == IF d.left THEN 0 ELSE Max({d.length - n - 2, 0})
      between == IF d.left THEN 0 ELSE Max({d.length - n - before - Len(thread), 0})
      shown == Bracketed(d, Times(IF d.padc = "0" THEN before ELSE 0, "0") \o task \o <<".">>
                              \o Times(between, d.padc) \o thread)
  IN  Times(IF d.padc = " " THEN before ELSE 0, " ") \o shown
      \o Times(IF d.left THEN d.length - n - Len(thread) ELSE 0, " ")

\* %lt: both words of the number.
PrintThreadLong(d, lh) ==
  LET shown == Bracketed(d, PrintNum16(lh.high) \o <<":">> \o PrintNum16(lh.low))
      pad == Times(d.length - Len(shown), " ")
  IN  IF d.left THEN shown \o pad ELSE pad \o shown

\* One directive with its argument; radix is %r's and %n's.
Convert(d, radix) ==
  LET arg == Head(d.args)
  IN  CASE d.conv = "c" -> <<arg>>
        [] d.conv = "t" /\ d.long -> PrintThreadLong(d, arg)
        [] d.conv = "t" /\ ~ d.long -> PrintThread(d, arg)
        [] d.conv = "s" -> PrintString(d, arg)
        [] d.conv = "b" -> PrintBits(arg % Modulus, d.args[2].base, d.args[2].parts)
        [] d.conv = "d" -> PrintSigned(d, arg, 10)
        [] d.conv = "z" -> PrintSigned(d, arg, 16)
        [] d.conv = "r" -> PrintSigned(d, arg, radix)
        [] d.conv = "o" -> PrintUnsigned(d, arg, 8)
        [] d.conv = "u" -> PrintUnsigned(d, arg, 10)
        [] d.conv = "x" -> PrintUnsigned(d, arg, 16)
        [] d.conv = "n" -> PrintUnsigned(d, arg, radix)
        [] d.conv = "p" -> <<"0", "x">> \o PrintUnsigned([d EXCEPT !.padc = "0", !.length = 8], arg, 16)

Consumed(conv) ==
  IF conv = "b" THEN 2
  ELSE IF conv \in {"c", "s", "t", "d", "z", "r", "o", "u", "x", "n", "p"} THEN 1 ELSE 0

\* What the directive d prints, and how many arguments are left behind it.
Output(d, radix) ==
  [text |-> IF Consumed(d.conv) = 0 THEN <<d.conv>> ELSE Convert(d, radix),
   left |-> Len(d.args) - Consumed(d.conv)]

\* _doprnt: all characters that reach putc.
Doprnt(fmt, args, radix) ==
  LET from[i \in 1..Len(fmt) + 1, a \in 0..Len(args)] ==   \* a arguments are left
        LET then(d, out) == IF d.conv = Nul THEN <<>> ELSE out.text \o from[d.next, out.left]
            run(d) == then(d, Output(d, radix))
        IN  IF i > Len(fmt) THEN <<>>
            ELSE IF fmt[i] # "%" THEN <<fmt[i]>> \o from[i + 1, a]
            ELSE run(Directive(fmt, i, SubSeq(args, Len(args) - a + 1, Len(args))))
  IN  from[1, Len(args)]

----------------------------------------------------------------------------
(* Where the characters go. *)

\* printf_char: st.out is on the console, st.buf waits in the buffer.  The
\* NUL that ends a full buffer for puts falls on the low byte of the index
\* behind it, which becomes 0 anyway.
PrintfChar(st, c) ==
  IF c = "\n" THEN [out |-> st.out \o st.buf \o <<"\n">>, buf |-> <<>>]
  ELSE IF c = Nul \/ Len(st.buf) >= BufMax THEN [out |-> st.out \o st.buf \o <<c>>, buf |-> <<>>]
  ELSE [st EXCEPT !.buf = Append(@, c)]

\* vprintf
Printf(cs) ==
  LET st == FoldLeft(PrintfChar, [out |-> <<>>, buf |-> <<>>], cs)
  IN  st.out \o st.buf

Unlimited == -1

\* vsprintf and vsnprintf: the bytes stored, the NUL behind them included.
Sprintf(max, cs) ==
  LET saved(buf, c) == IF max # Unlimited /\ Len(buf) = max THEN buf ELSE Append(buf, c)
  IN  Append(FoldLeft(saved, <<>>, cs), Nul)

----------------------------------------------------------------------------
(* Scanning. *)

DigitValue(c, base) ==
  LET d == {i \in 1..Min({base, 16}) : Digs[i] = c} IN IF d = {} THEN -1 ELSE Min(d) - 1

\* The digits of base from i on: the number they spell and where they end.
Digits(s, i, base) ==
  LET e == Min({j \in i..Len(s) + 1 : DigitValue(At(s, j), base) = -1})
  IN  [value |-> FoldLeft(LAMBDA v, c : v * base + DigitValue(c, base), 0, SubSeq(s, i, e - 1)),
       next |-> e]

\* The base that strtol and strtoul find at i, and where its digits begin.
FoundBase(s, i, base) ==
  IF base \in {0, 16} /\ At(s, i) = "0" /\ At(s, i + 1) = "x" THEN [base |-> 16, next |-> i + 2]
  ELSE [base |-> IF base # 0 THEN base ELSE IF At(s, i) = "0" THEN 8 ELSE 10, next |-> i]

Strtoul(s, base) ==
  LET f == FoundBase(s, After(s, 1, Blanks), base)
  IN  Digits(s, f.next, f.base).value % Modulus

\* A plus is no digit, and is not skipped.
Strtol(s, base) ==
  LET i == After(s, 1, Blanks)
      neg == At(s, i) = "-"
      f == FoundBase(s, IF neg THEN i + 1 ELSE i, base)
      v == Digits(s, f.next, f.base).value
  IN  ToLong(IF neg THEN -v ELSE v)

Atol(s) == ToLong(Digits(s, 1, 10).value)

\* One %d or %x of _doscan at position i of s.
ScanNumber(s, i, base) ==
  LET neg == At(s, i) = "-"
      r == Digits(s, IF neg THEN i + 1 ELSE i, base)
  IN  [value |-> ToLong(IF neg THEN -r.value ELSE r.value), next |-> r.next]

\* _doscan with fmt, a sequence of directives "d", "x", "*d", "*x", blanks
\* and other characters: the numbers stored.  A blank skips what there is of
\* them; one character that does not match ends the scan.
Doscan(s, fmt) ==
  LET step(st, c) ==
        IF st.stopped THEN st
        ELSE IF c \in Blanks THEN [st EXCEPT !.at = After(s, st.at, Blanks)]
        ELSE IF c \in {"d", "*d", "x", "*x"}
        THEN LET r == ScanNumber(s, st.at, IF c \in {"d", "*d"} THEN 10 ELSE 16)
             IN  [st EXCEPT !.at = r.next,
                            !.vals = IF c \in {"d", "x"} THEN Append(@, r.value) ELSE @]
        ELSE [st EXCEPT !.at = @ + 1, !.stopped = At(s, st.at) # c]
  IN  FoldLeft(step, [at |-> 1, vals |-> <<>>, stopped |-> FALSE], fmt).vals

----------------------------------------------------------------------------
(* What is printed can be read back. *)

Spelled(flags, zero, width, conv) ==
  <<"%">> \o SetToSeq(flags) \o (IF zero THEN <<"0">> ELSE <<>>)
  \o (IF width = 0 THEN <<>> ELSE PrintNum(width, 10)) \o <<conv>>

BaseOf == [c \in {"d", "u", "x", "o", "z"} |-> CASE c \in {"d", "u"} -> 10 [] c \in {"x", "z"} -> 16 [] c = "o" -> 8]

Flags == {"#", "-", "+", " "}

ReadsBack(out, bare, flags, width, conv, n) ==
  LET signed == conv \in {"d", "z"}
      read(base) == IF signed THEN Strtol(out, base) = n ELSE Strtoul(out, base) = n % Modulus
  IN  /\ Len(out) = Max({width, Len(bare)})
      /\ ~ signed \/ "+" \notin flags \/ n < 0 => read(BaseOf[conv])
      /\ "#" \in flags /\ "+" \notin flags /\ n # 0 /\ BaseOf[conv] # 10 => read(0)

\* However a number is printed, it is as wide as asked or as it must be, and
\* strtol or strtoul reads it back: with the base it was printed in, and
\* with base 0 when the prefix was asked for.  A plus is an exception: strtol
\* takes it for the end of the number.
NumbersReadBack(Widths) ==
  LET print(flags, zero, width, conv, n) == Doprnt(Spelled(flags, zero, width, conv), <<n>>, 10)
  IN  \A flags \in SUBSET Flags, zero \in BOOLEAN, width \in Widths, conv \in DOMAIN BaseOf, n \in Longs :
        ReadsBack(print(flags, zero, width, conv, n), print(flags, FALSE, 0, conv, n), flags, width, conv, n)

\* Two numbers printed with a blank between them are scanned as these two,
\* also when a third that is printed between them is to be discarded.
ScansWhatIsPrinted ==
  \A n, m \in Longs :
    /\ Doscan(Doprnt(<<"%", "d", " ", "%", "x">>, <<n, m>>, 0), <<"d", " ", "x">>) = <<n, ToLong(m % Modulus)>>
    /\ Doscan(Doprnt(<<"%", "x", ":", "%", "3", "d">>, <<m, n>>, 0), <<"*x", ":", " ", "d">>) = <<n>>
    /\ n >= 0 => Atol(PrintNum(n, 10)) = n

\* A string is found in its field, and the bits that are named are those set.
StringsAndBitsShown ==
  /\ \A s \in SeqOf({"a", "b"}, 3), left \in BOOLEAN, width \in 0..4, prec \in -1..3 :
       LET d == [left |-> left, length |-> width, prec |-> prec]
           out == PrintString(d, s)
           n == IF prec = -1 THEN Len(s) ELSE Min({prec, Len(s)})
           from == IF left THEN 0 ELSE Len(out) - n
       IN  /\ SubSeq(out, from + 1, from + n) = SubSeq(s, 1, n)
           /\ Len(out) \in Max({n, width - 1})..Max({n, width})
  /\ \A u \in 0..Modulus - 1 :
       LET parts == <<[isField |-> FALSE, name |-> <<"A">>, low |-> 1, high |-> 1],
                      [isField |-> TRUE,  name |-> <<"F">>, low |-> 2, high |-> 3],
                      [isField |-> FALSE, name |-> <<"B">>, low |-> 4, high |-> 4]>>
           out == PrintBits(u, 8, parts)
       IN  /\ Digits(out, 1, 8).value = u
           /\ u # 0 => /\ Contains(out, "A") <=> u % 2 = 1
                       /\ Contains(out, "B") <=> (u \div 8) % 2 = 1
                       /\ \E i \in DOMAIN out : out[i] = "F" /\ Digits(out, i + 1, 8).value = (u \div 2) % 4

\* The hexadecimal number that the characters spell that begin at i.
HexAt(s, i) == Digits(s, i, 16).value

\* The text s is that wide and shows a and b, with the mark c between them.
BothFound(s, bracketed, c, width, a, b) ==
  LET open == IF bracketed THEN CHOOSE i \in DOMAIN s : s[i] = "["
              ELSE Max({i \in 0..Len(s) : \A j \in 1..i : s[j] = " "})
      split == CHOOSE i \in DOMAIN s : s[i] = c
  IN  /\ Len(s) = width /\ HexAt(s, open + 1) = a
      /\ HexAt(s, After(s, split + 1, {" "})) = b

\* A thread's number is found again whatever stands around it, in a field as
\* wide as was asked for: zeros that fill it belong to the numbers.
ThreadsShown ==
  \A flags \in {{}, {"#"}, {"-"}, {"#", "-"}}, zero \in BOOLEAN, width \in {0, 7, 10, 21},
     task \in {0, 16, 256}, thread \in {0, 16} :
    LET natural == Len(PrintNum(task, 16)) + Len(PrintNum(thread, 16)) + (IF "#" \in flags THEN 3 ELSE 1)
    IN  /\ BothFound(Doprnt(Spelled(flags, zero, width, "t"), <<[task |-> task, lthread |-> thread]>>, 0),
                     "#" \in flags, ".", Max({width, natural}), task, thread)
        /\ BothFound(Doprnt(Spelled(flags, zero, width, "l") \o <<"t">>, <<[high |-> task, low |-> thread]>>, 0),
                     "#" \in flags, ":", Max({width, IF "#" \in flags THEN 19 ELSE 17}), task, thread)

\* Every character reaches the console, in order, wherever the buffer is
\* full and wherever lines end; what sprintf cuts off is the end, and its NUL
\* is at most one byte behind the size it was given.
NothingLost ==
  \A cs \in SeqOf({"a", "\n", Nul}, 2 * BufMax + 1) :
    /\ Printf(cs) = cs
    /\ \A max \in {Unlimited} \cup 0..BufMax :
         LET stored == Sprintf(max, cs)
         IN  /\ IsPrefix(Front(stored), cs) /\ Last(stored) = Nul
             /\ max = Unlimited => Front(stored) = cs
             /\ max # Unlimited => Len(stored) = Min({Len(cs), max}) + 1

\* Printing and scanning agree, in all of these ways (doprnt.c, printf.c,
\* strtol.c, doscan.c).
StdioSound ==
  /\ NumbersReadBack({0, 1, 3, 6}) /\ ScansWhatIsPrinted
  /\ StringsAndBitsShown /\ NothingLost /\ ThreadsShown
=============================================================================
