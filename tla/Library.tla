------------------------------ MODULE Library ------------------------------
(***************************************************************************)
(* The parts of the C library that have corners: splitting a string into   *)
(* words (the shell's and the boot loader's command line), sorting,        *)
(* copying memory that may overlap, strings and random numbers.  A string  *)
(* is a sequence of characters without its NUL, an array a sequence of     *)
(* what cmp compares, memory a function on addresses.                      *)
(***************************************************************************)
EXTENDS Integers, SequencesExt, FiniteSetsExt, Bitwise

----------------------------------------------------------------------------
(* Words. *)

Skip(s, k) == SubSeq(s, k + 1, Len(s))

\* How many characters at the front of s are all in accept.
StrSpn(s, accept) == Max({k \in 0..Len(s) : \A i \in 1..k : s[i] \in accept})

\* How many are none of them.
StrCspn(s, reject) == Max({k \in 0..Len(s) : \A i \in 1..k : s[i] \notin reject})

\* strtok: the first word of s, and what the next call begins with; both are
\* empty where the code has NULL.
StrTok(s, delim) ==
  LET t == Skip(s, StrSpn(s, delim))
      n == StrCspn(t, delim)
  IN  [tok |-> SubSeq(t, 1, n), last |-> Skip(t, n + 1)]

\* for (tok = strtok(s, delim); tok; tok = strtok(0, delim))
Words(s, delim) ==
  LET from[n \in 0..Len(s)] ==   \* the words of the last n characters
        LET r == StrTok(Skip(s, Len(s) - n), delim)
        IN  IF r.tok = <<>> THEN <<>> ELSE <<r.tok>> \o from[Len(r.last)]
  IN  from[Len(s)]

----------------------------------------------------------------------------
(* Sorting. *)

Swap(a, i, j) == [a EXCEPT ![i] = a[j], ![j] = a[i]]

\* The last element of a, inserted among the sorted ones before it.
Insert(s, x) ==
  LET k == Max({j \in 0..Len(s) : j = 0 \/ s[j] <= x}) IN SubSeq(s, 1, k) \o <<x>> \o Skip(s, k)

InsertionSort(a) == FoldLeft(Insert, <<>>, a)

\* The index whose element is between the two others; with equal ones, the
\* code's choice.
Med3(a, i, j, k) ==
  IF a[i] < a[j] THEN IF a[j] < a[k] THEN j ELSE IF a[i] < a[k] THEN k ELSE i
                 ELSE IF a[j] > a[k] THEN j ELSE IF a[i] < a[k] THEN i ELSE k

\* Where the element is that a is split by.
Pivot(a) ==
  LET n == Len(a)
      d == n \div 8
      m == n \div 2 + 1
  IN  IF n = 7 THEN m
      ELSE IF n <= 40 THEN Med3(a, 1, m, n)
      ELSE Med3(a, Med3(a, 1, 1 + d, 1 + 2 * d), Med3(a, m - d, m, m + d), Med3(a, n - 2 * d, n - d, n))

\* One comparison of the loop that splits b by its first element.  The equal
\* ones are gathered at both ends: b[1..pa-1] and b[pd+1..].
SplitStep(st, i) ==
  LET b == st.b
  IN  IF st.pb > st.pc THEN st
      ELSE IF b[st.pb] = b[1]
      THEN [st EXCEPT !.b = Swap(b, st.pa, st.pb), !.pa = @ + 1, !.pb = @ + 1, !.swaps = TRUE]
      ELSE IF b[st.pb] < b[1] THEN [st EXCEPT !.pb = @ + 1]
      ELSE IF b[st.pc] = b[1]
      THEN [st EXCEPT !.b = Swap(b, st.pc, st.pd), !.pd = @ - 1, !.pc = @ - 1, !.swaps = TRUE]
      ELSE IF b[st.pc] > b[1] THEN [st EXCEPT !.pc = @ - 1]
      ELSE [st EXCEPT !.b = Swap(b, st.pb, st.pc), !.pb = @ + 1, !.pc = @ - 1, !.swaps = TRUE]

Split(a) ==
  FoldLeft(SplitStep,
           [b |-> Swap(a, 1, Pivot(a)), pa |-> 2, pb |-> 2, pc |-> Len(a), pd |-> Len(a), swaps |-> FALSE], a)

\* vecswap: r elements from i on with as many from j on.
VecSwap(b, i, j, r) ==
  [k \in DOMAIN b |-> IF k \in i..i + r - 1 THEN b[k - i + j]
                      ELSE IF k \in j..j + r - 1 THEN b[k - j + i] ELSE b[k]]

\* The equal elements, from both ends to the middle.
Gather(st) ==
  LET n == Len(st.b)
      r == Min({st.pa - 1, st.pb - st.pa})
      s == Min({st.pd - st.pc, n - st.pd})
  IN  VecSwap(VecSwap(st.b, 1, st.pb - r, r), st.pb, n + 1 - s, s)

Qsort(a) ==
  LET sorted[x \in Seq(Int)] ==
        LET n == Len(x)
            st == Split(x)
            b == Gather(st)
            less == SubSeq(b, 1, st.pb - st.pa)
            more == Skip(b, n - (st.pd - st.pc))
        IN  IF n < 7 THEN InsertionSort(x)
            ELSE IF ~ st.swaps THEN InsertionSort(st.b)
            ELSE sorted[less] \o SubSeq(b, Len(less) + 1, n - Len(more)) \o sorted[more]
  IN  sorted[a]

----------------------------------------------------------------------------
(* Copying. *)

LongSize == 4

\* One rep of movs: n pieces of size bytes, from lower to higher addresses.
MovForward(mem, from, to, size, n) ==
  FoldLeft(LAMBDA m, i : [x \in DOMAIN m |->
             LET at == to + (i - 1) * size
             IN IF x \in at..at + size - 1 THEN m[x - to + from] ELSE m[x]],
           mem, [i \in 1..n |-> i])

MovBackward(mem, from, to, n) ==
  FoldLeft(LAMBDA m, i : [m EXCEPT ![to + n - i] = m[from + n - i]], mem, [i \in 1..n |-> i])

\* bcopy, and memcpy and memmove with the arguments the other way round.
Bcopy(mem, from, to, n) ==
  IF to >= from + n \/ from >= to + n \/ to < from
  THEN LET longs == n \div LongSize
           done == longs * LongSize
       IN  MovForward(MovForward(mem, from, to, LongSize, longs), from + done, to + done, 1, n - done)
  ELSE IF to = from THEN mem ELSE MovBackward(mem, from, to, n)

----------------------------------------------------------------------------
(* Characters, as numbers. *)

Sp == 32

isascii(c)  == c >= 0 /\ c <= 126
iscntrl(c)  == c < Sp \/ c > 126
isdigit(c)  == c \in 48..57
isgraph(c)  == c > Sp /\ c <= 126
islower(c)  == c \in 97..122
isprint(c)  == c >= Sp /\ c <= 126
isspace(c)  == c = Sp \/ c \in 9..13
isupper(c)  == c \in 65..90
isxdigit(c) == isdigit(c) \/ c \in 65..70 \/ c \in 97..102
isalpha(c)  == islower(c) \/ isupper(c)
isalnum(c)  == isalpha(c) \/ isdigit(c)
ispunct(c)  == isgraph(c) /\ ~ isalnum(c)
toupper(c)  == IF c \in 97..122 THEN c - 97 + 65 ELSE c
tolower(c)  == IF c \in 65..90 THEN c - 65 + 97 ELSE c

----------------------------------------------------------------------------
(* Strings: a char is a number from -128 to 127, and 0 ends a string in    *)
(* memory.  Comparing and looking take the strings without their NUL;      *)
(* what is found is an index, and 0 is NULL.                               *)

CharAt(s, i) == IF i <= Len(s) THEN s[i] ELSE 0

FirstDifference(s, t) == Min({i \in 1..Len(s) + 1 : i > Len(s) \/ i > Len(t) \/ s[i] # CharAt(t, i)})

\* strcmp has unsigned characters, strncmp has not.
StrCmp(s, t) ==
  LET i == FirstDifference(s, t) IN (CharAt(s, i) % 256) - (CharAt(t, i) % 256)

StrNCmp(s, t, n) ==
  LET i == FirstDifference(s, t) IN IF i > n THEN 0 ELSE CharAt(s, i) - CharAt(t, i)

Found(S) == IF S = {} THEN 0 ELSE Min(S)

StrChr(s, c)  == Found({i \in 1..Len(s) + 1 : CharAt(s, i) = c})
StrRChr(s, c) == Max({i \in 0..Len(s) : i = 0 \/ s[i] = c})   \* never the NUL
RIndex(s, c)  == Max({i \in 0..Len(s) + 1 : i = 0 \/ CharAt(s, i) = c})
StrPBrk(s, t) == Found({i \in DOMAIN s : s[i] \in ToSet(t)})

StrStr(haystack, needle) ==
  Found({i \in 1..Len(haystack) - Len(needle) + 1 : SubSeq(haystack, i, i + Len(needle) - 1) = needle})

StrLen(m, s) == Min({a \in DOMAIN m : a >= s /\ m[a] = 0}) - s

TextAt(m, s) == [i \in 1..StrLen(m, s) |-> m[s + i - 1]]

Stored(m, at, bytes) ==
  [a \in DOMAIN m |-> IF a \in at..at + Len(bytes) - 1 THEN bytes[a - at + 1] ELSE m[a]]

MemSet(m, to, c, len) == Stored(m, to, [i \in 1..len |-> c])

StrCpy(m, to, from) == Stored(m, to, Append(TextAt(m, from), 0))

StrNCpy(m, to, from, count) ==
  Stored(m, to, [i \in 1..count |-> IF i <= StrLen(m, from) THEN m[from + i - 1] ELSE 0])

StrCat(m, s, add) == Stored(m, s + StrLen(m, s), Append(TextAt(m, add), 0))

\* Mutant: n counts the NUL.
StrNCatShort(m, dst, src, n) ==
  LET k == Max({0, Min({n - 1, StrLen(m, src)})})
  IN  Stored(m, dst + StrLen(m, dst), Append(SubSeq(TextAt(m, src), 1, k), 0))

StrNCat(m, dst, src, n) ==
  IF n = 0 THEN m
  ELSE LET k == Min({n, StrLen(m, src)})
       IN  Stored(m, dst + StrLen(m, dst), Append(SubSeq(TextAt(m, src), 1, k), 0))

\* strdup: malloc returns 0 or where there is room for the string.
StrDup(m, src, buf) == [ret |-> buf, mem |-> IF buf = 0 THEN m ELSE StrCpy(m, buf, src)]

----------------------------------------------------------------------------
(* Random numbers: p has the sizes and constants of the generator.         *)

\* ^
Either(x, y) == x ^^ y

\* sgenrand
SGenRand(p, seed) ==
  LET mt[i \in 0..p.n - 1] == IF i = 0 THEN seed % 2 ^ p.w ELSE (69069 * mt[i - 1]) % 2 ^ p.w IN mt

\* The upper bit of one word and the lower ones of the next.
Joined(p, x, y) == x - (x % 2 ^ (p.w - 1)) + (y % 2 ^ (p.w - 1))

Mag01(p, y) == IF y % 2 = 1 THEN p.a ELSE 0

Twisted(p, from, y) == Either(Either(from, y \div 2), Mag01(p, y))

\* genrand's loops: all words anew, each from old ones and, from n - m on,
\* new ones.
Reload(p, mt) ==
  FoldLeftDomain(LAMBDA t, i : LET kk == i - 1 IN
                   [t EXCEPT ![kk] = Twisted(p, t[(kk + p.m) % p.n], Joined(p, t[kk], t[(kk + 1) % p.n]))],
                 mt, [i \in 1..p.n |-> i])

\* TEMPERING_SHIFT_U and the others
Tempered(p, y) ==
  LET u == Either(y, y \div 2 ^ p.u)
      s == Either(u, ((u * 2 ^ p.s) % 2 ^ p.w) & p.b)
      t == Either(s, ((s * 2 ^ p.t) % 2 ^ p.w) & p.c)
  IN  Either(t, t \div 2 ^ p.l)

DefaultSeed == 4357

\* genrand: mti = n + 1 before the first seed.
GenRand(p, g) ==
  LET seeded == IF g.mti = p.n + 1 THEN SGenRand(p, DefaultSeed) ELSE g.mt
      full == IF g.mti >= p.n THEN [mt |-> Reload(p, seeded), mti |-> 0] ELSE g
  IN  [ret |-> Tempered(p, full.mt[full.mti]), mt |-> full.mt, mti |-> full.mti + 1]

Unseeded(p) == [ret |-> 0, mt |-> [i \in 0..p.n - 1 |-> 0], mti |-> p.n + 1]

\* rand, with words of w bits whose upper w - k go to the end.
Rand(seed, w, add, k) ==
  LET rotated == ((seed[1] * 2 ^ k) % 2 ^ w) + seed[1] \div 2 ^ (w - k)
      first == (seed[0] + add + rotated) % 2 ^ w
  IN  [ret |-> first % 2 ^ (w - 1), seed |-> [i \in 0..1 |-> IF i = 0 THEN first ELSE (seed[1] + first) % 2 ^ w]]

SRand(new_seed) == [i \in 0..1 |-> new_seed]

----------------------------------------------------------------------------
\* The words are the longest pieces of the string without delimiters, in
\* order: no other character is lost, and none is split (strtok.c).
WordsAreRight(Strings, delim) ==
  \A s \in Strings :
    LET w == Words(s, delim)
    IN  /\ \A i \in DOMAIN w : w[i] # <<>> /\ ToSet(w[i]) \cap delim = {}
        /\ FlattenSeq(w) = SelectSeq(s, LAMBDA c : c \notin delim)
        /\ Len(w) = Cardinality({i \in DOMAIN s : s[i] \notin delim /\ (i = 1 \/ s[i - 1] \in delim)})

\* The array is sorted and no element is lost or doubled, wherever the pivot
\* falls and however many elements equal it (qsort.c).
SortsRight(Arrays) ==
  \A a \in Arrays :
    LET b == Qsort(a)
    IN  /\ Len(b) = Len(a)
        /\ \A i \in 1..Len(b) - 1 : b[i] <= b[i + 1]
        /\ \A x \in ToSet(a) \cup ToSet(b) :
             Cardinality({i \in DOMAIN a : a[i] = x}) = Cardinality({i \in DOMAIN b : b[i] = x})

\* The bytes that arrive are those that were there before the copy, however
\* source and target overlap, and no other byte changes (bcopy.S).
CopiesRight(Top, Most) ==
  \A from, to \in 0..Top - Most, n \in 0..Most :
    LET mem == [x \in 0..Top |-> x]
    IN  Bcopy(mem, from, to, n) =
          [x \in 0..Top |-> IF x \in to..to + n - 1 THEN x - to + from ELSE x]

\* Arrays that a plain choice of the pivot is bad at, of n elements.
Patterns(n) ==
  {[i \in 1..n |-> i], [i \in 1..n |-> n - i], [i \in 1..n |-> 0], [i \in 1..n |-> (i * 5) % 7],
   [i \in 1..n |-> i % 2], [i \in 1..n |-> IF 2 * i < n THEN i ELSE n - i]}

\* A character is exactly one of a control character, the blank, a digit, a
\* letter and a mark; the rest of the classes and the other case follow
\* (ctype.c).
ClassesAgree ==
  \A c \in -128..255 :
    /\ Cardinality({k \in 1..6 : <<iscntrl(c), c = Sp, isdigit(c), islower(c), isupper(c), ispunct(c)>>[k]}) = 1
    /\ isprint(c) = ~ iscntrl(c) /\ (isspace(c) => iscntrl(c) \/ c = Sp)
    /\ isprint(c) => isascii(c)
    /\ isxdigit(c) => isalnum(c) /\ (isxdigit(c) <=> isxdigit(tolower(c)))
    /\ toupper(c) # c <=> islower(c)
    /\ tolower(c) # c <=> isupper(c)
    /\ isupper(c) => islower(tolower(c)) /\ toupper(tolower(c)) = c

Sign(n) == IF n < 0 THEN -1 ELSE IF n > 0 THEN 1 ELSE 0

\* strcmp orders strings, and strncmp orders what is left of them when they
\* are cut, if no character is negative; what strstr, strchr, strrchr, rindex
\* and strpbrk find is there and is the first or last of its kind.
StringsCompared(Strings) ==
  \A s, t \in Strings :
    /\ StrCmp(s, t) = 0 <=> s = t
    /\ Sign(StrCmp(s, t)) = -Sign(StrCmp(t, s))
    /\ \A r \in Strings : StrCmp(s, t) < 0 /\ StrCmp(t, r) < 0 => StrCmp(s, r) < 0
    /\ \A n \in 0..4 :
         LET cut(x) == SubSeq(x, 1, Min({n, Len(x)}))
         IN  /\ StrNCmp(s, t, n) = 0 <=> cut(s) = cut(t)
             /\ Min(ToSet(s) \cup ToSet(t) \cup {0}) = 0 => Sign(StrNCmp(s, t, n)) = Sign(StrCmp(cut(s), cut(t)))
    /\ LET at == StrStr(s, t) IN
         IF at = 0 THEN \A u, v \in Strings : s # u \o t \o v
         ELSE IsPrefix(t, Skip(s, at - 1)) /\ \A i \in 1..at - 1 : ~ IsPrefix(t, Skip(s, i - 1))
    /\ \A c \in ToSet(t) \cup {0} :
         /\ c # 0 => StrChr(s, c) = StrStr(s, <<c>>) /\ StrRChr(s, c) = RIndex(s, c)
         /\ StrChr(s, c) <= RIndex(s, c) /\ (StrChr(s, c) = 0 <=> RIndex(s, c) = 0)
    /\ StrPBrk(s, t) = (IF StrCspn(s, ToSet(t)) = Len(s) THEN 0 ELSE StrCspn(s, ToSet(t)) + 1)

\* The copying ones: what the target holds, as a string, and that no byte
\* is written that the caller did not provide for.
StringsCopied(Strings) ==
  LET src == 10  dst == 20 IN
  \A s, t \in Strings, n \in 0..4 :
    LET zero == MemSet([a \in 0..29 |-> -1], 0, -1, 0)
        m == Stored(Stored(zero, src, Append(s, 0)), dst, Append(t, 0))
        cut == SubSeq(s, 1, Min({n, Len(s)}))
        writes(k, from, len) == \A a \in 0..29 : k[a] # m[a] => a \in from..from + len - 1
        dup == StrDup(m, src, IF n = 0 THEN 0 ELSE 2)
    IN  /\ TextAt(StrCpy(m, dst, src), dst) = s /\ writes(StrCpy(m, dst, src), dst, Len(s) + 1)
        /\ TextAt(StrCat(m, dst, src), dst) = t \o s /\ writes(StrCat(m, dst, src), dst + Len(t), Len(s) + 1)
        /\ TextAt(StrNCat(m, dst, src, n), dst) = t \o cut /\ writes(StrNCat(m, dst, src, n), dst + Len(t), n + 1)
        /\ writes(StrNCpy(m, dst, src, n), dst, n)
        /\ n > Len(s) => TextAt(StrNCpy(m, dst, src, n), dst) = s
        /\ SubSeq([i \in 1..4 |-> StrNCpy(m, dst, src, n)[dst + i - 1]], 1, Len(cut)) = cut
        /\ dup.ret # 0 => TextAt(dup.mem, dup.ret) = s /\ writes(dup.mem, dup.ret, Len(s) + 1)
        /\ dup.ret = 0 => dup.mem = m
        /\ writes(MemSet(m, dst, 7, n), dst, n)

\* The numbers are those of one endless recurrence, though the words are made
\* anew in place and a block at a time; and tempering loses none (mt19937int.c).
RandomsRight(p, blocks) ==
  LET x[k \in Nat] == IF k < p.n THEN SGenRand(p, DefaultSeed)[k]
                      ELSE Twisted(p, x[k - p.n + p.m], Joined(p, x[k - p.n], x[k - p.n + 1]))
      g[k \in Nat] == IF k = 0 THEN Unseeded(p) ELSE GenRand(p, g[k - 1])
  IN  /\ \A k \in 1..blocks * p.n : g[k].ret = Tempered(p, x[p.n + k - 1])
      /\ \A y \in 0..2 ^ p.w - 1 : Tempered(p, y) \in 0..2 ^ p.w - 1
      /\ Cardinality({Tempered(p, y) : y \in 0..2 ^ p.w - 1}) = 2 ^ p.w

\* rand goes from no two seeds to the same one.
RandIsOneToOne(w, add, k) ==
  LET words == 0..2 ^ w - 1
      seeds == [0..1 -> words]
  IN  /\ Cardinality({Rand(seed, w, add, k).seed : seed \in seeds}) = Cardinality(seeds)
      /\ \A seed \in words : Rand(SRand(seed), w, add, k).ret \in 0..2 ^ (w - 1) - 1

\* What the library's functions return is what their callers count on.
LibrarySound ==
  /\ WordsAreRight(SeqOf({"a", " ", "\t"}, 7), {" ", "\t"})
  /\ SortsRight([1..7 -> 0..2] \cup [1..8 -> 0..2] \cup UNION {Patterns(n) : n \in {3, 9, 40, 41, 50}})
  /\ CopiesRight(17, 9)
  /\ ClassesAgree
  /\ StringsCompared(SeqOf({1, 2, -1}, 3)) /\ StringsCopied(SeqOf({1, 2}, 3))
  /\ RandomsRight([n |-> 5, m |-> 2, w |-> 8, a |-> 153, u |-> 3, s |-> 2, t |-> 4, l |-> 5, b |-> 157, c |-> 236], 4)
  /\ RandIsOneToOne(5, 23, 3)
=============================================================================
