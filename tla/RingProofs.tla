----------------------------- MODULE RingProofs -----------------------------
(***************************************************************************)
(* Theorems about the kernel's two rings.  The macros of variable_queue.h  *)
(* implement lists, for any elements and any queues: what the run of       *)
(* QueueRing shows of five elements and two queues.  The keyboard's ring   *)
(* of characters implements a line buffer, for any readers and a ring of   *)
(* any size, and holds a line for every reader it is due to.               *)
(***************************************************************************)
EXTENDS QueueRing, VariableQueueProofs, Keyboard

\* Without removes.
LEMMA WithoutRemoves ==
  ASSUME NEW s \in Seq(Elems), NEW k \in 1..Len(s)
  PROVE  Without(s, k) \in Seq(Elems) /\ Removal(s, k, Without(s, k))
<1> DEFINE a == SubSeq(s, 1, k - 1)
           b == SubSeq(s, k + 1, Len(s))
<1>1. Len(s) \in Nat /\ \A i \in 1..Len(s) : s[i] \in Elems
  BY LenProperties, ElementOfSeq
<1>2. /\ a \in Seq(Elems) /\ Len(a) = k - 1
      /\ \A i \in 1..k - 1 : a[i] = s[i]
  <2>1. 1 \in Int /\ k - 1 \in Int /\ \A i \in 1..k - 1 : s[i] \in Elems
    BY <1>1
  <2>2. /\ a \in Seq(Elems)
        /\ Len(a) = IF 1 <= k - 1 THEN (k - 1) - 1 + 1 ELSE 0
        /\ \A i \in 1..(k - 1) - 1 + 1 : a[i] = s[1 + i - 1]
    BY <2>1, SubSeqProperties
  <2> QED
    BY <2>2, <1>1
<1>3. /\ b \in Seq(Elems) /\ Len(b) = Len(s) - k
      /\ \A i \in 1..Len(s) - k : b[i] = s[k + i]
  <2>1. k + 1 \in Int /\ Len(s) \in Int /\ \A i \in k + 1..Len(s) : s[i] \in Elems
    BY <1>1
  <2>2. /\ b \in Seq(Elems)
        /\ Len(b) = IF k + 1 <= Len(s) THEN Len(s) - (k + 1) + 1 ELSE 0
        /\ \A i \in 1..Len(s) - (k + 1) + 1 : b[i] = s[(k + 1) + i - 1]
    BY <2>1, SubSeqProperties
  <2> QED
    BY <2>2, <1>1
<1>4. /\ a \o b \in Seq(Elems)
      /\ Len(a \o b) = Len(a) + Len(b)
      /\ \A i \in 1..Len(a) + Len(b) : (a \o b)[i] = IF i <= Len(a) THEN a[i] ELSE b[i - Len(a)]
  BY <1>2, <1>3, ConcatProperties
<1>5. Without(s, k) = a \o b
  BY DEF Without
<1> HIDE DEF a, b
<1>6. Len(a \o b) = Len(s) - 1
  BY <1>1, <1>2, <1>3, <1>4
<1>7. ASSUME NEW i \in 1..Len(s) - 1
      PROVE  (a \o b)[i] = IF i < k THEN s[i] ELSE s[i + 1]
  <2>1. CASE i < k
    BY <2>1, <1>1, <1>2, <1>3, <1>4
  <2>2. CASE i >= k
    <3>1. i - Len(a) \in 1..Len(s) - k /\ k + (i - Len(a)) = i + 1
      BY <2>2, <1>1, <1>2
    <3>2. (a \o b)[i] = b[i - Len(a)]
      BY <2>2, <1>1, <1>2, <1>3, <1>4
    <3>3. b[i - Len(a)] = s[k + (i - Len(a))]
      BY <3>1, <1>3
    <3>4. ~ (i < k)
      BY <2>2
    <3> QED
      BY <3>1, <3>2, <3>3, <3>4
  <2>3. i < k \/ i >= k
    BY <1>1
  <2> QED
    BY <2>1, <2>2, <2>3
<1> QED
  BY <1>4, <1>5, <1>6, <1>7 DEF Removal

----------------------------------------------------------------------------
(* The invariant. *)

\* No element is on two lists.
Apart ==
  \A g, h \in Heads : \A i \in 1..Len(lists[g]), j \in 1..Len(lists[h]) :
    lists[g][i] = lists[h][j] => g = h

\* An element on no list is linked to itself.
Unlinked == \A e \in Elems : Alone(e) => QElemStandAlone(q, e)

RInv == RTypeOK /\ LinksAreLists /\ Apart /\ Unlinked

\* RInv, in the words of the lemmas about the macros.
LEMMA RInvIsRings ==
  /\ RInv <=> Rings(q, lists)
  /\ \A e : Alone(e) <=> Free(lists, e)
BY DEF RInv, RTypeOK, LinksAreLists, Apart, Unlinked, Rings, ApartIn, UnlinkedIn, Alone, OnList, Free, Holds

\* Nobody is queued in the beginning.
LEMMA RInitInv == RInit => RInv
BY InitialRings, RInvIsRings DEF RInit

\* Every operation of the macros keeps the invariant.
LEMMA RNextInv == RInv /\ [RNext]_rvars => RInv'
<1> SUFFICES ASSUME RInv, [RNext]_rvars PROVE RInv'
  OBVIOUS
<1>1. Rings(q, lists) /\ lists \in [Heads -> Seq(Elems)]
  BY RInvIsRings DEF RInv, RTypeOK
<1>2. Rings(q', lists') => RInv'
  BY DEF RInv, RTypeOK, LinksAreLists, Apart, Unlinked, Rings, ApartIn, UnlinkedIn, Alone, OnList, Free, Holds
<1>3. ASSUME NEW h \in Heads, NEW e \in Elems, InsertTail(h, e)
      PROVE  RInv'
  BY <1>1, <1>2, <1>3, RInvIsRings, InsertTailRings DEF InsertTail
<1>4. ASSUME NEW h \in Heads, NEW e \in Elems, InsertFront(h, e)
      PROVE  RInv'
  BY <1>1, <1>2, <1>4, RInvIsRings, InsertFrontRings DEF InsertFront
<1>5. ASSUME NEW h \in Heads, NEW k \in 1..Len(lists[h]), Remove(h, k)
      PROVE  RInv'
  <2>1. lists[h] \in Seq(Elems)
    BY <1>1
  <2>2. Without(lists[h], k) \in Seq(Elems) /\ Removal(lists[h], k, Without(lists[h], k))
    BY <2>1, WithoutRemoves
  <2> QED
    BY <1>1, <1>2, <1>5, <2>2, RemoveRings DEF Remove
<1>6. ASSUME NEW h \in Heads, NEW e \in Elems, RemoveAlone(h, e)
      PROVE  RInv'
  <2>1. q' = q /\ lists' = lists
    BY <1>1, <1>6, RInvIsRings, RemoveFree DEF RemoveAlone
  <2> QED
    BY <1>1, <1>2, <2>1
<1>7. CASE UNCHANGED rvars
  BY <1>1, <1>2, <1>7 DEF rvars
<1> QED
  BY <1>3, <1>4, <1>5, <1>6, <1>7 DEF RNext

----------------------------------------------------------------------------
(* The theorems. *)

\* The invariant holds always.
THEOREM RInvHolds == RSpec => []RInv
BY RInitInv, RNextInv, PTL DEF RSpec

\* Type correctness of links and lists, for any finite heads and elements.
THEOREM RTypeCorrect == RSpec => []RTypeOK
<1>1. RInv => RTypeOK
  BY DEF RInv
<1>. QED
  BY <1>1, RInvHolds, PTL

\* The links of every queue are always its list: the macros of
\* variable_queue.h implement lists, however many queues share a link field.
THEOREM LinksAreListsHolds == RSpec => []LinksAreLists
<1>1. RInv => LinksAreLists
  BY DEF RInv
<1> QED
  BY <1>1, RInvHolds, PTL

\* An element is linked to itself exactly when no queue has it, so that a
\* removal tells the two apart.
THEOREM AloneIsStandAloneHolds == RSpec => []AloneIsStandAlone
<1>1. RInv => AloneIsStandAlone
  <2> SUFFICES ASSUME RInv, NEW e \in Elems, ~ Alone(e)
               PROVE  ~ QElemStandAlone(q, e)
    BY DEF RInv, Unlinked, AloneIsStandAlone
  <2>1. PICK h \in Heads : \E i \in 1..Len(lists[h]) : lists[h][i] = e
    BY DEF Alone, OnList
  <2>2. Rings(q, lists)
    BY RInvIsRings
  <2> QED
    BY <2>1, <2>2, Neighbours
<1> QED
  BY <1>1, RInvHolds, PTL

\* Queues are lists, and an element that is on none is known by its links.
THEOREM RingsSoundHold == RSpec => []RingsSound
BY LinksAreListsHolds, AloneIsStandAloneHolds, PTL DEF RingsSound

----------------------------------------------------------------------------
(* The keyboard's ring. *)

KPlaces == {"user", "test", "take", "store", "wrap", "return"}
Given == Keys \cup {Nul}

\* The threads that wait on a semaphore.
Queued(s) == {s.queue[i] : i \in DOMAIN s.queue}

\* The shape of the state, in the form that steps keep.
KBTypeOK ==
  /\ keys_ring_buffer \in [Index -> Given]
  /\ keys_head \in -1..(Size - 1) /\ keys_tail \in 0..Size
  /\ pc \in [Readers -> KPlaces]
  /\ call \in [Readers -> {"none", "char", "line", "drain"}]
  /\ left \in [Readers -> Int] /\ slot \in [Readers -> Index]
  /\ curr_char \in [Readers -> Given \cup {None}]
  /\ keyb_char \in [Readers -> Given \cup {NoChar, None}]
  /\ strayed \in BOOLEAN /\ lineLost \in BOOLEAN

SemShapeOK(s) ==
  /\ s \in [count : Int, queue : Seq(Readers)]
  /\ Len(s.queue) = IF s.count < 0 THEN -s.count ELSE 0

\* Who waits, and for what: nobody ever finds a line signalled already.
SemsOK ==
  /\ SemShapeOK(wait_for_chars) /\ SemShapeOK(wait_for_readline)
  /\ wait_for_readline.count =< 0
  /\ \A t \in Queued(wait_for_chars) : call[t] = "char" /\ pc[t] = "test"
  /\ \A t \in Queued(wait_for_readline) : call[t] \in {"line", "drain"} /\ pc[t] \in {"test", "return"}

\* What a reader's place says of its call.
CallsOK ==
  \A t \in Readers :
    /\ pc[t] = "user" <=> call[t] = "none"
    /\ pc[t] = "wrap" => keyb_char[t] \in Given

\* Until two of them meet, one reader at most is inside the ring, and what it
\* has loaded is what is there.
RingOK ==
  /\ keys_tail = Size => \E t \in Readers : pc[t] = "wrap"
  /\ ~ strayed =>
       /\ keys_head >= 0
       /\ \A t, u \in Readers : InDequeue(t) /\ InDequeue(u) => t = u
       /\ \A t \in Readers :
            /\ pc[t] \in {"take", "store"} => keys_tail \in Index /\ keys_head # keys_tail
            /\ pc[t] = "store" => slot[t] = keys_tail /\ curr_char[t] = keys_ring_buffer[keys_tail]

----------------------------------------------------------------------------
(* The ring as a line of characters. *)

\* Typed, of any buffer and indices.
Line(b, h, tl) == [i \in 1..((h - tl) % Size) |-> b[(tl + i - 1) % Size]]

\* How many characters there are, and where each of them is.
Held(h, tl) == IF tl = Size THEN h ELSE IF h >= tl THEN h - tl ELSE h - tl + Size
Place(tl, i) == IF tl + i <= Size THEN tl + i - 1 ELSE tl + i - 1 - Size
Text(b, h, tl) == [i \in 1..Held(h, tl) |-> b[Place(tl, i)]]

LEMMA Remainder ==
  ASSUME NEW S \in Nat, S > 0, NEW r \in 0..(S - 1), NEW x \in Int,
         x = r \/ x = r - S \/ x = r + S
  PROVE  x % S = r
<1>1. CASE x = r
  BY <1>1
<1>2. CASE x = r - S
  BY <1>2
<1>3. CASE x = r + S
  BY <1>3
<1> QED
  BY <1>1, <1>2, <1>3

LEMMA NextIndex ==
  ASSUME NEW h \in Index
  PROVE  /\ Rem(h + 1) = IF h = Size - 1 THEN 0 ELSE h + 1
         /\ Rem(h - 1) = h - 1
<1>1. Size \in Nat /\ Size > 1 /\ h \in 0..(Size - 1)
  BY KeyboardAssumption DEF Index
<1>2. (h + 1) % Size = IF h = Size - 1 THEN 0 ELSE h + 1
  <2>1. CASE h = Size - 1
    BY <1>1, <2>1, Remainder
  <2>2. CASE h # Size - 1
    BY <1>1, <2>2, Remainder
  <2> QED
    BY <2>1, <2>2
<1>3. CASE h = 0
  <2>1. 1 % Size = 1
    BY <1>1, Remainder
  <2> QED
    BY <1>1, <1>2, <1>3, <2>1 DEF Rem
<1>4. CASE h # 0
  <2>1. (h - 1) % Size = h - 1
    BY <1>1, <1>4, Remainder
  <2> QED
    BY <1>1, <1>2, <1>4, <2>1 DEF Rem
<1> QED
  BY <1>3, <1>4

LEMMA LineIs ==
  ASSUME NEW b, NEW h \in Index, NEW tl \in 0..Size
  PROVE  /\ Held(h, tl) \in 0..(Size - 1)
         /\ Held(h, tl) = 0 <=> h = tl \/ (h = 0 /\ tl = Size)
         /\ \A i \in 1..Held(h, tl) : Place(tl, i) \in Index
         /\ Line(b, h, tl) = Text(b, h, tl)
<1>1. Size \in Nat /\ Size > 1 /\ h \in 0..(Size - 1) /\ Index = 0..(Size - 1)
  BY KeyboardAssumption DEF Index
<1>2. Held(h, tl) \in 0..(Size - 1) /\ (Held(h, tl) = 0 <=> h = tl \/ (h = 0 /\ tl = Size))
  BY <1>1 DEF Held
<1>3. (h - tl) % Size = Held(h, tl)
  <2>1. h - tl = Held(h, tl) \/ h - tl = Held(h, tl) - Size
    BY <1>1 DEF Held
  <2>2. h - tl \in Int
    BY <1>1
  <2> QED
    BY <1>1, <1>2, <2>1, <2>2, Remainder
<1>4. ASSUME NEW i \in 1..Held(h, tl)
      PROVE  Place(tl, i) \in Index /\ (tl + i - 1) % Size = Place(tl, i)
  <2>1. i \in 1..(Size - 1)
    BY <1>1, <1>2
  <2>2. Place(tl, i) \in 0..(Size - 1) /\ tl + i - 1 \in Int
    BY <1>1, <2>1 DEF Place
  <2>3. tl + i - 1 = Place(tl, i) \/ tl + i - 1 = Place(tl, i) + Size
    BY <1>1, <2>1 DEF Place
  <2> QED
    BY <1>1, <2>2, <2>3, Remainder
<1> QED
  BY <1>2, <1>3, <1>4 DEF Line, Text

\* A key is typed into a ring that has room.
LEMMA LineGrows ==
  ASSUME NEW b \in [Index -> Given], NEW h \in Index, NEW tl \in 0..Size, NEW k \in Given,
         NEW g \in Index, g = Rem(h + 1), g # tl, ~ (tl = Size /\ h = Size - 1),
         NEW c, \A i \in Index : c[i] = IF i = h THEN k ELSE b[i]
  PROVE  Held(h, tl) # Size - 1 /\ Line(c, g, tl) = Append(Line(b, h, tl), k)
<1> DEFINE n == Held(h, tl)
<1>1. Size \in Nat /\ Size > 1 /\ h \in 0..(Size - 1) /\ Index = 0..(Size - 1)
  BY KeyboardAssumption DEF Index
<1>2. g = IF h = Size - 1 THEN 0 ELSE h + 1
  BY NextIndex
<1>4. n \in 0..(Size - 1) /\ Line(b, h, tl) = [i \in 1..n |-> b[Place(tl, i)]]
  BY LineIs DEF Text
<1>5. Held(g, tl) = n + 1 /\ n # Size - 1 /\ Place(tl, n + 1) = h
  BY <1>1, <1>2 DEF Held, Place
<1>6. /\ Line(c, g, tl) = [i \in 1..(n + 1) |-> c[Place(tl, i)]]
      /\ \A i \in 1..(n + 1) : Place(tl, i) \in Index
  <2>1. Line(c, g, tl) = Text(c, g, tl) /\ \A i \in 1..Held(g, tl) : Place(tl, i) \in Index
    BY LineIs
  <2> QED
    BY <2>1, <1>5 DEF Text
<1>7. ASSUME NEW i \in 1..n
      PROVE  Place(tl, i) # h
  BY <1>1, <1>4, <1>7 DEF Held, Place
<1> HIDE DEF n
<1>8. \A i \in 1..n : i \in 1..(n + 1) /\ c[Place(tl, i)] = b[Place(tl, i)]
  <2> TAKE i \in 1..n
  <2>1. i \in 1..(n + 1)
    BY <1>4
  <2> QED
    BY <2>1, <1>6, <1>7
<1>9. c[Place(tl, n + 1)] = k
  BY <1>1, <1>5
<1>10. Append([i \in 1..n |-> b[Place(tl, i)]], k) = [i \in 1..(n + 1) |-> c[Place(tl, i)]]
  <2> DEFINE s == [i \in 1..n |-> b[Place(tl, i)]]
  <2>1. n \in Nat /\ \A i \in 1..n : b[Place(tl, i)] \in Given
    <3>1. \A i \in 1..n : Place(tl, i) \in Index
      BY LineIs DEF n
    <3> QED
      BY <3>1, <1>4
  <2>2. s \in Seq(Given) /\ Len(s) = n /\ DOMAIN s = 1..n /\ \A i \in 1..n : s[i] = b[Place(tl, i)]
    BY <2>1
  <2> HIDE DEF s
  <2>3. /\ Append(s, k) \in Seq(Given \cup {k}) /\ Len(Append(s, k)) = n + 1
        /\ \A i \in 1..n : Append(s, k)[i] = s[i]
        /\ Append(s, k)[n + 1] = k
    <3>1. s \in Seq(Given \cup {k}) /\ k \in Given \cup {k}
      BY <2>2
    <3> QED
      BY <3>1, <2>2, AppendProperties
  <2>4. Append(s, k) = [i \in 1..(n + 1) |-> Append(s, k)[i]]
    BY <2>3, LenProperties
  <2>5. \A i \in 1..(n + 1) : Append(s, k)[i] = c[Place(tl, i)]
    <3> TAKE i \in 1..(n + 1)
    <3>1. i = n + 1 \/ i \in 1..n
      BY <2>1
    <3> QED
      BY <3>1, <2>1, <2>2, <2>3, <1>8, <1>9
  <2> QED
    BY <2>4, <2>5 DEF s
<1> QED
  BY <1>4, <1>5, <1>6, <1>10 DEF n

\* The last character is erased.
LEMMA LineShrinks ==
  ASSUME NEW b \in [Index -> Given], NEW h \in Index, NEW tl \in 0..Size,
         h # tl, h > 0, NEW n \in Nat, n = Held(h, tl),
         NEW g \in Index, g = h - 1, NEW c, \A i \in Index : c[i] = IF i = g THEN Nul ELSE b[i]
  PROVE  /\ n > 0 /\ Line(c, g, tl) = SubSeq(Line(b, h, tl), 1, n - 1)
         /\ Line(b, h, tl)[n] = b[g]
<1>1. /\ Size \in Nat /\ Size > 1 /\ h \in 1..(Size - 1) /\ Index = 0..(Size - 1)
      /\ g \in Index /\ g = h - 1
  BY KeyboardAssumption DEF Index
<1>2. /\ n \in 0..(Size - 1) /\ n > 0 /\ \A i \in 1..n : Place(tl, i) \in Index
      /\ Line(b, h, tl) = [i \in 1..n |-> b[Place(tl, i)]]
  <2>1. /\ n \in 0..(Size - 1) /\ (n = 0 <=> h = tl \/ (h = 0 /\ tl = Size))
        /\ \A i \in 1..n : Place(tl, i) \in Index
        /\ Line(b, h, tl) = [i \in 1..n |-> b[Place(tl, i)]]
    BY LineIs DEF Text
  <2>2. n # 0
    BY <2>1, <1>1
  <2> QED
    BY <2>1, <2>2, <1>1
<1>3. Held(g, tl) = n - 1 /\ Place(tl, n) = g
  BY <1>1 DEF Held, Place
<1>4. Line(c, g, tl) = [i \in 1..(n - 1) |-> c[Place(tl, i)]]
  <2>1. Line(c, g, tl) = Text(c, g, tl)
    BY <1>1, LineIs
  <2> QED
    BY <2>1, <1>3 DEF Text
<1>5. \A i \in 1..(n - 1) : i \in 1..n /\ Place(tl, i) # g
  BY <1>1, <1>2 DEF Held, Place
<1>6. \A i \in 1..(n - 1) : c[Place(tl, i)] = b[Place(tl, i)]
  BY <1>2, <1>5
<1>7. SubSeq([i \in 1..n |-> b[Place(tl, i)]], 1, n - 1) = [i \in 1..(n - 1) |-> b[Place(tl, i)]]
  <2> DEFINE s == [i \in 1..n |-> b[Place(tl, i)]]
  <2>1. SubSeq(s, 1, n - 1) = [i \in 1..(n - 1) |-> s[1 + i - 1]]
    BY <1>2
  <2>2. \A i \in 1..(n - 1) : 1 + i - 1 = i /\ s[1 + i - 1] = b[Place(tl, i)]
    BY <1>2, <1>5
  <2> HIDE DEF s
  <2>3. [i \in 1..(n - 1) |-> s[1 + i - 1]] = [i \in 1..(n - 1) |-> b[Place(tl, i)]]
    BY <2>2
  <2> QED
    BY <2>1, <2>3 DEF s
<1>8. Line(b, h, tl)[n] = b[g]
  BY <1>2, <1>3
<1>9. [i \in 1..(n - 1) |-> c[Place(tl, i)]] = [i \in 1..(n - 1) |-> b[Place(tl, i)]]
  BY <1>6
<1>10. Line(c, g, tl) = SubSeq(Line(b, h, tl), 1, n - 1)
  BY <1>2, <1>4, <1>7, <1>9
<1> QED
  BY <1>1, <1>2, <1>8, <1>10

\* The line is a sequence.
LEMMA LineSeq ==
  ASSUME NEW b \in [Index -> Given], NEW h \in Index, NEW tl \in 0..Size
  PROVE  /\ Line(b, h, tl) \in Seq(Given)
         /\ Len(Line(b, h, tl)) = Held(h, tl)
         /\ DOMAIN Line(b, h, tl) = 1..Held(h, tl)
<1>1. /\ Held(h, tl) \in 0..(Size - 1) /\ Line(b, h, tl) = Text(b, h, tl)
      /\ \A i \in 1..Held(h, tl) : Place(tl, i) \in Index
  BY LineIs
<1>2. PICK n \in Nat : n = Held(h, tl)
  BY <1>1, KeyboardAssumption
<1>3. Text(b, h, tl) \in [1..n -> Given]
  BY <1>1, <1>2 DEF Text
<1> QED
  BY <1>1, <1>2, <1>3

\* The first character is taken.
LEMMA LineTaken ==
  ASSUME NEW b \in [Index -> Given], NEW h \in Index, NEW tl \in Index, h # tl
  PROVE  /\ Line(b, h, tl) # <<>>
         /\ Line(b, h, tl + 1) = Tail(Line(b, h, tl))
         /\ Line(b, h, tl)[1] = b[tl]
         /\ Head(Line(b, h, tl)) = b[tl]
<1> DEFINE n == Held(h, tl)
<1>1. /\ Size \in Nat /\ Size > 1 /\ Index = 0..(Size - 1)
      /\ h \in 0..(Size - 1) /\ tl \in 0..(Size - 1)
  BY KeyboardAssumption DEF Index
<1>2. PICK t \in 0..Size : t = tl
  BY <1>1
<1>3. PICK u \in 0..Size : u = tl + 1
  BY <1>1
<1>4. /\ n \in 0..(Size - 1) /\ (n = 0 <=> h = t \/ (h = 0 /\ t = Size))
      /\ \A i \in 1..n : Place(t, i) \in Index
      /\ Line(b, h, t) = Text(b, h, t) /\ Line(b, h, u) = Text(b, h, u)
      /\ Line(b, h, t) \in Seq(Given) /\ Len(Line(b, h, t)) = n
  BY <1>2, LineIs, LineSeq
<1>5. n > 0
  BY <1>1, <1>2, <1>4
<1>6. Held(h, u) = n - 1 /\ Place(tl, 1) = tl
  BY <1>1, <1>3 DEF Held, Place
<1>7. \A i \in 1..(n - 1) : Place(u, i) = Place(tl, i + 1)
  BY <1>1, <1>3, <1>4 DEF Held, Place
<1> HIDE DEF n
<1>8. \A i \in 1..(n - 1) : i + 1 \in 1..n
  BY <1>4
<1>9. Line(b, h, tl)[1] = b[tl]
  <2>1. 1 \in 1..n
    BY <1>4, <1>5
  <2> QED
    BY <2>1, <1>2, <1>4, <1>6 DEF n, Text
<1>10. Tail(Line(b, h, tl)) = [i \in 1..(n - 1) |-> Line(b, h, tl)[i + 1]]
  <2> DEFINE s == Line(b, h, tl)
  <2>1. s \in Seq(Given) /\ Len(s) = n /\ s # <<>>
    BY <1>2, <1>4, <1>5
  <2> HIDE DEF s
  <2>2. /\ Tail(s) \in Seq(Given) /\ Len(Tail(s)) = n - 1
        /\ \A i \in 1..(n - 1) : Tail(s)[i] = s[i + 1]
    BY <2>1, HeadTailProperties
  <2>3. Tail(s) = [i \in 1..(n - 1) |-> Tail(s)[i]]
    BY <2>2, LenProperties
  <2> QED
    BY <2>2, <2>3 DEF s
<1>11. \A i \in 1..(n - 1) : Line(b, h, tl)[i + 1] = b[Place(u, i)]
  BY <1>2, <1>4, <1>7, <1>8 DEF n, Text
<1>12. Line(b, h, u) = [i \in 1..(n - 1) |-> b[Place(u, i)]]
  BY <1>4, <1>6 DEF Text
<1>13. Line(b, h, tl + 1) = Tail(Line(b, h, tl))
  BY <1>3, <1>10, <1>11, <1>12
<1>14. Line(b, h, tl) # <<>>
  BY <1>2, <1>4, <1>5
<1> QED
  BY <1>9, <1>13, <1>14

\* The index of readers is wrapped.
LEMMA LineWraps ==
  ASSUME NEW b, NEW h \in Index, NEW tl \in 0..Size
  PROVE  /\ tl % Size \in Index
         /\ tl % Size = IF tl = Size THEN 0 ELSE tl
         /\ Line(b, h, tl % Size) = Line(b, h, tl)
<1>1. /\ Size \in Nat /\ Size > 1 /\ h \in 0..(Size - 1) /\ Index = 0..(Size - 1)
  BY KeyboardAssumption DEF Index
<1>2. tl % Size = IF tl = Size THEN 0 ELSE tl
  <2>1. CASE tl = Size
    BY <1>1, <2>1, Remainder
  <2>2. CASE tl # Size
    BY <1>1, <2>2, Remainder
  <2> QED
    BY <2>1, <2>2
<1>3. CASE tl = Size
  <2>1. PICK z \in 0..Size : z = 0
    BY <1>1
  <2>2. Held(h, z) = Held(h, tl) /\ Held(h, tl) \in 0..(Size - 1)
    BY <1>1, <1>3, <2>1 DEF Held
  <2>3. \A i \in 1..Held(h, tl) : Place(z, i) = Place(tl, i)
    BY <1>1, <1>3, <2>1, <2>2 DEF Place
  <2>4. Text(b, h, z) = Text(b, h, tl)
    BY <2>2, <2>3 DEF Text
  <2>5. Line(b, h, z) = Line(b, h, tl)
    BY <2>4, LineIs
  <2> QED
    BY <1>1, <1>2, <1>3, <2>1, <2>5
<1>4. CASE tl # Size
  BY <1>1, <1>2, <1>4
<1> QED
  BY <1>3, <1>4

----------------------------------------------------------------------------
(* The lines typed. *)

\* LinesTyped, of any sequence.
Newlines(s) == {i \in DOMAIN s : s[i] = Newline}

LEMMA NewlinesFinite ==
  ASSUME NEW T, NEW s \in Seq(T)
  PROVE  IsFiniteSet(Newlines(s)) /\ Cardinality(Newlines(s)) \in Nat
<1>1. IsFiniteSet(1..Len(s))
  BY LenProperties, FS_Interval
<1>2. Newlines(s) \subseteq 1..Len(s)
  BY LenProperties DEF Newlines
<1> QED
  BY <1>1, <1>2, FS_Subset, FS_CardinalityType

LEMMA NewlinesOfAppend ==
  ASSUME NEW T, NEW s \in Seq(T), NEW k \in T
  PROVE  Cardinality(Newlines(Append(s, k))) = Cardinality(Newlines(s)) + (IF k = Newline THEN 1 ELSE 0)
<1>1. PICK n \in Nat : n = Len(s)
  BY LenProperties
<1>2. /\ DOMAIN s = 1..n /\ DOMAIN Append(s, k) = 1..(n + 1)
      /\ \A i \in 1..n : Append(s, k)[i] = s[i]
      /\ Append(s, k)[n + 1] = k
  BY <1>1, AppendProperties, LenProperties
<1>3. CASE k = Newline
  <2>1. Newlines(Append(s, k)) = Newlines(s) \cup {n + 1} /\ n + 1 \notin Newlines(s)
    BY <1>2, <1>3 DEF Newlines
  <2> QED
    BY <2>1, <1>3, NewlinesFinite, FS_AddElement
<1>4. CASE k # Newline
  <2>1. Newlines(Append(s, k)) = Newlines(s)
    BY <1>2, <1>4 DEF Newlines
  <2> QED
    BY <2>1, <1>4, NewlinesFinite
<1> QED
  BY <1>3, <1>4

LEMMA NewlinesOfFront ==
  ASSUME NEW T, NEW s \in Seq(T), NEW n \in Nat, n = Len(s), n > 0, s[n] # Newline
  PROVE  Newlines(SubSeq(s, 1, n - 1)) = Newlines(s)
<1>1. DOMAIN s = 1..n
  BY LenProperties
<1>2. SubSeq(s, 1, n - 1) = [i \in 1..(n - 1) |-> s[1 + i - 1]]
  OBVIOUS
<1>3. \A i \in 1..(n - 1) : 1 + i - 1 = i
  OBVIOUS
<1>4. \A i \in 1..n : i \in 1..(n - 1) \/ i = n
  OBVIOUS
<1> QED
  BY <1>1, <1>2, <1>3, <1>4 DEF Newlines

LEMMA NewlinesOfTail ==
  ASSUME NEW T, NEW s \in Seq(T), s # <<>>
  PROVE  Cardinality(Newlines(Tail(s))) = Cardinality(Newlines(s)) - (IF s[1] = Newline THEN 1 ELSE 0)
<1>1. PICK n \in Nat : n = Len(s)
  BY LenProperties
<1>2. /\ Tail(s) \in Seq(T) /\ DOMAIN s = 1..n /\ n > 0 /\ DOMAIN Tail(s) = 1..(n - 1)
      /\ \A i \in 1..(n - 1) : Tail(s)[i] = s[i + 1]
  <2>1. Tail(s) \in Seq(T) /\ Len(Tail(s)) = n - 1 /\ \A i \in 1..(n - 1) : Tail(s)[i] = s[i + 1]
    BY <1>1, HeadTailProperties
  <2>2. DOMAIN s = 1..n /\ DOMAIN Tail(s) = 1..(n - 1)
    BY <1>1, <2>1, LenProperties
  <2>3. n # 0
    BY <1>1, EmptySeq
  <2> QED
    BY <2>1, <2>2, <2>3
<1> DEFINE R == Newlines(s) \ {1}
           f == [i \in Newlines(Tail(s)) |-> i + 1]
<1>3. f \in Bijection(Newlines(Tail(s)), R)
  <2>1. \A i \in Newlines(Tail(s)) : i \in 1..(n - 1) /\ i + 1 \in R
    BY <1>2 DEF Newlines
  <2>2. \A j \in R : j - 1 \in Newlines(Tail(s)) /\ f[j - 1] = j
    BY <1>2 DEF Newlines
  <2> DEFINE N == Newlines(Tail(s))
  <2>3. f \in [N -> R]
    BY <2>1
  <2>4. \A i, j \in N : f[i] = f[j] => i = j
    BY <2>1
  <2>5. \A j \in R : \E i \in N : f[i] = j
    BY <2>2
  <2> HIDE DEF N, R, f
  <2>6. f \in Injection(N, R) /\ f \in Surjection(N, R)
    BY <2>3, <2>4, <2>5 DEF Injection, IsInjective, Surjection
  <2> QED
    BY <2>6 DEF Bijection, N
<1>4. Cardinality(R) = Cardinality(Newlines(Tail(s)))
  <2>1. ExistsBijection(Newlines(Tail(s)), R)
    BY <1>3 DEF ExistsBijection
  <2>2. IsFiniteSet(Newlines(Tail(s)))
    BY <1>2, NewlinesFinite
  <2> HIDE DEF R
  <2> QED
    BY <2>1, <2>2, FS_Bijection
<1>5. 1 \in Newlines(s) <=> s[1] = Newline
  BY <1>2 DEF Newlines
<1>6. CASE s[1] = Newline
  <2>1. Cardinality(R) = Cardinality(Newlines(s)) - 1
    BY <1>5, <1>6, NewlinesFinite, FS_RemoveElement
  <2> QED
    BY <1>4, <1>6, <2>1
<1>7. CASE s[1] # Newline
  <2>1. R = Newlines(s)
    BY <1>5, <1>7
  <2>2. Cardinality(Newlines(s)) \in Nat
    BY NewlinesFinite
  <2>3. Cardinality(Newlines(Tail(s))) = Cardinality(Newlines(s))
    BY <1>4, <2>1
  <2> QED
    BY <1>7, <2>2, <2>3
<1> QED
  BY <1>6, <1>7

----------------------------------------------------------------------------
(* The semaphores. *)

LEMMA WaitedQueue ==
  ASSUME NEW s, SemShapeOK(s), NEW t \in Readers
  PROVE  /\ SemShapeOK(Waited(s, t))
         /\ Waited(s, t).count = s.count - 1
         /\ Queued(s) \subseteq Queued(Waited(s, t))
         /\ Queued(Waited(s, t)) \subseteq Queued(s) \cup {t}
         /\ s.count =< 0 => t \in Queued(Waited(s, t))
<1> DEFINE w == Waited(s, t)
<1>1. s.count \in Int /\ s.queue \in Seq(Readers) /\ Len(s.queue) = IF s.count < 0 THEN -s.count ELSE 0
  BY DEF SemShapeOK
<1>2. w \in [count : Int, queue : Seq(Readers)] /\ w.count = s.count - 1
  BY <1>1, AppendProperties DEF Waited
<1>3. CASE s.count > 0
  <2>1. w.queue = s.queue
    BY <1>3 DEF Waited
  <2> QED
    BY <1>1, <1>2, <1>3, <2>1 DEF SemShapeOK, Queued
<1>4. CASE ~ (s.count > 0)
  <2> DEFINE z == s.queue
  <2>1. w.queue = Append(z, t)
    BY <1>4 DEF Waited
  <2>2. PICK n \in Nat : n = Len(z)
    BY <1>1, LenProperties
  <2>3. /\ Len(w.queue) = n + 1 /\ DOMAIN z = 1..n /\ DOMAIN w.queue = 1..(n + 1)
        /\ \A i \in 1..n : w.queue[i] = z[i]
        /\ w.queue[n + 1] = t
    BY <1>1, <2>1, <2>2, AppendProperties, LenProperties
  <2>4. n = -s.count /\ n + 1 = -w.count /\ w.count < 0
    BY <1>1, <1>2, <1>4, <2>2
  <2>5. SemShapeOK(w)
    BY <1>2, <2>3, <2>4 DEF SemShapeOK
  <2>6. \A i \in 1..n : i \in 1..(n + 1)
    OBVIOUS
  <2>7. n + 1 \in 1..(n + 1) /\ \A i \in 1..(n + 1) : i \in 1..n \/ i = n + 1
    OBVIOUS
  <2> HIDE DEF w
  <2>8. Queued(w) = Queued(s) \cup {t}
    BY <2>3, <2>6, <2>7 DEF Queued
  <2> QED
    BY <1>2, <2>5, <2>8 DEF w
<1> QED
  BY <1>3, <1>4

LEMMA SignalledQueue ==
  ASSUME NEW s, SemShapeOK(s)
  PROVE  /\ SemShapeOK(Signalled(s))
         /\ Signalled(s).count = s.count + 1
         /\ Queued(Signalled(s)) \subseteq Queued(s)
         /\ s.queue # <<>> =>
              s.count < 0 /\ \E t \in Readers : Queued(s) \subseteq Queued(Signalled(s)) \cup {t}
<1> DEFINE w == Signalled(s)
<1>1. s.count \in Int /\ s.queue \in Seq(Readers) /\ Len(s.queue) = IF s.count < 0 THEN -s.count ELSE 0
  BY DEF SemShapeOK
<1>2. s.queue # <<>> <=> s.count < 0
  BY <1>1, EmptySeq
<1>3. CASE s.queue = <<>>
  <2>1. w = [count |-> s.count + 1, queue |-> s.queue]
    BY <1>3 DEF Signalled
  <2> QED
    BY <1>1, <1>2, <1>3, <2>1 DEF SemShapeOK, Queued
<1>4. CASE s.queue # <<>>
  <2> DEFINE z == s.queue
  <2>1. w = [count |-> s.count + 1, queue |-> Tail(z)]
    BY <1>2, <1>4 DEF Signalled
  <2>2. PICK n \in Nat : n = Len(z)
    BY <1>1, LenProperties
  <2>3. /\ Tail(z) \in Seq(Readers) /\ Len(Tail(z)) = n - 1
        /\ \A i \in 1..(n - 1) : Tail(z)[i] = z[i + 1]
    BY <1>1, <1>4, <2>2, HeadTailProperties
  <2>4. DOMAIN z = 1..n /\ DOMAIN Tail(z) = 1..(n - 1)
    BY <1>1, <2>2, <2>3, LenProperties
  <2>5. n = -s.count /\ n > 0
    BY <1>1, <1>2, <1>4, <2>2
  <2>6. SemShapeOK(w)
    BY <1>1, <2>1, <2>3, <2>5 DEF SemShapeOK
  <2>7. 1 \in 1..n /\ \A i \in 1..n : i # 1 => i - 1 \in 1..(n - 1) /\ (i - 1) + 1 = i
    BY <2>5
  <2>8. \A i \in 1..(n - 1) : i + 1 \in 1..n
    BY <2>5
  <2>9. Queued(w) \subseteq Queued(s)
    BY <2>1, <2>3, <2>4, <2>8 DEF Queued
  <2>10. z[1] \in Readers
    BY <1>1, <2>2, <2>7, ElementOfSeq
  <2>11. Queued(s) \subseteq Queued(w) \cup {z[1]}
    <3>1. w.queue = Tail(z)
      BY <2>1
    <3> HIDE DEF w
    <3>2. SUFFICES ASSUME NEW i \in 1..n, i # 1
                   PROVE  z[i] \in Queued(w)
      BY <2>4 DEF Queued
    <3>3. i - 1 \in 1..(n - 1) /\ (i - 1) + 1 = i
      BY <2>7, <3>2
    <3> QED
      BY <2>3, <2>4, <3>1, <3>3 DEF Queued
  <2>12. w.count = s.count + 1
    BY <2>1
  <2> HIDE DEF w, z
  <2> QED
    BY <1>2, <1>4, <2>6, <2>9, <2>10, <2>11, <2>12 DEF w
<1> QED
  BY <1>3, <1>4

----------------------------------------------------------------------------
(* The shape of the state. *)

KBShape == KBTypeOK /\ SemsOK /\ CallsOK /\ RingOK

LEMMA KBInitShape == KBInit => KBShape
<1> SUFFICES ASSUME KBInit
             PROVE  KBShape
  OBVIOUS
<1>1. Size \in Nat /\ Size > 1 /\ 0 \in Index
  BY KeyboardAssumption DEF Index
<1>2. KBTypeOK
  <2>1. keys_ring_buffer \in [Index -> Given]
    BY DEF KBInit, Given
  <2>2. /\ pc \in [Readers -> KPlaces] /\ call \in [Readers -> {"none", "char", "line", "drain"}]
        /\ left \in [Readers -> Int] /\ slot \in [Readers -> Index]
    BY <1>1 DEF KBInit, KPlaces
  <2>3. /\ curr_char \in [Readers -> Given \cup {None}]
        /\ keyb_char \in [Readers -> Given \cup {NoChar, None}]
    BY DEF KBInit
  <2>4. keys_head \in -1..(Size - 1) /\ keys_tail \in 0..Size
    BY <1>1 DEF KBInit
  <2> QED
    BY <2>1, <2>2, <2>3, <2>4 DEF KBInit, KBTypeOK
<1>3. SemsOK
  <2>1. <<>> \in Seq(Readers) /\ Len(<<>>) = 0
    BY EmptySeq
  <2>2. DOMAIN <<>> = {}
    OBVIOUS
  <2> QED
    BY <2>1, <2>2 DEF KBInit, SemsOK, SemShapeOK, Queued
<1>4. CallsOK
  BY DEF KBInit, CallsOK
<1>5. RingOK
  BY <1>1 DEF KBInit, RingOK, InDequeue
<1> QED
  BY <1>2, <1>3, <1>4, <1>5 DEF KBShape

LEMMA WaitsIsQueued ==
  ASSUME NEW t
  PROVE  Waits(t) <=> t \in Queued(wait_for_chars) \cup Queued(wait_for_readline)
BY DEF Waits, Queued

\* A key leaves who waits, and for what, as it was.
LEMMA WakeUpSems ==
  ASSUME SemsOK, NEW k, WakeUp(k), UNCHANGED <<pc, call>>
  PROVE  SemsOK'
<1>1. SemShapeOK(wait_for_chars) /\ SemShapeOK(wait_for_readline)
  BY DEF SemsOK
<1>2. PICK c : c = wait_for_chars'
  OBVIOUS
<1>3. PICK r : r = wait_for_readline'
  OBVIOUS
<1>4. /\ SemShapeOK(c) /\ SemShapeOK(r) /\ r.count =< 0
      /\ Queued(c) \subseteq Queued(wait_for_chars)
      /\ Queued(r) \subseteq Queued(wait_for_readline)
  <2>0. wait_for_readline.count =< 0
    BY DEF SemsOK
  <2>1. CASE wait_for_readline.queue = <<>>
    <3>1. c = Signalled(wait_for_chars) /\ r = wait_for_readline
      BY <1>2, <1>3, <2>1 DEF WakeUp
    <3> QED
      BY <3>1, <2>0, <1>1, SignalledQueue
  <2>2. CASE wait_for_readline.queue # <<>> /\ k = Newline
    <3>1. c = wait_for_chars /\ r = Signalled(wait_for_readline)
      BY <1>2, <1>3, <2>2 DEF WakeUp
    <3>2. wait_for_readline.count < 0 /\ wait_for_readline.count \in Int
      BY <2>2, <1>1, SignalledQueue DEF SemShapeOK
    <3>3. /\ SemShapeOK(r) /\ r.count = wait_for_readline.count + 1
          /\ Queued(r) \subseteq Queued(wait_for_readline)
      BY <3>1, <1>1, SignalledQueue
    <3> QED
      BY <3>1, <3>2, <3>3, <1>1
  <2>3. CASE wait_for_readline.queue # <<>> /\ k # Newline
    <3>1. c = wait_for_chars /\ r = wait_for_readline
      BY <1>2, <1>3, <2>3 DEF WakeUp
    <3> QED
      BY <3>1, <2>0, <1>1
  <2> QED
    BY <2>1, <2>2, <2>3
<1>5. /\ \A t \in Queued(c) : call'[t] = "char" /\ pc'[t] = "test"
      /\ \A t \in Queued(r) : call'[t] \in {"line", "drain"} /\ pc'[t] \in {"test", "return"}
  BY <1>4 DEF SemsOK
<1> QED
  BY <1>2, <1>3, <1>4, <1>5 DEF SemsOK, SemShapeOK, Queued

\* Nor does a step of a reader that does not wait.
LEMMA OwnSems ==
  ASSUME SemsOK, UNCHANGED semvars, NEW t, ~ Waits(t),
         \A u : u # t => pc'[u] = pc[u] /\ call'[u] = call[u]
  PROVE  SemsOK'
<1>1. t \notin Queued(wait_for_chars) /\ t \notin Queued(wait_for_readline)
  BY WaitsIsQueued
<1>2. wait_for_chars' = wait_for_chars /\ wait_for_readline' = wait_for_readline
  BY DEF semvars
<1>3. /\ Queued(wait_for_chars)' = Queued(wait_for_chars)
      /\ Queued(wait_for_readline)' = Queued(wait_for_readline)
      /\ SemShapeOK(wait_for_chars)' /\ SemShapeOK(wait_for_readline)'
      /\ wait_for_readline'.count =< 0
  BY <1>2 DEF SemsOK, SemShapeOK, Queued
<1>4. \A u \in Queued(wait_for_chars) : u # t /\ call'[u] = "char" /\ pc'[u] = "test"
  BY <1>1 DEF SemsOK
<1>5. \A u \in Queued(wait_for_readline) :
        u # t /\ call'[u] \in {"line", "drain"} /\ pc'[u] \in {"test", "return"}
  BY <1>1 DEF SemsOK
<1> QED
  BY <1>3, <1>4, <1>5 DEF SemsOK

\* What a step needs of the state it starts from.
LEMMA KBShapeFacts ==
  ASSUME KBShape, ~ strayed
  PROVE  /\ Size \in Nat /\ Size > 1 /\ Index = 0..(Size - 1) /\ keys_head \in Index
         /\ keys_tail \in 0..Size
         /\ \A t \in Readers : pc[t] = "user" => ~ Waits(t)
<1>1. Size \in Nat /\ Size > 1 /\ Index = 0..(Size - 1)
  BY KeyboardAssumption DEF Index
<1>2. keys_head \in -1..(Size - 1) /\ keys_head >= 0 /\ keys_tail \in 0..Size
  BY DEF KBShape, KBTypeOK, RingOK
<1>3. \A t \in Readers : pc[t] = "user" => ~ Waits(t)
  BY WaitsIsQueued DEF KBShape, SemsOK
<1> QED
  BY <1>1, <1>2, <1>3

LEMMA KeyShape ==
  ASSUME KBShape, NEW k \in Keys, KeyDropped(k) \/ KeyStored(k) \/ (KeyErases /\ k = Backspace)
  PROVE  KBShape'
<1>1. /\ ~ strayed /\ WakeUp(k)
      /\ keys_tail' = keys_tail /\ pc' = pc /\ call' = call /\ left' = left
      /\ slot' = slot /\ curr_char' = curr_char /\ keyb_char' = keyb_char
  BY DEF KeyDropped, KeyStored, KeyErases, Key, locals
<1>2. SemsOK'
  BY <1>1, WakeUpSems DEF KBShape
<1>3. CallsOK'
  BY <1>1 DEF KBShape, CallsOK
<1>4. /\ Size \in Nat /\ Size > 1 /\ Index = 0..(Size - 1) /\ keys_head \in Index
      /\ keys_tail \in 0..Size
  BY <1>1, KBShapeFacts
<1>5. KBTypeOK /\ RingOK
  BY DEF KBShape
<1>6. CASE KeyDropped(k)
  <2>1. /\ keys_ring_buffer' = keys_ring_buffer /\ keys_head' = keys_head
        /\ strayed' = strayed /\ lineLost' \in BOOLEAN
    BY <1>5, <1>6 DEF KeyDropped, KBTypeOK
  <2>2. KBTypeOK'
    BY <1>1, <1>5, <2>1 DEF KBTypeOK
  <2>3. RingOK'
    BY <1>1, <1>5, <2>1 DEF RingOK, InDequeue
  <2> QED
    BY <1>2, <1>3, <2>2, <2>3 DEF KBShape
<1>7. CASE KeyStored(k)
  <2>1. /\ keys_ring_buffer' = [keys_ring_buffer EXCEPT ![keys_head] = k]
        /\ keys_head' = Rem(keys_head + 1) /\ Rem(keys_head + 1) # keys_tail
        /\ strayed' = (keys_tail = Size /\ keys_head = Size - 1)
        /\ lineLost' = lineLost
    BY <1>7 DEF KeyStored, LooksFull
  <2>2. keys_head' \in 0..(Size - 1)
    BY <1>4, <2>1, NextIndex
  <2>3. KBTypeOK'
    <3>1. keys_ring_buffer' \in [Index -> Given]
      BY <1>4, <1>5, <2>1 DEF KBTypeOK, Given
    <3>2. keys_head' \in -1..(Size - 1)
      BY <1>4, <2>2
    <3> QED
      BY <1>1, <1>5, <2>1, <3>1, <3>2 DEF KBTypeOK
  <2>4. RingOK'
    <3>1. keys_head' >= 0 /\ keys_head' # keys_tail
      BY <1>4, <2>1, <2>2
    <3>2. keys_tail \in Index /\ keys_head # keys_tail => keys_ring_buffer'[keys_tail] = keys_ring_buffer[keys_tail]
      BY <1>5, <2>1 DEF KBTypeOK
    <3> QED
      BY <1>1, <1>5, <3>1, <3>2 DEF RingOK, InDequeue
  <2> QED
    BY <1>2, <1>3, <2>3, <2>4 DEF KBShape
<1>8. CASE KeyErases
  <2>1. /\ keys_ring_buffer' = [i \in Index |-> IF i = keys_head' THEN Nul ELSE keys_ring_buffer[i]]
        /\ keys_head' = keys_head - 1
        /\ strayed' \in BOOLEAN /\ lineLost' \in BOOLEAN
    BY <1>4, <1>5, <1>8, NextIndex DEF KeyErases, KBTypeOK
  <2>2. strayed' = \/ keys_head' < 0
                   \/ keys_head' = keys_tail /\ \E t \in Readers : pc[t] \in {"take", "store"}
    BY <1>8 DEF KeyErases
  <2>3. KBTypeOK'
    <3>1. keys_ring_buffer' \in [Index -> Given]
      BY <1>5, <2>1 DEF KBTypeOK, Given
    <3>2. keys_head' \in -1..(Size - 1)
      BY <1>4, <2>1
    <3> QED
      BY <1>1, <1>5, <2>1, <3>1, <3>2 DEF KBTypeOK
  <2>4. RingOK'
    <3>1. ~ strayed' => keys_head' >= 0
      BY <1>4, <2>1, <2>2
    <3>2. ASSUME NEW t \in Readers, pc[t] \in {"take", "store"}, ~ strayed'
          PROVE  /\ keys_tail \in Index /\ keys_head' # keys_tail
                 /\ keys_ring_buffer'[keys_tail] = keys_ring_buffer[keys_tail]
      <4>1. keys_tail \in Index /\ keys_head' # keys_tail
        BY <1>1, <1>5, <2>2, <3>2 DEF RingOK
      <4> QED
        BY <4>1, <2>1
    <3> QED
      BY <1>1, <1>5, <3>1, <3>2 DEF RingOK, InDequeue
  <2> QED
    BY <1>2, <1>3, <2>3, <2>4 DEF KBShape
<1> QED
  BY <1>6, <1>7, <1>8

LEMMA GoOnStep ==
  ASSUME KBTypeOK, NEW t \in Readers, NEW c, call[t] # "none", GoOn(t, c)
  PROVE  /\ pc' \in [Readers -> KPlaces]
         /\ call' \in [Readers -> {"none", "char", "line", "drain"}]
         /\ left' \in [Readers -> Int]
         /\ \A u : u # t => pc'[u] = pc[u] /\ call'[u] = call[u]
         /\ pc'[t] \in {"user", "test"} /\ (pc'[t] = "user" <=> call'[t] = "none")
         /\ call'[t] \in {"line", "drain"} => call[t] \in {"line", "drain"} /\ c # Newline
<1> DEFINE more == CASE call[t] = "char" -> "none"
                     [] call[t] = "line" ->
                          IF c = Newline THEN "none" ELSE IF left[t] > 1 THEN "line" ELSE "drain"
                     [] call[t] = "drain" -> IF c \in {Newline, NoChar} THEN "none" ELSE "drain"
<1>1. /\ pc \in [Readers -> KPlaces] /\ call \in [Readers -> {"none", "char", "line", "drain"}]
      /\ left \in [Readers -> Int]
  BY DEF KBTypeOK
<1>2. /\ call' = [call EXCEPT ![t] = more]
      /\ pc' = [pc EXCEPT ![t] = IF more = "none" THEN "user" ELSE "test"]
      /\ left' = [left EXCEPT ![t] = IF more = "line" THEN left[t] - 1 ELSE 0]
  BY DEF GoOn
<1>3. call[t] \in {"char", "line", "drain"}
  BY <1>1
<1>4. /\ more \in {"none", "line", "drain"}
      /\ more \in {"line", "drain"} => call[t] \in {"line", "drain"} /\ c # Newline
  BY <1>3
<1> HIDE DEF more
<1>5. pc' \in [Readers -> KPlaces]
  BY <1>1, <1>2 DEF KPlaces
<1>6. call' \in [Readers -> {"none", "char", "line", "drain"}]
  BY <1>1, <1>2, <1>4
<1>7. left' \in [Readers -> Int]
  BY <1>1, <1>2
<1>8. \A u : u # t => pc'[u] = pc[u] /\ call'[u] = call[u]
  BY <1>1, <1>2, <1>5, <1>6
<1>9. /\ pc'[t] \in {"user", "test"} /\ (pc'[t] = "user" <=> call'[t] = "none")
      /\ call'[t] = more
  BY <1>1, <1>2, <1>4
<1> QED
  BY <1>4, <1>5, <1>6, <1>7, <1>8, <1>9

\* A call begins: nothing of the ring is touched.
LEMMA BeginShape ==
  ASSUME KBShape, NEW t \in Readers, GetChar(t) \/ \E len \in Lens : ReadLine(t, len)
  PROVE  KBShape'
<1>1. /\ ~ strayed /\ pc[t] = "user" /\ strayed' = strayed /\ lineLost' = lineLost
      /\ keys_ring_buffer' = keys_ring_buffer /\ keys_head' = keys_head /\ keys_tail' = keys_tail
      /\ slot' = slot /\ curr_char' = curr_char
      /\ keyb_char' = [keyb_char EXCEPT ![t] = None]
  BY DEF GetChar, ReadLine, ringvars, history
<1>2. KBTypeOK /\ SemsOK /\ CallsOK /\ RingOK
  BY DEF KBShape
<1>3. ~ Waits(t)
  BY <1>1, KBShapeFacts
<1>4. PICK c : c = wait_for_chars'
  OBVIOUS
<1>5. PICK r : r = wait_for_readline'
  OBVIOUS
<1>6. /\ pc' \in [Readers -> KPlaces] /\ call' \in [Readers -> {"none", "char", "line", "drain"}]
      /\ left' \in [Readers -> Int]
      /\ pc'[t] \in {"test", "return"} /\ call'[t] # "none"
      /\ \A u : u # t => pc'[u] = pc[u] /\ call'[u] = call[u]
      /\ SemShapeOK(c) /\ SemShapeOK(r) /\ r.count =< 0
      /\ Queued(c) \subseteq Queued(wait_for_chars) \cup {t}
      /\ Queued(r) \subseteq Queued(wait_for_readline) \cup {t}
      /\ t \in Queued(c) => call'[t] = "char" /\ pc'[t] = "test"
      /\ t \in Queued(r) => call'[t] \in {"line", "drain"}
  <2>1. /\ pc \in [Readers -> KPlaces] /\ call \in [Readers -> {"none", "char", "line", "drain"}]
        /\ left \in [Readers -> Int]
    BY <1>2 DEF KBTypeOK
  <2>2. /\ SemShapeOK(wait_for_chars) /\ SemShapeOK(wait_for_readline)
        /\ wait_for_readline.count =< 0
    BY <1>2 DEF SemsOK
  <2>3. t \notin Queued(wait_for_chars) /\ t \notin Queued(wait_for_readline)
    BY <1>3, WaitsIsQueued
  <2>4. CASE GetChar(t)
    <3>1. /\ c = Waited(wait_for_chars, t) /\ r = wait_for_readline
          /\ pc' = [pc EXCEPT ![t] = "test"] /\ call' = [call EXCEPT ![t] = "char"]
          /\ left' = left
      BY <1>4, <1>5, <2>4 DEF GetChar
    <3>2. SemShapeOK(c) /\ Queued(c) \subseteq Queued(wait_for_chars) \cup {t}
      BY <2>2, <3>1, WaitedQueue
    <3>3. /\ pc' \in [Readers -> KPlaces] /\ call' \in [Readers -> {"none", "char", "line", "drain"}]
          /\ pc'[t] = "test" /\ call'[t] = "char"
      BY <2>1, <3>1 DEF KPlaces
    <3>4. \A u : u # t => pc'[u] = pc[u] /\ call'[u] = call[u]
      BY <2>1, <3>1, <3>3
    <3> QED
      BY <2>1, <2>2, <2>3, <3>1, <3>2, <3>3, <3>4
  <2>5. CASE \E len \in Lens : ReadLine(t, len)
    <3>0. PICK len \in Lens : ReadLine(t, len)
      BY <2>5
    <3>1. PICK l \in {"test", "return"}, m \in {"line", "drain"} :
            /\ pc' = [pc EXCEPT ![t] = l] /\ call' = [call EXCEPT ![t] = m]
      BY <3>0 DEF ReadLine
    <3>2. /\ c = wait_for_chars /\ r = Waited(wait_for_readline, t)
          /\ left' = [left EXCEPT ![t] = len]
      BY <1>4, <1>5, <3>0 DEF ReadLine
    <3>3. len \in Int
      BY KeyboardAssumption
    <3>4. SemShapeOK(r) /\ r.count = wait_for_readline.count - 1 /\ Queued(r) \subseteq Queued(wait_for_readline) \cup {t}
      BY <2>2, <3>2, WaitedQueue
    <3>5. r.count =< 0
      BY <2>2, <3>4 DEF SemShapeOK
    <3>6. /\ pc' \in [Readers -> KPlaces] /\ call' \in [Readers -> {"none", "char", "line", "drain"}]
          /\ pc'[t] = l /\ call'[t] = m /\ left' \in [Readers -> Int]
      BY <2>1, <3>1, <3>2, <3>3 DEF KPlaces
    <3>7. \A u : u # t => pc'[u] = pc[u] /\ call'[u] = call[u]
      BY <2>1, <3>1, <3>6
    <3> QED
      BY <2>2, <2>3, <3>2, <3>4, <3>5, <3>6, <3>7
  <2> QED
    BY <2>4, <2>5
<1>7. KBTypeOK'
  BY <1>1, <1>2, <1>6 DEF KBTypeOK
<1>8. SemsOK'
  <2>1. /\ \A u \in Queued(c) : call'[u] = "char" /\ pc'[u] = "test"
        /\ \A u \in Queued(r) : call'[u] \in {"line", "drain"} /\ pc'[u] \in {"test", "return"}
    BY <1>2, <1>6 DEF SemsOK
  <2> QED
    BY <1>4, <1>5, <1>6, <2>1 DEF SemsOK, SemShapeOK, Queued
<1>9. CallsOK'
  <2>1. \A u \in Readers : u # t => keyb_char'[u] = keyb_char[u]
    BY <1>1, <1>2 DEF KBTypeOK
  <2> QED
    BY <1>2, <1>6, <2>1 DEF CallsOK
<1>10. RingOK'
  <2>1. /\ \A u \in Readers : pc'[u] \in {"take", "store", "wrap"} => u # t /\ pc[u] = pc'[u]
        /\ \A u \in Readers : pc[u] = "wrap" => pc'[u] = "wrap"
    BY <1>1, <1>6
  <2> QED
    BY <1>1, <1>2, <2>1 DEF RingOK, InDequeue
<1> QED
  BY <1>7, <1>8, <1>9, <1>10 DEF KBShape

\* A call returns, or finds the ring empty.
LEMMA LeaveShape ==
  ASSUME KBShape, NEW t \in Readers, Return(t) \/ DqEmpty(t)
  PROVE  KBShape'
<1>1. /\ ~ strayed /\ pc[t] \in {"return", "test"} /\ ~ Waits(t) /\ UNCHANGED semvars
      /\ strayed' = strayed /\ lineLost' = lineLost
      /\ keys_ring_buffer' = keys_ring_buffer /\ keys_head' = keys_head /\ keys_tail' = keys_tail
      /\ slot' = slot /\ curr_char' = curr_char
      /\ keyb_char' = keyb_char \/ keyb_char' = [keyb_char EXCEPT ![t] = NoChar]
  BY DEF Return, DqEmpty, AtRing, ringvars, history
<1>2. KBTypeOK /\ SemsOK /\ CallsOK /\ RingOK
  BY DEF KBShape
<1>3. /\ pc' \in [Readers -> KPlaces] /\ call' \in [Readers -> {"none", "char", "line", "drain"}]
      /\ left' \in [Readers -> Int]
      /\ pc'[t] \in {"user", "test"} /\ (pc'[t] = "user" <=> call'[t] = "none")
      /\ \A u : u # t => pc'[u] = pc[u] /\ call'[u] = call[u]
  <2>1. CASE Return(t)
    <3>1. /\ pc \in [Readers -> KPlaces] /\ call \in [Readers -> {"none", "char", "line", "drain"}]
          /\ left \in [Readers -> Int]
      BY <1>2 DEF KBTypeOK
    <3>2. /\ pc' = [pc EXCEPT ![t] = "user"] /\ call' = [call EXCEPT ![t] = "none"]
          /\ left' = [left EXCEPT ![t] = 0]
      BY <2>1 DEF Return
    <3>3. /\ pc' \in [Readers -> KPlaces] /\ call' \in [Readers -> {"none", "char", "line", "drain"}]
          /\ left' \in [Readers -> Int] /\ pc'[t] = "user" /\ call'[t] = "none"
      BY <3>1, <3>2 DEF KPlaces
    <3> QED
      BY <3>1, <3>2, <3>3
  <2>2. CASE DqEmpty(t)
    <3>1. GoOn(t, NoChar) /\ call[t] # "none"
      BY <1>2, <2>2 DEF DqEmpty, AtRing, CallsOK
    <3> QED
      BY <1>2, <3>1, GoOnStep
  <2> QED
    BY <2>1, <2>2
<1>4. KBTypeOK'
  BY <1>1, <1>2, <1>3 DEF KBTypeOK
<1>5. SemsOK'
  BY <1>1, <1>2, <1>3, OwnSems
<1>6. CallsOK'
  <2>1. \A u \in Readers : u # t => keyb_char'[u] = keyb_char[u]
    BY <1>1, <1>2 DEF KBTypeOK
  <2> QED
    BY <1>2, <1>3, <2>1 DEF CallsOK
<1>7. RingOK'
  <2>1. /\ \A u \in Readers : pc'[u] \in {"take", "store", "wrap"} => u # t /\ pc[u] = pc'[u]
        /\ \A u \in Readers : pc[u] = "wrap" => pc'[u] = "wrap"
    BY <1>1, <1>3
  <2> QED
    BY <1>1, <1>2, <2>1 DEF RingOK, InDequeue
<1> QED
  BY <1>4, <1>5, <1>6, <1>7 DEF KBShape

\* A reader goes into the ring, loads from it, and stores the next index.
LEMMA InsideShape ==
  ASSUME KBShape, NEW t \in Readers, DqTest(t) \/ DqTake(t) \/ DqStore(t)
  PROVE  KBShape'
<1>1. /\ ~ strayed /\ pc[t] \in {"test", "take", "store"} /\ ~ Waits(t) /\ UNCHANGED semvars
      /\ keys_ring_buffer' = keys_ring_buffer /\ keys_head' = keys_head
      /\ call' = call /\ left' = left
      /\ \E l \in {"take", "store", "wrap"} : pc' = [pc EXCEPT ![t] = l]
  BY DEF DqTest, DqTake, DqStore, AtRing
<1>2. KBTypeOK /\ SemsOK /\ CallsOK /\ RingOK
  BY DEF KBShape
<1>3. /\ Size \in Nat /\ Size > 1 /\ Index = 0..(Size - 1) /\ keys_head \in Index
      /\ keys_tail \in 0..Size
  BY <1>1, KBShapeFacts
<1>4. /\ pc' \in [Readers -> KPlaces] /\ pc'[t] \in {"take", "store", "wrap"}
      /\ \A u : u # t => pc'[u] = pc[u] /\ call'[u] = call[u]
  <2>1. pc \in [Readers -> KPlaces]
    BY <1>2 DEF KBTypeOK
  <2>2. pc' \in [Readers -> KPlaces] /\ pc'[t] \in {"take", "store", "wrap"}
    BY <1>1, <2>1 DEF KPlaces
  <2> QED
    BY <1>1, <2>1, <2>2
<1>5. SemsOK'
  BY <1>1, <1>2, <1>4, OwnSems
<1>6. CASE DqTest(t)
  <2>1. /\ pc[t] = "test" /\ pc'[t] = "take" /\ keys_head # keys_tail
        /\ keys_tail' = keys_tail /\ slot' = slot /\ curr_char' = curr_char
        /\ keyb_char' = keyb_char /\ lineLost' = lineLost
        /\ strayed' = \E u \in Readers \ {t} : InDequeue(u)
    BY <1>2, <1>6 DEF DqTest, AtRing, LooksEmpty, KBTypeOK
  <2>2. KBTypeOK'
    BY <1>1, <1>2, <1>4, <2>1 DEF KBTypeOK
  <2>3. CallsOK'
    BY <1>1, <1>2, <1>4, <2>1 DEF CallsOK
  <2>4. RingOK'
    <3>1. keys_tail = Size => \E u \in Readers : pc'[u] = "wrap"
      BY <1>2, <1>4, <2>1 DEF RingOK
    <3>2. ASSUME ~ strayed'
          PROVE  /\ \A u \in Readers : InDequeue(u)' => u = t
                 /\ keys_tail \in Index
      <4>1. \A u \in Readers : u # t => pc[u] \notin {"take", "store", "wrap"}
        BY <2>1, <3>2 DEF InDequeue
      <4>2. keys_tail # Size
        BY <1>2, <2>1, <4>1 DEF RingOK
      <4> QED
        BY <1>3, <1>4, <4>1, <4>2 DEF InDequeue
    <3>3. keys_head >= 0
      BY <1>3
    <3> QED
      BY <1>1, <2>1, <3>1, <3>2, <3>3 DEF RingOK, InDequeue
  <2> QED
    BY <1>5, <2>2, <2>3, <2>4 DEF KBShape
<1>7. CASE DqTake(t)
  <2>1. /\ pc[t] = "take" /\ pc'[t] = "store" /\ strayed' = strayed /\ lineLost' = lineLost
        /\ keys_tail' = keys_tail /\ keyb_char' = keyb_char
        /\ slot' = [slot EXCEPT ![t] = keys_tail]
        /\ curr_char' = [curr_char EXCEPT ![t] = keys_ring_buffer[keys_tail]]
    BY <1>2, <1>7 DEF DqTake, AtRing, KBTypeOK
  <2>2. /\ keys_tail \in Index /\ keys_head # keys_tail
        /\ \A u \in Readers : pc[u] \in {"take", "store", "wrap"} => u = t
    BY <1>1, <1>2, <2>1 DEF RingOK, InDequeue
  <2>3. keys_ring_buffer[keys_tail] \in Given
    BY <1>2, <2>2 DEF KBTypeOK
  <2>4. /\ slot' \in [Readers -> Index] /\ curr_char' \in [Readers -> Given \cup {None}]
        /\ slot'[t] = keys_tail /\ curr_char'[t] = keys_ring_buffer[keys_tail]
    BY <1>2, <2>1, <2>2, <2>3 DEF KBTypeOK
  <2>5. KBTypeOK'
    BY <1>1, <1>2, <1>4, <2>1, <2>4 DEF KBTypeOK
  <2>6. CallsOK'
    BY <1>1, <1>2, <1>4, <2>1 DEF CallsOK
  <2>7. RingOK'
    <3>1. keys_tail # Size /\ keys_head >= 0
      BY <1>3, <2>2
    <3>2. \A u \in Readers : pc'[u] \in {"take", "store", "wrap"} => u = t
      BY <1>4, <2>2
    <3> QED
      BY <1>1, <2>1, <2>2, <2>4, <3>1, <3>2 DEF RingOK, InDequeue
  <2> QED
    BY <1>5, <2>5, <2>6, <2>7 DEF KBShape
<1>8. CASE DqStore(t)
  <2>1. /\ pc[t] = "store" /\ pc'[t] = "wrap" /\ strayed' = strayed /\ lineLost' \in BOOLEAN
        /\ keys_tail' = slot[t] + 1
        /\ keyb_char' = [keyb_char EXCEPT ![t] = curr_char[t]]
        /\ slot' = [slot EXCEPT ![t] = 0] /\ curr_char' = [curr_char EXCEPT ![t] = None]
    BY <1>2, <1>8 DEF DqStore, AtRing, KBTypeOK
  <2>2. /\ keys_tail \in Index /\ keys_head # keys_tail
        /\ slot[t] = keys_tail /\ curr_char[t] = keys_ring_buffer[keys_tail]
        /\ \A u \in Readers : pc[u] \in {"take", "store", "wrap"} => u = t
    BY <1>1, <1>2, <2>1 DEF RingOK, InDequeue
  <2>3. curr_char[t] \in Given
    BY <1>2, <2>2 DEF KBTypeOK
  <2>4. /\ slot' \in [Readers -> Index] /\ curr_char' \in [Readers -> Given \cup {None}]
        /\ keyb_char' \in [Readers -> Given \cup {NoChar, None}]
        /\ keyb_char'[t] \in Given /\ \A u \in Readers : u # t => keyb_char'[u] = keyb_char[u]
    BY <1>2, <1>3, <2>1, <2>3 DEF KBTypeOK
  <2>5. keys_tail' \in 0..Size
    BY <1>3, <2>1, <2>2
  <2>6. KBTypeOK'
    BY <1>1, <1>2, <1>4, <2>1, <2>4, <2>5 DEF KBTypeOK
  <2>7. CallsOK'
    BY <1>1, <1>2, <1>4, <2>1, <2>4 DEF CallsOK
  <2>8. RingOK'
    <3>1. keys_head' >= 0
      BY <1>1, <1>3
    <3>2. \A u \in Readers : pc'[u] \in {"take", "store", "wrap"} => u = t
      BY <1>4, <2>2
    <3> QED
      BY <2>1, <3>1, <3>2 DEF RingOK, InDequeue
  <2> QED
    BY <1>5, <2>6, <2>7, <2>8 DEF KBShape
<1> QED
  BY <1>6, <1>7, <1>8

\* A reader wraps the index, and is out of the ring.
LEMMA WrapShape ==
  ASSUME KBShape, NEW t \in Readers, DqWrap(t)
  PROVE  KBShape'
<1>1. /\ ~ strayed /\ pc[t] = "wrap" /\ ~ Waits(t) /\ UNCHANGED semvars
      /\ keys_ring_buffer' = keys_ring_buffer /\ keys_head' = keys_head
      /\ keys_tail' = keys_tail % Size /\ GoOn(t, keyb_char[t])
      /\ slot' = slot /\ curr_char' = curr_char /\ keyb_char' = keyb_char
      /\ strayed' = strayed /\ lineLost' = lineLost
  BY DEF DqWrap, AtRing, history
<1>2. KBTypeOK /\ SemsOK /\ CallsOK /\ RingOK
  BY DEF KBShape
<1>3. /\ Size \in Nat /\ Size > 1 /\ Index = 0..(Size - 1) /\ keys_head \in Index
      /\ keys_tail \in 0..Size
  BY <1>1, KBShapeFacts
<1>4. call[t] # "none"
  BY <1>1, <1>2 DEF CallsOK
<1>5. /\ pc' \in [Readers -> KPlaces] /\ call' \in [Readers -> {"none", "char", "line", "drain"}]
      /\ left' \in [Readers -> Int]
      /\ pc'[t] \in {"user", "test"} /\ (pc'[t] = "user" <=> call'[t] = "none")
      /\ \A u : u # t => pc'[u] = pc[u] /\ call'[u] = call[u]
  BY <1>1, <1>2, <1>4, GoOnStep
<1>6. keys_tail' \in 0..Size /\ keys_tail' # Size
  <2>1. keys_tail % Size \in 0..(Size - 1)
    BY <1>3, LineWraps
  <2> QED
    BY <1>1, <1>3, <2>1
<1>7. KBTypeOK'
  BY <1>1, <1>2, <1>5, <1>6 DEF KBTypeOK
<1>8. SemsOK'
  BY <1>1, <1>2, <1>5, OwnSems
<1>9. CallsOK'
  BY <1>1, <1>2, <1>5 DEF CallsOK
<1>10. RingOK'
  <2>1. \A u \in Readers : pc[u] \in {"take", "store", "wrap"} => u = t
    BY <1>1, <1>2 DEF RingOK, InDequeue
  <2>2. \A u \in Readers : pc'[u] \notin {"take", "store", "wrap"}
    BY <1>5, <2>1
  <2>3. keys_head' >= 0
    BY <1>1, <1>3
  <2> QED
    BY <1>6, <2>2, <2>3 DEF RingOK, InDequeue
<1> QED
  BY <1>7, <1>8, <1>9, <1>10 DEF KBShape

LEMMA KBNextShape == KBShape /\ [KBNext]_keyvars => KBShape'
<1> SUFFICES ASSUME KBShape, [KBNext]_keyvars
             PROVE  KBShape'
  OBVIOUS
<1>1. CASE UNCHANGED keyvars
  BY <1>1 DEF keyvars, ringvars, semvars, locals, history, KBShape, KBTypeOK, SemsOK, SemShapeOK, Queued, CallsOK,
              RingOK, InDequeue
<1>2. ASSUME NEW k \in Keys, KeyDropped(k) \/ KeyStored(k)
      PROVE  KBShape'
  BY <1>2, KeyShape
<1>3. CASE KeyErases
  <2>1. Backspace \in Keys
    BY DEF Keys
  <2> QED
    BY <1>3, <2>1, KeyShape
<1>4. ASSUME NEW t \in Readers,
             \/ GetChar(t) \/ Return(t)
             \/ \E len \in Lens : ReadLine(t, len)
             \/ DqEmpty(t) \/ DqTest(t) \/ DqTake(t) \/ DqStore(t) \/ DqWrap(t)
      PROVE  KBShape'
  BY <1>4, BeginShape, LeaveShape, InsideShape, WrapShape
<1> QED
  BY <1>1, <1>2, <1>3, <1>4 DEF KBNext

----------------------------------------------------------------------------
(* What each step does to the line. *)

LEMMA TypedIsLine ==
  /\ Typed = Line(keys_ring_buffer, keys_head, keys_tail)
  /\ Typed' = Line(keys_ring_buffer', keys_head', keys_tail')
BY DEF Typed, Line

LEMMA TypedSeq ==
  ASSUME KBShape, ~ strayed
  PROVE  /\ Typed \in Seq(Given)
         /\ Len(Typed) = Held(keys_head, keys_tail) /\ Len(Typed) \in Nat
         /\ keys_head = keys_tail => Typed = <<>>
<1>1. keys_ring_buffer \in [Index -> Given] /\ keys_head \in Index /\ keys_tail \in 0..Size
  BY KBShapeFacts DEF KBShape, KBTypeOK
<1>2. /\ Typed \in Seq(Given) /\ Len(Typed) = Held(keys_head, keys_tail)
      /\ keys_head = keys_tail => Held(keys_head, keys_tail) = 0
  BY <1>1, TypedIsLine, LineSeq, LineIs
<1> QED
  BY <1>2, LenProperties, EmptySeq

LEMMA StoredLine ==
  ASSUME KBShape, NEW k \in Keys, KeyStored(k), ~ strayed'
  PROVE  Typed' = Append(Typed, k) /\ Len(Typed) # Size - 1
<1>1. ~ strayed
  BY DEF KeyStored, Key
<1>2. /\ keys_ring_buffer' = [keys_ring_buffer EXCEPT ![keys_head] = k]
      /\ keys_head' = Rem(keys_head + 1) /\ Rem(keys_head + 1) # keys_tail
      /\ ~ (keys_tail = Size /\ keys_head = Size - 1)
      /\ keys_tail' = keys_tail
  BY DEF KeyStored, Key, LooksFull
<1>3. keys_ring_buffer \in [Index -> Given] /\ keys_head \in Index /\ keys_tail \in 0..Size
  BY <1>1, KBShapeFacts DEF KBShape, KBTypeOK
<1>4. PICK b \in [Index -> Given], h \in Index, tl \in 0..Size :
        b = keys_ring_buffer /\ h = keys_head /\ tl = keys_tail
  BY <1>3
<1>5. PICK c, g : c = keys_ring_buffer' /\ g = keys_head'
  OBVIOUS
<1>6. Held(h, tl) # Size - 1 /\ Line(c, g, tl) = Append(Line(b, h, tl), k)
  <2>1. /\ g = Rem(h + 1) /\ g \in Index /\ g # tl /\ k \in Given /\ ~ (tl = Size /\ h = Size - 1)
        /\ \A i \in Index : c[i] = IF i = h THEN k ELSE b[i]
    <3>1. Rem(h + 1) \in Index
      BY <1>4, NextIndex, KeyboardAssumption DEF Index
    <3> QED
      BY <1>2, <1>4, <1>5, <3>1 DEF Given
  <2> QED
    BY <2>1, LineGrows
<1> QED
  BY <1>1, <1>2, <1>4, <1>5, <1>6, TypedIsLine, TypedSeq

LEMMA ErasedLine ==
  ASSUME KBShape, KeyErases, ~ strayed'
  PROVE  /\ Len(Typed) > 0
         /\ Typed' = SubSeq(Typed, 1, Len(Typed) - 1)
         /\ Typed[Len(Typed)] = keys_ring_buffer[keys_head'] /\ keys_head' >= 0
<1>1. ~ strayed
  BY DEF KeyErases, Key
<1>2. keys_ring_buffer \in [Index -> Given] /\ keys_head \in Index /\ keys_tail \in 0..Size
  BY <1>1, KBShapeFacts DEF KBShape, KBTypeOK
<1>3. /\ keys_ring_buffer' = [i \in Index |-> IF i = keys_head - 1 THEN Nul ELSE keys_ring_buffer[i]]
      /\ keys_head' = keys_head - 1 /\ keys_head # keys_tail /\ ~ (keys_head' < 0)
      /\ keys_tail' = keys_tail
  BY <1>2, NextIndex DEF KeyErases, Key, LooksEmpty
<1>4. keys_head > 0 /\ keys_head' >= 0
  BY <1>1, <1>3, KBShapeFacts
<1>5. PICK n \in Nat : n = Len(Typed) /\ n = Held(keys_head, keys_tail)
  BY <1>1, TypedSeq
<1>6. PICK b \in [Index -> Given], h \in Index, tl \in 0..Size :
        b = keys_ring_buffer /\ h = keys_head /\ tl = keys_tail
  BY <1>2
<1>7. PICK c, g : c = keys_ring_buffer' /\ g = keys_head'
  OBVIOUS
<1>8. /\ n > 0 /\ Line(c, g, tl) = SubSeq(Line(b, h, tl), 1, n - 1)
      /\ Line(b, h, tl)[n] = b[g]
  <2>1. /\ h # tl /\ h > 0 /\ n = Held(h, tl) /\ g = h - 1 /\ g \in Index
        /\ \A i \in Index : c[i] = IF i = g THEN Nul ELSE b[i]
    <3>1. h - 1 \in Index
      BY <1>4, <1>6, KeyboardAssumption DEF Index
    <3> QED
      BY <1>3, <1>4, <1>5, <1>6, <1>7, <3>1
  <2> QED
    BY <2>1, LineShrinks
<1>9. Typed' = SubSeq(Typed, 1, n - 1) /\ Typed[n] = keys_ring_buffer[keys_head']
  BY <1>3, <1>6, <1>7, <1>8, TypedIsLine
<1> QED
  BY <1>4, <1>5, <1>8, <1>9

LEMMA TakenLine ==
  ASSUME KBShape, NEW t \in Readers, DqStore(t)
  PROVE  /\ Typed # <<>> /\ Typed' = Tail(Typed)
         /\ Typed[1] = curr_char[t] /\ Head(Typed) = curr_char[t]
<1>1. /\ ~ strayed /\ pc[t] = "store" /\ keys_tail' = slot[t] + 1
      /\ keys_ring_buffer' = keys_ring_buffer /\ keys_head' = keys_head
  BY DEF DqStore, AtRing
<1>2. /\ keys_tail \in Index /\ keys_head # keys_tail
      /\ slot[t] = keys_tail /\ curr_char[t] = keys_ring_buffer[keys_tail]
  BY <1>1 DEF KBShape, RingOK
<1>3. keys_ring_buffer \in [Index -> Given] /\ keys_head \in Index
  BY <1>1, KBShapeFacts DEF KBShape, KBTypeOK
<1>4. /\ Line(keys_ring_buffer, keys_head, keys_tail) # <<>>
      /\ Line(keys_ring_buffer, keys_head, keys_tail + 1) = Tail(Line(keys_ring_buffer, keys_head, keys_tail))
      /\ Line(keys_ring_buffer, keys_head, keys_tail)[1] = keys_ring_buffer[keys_tail]
      /\ Head(Line(keys_ring_buffer, keys_head, keys_tail)) = keys_ring_buffer[keys_tail]
  BY <1>2, <1>3, LineTaken
<1> QED
  BY <1>1, <1>2, <1>4, TypedIsLine

LEMMA WrappedLine ==
  ASSUME KBShape, NEW t \in Readers, DqWrap(t)
  PROVE  Typed' = Typed
<1>1. /\ ~ strayed /\ keys_tail' = keys_tail % Size
      /\ keys_ring_buffer' = keys_ring_buffer /\ keys_head' = keys_head
  BY DEF DqWrap, AtRing
<1>2. keys_head \in Index /\ keys_tail \in 0..Size
  BY <1>1, KBShapeFacts
<1>3. Line(keys_ring_buffer, keys_head, keys_tail % Size) = Line(keys_ring_buffer, keys_head, keys_tail)
  BY <1>2, LineWraps
<1> QED
  BY <1>1, <1>3, TypedIsLine

\* The steps that leave the ring alone.
OutsideRing(t) ==
  \/ GetChar(t) \/ Return(t) \/ \E len \in Lens : ReadLine(t, len)
  \/ DqEmpty(t) \/ DqTest(t) \/ DqTake(t)

LEMMA SameLine ==
  ASSUME NEW t, OutsideRing(t)
  PROVE  Typed' = Typed
<1>1. keys_ring_buffer' = keys_ring_buffer /\ keys_head' = keys_head /\ keys_tail' = keys_tail
  BY DEF OutsideRing, GetChar, Return, ReadLine, DqEmpty, DqTest, DqTake, AtRing, ringvars
<1> QED
  BY <1>1, TypedIsLine

----------------------------------------------------------------------------
(* What each step does to the readers a line is due to. *)

LEMMA LinesDueFacts ==
  ASSUME KBShape
  PROVE  /\ LinesDue = {t \in Readers :
              /\ call[t] \in {"line", "drain"} /\ t \notin Queued(wait_for_readline) /\ pc[t] # "return"
              /\ ~ (pc[t] = "wrap" /\ keyb_char[t] = Newline)}
         /\ IsFiniteSet(LinesDue) /\ Cardinality(LinesDue) \in Nat
<1>1. \A t \in Readers : call[t] \in {"line", "drain"} => (Waits(t) <=> t \in Queued(wait_for_readline))
  BY WaitsIsQueued DEF KBShape, SemsOK
<1>2. LinesDue \subseteq Readers
  BY DEF LinesDue
<1>3. IsFiniteSet(LinesDue) /\ Cardinality(LinesDue) \in Nat
  BY <1>2, KeyboardAssumption, FS_Subset, FS_CardinalityType
<1> QED
  BY <1>1, <1>3 DEF LinesDue

\* A '\n' makes one line more due, any other key none.
LEMMA KeyDue ==
  ASSUME KBShape, KBShape', NEW k, WakeUp(k), UNCHANGED locals
  PROVE  Cardinality(LinesDue') =< Cardinality(LinesDue) + (IF k = Newline THEN 1 ELSE 0)
<1>1. /\ pc' = pc /\ call' = call /\ keyb_char' = keyb_char
  BY DEF locals
<1>2. SemShapeOK(wait_for_readline)
  BY DEF KBShape, SemsOK
<1>3. PICK r : r = wait_for_readline'
  OBVIOUS
<1>4. LinesDue' = {t \in Readers :
              /\ call[t] \in {"line", "drain"} /\ t \notin Queued(r) /\ pc[t] # "return"
              /\ ~ (pc[t] = "wrap" /\ keyb_char[t] = Newline)}
  <2>1. \A t \in Readers : call'[t] \in {"line", "drain"} => (Waits(t)' <=> t \in Queued(r))
    <3>1. \A t : Waits(t)' <=> t \in Queued(wait_for_chars') \cup Queued(wait_for_readline')
      BY DEF Waits, Queued
    <3>2. \A t \in Queued(wait_for_chars') : call'[t] = "char"
      BY DEF KBShape, SemsOK, Queued
    <3> QED
      BY <3>1, <3>2, <1>3
  <2> QED
    BY <1>1, <2>1 DEF LinesDue
<1>5. CASE r = wait_for_readline
  <2>1. LinesDue' \subseteq LinesDue
    BY <1>4, <1>5, LinesDueFacts
  <2>2. Cardinality(LinesDue') =< Cardinality(LinesDue)
    BY <2>1, LinesDueFacts, FS_Subset
  <2>3. Cardinality(LinesDue') \in Nat /\ Cardinality(LinesDue) \in Nat
    BY <2>1, LinesDueFacts, FS_Subset, FS_CardinalityType
  <2> QED
    BY <2>2, <2>3
<1>6. CASE r # wait_for_readline
  <2>1. k = Newline /\ wait_for_readline.queue # <<>> /\ r = Signalled(wait_for_readline)
    BY <1>3, <1>6 DEF WakeUp
  <2>2. PICK t \in Readers : Queued(wait_for_readline) \subseteq Queued(r) \cup {t}
    BY <1>2, <2>1, SignalledQueue
  <2>3. LinesDue' \subseteq LinesDue \cup {t}
    BY <1>4, <2>2, LinesDueFacts
  <2>4. /\ IsFiniteSet(LinesDue \cup {t})
        /\ Cardinality(LinesDue \cup {t}) =< Cardinality(LinesDue) + 1
        /\ Cardinality(LinesDue \cup {t}) \in Nat
    <3>1. IsFiniteSet(LinesDue) /\ Cardinality(LinesDue) \in Nat
      BY LinesDueFacts
    <3>2. /\ IsFiniteSet(LinesDue \cup {t})
          /\ Cardinality(LinesDue \cup {t}) = IF t \in LinesDue THEN Cardinality(LinesDue) ELSE Cardinality(LinesDue) + 1
      BY <3>1, FS_AddElement
    <3> QED
      BY <3>1, <3>2
  <2>5. Cardinality(LinesDue') =< Cardinality(LinesDue \cup {t}) /\ Cardinality(LinesDue') \in Nat
    BY <2>3, <2>4, FS_Subset, FS_CardinalityType
  <2>6. Cardinality(LinesDue) \in Nat
    BY LinesDueFacts
  <2> QED
    BY <2>1, <2>4, <2>5, <2>6
<1> QED
  BY <1>5, <1>6

\* No step of a reader makes a line due, and the one that takes a '\n' is owed
\* one less.
LEMMA ReaderDue ==
  ASSUME KBShape, NEW t \in Readers, OutsideRing(t) \/ DqStore(t) \/ DqWrap(t)
  PROVE  /\ LinesDue' \subseteq LinesDue
         /\ DqStore(t) /\ curr_char[t] = Newline /\ call[t] # "char" => t \in LinesDue \ LinesDue'
<1>1. KBTypeOK /\ SemsOK /\ CallsOK
  BY DEF KBShape
<1>2. /\ \A u \in Readers : u # t => pc'[u] = pc[u] /\ call'[u] = call[u] /\ keyb_char'[u] = keyb_char[u]
      /\ Queued(wait_for_readline) \subseteq Queued(wait_for_readline)'
  <2>1. CASE GetChar(t) \/ Return(t) \/ DqTest(t) \/ DqTake(t) \/ DqStore(t)
    <3>1. /\ wait_for_readline' = wait_for_readline
          /\ \/ pc' = pc
             \/ \E l \in KPlaces : pc' = [pc EXCEPT ![t] = l]
          /\ \/ call' = call
             \/ \E l \in {"none", "char"} : call' = [call EXCEPT ![t] = l]
          /\ \/ keyb_char' = keyb_char
             \/ \E x : keyb_char' = [keyb_char EXCEPT ![t] = x]
      BY <2>1 DEF GetChar, Return, DqTest, DqTake, DqStore, AtRing, semvars, KPlaces
    <3>2. \A u \in Readers : u # t => pc'[u] = pc[u] /\ call'[u] = call[u] /\ keyb_char'[u] = keyb_char[u]
      BY <1>1, <3>1 DEF KBTypeOK
    <3> QED
      BY <3>1, <3>2 DEF Queued
  <2>2. CASE \E len \in Lens : ReadLine(t, len)
    <3>1. \A u \in Readers : u # t => pc'[u] = pc[u] /\ call'[u] = call[u] /\ keyb_char'[u] = keyb_char[u]
      BY <1>1, <2>2 DEF ReadLine, KBTypeOK
    <3>2. SemShapeOK(wait_for_readline) /\ wait_for_readline' = Waited(wait_for_readline, t)
      BY <1>1, <2>2 DEF SemsOK, ReadLine
    <3>3. PICK r : r = wait_for_readline'
      OBVIOUS
    <3>4. Queued(wait_for_readline) \subseteq Queued(r)
      BY <3>2, <3>3, WaitedQueue
    <3> QED
      BY <3>1, <3>3, <3>4 DEF Queued
  <2>3. CASE DqEmpty(t) \/ DqWrap(t)
    <3>1. PICK c : /\ GoOn(t, c) /\ UNCHANGED semvars /\ call[t] # "none"
                   /\ keyb_char' \in {keyb_char, [keyb_char EXCEPT ![t] = NoChar]}
      BY <1>1, <2>3 DEF DqEmpty, DqWrap, AtRing, CallsOK
    <3>2. \A u : u # t => pc'[u] = pc[u] /\ call'[u] = call[u]
      BY <1>1, <3>1, GoOnStep
    <3>3. \A u \in Readers : u # t => keyb_char'[u] = keyb_char[u]
      BY <1>1, <3>1 DEF KBTypeOK
    <3> QED
      BY <3>1, <3>2, <3>3 DEF semvars, Queued
  <2> QED
    BY <2>1, <2>2, <2>3 DEF OutsideRing
<1>3. \A u : Waits(u)' <=> u \in Queued(wait_for_chars)' \cup Queued(wait_for_readline)'
  BY DEF Waits, Queued
<1>4. ASSUME NEW u \in LinesDue', u # t
      PROVE  u \in LinesDue
  <2>1. /\ u \in Readers /\ call'[u] \in {"line", "drain"} /\ ~ Waits(u)' /\ pc'[u] # "return"
        /\ ~ (pc'[u] = "wrap" /\ keyb_char'[u] = Newline)
    BY <1>4 DEF LinesDue
  <2> QED
    BY <1>2, <1>3, <1>4, <2>1, LinesDueFacts
<1>5. ASSUME t \in LinesDue'
      PROVE  t \in LinesDue
  <2>1. call'[t] \in {"line", "drain"} /\ ~ Waits(t)'
    BY <1>5 DEF LinesDue
  <2>2. ~ Waits(t) /\ call[t] \in {"line", "drain"} /\ pc[t] # "return" /\ ~ (pc[t] = "wrap" /\ keyb_char[t] = Newline)
    <3>1. CASE GetChar(t) \/ Return(t)
      BY <1>1, <2>1, <3>1 DEF GetChar, Return, KBTypeOK
    <3>2. CASE \E len \in Lens : ReadLine(t, len)
      <4>1. /\ SemShapeOK(wait_for_readline) /\ wait_for_readline' = Waited(wait_for_readline, t)
            /\ wait_for_readline.count =< 0
        BY <1>1, <3>2 DEF SemsOK, ReadLine
      <4>2. PICK r : r = wait_for_readline'
        OBVIOUS
      <4>3. t \in Queued(r)
        BY <4>1, <4>2, WaitedQueue
      <4> QED
        BY <1>3, <2>1, <4>2, <4>3 DEF Queued
    <3>3. CASE DqTest(t) \/ DqTake(t) \/ DqStore(t)
      BY <2>1, <3>3 DEF DqTest, DqTake, DqStore, AtRing
    <3>4. CASE DqEmpty(t)
      <4>1. GoOn(t, NoChar) /\ ~ Waits(t) /\ call[t] # "none" /\ pc[t] = "test"
        BY <1>1, <3>4 DEF DqEmpty, AtRing, CallsOK
      <4> QED
        BY <1>1, <2>1, <4>1, GoOnStep
    <3>5. CASE DqWrap(t)
      <4>1. GoOn(t, keyb_char[t]) /\ ~ Waits(t) /\ call[t] # "none" /\ pc[t] = "wrap"
        BY <1>1, <3>5 DEF DqWrap, AtRing, CallsOK
      <4> QED
        BY <1>1, <2>1, <4>1, GoOnStep
    <3> QED
      BY <3>1, <3>2, <3>3, <3>4, <3>5 DEF OutsideRing
  <2> QED
    BY <2>2 DEF LinesDue
<1>6. ASSUME DqStore(t), curr_char[t] = Newline, call[t] # "char"
      PROVE  t \in LinesDue \ LinesDue'
  <2>1. /\ ~ Waits(t) /\ pc[t] = "store" /\ pc' = [pc EXCEPT ![t] = "wrap"]
        /\ keyb_char' = [keyb_char EXCEPT ![t] = curr_char[t]]
    BY <1>6 DEF DqStore, AtRing
  <2>2. call[t] \in {"line", "drain"}
    <3>1. call[t] # "none" /\ call[t] \in {"none", "char", "line", "drain"}
      BY <1>1, <2>1 DEF KBTypeOK, CallsOK
    <3> QED
      BY <1>6, <3>1
  <2>3. pc'[t] = "wrap" /\ keyb_char'[t] = Newline
    BY <1>1, <1>6, <2>1 DEF KBTypeOK
  <2> QED
    BY <2>1, <2>2, <2>3 DEF LinesDue
<1> QED
  BY <1>4, <1>5, <1>6

----------------------------------------------------------------------------
(* A line for everyone it is due to. *)

LinesEnough == ~ (lineLost \/ strayed) => Cardinality(LinesDue) =< Cardinality(LinesTyped)

LEMMA TypedNewlines ==
  /\ LinesTyped = Newlines(Typed) /\ LinesTyped' = Newlines(Typed')
BY DEF LinesTyped, Newlines

LEMMA KeyEnough ==
  ASSUME KBShape, KBShape', LinesEnough, NEW k \in Keys,
         KeyDropped(k) \/ KeyStored(k) \/ (KeyErases /\ k = Backspace)
  PROVE  LinesEnough'
<1> SUFFICES ASSUME ~ lineLost', ~ strayed'
             PROVE  Cardinality(LinesDue') =< Cardinality(LinesTyped')
  BY DEF LinesEnough
<1>1. WakeUp(k) /\ UNCHANGED locals /\ ~ strayed /\ ~ lineLost
  <2>1. WakeUp(k) /\ UNCHANGED locals /\ ~ strayed
    BY DEF KeyDropped, KeyStored, KeyErases, Key
  <2>2. lineLost \in BOOLEAN
    BY DEF KBShape, KBTypeOK
  <2>3. ~ lineLost
    BY <2>2 DEF KeyDropped, KeyStored, KeyErases
  <2> QED
    BY <2>1, <2>3
<1>2. PICK m : m = Cardinality(LinesDue)
  OBVIOUS
<1>3. PICK n : n = Cardinality(LinesTyped)
  OBVIOUS
<1>4. m \in Nat /\ n \in Nat /\ m =< n /\ Typed \in Seq(Given)
  BY <1>1, <1>2, <1>3, LinesDueFacts, TypedSeq, TypedNewlines, NewlinesFinite DEF LinesEnough
<1>5. Cardinality(LinesDue') =< m + (IF k = Newline THEN 1 ELSE 0)
  BY <1>1, <1>2, KeyDue
<1>6. Cardinality(LinesDue') \in Nat
  <2>1. LinesDue' \subseteq Readers
    BY DEF LinesDue
  <2> QED
    BY <2>1, KeyboardAssumption, FS_Subset, FS_CardinalityType
<1>7. Cardinality(LinesTyped') \in Nat /\ Cardinality(LinesTyped') >= n + (IF k = Newline THEN 1 ELSE 0)
  <2>1. CASE KeyDropped(k)
    <3>1. k # Newline /\ Typed' = Typed
      BY <2>1, TypedIsLine DEF KeyDropped, Key
    <3> QED
      BY <1>3, <1>4, <3>1, TypedNewlines
  <2>2. CASE KeyStored(k)
    <3>1. k \in Given
      BY DEF Given
    <3>2. Typed' = Append(Typed, k)
      BY <2>2, StoredLine
    <3>3. Cardinality(Newlines(Append(Typed, k))) = n + (IF k = Newline THEN 1 ELSE 0)
      BY <1>3, <1>4, <3>1, NewlinesOfAppend, TypedNewlines
    <3> QED
      BY <1>4, <3>2, <3>3, TypedNewlines
  <2>3. CASE KeyErases /\ k = Backspace
    <3>1. k # Newline
      BY <2>3 DEF Backspace, Newline
    <3>2. /\ Len(Typed) > 0 /\ Typed' = SubSeq(Typed, 1, Len(Typed) - 1)
          /\ Typed[Len(Typed)] = keys_ring_buffer[keys_head'] /\ keys_head' >= 0
      BY <2>3, ErasedLine
    <3>3. Typed[Len(Typed)] # Newline
      BY <2>3, <3>2 DEF KeyErases
    <3>4. PICK l \in Nat : l = Len(Typed)
      BY <1>4, LenProperties
    <3>5. Newlines(SubSeq(Typed, 1, l - 1)) = Newlines(Typed)
      BY <1>4, <3>2, <3>3, <3>4, NewlinesOfFront
    <3>6. LinesTyped' = LinesTyped
      BY <3>2, <3>4, <3>5, TypedNewlines
    <3> QED
      BY <1>3, <1>4, <3>1, <3>6
  <2> QED
    BY <2>1, <2>2, <2>3
<1> QED
  BY <1>4, <1>5, <1>6, <1>7

LEMMA ReaderEnough ==
  ASSUME KBShape, LinesEnough, NEW t \in Readers, OutsideRing(t) \/ DqStore(t) \/ DqWrap(t)
  PROVE  LinesEnough'
<1> SUFFICES ASSUME ~ lineLost', ~ strayed'
             PROVE  Cardinality(LinesDue') =< Cardinality(LinesTyped')
  BY DEF LinesEnough
<1>1. ~ strayed /\ ~ lineLost
  <2>1. ~ strayed
    BY DEF OutsideRing, GetChar, Return, ReadLine, DqEmpty, DqTest, DqTake, DqStore, DqWrap, AtRing
  <2>2. lineLost \in BOOLEAN
    BY DEF KBShape, KBTypeOK
  <2>3. CASE DqStore(t)
    BY <2>1, <2>2, <2>3 DEF DqStore
  <2>4. CASE OutsideRing(t) \/ DqWrap(t)
    <3>1. lineLost' = lineLost
      BY <2>4 DEF OutsideRing, GetChar, Return, ReadLine, DqEmpty, DqTest, DqTake, DqWrap, history
    <3> QED
      BY <2>1, <3>1
  <2> QED
    BY <2>3, <2>4
<1>2. PICK m : m = Cardinality(LinesDue)
  OBVIOUS
<1>3. PICK n : n = Cardinality(LinesTyped)
  OBVIOUS
<1>4. m \in Nat /\ n \in Nat /\ m =< n /\ Typed \in Seq(Given) /\ IsFiniteSet(LinesDue)
  BY <1>1, <1>2, <1>3, LinesDueFacts, TypedSeq, TypedNewlines, NewlinesFinite DEF LinesEnough
<1>5. /\ LinesDue' \subseteq LinesDue
      /\ DqStore(t) /\ curr_char[t] = Newline /\ call[t] # "char" => t \in LinesDue \ LinesDue'
  BY ReaderDue
<1>6. PICK d : d = Cardinality(LinesDue')
  OBVIOUS
<1>7. d \in Nat /\ d =< m
  BY <1>2, <1>4, <1>5, <1>6, FS_Subset, FS_CardinalityType
<1>8. CASE OutsideRing(t) \/ DqWrap(t)
  <2>1. LinesTyped' = LinesTyped
    BY <1>8, SameLine, WrappedLine, TypedNewlines
  <2> QED
    BY <1>3, <1>4, <1>6, <1>7, <2>1
<1>9. CASE DqStore(t)
  <2>1. /\ Typed # <<>> /\ Typed' = Tail(Typed) /\ Typed[1] = curr_char[t]
    BY <1>9, TakenLine
  <2>2. PICK e : e = Cardinality(LinesTyped')
    OBVIOUS
  <2>3. e = n - (IF curr_char[t] = Newline THEN 1 ELSE 0)
    BY <1>3, <1>4, <2>1, <2>2, NewlinesOfTail, TypedNewlines
  <2>4. CASE curr_char[t] # Newline
    BY <1>4, <1>6, <1>7, <2>2, <2>3, <2>4
  <2>5. CASE curr_char[t] = Newline
    <3>1. call[t] # "char"
      BY <1>9, <2>5 DEF DqStore
    <3>2. t \in LinesDue \ LinesDue'
      BY <1>5, <1>9, <2>5, <3>1
    <3>3. LinesDue' \subseteq LinesDue \ {t}
      BY <1>5, <3>2
    <3>4. IsFiniteSet(LinesDue \ {t}) /\ Cardinality(LinesDue \ {t}) = m - 1
      BY <1>2, <1>4, <3>2, FS_RemoveElement
    <3>5. d =< m - 1
      BY <1>6, <3>3, <3>4, FS_Subset
    <3> QED
      BY <1>4, <1>6, <1>7, <2>2, <2>3, <2>5, <3>5
  <2> QED
    BY <2>4, <2>5
<1> QED
  BY <1>8, <1>9

\* The inductive invariant: the shape, and a line for every reader it is due to.
KBInv == KBShape /\ LinesEnough

LEMMA KBInitInv == KBInit => KBInv
<1> SUFFICES ASSUME KBInit
             PROVE  LinesEnough
  BY KBInitShape DEF KBInv
<1>1. LinesDue = {}
  BY DEF KBInit, LinesDue
<1>2. Cardinality(LinesDue) = 0
  BY <1>1, FS_EmptySet
<1>3. Cardinality(LinesTyped) \in Nat
  <2>1. Typed \in Seq(Given)
    BY KBInitShape, TypedSeq DEF KBInit
  <2> QED
    BY <2>1, TypedNewlines, NewlinesFinite
<1> QED
  BY <1>2, <1>3 DEF LinesEnough

LEMMA KBNextInv == KBInv /\ [KBNext]_keyvars => KBInv'
<1> SUFFICES ASSUME KBShape, LinesEnough, [KBNext]_keyvars
             PROVE  LinesEnough'
  BY KBNextShape DEF KBInv
<1>0. KBShape'
  BY KBNextShape
<1>1. CASE UNCHANGED keyvars
  <2>1. LinesDue' = LinesDue /\ lineLost' = lineLost /\ strayed' = strayed
    BY <1>1 DEF keyvars, ringvars, semvars, locals, history, LinesDue, Waits
  <2>2. LinesTyped' = LinesTyped
    BY <1>1 DEF keyvars, ringvars, LinesTyped, Typed
  <2> QED
    BY <2>1, <2>2 DEF LinesEnough
<1>2. ASSUME NEW k \in Keys, KeyDropped(k) \/ KeyStored(k)
      PROVE  LinesEnough'
  BY <1>0, <1>2, KeyEnough
<1>3. CASE KeyErases
  <2>1. Backspace \in Keys
    BY DEF Keys
  <2> QED
    BY <1>0, <1>3, <2>1, KeyEnough
<1>4. ASSUME NEW t \in Readers, OutsideRing(t) \/ DqStore(t) \/ DqWrap(t)
      PROVE  LinesEnough'
  BY <1>4, ReaderEnough
<1> QED
  BY <1>1, <1>2, <1>3, <1>4 DEF KBNext, OutsideRing

\* The invariant holds of every behaviour of the driver.
THEOREM KBInvHolds == KBSpec => []KBInv
<1> QED
  BY KBInitInv, KBNextInv, PTL DEF KBSpec

LEMMA KBInvIsShape == KBInv => KeyTypeOK
<1> SUFFICES ASSUME KBInv
             PROVE  KeyTypeOK
  OBVIOUS
<1>1. KBTypeOK /\ SemsOK /\ RingOK
  BY DEF KBInv, KBShape
<1>2. /\ Len(wait_for_chars.queue) = IF wait_for_chars.count < 0 THEN -wait_for_chars.count ELSE 0
      /\ Len(wait_for_readline.queue) = IF wait_for_readline.count < 0 THEN -wait_for_readline.count ELSE 0
  BY <1>1 DEF SemsOK, SemShapeOK
<1>3. keyb_char \in [Readers -> Keys \cup {Nul, NoChar, None}]
  <2>1. Given \cup {NoChar, None} = Keys \cup {Nul, NoChar, None}
    BY DEF Given
  <2> QED
    BY <1>1, <2>1 DEF KBTypeOK
<1>4. /\ keys_ring_buffer \in [Index -> Keys \cup {Nul}]
      /\ keys_head \in -1..(Size - 1) /\ keys_tail \in 0..Size
      /\ pc \in [Readers -> {"user", "test", "take", "store", "wrap", "return"}]
      /\ call \in [Readers -> {"none", "char", "line", "drain"}]
  BY <1>1 DEF KBTypeOK, KPlaces, Given
<1>5. keys_tail = Size => \E t \in Readers : pc[t] = "wrap"
  BY <1>1 DEF RingOK
<1> QED
  BY <1>2, <1>3, <1>4, <1>5 DEF KeyTypeOK

\* Whatever the readers and the keys: a thread started for a line finds one
\* (keyb_driver.c:337-360 against 390-395), unless a '\n' was dropped, erased
\* or read by getchar, or two have met inside the ring.
THEOREM LinesForReadersHolds == KBSpec => []LinesForReaders
<1>1. KBInv => LinesForReaders
  BY KBInvIsShape DEF KBInv, LinesEnough, LinesForReaders
<1> QED
  BY <1>1, KBInvHolds, PTL

----------------------------------------------------------------------------
(* The ring implements the line buffer. *)

LEMMA KBInitLine == KBInit => LB!LBInit
<1> SUFFICES ASSUME KBInit
             PROVE  LB!LBInit
  OBVIOUS
<1>1. Typed = <<>>
  BY KBInitShape, TypedSeq DEF KBInit
<1> QED
  BY <1>1 DEF KBInit, LB!LBInit

LEMMA KBStepLine ==
  ASSUME KBInv, [KBNext]_keyvars, ~ strayed'
  PROVE  LB!LBNext \/ UNCHANGED LB!lbvars
<1>0. KBShape
  BY DEF KBInv
<1>1. CASE UNCHANGED keyvars
  BY <1>1 DEF keyvars, ringvars, locals, Typed, LB!lbvars
<1>2. ASSUME NEW k \in Keys, KeyDropped(k)
      PROVE  UNCHANGED LB!lbvars
  BY <1>2, TypedIsLine DEF KeyDropped, Key, locals, LB!lbvars
<1>3. ASSUME NEW k \in Keys, KeyStored(k)
      PROVE  LB!LBNext
  <2>1. Typed' = Append(Typed, k) /\ Len(Typed) # Size - 1
    BY <1>0, <1>3, StoredLine
  <2>2. k # Backspace /\ keyb_char' = keyb_char
    BY <1>3 DEF KeyStored, Key, locals
  <2>3. LB!Type(k)
    BY <2>1, <2>2 DEF LB!Type, LB!Full
  <2> QED
    BY <2>3 DEF LB!LBNext
<1>4. CASE KeyErases
  <2>1. /\ Len(Typed) > 0 /\ Typed' = SubSeq(Typed, 1, Len(Typed) - 1)
    BY <1>0, <1>4, ErasedLine
  <2>2. Typed # <<>>
    BY <2>1, EmptySeq
  <2>3. keyb_char' = keyb_char
    BY <1>4 DEF KeyErases, Key, locals
  <2>4. LB!Erase
    BY <2>1, <2>2, <2>3 DEF LB!Erase
  <2> QED
    BY <2>4 DEF LB!LBNext
<1>5. ASSUME NEW t \in Readers, OutsideRing(t) \/ DqStore(t) \/ DqWrap(t)
      PROVE  LB!LBNext \/ UNCHANGED LB!lbvars
  <2>1. CASE GetChar(t) \/ \E len \in Lens : ReadLine(t, len)
    <3>1. keyb_char' = [keyb_char EXCEPT ![t] = None]
      BY <2>1 DEF GetChar, ReadLine
    <3>2. Typed' = Typed
      BY <2>1, SameLine DEF OutsideRing
    <3>3. LB!Begin(t)
      BY <3>1, <3>2 DEF LB!Begin
    <3> QED
      BY <3>3 DEF LB!LBNext
  <2>2. CASE DqEmpty(t)
    <3>1. /\ keyb_char' = [keyb_char EXCEPT ![t] = NoChar]
          /\ ~ strayed /\ keys_head = keys_tail
      BY <2>2 DEF DqEmpty, AtRing, LooksEmpty
    <3>2. Typed' = Typed /\ Typed = <<>>
      BY <1>0, <2>2, <3>1, SameLine, TypedSeq DEF OutsideRing
    <3>3. LB!Miss(t)
      BY <3>1, <3>2 DEF LB!Miss
    <3> QED
      BY <3>3 DEF LB!LBNext
  <2>3. CASE DqStore(t)
    <3>1. /\ Typed # <<>> /\ Typed' = Tail(Typed) /\ Head(Typed) = curr_char[t]
      BY <1>0, <2>3, TakenLine
    <3>2. keyb_char' = [keyb_char EXCEPT ![t] = curr_char[t]]
      BY <2>3 DEF DqStore
    <3>3. LB!Take(t)
      BY <3>1, <3>2 DEF LB!Take
    <3> QED
      BY <3>3 DEF LB!LBNext
  <2>4. CASE Return(t) \/ DqTest(t) \/ DqTake(t) \/ DqWrap(t)
    <3>1. keyb_char' = keyb_char
      BY <2>4 DEF Return, DqTest, DqTake, DqWrap
    <3>2. Typed' = Typed
      BY <1>0, <2>4, SameLine, WrappedLine DEF OutsideRing
    <3> QED
      BY <3>1, <3>2 DEF LB!lbvars
  <2> QED
    BY <1>5, <2>1, <2>2, <2>3, <2>4 DEF OutsideRing
<1> QED
  BY <1>1, <1>2, <1>3, <1>4, <1>5 DEF KBNext, OutsideRing

\* Whatever the readers and the keys, the ring is a line buffer of Size - 1
\* characters (keyb_driver.c:129-180) up to the step at which two meet in it.
THEOREM ImplementsLineBufferHolds == KBSpec => ImplementsLineBuffer
<1>1. KBInit => LB!LBInit
  BY KBInitLine
<1>2. KBInv /\ [KBNext]_keyvars => [~ strayed' => LB!LBNext]_(LB!lbvars)
  BY KBStepLine
<1> QED
  BY <1>1, <1>2, KBInvHolds, PTL DEF KBSpec, ImplementsLineBuffer
=============================================================================
