------------------------ MODULE VariableQueueProofs ------------------------
(***************************************************************************)
(* What the macros of variable_queue.h do to lists, for any elements and   *)
(* any queues threaded through one link field: facts about the operators   *)
(* of VariableQueue, for every module that uses them.                      *)
(***************************************************************************)
EXTENDS VariableQueue, SequenceTheorems, FiniteSetTheorems, TLAPS

\* The links nx and pv through h are the list s.
Ring(nx, pv, h, s) ==
  \A i \in 0..Len(s) : /\ nx[Stop(h, s, i)] = Stop(h, s, i + 1)
                       /\ pv[Stop(h, s, i + 1)] = Stop(h, s, i)

NoRepeats(s) == \A i, j \in 1..Len(s) : s[i] = s[j] => i = j

\* A link field of every node.
Links == [Nodes -> Nodes]

\* t is s with e after its k-th member.
Insertion(s, k, e, t) ==
  /\ Len(t) = Len(s) + 1
  /\ \A i \in 1..Len(t) :
       t[i] = IF i <= k THEN s[i] ELSE IF i = k + 1 THEN e ELSE s[i - 1]

\* t is s without its k-th member.
Removal(s, k, t) ==
  /\ Len(t) = Len(s) - 1
  /\ \A i \in 1..Len(t) : t[i] = IF i < k THEN s[i] ELSE s[i + 1]

----------------------------------------------------------------------------
(* Lists. *)

\* Append is an insertion at the end.
LEMMA AppendInserts ==
  ASSUME NEW s \in Seq(Elems), NEW e \in Elems
  PROVE  Append(s, e) \in Seq(Elems) /\ Insertion(s, Len(s), e, Append(s, e))
<1>1. /\ Append(s, e) \in Seq(Elems)
      /\ Len(Append(s, e)) = Len(s) + 1
      /\ \A i \in 1..Len(s) : Append(s, e)[i] = s[i]
      /\ Append(s, e)[Len(s) + 1] = e
  BY AppendProperties
<1>2. Len(s) \in Nat
  BY LenProperties
<1> QED
  BY <1>1, <1>2 DEF Insertion

\* Putting an element before a list is an insertion at its front.
LEMMA FrontInserts ==
  ASSUME NEW s \in Seq(Elems), NEW e \in Elems
  PROVE  <<e>> \o s \in Seq(Elems) /\ Insertion(s, 0, e, <<e>> \o s)
<1>1. <<e>> \in Seq(Elems) /\ Len(<<e>>) = 1 /\ <<e>>[1] = e
  OBVIOUS
<1>2. /\ <<e>> \o s \in Seq(Elems)
      /\ Len(<<e>> \o s) = 1 + Len(s)
      /\ \A i \in 1..1 + Len(s) :
           (<<e>> \o s)[i] = IF i <= 1 THEN <<e>>[i] ELSE s[i - 1]
  BY <1>1, ConcatProperties
<1>3. Len(s) \in Nat
  BY LenProperties
<1> QED
  BY <1>1, <1>2, <1>3 DEF Insertion

----------------------------------------------------------------------------
(* Rings. *)

\* The stops of a ring are its head, at both ends, and its members between.
LEMMA StopsOfRing ==
  ASSUME NEW h \in Heads, NEW s \in Seq(Elems)
  PROVE  /\ Len(s) \in Nat
         /\ \A i \in 1..Len(s) : s[i] \in Elems /\ s[i] \notin Heads
         /\ \A i \in 1..Len(s) : Stop(h, s, i) = s[i]
         /\ Stop(h, s, 0) = h /\ Stop(h, s, Len(s) + 1) = h
         /\ \A i \in 0..Len(s) + 1 : Stop(h, s, i) \in Nodes /\ ~ Foreign(h, Stop(h, s, i))
<1>1. Len(s) \in Nat /\ \A i \in 1..Len(s) : s[i] \in Elems
  BY LenProperties, ElementOfSeq
<1> QED
  BY <1>1, QueueAssumption DEF Stop, Nodes, Foreign

\* Linking e in after the k-th member makes a ring of the longer list.
LEMMA RingOfInsertion ==
  ASSUME NEW nx \in Links, NEW pv \in Links, NEW h \in Heads,
         NEW s \in Seq(Elems), NEW t \in Seq(Elems), NEW e \in Elems, NEW k \in 0..Len(s),
         Ring(nx, pv, h, s), NoRepeats(s), Insertion(s, k, e, t),
         \A i \in 1..Len(s) : s[i] # e
  PROVE  LET a == Stop(h, s, k)
             b == Stop(h, s, k + 1)
         IN  /\ Ring([[nx EXCEPT ![e] = b] EXCEPT ![a] = e],
                     [[pv EXCEPT ![e] = a] EXCEPT ![b] = e], h, t)
             /\ NoRepeats(t)
<1> DEFINE a == Stop(h, s, k)
           b == Stop(h, s, k + 1)
           nx2 == [[nx EXCEPT ![e] = b] EXCEPT ![a] = e]
           pv2 == [[pv EXCEPT ![e] = a] EXCEPT ![b] = e]
           n == Len(s)
<1>1. n \in Nat /\ Len(t) = n + 1 /\ e \in Nodes /\ e # h
  BY StopsOfRing, QueueAssumption DEF Insertion, Nodes
<1>2. /\ \A i \in 1..n : s[i] \in Elems /\ s[i] # e /\ s[i] # h
      /\ \A i \in 0..n + 1 : Stop(h, s, i) \in Nodes /\ Stop(h, s, i) # e
  <2>1. \A i \in 0..n + 1 : Stop(h, s, i) \in Nodes
    BY StopsOfRing
  <2>2. \A i \in 1..n : s[i] \in Elems /\ s[i] # e /\ s[i] # h
    BY StopsOfRing, QueueAssumption
  <2> QED
    BY <2>1, <2>2, <1>1 DEF Stop
<1>3. /\ \A i \in 0..k : Stop(h, t, i) = Stop(h, s, i)
      /\ Stop(h, t, k + 1) = e
      /\ \A i \in k + 2..n + 2 : Stop(h, t, i) = Stop(h, s, i - 1)
  <2>1. \A i \in 1..n + 1 : t[i] = IF i <= k THEN s[i] ELSE IF i = k + 1 THEN e ELSE s[i - 1]
    BY <1>1 DEF Insertion
  <2>2. k \in 0..n
    OBVIOUS
  <2> HIDE DEF n
  <2> QED
    BY <2>1, <2>2, <1>1 DEF Stop, n
<1>4. /\ \A i \in 0..n : Stop(h, s, i) = a => i = k
      /\ \A i \in 1..n + 1 : Stop(h, s, i) = b => i = k + 1
  BY <1>1, <1>2 DEF Stop, NoRepeats
<1>5. a \in Nodes /\ b \in Nodes /\ a # e /\ b # e
  BY <1>1, <1>2
<1>6. /\ nx2[e] = b /\ nx2[a] = e /\ pv2[e] = a /\ pv2[b] = e
      /\ \A u \in Nodes : u # e /\ u # a => nx2[u] = nx[u]
      /\ \A u \in Nodes : u # e /\ u # b => pv2[u] = pv[u]
  BY <1>1, <1>5 DEF Links
<1>7. /\ \A i \in 0..n : nx[Stop(h, s, i)] = Stop(h, s, i + 1)
      /\ \A i \in 0..n : pv[Stop(h, s, i + 1)] = Stop(h, s, i)
  BY DEF Ring
<1>8. NoRepeats(t)
  <2>1. ASSUME NEW i \in 1..n + 1, NEW j \in 1..n + 1, t[i] = t[j]
        PROVE  i = j
    <3> DEFINE m(x) == IF x <= k THEN x ELSE x - 1
    <3>1. \A x \in 1..n + 1 : x # k + 1 => t[x] = s[m(x)] /\ m(x) \in 1..n
      BY <1>1 DEF Insertion
    <3>2. t[k + 1] = e
      BY <1>1 DEF Insertion
    <3>3. CASE i = k + 1
      BY <2>1, <3>1, <3>2, <3>3, <1>2
    <3>4. CASE j = k + 1
      BY <2>1, <3>1, <3>2, <3>4, <1>2
    <3>5. CASE i # k + 1 /\ j # k + 1
      <4>1. m(i) = m(j)
        BY <2>1, <3>1, <3>5 DEF NoRepeats
      <4> QED
        BY <4>1, <3>5, <1>1
    <3> QED
      BY <3>3, <3>4, <3>5
  <2> QED
    BY <2>1, <1>1 DEF NoRepeats
<1> HIDE DEF nx2, pv2, a, b
<1>9. ASSUME NEW i \in 0..n + 1
      PROVE  /\ nx2[Stop(h, t, i)] = Stop(h, t, i + 1)
             /\ pv2[Stop(h, t, i + 1)] = Stop(h, t, i)
  <2>1. CASE i < k
    <3>1. Stop(h, t, i) = Stop(h, s, i) /\ Stop(h, t, i + 1) = Stop(h, s, i + 1)
      BY <2>1, <1>1, <1>3
    <3>2. Stop(h, s, i) # a /\ Stop(h, s, i + 1) # b
      BY <2>1, <1>1, <1>4
    <3>3. Stop(h, s, i) \in Nodes \ {e} /\ Stop(h, s, i + 1) \in Nodes \ {e}
      BY <2>1, <1>1, <1>2
    <3> QED
      BY <2>1, <3>1, <3>2, <3>3, <1>1, <1>6, <1>7
  <2>2. CASE i = k
    BY <2>2, <1>1, <1>3, <1>6 DEF a
  <2>3. CASE i = k + 1
    <3>1. Stop(h, t, i + 1) = b
      BY <2>3, <1>1, <1>3 DEF b
    <3>2. Stop(h, t, i) = e
      BY <2>3, <1>3
    <3> QED
      BY <3>1, <3>2, <1>6
  <2>4. CASE i > k + 1
    <3>1. Stop(h, t, i) = Stop(h, s, i - 1) /\ Stop(h, t, i + 1) = Stop(h, s, i)
      BY <2>4, <1>1, <1>3
    <3>2. Stop(h, s, i - 1) # a /\ Stop(h, s, i) # b
      BY <2>4, <1>1, <1>4
    <3>3. Stop(h, s, i - 1) \in Nodes \ {e} /\ Stop(h, s, i) \in Nodes \ {e}
      BY <2>4, <1>1, <1>2
    <3>4. nx[Stop(h, s, i - 1)] = Stop(h, s, i) /\ pv[Stop(h, s, i)] = Stop(h, s, i - 1)
      BY <2>4, <1>1, <1>7
    <3> QED
      BY <3>1, <3>2, <3>3, <3>4, <1>6
  <2> QED
    BY <2>1, <2>2, <2>3, <2>4, <1>1
<1>10. Ring(nx2, pv2, h, t)
  BY <1>9, <1>1 DEF Ring
<1> QED
  BY <1>8, <1>10 DEF nx2, pv2, a, b

\* Taking the k-th member out makes a ring of the shorter list.
LEMMA RingOfRemoval ==
  ASSUME NEW nx \in Links, NEW pv \in Links, NEW h \in Heads,
         NEW s \in Seq(Elems), NEW t \in Seq(Elems), NEW k \in 1..Len(s),
         Ring(nx, pv, h, s), NoRepeats(s), Removal(s, k, t)
  PROVE  LET a == Stop(h, s, k - 1)
             b == Stop(h, s, k + 1)
         IN  /\ Ring([[nx EXCEPT ![a] = b] EXCEPT ![s[k]] = s[k]],
                     [[pv EXCEPT ![b] = a] EXCEPT ![s[k]] = s[k]], h, t)
             /\ NoRepeats(t)
<1> DEFINE a == Stop(h, s, k - 1)
           b == Stop(h, s, k + 1)
           e == s[k]
           nx2 == [[nx EXCEPT ![a] = b] EXCEPT ![e] = e]
           pv2 == [[pv EXCEPT ![b] = a] EXCEPT ![e] = e]
           n == Len(s)
<1>1. n \in Nat /\ Len(t) = n - 1 /\ e \in Elems /\ e \in Nodes /\ e # h /\ Stop(h, s, k) = e
  BY StopsOfRing, QueueAssumption DEF Removal, Nodes
<1>2. /\ \A i \in 1..n : s[i] \in Elems /\ s[i] # h
      /\ \A i \in 0..n + 1 : Stop(h, s, i) \in Nodes
  BY StopsOfRing, QueueAssumption
<1>3. /\ \A i \in 0..k - 1 : Stop(h, t, i) = Stop(h, s, i)
      /\ \A i \in k..n : Stop(h, t, i) = Stop(h, s, i + 1)
  <2>1. \A i \in 1..n - 1 : t[i] = IF i < k THEN s[i] ELSE s[i + 1]
    BY <1>1 DEF Removal
  <2>2. k \in 1..n
    OBVIOUS
  <2> HIDE DEF n
  <2> QED
    BY <2>1, <2>2, <1>1 DEF Stop, n
<1>4. /\ \A i \in 0..n : Stop(h, s, i) = a => i = k - 1
      /\ \A i \in 1..n + 1 : Stop(h, s, i) = b => i = k + 1
      /\ \A i \in 0..n + 1 : Stop(h, s, i) = e => i = k
  BY <1>1, <1>2 DEF Stop, NoRepeats
<1>5. a \in Nodes /\ b \in Nodes /\ a # e /\ b # e
  BY <1>1, <1>2, <1>4
<1>6. /\ nx2[a] = b /\ pv2[b] = a
      /\ \A u \in Nodes : u # e /\ u # a => nx2[u] = nx[u]
      /\ \A u \in Nodes : u # e /\ u # b => pv2[u] = pv[u]
  BY <1>1, <1>5 DEF Links
<1>7. /\ \A i \in 0..n : nx[Stop(h, s, i)] = Stop(h, s, i + 1)
      /\ \A i \in 0..n : pv[Stop(h, s, i + 1)] = Stop(h, s, i)
  BY DEF Ring
<1>8. NoRepeats(t)
  <2>1. \A i \in 1..n - 1 : t[i] = IF i < k THEN s[i] ELSE s[i + 1]
    BY <1>1 DEF Removal
  <2> QED
    BY <2>1, <1>1 DEF NoRepeats
<1> HIDE DEF nx2, pv2, a, b, e
<1>9. ASSUME NEW i \in 0..n - 1
      PROVE  /\ nx2[Stop(h, t, i)] = Stop(h, t, i + 1)
             /\ pv2[Stop(h, t, i + 1)] = Stop(h, t, i)
  <2>1. CASE i < k - 1
    <3>1. Stop(h, t, i) = Stop(h, s, i) /\ Stop(h, t, i + 1) = Stop(h, s, i + 1)
      BY <2>1, <1>1, <1>3
    <3>2. /\ Stop(h, s, i) # a /\ Stop(h, s, i + 1) # b
          /\ Stop(h, s, i) # e /\ Stop(h, s, i + 1) # e
      BY <2>1, <1>1, <1>4
    <3>3. Stop(h, s, i) \in Nodes /\ Stop(h, s, i + 1) \in Nodes
      BY <2>1, <1>1, <1>2
    <3> QED
      BY <3>1, <3>2, <3>3, <1>1, <1>6, <1>7
  <2>2. CASE i = k - 1
    <3>1. Stop(h, t, i) = a /\ Stop(h, t, i + 1) = b
      BY <2>2, <1>1, <1>3 DEF a, b
    <3> QED
      BY <3>1, <1>6
  <2>3. CASE i > k - 1
    <3>1. Stop(h, t, i) = Stop(h, s, i + 1) /\ Stop(h, t, i + 1) = Stop(h, s, i + 2)
      BY <2>3, <1>1, <1>3
    <3>2. /\ Stop(h, s, i + 1) # a /\ Stop(h, s, i + 2) # b
          /\ Stop(h, s, i + 1) # e /\ Stop(h, s, i + 2) # e
      BY <2>3, <1>1, <1>4
    <3>3. Stop(h, s, i + 1) \in Nodes /\ Stop(h, s, i + 2) \in Nodes
      BY <2>3, <1>1, <1>2
    <3>4. nx[Stop(h, s, i + 1)] = Stop(h, s, i + 2) /\ pv[Stop(h, s, i + 2)] = Stop(h, s, i + 1)
      BY <2>3, <1>1, <1>7
    <3> QED
      BY <3>1, <3>2, <3>3, <3>4, <1>6
  <2>4. i < k - 1 \/ i = k - 1 \/ i > k - 1
    BY <1>1
  <2> QED
    BY <2>1, <2>2, <2>3, <2>4
<1>10. Ring(nx2, pv2, h, t)
  BY <1>9, <1>1 DEF Ring
<1> QED
  BY <1>8, <1>10 DEF nx2, pv2, a, b, e

----------------------------------------------------------------------------
(* Several rings. *)

\* Element e is on the list that L has for h, and on no list of L.
Holds(L, h, e) == \E i \in 1..Len(L[h]) : L[h][i] = e
Free(L, e) == \A h \in Heads : ~ Holds(L, h, e)

\* No element is on two lists.
ApartIn(L) ==
  \A g, h \in Heads : \A i \in 1..Len(L[g]), j \in 1..Len(L[h]) :
    L[g][i] = L[h][j] => g = h

\* An element on no list is linked to itself.
UnlinkedIn(r, L) == \A e \in Elems : Free(L, e) => QElemStandAlone(r, e)

\* The links of r are the lists of L.
Rings(r, L) ==
  /\ r \in Queues /\ L \in [Heads -> Seq(Elems)]
  /\ ~ r.wild /\ \A h \in Heads : Represents(r, h, L[h])
  /\ ApartIn(L) /\ UnlinkedIn(r, L)

\* Represents, in the words of the lemmas.
LEMMA RepresentsIsRing ==
  ASSUME NEW r, NEW h \in Heads, NEW s \in Seq(Elems)
  PROVE  Represents(r, h, s) <=> r.nr[h] = Len(s) /\ NoRepeats(s) /\ Ring(r.next, r.prev, h, s)
BY DEF Represents, NoRepeats, Ring

\* The stops of two rings are different nodes, and so is an element on none.
LEMMA StopsApart ==
  ASSUME NEW r, NEW L, Rings(r, L), NEW g \in Heads, NEW h \in Heads, g # h
  PROVE  /\ \A i \in 0..Len(L[g]) + 1, j \in 0..Len(L[h]) + 1 :
              Stop(g, L[g], i) # Stop(h, L[h], j)
         /\ \A e \in Elems : Free(L, e) =>
              \A i \in 0..Len(L[g]) + 1 : Stop(g, L[g], i) # e
<1>1. L[g] \in Seq(Elems) /\ L[h] \in Seq(Elems)
  BY DEF Rings
<1>2. /\ \A i \in 1..Len(L[g]) : L[g][i] \in Elems
      /\ \A i \in 1..Len(L[h]) : L[h][i] \in Elems
  BY <1>1, StopsOfRing
<1>3. \A i \in 1..Len(L[g]), j \in 1..Len(L[h]) : L[g][i] # L[h][j]
  BY DEF Rings, ApartIn
<1>4. \A i \in 0..Len(L[g]) + 1, j \in 0..Len(L[h]) + 1 :
        Stop(g, L[g], i) # Stop(h, L[h], j)
  BY <1>2, <1>3, QueueAssumption DEF Stop
<1>5. \A e \in Elems : Free(L, e) =>
        \A i \in 0..Len(L[g]) + 1 : Stop(g, L[g], i) # e
  BY QueueAssumption DEF Stop, Free, Holds
<1> QED
  BY <1>4, <1>5

\* A step that links e in after the k-th member of the list of h.
LEMMA InsertionStep ==
  ASSUME NEW r, NEW L, Rings(r, L), NEW h \in Heads, NEW e \in Elems, Free(L, e),
         NEW k \in 0..Len(L[h]), NEW t \in Seq(Elems), Insertion(L[h], k, e, t),
         NEW a, NEW b, a = Stop(h, L[h], k), b = Stop(h, L[h], k + 1),
         NEW r2, NEW L2, r2 = [next |-> [[r.next EXCEPT ![e] = b] EXCEPT ![a] = e],
               prev |-> [[r.prev EXCEPT ![e] = a] EXCEPT ![b] = e],
               nr |-> [r.nr EXCEPT ![h] = @ + 1], wild |-> FALSE],
         L2 = [L EXCEPT ![h] = t]
  PROVE  Rings(r2, L2)
<1> DEFINE s == L[h]
<1>1. /\ r.next \in Links /\ r.prev \in Links /\ r.nr \in [Heads -> Nat]
      /\ L \in [Heads -> Seq(Elems)] /\ s \in Seq(Elems)
  BY DEF Rings, Queues, Links
<1>2. /\ Len(s) \in Nat /\ a \in Nodes /\ b \in Nodes
      /\ \A i \in 1..Len(s) : s[i] \in Elems
  BY <1>1, StopsOfRing
<1>3. e \in Nodes /\ e \notin Heads /\ \A i \in 1..Len(s) : s[i] # e
  BY QueueAssumption DEF Nodes, Free, Holds
<1>4. /\ r2.next \in Links /\ r2.prev \in Links /\ r2.nr \in [Heads -> Nat] /\ ~ r2.wild
      /\ r2.nr[h] = r.nr[h] + 1 /\ \A g \in Heads \ {h} : r2.nr[g] = r.nr[g]
      /\ \A u \in Nodes \ {a, b, e} : r2.next[u] = r.next[u] /\ r2.prev[u] = r.prev[u]
  <2>1. r2.next \in Links /\ r2.prev \in Links
    BY <1>1, <1>2, <1>3 DEF Links
  <2>2. \A u \in Nodes \ {a, b, e} : r2.next[u] = r.next[u] /\ r2.prev[u] = r.prev[u]
    BY <1>1, <1>2, <1>3 DEF Links
  <2>3. r2.nr = [r.nr EXCEPT ![h] = @ + 1] /\ r2.wild = FALSE
    OBVIOUS
  <2>4. /\ r2.nr \in [Heads -> Nat] /\ r2.nr[h] = r.nr[h] + 1
        /\ \A g \in Heads \ {h} : r2.nr[g] = r.nr[g]
    BY <2>3, <1>1
  <2> QED
    BY <2>1, <2>2, <2>3, <2>4
<1>5. r2 \in Queues /\ L2 \in [Heads -> Seq(Elems)]
  <2>1. r2 \in Queues
    BY <1>4 DEF Queues, Links
  <2>2. L2 \in [Heads -> Seq(Elems)]
    BY <1>1
  <2> QED
    BY <2>1, <2>2 DEF Rings
<1>6. \A g \in Heads : Represents(r, g, L[g])
  BY DEF Rings
<1>7. Represents(r2, h, L2[h])
  <2>1. r.nr[h] = Len(s) /\ NoRepeats(s) /\ Ring(r.next, r.prev, h, s)
    BY <1>1, <1>6, RepresentsIsRing
  <2>2. Ring(r2.next, r2.prev, h, t) /\ NoRepeats(t)
    BY <2>1, <1>1, <1>3, RingOfInsertion
  <2>3. r2.nr[h] = Len(t)
    BY <2>1, <1>1, <1>4 DEF Insertion
  <2> QED
    BY <2>2, <2>3, <1>1, RepresentsIsRing
<1>8. ASSUME NEW g \in Heads, g # h
      PROVE  Represents(r2, g, L2[g])
  <2>1. L2[g] = L[g] /\ L[g] \in Seq(Elems)
    BY <1>1, <1>8
  <2>2. r.nr[g] = Len(L[g]) /\ NoRepeats(L[g]) /\ Ring(r.next, r.prev, g, L[g])
    BY <2>1, <1>6, RepresentsIsRing
  <2>3. \A i \in 0..Len(L[g]) + 1 : Stop(g, L[g], i) \notin {a, b, e}
    <3>1. /\ \A i \in 0..Len(L[g]) + 1, j \in 0..Len(L[h]) + 1 :
               Stop(g, L[g], i) # Stop(h, L[h], j)
          /\ \A i \in 0..Len(L[g]) + 1 : Stop(g, L[g], i) # e
      BY <1>8, StopsApart
    <3>2. k \in 0..Len(L[h]) + 1 /\ k + 1 \in 0..Len(L[h]) + 1
      BY <1>2
    <3> QED
      BY <3>1, <3>2
  <2>4. Ring(r2.next, r2.prev, g, L[g])
    <3>1. /\ Len(L[g]) \in Nat
          /\ \A i \in 0..Len(L[g]) + 1 : Stop(g, L[g], i) \in Nodes \ {a, b, e}
      BY <2>1, <2>3, StopsOfRing
    <3>2. ASSUME NEW i \in 0..Len(L[g])
          PROVE  /\ r2.next[Stop(g, L[g], i)] = Stop(g, L[g], i + 1)
                 /\ r2.prev[Stop(g, L[g], i + 1)] = Stop(g, L[g], i)
      <4>1. /\ Stop(g, L[g], i) \in Nodes \ {a, b, e}
            /\ Stop(g, L[g], i + 1) \in Nodes \ {a, b, e}
        BY <3>1, SMTT(30)
      <4>2. /\ r.next[Stop(g, L[g], i)] = Stop(g, L[g], i + 1)
            /\ r.prev[Stop(g, L[g], i + 1)] = Stop(g, L[g], i)
        BY <2>2 DEF Ring
      <4> QED
        BY <4>1, <4>2, <1>4
    <3> QED
      BY <3>2 DEF Ring
  <2> QED
    BY <2>1, <2>2, <2>4, <1>4, <1>8, RepresentsIsRing
<1>9. ~ r2.wild /\ \A g \in Heads : Represents(r2, g, L2[g])
  BY <1>4, <1>7, <1>8 DEF Rings
<1>10. \A i \in 1..Len(t) : t[i] = e \/ \E j \in 1..Len(s) : t[i] = s[j]
  <2>1. ASSUME NEW i \in 1..Len(t)
        PROVE  \/ t[i] = e
               \/ i \in 1..Len(s) /\ t[i] = s[i]
               \/ i - 1 \in 1..Len(s) /\ t[i] = s[i - 1]
    BY <1>2 DEF Insertion
  <2> QED
    BY <2>1
<1>11. /\ L2[h] = t /\ \A g \in Heads \ {h} : L2[g] = L[g]
       /\ \A g \in Heads : \A i \in 1..Len(L[g]) : L[g][i] # e
  BY <1>1 DEF Free, Holds
<1>12. ApartIn(L2)
  <2>1. ASSUME NEW g \in Heads \ {h}, NEW i \in 1..Len(L[g]), NEW j \in 1..Len(t)
        PROVE  L[g][i] # t[j]
    <3>1. L[g][i] # e
      BY <1>11
    <3>2. \A m \in 1..Len(s) : L[g][i] # s[m]
      BY DEF Rings, ApartIn
    <3> QED
      BY <1>10, <3>1, <3>2
  <2>2. \A g1, g2 \in Heads : \A i \in 1..Len(L[g1]), j \in 1..Len(L[g2]) :
          L[g1][i] = L[g2][j] => g1 = g2
    BY DEF Rings, ApartIn
  <2>3. ASSUME NEW g1 \in Heads, NEW g2 \in Heads, g1 # g2,
               NEW i \in 1..Len(L2[g1]), NEW j \in 1..Len(L2[g2])
        PROVE  L2[g1][i] # L2[g2][j]
    <3>1. CASE g1 = h
      BY <2>1, <2>3, <3>1, <1>11
    <3>2. CASE g2 = h
      BY <2>1, <2>3, <3>2, <1>11
    <3>3. CASE g1 # h /\ g2 # h
      BY <2>2, <2>3, <3>3, <1>11
    <3> QED
      BY <3>1, <3>2, <3>3
  <2> QED
    BY <2>3 DEF ApartIn
<1>13. UnlinkedIn(r2, L2)
  <2>1. ASSUME NEW u \in Elems, \A g \in Heads : \A i \in 1..Len(L2[g]) : L2[g][i] # u
        PROVE  QElemStandAlone(r2, u)
    <3>1. \A i \in 1..Len(t) : t[i] # u
      BY <2>1, <1>11
    <3>2. k + 1 \in 1..Len(t) /\ t[k + 1] = e
      BY <1>2 DEF Insertion
    <3>3. \A j \in 1..Len(s) : s[j] # u
      <4>1. ASSUME NEW j \in 1..Len(s)
            PROVE  \E i \in 1..Len(t) : t[i] = s[j]
        <5>1. CASE j <= k
          <6>1. j \in 1..Len(t) /\ t[j] = s[j]
            BY <5>1, <1>2 DEF Insertion
          <6> QED
            BY <6>1
        <5>2. CASE j > k
          <6>1. j + 1 \in 1..Len(t) /\ t[j + 1] = s[j]
            BY <5>2, <1>2 DEF Insertion
          <6> QED
            BY <6>1
        <5>3. j <= k \/ j > k
          BY <1>2
        <5> QED
          BY <5>1, <5>2, <5>3
      <4> QED
        BY <4>1, <3>1
    <3>4. u # e /\ u # a /\ u # b
      BY <3>1, <3>2, <3>3, QueueAssumption DEF Stop
    <3>5. Free(L, u)
      BY <2>1, <3>3, <1>11 DEF Free, Holds
    <3>6. r.next[u] = u /\ r.prev[u] = u
      BY <3>5 DEF Rings, UnlinkedIn, QElemStandAlone
    <3> QED
      BY <3>4, <3>6, <1>4 DEF QElemStandAlone, Nodes
  <2> QED
    BY <2>1 DEF UnlinkedIn, Free, Holds
<1> QED
  BY <1>5, <1>9, <1>12, <1>13 DEF Rings

\* A step that takes the k-th member out of the list of h.
LEMMA RemovalStep ==
  ASSUME NEW r, NEW L, Rings(r, L), NEW h \in Heads, NEW k \in 1..Len(L[h]), NEW t \in Seq(Elems),
         Removal(L[h], k, t),
         NEW a, NEW b, NEW e, e = L[h][k],
         a = Stop(h, L[h], k - 1), b = Stop(h, L[h], k + 1),
         NEW r2, NEW L2, r2 = [next |-> [[r.next EXCEPT ![a] = b] EXCEPT ![e] = e],
               prev |-> [[r.prev EXCEPT ![b] = a] EXCEPT ![e] = e],
               nr |-> [r.nr EXCEPT ![h] = @ - 1], wild |-> FALSE],
         L2 = [L EXCEPT ![h] = t]
  PROVE  Rings(r2, L2)
<1> DEFINE s == L[h]
<1>1. /\ r.next \in Links /\ r.prev \in Links /\ r.nr \in [Heads -> Nat]
      /\ L \in [Heads -> Seq(Elems)] /\ s \in Seq(Elems)
  BY DEF Rings, Queues, Links
<1>2. /\ Len(s) \in Nat /\ a \in Nodes /\ b \in Nodes /\ e \in Elems /\ e \in Nodes
      /\ \A i \in 1..Len(s) : s[i] \in Elems
      /\ Stop(h, s, k) = e
  <2>1. /\ Len(s) \in Nat
        /\ \A i \in 1..Len(s) : s[i] \in Elems
        /\ \A i \in 1..Len(s) : Stop(h, s, i) = s[i]
        /\ \A i \in 0..Len(s) + 1 : Stop(h, s, i) \in Nodes
    BY <1>1, StopsOfRing
  <2>2. k \in 1..Len(s) /\ e = s[k]
    OBVIOUS
  <2>3. k - 1 \in 0..Len(s) + 1 /\ k + 1 \in 0..Len(s) + 1
    BY <2>1, <2>2
  <2>4. a \in Nodes /\ b \in Nodes
    BY <2>1, <2>3
  <2> QED
    BY <2>1, <2>2, <2>4 DEF Nodes
<1>3. \A g \in Heads : Represents(r, g, L[g])
  BY DEF Rings
<1>4. r.nr[h] = Len(s) /\ NoRepeats(s) /\ Ring(r.next, r.prev, h, s)
  BY <1>1, <1>3, RepresentsIsRing
<1>5. /\ r2.next \in Links /\ r2.prev \in Links /\ r2.nr \in [Heads -> Nat] /\ ~ r2.wild
      /\ r2.nr[h] = Len(s) - 1 /\ \A g \in Heads \ {h} : r2.nr[g] = r.nr[g]
      /\ \A u \in Nodes \ {a, b, e} : r2.next[u] = r.next[u] /\ r2.prev[u] = r.prev[u]
      /\ r2.next[e] = e /\ r2.prev[e] = e
  <2>1. r2.next \in Links /\ r2.prev \in Links
    BY <1>1, <1>2 DEF Links
  <2>2. \A u \in Nodes \ {a, b, e} : r2.next[u] = r.next[u] /\ r2.prev[u] = r.prev[u]
    BY <1>1, <1>2 DEF Links
  <2>3. r2.nr = [r.nr EXCEPT ![h] = @ - 1] /\ r2.wild = FALSE
    OBVIOUS
  <2>4. /\ r2.nr \in [Heads -> Nat] /\ r2.nr[h] = Len(s) - 1
        /\ \A g \in Heads \ {h} : r2.nr[g] = r.nr[g]
    BY <2>3, <1>1, <1>2, <1>4
  <2>5. r2.next[e] = e /\ r2.prev[e] = e
    BY <1>1, <1>2 DEF Links
  <2> QED
    BY <2>1, <2>2, <2>3, <2>4, <2>5
<1>6. r2 \in Queues /\ L2 \in [Heads -> Seq(Elems)]
  <2>1. r2 \in Queues
    BY <1>5 DEF Queues, Links
  <2>2. L2 \in [Heads -> Seq(Elems)]
    BY <1>1
  <2> QED
    BY <2>1, <2>2 DEF Rings
<1>7. Represents(r2, h, L2[h])
  <2>1. Ring(r2.next, r2.prev, h, t) /\ NoRepeats(t)
    BY <1>1, <1>4, RingOfRemoval
  <2>2. r2.nr[h] = Len(t)
    BY <1>5 DEF Removal
  <2> QED
    BY <2>1, <2>2, <1>1, RepresentsIsRing
<1>8. ASSUME NEW g \in Heads, g # h
      PROVE  Represents(r2, g, L2[g])
  <2>1. L2[g] = L[g] /\ L[g] \in Seq(Elems)
    BY <1>1, <1>8
  <2>2. r.nr[g] = Len(L[g]) /\ NoRepeats(L[g]) /\ Ring(r.next, r.prev, g, L[g])
    BY <2>1, <1>3, RepresentsIsRing
  <2>3. \A i \in 0..Len(L[g]) + 1 : Stop(g, L[g], i) \notin {a, b, e}
    <3>1. \A i \in 0..Len(L[g]) + 1, j \in 0..Len(L[h]) + 1 :
            Stop(g, L[g], i) # Stop(h, L[h], j)
      BY <1>8, StopsApart
    <3>2. /\ k \in 0..Len(L[h]) + 1 /\ k + 1 \in 0..Len(L[h]) + 1
          /\ k - 1 \in 0..Len(L[h]) + 1
      BY <1>2
    <3> QED
      BY <1>2, <3>1, <3>2
  <2>4. Ring(r2.next, r2.prev, g, L[g])
    <3>1. /\ Len(L[g]) \in Nat
          /\ \A i \in 0..Len(L[g]) + 1 : Stop(g, L[g], i) \in Nodes \ {a, b, e}
      BY <2>1, <2>3, StopsOfRing
    <3>2. ASSUME NEW i \in 0..Len(L[g])
          PROVE  /\ r2.next[Stop(g, L[g], i)] = Stop(g, L[g], i + 1)
                 /\ r2.prev[Stop(g, L[g], i + 1)] = Stop(g, L[g], i)
      <4>1. /\ Stop(g, L[g], i) \in Nodes \ {a, b, e}
            /\ Stop(g, L[g], i + 1) \in Nodes \ {a, b, e}
        BY <3>1, SMTT(30)
      <4>2. /\ r.next[Stop(g, L[g], i)] = Stop(g, L[g], i + 1)
            /\ r.prev[Stop(g, L[g], i + 1)] = Stop(g, L[g], i)
        BY <2>2 DEF Ring
      <4> QED
        BY <4>1, <4>2, <1>5
    <3> QED
      BY <3>2 DEF Ring
  <2>5. r2.nr[g] = Len(L[g])
    BY <2>2, <1>5, <1>8
  <2>6. Represents(r2, g, L[g])
    BY <2>2, <2>4, <2>5, Zenon DEF Represents, Ring, NoRepeats
  <2> QED
    BY <2>1, <2>6, Zenon
<1>9. ~ r2.wild /\ \A g \in Heads : Represents(r2, g, L2[g])
  BY <1>5, <1>7, <1>8 DEF Rings
<1>10. /\ L2[h] = t /\ \A g \in Heads \ {h} : L2[g] = L[g]
       /\ \A i \in 1..Len(t) : \E j \in 1..Len(s) : t[i] = s[j]
  <2>1. L2[h] = t /\ \A g \in Heads \ {h} : L2[g] = L[g]
    BY <1>1
  <2>2. ASSUME NEW i \in 1..Len(t)
        PROVE  \E j \in 1..Len(s) : t[i] = s[j]
    <3>1. CASE i < k
      <4>1. i \in 1..Len(s) /\ t[i] = s[i]
        BY <3>1, <1>2 DEF Removal
      <4> QED
        BY <4>1
    <3>2. CASE i >= k
      <4>1. i + 1 \in 1..Len(s) /\ t[i] = s[i + 1]
        BY <3>2, <1>2 DEF Removal
      <4> QED
        BY <4>1
    <3>3. i < k \/ i >= k
      BY <1>2
    <3> QED
      BY <3>1, <3>2, <3>3
  <2> QED
    BY <2>1, <2>2
<1>11. ApartIn(L2)
  <2>1. \A g1, g2 \in Heads : \A i \in 1..Len(L[g1]), j \in 1..Len(L[g2]) :
          L[g1][i] = L[g2][j] => g1 = g2
    BY DEF Rings, ApartIn
  <2>2. ASSUME NEW g \in Heads \ {h}, NEW i \in 1..Len(L[g]), NEW j \in 1..Len(t)
        PROVE  L[g][i] # t[j]
    <3>1. \A m \in 1..Len(s) : L[g][i] # s[m]
      BY <2>1
    <3> QED
      BY <1>10, <3>1
  <2>3. ASSUME NEW g1 \in Heads, NEW g2 \in Heads, g1 # g2,
               NEW i \in 1..Len(L2[g1]), NEW j \in 1..Len(L2[g2])
        PROVE  L2[g1][i] # L2[g2][j]
    <3>1. L2[h] = t /\ \A g \in Heads \ {h} : L2[g] = L[g]
      BY <1>10
    <3>2. CASE g1 = h
      BY <2>2, <2>3, <3>1, <3>2
    <3>3. CASE g2 = h
      BY <2>2, <2>3, <3>1, <3>3
    <3>4. CASE g1 # h /\ g2 # h
      BY <2>1, <2>3, <3>1, <3>4
    <3> QED
      BY <3>2, <3>3, <3>4
  <2> QED
    BY <2>3 DEF ApartIn
<1>12. UnlinkedIn(r2, L2)
  <2>1. ASSUME NEW u \in Elems, \A g \in Heads : \A i \in 1..Len(L2[g]) : L2[g][i] # u,
               u # e
        PROVE  QElemStandAlone(r2, u)
    <3>1. \A i \in 1..Len(t) : t[i] # u
      BY <2>1, <1>10
    <3>2. \A j \in 1..Len(s) : s[j] # u
      <4>1. ASSUME NEW j \in 1..Len(s), j # k
            PROVE  \E i \in 1..Len(t) : t[i] = s[j]
        <5>1. CASE j < k
          <6>1. j \in 1..Len(t) /\ t[j] = s[j]
            BY <5>1, <1>2, SMTT(30) DEF Removal
          <6> QED
            BY <6>1
        <5>2. CASE j > k
          <6>1. j - 1 \in 1..Len(t) /\ t[j - 1] = s[j]
            BY <5>2, <1>2 DEF Removal
          <6> QED
            BY <6>1
        <5>3. j < k \/ j > k
          BY <4>1, <1>2
        <5> QED
          BY <5>1, <5>2, <5>3
      <4> QED
        BY <4>1, <3>1, <2>1
    <3>3. u # a /\ u # b
      BY <3>2, QueueAssumption DEF Stop
    <3>4. Free(L, u)
      BY <2>1, <3>2, <1>10 DEF Free, Holds
    <3>5. r.next[u] = u /\ r.prev[u] = u
      BY <3>4 DEF Rings, UnlinkedIn, QElemStandAlone
    <3> QED
      BY <2>1, <3>3, <3>5, <1>5 DEF QElemStandAlone, Nodes
  <2>2. QElemStandAlone(r2, e)
    BY <1>5 DEF QElemStandAlone
  <2> QED
    BY <2>1, <2>2 DEF UnlinkedIn, Free, Holds
<1> QED
  BY <1>6, <1>9, <1>11, <1>12 DEF Rings

\* The ring as the macros read it: the head's neighbours, and an element's.
LEMMA Neighbours ==
  ASSUME NEW r, NEW L, Rings(r, L), NEW h \in Heads
  PROVE  LET s == L[h]
         IN  /\ r.next[h] = Stop(h, s, 1) /\ r.prev[h] = Stop(h, s, Len(s))
             /\ \A k \in 1..Len(s) :
                  /\ r.next[s[k]] = Stop(h, s, k + 1) /\ r.prev[s[k]] = Stop(h, s, k - 1)
                  /\ r.next[Stop(h, s, k - 1)] = s[k] /\ r.prev[Stop(h, s, k + 1)] = s[k]
                  /\ Stop(h, s, k - 1) # s[k] /\ Stop(h, s, k + 1) # s[k]
                  /\ ~ QHeadEmpty(r, h) /\ ~ QElemStandAlone(r, s[k])
<1> DEFINE s == L[h]
<1>1. s \in Seq(Elems)
  BY DEF Rings
<1>2. /\ Len(s) \in Nat /\ \A i \in 1..Len(s) : s[i] \in Elems /\ s[i] # h
      /\ \A i \in 1..Len(s) : Stop(h, s, i) = s[i]
      /\ Stop(h, s, 0) = h /\ Stop(h, s, Len(s) + 1) = h
  BY <1>1, StopsOfRing
<1>3. NoRepeats(s) /\ \A i \in 0..Len(s) : /\ r.next[Stop(h, s, i)] = Stop(h, s, i + 1)
                                           /\ r.prev[Stop(h, s, i + 1)] = Stop(h, s, i)
  BY <1>1, RepresentsIsRing DEF Rings, Ring
<1>4. r.next[h] = Stop(h, s, 1) /\ r.prev[h] = Stop(h, s, Len(s))
  BY <1>2, <1>3
<1>5. ASSUME NEW k \in 1..Len(s)
      PROVE  /\ r.next[s[k]] = Stop(h, s, k + 1) /\ r.prev[s[k]] = Stop(h, s, k - 1)
             /\ r.next[Stop(h, s, k - 1)] = s[k] /\ r.prev[Stop(h, s, k + 1)] = s[k]
  <2>1. k \in 0..Len(s) /\ k - 1 \in 0..Len(s) /\ (k - 1) + 1 = k
    BY <1>2
  <2> QED
    BY <2>1, <1>2, <1>3
<1>6. ASSUME NEW k \in 1..Len(s)
      PROVE  Stop(h, s, k - 1) # s[k] /\ Stop(h, s, k + 1) # s[k]
  BY <1>2, <1>3 DEF Stop, NoRepeats
<1>7. ASSUME NEW k \in 1..Len(s)
      PROVE  ~ QHeadEmpty(r, h)
  <2>1. 1 \in 1..Len(s)
    BY <1>2
  <2> QED
    BY <2>1, <1>2, <1>4 DEF QHeadEmpty
<1> QED
  BY <1>4, <1>5, <1>6, <1>7 DEF QElemStandAlone

----------------------------------------------------------------------------
(* The macros. *)

\* A record of links, field by field.
LEMMA LinkFields ==
  ASSUME NEW r \in Queues
  PROVE  /\ r = [next |-> r.next, prev |-> r.prev, nr |-> r.nr, wild |-> r.wild]
         /\ r.next \in [Nodes -> Nodes] /\ r.prev \in [Nodes -> Nodes]
         /\ r.nr \in [Heads -> Nat] /\ r.wild \in BOOLEAN
BY DEF Queues

\* Q_INSERT_TAIL of an element on no list appends it to the list.
LEMMA InsertTailRings ==
  ASSUME NEW r, NEW L, Rings(r, L), NEW h \in Heads, NEW e \in Elems, Free(L, e)
  PROVE  Rings(QInsertTail(r, h, e), [L EXCEPT ![h] = Append(L[h], e)])
<1> DEFINE s == L[h]
           a == Stop(h, s, Len(s))
           b == Stop(h, s, Len(s) + 1)
           r2 == QInsertTail(r, h, e)
<1>1. s \in Seq(Elems) /\ Len(s) \in 0..Len(s) /\ b = h /\ ~ Foreign(h, a)
  BY StopsOfRing DEF Rings
<1>2. /\ r = [next |-> r.next, prev |-> r.prev, nr |-> r.nr, wild |-> r.wild]
      /\ r.prev[h] = a /\ r.wild = FALSE
  BY Neighbours, LinkFields DEF Rings
<1>3. r2 = [next |-> [[r.next EXCEPT ![e] = b] EXCEPT ![a] = e],
            prev |-> [[r.prev EXCEPT ![e] = a] EXCEPT ![b] = e],
            nr |-> [r.nr EXCEPT ![h] = @ + 1], wild |-> FALSE]
  <2>1. (r.wild \/ Foreign(h, a)) = FALSE
    BY <1>1, <1>2
  <2> HIDE DEF a, b
  <2>2. r2 = [r EXCEPT !.next = [[r.next EXCEPT ![e] = h] EXCEPT ![a] = e],
                      !.prev = [[r.prev EXCEPT ![e] = a] EXCEPT ![h] = e],
                      !.nr[h] = @ + 1,
                      !.wild = FALSE]
    BY <1>2, <2>1 DEF QInsertTail
  <2> QED
    BY <1>1, <1>2, <2>2
<1>4. Append(s, e) \in Seq(Elems) /\ Insertion(s, Len(s), e, Append(s, e))
  BY <1>1, AppendInserts
<1> QED
  BY <1>1, <1>3, <1>4, InsertionStep

\* Q_INSERT_FRONT of an element on no list puts it before the list.
LEMMA InsertFrontRings ==
  ASSUME NEW r, NEW L, Rings(r, L), NEW h \in Heads, NEW e \in Elems, Free(L, e)
  PROVE  Rings(QInsertFront(r, h, e), [L EXCEPT ![h] = <<e>> \o L[h]])
<1> DEFINE s == L[h]
           a == Stop(h, s, 0)
           b == Stop(h, s, 0 + 1)
           r2 == QInsertFront(r, h, e)
<1>1. s \in Seq(Elems) /\ 0 \in 0..Len(s) /\ a = h /\ ~ Foreign(h, b)
  BY StopsOfRing DEF Rings
<1>2. /\ r = [next |-> r.next, prev |-> r.prev, nr |-> r.nr, wild |-> r.wild]
      /\ r.next[h] = b /\ r.wild = FALSE
  BY Neighbours, LinkFields DEF Rings
<1>3. r2 = [next |-> [[r.next EXCEPT ![e] = b] EXCEPT ![a] = e],
            prev |-> [[r.prev EXCEPT ![e] = a] EXCEPT ![b] = e],
            nr |-> [r.nr EXCEPT ![h] = @ + 1], wild |-> FALSE]
  <2>1. (r.wild \/ Foreign(h, b)) = FALSE
    BY <1>1, <1>2
  <2> HIDE DEF a, b
  <2>2. r2 = [r EXCEPT !.next = [[r.next EXCEPT ![e] = b] EXCEPT ![h] = e],
                      !.prev = [[r.prev EXCEPT ![e] = h] EXCEPT ![b] = e],
                      !.nr[h] = @ + 1,
                      !.wild = FALSE]
    BY <1>2, <2>1 DEF QInsertFront
  <2> QED
    BY <1>1, <1>2, <2>2
<1>4. <<e>> \o s \in Seq(Elems) /\ Insertion(s, 0, e, <<e>> \o s)
  BY <1>1, FrontInserts
<1> QED
  BY <1>1, <1>3, <1>4, InsertionStep

\* Q_REMOVE of a member takes it out of its list.
LEMMA RemoveRings ==
  ASSUME NEW r, NEW L, Rings(r, L), NEW h \in Heads, NEW k \in 1..Len(L[h]),
         NEW t \in Seq(Elems), Removal(L[h], k, t)
  PROVE  Rings(QRemove(r, h, L[h][k]), [L EXCEPT ![h] = t])
<1> DEFINE s == L[h]
           e == s[k]
           a == Stop(h, s, k - 1)
           b == Stop(h, s, k + 1)
           r2 == QRemove(r, h, e)
<1>1. /\ s \in Seq(Elems) /\ e \in Elems /\ e \notin Heads
      /\ ~ Foreign(h, a) /\ ~ Foreign(h, b) /\ a \in Nodes /\ b \in Nodes
  <2>1. s \in Seq(Elems) /\ k - 1 \in 0..Len(s) + 1 /\ k + 1 \in 0..Len(s) + 1
    BY LenProperties DEF Rings
  <2> QED
    BY <2>1, StopsOfRing
<1>2. /\ r.next[e] = b /\ r.prev[e] = a /\ r.next[a] = e /\ r.prev[b] = e
      /\ a # e /\ b # e
      /\ ~ QHeadEmpty(r, h) /\ ~ QElemStandAlone(r, e)
  BY Neighbours
<1>3. /\ r = [next |-> r.next, prev |-> r.prev, nr |-> r.nr, wild |-> r.wild]
      /\ r.next \in [Nodes -> Nodes] /\ r.prev \in [Nodes -> Nodes] /\ ~ r.wild
  BY LinkFields DEF Rings
<1>4. r2 = [next |-> [[r.next EXCEPT ![a] = b] EXCEPT ![e] = e],
            prev |-> [[r.prev EXCEPT ![b] = a] EXCEPT ![e] = e],
            nr |-> [r.nr EXCEPT ![h] = @ - 1], wild |-> FALSE]
  <2>1. [r.next EXCEPT ![a] = b][e] = b
    BY <1>1, <1>2, <1>3 DEF Nodes
  <2> HIDE DEF e, a, b
  <2> QED
    BY <2>1, <1>1, <1>2, <1>3 DEF QRemove
<1> QED
  BY <1>1, <1>4, RemovalStep

\* An element on no list is taken off none.
LEMMA RemoveFree ==
  ASSUME NEW r, NEW L, Rings(r, L), NEW h \in Heads, NEW e \in Elems, Free(L, e)
  PROVE  QRemove(r, h, e) = r
BY DEF QRemove, Rings, UnlinkedIn

\* Heads and elements fresh from Q_INIT_HEAD and Q_INIT_ELEM: empty lists.
LEMMA InitialRings == Rings(QInitial, [h \in Heads |-> <<>>])
<1> DEFINE L == [h \in Heads |-> <<>>]
<1>1. \A h \in Heads : L[h] = <<>> /\ Len(L[h]) = 0
  OBVIOUS
<1>2. /\ QInitial.next \in [Nodes -> Nodes] /\ QInitial.prev \in [Nodes -> Nodes] /\ ~ QInitial.wild
      /\ \A n \in Nodes : QInitial.next[n] = n /\ QInitial.prev[n] = n
      /\ \A h \in Heads : QInitial.nr[h] = 0
  BY DEF QInitial
<1>3. QInitial \in Queues /\ L \in [Heads -> Seq(Elems)]
  BY DEF QInitial, Queues
<1>4. ASSUME NEW h \in Heads PROVE Represents(QInitial, h, <<>>)
  BY <1>2 DEF Represents, Stop, Nodes
<1> HIDE DEF L
<1>5. ApartIn(L) /\ UnlinkedIn(QInitial, L)
  BY <1>1, <1>2 DEF ApartIn, UnlinkedIn, QElemStandAlone, Nodes
<1> QED
  BY <1>1, <1>2, <1>3, <1>4, <1>5 DEF Rings, L
=============================================================================
