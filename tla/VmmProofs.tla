----------------------------- MODULE VmmProofs -----------------------------
(***************************************************************************)
(* Theorems about Vmm, for any number of tasks, pages and frames, any      *)
(* image and any ranges, whatever programs do and whichever faults meet:   *)
(* what frames promise, and that every task has a memory of its own, each  *)
(* up to the WildCases that end it.                                        *)
(***************************************************************************)
EXTENDS VmmProps, FiniteSetTheorems, TLAPS

----------------------------------------------------------------------------
(* The invariant.                                                          *)

\* No frame has been found twice; nor has a stack with a shared page grown;
\* nor has any of the WildCases come about.
Alone == "found_twice" \notin wild
Sound == wild \cap {"found_twice", "grow_any"} = {}
Tidy  == wild = {}

\* The ranges of a task are pages, and apart.
Apart(rs) ==
  /\ \A r \in rs : Span(r) \subseteq Pages
  /\ \A r, s \in rs : r # s => Span(r) \cap Span(s) = {}

RangesOK == \A k \in Tasks : Apart(ranges[k])

\* A task that is not there has nothing, and one with a fault in the middle
\* lives and has the page.
TasksOK ==
  /\ \A k \in Tasks : status[k] = "none" => pte[k] = NoTables /\ ranges[k] = {}
  /\ \A k \in Tasks : fault[k] # NoFault =>
       status[k] = "live" /\ fault[k].page \in Covered(ranges[k])

\* A frame that a fault has found is free, and no other fault has found it.
Claims ==
  \A k \in Tasks : fault[k] # NoFault =>
    /\ refs[fault[k].frame] = 0
    /\ \A j \in Tasks \ {k} : fault[j] # NoFault => fault[j].frame # fault[k].frame

\* The entries j, q and k, p are two that hold the same frame.
Twins(k, p, j, q) ==
  /\ pte[k][p].frame # 0 /\ pte[j][q].frame = pte[k][p].frame
  /\ k # j \/ p # q

\* Who has a frame with another is not allowed to write by its entry, has the
\* page in a range, and has it present.
Exclusive ==
  \A k, j \in Tasks, p, q \in Pages :
    Twins(k, p, j, q) =>
      ~ pte[k][p].rw /\ pte[k][p].present /\ p \in Covered(ranges[k])

\* An entry with a frame is present.  One that is present without is about to
\* get one, or its task has ended for the lack of frames.  What growth left
\* behind is above the stack.
EntriesOK ==
  \A k \in Tasks, p \in Pages :
    /\ pte[k][p].frame # 0 => pte[k][p].present
    /\ pte[k][p].present /\ pte[k][p].frame = 0 =>
         status[k] = "zombie" \/ (fault[k].kind = "back" /\ fault[k].page = p)
    /\ pte[k][p].frame # 0 /\ p \notin Covered(ranges[k]) => p >= stackStart[k]

\* The page of a fault is there to be copied, or not there.
FaultsOK ==
  \A k \in Tasks : fault[k] # NoFault =>
    (fault[k].kind = "cow" <=> pte[k][fault[k].page].frame # 0)

Counted == CountCovers /\ Claims /\ OneReference

VInv ==
  /\ VTypeOK /\ RangesOK /\ TasksOK
  /\ Alone => Counted
  /\ Sound => Exclusive
  /\ Tidy => EntriesOK /\ FaultsOK

\* What the entries that steps make hold.
LEMMA EntryFields ==
  /\ \A f : /\ Entry(f, TRUE, FALSE).frame = f /\ Entry(f, TRUE, FALSE).present
           /\ ~ Entry(f, TRUE, FALSE).rw
  /\ \A f : Entry(f, TRUE, TRUE).frame = f /\ Entry(f, TRUE, TRUE).present
  /\ \A e : Uninstalled(e).frame = 0 /\ ~ Uninstalled(e).present
  /\ Unmapped.frame = 0 /\ ~ Unmapped.present /\ ~ Unmapped.rw
<1>1. \A f : /\ Entry(f, TRUE, FALSE).frame = f /\ Entry(f, TRUE, FALSE).present
            /\ ~ Entry(f, TRUE, FALSE).rw
  BY DEF Entry
<1>2. \A f : Entry(f, TRUE, TRUE).frame = f /\ Entry(f, TRUE, TRUE).present
  BY DEF Entry
<1>3. \A e : Uninstalled(e).frame = 0 /\ ~ Uninstalled(e).present
  BY DEF Uninstalled, Entry
<1>4. Unmapped.frame = 0 /\ ~ Unmapped.present /\ ~ Unmapped.rw
  BY DEF Unmapped, Entry
<1> QED
  BY <1>1, <1>2, <1>3, <1>4

----------------------------------------------------------------------------
(* Counting.                                                                 *)

\* There are finitely many places, and no page and no frame is zero.
LEMMA Constants ==
  /\ IsFiniteSet(Tasks) /\ IsFiniteSet(Pages) /\ IsFiniteSet(Frames)
  /\ IsFiniteSet(Tasks \X Pages)
  /\ Pages \subseteq Nat \ {0} /\ Frames \subseteq Nat \ {0}
  /\ MaxPage \in Nat /\ NrFrames \in Nat /\ 0 \notin Frames /\ 0 \notin Pages
<1>1. IsFiniteSet(Tasks) /\ MaxPage \in Nat /\ NrFrames \in Nat
  BY VmmAssumption
<1>2. IsFiniteSet(Pages) /\ IsFiniteSet(Frames)
  BY <1>1, FS_Interval DEF Pages, Frames
<1>3. IsFiniteSet(Tasks \X Pages)
  BY <1>1, <1>2, FS_Product
<1>4. Pages \subseteq Nat \ {0} /\ Frames \subseteq Nat \ {0}
  BY <1>1 DEF Pages, Frames
<1> QED
  BY <1>1, <1>2, <1>3, <1>4

\* Where the frame f is mapped by the tables t.
Holders(t, f) == {e \in Tasks \X Pages : t[e[1]][e[2]].frame = f}

\* A set of places is finite, and its size does not exceed that of a greater.
LEMMA Places ==
  ASSUME NEW A, NEW B \in SUBSET (Tasks \X Pages), A \subseteq B
  PROVE  /\ IsFiniteSet(A) /\ IsFiniteSet(B)
         /\ Cardinality(A) \in Nat /\ Cardinality(B) \in Nat
         /\ Cardinality(A) <= Cardinality(B)
<1>1. IsFiniteSet(B)
  BY Constants, FS_Subset
<1>2. IsFiniteSet(A) /\ Cardinality(A) <= Cardinality(B)
  BY <1>1, FS_Subset
<1> QED
  BY <1>1, <1>2, FS_CardinalityType

\* Two that have nothing in common.
LEMMA TwoParts ==
  ASSUME NEW C \in SUBSET (Tasks \X Pages), NEW A \in SUBSET C, NEW B \in SUBSET C,
         A \cap B = {}
  PROVE  Cardinality(A) + Cardinality(B) <= Cardinality(C)
<1>1. /\ IsFiniteSet(A) /\ IsFiniteSet(B) /\ Cardinality(A) \in Nat /\ Cardinality(B) \in Nat
      /\ Cardinality(A \cup B) \in Nat /\ Cardinality(C) \in Nat
      /\ Cardinality(A \cup B) <= Cardinality(C)
  BY Places, A \cup B \subseteq C
<1>2. Cardinality(A \cup B) = Cardinality(A) + Cardinality(B) - Cardinality(A \cap B)
  BY <1>1, FS_Union
<1>3. Cardinality(A \cap B) = 0
  BY FS_EmptySet
<1> QED
  BY <1>1, <1>2, <1>3

\* One and another.
LEMMA Together ==
  ASSUME NEW A \in SUBSET (Tasks \X Pages), NEW B \in SUBSET (Tasks \X Pages)
  PROVE  Cardinality(A \cup B) <= Cardinality(A) + Cardinality(B)
<1>1. /\ IsFiniteSet(A) /\ IsFiniteSet(B) /\ Cardinality(A) \in Nat /\ Cardinality(B) \in Nat
      /\ Cardinality(A \cap B) \in Nat
  BY Places, A \cap B \subseteq A
<1>2. Cardinality(A \cup B) = Cardinality(A) + Cardinality(B) - Cardinality(A \cap B)
  BY <1>1, FS_Union
<1> QED
  BY <1>1, <1>2

\* As many places of a task as pages.
LEMMA PagesOfTask ==
  ASSUME NEW k \in Tasks, NEW P \in SUBSET Pages
  PROVE  /\ {k} \X P \in SUBSET (Tasks \X Pages)
         /\ IsFiniteSet(P) /\ Cardinality(P) \in Nat
         /\ Cardinality({k} \X P) = Cardinality(P)
<1>1. IsFiniteSet(P) /\ Cardinality(P) \in Nat
  BY Constants, FS_Subset, FS_CardinalityType
<1>2. IsFiniteSet({k}) /\ Cardinality({k}) = 1
  BY FS_Singleton
<1>3. Cardinality({k} \X P) = Cardinality({k}) * Cardinality(P)
  BY <1>1, <1>2, FS_Product
<1> QED
  BY <1>1, <1>2, <1>3

\* References are dropped one for each page.
LEMMA References ==
  ASSUME NEW k \in Tasks, NEW P \in SUBSET Pages, NEW f \in Frames,
         NEW S, \A e \in S : \E p \in P : e = <<k, p, pte[k][p].frame>>,
         \A p \in P : pte[k][p].frame = f => <<k, p, f>> \in S,
         NEW A \in SUBSET P, \A p \in P : p \in A <=> pte[k][p].frame = f,
         NEW B \in SUBSET S, \A e \in S : e \in B <=> e[3] = f
  PROVE  Cardinality(B) = Cardinality(A)
<1> DEFINE g == [p \in A |-> <<k, p, f>>]
<1>1. g \in Bijection(A, B)
  <2>1. g \in [A -> B]
    OBVIOUS
  <2>2. \A p, q \in A : g[p] = g[q] => p = q
    OBVIOUS
  <2>3. \A e \in B : \E p \in A : g[p] = e
    OBVIOUS
  <2>4. DOMAIN g = A
    OBVIOUS
  <2> HIDE DEF g
  <2> QED
    BY <2>1, <2>2, <2>3, <2>4 DEF Bijection, Injection, Surjection, IsInjective
<1>2. IsFiniteSet(A)
  BY Constants, FS_Subset
<1> HIDE DEF g
<1> QED
  BY <1>1, <1>2, FS_Bijection DEF ExistsBijection

----------------------------------------------------------------------------
(* Loading.                                                                  *)

Below(F, f) == {g \in F : g < f}

\* A greater element of a finite set of frames has more below it.
LEMMA Higher ==
  ASSUME NEW F \in SUBSET Frames, NEW f \in F, NEW g \in F, f < g
  PROVE  /\ Cardinality(Below(F, f)) \in Nat /\ Cardinality(Below(F, g)) \in Nat
         /\ Cardinality(Below(F, f)) < Cardinality(Below(F, g))
         /\ Cardinality(F) \in Nat /\ Cardinality(Below(F, g)) < Cardinality(F)
<1>1. IsFiniteSet(F) /\ F \subseteq Nat
  BY Constants, FS_Subset
<1>2. IsFiniteSet(Below(F, f)) /\ IsFiniteSet(Below(F, g))
  BY <1>1, FS_Subset DEF Below
<1>3. Below(F, f) \in SUBSET Below(F, g) /\ Below(F, f) # Below(F, g)
  <2>1. f \in Below(F, g) /\ f \notin Below(F, f)
    BY <1>1 DEF Below
  <2>2. \A x \in F : x < f => x < g
    BY <1>1
  <2> QED
    BY <2>1, <2>2 DEF Below
<1>4. Below(F, g) \in SUBSET F /\ Below(F, g) # F
  BY <1>1 DEF Below
<1>5. Cardinality(Below(F, f)) <= Cardinality(Below(F, g))
      /\ Cardinality(Below(F, f)) # Cardinality(Below(F, g))
  BY <1>2, <1>3, FS_Subset
<1>6. Cardinality(Below(F, g)) <= Cardinality(F) /\ Cardinality(Below(F, g)) # Cardinality(F)
  BY <1>1, <1>4, FS_Subset
<1>7. /\ Cardinality(Below(F, f)) \in Nat /\ Cardinality(Below(F, g)) \in Nat
      /\ Cardinality(F) \in Nat
  BY <1>1, <1>2, FS_CardinalityType
<1> QED
  BY <1>5, <1>6, <1>7

\* Each number of frames is below just one.
LEMMA Ranks ==
  ASSUME NEW F \in SUBSET Frames, NEW n \in Nat, n < Cardinality(F)
  PROVE  \E f \in F : Cardinality(Below(F, f)) = n
<1> DEFINE N == Cardinality(F)
           T == 0..N - 1
           h == [f \in F |-> Cardinality(Below(F, f))]
<1>1. IsFiniteSet(F) /\ N \in Nat /\ F \subseteq Nat
  BY Constants, FS_Subset, FS_CardinalityType
<1>2. IsFiniteSet(T) /\ Cardinality(T) = N
  <2>1. 0 \in Int /\ N - 1 \in Int
    BY <1>1
  <2>2. IsFiniteSet(T) /\ Cardinality(T) = IF 0 > N - 1 THEN 0 ELSE N - 1 - 0 + 1
    BY <2>1, FS_Interval
  <2> QED
    BY <2>2, <1>1
<1>3. ASSUME NEW f \in F PROVE Cardinality(Below(F, f)) \in T
  <2>1. Below(F, f) \in SUBSET F /\ Below(F, f) # F
    BY <1>1 DEF Below
  <2>2. /\ IsFiniteSet(Below(F, f)) /\ Cardinality(Below(F, f)) <= N
        /\ Cardinality(Below(F, f)) # N
    BY <2>1, <1>1, FS_Subset
  <2>3. Cardinality(Below(F, f)) \in Nat
    BY <2>2, FS_CardinalityType
  <2> QED
    BY <2>2, <2>3, <1>1
<1>4. h \in Injection(F, T)
  <2>1. h \in [F -> T] /\ DOMAIN h = F
    BY <1>3
  <2>2. ASSUME NEW f \in F, NEW g \in F, h[f] = h[g] PROVE f = g
    <3>1. ~ (f < g) /\ ~ (g < f)
      BY <2>2, Higher
    <3> QED
      BY <3>1, <1>1
  <2> HIDE DEF h
  <2> QED
    BY <2>1, <2>2 DEF Injection, IsInjective
<1>5. h \in Surjection(F, T)
  <2> HIDE DEF h, T, N
  <2>1. Cardinality(F) = Cardinality(T)
    BY <1>2 DEF N
  <2> QED
    BY <2>1, <1>2, <1>4, FS_Injection
<1>6. n \in T
  BY <1>1
<1>7. \E f \in F : h[f] = n
  <2> HIDE DEF h, T
  <2> QED
    BY <1>5, <1>6 DEF Surjection
<1> QED
  BY <1>7

\* Two frames with as many frames below them are the same.
LEMMA RanksDiffer ==
  ASSUME NEW F \in SUBSET Frames, NEW f \in F, NEW g \in F,
         Cardinality(Below(F, f)) = Cardinality(Below(F, g))
  PROVE  f = g
<1>1. f \in Nat /\ g \in Nat
  BY Constants
<1>2. ~ (f < g) /\ ~ (g < f)
  BY Higher
<1> QED
  BY <1>1, <1>2

\* vmm_get_free_user_pages finds a free frame when there is one.
LEMMA LowestIsIn ==
  ASSUME NEW F \in SUBSET Frames, F # {}
  PROVE  Lowest(F) \in F /\ \A g \in F : Lowest(F) <= g
<1>1. IsFiniteSet(F) /\ F \subseteq Nat /\ Cardinality(F) \in Nat
  BY Constants, FS_Subset, FS_CardinalityType
<1>2. 0 < Cardinality(F)
  BY <1>1, FS_EmptySet
<1>3. PICK f \in F : Cardinality(Below(F, f)) = 0
  BY <1>2, Ranks
<1>4. IsFiniteSet(Below(F, f))
  BY <1>1, FS_Subset DEF Below
<1>5. Below(F, f) = {}
  BY <1>3, <1>4, FS_EmptySet
<1>6. \A g \in F : f <= g
  BY <1>1, <1>5 DEF Below
<1> QED
  BY <1>6 DEF Lowest

\* The pages of an image are backed one after the other.
LEMMA ImageInOrder ==
  ASSUME NEW p \in Covered(Image), NEW q \in Covered(Image), p # q
  PROVE  \/ LoadedBefore(p) \subseteq LoadedBefore(q) /\ p \in LoadedBefore(q)
         \/ LoadedBefore(q) \subseteq LoadedBefore(p) /\ q \in LoadedBefore(p)
<1>1. PICK r \in Image : p \in Span(r)
  BY DEF Covered
<1>2. PICK s \in Image : q \in Span(s)
  BY DEF Covered
<1>3. \A i \in Image : i.start \in Nat /\ i.len \in Nat \ {0} /\ Span(i) \subseteq Nat
  BY VmmAssumption DEF Span
<1>4. ASSUME NEW i \in Image, NEW j \in Image, i.start = j.start PROVE i = j
  <2>1. i.start \in Span(i) \cap Span(j)
    BY <1>3, <1>4 DEF Span
  <2> QED
    BY <2>1, VmmAssumption
<1>5. ASSUME NEW i \in Image, NEW j \in Image, NEW x \in Span(i) \cap Span(j) PROVE i = j
  BY <1>5, VmmAssumption
<1>6. /\ LoadedBefore(p) = {x \in Covered(Image) : \E i \in Image :
           x \in Span(i) /\ (i.start > r.start \/ (i = r /\ x < p))}
      /\ LoadedBefore(q) = {x \in Covered(Image) : \E i \in Image :
           x \in Span(i) /\ (i.start > s.start \/ (i = s /\ x < q))}
  BY <1>1, <1>2, <1>5 DEF LoadedBefore
<1>7. p \in Nat /\ q \in Nat /\ Covered(Image) \subseteq Nat
  BY <1>1, <1>2, <1>3 DEF Covered
<1>8. CASE r = s
  <2>1. p < q \/ q < p
    BY <1>7
  <2> QED
    BY <2>1, <1>1, <1>2, <1>6, <1>7, <1>8
<1>9. CASE r # s
  <2>1. r.start # s.start /\ r.start \in Nat /\ s.start \in Nat
    BY <1>3, <1>4, <1>9
  <2>2. CASE r.start > s.start
    BY <2>1, <2>2, <1>1, <1>2, <1>3, <1>6
  <2>3. CASE s.start > r.start
    BY <2>1, <2>3, <1>1, <1>2, <1>3, <1>6
  <2> QED
    BY <2>1, <2>2, <2>3
<1> QED
  BY <1>8, <1>9

\* No page is backed before itself.
LEMMA NotBeforeItself ==
  ASSUME NEW p \in Covered(Image)
  PROVE  p \notin LoadedBefore(p)
<1>1. \A i \in Image : i.start \in Nat /\ Span(i) \subseteq Nat
  BY VmmAssumption DEF Span
<1>2. \A i, j \in Image : p \in Span(i) /\ p \in Span(j) => i = j
  BY VmmAssumption
<1>3. p \in Nat
  BY <1>1 DEF Covered
<1> QED
  BY <1>1, <1>2, <1>3 DEF LoadedBefore

\* With frames enough each page of the image gets one of its own, the lowest
\* of those that are free.
LEMMA Loading ==
  ASSUME NEW F \in SUBSET Frames, Cardinality(F) >= Cardinality(Covered(Image))
  PROVE  /\ \A p \in Covered(Image) :
              /\ LoadFrame(F, p) \in F
              /\ Cardinality(Below(F, LoadFrame(F, p))) < Cardinality(Covered(Image))
         /\ \A p, q \in Covered(Image) : LoadFrame(F, p) = LoadFrame(F, q) => p = q
<1> DEFINE C == Covered(Image)
<1>1. C \subseteq Pages
  BY VmmAssumption DEF Covered, Pages
<1>2. IsFiniteSet(C) /\ Cardinality(C) \in Nat /\ Cardinality(F) \in Nat
  BY <1>1, Constants, FS_Subset, FS_CardinalityType
<1>3. ASSUME NEW p \in C
      PROVE  /\ LoadedBefore(p) \in SUBSET C /\ IsFiniteSet(LoadedBefore(p))
             /\ Cardinality(LoadedBefore(p)) \in Nat
             /\ Cardinality(LoadedBefore(p)) < Cardinality(C)
  <2>1. LoadedBefore(p) \in SUBSET C /\ LoadedBefore(p) # C
    BY NotBeforeItself DEF LoadedBefore
  <2>2. /\ IsFiniteSet(LoadedBefore(p)) /\ Cardinality(LoadedBefore(p)) <= Cardinality(C)
        /\ Cardinality(LoadedBefore(p)) # Cardinality(C)
    BY <2>1, <1>2, FS_Subset
  <2>3. Cardinality(LoadedBefore(p)) \in Nat
    BY <2>2, FS_CardinalityType
  <2> QED
    BY <2>1, <2>2, <2>3, <1>2
<1>4. ASSUME NEW p \in C
      PROVE  /\ LoadFrame(F, p) \in F
             /\ Cardinality(Below(F, LoadFrame(F, p))) = Cardinality(LoadedBefore(p))
  <2>1. \E f \in F : Cardinality(Below(F, f)) = Cardinality(LoadedBefore(p))
    BY <1>2, <1>3, Ranks
  <2> QED
    BY <2>1 DEF LoadFrame, Below
<1>5. ASSUME NEW p \in C, NEW q \in C, LoadFrame(F, p) = LoadFrame(F, q) PROVE p = q
  <2>1. Cardinality(LoadedBefore(p)) = Cardinality(LoadedBefore(q))
    BY <1>4, <1>5
  <2>2. ASSUME NEW x \in C, NEW y \in C, x # y, LoadedBefore(x) \subseteq LoadedBefore(y),
               x \in LoadedBefore(y)
        PROVE  Cardinality(LoadedBefore(x)) # Cardinality(LoadedBefore(y))
    <3>1. LoadedBefore(x) # LoadedBefore(y)
      BY <2>2, NotBeforeItself
    <3> QED
      BY <3>1, <2>2, <1>3, FS_Subset
  <2> QED
    BY <2>1, <2>2, ImageInOrder
<1> QED
  BY <1>3, <1>4, <1>5

----------------------------------------------------------------------------
(* Counts.                                                                   *)

\* At most one place.
LEMMA AtMostOne ==
  ASSUME NEW A \in SUBSET (Tasks \X Pages), \A d, e \in A : d = e
  PROVE  Cardinality(A) <= 1
<1>1. ASSUME NEW e \in A PROVE Cardinality(A) <= 1
  <2>1. A = {e}
    BY <1>1
  <2>2. Cardinality({e}) = 1
    BY FS_Singleton
  <2> QED
    BY <2>1, <2>2
<1>2. CASE A = {}
  <2>1. Cardinality({}) = 0
    BY FS_EmptySet
  <2> QED
    BY <1>2, <2>1
<1> QED
  BY <1>1, <1>2

\* Nobody has a frame that counts no references, and who has one is counted.
LEMMA Nobody ==
  ASSUME VTypeOK, CountCovers, NEW f \in Frames,
         NEW k \in Tasks, NEW p \in Pages, pte[k][p].frame = f
  PROVE  refs[f] > 0
<1>1. /\ <<k, p>> \in Holders(pte, f) /\ Holders(pte, f) \subseteq Tasks \X Pages
      /\ Cardinality(Holders(pte, f)) <= refs[f]
  BY DEF Holders, CountCovers
<1>2. IsFiniteSet(Holders(pte, f)) /\ Cardinality(Holders(pte, f)) \in Nat
  BY <1>1, Places
<1>3. Cardinality(Holders(pte, f)) # 0
  BY <1>1, <1>2, FS_EmptySet
<1>4. refs[f] \in Nat
  BY DEF VTypeOK
<1> QED
  BY <1>1, <1>2, <1>3, <1>4

\* Who gives up pages gives up the references they held, and no other.
LEMMA Dropped ==
  ASSUME VTypeOK, CountCovers, NEW k \in Tasks, NEW P \in SUBSET Pages, NEW f \in Frames,
         NEW S, S \subseteq {<<k, p, pte[k][p].frame>> : p \in P},
         \A p \in P : pte[k][p].frame = f => <<k, p, f>> \in S,
         NEW H \in SUBSET Holders(pte, f), \A p \in P : <<k, p>> \notin H
  PROVE  /\ Without(S)[f] \in Nat /\ Without(S)[f] <= refs[f]
         /\ Cardinality(H) <= Without(S)[f]
<1> DEFINE Q == {p \in P : pte[k][p].frame = f}
<1>1. {k} \X Q \in SUBSET Holders(pte, f) /\ H \cap ({k} \X Q) = {}
      /\ Holders(pte, f) \in SUBSET (Tasks \X Pages)
  BY DEF Holders
<1>2. Cardinality(H) + Cardinality({k} \X Q) <= Cardinality(Holders(pte, f))
  BY <1>1, TwoParts
<1>3. Cardinality({k} \X Q) = Cardinality(Q) /\ Cardinality(Q) \in Nat
  BY PagesOfTask, Q \in SUBSET Pages
<1>4. Cardinality(H) \in Nat /\ Cardinality(Holders(pte, f)) \in Nat
  BY <1>1, Places
<1>5. Cardinality(Holders(pte, f)) <= refs[f] /\ refs[f] \in Nat
  BY DEF Holders, CountCovers, VTypeOK
<1> DEFINE R == {e \in S : e[3] = f}
<1>6. Cardinality(R) = Cardinality(Q)
  <2>1. /\ Q \in SUBSET P /\ \A p \in P : p \in Q <=> pte[k][p].frame = f
        /\ R \in SUBSET S /\ \A e \in S : e \in R <=> e[3] = f
        /\ \A p \in P : pte[k][p].frame = f => <<k, p, f>> \in S
        /\ \A e \in S : \E p \in P : e = <<k, p, pte[k][p].frame>>
    OBVIOUS
  <2> HIDE DEF Q, R
  <2> QED
    BY <2>1, References
<1>7. Without(S)[f] = refs[f] - Cardinality(Q)
  BY <1>6 DEF Without, Drop
<1> HIDE DEF Q
<1> QED
  BY <1>2, <1>3, <1>4, <1>5, <1>7

----------------------------------------------------------------------------
(* Steps that leave the tables alone.                                      *)

\* What has not come about after a step had not before it.
LEMMA Carried ==
  ASSUME VInv, wild \subseteq wild'
  PROVE  /\ Alone' => Counted
         /\ Sound' => Alone' /\ Exclusive /\ Counted
         /\ Tidy' => Sound' /\ EntriesOK /\ FaultsOK /\ Exclusive /\ Counted
<1>1. (Alone' => Alone) /\ (Sound' => Sound) /\ (Tidy' => Tidy)
  BY DEF Alone, Sound, Tidy
<1>2. (Sound' => Alone') /\ (Tidy' => Sound')
  BY DEF Alone, Sound, Tidy
<1> QED
  BY <1>1, <1>2 DEF VInv

\* The frames F are given out, and no fault has found one of them.
LEMMA NotTwice ==
  ASSUME NEW F, FoundTwice(F) \subseteq wild'
  PROVE  /\ Alone' => \A j \in Tasks : fault[j] # NoFault => fault[j].frame \notin F
         /\ FoundTwice(F) \subseteq WildCases
BY DEF FoundTwice, Wilder, Alone, WildCases

\* Only what frames hold changes, or the kernel stops.
LEMMA SameTables ==
  ASSUME VInv, wild \subseteq wild', wild' \subseteq WildCases,
         UNCHANGED <<refs, pte, pdeRW, ranges, stackStart, status, fault>>,
         data' \in [Frames -> Values], panicked' \in Assertions \cup {None},
         Alone' => OneReference'
  PROVE  VInv'
<1>1. VTypeOK'
  BY DEF VInv, VTypeOK
<1>2. RangesOK' /\ TasksOK'
  BY DEF VInv, RangesOK, TasksOK
<1>3. ASSUME Alone' PROVE Counted'
  <2>1. Counted
    BY <1>3, Carried
  <2> QED
    BY <2>1, <1>3 DEF Counted, CountCovers, Claims
<1>4. ASSUME Sound' PROVE Exclusive'
  <2>1. Exclusive
    BY <1>4, Carried
  <2> QED
    BY <2>1 DEF Exclusive, Twins
<1>5. ASSUME Tidy' PROVE EntriesOK' /\ FaultsOK'
  <2>1. EntriesOK /\ FaultsOK
    BY <1>5, Carried
  <2> QED
    BY <2>1 DEF EntriesOK, FaultsOK
<1> QED
  BY <1>1, <1>2, <1>3, <1>4, <1>5 DEF VInv

\* Writes change what frames hold, and nothing else.
LEMMA WriteStep ==
  ASSUME VInv, NEW k \in Tasks, NEW p \in Pages, NEW v \in Values,
         Write(k, p, v) \/ KernelWrite(k, p, v)
  PROVE  VInv'
<1>1. /\ data' = [data EXCEPT ![pte[k][p].frame] = v]
      /\ UNCHANGED <<refs, pte, pdeRW, ranges, stackStart, status, fault, panicked>>
  BY DEF Write, KernelWrite
<1>2. wild \subseteq wild' /\ wild' \subseteq WildCases
  <2>1. wild \subseteq WildCases
    BY DEF VInv, VTypeOK
  <2> QED
    BY <2>1 DEF Write, KernelWrite, Wilder, WildCases
<1>3. data' \in [Frames -> Values] /\ panicked' \in Assertions \cup {None}
  BY <1>1 DEF VInv, VTypeOK
<1>4. Alone' => OneReference'
  BY <1>1, <1>2, Carried DEF Counted, OneReference
<1> QED
  BY <1>1, <1>2, <1>3, <1>4, SameTables

\* The kernel stops.
LEMMA PanicStep ==
  ASSUME VInv, NEW a \in Assertions, Panic(a),
         Alone => a \notin {"no reference", "negative count"}
  PROVE  VInv'
<1>1. UNCHANGED <<refs, data, pte, pdeRW, ranges, stackStart, status, fault, wild>>
  BY DEF Panic
<1>2. wild \subseteq wild' /\ wild' \subseteq WildCases /\ data' \in [Frames -> Values]
  BY <1>1 DEF VInv, VTypeOK
<1>3. panicked' = a
  BY DEF Panic
<1>4. Alone' => OneReference'
  BY <1>1, <1>3 DEF Alone, OneReference
<1> QED
  BY <1>1, <1>2, <1>3, <1>4, SameTables

\* A task that takes a step is alive, and has no fault in the middle; a fault
\* in the middle is another's, which lives too.
LEMMA Others ==
  ASSUME VInv, NEW k \in Tasks, Runs(k)
  PROVE  /\ status[k] = "live" /\ fault[k] = NoFault
         /\ \A j \in Tasks : fault[j] # NoFault =>
              /\ j # k /\ status[j] = "live" /\ fault[j].page \in Covered(ranges[j])
              /\ fault[j].page \in Pages /\ fault[j].frame \in Frames
              /\ fault[j].kind \in {"back", "cow"}
<1>1. \A j \in Tasks : fault[j] # NoFault =>
        /\ status[j] = "live" /\ fault[j].page \in Covered(ranges[j])
        /\ fault[j].page \in Pages /\ fault[j].frame \in Frames
        /\ fault[j].kind \in {"back", "cow"}
  BY DEF VInv, VTypeOK, TasksOK
<1> QED
  BY <1>1 DEF Runs

\* A task ends: its memory stays.
LEMMA EndStep ==
  ASSUME VInv, NEW k \in Tasks, Runs(k),
         status' = [status EXCEPT ![k] = "zombie"],
         UNCHANGED <<refs, data, pte, pdeRW, ranges, stackStart, fault, panicked, wild>>
  PROVE  VInv'
<1>1. status \in [Tasks -> {"none", "live", "zombie", "stillborn"}]
  BY DEF VInv, VTypeOK
<1>2. VTypeOK' /\ RangesOK'
  BY <1>1 DEF VInv, VTypeOK, RangesOK
<1>3. \A j \in Tasks \ {k} : status'[j] = status[j]
  BY <1>1
<1>4. status'[k] = "zombie"
  BY <1>1
<1>5. TasksOK'
  BY <1>3, <1>4, Others DEF VInv, TasksOK
<1>6. ASSUME Alone' PROVE Counted'
  <2>1. Counted
    BY <1>6, Carried
  <2> QED
    BY <2>1 DEF Counted, CountCovers, Claims, OneReference
<1>7. ASSUME Sound' PROVE Exclusive'
  <2>1. Exclusive
    BY <1>7, Carried
  <2> QED
    BY <2>1 DEF Exclusive, Twins
<1>8. ASSUME Tidy' PROVE EntriesOK' /\ FaultsOK'
  <2>1. EntriesOK /\ FaultsOK
    BY <1>8, Carried
  <2> QED
    BY <2>1, <1>3, <1>4 DEF EntriesOK, FaultsOK
<1> QED
  BY <1>2, <1>5, <1>6, <1>7, <1>8 DEF VInv

----------------------------------------------------------------------------
(* Faults.                                                                 *)

\* The claim of the fault that has just found a frame.
LEMMA ClaimsAfter ==
  ASSUME VInv, NEW k \in Tasks, Free # {}, NEW kind, NEW p, Claims,
         fault' = [fault EXCEPT ![k] = [kind |-> kind, page |-> p, frame |-> Lowest(Free)]],
         refs' = refs, FoundTwice(NextFree) \subseteq wild', Alone'
  PROVE  Claims'
<1>1. /\ Lowest(Free) \in Free /\ \A g \in Free : Lowest(Free) <= g
      /\ refs[Lowest(Free)] = 0
  BY LowestIsIn, Free \in SUBSET Frames DEF Free
<1>2. Lowest(Free) \in NextFree
  BY <1>1 DEF NextFree
<1>3. \A j \in Tasks : fault[j] # NoFault => fault[j].frame # Lowest(Free)
  BY <1>2, NotTwice
<1>4. DOMAIN fault = Tasks
  BY DEF VInv, VTypeOK
<1>5. fault'[k].frame = Lowest(Free) /\ \A j \in Tasks \ {k} : fault'[j] = fault[j]
  BY <1>4
<1> HIDE DEF Free, NextFree
<1> QED
  BY <1>1, <1>3, <1>5 DEF Claims

\* A frame is found, and none is taken yet.
LEMMA FoundStep ==
  ASSUME VInv, NEW k \in Tasks, NEW p \in Pages, FaultBack(k, p) \/ FaultCow(k, p)
  PROVE  VInv'
<1>1. PICK kind \in {"back", "cow"} :
        /\ fault' = [fault EXCEPT ![k] = [kind |-> kind, page |-> p, frame |-> Lowest(Free)]]
        /\ kind = "back" => ~ pte[k][p].present
        /\ kind = "cow" => pte[k][p].present
  BY DEF FaultBack, FaultCow, FrameFound
<1>2. /\ Runs(k) /\ p \in Covered(ranges[k]) /\ Free # {}
      /\ UNCHANGED <<refs, data, pte, pdeRW, ranges, stackStart, status, panicked>>
      /\ wild' = wild \cup FoundTwice(NextFree)
  BY DEF FaultBack, FaultCow, FrameFound, FoundAgain
<1>3. status[k] = "live" /\ fault[k] = NoFault
  BY <1>2, Others
<1>4. Lowest(Free) \in Frames /\ refs[Lowest(Free)] = 0
  BY <1>2, LowestIsIn, Free \in SUBSET Frames DEF Free
<1>5. /\ DOMAIN fault = Tasks
      /\ fault'[k] = [kind |-> kind, page |-> p, frame |-> Lowest(Free)]
      /\ \A j \in Tasks \ {k} : fault'[j] = fault[j]
  BY <1>1 DEF VInv, VTypeOK
<1>6. wild \subseteq wild' /\ FoundTwice(NextFree) \subseteq wild'
  BY <1>2
<1>7. VTypeOK'
  <2>1. fault' \in [Tasks -> {NoFault} \cup [kind : {"back", "cow"}, page : Pages, frame : Frames]]
    BY <1>1, <1>4 DEF VInv, VTypeOK
  <2>2. wild' \subseteq WildCases
    BY <1>2, <1>6, NotTwice DEF VInv, VTypeOK
  <2> QED
    BY <2>1, <2>2, <1>2 DEF VInv, VTypeOK
<1>8. RangesOK'
  BY <1>2 DEF VInv, RangesOK
<1>9. TasksOK'
  <2>1. fault'[k].page = p
    BY <1>5
  <2> QED
    BY <2>1, <1>2, <1>3, <1>5 DEF VInv, TasksOK
<1>10. ASSUME Alone' PROVE Counted'
  <2>1. Counted
    BY <1>6, <1>10, Carried
  <2>2. Claims'
    BY <2>1, <1>1, <1>2, <1>6, <1>10, ClaimsAfter DEF Counted
  <2> QED
    BY <2>1, <2>2, <1>2 DEF Counted, CountCovers, OneReference
<1>11. ASSUME Sound' PROVE Exclusive'
  <2>1. Exclusive
    BY <1>6, <1>11, Carried
  <2> QED
    BY <2>1, <1>2 DEF Exclusive, Twins
<1>12. ASSUME Tidy' PROVE EntriesOK' /\ FaultsOK'
  <2>1. EntriesOK /\ FaultsOK
    BY <1>6, <1>12, Carried
  <2>2. EntriesOK'
    BY <2>1, <1>2, <1>3, <1>5 DEF EntriesOK, NoFault
  <2>3. pte[k][p].frame # 0 <=> pte[k][p].present
    BY <2>1, <1>3 DEF EntriesOK, NoFault
  <2>4. fault'[k].page = p /\ fault'[k].kind = kind
    BY <1>5
  <2>5. FaultsOK'
    BY <2>1, <2>3, <2>4, <1>1, <1>2, <1>5 DEF FaultsOK
  <2> QED
    BY <2>2, <2>5
<1> QED
  BY <1>7, <1>8, <1>9, <1>10, <1>11, <1>12 DEF VInv

\* A fault that ends the task.
LEMMA KillStep ==
  ASSUME VInv, NEW k \in Tasks, NEW p \in Pages, FaultKill(k, p)
  PROVE  VInv'
BY EndStep DEF FaultKill

\* The frame is taken.
LEMMA DoneStep ==
  ASSUME VInv, NEW k \in Tasks, FaultDone(k)
  PROVE  VInv'
<1> DEFINE p == fault[k].page
           f == fault[k].frame
<1>1. /\ fault[k] # NoFault
      /\ refs' = [refs EXCEPT ![f] = 1]
      /\ pte' = [pte EXCEPT ![k][p] = Entry(f, TRUE, TRUE)]
      /\ fault' = [fault EXCEPT ![k] = NoFault]
      /\ UNCHANGED <<ranges, stackStart, status, panicked, wild>>
  BY DEF FaultDone, TakeFrame
<1>2. /\ p \in Pages /\ f \in Frames /\ fault[k].kind \in {"back", "cow"}
      /\ status[k] = "live" /\ p \in Covered(ranges[k])
  BY <1>1 DEF VInv, VTypeOK, TasksOK
<1>3. /\ pte \in [Tasks -> [Pages -> [frame : Frames \cup {0}, present : BOOLEAN, rw : BOOLEAN]]]
      /\ fault \in [Tasks -> {NoFault} \cup [kind : {"back", "cow"}, page : Pages, frame : Frames]]
      /\ refs \in [Frames -> Nat]
  BY DEF VInv, VTypeOK
<1>4. VTypeOK'
  <2>1. data' \in [Frames -> Values]
    <3>1. data \in [Frames -> Values] /\ 0 \in Values
      BY VmmAssumption DEF VInv, VTypeOK
    <3>2. OldFrame(k) \in Frames \cup {0}
      <4>1. pte[k][p] \in [frame : Frames \cup {0}, present : BOOLEAN, rw : BOOLEAN]
        BY <1>2, <1>3
      <4> QED
        BY <4>1 DEF OldFrame
    <3>3. Copied(k) \in Values
      BY <3>1, <3>2 DEF Copied
    <3> QED
      BY <3>1, <3>3 DEF FaultDone, TakeFrame
  <2>2. pdeRW' \in [Tasks -> [Dirs -> BOOLEAN]]
    BY DEF VInv, VTypeOK, FaultDone, TakeFrame
  <2>3. refs' \in [Frames -> Nat]
    BY <1>1, <1>3
  <2>4. pte' \in [Tasks -> [Pages -> [frame : Frames \cup {0}, present : BOOLEAN, rw : BOOLEAN]]]
    BY <1>1, <1>2, <1>3 DEF Entry
  <2>5. fault' \in [Tasks -> {NoFault} \cup [kind : {"back", "cow"}, page : Pages, frame : Frames]]
    BY <1>1, <1>3
  <2> QED
    BY <2>1, <2>2, <2>3, <2>4, <2>5, <1>1 DEF VInv, VTypeOK
<1>5. /\ pte'[k][p] = Entry(f, TRUE, TRUE)
      /\ \A j \in Tasks, q \in Pages : <<j, q>> # <<k, p>> => pte'[j][q] = pte[j][q]
      /\ \A j \in Tasks \ {k} : pte'[j] = pte[j] /\ fault'[j] = fault[j]
      /\ fault'[k] = NoFault
  BY <1>1, <1>2, <1>3
<1>6. RangesOK'
  BY <1>1 DEF VInv, RangesOK
<1>7. TasksOK'
  BY <1>1, <1>2, <1>5 DEF VInv, TasksOK
<1>8. f # 0
  BY <1>2, Constants
<1>9. pte'[k][p].frame = f /\ pte'[k][p].present
  BY <1>5, EntryFields
<1>10. /\ refs'[f] = 1
       /\ \A g \in Frames \ {f} : refs'[g] = refs[g] /\ refs[g] \in Nat
  BY <1>1, <1>2, <1>3
<1>11. f = fault[k].frame /\ p = fault[k].page
  OBVIOUS
<1> HIDE DEF p, f
<1>12. ASSUME Alone' PROVE Counted /\ \A j \in Tasks, q \in Pages : pte[j][q].frame # f
  <2>1. Counted
    BY <1>1, <1>12, Carried
  <2>2. refs[f] = 0
    BY <2>1, <1>1, <1>11 DEF Counted, Claims
  <2>3. \A j \in Tasks, q \in Pages : pte[j][q].frame # f
    BY <2>1, <2>2, <1>2, Nobody DEF VInv, Counted
  <2> QED
    BY <2>1, <2>3
<1>13. ASSUME Alone' PROVE Claims'
  <2>1. Claims
    BY <1>12, <1>13 DEF Counted
  <2> SUFFICES ASSUME NEW j \in Tasks, fault'[j] # NoFault
               PROVE  /\ refs'[fault'[j].frame] = 0
                      /\ \A i \in Tasks \ {j} :
                           fault'[i] # NoFault => fault'[i].frame # fault'[j].frame
    BY DEF Claims
  <2>2. j # k /\ fault'[j] = fault[j]
    BY <1>5
  <2>3. fault[j].frame \in Frames /\ fault[j].frame # f /\ refs[fault[j].frame] = 0
    BY <2>1, <2>2, <1>1, <1>3, <1>11 DEF Claims
  <2>4. \A i \in Tasks \ {j} : fault'[i] # NoFault => fault'[i].frame # fault'[j].frame
    BY <2>1, <2>2, <1>5 DEF Claims
  <2> QED
    BY <2>2, <2>3, <2>4, <1>10
<1>14. ASSUME Alone' PROVE CountCovers'
  <2> SUFFICES ASSUME NEW g \in Frames
               PROVE  Cardinality(Holders(pte', g)) <= refs'[g]
    BY DEF CountCovers, Holders
  <2>1. CASE g = f
    <3>1. \A d, e \in Holders(pte', g) : d = e
      BY <2>1, <1>5, <1>12, <1>14 DEF Holders
    <3>2. Holders(pte', g) \in SUBSET (Tasks \X Pages)
      BY DEF Holders
    <3> QED
      BY <2>1, <3>1, <3>2, <1>10, AtMostOne
  <2>2. CASE g # f
    <3>1. Holders(pte', g) \subseteq Holders(pte, g) /\ Holders(pte, g) \in SUBSET (Tasks \X Pages)
      <4>1. ASSUME NEW e \in Tasks \X Pages, pte'[e[1]][e[2]].frame = g
            PROVE  pte[e[1]][e[2]].frame = g
        <5>1. e[1] \in Tasks /\ e[2] \in Pages /\ e = <<e[1], e[2]>>
          OBVIOUS
        <5>2. <<e[1], e[2]>> # <<k, p>>
          BY <4>1, <2>2, <1>9
        <5> QED
          BY <4>1, <5>1, <5>2, <1>5
      <4> QED
        BY <4>1 DEF Holders
    <3>2. /\ Cardinality(Holders(pte', g)) \in Nat /\ Cardinality(Holders(pte, g)) \in Nat
          /\ Cardinality(Holders(pte', g)) <= Cardinality(Holders(pte, g))
      BY <3>1, Places
    <3>3. refs'[g] = refs[g] /\ refs[g] \in Nat
      BY <2>2, <1>10
    <3>4. Cardinality(Holders(pte, g)) <= refs[g]
      BY <1>12, <1>14 DEF Counted, CountCovers, Holders
    <3> QED
      BY <3>2, <3>3, <3>4
  <2> QED
    BY <2>1, <2>2
<1>15. ASSUME Alone' PROVE OneReference'
  BY <1>1, <1>12, <1>15 DEF Counted, OneReference
<1>16. ASSUME Sound' PROVE Exclusive'
  <2>1. Alone' /\ Exclusive
    BY <1>1, <1>16, Carried
  <2> SUFFICES ASSUME NEW i \in Tasks, NEW j \in Tasks, NEW q \in Pages, NEW s \in Pages,
                      Twins(i, q, j, s)'
               PROVE  ~ pte'[i][q].rw /\ pte'[i][q].present /\ q \in Covered(ranges'[i])
    BY DEF Exclusive
  <2>2. pte'[i][q].frame # 0 /\ pte'[j][s].frame = pte'[i][q].frame /\ (i # j \/ q # s)
    BY DEF Twins
  <2>3. <<i, q>> # <<k, p>> /\ <<j, s>> # <<k, p>>
    <3>1. \A h \in Tasks, x \in Pages :
            <<h, x>> # <<k, p>> => pte'[h][x].frame # pte'[k][p].frame
      <4>1. \A h \in Tasks, x \in Pages : pte[h][x].frame # f
        BY <2>1, <1>12
      <4> TAKE h \in Tasks, x \in Pages
      <4> HAVE <<h, x>> # <<k, p>>
      <4>2. pte'[h][x] = pte[h][x]
        BY <1>5
      <4> QED
        BY <4>1, <4>2, <1>9
    <3>2. ASSUME <<i, q>> = <<k, p>> PROVE FALSE
      BY <3>1, <3>2, <2>2
    <3>3. ASSUME <<j, s>> = <<k, p>> PROVE FALSE
      BY <3>1, <3>3, <2>2
    <3> QED
      BY <3>2, <3>3
  <2>4. pte'[i][q] = pte[i][q] /\ Twins(i, q, j, s)
    BY <2>2, <2>3, <1>5 DEF Twins
  <2> QED
    BY <2>1, <2>4, <1>1 DEF Exclusive
<1>17. ASSUME Tidy' PROVE EntriesOK' /\ FaultsOK'
  <2>1. EntriesOK /\ FaultsOK
    BY <1>1, <1>17, Carried
  <2>2. FaultsOK'
    BY <2>1, <1>5 DEF FaultsOK
  <2>3. \A j \in Tasks, q \in Pages :
          /\ pte'[j][q].frame # 0 => pte'[j][q].present
          /\ pte'[j][q].present /\ pte'[j][q].frame = 0 =>
               status[j] = "zombie" \/ (fault'[j].kind = "back" /\ fault'[j].page = q)
          /\ pte'[j][q].frame # 0 /\ q \notin Covered(ranges[j]) => q >= stackStart[j]
    <3> TAKE j \in Tasks, q \in Pages
    <3>1. CASE <<j, q>> = <<k, p>>
      BY <3>1, <1>2, <1>8, <1>9
    <3>2. CASE j # k
      BY <3>2, <2>1, <1>5 DEF EntriesOK
    <3>3. CASE j = k /\ q # p
      BY <3>3, <2>1, <1>5, <1>11 DEF EntriesOK
    <3> QED
      BY <3>1, <3>2, <3>3
  <2> QED
    BY <2>2, <2>3, <1>1 DEF EntriesOK
<1> QED
  BY <1>4, <1>6, <1>7, <1>13, <1>14, <1>15, <1>16, <1>17 DEF VInv, Counted

\* A place whose table keeps its frames keeps its references.
LEMMA SameHolders ==
  ASSUME CountCovers, refs' = refs,
         \A j \in Tasks, q \in Pages : pte'[j][q].frame = pte[j][q].frame
  PROVE  CountCovers'
<1>1. \A f : Holders(pte', f) = Holders(pte, f)
  BY DEF Holders
<1>2. \A f \in Frames : Cardinality(Holders(pte, f)) <= refs[f]
  BY DEF CountCovers, Holders
<1>3. \A f \in Frames : Cardinality(Holders(pte', f)) <= refs'[f]
  BY <1>1, <1>2
<1> QED
  BY <1>3 DEF CountCovers, Holders

\* The stack grows by a page, and nothing else becomes writable.
LEMMA GrowStep ==
  ASSUME VInv, NEW k \in Tasks, NEW p \in Pages, NEW r \in StackRanges(k),
         Runs(k), Growing(k, p), Grow(k, p, r)
  PROVE  VInv'
<1> DEFINE moved == [r EXCEPT !.start = @ - 1]
<1>1. status[k] = "live" /\ fault[k] = NoFault
  BY Others
<1>2. /\ pte \in [Tasks -> [Pages -> [frame : Frames \cup {0}, present : BOOLEAN, rw : BOOLEAN]]]
      /\ fault \in [Tasks -> {NoFault} \cup [kind : {"back", "cow"}, page : Pages, frame : Frames]]
      /\ ranges \in [Tasks -> SUBSET [start : Pages, len : Pages]]
      /\ stackStart \in [Tasks -> Pages \cup {0}]
      /\ status \in [Tasks -> {"none", "live", "zombie", "stillborn"}]
      /\ pdeRW \in [Tasks -> [Dirs -> BOOLEAN]]
  BY DEF VInv, VTypeOK
<1>3. /\ Pages \subseteq Nat \ {0} /\ 0 \notin Pages
  BY Constants
<1>4. /\ r \in ranges[k] /\ stackStart[k] \in Span(r) /\ r \in [start : Pages, len : Pages]
      /\ p = stackStart[k] - 1 /\ p \notin Covered(ranges[k])
  BY <1>2 DEF StackRanges, Growing
<1>5. r.start = stackStart[k] /\ r.start = p + 1 /\ r.len \in Nat \ {0}
  <2>1. p \notin Span(r)
    BY <1>4 DEF Covered
  <2>2. r.start \in Nat /\ r.len \in Nat /\ p \in Nat /\ r.len # 0
    BY <1>3, <1>4
  <2> QED
    BY <2>1, <2>2, <1>4 DEF Span
<1>6. moved = [start |-> p, len |-> r.len]
  <2>1. r = [start |-> r.start, len |-> r.len] /\ p \in Nat
    BY <1>3, <1>4
  <2>2. moved.start = p /\ moved.len = r.len
    BY <2>1, <1>5
  <2> QED
    BY <2>1, <2>2, <1>5
<1>7. /\ moved \in [start : Pages, len : Pages]
      /\ p \in Span(moved) /\ Span(moved) \subseteq Span(r) \cup {p}
      /\ \A q \in Span(r) : q \notin Span(moved) => q > p
  BY <1>3, <1>4, <1>5, <1>6 DEF Span
<1>8. Span(r) \subseteq Pages
  BY <1>4 DEF VInv, RangesOK, Apart
<1> HIDE DEF moved
<1>9. /\ ranges' = [ranges EXCEPT ![k] = (@ \ {r}) \cup {moved}]
      /\ pte' = [pte EXCEPT ![k] = [q \in Pages |->
                   IF q \in Span(moved) THEN Entry(@[q].frame, TRUE, TRUE) ELSE @[q]]]
      /\ pdeRW' = [pdeRW EXCEPT ![k] = [d \in Dirs |->
                     @[d] \/ \E q \in Span(moved) : Directory[q] = d]]
      /\ stackStart' = [stackStart EXCEPT ![k] = p]
      /\ UNCHANGED <<refs, data, panicked>>
  BY DEF Grow, moved
<1>10. /\ wild \subseteq wild' /\ wild' \subseteq WildCases
       /\ FoundTwice(NextFree) \subseteq wild'
       /\ Sound' => \A q \in Span(r) : pte[k][q].frame # 0 /\ ~ Shared(k, q)
  <2> DEFINE unsound == \E q \in Span(r) : pte[k][q].frame = 0 \/ Shared(k, q)
  <2>1. wild' = wild \cup Wilder(unsound, "grow_any") \cup FoundTwice(NextFree)
    BY DEF Grow
  <2>2. wild \subseteq WildCases
    BY DEF VInv, VTypeOK
  <2>3. Wilder(unsound, "grow_any") \subseteq WildCases
    BY DEF Wilder, WildCases
  <2>4. Sound' => ~ unsound
    BY <2>1 DEF Sound, Wilder
  <2> HIDE DEF unsound
  <2>5. wild \subseteq wild' /\ FoundTwice(NextFree) \subseteq wild'
    BY <2>1
  <2>6. FoundTwice(NextFree) \subseteq WildCases
    BY <2>5, NotTwice
  <2> QED
    BY <2>1, <2>2, <2>3, <2>4, <2>5, <2>6 DEF unsound
<1>11. /\ \A j \in Tasks \ {k} : pte'[j] = pte[j] /\ ranges'[j] = ranges[j]
                                /\ stackStart'[j] = stackStart[j]
       /\ \A q \in Pages : pte'[k][q] = IF q \in Span(moved)
                                        THEN Entry(pte[k][q].frame, TRUE, TRUE)
                                        ELSE pte[k][q]
       /\ ranges'[k] = (ranges[k] \ {r}) \cup {moved} /\ stackStart'[k] = p
  BY <1>2, <1>9
<1>12. \/ /\ status' = status /\ Free # {} /\ Lowest(Free) \in Frames
          /\ fault' = [fault EXCEPT ![k] = [kind |-> "back", page |-> p, frame |-> Lowest(Free)]]
       \/ status' = [status EXCEPT ![k] = "zombie"] /\ fault' = fault
  <2>1. Free # {} => Lowest(Free) \in Frames
    BY LowestIsIn, Free \in SUBSET Frames DEF Free
  <2> QED
    BY <2>1 DEF Grow, FrameFound
<1>13. /\ \A j \in Tasks \ {k} : status'[j] = status[j] /\ fault'[j] = fault[j]
       /\ \/ status'[k] = "live" /\ fault'[k].kind = "back" /\ fault'[k].page = p
          \/ status'[k] = "zombie" /\ fault'[k] = NoFault
  <2>1. CASE status' = status /\ fault' = [fault EXCEPT ![k] =
               [kind |-> "back", page |-> p, frame |-> Lowest(Free)]]
    BY <2>1, <1>1, <1>2
  <2>2. CASE status' = [status EXCEPT ![k] = "zombie"] /\ fault' = fault
    BY <2>2, <1>1, <1>2
  <2> QED
    BY <2>1, <2>2, <1>12
<1>14. VTypeOK'
  <2>1. pte' \in [Tasks -> [Pages -> [frame : Frames \cup {0}, present : BOOLEAN, rw : BOOLEAN]]]
    BY <1>2, <1>9 DEF Entry
  <2>2. ranges' \in [Tasks -> SUBSET [start : Pages, len : Pages]]
    BY <1>2, <1>7, <1>9
  <2>3. stackStart' \in [Tasks -> Pages \cup {0}] /\ pdeRW' \in [Tasks -> [Dirs -> BOOLEAN]]
    BY <1>2, <1>9
  <2>4. /\ fault' \in [Tasks -> {NoFault} \cup [kind : {"back", "cow"}, page : Pages, frame : Frames]]
        /\ status' \in [Tasks -> {"none", "live", "zombie", "stillborn"}]
    <3>1. CASE status' = status /\ Lowest(Free) \in Frames
               /\ fault' = [fault EXCEPT ![k] = [kind |-> "back", page |-> p, frame |-> Lowest(Free)]]
      BY <3>1, <1>2
    <3>2. CASE status' = [status EXCEPT ![k] = "zombie"] /\ fault' = fault
      BY <3>2, <1>2
    <3> QED
      BY <3>1, <3>2, <1>12
  <2> QED
    BY <2>1, <2>2, <2>3, <2>4, <1>9, <1>10 DEF VInv, VTypeOK
<1>15. RangesOK'
  <2>1. Apart(ranges[k])
    BY DEF VInv, RangesOK
  <2>2. \A s \in ranges[k] \ {r} : Span(s) \cap Span(moved) = {}
    BY <2>1, <1>4, <1>7 DEF Apart, Covered
  <2>3. Apart(ranges'[k])
    BY <2>1, <2>2, <1>7, <1>8, <1>11 DEF Apart
  <2> QED
    BY <2>3, <1>11 DEF VInv, RangesOK
<1>16. TasksOK'
  <2>1. p \in Covered(ranges'[k])
    BY <1>7, <1>11 DEF Covered
  <2> QED
    BY <2>1, <1>11, <1>13 DEF VInv, TasksOK
<1>17. \A j \in Tasks, q \in Pages :
         pte'[j][q].frame = pte[j][q].frame /\ (pte[j][q].present => pte'[j][q].present)
  <2> TAKE j \in Tasks, q \in Pages
  <2>1. CASE j = k /\ q \in Span(moved)
    <3>1. pte'[j][q] = Entry(pte[j][q].frame, TRUE, TRUE)
      BY <2>1, <1>11
    <3> QED
      BY <3>1 DEF Entry
  <2>2. CASE ~ (j = k /\ q \in Span(moved))
    BY <2>2, <1>11
  <2> QED
    BY <2>1, <2>2
<1>18. ASSUME Alone' PROVE Counted'
  <2>1. Counted
    BY <1>10, <1>18, Carried
  <2>2. CountCovers' /\ OneReference'
    BY <2>1, <1>9, <1>17, SameHolders DEF Counted, OneReference
  <2>3. CASE Free # {} /\ fault' = [fault EXCEPT ![k] =
               [kind |-> "back", page |-> p, frame |-> Lowest(Free)]]
    <3>1. Claims'
      BY <2>1, <2>3, <1>9, <1>10, <1>18, ClaimsAfter DEF Counted
    <3> QED
      BY <2>2, <3>1 DEF Counted
  <2>4. CASE fault' = fault
    <3>1. Claims'
      BY <2>1, <2>4, <1>9 DEF Counted, Claims
    <3> QED
      BY <2>2, <3>1 DEF Counted
  <2> QED
    BY <2>3, <2>4, <1>12
<1>19. ASSUME Sound' PROVE Exclusive'
  <2>1. Exclusive
    BY <1>10, <1>19, Carried
  <2> SUFFICES ASSUME NEW i \in Tasks, NEW j \in Tasks, NEW q \in Pages, NEW s \in Pages,
                      Twins(i, q, j, s)'
               PROVE  ~ pte'[i][q].rw /\ pte'[i][q].present /\ q \in Covered(ranges'[i])
    BY DEF Exclusive
  <2>2. Twins(i, q, j, s) /\ Twins(j, s, i, q)
    BY <1>17 DEF Twins
  <2>3. /\ ~ pte[i][q].rw /\ pte[i][q].present /\ q \in Covered(ranges[i])
        /\ pte[j][s].present
    BY <2>1, <2>2 DEF Exclusive
  <2>4. Shared(i, q)
    BY <2>2, <2>3 DEF Shared, Twins
  <2>5. i = k => q \notin Span(r) /\ q \notin Span(moved)
    BY <2>3, <2>4, <1>4, <1>7, <1>10, <1>19
  <2>6. pte'[i][q] = pte[i][q]
    BY <2>5, <1>11
  <2>7. q \in Covered(ranges'[i])
    BY <2>3, <2>5, <1>11 DEF Covered
  <2> QED
    BY <2>3, <2>6, <2>7
<1>20. ASSUME Tidy' PROVE EntriesOK' /\ FaultsOK'
  <2>1. EntriesOK /\ FaultsOK /\ Sound'
    BY <1>10, <1>20, Carried
  <2>2. \A q \in Span(r) : pte[k][q].frame # 0
    BY <2>1, <1>10
  <2>3. pte[k][p].frame = 0
    <3>1. ~ (p >= stackStart[k])
      BY <1>3, <1>4, <1>5
    <3> QED
      BY <2>1, <3>1, <1>4 DEF EntriesOK
  <2>4. \A j \in Tasks, q \in Pages : pte'[j][q].frame # 0 => pte'[j][q].present
    BY <2>1, <1>17 DEF EntriesOK
  <2>5. ASSUME NEW j \in Tasks, NEW q \in Pages, pte'[j][q].present, pte'[j][q].frame = 0
        PROVE  status'[j] = "zombie" \/ (fault'[j].kind = "back" /\ fault'[j].page = q)
    <3>1. CASE j = k /\ q \in Span(moved)
      <4>1. q = p
        BY <3>1, <2>2, <2>5, <1>7, <1>17
      <4> QED
        BY <4>1, <3>1, <1>13
    <3>2. CASE j = k /\ q \notin Span(moved)
      <4>1. pte[j][q].present /\ pte[j][q].frame = 0
        BY <3>2, <2>5, <1>11
      <4> QED
        BY <4>1, <3>2, <2>1, <1>1 DEF EntriesOK, NoFault
    <3>3. CASE j # k
      <4>1. pte[j][q].present /\ pte[j][q].frame = 0
        BY <3>3, <2>5, <1>11
      <4> QED
        BY <4>1, <3>3, <2>1, <1>13 DEF EntriesOK
    <3> QED
      BY <3>1, <3>2, <3>3
  <2>6. ASSUME NEW j \in Tasks, NEW q \in Pages,
               pte'[j][q].frame # 0, q \notin Covered(ranges'[j])
        PROVE  q >= stackStart'[j]
    <3>1. CASE j # k
      BY <3>1, <2>1, <2>6, <1>11 DEF EntriesOK
    <3>2. CASE j = k /\ q \in Span(r)
      <4>1. q \notin Span(moved)
        BY <3>2, <2>6, <1>11 DEF Covered
      <4>2. q > p /\ stackStart'[k] = p /\ q \in Nat /\ p \in Nat
        BY <4>1, <3>2, <1>3, <1>7, <1>11
      <4> QED
        BY <4>2, <3>2
    <3>3. CASE j = k /\ q \notin Span(r)
      <4>1. q \notin Covered(ranges[k])
        BY <3>3, <2>6, <1>11 DEF Covered
      <4>2. q >= stackStart[k]
        BY <4>1, <3>3, <2>1, <2>6, <1>17 DEF EntriesOK
      <4> QED
        <5>1. q \in Nat /\ p \in Nat /\ stackStart[k] = p + 1
          BY <1>3, <1>5
        <5> QED
          BY <5>1, <4>2, <3>3, <1>11
    <3> QED
      BY <3>1, <3>2, <3>3
  <2>7. EntriesOK'
    BY <2>4, <2>5, <2>6 DEF EntriesOK
  <2>8. pte'[k][p].frame = 0
    BY <2>3, <1>17
  <2>9. FaultsOK'
    BY <2>1, <2>8, <1>11, <1>13 DEF FaultsOK
  <2> QED
    BY <2>7, <2>9
<1> QED
  BY <1>14, <1>15, <1>16, <1>18, <1>19, <1>20 DEF VInv

\* A fault just below the stack.
LEMMA FaultGrowStep ==
  ASSUME VInv, NEW k \in Tasks, NEW p \in Pages, FaultGrow(k, p)
  PROVE  VInv'
<1>1. CASE StackRanges(k) = {}
  BY <1>1, PanicStep DEF FaultGrow, Assertions
<1>2. CASE StackRanges(k) # {}
  BY <1>2, GrowStep DEF FaultGrow
<1> QED
  BY <1>1, <1>2

----------------------------------------------------------------------------
(* new_pages and remove_pages.                                             *)

\* What is given has a frame that nobody else has, or none, so that writing to
\* it does no harm.
LEMMA NewPagesStep ==
  ASSUME VInv, NEW k \in Tasks, NEW r \in Asked, NewPages(k, r)
  PROVE  VInv'
<1>1. /\ Runs(k) /\ Span(r) \cap Covered(ranges[k]) = {}
      /\ ranges' = [ranges EXCEPT ![k] = @ \cup {r}]
      /\ pte' = [pte EXCEPT ![k] = [q \in Pages |->
                   IF q \in Span(r) THEN Entry(@[q].frame, FALSE, TRUE) ELSE @[q]]]
      /\ wild' = wild \cup Wilder(Span(r) \cap Stray(k) # {}, "fork_grown")
      /\ UNCHANGED <<refs, data, stackStart, status, fault, panicked>>
  BY DEF NewPages
<1>2. /\ status[k] = "live" /\ fault[k] = NoFault
      /\ \A j \in Tasks : fault[j] # NoFault => j # k
  BY <1>1, Others
<1>3. /\ pte \in [Tasks -> [Pages -> [frame : Frames \cup {0}, present : BOOLEAN, rw : BOOLEAN]]]
      /\ ranges \in [Tasks -> SUBSET [start : Pages, len : Pages]]
  BY DEF VInv, VTypeOK
<1>4. r \in [start : Pages, len : Pages] /\ Span(r) \subseteq Pages
  BY VmmAssumption DEF Pages
<1>5. \A q \in Span(r) : q \notin Covered(ranges[k])
  BY <1>1
<1>6. /\ \A j \in Tasks \ {k} : pte'[j] = pte[j] /\ ranges'[j] = ranges[j]
      /\ \A q \in Span(r) : pte'[k][q] = Entry(pte[k][q].frame, FALSE, TRUE)
      /\ \A q \in Pages \ Span(r) : pte'[k][q] = pte[k][q]
      /\ ranges'[k] = ranges[k] \cup {r}
  BY <1>1, <1>3, <1>4
<1>7. \A j \in Tasks, q \in Pages :
        /\ pte'[j][q].frame = pte[j][q].frame
        /\ \/ pte'[j][q] = pte[j][q]
           \/ j = k /\ q \in Span(r) /\ ~ pte'[j][q].present
  <2> TAKE j \in Tasks, q \in Pages
  <2>1. CASE j = k /\ q \in Span(r)
    <3>1. pte'[j][q] = Entry(pte[j][q].frame, FALSE, TRUE)
      BY <2>1, <1>6
    <3>2. pte'[j][q].frame = pte[j][q].frame /\ ~ pte'[j][q].present
      BY <3>1 DEF Entry
    <3> QED
      BY <2>1, <3>2
  <2>2. CASE ~ (j = k /\ q \in Span(r))
    <3>1. pte'[j][q] = pte[j][q]
      BY <2>2, <1>6
    <3> QED
      BY <3>1
  <2> QED
    BY <2>1, <2>2
<1>8. /\ wild \subseteq wild' /\ wild' \subseteq WildCases
      /\ Tidy' => Span(r) \cap Stray(k) = {}
  BY <1>1 DEF VInv, VTypeOK, Wilder, WildCases, Tidy
<1>9. VTypeOK'
  <2>1. pte' \in [Tasks -> [Pages -> [frame : Frames \cup {0}, present : BOOLEAN, rw : BOOLEAN]]]
    BY <1>1, <1>3 DEF Entry
  <2>2. ranges' \in [Tasks -> SUBSET [start : Pages, len : Pages]]
    BY <1>1, <1>3, <1>4
  <2>3. pdeRW' \in [Tasks -> [Dirs -> BOOLEAN]]
    BY DEF NewPages, VInv, VTypeOK
  <2> QED
    BY <2>1, <2>2, <2>3, <1>1, <1>8 DEF VInv, VTypeOK
<1>10. RangesOK'
  <2>1. \A s \in ranges[k] : Span(s) \cap Span(r) = {}
    BY <1>5 DEF Covered
  <2>2. Apart(ranges'[k])
    BY <2>1, <1>4, <1>6 DEF VInv, RangesOK, Apart
  <2> QED
    BY <2>2, <1>6 DEF VInv, RangesOK
<1>11. TasksOK'
  BY <1>1, <1>2, <1>6 DEF VInv, TasksOK
<1>12. ASSUME Alone' PROVE Counted'
  <2>1. Counted
    BY <1>8, <1>12, Carried
  <2>2. CountCovers'
    BY <2>1, <1>1, <1>7, SameHolders DEF Counted
  <2> QED
    BY <2>1, <2>2, <1>1 DEF Counted, Claims, OneReference
<1>13. ASSUME Sound' PROVE Exclusive'
  <2>1. Exclusive
    BY <1>8, <1>13, Carried
  <2> SUFFICES ASSUME NEW i \in Tasks, NEW j \in Tasks, NEW q \in Pages, NEW s \in Pages,
                      Twins(i, q, j, s)'
               PROVE  ~ pte'[i][q].rw /\ pte'[i][q].present /\ q \in Covered(ranges'[i])
    BY DEF Exclusive
  <2>2. Twins(i, q, j, s)
    BY <1>7 DEF Twins
  <2>3. ~ pte[i][q].rw /\ pte[i][q].present /\ q \in Covered(ranges[i])
    BY <2>1, <2>2 DEF Exclusive
  <2>4. pte'[i][q] = pte[i][q]
    BY <2>3, <1>5, <1>7
  <2>5. q \in Covered(ranges'[i])
    BY <2>3, <1>6 DEF Covered
  <2> QED
    BY <2>3, <2>4, <2>5
<1>14. ASSUME Tidy' PROVE EntriesOK' /\ FaultsOK'
  <2>1. EntriesOK /\ FaultsOK
    BY <1>8, <1>14, Carried
  <2>2. \A q \in Span(r) : pte[k][q].frame = 0
    BY <2>1, <1>4, <1>5, <1>8, <1>14 DEF Stray, EntriesOK
  <2>3. \A j \in Tasks, q \in Pages :
          /\ pte'[j][q].frame # 0 => pte'[j][q].present
          /\ pte'[j][q].present /\ pte'[j][q].frame = 0 =>
               status[j] = "zombie" \/ (fault[j].kind = "back" /\ fault[j].page = q)
    BY <2>1, <2>2, <1>7 DEF EntriesOK
  <2>4. \A j \in Tasks : Covered(ranges[j]) \subseteq Covered(ranges'[j])
    BY <1>6 DEF Covered
  <2>5. \A j \in Tasks, q \in Pages :
          pte'[j][q].frame # 0 /\ q \notin Covered(ranges'[j]) => q >= stackStart[j]
    BY <2>1, <2>4, <1>7 DEF EntriesOK
  <2>6. EntriesOK'
    BY <2>3, <2>5, <1>1 DEF EntriesOK
  <2>7. FaultsOK'
    BY <2>1, <1>1, <1>2, <1>6 DEF FaultsOK
  <2> QED
    BY <2>6, <2>7
<1> QED
  BY <1>9, <1>10, <1>11, <1>12, <1>13, <1>14 DEF VInv


\* Counts that no drop overdraws are counts afterwards.
LEMMA DropTyped ==
  ASSUME NEW counts \in [Frames -> Nat], NEW k \in Tasks, NEW P \in SUBSET Pages, NEW S,
         \A e \in S : \E p \in P : e = <<k, p, pte[k][p].frame>>,
         ~ Overdrawn(counts, S)
  PROVE  Drop(counts, S) \in [Frames -> Nat]
<1> SUFFICES ASSUME NEW f \in Frames PROVE Drop(counts, S)[f] \in Nat
  BY DEF Drop
<1> DEFINE B == {e \in S : e[3] = f}
           g == [e \in B |-> e[2]]
<1>1. g \in Injection(B, Pages)
  <2>1. \A e \in B : e = <<k, e[2], f>> /\ e[2] \in Pages
    OBVIOUS
  <2>2. g \in [B -> Pages] /\ DOMAIN g = B
    BY <2>1
  <2>3. \A d, e \in B : g[d] = g[e] => d = e
    BY <2>1
  <2> HIDE DEF g, B
  <2> QED
    BY <2>2, <2>3 DEF Injection, IsInjective
<1>2. IsFiniteSet(B)
  <2> HIDE DEF g, B
  <2> QED
    BY <1>1, Constants, FS_Injection
<1>3. Cardinality(B) \in Nat
  BY <1>2, FS_CardinalityType
<1>4. Drop(counts, S)[f] = counts[f] - Cardinality(B)
  BY DEF Drop
<1>5. ~ (Drop(counts, S)[f] < 0)
  BY DEF Overdrawn
<1>6. counts[f] \in Nat
  OBVIOUS
<1> HIDE DEF B
<1> QED
  BY <1>3, <1>4, <1>5, <1>6

\* No count is overdrawn while counts cover what tables hold.
LEMMA NotOverdrawn ==
  ASSUME VTypeOK, CountCovers, NEW k \in Tasks, NEW P \in SUBSET Pages,
         NEW S, S \subseteq {<<k, p, pte[k][p].frame>> : p \in P},
         \A p \in P : pte[k][p].frame # 0 => <<k, p, pte[k][p].frame>> \in S
  PROVE  /\ ~ Overdrawn(refs, S)
         /\ \A f \in Frames : Without(S)[f] \in Nat /\ Without(S)[f] <= refs[f]
<1>1. ASSUME NEW f \in Frames PROVE Without(S)[f] \in Nat /\ Without(S)[f] <= refs[f]
  <2>1. f # 0
    BY Constants
  <2>2. \A p \in P : pte[k][p].frame = f => <<k, p, f>> \in S
    BY <2>1
  <2>3. {} \in SUBSET Holders(pte, f) /\ \A p \in P : <<k, p>> \notin {}
    OBVIOUS
  <2> QED
    BY <2>2, <2>3, Dropped
<1>2. \A f \in Frames : ~ (Drop(refs, S)[f] < 0)
  BY <1>1 DEF Without
<1> QED
  BY <1>1, <1>2 DEF Overdrawn

\* Tables that keep only some of what they held.
LEMMA LessHeld ==
  ASSUME VTypeOK, CountCovers, NEW k \in Tasks, NEW P \in SUBSET Pages, NEW S,
         S \subseteq {<<k, p, pte[k][p].frame>> : p \in P},
         \A p \in P : pte[k][p].frame # 0 => <<k, p, pte[k][p].frame>> \in S,
         \A p \in P : pte'[k][p].frame = 0,
         \A j \in Tasks, q \in Pages :
           pte'[j][q].frame # 0 => pte'[j][q].frame = pte[j][q].frame
  PROVE  \A f \in Frames : Cardinality(Holders(pte', f)) <= Without(S)[f]
<1> TAKE f \in Frames
<1>1. f # 0
  BY Constants
<1>2. Holders(pte', f) \in SUBSET Holders(pte, f) /\ \A p \in P : <<k, p>> \notin Holders(pte', f)
  BY <1>1 DEF Holders
<1>3. \A p \in P : pte[k][p].frame = f => <<k, p, f>> \in S
  BY <1>1
<1> QED
  BY <1>2, <1>3, Dropped

\* A claimed frame stays so when references are dropped.
LEMMA ClaimsKept ==
  ASSUME VInv, Claims, fault' = fault,
         \A f \in Frames : refs'[f] \in Nat /\ refs'[f] <= refs[f]
  PROVE  Claims'
<1> SUFFICES ASSUME NEW k \in Tasks, fault[k] # NoFault
             PROVE  /\ refs'[fault[k].frame] = 0
                    /\ \A j \in Tasks \ {k} : fault[j] # NoFault => fault[j].frame # fault[k].frame
  BY DEF Claims
<1>1. fault[k].frame \in Frames
  BY DEF VInv, VTypeOK
<1>2. refs[fault[k].frame] = 0
  BY DEF Claims
<1>3. refs'[fault[k].frame] = 0
  BY <1>1, <1>2
<1> QED
  BY <1>3 DEF Claims

\* Pages that go take their references with them.
LEMMA RemoveStep ==
  ASSUME VInv, NEW k \in Tasks, NEW r \in Asked, RemovePages(k, r)
  PROVE  VInv'
<1> DEFINE gone == {q \in Span(r) : pte[k][q].present}
           S == {<<k, q, pte[k][q].frame>> : q \in gone}
<1>1. CASE \E q \in gone : pte[k][q].frame = 0
  BY <1>1, PanicStep DEF RemovePages, UninstallRange, Assertions
<1>2. Span(r) \subseteq Pages /\ gone \in SUBSET Pages
  BY VmmAssumption DEF Pages
<1>3. Alone => /\ ~ Overdrawn(refs, S)
               /\ \A f \in Frames : Without(S)[f] \in Nat /\ Without(S)[f] <= refs[f]
  <2>1. S \subseteq {<<k, q, pte[k][q].frame>> : q \in gone}
    OBVIOUS
  <2>2. \A q \in gone : pte[k][q].frame # 0 => <<k, q, pte[k][q].frame>> \in S
    OBVIOUS
  <2> HIDE DEF S, gone
  <2> QED
    BY <2>1, <2>2, <1>2, NotOverdrawn DEF VInv, Counted
<1>4. CASE ~ (\E q \in gone : pte[k][q].frame = 0) /\ Overdrawn(refs, S)
  <2>1. Panic("negative count")
    BY <1>4 DEF RemovePages, UninstallRange
  <2> HIDE DEF S, gone
  <2> QED
    BY <2>1, <1>3, <1>4, PanicStep DEF Assertions
<1>5. CASE ~ (\E q \in gone : pte[k][q].frame = 0) /\ ~ Overdrawn(refs, S)
  <2>1. /\ Runs(k) /\ r \in ranges[k]
        /\ refs' = Without(S)
        /\ pte' = [pte EXCEPT ![k] = [q \in Pages |->
                     IF q \in gone THEN Uninstalled(@[q]) ELSE @[q]]]
        /\ ranges' = [ranges EXCEPT ![k] = @ \ {r}]
        /\ UNCHANGED <<data, pdeRW, stackStart, status, fault, panicked, wild>>
    BY <1>5 DEF RemovePages, UninstallRange
  <2>2. /\ status[k] = "live" /\ fault[k] = NoFault
        /\ \A j \in Tasks : fault[j] # NoFault => j # k
    BY <2>1, Others
  <2>3. /\ pte \in [Tasks -> [Pages -> [frame : Frames \cup {0}, present : BOOLEAN, rw : BOOLEAN]]]
        /\ ranges \in [Tasks -> SUBSET [start : Pages, len : Pages]]
        /\ refs \in [Frames -> Nat]
    BY DEF VInv, VTypeOK
  <2>4. \A q \in Span(r) \ gone : ~ pte[k][q].present
    OBVIOUS
  <2>5. S = {<<k, q, pte[k][q].frame>> : q \in gone}
    OBVIOUS
  <2> HIDE DEF gone, S
  <2>6. /\ \A j \in Tasks \ {k} : pte'[j] = pte[j] /\ ranges'[j] = ranges[j]
        /\ \A q \in gone : pte'[k][q] = Uninstalled(pte[k][q])
        /\ \A q \in Pages \ gone : pte'[k][q] = pte[k][q]
        /\ ranges'[k] = ranges[k] \ {r}
    BY <2>1, <2>3, <1>2
  <2>7. \A j \in Tasks, q \in Pages :
          \/ pte'[j][q] = pte[j][q] /\ ~ (j = k /\ q \in gone)
          \/ pte'[j][q].frame = 0 /\ ~ pte'[j][q].present /\ j = k /\ q \in gone
    <3>1. \A q \in gone : pte'[k][q].frame = 0 /\ ~ pte'[k][q].present
      BY <2>6, EntryFields
    <3> QED
      BY <3>1, <2>6
  <2>8. VTypeOK'
    <3>1. \A e \in S : \E q \in gone : e = <<k, q, pte[k][q].frame>>
      BY <2>5
    <3>2. refs' \in [Frames -> Nat]
      BY <3>1, <2>1, <2>3, <1>2, <1>5, DropTyped DEF Without
    <3>3. pte' \in [Tasks -> [Pages -> [frame : Frames \cup {0}, present : BOOLEAN, rw : BOOLEAN]]]
      BY <2>1, <2>3 DEF Uninstalled, Entry
    <3>4. ranges' \in [Tasks -> SUBSET [start : Pages, len : Pages]]
      BY <2>1, <2>3
    <3> QED
      BY <3>2, <3>3, <3>4, <2>1 DEF VInv, VTypeOK
  <2>9. RangesOK'
    BY <2>6 DEF VInv, RangesOK, Apart
  <2>10. TasksOK'
    BY <2>1, <2>2, <2>6 DEF VInv, TasksOK
  <2>11. ASSUME Alone' PROVE Counted'
    <3>1. Counted /\ Alone
      BY <2>1, <2>11, Carried DEF Alone
    <3>2. Claims'
      BY <3>1, <2>1, <1>3, ClaimsKept DEF Counted
    <3>3. \A f \in Frames : Cardinality(Holders(pte', f)) <= Without(S)[f]
      <4>1. S \subseteq {<<k, q, pte[k][q].frame>> : q \in gone}
        BY <2>5
      <4>2. \A q \in gone : pte[k][q].frame # 0 => <<k, q, pte[k][q].frame>> \in S
        BY <2>5
      <4>3. \A q \in gone : pte'[k][q].frame = 0
        BY <2>7, <1>2
      <4>4. \A j \in Tasks, q \in Pages :
              pte'[j][q].frame # 0 => pte'[j][q].frame = pte[j][q].frame
        BY <2>7
      <4> QED
        BY <3>1, <4>1, <4>2, <4>3, <4>4, <1>2, LessHeld DEF VInv, Counted
    <3>4. CountCovers'
      BY <3>3, <2>1 DEF CountCovers, Holders
    <3> QED
      BY <3>1, <3>2, <3>4, <2>1 DEF Counted, OneReference
  <2>12. ASSUME Sound' PROVE Exclusive'
    <3>1. Exclusive
      BY <2>1, <2>12, Carried
    <3> SUFFICES ASSUME NEW i \in Tasks, NEW j \in Tasks, NEW q \in Pages, NEW s \in Pages,
                        Twins(i, q, j, s)'
                 PROVE  ~ pte'[i][q].rw /\ pte'[i][q].present /\ q \in Covered(ranges'[i])
      BY DEF Exclusive
    <3>2. pte'[i][q].frame # 0 /\ pte'[j][s].frame # 0
      BY DEF Twins
    <3>3. /\ pte'[i][q] = pte[i][q] /\ ~ (i = k /\ q \in gone)
          /\ pte'[j][s] = pte[j][s]
      BY <3>2, <2>7
    <3>4. Twins(i, q, j, s)
      BY <3>3 DEF Twins
    <3>5. ~ pte[i][q].rw /\ pte[i][q].present /\ q \in Covered(ranges[i])
      BY <3>1, <3>4 DEF Exclusive
    <3>6. q \in Covered(ranges'[i])
      <4>1. i = k => q \notin Span(r)
        BY <3>3, <3>5, <2>4
      <4> QED
        BY <4>1, <3>5, <2>6 DEF Covered
    <3> QED
      BY <3>3, <3>5, <3>6
  <2>13. ASSUME Tidy' PROVE EntriesOK' /\ FaultsOK'
    <3>1. EntriesOK /\ FaultsOK
      BY <2>1, <2>13, Carried
    <3>2. \A j \in Tasks, q \in Pages :
            /\ pte'[j][q].frame # 0 => pte'[j][q].present
            /\ pte'[j][q].present /\ pte'[j][q].frame = 0 =>
                 status[j] = "zombie" \/ (fault[j].kind = "back" /\ fault[j].page = q)
      BY <3>1, <2>7 DEF EntriesOK
    <3>3. ASSUME NEW j \in Tasks, NEW q \in Pages,
                 pte'[j][q].frame # 0, q \notin Covered(ranges'[j])
          PROVE  q >= stackStart[j]
      <4>1. pte'[j][q] = pte[j][q] /\ ~ (j = k /\ q \in gone)
        BY <3>3, <2>7
      <4>2. pte[j][q].present
        BY <4>1, <3>1, <3>3 DEF EntriesOK
      <4>3. j = k => q \notin Span(r)
        BY <4>1, <4>2, <2>4
      <4>4. q \notin Covered(ranges[j])
        BY <3>3, <4>3, <2>6 DEF Covered
      <4> QED
        BY <3>1, <3>3, <4>1, <4>4 DEF EntriesOK
    <3>4. EntriesOK'
      BY <3>2, <3>3, <2>1 DEF EntriesOK
    <3>5. FaultsOK'
      BY <3>1, <2>1, <2>2, <2>6 DEF FaultsOK
    <3> QED
      BY <3>4, <3>5
  <2> QED
    BY <2>8, <2>9, <2>10, <2>11, <2>12, <2>13 DEF VInv
<1> QED
  BY <1>1, <1>4, <1>5

----------------------------------------------------------------------------
(* fork, exec and the end of a task.                                       *)

\* The entries that a child shares are counted, and nobody writes by them.
LEMMA ShareStep ==
  ASSUME VInv, NEW k \in Tasks, NEW c \in Tasks, NEW rs \in SUBSET ranges[k],
         NEW new \in {"live", "stillborn"},
         CanFork(k, c), ~ NullFrame(k, rs), Share(k, c, rs),
         status' = [status EXCEPT ![c] = new],
         UNCHANGED <<data, fault, panicked>>
  PROVE  VInv'
<1> DEFINE S == Covered(rs)
<1>1. /\ status[k] = "live" /\ status[c] = "none" /\ k # c
      /\ fault[k] = NoFault /\ fault[c] = NoFault
      /\ \A j \in Tasks : fault[j] # NoFault => j # k /\ j # c /\ status[j] = "live"
  BY Others DEF CanFork
<1>2. /\ pte \in [Tasks -> [Pages -> [frame : Frames \cup {0}, present : BOOLEAN, rw : BOOLEAN]]]
      /\ ranges \in [Tasks -> SUBSET [start : Pages, len : Pages]]
      /\ refs \in [Frames -> Nat]
      /\ stackStart \in [Tasks -> Pages \cup {0}]
      /\ status \in [Tasks -> {"none", "live", "zombie", "stillborn"}]
      /\ pdeRW \in [Tasks -> [Dirs -> BOOLEAN]]
  BY DEF VInv, VTypeOK
<1>3. /\ Apart(ranges[k]) /\ Apart(rs) /\ S \subseteq Pages /\ S \subseteq Covered(ranges[k])
  BY DEF VInv, RangesOK, Apart, Covered
<1>4. \A p \in S : pte[k][p].frame # 0 /\ pte[k][p].frame \in Frames
  BY <1>2, <1>3 DEF NullFrame
<1>5. /\ refs' = [f \in Frames |->
                    refs[f] + Cardinality({p \in S : pte[k][p].frame = f})]
      /\ pte' = [pte EXCEPT
           ![k] = [p \in Pages |-> IF p \in S THEN Entry(pte[k][p].frame, TRUE, FALSE) ELSE @[p]],
           ![c] = [p \in Pages |-> IF p \in S THEN Entry(pte[k][p].frame, TRUE, FALSE)
                                              ELSE Unmapped]]
      /\ pdeRW' = [pdeRW EXCEPT ![k] = [d \in Dirs |-> @[d] /\ \A p \in S : Directory[p] # d],
                                ![c] = NoDirs]
      /\ ranges' = [ranges EXCEPT ![c] = rs]
      /\ stackStart' = [stackStart EXCEPT ![c] = stackStart[k]]
  <2>1. \A p \in S : p \in Pages
    BY <1>3
  <2> QED
    BY <2>1 DEF Share, ShareTables
<1>15. wild \subseteq wild' /\ wild' \subseteq WildCases
  BY DEF Share, ShareTables, VInv, VTypeOK, Wilder, WildCases
<1>16. \A p \in S : p \in Covered(rs)
  OBVIOUS
<1> HIDE DEF S
<1>6. /\ \A j \in Tasks \ {k, c} : pte'[j] = pte[j]
      /\ \A p \in S : /\ pte'[k][p] = Entry(pte[k][p].frame, TRUE, FALSE)
                      /\ pte'[c][p] = Entry(pte[k][p].frame, TRUE, FALSE)
      /\ \A p \in Pages \ S : pte'[k][p] = pte[k][p] /\ pte'[c][p] = Unmapped
      /\ \A j \in Tasks \ {c} : ranges'[j] = ranges[j] /\ stackStart'[j] = stackStart[j]
      /\ ranges'[c] = rs
  BY <1>1, <1>2, <1>3, <1>5
<1>7. /\ \A p \in S : /\ pte'[k][p].frame = pte[k][p].frame /\ pte'[c][p].frame = pte[k][p].frame
                      /\ pte'[k][p].present /\ pte'[c][p].present
                      /\ ~ pte'[k][p].rw /\ ~ pte'[c][p].rw
      /\ \A p \in Pages \ S : pte'[c][p].frame = 0 /\ ~ pte'[c][p].present
  <2>1. ASSUME NEW p \in S
        PROVE  /\ pte'[k][p].frame = pte[k][p].frame /\ pte'[k][p].present
               /\ ~ pte'[k][p].rw
    <3>1. pte'[k][p] = Entry(pte[k][p].frame, TRUE, FALSE)
      BY <1>6
    <3> QED
      BY <3>1, EntryFields
  <2>2. ASSUME NEW p \in S
        PROVE  /\ pte'[c][p].frame = pte[k][p].frame /\ pte'[c][p].present
               /\ ~ pte'[c][p].rw
    <3>1. pte'[c][p] = Entry(pte[k][p].frame, TRUE, FALSE)
      BY <1>6
    <3> QED
      BY <3>1, EntryFields
  <2>3. \A p \in Pages \ S : pte'[c][p].frame = 0 /\ ~ pte'[c][p].present
    BY <1>6, EntryFields
  <2> QED
    BY <2>1, <2>2, <2>3
<1>8. \A f \in Frames : Cardinality({p \in S : pte[k][p].frame = f}) \in Nat
  BY <1>3, PagesOfTask
<1>9. VTypeOK'
  <2>1. refs' \in [Frames -> Nat]
    BY <1>2, <1>5, <1>8
  <2>2. pte' \in [Tasks -> [Pages -> [frame : Frames \cup {0}, present : BOOLEAN, rw : BOOLEAN]]]
    <3>1. \A p \in S : Entry(pte[k][p].frame, TRUE, FALSE) \in
                         [frame : Frames \cup {0}, present : BOOLEAN, rw : BOOLEAN]
      BY <1>4 DEF Entry
    <3>2. Unmapped \in [frame : Frames \cup {0}, present : BOOLEAN, rw : BOOLEAN]
      BY DEF Unmapped, Entry
    <3>3. ASSUME NEW j \in Tasks
          PROVE  pte'[j] \in [Pages -> [frame : Frames \cup {0}, present : BOOLEAN, rw : BOOLEAN]]
      <4>1. CASE j = c
        BY <4>1, <3>1, <3>2, <1>2, <1>5
      <4>2. CASE j = k
        <5>1. pte'[k] = [p \in Pages |-> IF p \in S THEN Entry(pte[k][p].frame, TRUE, FALSE)
                                                  ELSE pte[k][p]]
          BY <1>1, <1>2, <1>5
        <5>2. \A p \in Pages : pte[k][p] \in [frame : Frames \cup {0}, present : BOOLEAN, rw : BOOLEAN]
          BY <1>2
        <5>3. \A p \in Pages : (IF p \in S THEN Entry(pte[k][p].frame, TRUE, FALSE) ELSE pte[k][p])
                               \in [frame : Frames \cup {0}, present : BOOLEAN, rw : BOOLEAN]
          BY <5>2, <3>1
        <5> QED
          BY <4>2, <5>1, <5>3, Zenon
      <4>3. CASE j # c /\ j # k
        BY <4>3, <1>2, <1>6
      <4> QED
        BY <4>1, <4>2, <4>3
    <3> QED
      BY <3>3, <1>2, <1>5
  <2>3. pdeRW' \in [Tasks -> [Dirs -> BOOLEAN]]
    BY <1>2, <1>5 DEF NoDirs
  <2>4. /\ ranges' \in [Tasks -> SUBSET [start : Pages, len : Pages]]
        /\ stackStart' \in [Tasks -> Pages \cup {0}]
        /\ status' \in [Tasks -> {"none", "live", "zombie", "stillborn"}]
    BY <1>2, <1>5
  <2> QED
    BY <2>1, <2>2, <2>3, <2>4, <1>15 DEF VInv, VTypeOK
<1>10. RangesOK'
  BY <1>3, <1>6 DEF VInv, RangesOK
<1>11. TasksOK'
  <2>1. \A j \in Tasks : status'[j] = IF j = c THEN new ELSE status[j]
    BY <1>2
  <2>2. ASSUME NEW j \in Tasks, status'[j] = "none"
        PROVE  pte'[j] = NoTables /\ ranges'[j] = {}
    <3>1. j # c /\ j # k /\ status[j] = "none"
      BY <2>1, <2>2, <1>1
    <3> QED
      BY <3>1, <1>6 DEF VInv, TasksOK
  <2>3. ASSUME NEW j \in Tasks, fault[j] # NoFault
        PROVE  status'[j] = "live" /\ fault[j].page \in Covered(ranges'[j])
    <3>1. j # k /\ j # c /\ status[j] = "live"
      BY <2>3, <1>1
    <3> QED
      BY <3>1, <2>1, <2>3, <1>6 DEF VInv, TasksOK
  <2> QED
    BY <2>2, <2>3 DEF TasksOK
<1>12. ASSUME Alone' PROVE Counted'
  <2>1. Counted
    BY <1>12, <1>15, Carried
  <2>2. CountCovers'
    <3> SUFFICES ASSUME NEW f \in Frames
                 PROVE  Cardinality(Holders(pte', f)) <= refs'[f]
      BY DEF CountCovers, Holders
    <3> DEFINE Q == {p \in S : pte[k][p].frame = f}
    <3>1. /\ Holders(pte', f) \subseteq Holders(pte, f) \cup ({c} \X Q)
      <4>1. f # 0
        BY Constants
      <4>2. ASSUME NEW j \in Tasks, NEW p \in Pages, pte'[j][p].frame = f
            PROVE  <<j, p>> \in Holders(pte, f) \cup ({c} \X Q)
        <5>1. CASE j = c
          BY <5>1, <4>1, <4>2, <1>7
        <5>2. CASE j # c
          <6>1. pte[j][p].frame = f
            BY <5>2, <4>2, <1>6, <1>7
          <6> QED
            BY <6>1 DEF Holders
        <5> QED
          BY <5>1, <5>2
      <4> QED
        BY <4>2 DEF Holders
    <3>2. Q \in SUBSET Pages
      BY <1>3
    <3>3. /\ {c} \X Q \in SUBSET (Tasks \X Pages)
          /\ Cardinality({c} \X Q) = Cardinality(Q) /\ Cardinality(Q) \in Nat
      BY <3>2, PagesOfTask
    <3>4. Holders(pte, f) \in SUBSET (Tasks \X Pages)
      BY DEF Holders
    <3>5. /\ Cardinality(Holders(pte', f)) <= Cardinality(Holders(pte, f) \cup ({c} \X Q))
          /\ Cardinality(Holders(pte', f)) \in Nat
          /\ Cardinality(Holders(pte, f) \cup ({c} \X Q)) \in Nat
      BY <3>1, <3>3, <3>4, Places
    <3>6. Cardinality(Holders(pte, f) \cup ({c} \X Q))
            <= Cardinality(Holders(pte, f)) + Cardinality({c} \X Q)
      BY <3>3, <3>4, Together
    <3>7. Cardinality(Holders(pte, f)) <= refs[f] /\ refs[f] \in Nat
          /\ Cardinality(Holders(pte, f)) \in Nat
      BY <1>2, <2>1, <3>4, Places DEF Counted, CountCovers, Holders
    <3>8. refs'[f] = refs[f] + Cardinality(Q)
      BY <1>5
    <3> HIDE DEF Q
    <3> QED
      BY <3>3, <3>5, <3>6, <3>7, <3>8
  <2>3. Claims'
    <3> SUFFICES ASSUME NEW j \in Tasks, fault[j] # NoFault
                 PROVE  /\ refs'[fault[j].frame] = 0
                        /\ \A i \in Tasks \ {j} :
                             fault[i] # NoFault => fault[i].frame # fault[j].frame
      BY DEF Claims
    <3> DEFINE f == fault[j].frame
               Q == {p \in S : pte[k][p].frame = f}
    <3>1. f \in Frames /\ refs[f] = 0 /\ refs'[f] = refs[f] + Cardinality(Q)
      BY <2>1, <1>5 DEF VInv, VTypeOK, Counted, Claims
    <3>2. \A p \in Pages : pte[k][p].frame # f
      BY <2>1, <3>1, Nobody DEF VInv, Counted
    <3>3. Q = {}
      BY <3>2, <1>3
    <3>4. Cardinality(Q) = 0
      BY <3>3, FS_EmptySet
    <3>5. refs'[f] = 0
      BY <3>1, <3>4
    <3> QED
      BY <2>1, <3>5 DEF Counted, Claims
  <2> QED
    BY <2>1, <2>2, <2>3 DEF Counted, OneReference
<1>13. ASSUME Sound' PROVE Exclusive'
  <2>1. Exclusive
    BY <1>13, <1>15, Carried
  <2> SUFFICES ASSUME NEW i \in Tasks, NEW j \in Tasks, NEW q \in Pages, NEW s \in Pages,
                      Twins(i, q, j, s)'
               PROVE  ~ pte'[i][q].rw /\ pte'[i][q].present /\ q \in Covered(ranges'[i])
    BY DEF Exclusive
  <2>2. pte'[i][q].frame # 0 /\ pte'[j][s].frame = pte'[i][q].frame /\ (i # j \/ q # s)
    BY DEF Twins
  <2>3. CASE i = c
    <3>1. q \in S
      BY <2>2, <2>3, <1>7
    <3> QED
      BY <3>1, <2>3, <1>6, <1>7, <1>16
  <2>4. CASE i = k /\ q \in S
    BY <2>4, <1>1, <1>3, <1>6, <1>7
  <2>5. CASE i # c /\ ~ (i = k /\ q \in S)
    <3>1. pte'[i][q] = pte[i][q] /\ ranges'[i] = ranges[i]
      BY <2>5, <1>6
    <3>2. \E h \in Tasks, x \in Pages : Twins(i, q, h, x)
      <4>1. CASE j = c
        <5>1. s \in S /\ pte[k][s].frame = pte[i][q].frame
          BY <4>1, <3>1, <2>2, <1>7
        <5>2. Twins(i, q, k, s)
          BY <5>1, <3>1, <2>2, <2>5 DEF Twins
        <5> QED
          BY <5>2
      <4>2. CASE j # c
        <5>1. pte'[j][s].frame = pte[j][s].frame
          BY <4>2, <1>6, <1>7
        <5> QED
          BY <5>1, <3>1, <2>2 DEF Twins
      <4> QED
        BY <4>1, <4>2
    <3> QED
      BY <2>1, <3>1, <3>2 DEF Exclusive
  <2> QED
    BY <2>3, <2>4, <2>5
<1>14. ASSUME Tidy' PROVE EntriesOK' /\ FaultsOK'
  <2>1. EntriesOK /\ FaultsOK
    BY <1>14, <1>15, Carried
  <2>2. ASSUME NEW j \in Tasks, NEW p \in Pages
        PROVE  /\ pte'[j][p].frame # 0 => pte'[j][p].present
               /\ pte'[j][p].present /\ pte'[j][p].frame = 0 =>
                    j # c /\ (status[j] = "zombie" \/ (fault[j].kind = "back" /\ fault[j].page = p))
               /\ pte'[j][p].frame # 0 /\ p \notin Covered(ranges'[j]) => p >= stackStart'[j]
    <3>1. CASE j = c
      <4>1. p \in S => p \in Covered(ranges'[c])
        BY <1>6, <1>16
      <4> QED
        BY <4>1, <3>1, <1>4, <1>7
    <3>2. CASE j = k /\ p \in S
      <4>1. p \in Covered(ranges'[k])
        BY <3>2, <1>1, <1>3, <1>6
      <4> QED
        BY <4>1, <3>2, <1>4, <1>7
    <3>3. CASE j # c /\ ~ (j = k /\ p \in S)
      <4>1. pte'[j][p] = pte[j][p] /\ ranges'[j] = ranges[j] /\ stackStart'[j] = stackStart[j]
        BY <3>3, <1>6
      <4> QED
        BY <4>1, <3>3, <2>1 DEF EntriesOK
    <3> QED
      BY <3>1, <3>2, <3>3
  <2>3. \A j \in Tasks : j # c => status'[j] = status[j]
    BY <1>2
  <2>4. EntriesOK'
    BY <2>2, <2>3 DEF EntriesOK
  <2>5. ASSUME NEW j \in Tasks, fault[j] # NoFault
        PROVE  fault[j].kind = "cow" <=> pte'[j][fault[j].page].frame # 0
    <3>1. j # k /\ j # c
      BY <2>5, <1>1
    <3> QED
      BY <3>1, <2>1, <2>5, <1>6 DEF FaultsOK
  <2>6. FaultsOK'
    BY <2>5 DEF FaultsOK
  <2> QED
    BY <2>4, <2>6
<1> QED
  BY <1>9, <1>10, <1>11, <1>12, <1>13, <1>14 DEF VInv

\* fork, and a fork that fails half way.
LEMMA ForkStep ==
  ASSUME VInv, NEW k \in Tasks, NEW c \in Tasks,
         Fork(k, c) \/ \E rs \in SUBSET ranges[k] : ForkFails(k, c, rs)
  PROVE  VInv'
<1>1. CASE Fork(k, c)
  BY <1>1, ShareStep, ranges[k] \in SUBSET ranges[k] DEF Fork
<1>2. ASSUME NEW rs \in SUBSET ranges[k], ForkFails(k, c, rs) PROVE VInv'
  BY <1>2, ShareStep DEF ForkFails
<1> QED
  BY <1>1, <1>2

\* The assertion that fork can fail is not the one about references.
LEMMA ForkPanicsStep ==
  ASSUME VInv, NEW k \in Tasks, NEW c \in Tasks, ForkPanics(k, c)
  PROVE  VInv'
<1>1. Alone => ~ NoReference(k, ranges[k])
  <2> SUFFICES ASSUME Alone, NEW p \in Covered(ranges[k]), pte[k][p].frame # 0,
                      refs[pte[k][p].frame] < 1
               PROVE  FALSE
    BY DEF NoReference
  <2>1. p \in Pages
    BY DEF VInv, RangesOK, Apart, Covered
  <2>2. pte[k][p].frame \in Frames
    <3>1. pte \in [Tasks -> [Pages -> [frame : Frames \cup {0}, present : BOOLEAN, rw : BOOLEAN]]]
      BY DEF VInv, VTypeOK
    <3>2. pte[k][p] \in [frame : Frames \cup {0}, present : BOOLEAN, rw : BOOLEAN]
      BY <2>1, <3>1
    <3> QED
      BY <3>2
  <2>4. refs[pte[k][p].frame] \in Nat
    BY <2>2 DEF VInv, VTypeOK
  <2>3. refs[pte[k][p].frame] > 0
    BY <2>1, <2>2, Nobody DEF VInv, Counted
  <2> QED
    BY <2>3, <2>4
<1> QED
  BY <1>1, PanicStep DEF ForkPanics, Assertions


\* What a task gives back when its memory goes.
LEMMA BackedPages ==
  ASSUME VTypeOK, RangesOK, CountCovers, NEW k \in Tasks, NEW f \in Frames,
         NEW H \in SUBSET Holders(pte, f), \A p \in Pages : <<k, p>> \notin H
  PROVE  /\ Without(Backed(k))[f] \in Nat /\ Without(Backed(k))[f] <= refs[f]
         /\ Cardinality(H) <= Without(Backed(k))[f]
<1> DEFINE P == Covered(ranges[k])
<1>1. P \in SUBSET Pages
  BY DEF RangesOK, Apart, Covered
<1>2. Backed(k) \subseteq {<<k, p, pte[k][p].frame>> : p \in P}
  BY DEF Backed
<1>3. \A p \in P : pte[k][p].frame = f => <<k, p, f>> \in Backed(k)
  BY Constants DEF Backed
<1>4. \A p \in P : <<k, p>> \notin H
  BY <1>1
<1> HIDE DEF P
<1> QED
  BY <1>1, <1>2, <1>3, <1>4, Dropped

\* Reaping a task overdraws no count.
LEMMA BackedCounted ==
  ASSUME VTypeOK, RangesOK, CountCovers, NEW k \in Tasks
  PROVE  /\ ~ Overdrawn(refs, Backed(k))
         /\ \A f \in Frames : Without(Backed(k))[f] \in Nat /\ Without(Backed(k))[f] <= refs[f]
<1>1. ASSUME NEW f \in Frames
      PROVE  Without(Backed(k))[f] \in Nat /\ Without(Backed(k))[f] <= refs[f]
  BY BackedPages, {} \in SUBSET Holders(pte, f)
<1>2. \A f \in Frames : ~ (Drop(refs, Backed(k))[f] < 0)
  BY <1>1 DEF Without
<1> QED
  BY <1>1, <1>2 DEF Overdrawn

\* Reaping a task.
LEMMA FreeTaskStep ==
  ASSUME VInv, NEW k \in Tasks, FreeTask(k)
  PROVE  VInv'
<1>1. Alone => /\ ~ Overdrawn(refs, Backed(k))
               /\ \A f \in Frames : Without(Backed(k))[f] \in Nat /\ Without(Backed(k))[f] <= refs[f]
  BY BackedCounted DEF VInv, Counted
<1>2. CASE Overdrawn(refs, Backed(k))
  BY <1>1, <1>2, PanicStep DEF FreeTask, Assertions
<1>3. CASE ~ Overdrawn(refs, Backed(k))
  <2>1. /\ status[k] = "zombie"
        /\ refs' = Without(Backed(k))
        /\ pte' = [pte EXCEPT ![k] = NoTables]
        /\ ranges' = [ranges EXCEPT ![k] = {}]
        /\ stackStart' = [stackStart EXCEPT ![k] = 0]
        /\ status' = [status EXCEPT ![k] = "none"]
        /\ pdeRW' = [pdeRW EXCEPT ![k] = NoDirs]
        /\ UNCHANGED <<data, fault, panicked, wild>>
    BY <1>3 DEF FreeTask, FreeMemory
  <2>2. /\ pte \in [Tasks -> [Pages -> [frame : Frames \cup {0}, present : BOOLEAN, rw : BOOLEAN]]]
        /\ ranges \in [Tasks -> SUBSET [start : Pages, len : Pages]]
        /\ stackStart \in [Tasks -> Pages \cup {0}]
        /\ status \in [Tasks -> {"none", "live", "zombie", "stillborn"}]
        /\ pdeRW \in [Tasks -> [Dirs -> BOOLEAN]]
        /\ refs \in [Frames -> Nat]
    BY DEF VInv, VTypeOK
  <2>3. /\ \A j \in Tasks \ {k} : /\ pte'[j] = pte[j] /\ ranges'[j] = ranges[j]
                                  /\ stackStart'[j] = stackStart[j] /\ status'[j] = status[j]
        /\ \A p \in Pages : pte'[k][p].frame = 0 /\ ~ pte'[k][p].present
        /\ pte'[k] = NoTables /\ ranges'[k] = {}
    BY <2>1, <2>2, EntryFields DEF NoTables
  <2>4. \A j \in Tasks : fault[j] # NoFault => j # k
    BY <2>1 DEF VInv, TasksOK
  <2>5. VTypeOK'
    <3>1. refs' \in [Frames -> Nat]
      <4>1. \A e \in Backed(k) : \E p \in Covered(ranges[k]) : e = <<k, p, pte[k][p].frame>>
        BY DEF Backed
      <4>2. Covered(ranges[k]) \in SUBSET Pages
        BY DEF VInv, RangesOK, Apart, Covered
      <4> QED
        BY <4>1, <4>2, <2>1, <2>2, <1>3, DropTyped DEF Without
    <3>2. NoTables \in [Pages -> [frame : Frames \cup {0}, present : BOOLEAN, rw : BOOLEAN]]
      BY DEF NoTables, Unmapped, Entry
    <3>3. pte' \in [Tasks -> [Pages -> [frame : Frames \cup {0}, present : BOOLEAN, rw : BOOLEAN]]]
      BY <3>2, <2>1, <2>2
    <3>4. /\ ranges' \in [Tasks -> SUBSET [start : Pages, len : Pages]]
          /\ stackStart' \in [Tasks -> Pages \cup {0}]
          /\ status' \in [Tasks -> {"none", "live", "zombie", "stillborn"}]
          /\ pdeRW' \in [Tasks -> [Dirs -> BOOLEAN]]
      BY <2>1, <2>2 DEF NoDirs
    <3> QED
      BY <3>1, <3>3, <3>4, <2>1 DEF VInv, VTypeOK
  <2>6. RangesOK'
    BY <2>3 DEF VInv, RangesOK, Apart
  <2>7. TasksOK'
    BY <2>1, <2>3, <2>4 DEF VInv, TasksOK
  <2>8. ASSUME Alone' PROVE Counted'
    <3>1. Counted /\ Alone
      BY <2>1, <2>8, Carried DEF Alone
    <3>2. Claims'
      BY <3>1, <2>1, <1>1, ClaimsKept DEF Counted
    <3>3. ASSUME NEW f \in Frames PROVE Cardinality(Holders(pte', f)) <= Without(Backed(k))[f]
      <4>1. f # 0
        BY Constants
      <4>2. /\ Holders(pte', f) \in SUBSET Holders(pte, f)
            /\ \A p \in Pages : <<k, p>> \notin Holders(pte', f)
        BY <4>1, <2>3 DEF Holders
      <4> QED
        BY <3>1, <4>2, BackedPages DEF VInv, Counted
    <3>4. CountCovers'
      BY <3>3, <2>1 DEF CountCovers, Holders
    <3> QED
      BY <3>1, <3>2, <3>4, <2>1 DEF Counted, OneReference
  <2>9. ASSUME Sound' PROVE Exclusive'
    <3>1. Exclusive
      BY <2>1, <2>9, Carried
    <3> QED
      BY <3>1, <2>3 DEF Exclusive, Twins
  <2>10. ASSUME Tidy' PROVE EntriesOK' /\ FaultsOK'
    <3>1. EntriesOK /\ FaultsOK
      BY <2>1, <2>10, Carried
    <3>2. EntriesOK'
      BY <3>1, <2>1, <2>3 DEF EntriesOK
    <3>3. FaultsOK'
      BY <3>1, <2>1, <2>3, <2>4 DEF FaultsOK
    <3> QED
      BY <3>2, <3>3
  <2> QED
    BY <2>5, <2>6, <2>7, <2>8, <2>9, <2>10 DEF VInv
<1> QED
  BY <1>2, <1>3

\* What the tables of a loaded program hold.
LEMMA LoadedEntries ==
  ASSUME NEW F \in SUBSET Frames, Cardinality(F) >= Cardinality(Covered(Image))
  PROVE  /\ LoadedTables(F) \in [Pages -> [frame : Frames \cup {0}, present : BOOLEAN, rw : BOOLEAN]]
         /\ \A p \in Pages \ Covered(Image) :
              LoadedTables(F)[p].frame = 0 /\ ~ LoadedTables(F)[p].present
         /\ \A p \in Covered(Image) :
              /\ LoadedTables(F)[p].frame = LoadFrame(F, p) /\ LoadedTables(F)[p].present
              /\ LoadFrame(F, p) \in F
<1>1. Covered(Image) \subseteq Pages
  BY VmmAssumption DEF Covered, Pages
<1>2. \A p \in Covered(Image) : LoadFrame(F, p) \in F
  BY Loading
<1>3. \A f \in Frames, w \in BOOLEAN :
        /\ Entry(f, TRUE, w) \in [frame : Frames \cup {0}, present : BOOLEAN, rw : BOOLEAN]
        /\ Entry(f, TRUE, w).frame = f /\ Entry(f, TRUE, w).present
  BY DEF Entry
<1>4. Unmapped \in [frame : Frames \cup {0}, present : BOOLEAN, rw : BOOLEAN]
  BY DEF Unmapped, Entry
<1>5. \A p \in Covered(Image) : LoadedTables(F)[p] = Entry(LoadFrame(F, p), TRUE, p \notin ReadOnly)
  BY <1>1 DEF LoadedTables
<1>6. \A p \in Pages \ Covered(Image) : LoadedTables(F)[p] = Unmapped
  BY DEF LoadedTables
<1>7. \A p \in Covered(Image) :
        /\ LoadedTables(F)[p] \in [frame : Frames \cup {0}, present : BOOLEAN, rw : BOOLEAN]
        /\ LoadedTables(F)[p].frame = LoadFrame(F, p) /\ LoadedTables(F)[p].present
  <2> TAKE p \in Covered(Image)
  <2>1. LoadFrame(F, p) \in Frames
    BY <1>2
  <2>2. PICK w \in BOOLEAN : LoadedTables(F)[p] = Entry(LoadFrame(F, p), TRUE, w)
    BY <1>5, (p \notin ReadOnly) \in BOOLEAN
  <2>3. /\ Entry(LoadFrame(F, p), TRUE, w) \in [frame : Frames \cup {0}, present : BOOLEAN, rw : BOOLEAN]
        /\ Entry(LoadFrame(F, p), TRUE, w).frame = LoadFrame(F, p) /\ Entry(LoadFrame(F, p), TRUE, w).present
    BY <2>1, <1>3
  <2> QED
    BY <2>2, <2>3
<1>8. LoadedTables(F) \in [Pages -> [frame : Frames \cup {0}, present : BOOLEAN, rw : BOOLEAN]]
  <2>1. \A p \in Pages : LoadedTables(F)[p] \in
                           [frame : Frames \cup {0}, present : BOOLEAN, rw : BOOLEAN]
    BY <1>4, <1>6, <1>7
  <2>2. LoadedTables(F) = [p \in Pages |-> LoadedTables(F)[p]]
    BY DEF LoadedTables
  <2> QED
    BY <2>1, <2>2
<1> QED
  BY <1>2, <1>6, <1>7, <1>8, EntryFields

\* The ranges of an image.
LEMMA ImageRanges ==
  /\ Image \in SUBSET [start : Pages, len : Pages] /\ Apart(Image)
  /\ Covered(Image) \subseteq Pages /\ StackRange.start \in Pages
  /\ LoadedDirs \in [Dirs -> BOOLEAN]
<1>1. Image \in SUBSET [start : Pages, len : Pages] /\ StackRange.start \in Pages
  BY VmmAssumption DEF Pages
<1>2. Apart(Image) /\ Covered(Image) \subseteq Pages
  BY VmmAssumption DEF Apart, Covered, Pages
<1>3. LoadedDirs \in [Dirs -> BOOLEAN]
  BY DEF LoadedDirs
<1> QED
  BY <1>1, <1>2, <1>3

\* The counts when the image is there and the old one has been given back.
LEMMA LoadedCounts ==
  ASSUME VTypeOK, RangesOK, CountCovers, NEW k \in Tasks,
         Cardinality(Free) >= Cardinality(Covered(Image))
  PROVE  /\ ~ Overdrawn(LoadedRefs, Backed(k))
         /\ \A f \in Frames :
              Drop(LoadedRefs, Backed(k))[f] = IF f \in LoadFrames THEN 1 ELSE Without(Backed(k))[f]
<1>1. LoadFrames \subseteq Free
  BY LoadedEntries, Free \in SUBSET Frames DEF LoadFrames, Free
<1>2. ASSUME NEW f \in LoadFrames PROVE Drop(LoadedRefs, Backed(k))[f] = 1
  <2>1. f \in Frames /\ refs[f] = 0 /\ f # 0
    BY <1>1, Constants DEF Free
  <2>2. \A p \in Pages : pte[k][p].frame # f
    BY <2>1, Nobody
  <2>3. Covered(ranges[k]) \in SUBSET Pages
    BY DEF RangesOK, Apart, Covered
  <2>4. {e \in Backed(k) : e[3] = f} = {}
    BY <2>2, <2>3 DEF Backed
  <2>5. Cardinality({e \in Backed(k) : e[3] = f}) = 0
    BY <2>4, FS_EmptySet
  <2>6. LoadedRefs[f] = 1
    BY <2>1 DEF LoadedRefs
  <2> QED
    BY <2>1, <2>5, <2>6 DEF Drop
<1>3. ASSUME NEW f \in Frames \ LoadFrames
      PROVE  Drop(LoadedRefs, Backed(k))[f] = Without(Backed(k))[f]
  BY DEF Drop, Without, LoadedRefs
<1>4. ASSUME NEW f \in Frames PROVE ~ (Drop(LoadedRefs, Backed(k))[f] < 0)
  <2>1. Without(Backed(k))[f] \in Nat
    BY BackedCounted
  <2> QED
    BY <2>1, <1>2, <1>3
<1> QED
  BY <1>2, <1>3, <1>4 DEF Overdrawn

\* A new image gets free frames, and the old one gives its frames up.
LEMMA LoadStep ==
  ASSUME VInv, NEW k \in Tasks, Runs(k), Load(k),
         Cardinality(Free) >= Cardinality(Covered(Image)), ~ Overdrawn(LoadedRefs, Backed(k))
  PROVE  VInv'
<1> DEFINE C == Covered(Image)
           at(p) == LoadFrame(Free, p)
<1>1. /\ refs' = Drop(LoadedRefs, Backed(k))
      /\ pte' = [pte EXCEPT ![k] = LoadedTables(Free)]
      /\ pdeRW' = [pdeRW EXCEPT ![k] = LoadedDirs]
      /\ ranges' = [ranges EXCEPT ![k] = Image]
      /\ stackStart' = [stackStart EXCEPT ![k] = StackRange.start]
      /\ wild' = wild \cup FoundTwice(LoadFrames)
      /\ UNCHANGED <<status, fault, panicked>>
  BY DEF Load, CopyUserPtes, CopyVmranges
<1>2. /\ status[k] = "live" /\ fault[k] = NoFault
      /\ \A j \in Tasks : fault[j] # NoFault => j # k /\ fault[j].frame \in Frames
  BY Others
<1>3. /\ pte \in [Tasks -> [Pages -> [frame : Frames \cup {0}, present : BOOLEAN, rw : BOOLEAN]]]
      /\ ranges \in [Tasks -> SUBSET [start : Pages, len : Pages]]
      /\ stackStart \in [Tasks -> Pages \cup {0}]
      /\ pdeRW \in [Tasks -> [Dirs -> BOOLEAN]]
      /\ data \in [Frames -> Values] /\ refs \in [Frames -> Nat]
  BY DEF VInv, VTypeOK
<1>4. Free \in SUBSET Frames
  BY DEF Free
<1>5. /\ LoadedTables(Free) \in [Pages -> [frame : Frames \cup {0}, present : BOOLEAN, rw : BOOLEAN]]
      /\ \A p \in Pages \ C : LoadedTables(Free)[p].frame = 0 /\ ~ LoadedTables(Free)[p].present
      /\ \A p \in C : /\ LoadedTables(Free)[p].frame = at(p) /\ LoadedTables(Free)[p].present
                      /\ at(p) \in Free
  BY <1>4, LoadedEntries
<1>6. \A p, q \in C : at(p) = at(q) => p = q
  BY <1>4, Loading
<1>7. /\ \A p \in C : at(p) \in LoadFrames
      /\ \A f \in LoadFrames : \E p \in C : f = at(p)
  BY DEF LoadFrames
<1> HIDE DEF at, C
<1>8. /\ \A j \in Tasks \ {k} : pte'[j] = pte[j] /\ ranges'[j] = ranges[j]
                               /\ stackStart'[j] = stackStart[j]
      /\ pte'[k] = LoadedTables(Free) /\ ranges'[k] = Image
  BY <1>1, <1>3
<1>9. /\ \A p \in Pages \ C : pte'[k][p].frame = 0 /\ ~ pte'[k][p].present
      /\ \A p \in C : pte'[k][p].frame = at(p) /\ pte'[k][p].present /\ at(p) # 0
      /\ C \subseteq Pages
  BY <1>4, <1>5, <1>8, Constants, ImageRanges DEF C
<1>10. /\ wild \subseteq wild' /\ FoundTwice(LoadFrames) \subseteq wild' /\ wild' \subseteq WildCases
       /\ Alone' => \A j \in Tasks : fault[j] # NoFault => fault[j].frame \notin LoadFrames
  BY <1>1, NotTwice DEF VInv, VTypeOK
<1>11. VTypeOK'
  <2>1. refs' \in [Frames -> Nat]
    <3>1. \A e \in Backed(k) : \E p \in Covered(ranges[k]) : e = <<k, p, pte[k][p].frame>>
      BY DEF Backed
    <3>2. Covered(ranges[k]) \in SUBSET Pages
      BY DEF VInv, RangesOK, Apart, Covered
    <3>3. LoadedRefs \in [Frames -> Nat]
      BY <1>3 DEF LoadedRefs
    <3> QED
      BY <3>1, <3>2, <3>3, <1>1, DropTyped
  <2>2. data' \in [Frames -> Values]
    BY <1>3, VmmAssumption DEF Load
  <2>3. pte' \in [Tasks -> [Pages -> [frame : Frames \cup {0}, present : BOOLEAN, rw : BOOLEAN]]]
    BY <1>1, <1>3, <1>5
  <2>4. /\ ranges' \in [Tasks -> SUBSET [start : Pages, len : Pages]]
        /\ stackStart' \in [Tasks -> Pages \cup {0}]
        /\ pdeRW' \in [Tasks -> [Dirs -> BOOLEAN]]
    BY <1>1, <1>3, ImageRanges
  <2> QED
    BY <2>1, <2>2, <2>3, <2>4, <1>1, <1>10 DEF VInv, VTypeOK
<1>12. RangesOK'
  BY <1>8, ImageRanges DEF VInv, RangesOK
<1>13. TasksOK'
  BY <1>1, <1>2, <1>8 DEF VInv, TasksOK
<1>14. ASSUME Alone'
       PROVE  /\ Counted
              /\ \A f \in LoadFrames : /\ refs'[f] = 1
                                       /\ \A j \in Tasks, q \in Pages : pte[j][q].frame # f
              /\ \A f \in Frames \ LoadFrames : refs'[f] = Without(Backed(k))[f]
              /\ \A f \in LoadFrames : f \in Frames /\ f # 0
  <2>1. Counted
    BY <1>10, <1>14, Carried
  <2>2. \A f \in LoadFrames : f \in Frames /\ f # 0 /\ refs[f] = 0
    BY <1>5, <1>7, Constants DEF Free
  <2>3. \A f \in LoadFrames, j \in Tasks, q \in Pages : pte[j][q].frame # f
    BY <2>1, <2>2, Nobody DEF VInv, Counted
  <2>4. \A f \in Frames : refs'[f] = IF f \in LoadFrames THEN 1 ELSE Without(Backed(k))[f]
    BY <2>1, <1>1, LoadedCounts DEF VInv, Counted
  <2> QED
    BY <2>1, <2>2, <2>3, <2>4
<1>15. ASSUME Alone' PROVE Counted'
  <2>1. \A f \in Frames : Without(Backed(k))[f] \in Nat /\ Without(Backed(k))[f] <= refs[f]
    BY <1>14, <1>15, BackedCounted DEF VInv, Counted
  <2>2. Claims'
    <3> SUFFICES ASSUME NEW j \in Tasks, fault[j] # NoFault
                 PROVE  refs'[fault[j].frame] = 0
      BY <1>1, <1>14, <1>15 DEF Claims, Counted
    <3>1. fault[j].frame \in Frames \ LoadFrames /\ refs[fault[j].frame] = 0
      BY <1>2, <1>10, <1>14, <1>15 DEF Counted, Claims
    <3>2. refs'[fault[j].frame] = Without(Backed(k))[fault[j].frame]
      BY <3>1, <1>14, <1>15
    <3> QED
      BY <3>1, <3>2, <2>1
  <2>3. ASSUME NEW f \in Frames PROVE Cardinality(Holders(pte', f)) <= refs'[f]
    <3>1. Holders(pte', f) \in SUBSET (Tasks \X Pages) /\ f # 0
      BY Constants DEF Holders
    <3>2. CASE f \in LoadFrames
      <4>1. refs'[f] = 1
        BY <3>2, <1>14, <1>15
      <4>2. ASSUME NEW j \in Tasks, NEW q \in Pages, pte'[j][q].frame = f
            PROVE  j = k /\ q \in C /\ f = at(q)
        BY <3>1, <3>2, <4>2, <1>8, <1>9, <1>14, <1>15
      <4>3. \A d, e \in Holders(pte', f) : d = e
        BY <4>2, <1>6, <3>1 DEF Holders
      <4> QED
        BY <3>1, <4>1, <4>3, AtMostOne
    <3>3. CASE f \notin LoadFrames
      <4>1. refs'[f] = Without(Backed(k))[f]
        BY <3>3, <1>14, <1>15
      <4>2. \A q \in Pages : pte'[k][q].frame # f
        BY <3>1, <3>3, <1>7, <1>9
      <4>3. /\ Holders(pte', f) \in SUBSET Holders(pte, f)
            /\ \A q \in Pages : <<k, q>> \notin Holders(pte', f)
        BY <4>2, <1>8 DEF Holders
      <4> QED
        BY <4>1, <4>3, <1>14, <1>15, BackedPages DEF VInv, Counted
    <3> QED
      BY <3>2, <3>3
  <2>4. CountCovers'
    BY <2>3 DEF CountCovers, Holders
  <2> QED
    BY <2>2, <2>4, <1>1, <1>14, <1>15 DEF Counted, OneReference
<1>16. ASSUME Sound' PROVE Exclusive'
  <2>1. Alone' /\ Exclusive
    BY <1>10, <1>16, Carried
  <2> SUFFICES ASSUME NEW i \in Tasks, NEW j \in Tasks, NEW q \in Pages, NEW s \in Pages,
                      Twins(i, q, j, s)'
               PROVE  ~ pte'[i][q].rw /\ pte'[i][q].present /\ q \in Covered(ranges'[i])
    BY DEF Exclusive
  <2>2. pte'[i][q].frame # 0 /\ pte'[j][s].frame = pte'[i][q].frame /\ (i # j \/ q # s)
    BY DEF Twins
  <2>3. \A x \in Pages : pte'[k][x].frame # 0 => x \in C /\ at(x) \in LoadFrames /\ pte'[k][x].frame = at(x)
    BY <1>7, <1>9
  <2>4. \A h \in Tasks \ {k}, x \in Pages : pte'[h][x].frame \notin LoadFrames
    BY <2>1, <1>8, <1>14
  <2>5. i # k
    BY <2>2, <2>3, <2>4, <1>6
  <2>6. j # k
    BY <2>2, <2>3, <2>4, <2>5
  <2>7. Twins(i, q, j, s) /\ pte'[i] = pte[i] /\ ranges'[i] = ranges[i]
    BY <2>2, <2>5, <2>6, <1>8 DEF Twins
  <2> QED
    BY <2>1, <2>7 DEF Exclusive
<1>17. ASSUME Tidy' PROVE EntriesOK' /\ FaultsOK'
  <2>1. EntriesOK /\ FaultsOK
    BY <1>10, <1>17, Carried
  <2>2. ASSUME NEW j \in Tasks, NEW p \in Pages
        PROVE  /\ pte'[j][p].frame # 0 => pte'[j][p].present
               /\ pte'[j][p].present /\ pte'[j][p].frame = 0 =>
                    status[j] = "zombie" \/ (fault[j].kind = "back" /\ fault[j].page = p)
               /\ pte'[j][p].frame # 0 /\ p \notin Covered(ranges'[j]) => p >= stackStart'[j]
    <3>1. CASE j = k
      BY <3>1, <1>8, <1>9 DEF C
    <3>2. CASE j # k
      BY <3>2, <2>1, <1>8 DEF EntriesOK
    <3> QED
      BY <3>1, <3>2
  <2>3. EntriesOK'
    BY <2>2, <1>1 DEF EntriesOK
  <2>4. FaultsOK'
    BY <2>1, <1>1, <1>2, <1>8 DEF FaultsOK
  <2> QED
    BY <2>3, <2>4
<1> QED
  BY <1>11, <1>12, <1>13, <1>15, <1>16, <1>17 DEF VInv

\* exec; what it gives back has been counted.
LEMMA ExecStep ==
  ASSUME VInv, NEW k \in Tasks, Exec(k)
  PROVE  VInv'
<1>1. Runs(k) /\ Cardinality(Free) >= Cardinality(Covered(Image))
  BY DEF Exec
<1>2. CASE Overdrawn(LoadedRefs, Backed(k))
  <2>1. Panic("negative count")
    BY <1>2 DEF Exec
  <2>2. ~ Alone
    BY <1>1, <1>2, LoadedCounts DEF VInv, Counted
  <2> QED
    BY <2>1, <2>2, PanicStep DEF Assertions
<1>3. CASE ~ Overdrawn(LoadedRefs, Backed(k))
  BY <1>1, <1>3, LoadStep DEF Exec
<1> QED
  BY <1>2, <1>3

----------------------------------------------------------------------------
(* The invariant holds.                                                      *)

\* vmm_init's frames and the first program's.
LEMMA InitVInv == VmInit => VInv
<1> SUFFICES ASSUME VmInit PROVE VInv
  OBVIOUS
<1> DEFINE C == Covered(Image)
           at(p) == LoadFrame(Frames, p)
<1>1. Cardinality(Frames) = NrFrames /\ Cardinality(C) \in Nat /\ Cardinality(C) <= NrFrames
  <2>1. NrFrames \in Nat
    BY Constants
  <2>2. Cardinality(Frames) = NrFrames
    BY <2>1, FS_Interval DEF Frames
  <2>3. Cardinality(C) \in Nat
    BY Constants, ImageRanges, FS_Subset, FS_CardinalityType
  <2> QED
    BY <2>2, <2>3, VmmAssumption
<1>2. /\ \A p \in C : at(p) \in Frames /\ Cardinality(Below(Frames, at(p))) < Cardinality(C)
      /\ \A p, q \in C : at(p) = at(q) => p = q
  BY <1>1, Loading, Frames \in SUBSET Frames, VmmAssumption
<1>3. \A p \in C : refs[at(p)] = 1
  <2> TAKE p \in C
  <2>1. at(p) \in Frames /\ at(p) \in Nat \ {0} /\ at(p) <= NrFrames /\ NrFrames \in Nat
    BY <1>2, Constants, VmmAssumption DEF Frames
  <2> HIDE DEF at
  <2>2. Below(Frames, at(p)) = 1..at(p) - 1
    BY <2>1 DEF Below, Frames
  <2>3. Cardinality(1..at(p) - 1) = at(p) - 1
    <3>1. 1 \in Int /\ at(p) - 1 \in Int
      BY <2>1
    <3>2. Cardinality(1..at(p) - 1) = IF 1 > at(p) - 1 THEN 0 ELSE at(p) - 1 - 1 + 1
      BY <3>1, FS_Interval
    <3> QED
      BY <3>2, <2>1
  <2>4. at(p) - 1 < Cardinality(C)
    BY <2>2, <2>3, <1>2 DEF at
  <2>5. at(p) \in 1..Cardinality(C)
    BY <2>1, <2>4, <1>1
  <2> QED
    BY <2>1, <2>5 DEF VmInit
<1>4. /\ LoadedTables(Frames) \in [Pages -> [frame : Frames \cup {0}, present : BOOLEAN, rw : BOOLEAN]]
      /\ \A p \in Pages \ C : LoadedTables(Frames)[p].frame = 0 /\ ~ LoadedTables(Frames)[p].present
      /\ \A p \in C : /\ LoadedTables(Frames)[p].frame = at(p) /\ LoadedTables(Frames)[p].present
                      /\ at(p) \in Frames
  BY <1>1, LoadedEntries, VmmAssumption, Frames \in SUBSET Frames
<1> HIDE DEF at
<1>5. /\ InitTask \in Tasks /\ pte[InitTask] = LoadedTables(Frames) /\ ranges[InitTask] = Image
      /\ \A j \in Tasks \ {InitTask} : pte[j] = NoTables /\ ranges[j] = {}
      /\ \A p \in Pages : NoTables[p].frame = 0 /\ ~ NoTables[p].present
  BY VmmAssumption, EntryFields DEF VmInit, NoTables
<1>6. \A j \in Tasks, p \in Pages :
        \/ pte[j][p].frame = 0 /\ ~ pte[j][p].present
        \/ /\ j = InitTask /\ p \in C /\ pte[j][p].frame = at(p) /\ pte[j][p].present
           /\ at(p) # 0 /\ at(p) \in Frames
  BY <1>4, <1>5, Constants
<1> HIDE DEF C
<1>7. VTypeOK
  <2>1. refs \in [Frames -> Nat]
    BY DEF VmInit, NoReferences
  <2>2. data \in [Frames -> Values]
    BY VmmAssumption DEF VmInit
  <2>3. pte \in [Tasks -> [Pages -> [frame : Frames \cup {0}, present : BOOLEAN, rw : BOOLEAN]]]
    <3>1. NoTables \in [Pages -> [frame : Frames \cup {0}, present : BOOLEAN, rw : BOOLEAN]]
      BY DEF NoTables, Unmapped, Entry
    <3> QED
      BY <3>1, <1>4 DEF VmInit
  <2>4. /\ pdeRW \in [Tasks -> [Dirs -> BOOLEAN]]
        /\ ranges \in [Tasks -> SUBSET [start : Pages, len : Pages]]
        /\ stackStart \in [Tasks -> Pages \cup {0}]
    BY ImageRanges DEF VmInit, NoDirs
  <2>5. /\ status \in [Tasks -> {"none", "live", "zombie", "stillborn"}]
        /\ fault \in [Tasks -> {NoFault} \cup [kind : {"back", "cow"}, page : Pages, frame : Frames]]
        /\ panicked = None /\ wild = {}
    BY DEF VmInit
  <2> QED
    BY <2>1, <2>2, <2>3, <2>4, <2>5 DEF VTypeOK
<1>8. RangesOK
  BY <1>5, ImageRanges DEF RangesOK, Apart
<1>9. EntriesOK /\ TasksOK
  <2>1. \A j \in Tasks, p \in Pages :
          /\ pte[j][p].frame # 0 => pte[j][p].present
          /\ pte[j][p].present => pte[j][p].frame # 0
          /\ pte[j][p].frame # 0 => p \in Covered(ranges[j])
    BY <1>5, <1>6 DEF C
  <2>2. \A j \in Tasks : status[j] = "none" => pte[j] = NoTables /\ ranges[j] = {}
    BY <1>5 DEF VmInit
  <2>3. \A j \in Tasks : fault[j] = NoFault
    BY DEF VmInit
  <2> QED
    BY <2>1, <2>2, <2>3 DEF EntriesOK, TasksOK
<1>10. CountCovers
  <2> SUFFICES ASSUME NEW f \in Frames
               PROVE  Cardinality(Holders(pte, f)) <= refs[f]
    BY DEF CountCovers, Holders
  <2>1. Holders(pte, f) \in SUBSET (Tasks \X Pages) /\ f # 0
    BY Constants DEF Holders
  <2>2. \A j \in Tasks, p \in Pages : pte[j][p].frame = f => j = InitTask /\ p \in C /\ f = at(p)
    BY <2>1, <1>6
  <2>3. CASE Holders(pte, f) = {}
    <3>1. Cardinality(Holders(pte, f)) = 0 /\ refs[f] \in Nat
      BY <2>3, <1>7, FS_EmptySet DEF VTypeOK
    <3> QED
      BY <3>1
  <2>4. CASE Holders(pte, f) # {}
    <3>1. refs[f] = 1
      BY <2>2, <2>4, <1>3 DEF Holders
    <3>2. \A d, e \in Holders(pte, f) : d = e
      BY <2>2, <1>2, <2>1 DEF Holders
    <3> QED
      BY <2>1, <3>1, <3>2, AtMostOne
  <2> QED
    BY <2>3, <2>4
<1>11. Exclusive
  BY <1>2, <1>6 DEF Exclusive, Twins
<1>12. FaultsOK /\ Claims
  BY DEF VmInit, FaultsOK, Claims
<1>13. OneReference
  <2>1. None \notin {"no reference", "negative count"}
    BY VmmAssumption DEF Assertions
  <2> QED
    BY <2>1 DEF VmInit, OneReference
<1> QED
  BY <1>7, <1>8, <1>9, <1>10, <1>11, <1>12, <1>13 DEF VInv, Counted

\* No step breaks it.
LEMMA NextVInv ==
  ASSUME VInv, [VmNext]_vmvars
  PROVE  VInv'
<1>1. ASSUME NEW k \in Tasks, VmStep(k) PROVE VInv'
  <2>1. ASSUME NEW p \in Pages, NEW v \in Values, Write(k, p, v) \/ KernelWrite(k, p, v)
        PROVE  VInv'
    BY <2>1, WriteStep
  <2>2. ASSUME NEW p \in Pages, FaultBack(k, p) \/ FaultCow(k, p) PROVE VInv'
    BY <2>2, FoundStep
  <2>3. ASSUME NEW p \in Pages, FaultGrow(k, p) PROVE VInv'
    BY <2>3, FaultGrowStep
  <2>4. ASSUME NEW p \in Pages, FaultKill(k, p) PROVE VInv'
    BY <2>4, KillStep
  <2>5. CASE FaultDone(k)
    BY <2>5, DoneStep
  <2>6. ASSUME NEW r \in Asked, NewPages(k, r) PROVE VInv'
    BY <2>6, NewPagesStep
  <2>7. ASSUME NEW r \in Asked, RemovePages(k, r) PROVE VInv'
    BY <2>7, RemoveStep
  <2>8. CASE NewPagesNone(k)
    BY <2>8, PanicStep DEF NewPagesNone, Assertions
  <2>9. ASSUME NEW c \in Tasks, Fork(k, c) \/ \E rs \in SUBSET ranges[k] : ForkFails(k, c, rs)
        PROVE  VInv'
    BY <2>9, ForkStep
  <2>10. ASSUME NEW c \in Tasks, ForkPanics(k, c) PROVE VInv'
    BY <2>10, ForkPanicsStep
  <2>11. CASE Exec(k)
    BY <2>11, ExecStep
  <2>12. CASE Exit(k)
    BY <2>12, EndStep DEF Exit
  <2>13. CASE FreeTask(k)
    BY <2>13, FreeTaskStep
  <2> QED
    BY <1>1, <2>1, <2>2, <2>3, <2>4, <2>5, <2>6, <2>7, <2>8, <2>9, <2>10, <2>11, <2>12, <2>13
    DEF VmStep
<1>2. CASE UNCHANGED vmvars
  <2>1. /\ UNCHANGED <<refs, pte, pdeRW, ranges, stackStart, status, fault, data, panicked>>
        /\ wild' = wild
    BY <1>2 DEF vmvars
  <2>2. /\ wild \subseteq wild' /\ wild' \subseteq WildCases
        /\ data' \in [Frames -> Values] /\ panicked' \in Assertions \cup {None}
    BY <2>1 DEF VInv, VTypeOK
  <2>3. Alone' => OneReference'
    BY <2>1, <2>2, Carried DEF Counted, OneReference
  <2> QED
    BY <2>1, <2>2, <2>3, SameTables
<1> QED
  BY <1>1, <1>2 DEF VmNext

\* Entries, ranges, counts and the frames that faults have found agree in every
\* state, each up to the step that ends it: no program has to behave, and
\* faults of all tasks may be in the middle at once.
THEOREM VInvHolds == VmSpec => []VInv
<1>1. VmInit => VInv
  BY InitVInv
<1>2. VInv /\ [VmNext]_vmvars => VInv'
  BY NextVInv
<1> QED
  BY <1>1, <1>2, PTL DEF VmSpec

\* No frame that an entry leads to is given away, and neither assertion about
\* references fails, whatever tasks do, until a frame is found twice; and no
\* shared frame can be written through until a stack grows that has one
\* (vmm.c:54-75, syscall_fork.c:124-127, faulthandlers.c:300-327).
THEOREM FramesSoundHolds == VmSpec => []FramesSound
<1>1. VInv => FramesSound
  <2> SUFFICES ASSUME VInv, Sound PROVE SharedReadOnly
    BY DEF VInv, FramesSound, Alone, Sound, Counted
  <2> SUFFICES ASSUME NEW k \in Tasks, NEW p \in Pages, Shared(k, p)
               PROVE  ~ Writable(k, p)
    BY DEF SharedReadOnly
  <2>1. PICK j \in Tasks, q \in Pages :
          /\ <<j, q>> # <<k, p>> /\ pte[k][p].frame # 0 /\ pte[j][q].frame = pte[k][p].frame
    BY DEF Shared
  <2>2. ~ pte[k][p].rw
    BY <2>1 DEF VInv, Exclusive, Twins
  <2> QED
    BY <2>2 DEF Writable
<1> QED
  BY <1>1, VInvHolds, PTL

----------------------------------------------------------------------------
(* What tasks see.                                                         *)

\* What the invariant says before a step that brings no situation about.
LEMMA Kept ==
  ASSUME VInv, Tidy
  PROVE  VTypeOK /\ RangesOK /\ TasksOK /\ Counted /\ Exclusive /\ EntriesOK /\ FaultsOK
BY DEF VInv, Alone, Sound, Tidy

\* A task that is alive sees values.
LEMMA LiveSees ==
  ASSUME VTypeOK, NEW k \in Tasks, status[k] = "live"
  PROVE  /\ \A p \in Pages : Value(k, p) \in Values \cup {None}
         /\ Seen[k] = [p \in Pages |-> Value(k, p)] /\ Seen[k] # None
<1>1. ASSUME NEW p \in Pages PROVE Value(k, p) \in Values \cup {None}
  <2>1. /\ pte[k][p].frame \in Frames \cup {0} /\ 0 \in Values
        /\ pte[k][p].frame # 0 => data[pte[k][p].frame] \in Values
    <3>1. pte[k][p] \in [frame : Frames \cup {0}, present : BOOLEAN, rw : BOOLEAN]
      BY DEF VTypeOK
    <3>2. pte[k][p].frame \in Frames \cup {0}
      BY <3>1
    <3>3. data \in [Frames -> Values]
      BY DEF VTypeOK
    <3> QED
      BY <3>2, <3>3, VmmAssumption
  <2> QED
    BY <2>1 DEF Value
<1>2. Seen[k] = [p \in Pages |-> Value(k, p)]
  BY DEF Seen
<1>3. [p \in Pages |-> Value(k, p)] \in [1..MaxPage -> Values \cup {None}]
  BY <1>1 DEF Pages
<1> QED
  BY <1>1, <1>2, <1>3, VmmAssumption

\* A task whose tables, ranges and frames stay as they are.
LEMMA Unseen ==
  ASSUME NEW j \in Tasks, status'[j] = "live" <=> status[j] = "live",
         pte'[j] = pte[j], ranges'[j] = ranges[j],
         \A p \in Pages : pte[j][p].frame # 0 => data'[pte[j][p].frame] = data[pte[j][p].frame]
  PROVE  Seen'[j] = Seen[j]
<1>1. \A p \in Pages : Value(j, p)' = Value(j, p)
  BY DEF Value
<1>2. /\ Seen[j] = IF status[j] = "live" THEN [p \in Pages |-> Value(j, p)] ELSE None
      /\ Seen'[j] = IF status'[j] = "live" THEN [p \in Pages |-> Value(j, p)'] ELSE None
  BY DEF Seen
<1> QED
  BY <1>1, <1>2

\* Only one task sees a change, or none.
LEMMA OthersSee ==
  /\ \A k \in Tasks : (\A j \in Tasks \ {k} : Seen'[j] = Seen[j])
                        => Seen' = [Seen EXCEPT ![k] = Seen'[k]]
  /\ (\A j \in Tasks : Seen'[j] = Seen[j]) => Seen' = Seen
<1>1. /\ Seen = [k \in Tasks |-> Seen[k]]
      /\ Seen' = [k \in Tasks |-> Seen'[k]]
  BY DEF Seen
<1> QED
  BY <1>1

\* Writes change one page of the writer: nobody else has its frame.
LEMMA WriteSeen ==
  ASSUME VInv, Tidy, Tidy', NEW k \in Tasks, NEW p \in Pages, NEW v \in Values,
         Write(k, p, v) \/ KernelWrite(k, p, v)
  PROVE  Private!MNext
<1> DEFINE f == pte[k][p].frame
<1>1. /\ data' = [data EXCEPT ![f] = v] /\ f # 0 /\ pte[k][p].present /\ status[k] = "live"
      /\ UNCHANGED <<refs, pte, pdeRW, ranges, stackStart, status, fault, panicked>>
  BY DEF Write, KernelWrite, Writable, Runs
<1>2. \A j \in Tasks, q \in Pages : pte[j][q].frame = f => j = k /\ q = p
  <2> SUFFICES ASSUME NEW j \in Tasks, NEW q \in Pages, pte[j][q].frame = f, j # k \/ q # p
               PROVE  FALSE
    OBVIOUS
  <2>1. ~ pte[k][p].rw
    BY <1>1, Kept DEF Exclusive, Twins
  <2>2. pte[j][q].present
    BY <1>1, Kept DEF EntriesOK
  <2>3. Shared(k, p)
    BY <1>1, <2>2 DEF Shared
  <2>4. ASSUME KernelWrite(k, p, v) PROVE FALSE
    BY <2>3, <2>4 DEF KernelWrite, Wilder, Tidy
  <2> QED
    BY <2>1, <2>4 DEF Write, Writable
<1>3. data \in [Frames -> Values] /\ f \in Frames
  <2>1. pte[k][p] \in [frame : Frames \cup {0}, present : BOOLEAN, rw : BOOLEAN]
    BY DEF VInv, VTypeOK
  <2> QED
    BY <2>1, <1>1 DEF VInv, VTypeOK
<1>4. Seen[k] = [q \in Pages |-> Value(k, q)] /\ Seen[k] # None
  BY <1>1, LiveSees DEF VInv
<1>5. Seen'[k] = [q \in Pages |-> Value(k, q)']
  BY <1>1 DEF Seen
<1>6. Value(k, p)' = v /\ Value(k, p) # None
  <2>1. Value(k, p) = data[f] /\ Value(k, p)' = data'[f]
    BY <1>1 DEF Value
  <2> QED
    BY <2>1, <1>1, <1>3, VmmAssumption
<1>7. \A q \in Pages \ {p} : Value(k, q)' = Value(k, q)
  BY <1>1, <1>2, <1>3 DEF Value
<1>8. Seen'[k] = [Seen[k] EXCEPT ![p] = v]
  BY <1>4, <1>5, <1>6, <1>7
<1>9. \A j \in Tasks \ {k} : Seen'[j] = Seen[j]
  <2> TAKE j \in Tasks \ {k}
  <2>1. \A q \in Pages : pte[j][q].frame # 0 => data'[pte[j][q].frame] = data[pte[j][q].frame]
    BY <1>1, <1>2, <1>3
  <2> QED
    BY <2>1, <1>1, Unseen
<1>10. Seen' = [Seen EXCEPT ![k][p] = v]
  BY <1>8, <1>9, OthersSee
<1>11. Private!MWrite(k, p, v)
  BY <1>4, <1>6, <1>10 DEF Private!MWrite
<1> QED
  BY <1>4, <1>11 DEF Private!MNext

\* A fault before its end changes nothing that is seen.
LEMMA FoundSeen ==
  ASSUME NEW k \in Tasks, NEW p \in Pages, FaultBack(k, p) \/ FaultCow(k, p)
  PROVE  Seen' = Seen
BY Unseen, OthersSee DEF FaultBack, FaultCow

\* A stop of the kernel changes nothing either.
LEMMA PanicSeen ==
  ASSUME NEW a, Panic(a)
  PROVE  Seen' = Seen
BY Unseen, OthersSee DEF Panic

\* The end of a fault changes nothing: zeros for zeros, and a copy for what
\* was copied.
LEMMA DoneSeen ==
  ASSUME VInv, Tidy, NEW k \in Tasks, FaultDone(k)
  PROVE  Seen' = Seen
<1> SUFFICES ASSUME NEW p, NEW f, p = fault[k].page, f = fault[k].frame
             PROVE  Seen' = Seen
  OBVIOUS
<1>1. /\ fault[k] # NoFault
      /\ data' = [data EXCEPT ![f] = IF fault[k].kind = "cow" THEN Copied(k) ELSE 0]
      /\ pte' = [pte EXCEPT ![k][p] = Entry(f, TRUE, TRUE)]
      /\ UNCHANGED <<ranges, stackStart, status, panicked>>
  BY DEF FaultDone, TakeFrame
<1>2. /\ p \in Pages /\ f \in Frames /\ fault[k].kind \in {"back", "cow"} /\ f # 0
      /\ status[k] = "live" /\ p \in Covered(ranges[k]) /\ refs[f] = 0
      /\ fault[k].kind = "cow" <=> pte[k][p].frame # 0
  BY <1>1, Constants, Kept DEF VTypeOK, TasksOK, Counted, Claims, FaultsOK
<1>3. \A j \in Tasks, q \in Pages : pte[j][q].frame # f
  BY <1>2, Kept, Nobody DEF Counted
<1>4. /\ pte \in [Tasks -> [Pages -> [frame : Frames \cup {0}, present : BOOLEAN, rw : BOOLEAN]]]
      /\ data \in [Frames -> Values]
  BY DEF VInv, VTypeOK
<1>5. /\ pte'[k][p] = Entry(f, TRUE, TRUE)
      /\ \A j \in Tasks, q \in Pages : <<j, q>> # <<k, p>> => pte'[j][q] = pte[j][q]
      /\ \A g \in Frames \ {f} : data'[g] = data[g]
      /\ data'[f] = IF pte[k][p].frame # 0 THEN data[pte[k][p].frame] ELSE 0
  <2>1. /\ pte'[k][p] = Entry(f, TRUE, TRUE)
        /\ \A j \in Tasks, q \in Pages : <<j, q>> # <<k, p>> => pte'[j][q] = pte[j][q]
        /\ \A g \in Frames \ {f} : data'[g] = data[g]
        /\ data'[f] = IF fault[k].kind = "cow" THEN Copied(k) ELSE 0
    BY <1>1, <1>2, <1>4
  <2>2. fault[k].kind = "cow" => Copied(k) = data[pte[k][p].frame]
    BY <1>2 DEF Copied, OldFrame
  <2> QED
    BY <2>1, <2>2, <1>2
<1>6. ASSUME NEW q \in Pages \ {p} PROVE Value(k, q)' = Value(k, q)
  <2>1. pte'[k][q] = pte[k][q] /\ ranges'[k] = ranges[k]
    BY <1>1, <1>5
  <2>2. pte[k][q].frame # 0 => data'[pte[k][q].frame] = data[pte[k][q].frame]
    <3>1. pte[k][q] \in [frame : Frames \cup {0}, present : BOOLEAN, rw : BOOLEAN]
      BY <1>4
    <3> QED
      BY <3>1, <1>3, <1>5
  <2> QED
    BY <2>1, <2>2 DEF Value
<1>7. Value(k, p)' = Value(k, p)
  <2>1. Value(k, p)' = data'[f]
    <3>1. pte'[k][p].present /\ pte'[k][p].frame = f
      BY <1>5, EntryFields
    <3> QED
      BY <3>1, <1>2 DEF Value
  <2>2. pte[k][p].frame # 0 => pte[k][p].present
    BY <1>2, Kept DEF EntriesOK
  <2>3. Value(k, p) = IF pte[k][p].frame # 0 THEN data[pte[k][p].frame] ELSE 0
    BY <2>2, <1>2 DEF Value
  <2> QED
    BY <2>1, <2>3, <1>5
<1>8. Seen'[k] = Seen[k]
  <2>1. /\ Seen[k] = [q \in Pages |-> Value(k, q)] /\ Seen'[k] = [q \in Pages |-> Value(k, q)']
    BY <1>1, <1>2 DEF Seen
  <2> QED
    BY <2>1, <1>6, <1>7
<1>9. ASSUME NEW j \in Tasks \ {k} PROVE Seen'[j] = Seen[j]
  <2>1. pte'[j] = pte[j]
    BY <1>1, <1>4
  <2>2. \A q \in Pages : pte[j][q].frame # 0 => data'[pte[j][q].frame] = data[pte[j][q].frame]
    <3> TAKE q \in Pages
    <3>1. pte[j][q] \in [frame : Frames \cup {0}, present : BOOLEAN, rw : BOOLEAN]
      BY <1>4
    <3> QED
      BY <3>1, <1>3, <1>5
  <2> QED
    BY <2>1, <2>2, <1>1, Unseen
<1> QED
  BY <1>8, <1>9, OthersSee

\* A task that ends is not seen any more.
LEMMA EndSeen ==
  ASSUME VInv, NEW k \in Tasks, status[k] = "live",
         status' = [status EXCEPT ![k] = "zombie"],
         \A j \in Tasks \ {k} : pte'[j] = pte[j] /\ ranges'[j] = ranges[j],
         data' = data
  PROVE  Private!MNext
<1>1. status \in [Tasks -> {"none", "live", "zombie", "stillborn"}]
  BY DEF VInv, VTypeOK
<1>2. Seen[k] # None
  BY LiveSees DEF VInv
<1>3. Seen'[k] = None
  BY <1>1 DEF Seen
<1>4. \A j \in Tasks \ {k} : Seen'[j] = Seen[j]
  BY <1>1, Unseen
<1>5. Seen' = [Seen EXCEPT ![k] = None]
  BY <1>3, <1>4, OthersSee
<1> QED
  BY <1>2, <1>5 DEF Private!MNext, Private!MEnd

\* The step of task k keeps it alive, and the others see no change.
LEMMA OnlySeen ==
  ASSUME VInv, VTypeOK', NEW k \in Tasks, status' = status, status[k] = "live", data' = data,
         \A j \in Tasks \ {k} : pte'[j] = pte[j] /\ ranges'[j] = ranges[j]
  PROVE  /\ Private!MOnly(k) /\ Seen[k] # None
         /\ \A p \in Pages : Seen[k][p] = Value(k, p) /\ Seen'[k][p] = Value(k, p)'
<1>1. Seen[k] = [p \in Pages |-> Value(k, p)] /\ Seen[k] # None
  BY LiveSees DEF VInv
<1>2. Seen'[k] = [p \in Pages |-> Value(k, p)'] 
  BY DEF Seen
<1>3. Seen'[k] # None
  <2>1. \A p \in Pages : Value(k, p)' \in Values \cup {None}
    <3> TAKE p \in Pages
    <3>1. pte'[k][p] \in [frame : Frames \cup {0}, present : BOOLEAN, rw : BOOLEAN]
      BY DEF VTypeOK
    <3>2. pte'[k][p].frame \in Frames \cup {0}
      BY <3>1
    <3>3. data' \in [Frames -> Values] /\ 0 \in Values
      BY VmmAssumption DEF VTypeOK
    <3> QED
      BY <3>2, <3>3 DEF Value
  <2>2. Seen'[k] \in [1..MaxPage -> Values \cup {None}]
    BY <2>1, <1>2 DEF Pages
  <2> QED
    BY <2>2, VmmAssumption
<1>4. \A j \in Tasks \ {k} : Seen'[j] = Seen[j]
  BY Unseen
<1>5. Seen' = [Seen EXCEPT ![k] = Seen'[k]]
  BY <1>4, OthersSee
<1> QED
  BY <1>1, <1>2, <1>3, <1>5 DEF Private!MOnly

\* Growth gives a page of zeros, or ends the task.
LEMMA GrowSeen ==
  ASSUME VInv, VInv', Tidy, Tidy', NEW k \in Tasks, NEW p \in Pages, FaultGrow(k, p)
  PROVE  Private!MNext \/ Seen' = Seen
<1>1. CASE StackRanges(k) = {}
  BY <1>1, PanicSeen DEF FaultGrow
<1>2. ASSUME NEW r \in StackRanges(k), Grow(k, p, r) PROVE Private!MNext
  <2> DEFINE moved == [r EXCEPT !.start = @ - 1]
  <2>1. /\ pte \in [Tasks -> [Pages -> [frame : Frames \cup {0}, present : BOOLEAN, rw : BOOLEAN]]]
        /\ ranges \in [Tasks -> SUBSET [start : Pages, len : Pages]]
        /\ Pages \subseteq Nat \ {0}
    BY Constants DEF VInv, VTypeOK
  <2>2. /\ status[k] = "live" /\ r \in ranges[k] /\ r \in [start : Pages, len : Pages]
        /\ p = stackStart[k] - 1 /\ p \notin Covered(ranges[k]) /\ stackStart[k] \in Span(r)
        /\ data' = data
        /\ ranges' = [ranges EXCEPT ![k] = (@ \ {r}) \cup {moved}]
        /\ pte' = [pte EXCEPT ![k] = [q \in Pages |->
                     IF q \in Span(moved) THEN Entry(@[q].frame, TRUE, TRUE) ELSE @[q]]]
        /\ status' = status \/ status' = [status EXCEPT ![k] = "zombie"]
    BY <1>2, <2>1 DEF FaultGrow, Growing, Runs, StackRanges, Grow, FrameFound
  <2>7. \A q \in Span(r) : pte[k][q].frame # 0
    BY <1>2 DEF Grow, Wilder, Tidy
  <2>3. Span(moved) \subseteq Span(r) \cup {p}
    <3>1. p \notin Span(r)
      BY <2>2 DEF Covered
    <3>2. r.start \in Nat /\ r.len \in Nat /\ p \in Nat /\ r.len # 0
      BY <2>1, <2>2
    <3>3. r.start = p + 1
      BY <3>1, <3>2, <2>2 DEF Span
    <3>4. moved.start = r.start - 1 /\ moved.len = r.len
      BY <2>2
    <3> HIDE DEF moved
    <3> QED
      BY <3>2, <3>3, <3>4 DEF Span
  <2> HIDE DEF moved
  <2>4. \A j \in Tasks \ {k} : pte'[j] = pte[j] /\ ranges'[j] = ranges[j]
    BY <2>1, <2>2
  <2>5. CASE status' = [status EXCEPT ![k] = "zombie"]
    BY <2>2, <2>4, <2>5, EndSeen
  <2>6. CASE status' = status
    <3>1. /\ Private!MOnly(k) /\ Seen[k] # None
          /\ \A q \in Pages : Seen[k][q] = Value(k, q) /\ Seen'[k][q] = Value(k, q)'
      BY <2>2, <2>4, <2>6, OnlySeen DEF VInv
    <3>2. ASSUME NEW q \in Pages, Value(k, q)' # Value(k, q)
          PROVE  Value(k, q) = None /\ Value(k, q)' = 0
      <4>1. pte[k][q].frame # 0 => pte[k][q].present
        BY Kept DEF EntriesOK
      <4>2. pte'[k][q].frame = pte[k][q].frame
        <5>1. pte'[k][q] = IF q \in Span(moved) THEN Entry(pte[k][q].frame, TRUE, TRUE)
                                                ELSE pte[k][q]
          BY <2>1, <2>2
        <5>2. CASE q \in Span(moved)
          BY <5>1, <5>2, EntryFields
        <5>3. CASE q \notin Span(moved)
          BY <5>1, <5>3
        <5> QED
          BY <5>2, <5>3
      <4>3. pte'[k][q].frame # 0 => pte'[k][q].present
        BY DEF VInv, EntriesOK
      <4>4. pte[k][q].frame = 0
        <5>1. ASSUME pte[k][q].frame # 0 PROVE Value(k, q) = data[pte[k][q].frame]
          BY <5>1, <4>1 DEF Value
        <5>2. ASSUME pte[k][q].frame # 0 PROVE Value(k, q)' = data'[pte[k][q].frame]
          BY <5>2, <4>2, <4>3 DEF Value
        <5> QED
          BY <5>1, <5>2, <3>2, <2>2
      <4>5. Value(k, q) = IF q \in Covered(ranges[k]) THEN 0 ELSE None
        BY <4>4 DEF Value
      <4>6. Value(k, q)' = IF q \in Covered(ranges'[k]) THEN 0 ELSE None
        BY <4>2, <4>4 DEF Value
      <4>7. q \in Covered(ranges[k]) => q \in Covered(ranges'[k])
        <5>1. q \notin Span(r)
          BY <4>4, <2>7
        <5>2. ranges'[k] = (ranges[k] \ {r}) \cup {moved}
          BY <2>1, <2>2
        <5> QED
          BY <5>1, <5>2 DEF Covered
      <4> QED
        BY <3>2, <4>5, <4>6, <4>7
    <3>3. Private!MNew(k)
      BY <3>1, <3>2 DEF Private!MNew, Private!Changed
    <3> QED
      BY <3>1, <3>3 DEF Private!MNext
  <2> QED
    BY <2>2, <2>5, <2>6
<1> QED
  BY <1>1, <1>2 DEF FaultGrow

\* new_pages gives pages of zeros.
LEMMA NewPagesSeen ==
  ASSUME VInv, VInv', Tidy', NEW k \in Tasks, NEW r \in Asked, NewPages(k, r)
  PROVE  Private!MNext
<1>1. /\ status[k] = "live" /\ Span(r) \cap Covered(ranges[k]) = {} /\ Span(r) \cap Stray(k) = {}
      /\ ranges' = [ranges EXCEPT ![k] = @ \cup {r}]
      /\ pte' = [pte EXCEPT ![k] = [q \in Pages |->
                   IF q \in Span(r) THEN Entry(@[q].frame, FALSE, TRUE) ELSE @[q]]]
      /\ UNCHANGED <<data, status>>
  BY DEF NewPages, Runs, Wilder, Tidy
<1>2. /\ pte \in [Tasks -> [Pages -> [frame : Frames \cup {0}, present : BOOLEAN, rw : BOOLEAN]]]
      /\ ranges \in [Tasks -> SUBSET [start : Pages, len : Pages]]
  BY DEF VInv, VTypeOK
<1>3. /\ Private!MOnly(k) /\ Seen[k] # None
      /\ \A q \in Pages : Seen[k][q] = Value(k, q) /\ Seen'[k][q] = Value(k, q)'
  BY <1>1, <1>2, OnlySeen DEF VInv
<1>4. ASSUME NEW q \in Pages, Value(k, q)' # Value(k, q)
      PROVE  Value(k, q) = None /\ Value(k, q)' = 0
  <2>1. CASE q \in Span(r)
    <3>1. q \notin Covered(ranges[k]) /\ ~ pte[k][q].present
      BY <2>1, <1>1 DEF Stray
    <3>2. q \in Covered(ranges'[k]) /\ ~ pte'[k][q].present
      <4>1. r \in ranges'[k] /\ pte'[k][q] = Entry(pte[k][q].frame, FALSE, TRUE)
        BY <2>1, <1>1, <1>2
      <4>2. ~ Entry(pte[k][q].frame, FALSE, TRUE).present
        BY DEF Entry
      <4> QED
        BY <2>1, <4>1, <4>2 DEF Covered
    <3> QED
      BY <3>1, <3>2 DEF Value
  <2>2. CASE q \notin Span(r)
    <3>1. pte'[k][q] = pte[k][q] /\ ranges'[k] = ranges[k] \cup {r}
      BY <2>2, <1>1, <1>2
    <3>2. q \in Covered(ranges'[k]) <=> q \in Covered(ranges[k])
      BY <2>2, <3>1 DEF Covered
    <3> QED
      BY <3>1, <3>2, <1>1, <1>4 DEF Value
  <2> QED
    BY <2>1, <2>2
<1>5. Private!MNew(k)
  BY <1>3, <1>4 DEF Private!MNew, Private!Changed
<1> QED
  BY <1>3, <1>5 DEF Private!MNext

\* remove_pages takes pages away, and no others.
LEMMA RemoveSeen ==
  ASSUME VInv, VInv', NEW k \in Tasks, NEW r \in Asked, RemovePages(k, r)
  PROVE  Private!MNext \/ Seen' = Seen
<1> DEFINE gone == {q \in Span(r) : pte[k][q].present}
           dropped == {<<k, q, pte[k][q].frame>> : q \in gone}
<1>1. CASE \E q \in gone : pte[k][q].frame = 0
  BY <1>1, PanicSeen DEF RemovePages, UninstallRange
<1>2. CASE ~ (\E q \in gone : pte[k][q].frame = 0) /\ Overdrawn(refs, dropped)
  BY <1>2, PanicSeen DEF RemovePages, UninstallRange
<1>3. CASE ~ (\E q \in gone : pte[k][q].frame = 0) /\ ~ Overdrawn(refs, dropped)
  <2>1. /\ status[k] = "live" /\ r \in ranges[k]
        /\ pte' = [pte EXCEPT ![k] = [q \in Pages |->
                     IF q \in gone THEN Uninstalled(@[q]) ELSE @[q]]]
        /\ ranges' = [ranges EXCEPT ![k] = @ \ {r}]
        /\ UNCHANGED <<data, status>>
    BY <1>3 DEF RemovePages, UninstallRange, Runs
  <2>2. /\ pte \in [Tasks -> [Pages -> [frame : Frames \cup {0}, present : BOOLEAN, rw : BOOLEAN]]]
        /\ ranges \in [Tasks -> SUBSET [start : Pages, len : Pages]]
    BY DEF VInv, VTypeOK
  <2>3. /\ Private!MOnly(k) /\ Seen[k] # None
        /\ \A q \in Pages : Seen[k][q] = Value(k, q) /\ Seen'[k][q] = Value(k, q)'
    BY <2>1, <2>2, OnlySeen DEF VInv
  <2>4. ranges'[k] = ranges[k] \ {r} /\ Apart(ranges[k])
    BY <2>1, <2>2 DEF VInv, RangesOK
  <2>5. \A q \in Span(r) : q \notin Covered(ranges'[k])
    BY <2>1, <2>4 DEF Apart, Covered
  <2>6. ASSUME NEW q \in Pages, Value(k, q)' # Value(k, q)
        PROVE  Value(k, q)' = None
    <3>1. CASE q \in Span(r)
      <4>1. ~ pte'[k][q].present
        <5>1. CASE q \in gone
          BY <5>1, <2>1, <2>2, EntryFields
        <5>2. CASE q \notin gone
          BY <5>2, <3>1, <2>1, <2>2
        <5> QED
          BY <5>1, <5>2
      <4> QED
        BY <3>1, <4>1, <2>5 DEF Value
    <3>2. CASE q \notin Span(r)
      <4>1. pte'[k][q] = pte[k][q]
        BY <3>2, <2>1, <2>2
      <4>2. q \in Covered(ranges'[k]) <=> q \in Covered(ranges[k])
        BY <3>2, <2>4 DEF Covered
      <4> QED
        BY <4>1, <4>2, <2>1, <2>6 DEF Value
    <3> QED
      BY <3>1, <3>2
  <2>7. Private!MRemove(k)
    BY <2>3, <2>6 DEF Private!MRemove, Private!Changed
  <2> QED
    BY <2>3, <2>7 DEF Private!MNext
<1> QED
  BY <1>1, <1>2, <1>3

\* A child sees what its parent sees, and the parent what it saw.
LEMMA ForkSeen ==
  ASSUME VInv, Tidy, Tidy', NEW k \in Tasks, NEW c \in Tasks, NEW rs \in SUBSET ranges[k],
         NEW new \in {"live", "stillborn"},
         CanFork(k, c), ~ NullFrame(k, rs), Share(k, c, rs),
         status' = [status EXCEPT ![c] = new], data' = data,
         new = "live" => rs = ranges[k]
  PROVE  Private!MNext \/ Seen' = Seen
<1> DEFINE S == Covered(rs)
<1>1. status[k] = "live" /\ status[c] = "none" /\ k # c /\ Stray(k) = {}
  BY DEF CanFork, Runs, Share, ShareTables, Wilder, Tidy
<1>2. /\ pte \in [Tasks -> [Pages -> [frame : Frames \cup {0}, present : BOOLEAN, rw : BOOLEAN]]]
      /\ ranges \in [Tasks -> SUBSET [start : Pages, len : Pages]]
      /\ status \in [Tasks -> {"none", "live", "zombie", "stillborn"}]
  BY DEF VInv, VTypeOK
<1>3. S \subseteq Pages /\ \A p \in S : pte[k][p].frame # 0 /\ pte[k][p].present
  BY Kept DEF RangesOK, Apart, Covered, EntriesOK, NullFrame
<1>4. /\ pte' = [pte EXCEPT
           ![k] = [p \in Pages |-> IF p \in S THEN Entry(pte[k][p].frame, TRUE, FALSE) ELSE @[p]],
           ![c] = [p \in Pages |-> IF p \in S THEN Entry(pte[k][p].frame, TRUE, FALSE)
                                              ELSE Unmapped]]
      /\ ranges' = [ranges EXCEPT ![c] = rs]
  BY <1>3 DEF Share, ShareTables
<1> HIDE DEF S
<1>5. /\ \A j \in Tasks \ {k, c} : pte'[j] = pte[j]
      /\ \A p \in S : /\ pte'[k][p] = Entry(pte[k][p].frame, TRUE, FALSE)
                      /\ pte'[c][p] = Entry(pte[k][p].frame, TRUE, FALSE)
      /\ \A p \in Pages \ S : pte'[k][p] = pte[k][p] /\ pte'[c][p] = Unmapped
      /\ \A j \in Tasks \ {c} : ranges'[j] = ranges[j]
      /\ ranges'[c] = rs
  BY <1>1, <1>2, <1>3, <1>4
<1>6. \A p \in Pages : Value(k, p)' = Value(k, p)
  <2> TAKE p \in Pages
  <2>1. ranges'[k] = ranges[k]
    BY <1>1, <1>5
  <2>2. CASE p \in S
    <3>1. pte'[k][p].frame = pte[k][p].frame /\ pte'[k][p].present
      BY <2>2, <1>5, EntryFields
    <3> QED
      BY <2>2, <3>1, <1>3 DEF Value
  <2>3. CASE p \notin S
    BY <2>1, <2>3, <1>5 DEF Value
  <2> QED
    BY <2>2, <2>3
<1>7. /\ Seen[k] = [p \in Pages |-> Value(k, p)] /\ Seen[k] # None
      /\ Seen'[k] = [p \in Pages |-> Value(k, p)']
  <2>1. status'[k] = "live"
    BY <1>1, <1>2
  <2> QED
    BY <2>1, <1>1, LiveSees DEF VInv, Seen
<1>8. Seen[c] = None
  BY <1>1 DEF Seen
<1>9. \A j \in Tasks \ {c} : Seen'[j] = Seen[j]
  <2>1. Seen'[k] = Seen[k]
    BY <1>6, <1>7
  <2>2. \A j \in Tasks \ {k, c} : Seen'[j] = Seen[j]
    BY <1>2, <1>5, Unseen
  <2> QED
    BY <2>1, <2>2
<1>10. CASE new = "live"
  <2>1. \A p \in Pages : Value(c, p)' = Value(k, p)
    <3> TAKE p \in Pages
    <3>1. CASE p \in S
      <4>1. pte'[c][p] = Entry(pte[k][p].frame, TRUE, FALSE)
        BY <3>1, <1>5
      <4>2. pte'[c][p].frame = pte[k][p].frame /\ pte'[c][p].present
        BY <4>1, EntryFields
      <4> QED
        BY <3>1, <4>2, <1>3 DEF Value
    <3>2. CASE p \notin S
      <4>1. ~ pte'[c][p].present /\ p \notin Covered(ranges'[c])
        BY <3>2, <1>5, EntryFields DEF S
      <4>2. p \notin Covered(ranges[k]) /\ ~ pte[k][p].present
        BY <3>2, <1>1, <1>10 DEF S, Stray
      <4> QED
        BY <4>1, <4>2 DEF Value
    <3> QED
      BY <3>1, <3>2
  <2>2. Seen'[c] = [p \in Pages |-> Value(c, p)']
    BY <1>2, <1>10 DEF Seen
  <2>3. Seen'[c] = Seen[k]
    BY <2>1, <2>2, <1>7
  <2>4. Seen' = [Seen EXCEPT ![c] = Seen[k]]
    BY <2>3, <1>9, OthersSee
  <2> QED
    BY <2>4, <1>7, <1>8 DEF Private!MNext, Private!MFork
<1>11. CASE new = "stillborn"
  <2>1. Seen'[c] = None
    BY <1>2, <1>11 DEF Seen
  <2> QED
    BY <2>1, <1>8, <1>9, OthersSee
<1> QED
  BY <1>10, <1>11

\* A new program sees what its file says, and nobody else sees a change.
LEMMA ExecSeen ==
  ASSUME VInv, Tidy, NEW k \in Tasks, Exec(k)
  PROVE  Private!MNext
<1> DEFINE C == Covered(Image)
           at(p) == LoadFrame(Free, p)
           kept == Span(StackRange)
<1>1. /\ status[k] = "live" /\ Cardinality(Free) >= Cardinality(C)
      /\ data' = [f \in Frames |-> IF \E p \in C \ kept : at(p) = f THEN 0 ELSE data[f]]
      /\ pte' = [pte EXCEPT ![k] = LoadedTables(Free)]
      /\ ranges' = [ranges EXCEPT ![k] = Image]
      /\ UNCHANGED status
  <2>1. Cardinality(Free) >= Cardinality(C) /\ ~ Overdrawn(LoadedRefs, Backed(k))
    BY LoadedCounts, Kept DEF Exec, Counted
  <2> QED
    BY <2>1 DEF Exec, Load, CopyUserPtes, CopyVmranges, Runs
<1>2. /\ pte \in [Tasks -> [Pages -> [frame : Frames \cup {0}, present : BOOLEAN, rw : BOOLEAN]]]
      /\ ranges \in [Tasks -> SUBSET [start : Pages, len : Pages]]
      /\ data \in [Frames -> Values] /\ 0 \in Values
  BY VmmAssumption DEF VInv, VTypeOK
<1>3. Free \in SUBSET Frames
  BY DEF Free
<1>4. /\ \A p \in Pages \ C : ~ LoadedTables(Free)[p].present
      /\ \A p \in C : /\ LoadedTables(Free)[p].frame = at(p) /\ LoadedTables(Free)[p].present
                      /\ at(p) \in Free
  BY <1>1, <1>3, LoadedEntries
<1>5. \A p \in C : /\ at(p) \in Frames /\ at(p) # 0
                   /\ \A j \in Tasks, q \in Pages : pte[j][q].frame # at(p)
  <2>1. \A f \in Free : f \in Frames /\ f # 0 /\ refs[f] = 0
    BY Constants DEF Free
  <2>2. \A f \in Free, j \in Tasks, q \in Pages : pte[j][q].frame # f
    BY <2>1, Kept, Nobody DEF Counted
  <2> QED
    BY <2>1, <2>2, <1>4
<1> HIDE DEF at, kept
<1>6. ASSUME NEW p \in C
      PROVE  data'[at(p)] \in Values /\ (p \notin kept => data'[at(p)] = 0)
  <2> HIDE DEF C
  <2>1. at(p) \in Frames /\ data[at(p)] \in Values /\ 0 \in Values
    BY <1>2, <1>5
  <2>2. data'[at(p)] = IF \E q \in C \ kept : at(q) = at(p) THEN 0 ELSE data[at(p)]
    BY <2>1, <1>1
  <2> QED
    BY <2>1, <2>2
<1>7. pte'[k] = LoadedTables(Free) /\ ranges'[k] = Image
  BY <1>1, <1>2
<1>8. Seen'[k] = [p \in Pages |-> Value(k, p)']
  BY <1>1 DEF Seen
<1>9. /\ \A p \in C : Value(k, p)' = data'[at(p)]
      /\ \A p \in Pages \ C : Value(k, p)' = None
  <2>1. ASSUME NEW p \in C PROVE Value(k, p)' = data'[at(p)]
    <3>1. p \in Pages
      BY ImageRanges
    <3>2. pte'[k][p].frame = at(p) /\ pte'[k][p].present /\ at(p) # 0
      BY <1>4, <1>5, <1>7
    <3> QED
      BY <3>2 DEF Value
  <2>2. ASSUME NEW p \in Pages \ C PROVE Value(k, p)' = None
    BY <1>4, <1>7 DEF Value
  <2> QED
    BY <2>1, <2>2
<1>10. C \subseteq Pages /\ None \notin Values
  BY ImageRanges, VmmAssumption
<1> HIDE DEF C
<1>11. Seen'[k] \in Private!Programs
  <2>1. Seen'[k] \in [Pages -> Values \cup {None}]
    BY <1>6, <1>8, <1>9, <1>10
  <2>2. \A p \in Pages : /\ Seen'[k][p] = None <=> p \notin C
                         /\ p \in C \ kept => Seen'[k][p] = 0
    BY <1>6, <1>8, <1>9, <1>10
  <2> QED
    BY <2>1, <2>2 DEF Private!Programs, C, kept
<1>12. \A j \in Tasks \ {k} : Seen'[j] = Seen[j]
  <2> TAKE j \in Tasks \ {k}
  <2>1. pte'[j] = pte[j] /\ ranges'[j] = ranges[j]
    BY <1>1, <1>2
  <2>2. \A q \in Pages : pte[j][q].frame # 0 => data'[pte[j][q].frame] = data[pte[j][q].frame]
    <3> TAKE q \in Pages
    <3>1. pte[j][q] \in [frame : Frames \cup {0}, present : BOOLEAN, rw : BOOLEAN]
      BY <1>2
    <3>2. pte[j][q].frame # 0 => pte[j][q].frame \in Frames
      BY <3>1
    <3>3. \A p \in C : pte[j][q].frame # at(p)
      BY <1>5
    <3> QED
      BY <3>2, <3>3, <1>1
  <2> QED
    BY <2>1, <2>2, <1>1, Unseen
<1>13. Seen' = [Seen EXCEPT ![k] = Seen'[k]] /\ Seen[k] # None
  BY <1>1, <1>12, OthersSee, LiveSees DEF VInv
<1> QED
  BY <1>11, <1>13 DEF Private!MNext, Private!MExec

\* A task that is reaped was not seen any more.
LEMMA FreeTaskSeen ==
  ASSUME VInv, NEW k \in Tasks, FreeTask(k)
  PROVE  Seen' = Seen
<1>1. CASE Overdrawn(refs, Backed(k))
  BY <1>1, PanicSeen DEF FreeTask
<1>2. CASE ~ Overdrawn(refs, Backed(k))
  <2>1. /\ status[k] = "zombie" /\ data' = data
        /\ pte' = [pte EXCEPT ![k] = NoTables]
        /\ ranges' = [ranges EXCEPT ![k] = {}]
        /\ status' = [status EXCEPT ![k] = "none"]
    BY <1>2 DEF FreeTask, FreeMemory
  <2>2. /\ pte \in [Tasks -> [Pages -> [frame : Frames \cup {0}, present : BOOLEAN, rw : BOOLEAN]]]
        /\ ranges \in [Tasks -> SUBSET [start : Pages, len : Pages]]
        /\ status \in [Tasks -> {"none", "live", "zombie", "stillborn"}]
    BY DEF VInv, VTypeOK
  <2>3. Seen[k] = None /\ Seen'[k] = None
    BY <2>1, <2>2 DEF Seen
  <2>4. \A j \in Tasks \ {k} : Seen'[j] = Seen[j]
    BY <2>1, <2>2, Unseen
  <2> QED
    BY <2>3, <2>4, OthersSee
<1> QED
  BY <1>1, <1>2

\* The first program sees zeros.
LEMMA InitSeen ==
  ASSUME VmInit
  PROVE  Private!MInit
<1> DEFINE C == Covered(Image)
           m == [p \in Pages |-> Value(InitTask, p)]
<1>1. Cardinality(Frames) >= Cardinality(C)
  <2>1. Cardinality(Frames) = NrFrames
    BY Constants, FS_Interval DEF Frames
  <2>2. NrFrames \in Nat /\ Cardinality(C) \in Nat
    BY Constants, ImageRanges, FS_Subset, FS_CardinalityType
  <2> QED
    BY <2>1, <2>2, VmmAssumption
<1>2. /\ \A p \in Pages \ C : ~ LoadedTables(Frames)[p].present
      /\ \A p \in C : /\ LoadedTables(Frames)[p].frame \in Frames
                      /\ LoadedTables(Frames)[p].present
  BY <1>1, LoadedEntries, Frames \in SUBSET Frames
<1>3. /\ InitTask \in Tasks /\ pte[InitTask] = LoadedTables(Frames) /\ ranges[InitTask] = Image
      /\ \A f \in Frames : data[f] = 0
      /\ 0 \in Values /\ None \notin Values /\ C \subseteq Pages /\ 0 \notin Frames
  BY VmmAssumption, ImageRanges, Constants DEF VmInit
<1>4. /\ \A p \in C : Value(InitTask, p) = 0
      /\ \A p \in Pages \ C : Value(InitTask, p) = None
  BY <1>2, <1>3 DEF Value
<1> HIDE DEF C
<1>5. m \in Private!Programs
  <2>1. m \in [Pages -> Values \cup {None}] /\ \A p \in Pages : m[p] = IF p \in C THEN 0 ELSE None
    BY <1>3, <1>4
  <2> HIDE DEF m
  <2> QED
    BY <2>1, <1>3 DEF Private!Programs, C
<1>6. Seen = [k \in Tasks |-> IF k = InitTask THEN m ELSE None]
  BY DEF Seen, VmInit
<1> HIDE DEF m
<1> QED
  BY <1>5, <1>6 DEF Private!MInit

\* Situations stay once they have come about.
LEMMA WildStays ==
  ASSUME [VmNext]_vmvars
  PROVE  wild \subseteq wild'
<1>1. ASSUME NEW k \in Tasks, VmStep(k) PROVE wild \subseteq wild'
  <2>1. ASSUME NEW p \in Pages, NEW v \in Values, Write(k, p, v) \/ KernelWrite(k, p, v)
        PROVE  wild \subseteq wild'
    BY <2>1 DEF Write, KernelWrite
  <2>2. ASSUME NEW p \in Pages, FaultBack(k, p) \/ FaultCow(k, p) \/ FaultGrow(k, p) \/ FaultKill(k, p)
        PROVE  wild \subseteq wild'
    BY <2>2 DEF FaultBack, FaultCow, FaultGrow, FaultKill, FoundAgain, Grow, Panic
  <2>3. CASE FaultDone(k)
    BY <2>3 DEF FaultDone, TakeFrame
  <2>4. ASSUME NEW r \in Asked, NewPages(k, r) \/ RemovePages(k, r) PROVE wild \subseteq wild'
    BY <2>4 DEF NewPages, RemovePages, UninstallRange, Panic
  <2>5. CASE NewPagesNone(k)
    BY <2>5 DEF NewPagesNone, Panic
  <2>6. ASSUME NEW c \in Tasks, \/ Fork(k, c) \/ ForkPanics(k, c)
                                \/ \E rs \in SUBSET ranges[k] : ForkFails(k, c, rs)
        PROVE  wild \subseteq wild'
    BY <2>6 DEF Fork, ForkPanics, ForkFails, Share, ShareTables, Panic
  <2>7. CASE Exec(k)
    BY <2>7 DEF Exec, Load, Panic
  <2>8. CASE Exit(k) \/ FreeTask(k)
    BY <2>8 DEF Exit, FreeTask, FreeMemory, Panic
  <2> QED
    BY <1>1, <2>1, <2>2, <2>3, <2>4, <2>5, <2>6, <2>7, <2>8 DEF VmStep
<1>2. CASE UNCHANGED vmvars
  BY <1>2 DEF vmvars
<1> QED
  BY <1>1, <1>2 DEF VmNext

\* A step is one of the abstract memory, or not seen; the end of a fault is
\* not seen.
LEMMA NextSeen ==
  ASSUME VInv, VInv', [VmNext]_vmvars
  PROVE  wild' = {} => StepPrivate
<1> SUFFICES ASSUME Tidy, Tidy' PROVE StepPrivate
  BY WildStays DEF Tidy
<1>1. ASSUME NEW k \in Tasks, VmStep(k), ~ FaultDone(k)
      PROVE  (Private!MNext \/ Seen' = Seen) /\ ~ FaultEnds
  <2>1. ASSUME NEW p \in Pages, NEW v \in Values, Write(k, p, v) \/ KernelWrite(k, p, v)
        PROVE  Private!MNext /\ fault' = fault
    BY <2>1, WriteSeen DEF Write, KernelWrite
  <2>2. ASSUME NEW p \in Pages, FaultBack(k, p) \/ FaultCow(k, p)
        PROVE  Seen' = Seen /\ ~ FaultEnds
    <3>1. Seen' = Seen
      BY <2>2, FoundSeen
    <3>2. fault[k] = NoFault /\ \A j \in Tasks \ {k} : fault'[j] = fault[j]
      BY <2>2 DEF FaultBack, FaultCow, FrameFound, Runs, VInv, VTypeOK
    <3> QED
      BY <3>1, <3>2 DEF FaultEnds
  <2>3. ASSUME NEW p \in Pages, FaultGrow(k, p)
        PROVE  (Private!MNext \/ Seen' = Seen) /\ ~ FaultEnds
    <3>1. Private!MNext \/ Seen' = Seen
      BY <2>3, GrowSeen
    <3>2. fault[k] = NoFault /\ \A j \in Tasks \ {k} : fault'[j] = fault[j]
      <4>1. fault[k] = NoFault
        BY <2>3 DEF FaultGrow, Runs
      <4>2. fault' = fault \/ \E e : fault' = [fault EXCEPT ![k] = e]
        <5>1. CASE StackRanges(k) = {}
          BY <5>1, <2>3 DEF FaultGrow, Panic
        <5>2. ASSUME NEW r \in StackRanges(k), Grow(k, p, r)
              PROVE  fault' = fault \/ \E e : fault' = [fault EXCEPT ![k] = e]
          BY <5>2 DEF Grow, FrameFound
        <5> QED
          BY <5>1, <5>2, <2>3 DEF FaultGrow
      <4>3. DOMAIN fault = Tasks
        BY DEF VInv, VTypeOK
      <4> QED
        BY <4>1, <4>2, <4>3
    <3> QED
      BY <3>1, <3>2 DEF FaultEnds
  <2>4. ASSUME NEW p \in Pages, FaultKill(k, p) PROVE Private!MNext /\ fault' = fault
    BY <2>4, EndSeen DEF FaultKill, Runs
  <2>5. ASSUME NEW r \in Asked, NewPages(k, r) PROVE Private!MNext /\ fault' = fault
    BY <2>5, NewPagesSeen DEF NewPages
  <2>6. ASSUME NEW r \in Asked, RemovePages(k, r)
        PROVE  (Private!MNext \/ Seen' = Seen) /\ fault' = fault
    BY <2>6, RemoveSeen DEF RemovePages, UninstallRange, Panic
  <2>7. CASE NewPagesNone(k)
    BY <2>7, PanicSeen DEF NewPagesNone, Panic, FaultEnds
  <2>8. ASSUME NEW c \in Tasks, Fork(k, c)
        PROVE  (Private!MNext \/ Seen' = Seen) /\ fault' = fault
    BY <2>8, ForkSeen, ranges[k] \in SUBSET ranges[k] DEF Fork
  <2>9. ASSUME NEW c \in Tasks, NEW rs \in SUBSET ranges[k], ForkFails(k, c, rs)
        PROVE  (Private!MNext \/ Seen' = Seen) /\ fault' = fault
    BY <2>9, ForkSeen DEF ForkFails
  <2>10. ASSUME NEW c \in Tasks, ForkPanics(k, c) PROVE Seen' = Seen /\ fault' = fault
    BY <2>10, PanicSeen DEF ForkPanics, Panic
  <2>11. CASE Exec(k)
    <3>1. fault' = fault
      BY <2>11 DEF Exec, Load, Panic
    <3> QED
      BY <3>1, <2>11, ExecSeen DEF FaultEnds
  <2>12. CASE Exit(k)
    BY <2>12, EndSeen DEF Exit, Runs, FaultEnds
  <2>13. CASE FreeTask(k)
    <3>1. fault' = fault
      BY <2>13 DEF FreeTask, FreeMemory, Panic
    <3> QED
      BY <3>1, <2>13, FreeTaskSeen DEF FaultEnds
  <2>14. fault' = fault => ~ FaultEnds
    BY DEF FaultEnds
  <2> QED
    BY <1>1, <2>1, <2>2, <2>3, <2>4, <2>5, <2>6, <2>7, <2>8, <2>9, <2>10, <2>11, <2>12, <2>13, <2>14
    DEF VmStep
<1>2. ASSUME NEW k \in Tasks, FaultDone(k) PROVE Seen' = Seen
  BY <1>2, DoneSeen
<1>3. ASSUME UNCHANGED vmvars PROVE Seen' = Seen
  BY <1>3, Unseen, OthersSee DEF vmvars
<1> QED
  BY <1>1, <1>2, <1>3 DEF VmNext, StepPrivate

\* Sharing, copying on write and filling with zeros on demand cannot be seen
\* (README.dox:97-100): every task has a memory of its own, and no fault
\* changes it, up to the step in which one of the WildCases comes about.
THEOREM ImplementsMemoryHolds == VmSpec => ImplementsMemory
<1>1. VmInit => Private!MInit
  BY InitSeen
<1>2. VInv /\ VInv' /\ [VmNext]_vmvars => [wild' = {} => StepPrivate]_vmvars
  BY NextSeen
<1> QED
  BY <1>1, <1>2, VInvHolds, PTL DEF VmSpec, ImplementsMemory
=============================================================================
