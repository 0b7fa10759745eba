----------------------------- MODULE DlinkList ------------------------------
(***************************************************************************)
(* The doubly linked lists of libthread, dlink_list.h, entry by entry: a   *)
(* list is a ring of entries that its anchor is one of.  An entry is a     *)
(* name, the links l are two functions over all entries.  A list of        *)
(* waiters is detached from its anchor and handed to another by            *)
(* wakeup_all of wait_control_block.c.                                     *)
(***************************************************************************)
EXTENDS Integers, Sequences, SequencesExt

DLIST_INIT(l, e) == [l EXCEPT !.next[e] = e, !.prev[e] = e]

DLIST_EMPTY(l, e) == l.next[e] = l.prev[e] /\ l.next[e] = e

\* Its assertion is what callers see to: the new entry is on no list.
dlist_insert(l, new, p, n) ==
  LET m == [l EXCEPT !.next[new] = n, !.prev[new] = p]
  IN  [m EXCEPT !.next[p] = new, !.prev[n] = new]

dlist_attach_new_head(l, new, first) == dlist_insert(l, new, l.prev[first], first)

dlist_push_head(l, h, new) == dlist_insert(l, new, h, l.next[h])

dlist_add_tail(l, h, new) == dlist_insert(l, new, l.prev[h], h)

\* Mutant: the entry keeps its links.
UnlinkedAsIs(l, e) ==
  LET m == [l EXCEPT !.prev[l.next[e]] = l.prev[e]]
  IN  [m EXCEPT !.next[m.prev[e]] = m.next[e]]

\* The neighbours of an entry are linked to each other, and it to itself.
Unlinked(l, e) ==
  LET m == [l EXCEPT !.prev[l.next[e]] = l.prev[e]]
  IN  DLIST_INIT([m EXCEPT !.next[m.prev[e]] = m.next[e]], e)

dlist_remove_entry(l, e) == Unlinked(l, e)

\* Of a list that is not empty: the links without the entry, and the entry.
dlist_pop_head(l, h) == [links |-> Unlinked(l, l.next[h]), entry |-> l.next[h]]

dlist_pop_tail(l, h) == [links |-> Unlinked(l, l.prev[h]), entry |-> l.prev[h]]

\* What wakeup_all does to the ring: the anchor leaves it, another joins it.
Detached(l, anchor, new) ==
  LET first == l.next[anchor]
      m == [l EXCEPT !.prev[first] = l.prev[anchor]]
      n == [m EXCEPT !.next[m.prev[anchor]] = m.next[anchor]]
  IN  dlist_attach_new_head(DLIST_INIT(DLIST_INIT(n, anchor), new), new, first)

\* FOR_EACH_CONTAINER: the entries from h on, until h comes round again; no
\* list is longer than most.
Traversed(l, h, most) ==
  LET at[i \in 1..most + 1] == IF i = 1 THEN l.next[h] ELSE l.next[at[i - 1]]
      n == CHOOSE i \in 1..most + 1 : at[i] = h /\ \A j \in 1..i - 1 : at[j] # h
  IN  [i \in 1..n - 1 |-> at[i]]

----------------------------------------------------------------------------
(* Lists, and the rings they are. *)

\* Bound: this many entries, two anchors, and the one that wakeup_all has.
Most == 4

Entries == 1..Most

Anchor == 0

Other == -1

Private == -2

All == Entries \cup {Anchor, Other, Private}

Ring(h, s, n) == LET i == n % (Len(s) + 1) IN IF i = 0 THEN h ELSE s[i]

\* Two lists with no entry in common, every other entry alone.
Lists == {s \in SeqOf(Entries, Most) : IsInjective(s)}

LinksOf(at) ==
  LET place(e) == {x \in (DOMAIN at) \X (0..Most) : x[2] <= Len(at[x[1]]) /\ Ring(x[1], at[x[1]], x[2]) = e}
      turn(e, by) == IF place(e) = {} THEN e
                     ELSE LET x == CHOOSE x \in place(e) : TRUE
                          IN  Ring(x[1], at[x[1]], x[2] + by + Len(at[x[1]]) + 1)
  IN  [next |-> [e \in All |-> turn(e, 1)], prev |-> [e \in All |-> turn(e, -1)]]

\* The operations on the list of the first anchor.
Operates(at) ==
  LET l == LinksOf(at)
      s == at[Anchor]
      become(t) == LinksOf([at EXCEPT ![Anchor] = t])
      alone == {e \in Entries : DLIST_EMPTY(l, e)}
  IN  /\ DLIST_EMPTY(l, Anchor) <=> s = <<>>
      /\ alone = Entries \ (Range(at[Anchor]) \cup Range(at[Other]))
      /\ Traversed(l, Anchor, Most) = s
      /\ \A e \in alone : /\ dlist_push_head(l, Anchor, e) = become(<<e>> \o s)
                          /\ dlist_add_tail(l, Anchor, e) = become(Append(s, e))
      /\ \A i \in DOMAIN s : dlist_remove_entry(l, s[i]) = become(RemoveAt(s, i))
      /\ s # <<>> =>
           /\ dlist_pop_head(l, Anchor) = [links |-> become(Tail(s)), entry |-> Head(s)]
           /\ dlist_pop_tail(l, Anchor) = [links |-> become(Front(s)), entry |-> Last(s)]
           /\ Detached(l, Anchor, Private) =
                LinksOf([h \in {Anchor, Other, Private} |->
                           CASE h = Private -> s [] h = Other -> at[Other] [] OTHER -> <<>>])

\* Whatever two lists there are, an operation on one does to its links what is
\* meant by its name, all that it takes out is left alone, as the assertion of
\* the next insertion wants it, and the other list keeps its links; and the
\* list that wakeup_all hands over is the whole list, in the same order, with
\* nothing left behind (dlink_list.h, wait_control_block.c:246-258).
RingsAgree ==
  \A s, t \in Lists :
    Range(s) \cap Range(t) = {} => Operates([h \in {Anchor, Other} |-> IF h = Anchor THEN s ELSE t])
=============================================================================
