----------------------------- MODULE QueueRing -----------------------------
(***************************************************************************)
(* The macros of variable_queue.h as their users mean them: each queue is  *)
(* a list of elements, an element is on one list of a link field at most,  *)
(* and every insertion and removal is that of the list.  The links are in  *)
(* q, the lists they stand for in lists.                                   *)
(***************************************************************************)
EXTENDS VariableQueue

VARIABLES
  q,      \* the links
  lists   \* the list of every head

rvars == <<q, lists>>

RInit ==
  /\ q = QInitial
  /\ lists = [h \in Heads |-> <<>>]

OnList(e, h) == \E i \in 1..Len(lists[h]) : lists[h][i] = e
Alone(e) == \A h \in Heads : ~ OnList(e, h)

\* A list without its i-th member.
Without(s, i) == SubSeq(s, 1, i - 1) \o SubSeq(s, i + 1, Len(s))

InsertTail(h, e) ==
  /\ Alone(e)
  /\ q' = QInsertTail(q, h, e)
  /\ lists' = [lists EXCEPT ![h] = Append(@, e)]

InsertFront(h, e) ==
  /\ Alone(e)
  /\ q' = QInsertFront(q, h, e)
  /\ lists' = [lists EXCEPT ![h] = <<e>> \o @]

Remove(h, i) ==
  /\ q' = QRemove(q, h, lists[h][i])
  /\ lists' = [lists EXCEPT ![h] = Without(@, i)]

\* scheduler_remove of a thread that is on no queue, as in vanish.
RemoveAlone(h, e) ==
  /\ Alone(e)
  /\ q' = QRemove(q, h, e)
  /\ UNCHANGED lists

RNext == \E h \in Heads :
  \/ \E e \in Elems : InsertTail(h, e) \/ InsertFront(h, e) \/ RemoveAlone(h, e)
  \/ \E i \in 1..Len(lists[h]) : Remove(h, i)

RSpec == RInit /\ [][RNext]_rvars

----------------------------------------------------------------------------

\* The shape of the state.
RTypeOK == q \in Queues /\ lists \in [Heads -> Seq(Elems)]

\* The links of every queue are its list, forwards and backwards, the number
\* of elements with them, and no link leads out of its queue
\* (variable_queue.h:132-355): with any number of queues on one link field.
LinksAreLists == ~ q.wild /\ \A h \in Heads : Represents(q, h, lists[h])

\* An element is linked to itself exactly when it is on no queue, which is
\* how a removal of an element that is on none comes to nothing
\* (variable_queue.h:40, 336).
AloneIsStandAlone == \A e \in Elems : Alone(e) <=> QElemStandAlone(q, e)

\* What the users of the macros rely on: queues are lists, and can be asked.
RingsSound == LinksAreLists /\ AloneIsStandAlone

\* What is left of s without the elements of gone.
Left(s, gone) == SelectSeq(s, LAMBDA e : e \notin gone)

\* A walk that saves the next element sees every element once, in order,
\* whichever of them its body removes, and leaves the others; a plain one does
\* when nothing is removed, and never gets on from an element that its body
\* removes, which fault_generic_fatal does to threads that it frees
\* (variable_queue.h:386-396, vmm.c:246, 802, faulthandlers.c:390).
WalksSeeAll ==
  \A h \in Heads :
    LET s == lists[h]
        n == Len(s)
        plain == QForeach(q, h, {}, n + 1)
        first(gone) == CHOOSE i \in 1..n : s[i] \in gone /\ \A j \in 1..i - 1 : s[j] \notin gone
    IN  /\ plain.at = h /\ plain.seen = s
        /\ QGetFront(q, h) = IF n = 0 THEN Null ELSE s[1]
        /\ QGetTail(q, h) = IF n = 0 THEN Null ELSE s[n]
        /\ \A i \in 1..n : /\ QGetNext(q, h, s[i]) = IF i = n THEN Null ELSE s[i + 1]
                           /\ QGetPrev(q, h, s[i]) = IF i = 1 THEN Null ELSE s[i - 1]
        /\ \A gone \in SUBSET {s[i] : i \in 1..n} :
             LET w == QForeachDelSafe(q, h, gone, n + 1)
             IN  /\ w.at = h /\ w.seen = s /\ ~ w.q.wild /\ Represents(w.q, h, Left(s, gone))
                 /\ gone # {} => QForeach(q, h, gone, n + 1).at = s[first(gone)]
=============================================================================
