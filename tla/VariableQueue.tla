--------------------------- MODULE VariableQueue ---------------------------
(***************************************************************************)
(* The doubly linked queues of variable_queue.h, link by link: a head and  *)
(* its elements form a ring through their next and prev fields, and the    *)
(* head counts its elements.  One link field (kthread_wait) serves every   *)
(* queue a kernel thread can wait on, so an element put on a second queue  *)
(* takes its neighbours of the first one along.                            *)
(*                                                                         *)
(* The macros tell their own head from an element by its address, and take *)
(* any other address for an element's.  To follow a link into the head of  *)
(* another queue is to read and write memory beside that head: the model   *)
(* records it in the field wild and says no more of what comes after.      *)
(***************************************************************************)
EXTENDS Integers, Sequences

CONSTANTS
  Elems,   \* what can be queued, on one link field
  Heads    \* the queues

ASSUME QueueAssumption == Elems \cap Heads = {}

Nodes == Elems \cup Heads

Queues == [next : [Nodes -> Nodes], prev : [Nodes -> Nodes],
           nr : [Heads -> Nat], wild : BOOLEAN]

\* Q_INIT_HEAD on every head, Q_INIT_ELEM on every element.
QInitial == [next |-> [n \in Nodes |-> n], prev |-> [n \in Nodes |-> n],
             nr |-> [h \in Heads |-> 0], wild |-> FALSE]

QHeadEmpty(q, h) == q.next[h] = h /\ q.prev[h] = h

QElemStandAlone(q, e) == q.next[e] = e /\ q.prev[e] = e

\* Somebody else's head, taken for an element.
Foreign(h, n) == n \in Heads \ {h}

QInsertTail(q, h, e) ==
  LET p == q.prev[h]
  IN  [q EXCEPT !.next = [[@ EXCEPT ![e] = h] EXCEPT ![p] = e],
                !.prev = [[@ EXCEPT ![e] = p] EXCEPT ![h] = e],
                !.nr[h] = @ + 1,
                !.wild = @ \/ Foreign(h, p)]

QInsertFront(q, h, e) ==
  LET n == q.next[h]
  IN  [q EXCEPT !.next = [[@ EXCEPT ![e] = n] EXCEPT ![h] = e],
                !.prev = [[@ EXCEPT ![e] = h] EXCEPT ![n] = e],
                !.nr[h] = @ + 1,
                !.wild = @ \/ Foreign(h, n)]

\* Mutant: the element keeps its links.
QRemoveNotReset(q, h, e) ==
  IF QElemStandAlone(q, e) THEN q
  ELSE LET p == q.prev[e]
           n == q.next[e]
       IN  [q EXCEPT !.next[p] = n, !.prev[n] = p, !.nr[h] = @ - 1]

\* Each neighbour is given what is two links away from it, whether or not the
\* link between is e.  The assertion that the queue is not empty is a panic.
QRemove(q, h, e) ==
  IF QElemStandAlone(q, e) THEN q
  ELSE LET p  == q.prev[e]
           p2 == q.next[p]
           nx == [q.next EXCEPT ![p] = q.next[p2]]
           n  == nx[e]
           n2 == q.prev[n]
           pv == [q.prev EXCEPT ![n] = q.prev[n2]]
       IN  [q EXCEPT !.next = [nx EXCEPT ![e] = e],
                     !.prev = [pv EXCEPT ![e] = e],
                     !.nr[h] = @ - 1,
                     !.wild = \/ @ \/ QHeadEmpty(q, h)
                              \/ Foreign(h, p) \/ p2 \in Heads
                              \/ Foreign(h, n) \/ n2 \in Heads]

\* NULL where there is nothing, and where the field has nobody's address.
Null == "null"

QGetFront(q, h) == IF QHeadEmpty(q, h) THEN Null ELSE q.next[h]

QGetTail(q, h) == IF QHeadEmpty(q, h) THEN Null ELSE q.prev[h]

QGetNext(q, h, e) == IF q.next[e] = h THEN Null ELSE q.next[e]

QGetPrev(q, h, e) == IF q.prev[e] = h THEN Null ELSE q.prev[e]

\* The field beside a head, where an element has its link.
LinkOf(q, n) == IF n \in Heads THEN Null ELSE q.next[n]

\* n rounds of Q_FOREACH and of Q_FOREACH_DEL_SAFE, with a body that removes
\* the elements of gone: the element they stand on, the one that is saved, and
\* what they have seen.
Start(q, h) == [q |-> q, at |-> q.next[h], save |-> LinkOf(q, q.next[h]), seen |-> <<>>]

Body(w, h, gone) ==
  [w EXCEPT !.q = IF w.at \in gone THEN QRemove(@, h, w.at) ELSE @, !.seen = Append(@, w.at)]

QForeach(q, h, gone, n) ==
  LET walk[k \in 0..n] ==
        IF k = 0 THEN Start(q, h)
        ELSE LET w == walk[k - 1]
                 b == Body(w, h, gone)
             IN  IF w.at = h THEN w ELSE [b EXCEPT !.at = LinkOf(b.q, @)]
  IN  walk[n]

\* Mutant: what is saved is read again after the body.
DelSafeLate(w, b) == [b EXCEPT !.at = LinkOf(b.q, @), !.save = LinkOf(b.q, b.at)]

DelSafe(w, b) == [b EXCEPT !.at = w.save, !.save = LinkOf(b.q, w.save)]

QForeachDelSafe(q, h, gone, n) ==
  LET walk[k \in 0..n] ==
        IF k = 0 THEN Start(q, h)
        ELSE LET w == walk[k - 1] IN IF w.at = h THEN w ELSE DelSafe(w, Body(w, h, gone))
  IN  walk[n]

----------------------------------------------------------------------------

\* The i-th stop of the ring of h through the list s: h itself, at both ends.
Stop(h, s, i) == IF i \in 1..Len(s) THEN s[i] ELSE h

\* The queue of h is the list s: the ring read forwards and read backwards.
Represents(q, h, s) ==
  /\ q.nr[h] = Len(s)
  /\ \A i, j \in 1..Len(s) : s[i] = s[j] => i = j
  /\ \A i \in 0..Len(s) : /\ q.next[Stop(h, s, i)] = Stop(h, s, i + 1)
                          /\ q.prev[Stop(h, s, i + 1)] = Stop(h, s, i)
=============================================================================
