---------------------------- MODULE PriorityQueue ----------------------------
(***************************************************************************)
(* What a priority queue promises: a set of nodes from which Pop takes the *)
(* first one by <<sortIndex, id>>.  `popped` is what the last Pop returned *)
(* (None when the queue was empty).                                        *)
(***************************************************************************)
EXTENDS Integers

CONSTANTS Node,   \* records with integer fields sortIndex and id
          None

VARIABLES items, popped

First(a, b) ==
  \/ a.sortIndex < b.sortIndex
  \/ a.sortIndex = b.sortIndex /\ a.id <= b.id

Init == items = {} /\ popped = None

Push(n) ==
  /\ n.id \notin {m.id : m \in items}
  /\ items' = items \cup {n}
  /\ UNCHANGED popped

Pop ==
  IF items = {}
  THEN popped' = None /\ UNCHANGED items
  ELSE \E n \in items :
         /\ \A m \in items : First(n, m)
         /\ popped' = n
         /\ items' = items \ {n}

Next == (\E n \in Node : Push(n)) \/ Pop

Spec == Init /\ [][Next]_<<items, popped>>
=============================================================================
