-------------------------- MODULE SchedulerMinHeap --------------------------
(***************************************************************************)
(* scheduler/src/SchedulerMinHeap.js: the binary heap, kept in an array,   *)
(* behind the scheduler's task and timer queues.  Indexes are those of the *)
(* source: heap[i] is At(heap, i), from 0.                                 *)
(***************************************************************************)
EXTENDS Integers, Sequences

CONSTANTS
  Ids,          \* ids of nodes, numbers; a node popped may be pushed again
  SortIndexes,  \* keys, numbers
  None          \* null

ASSUME HeapAssumption == Ids \subseteq Int /\ SortIndexes \subseteq Int

Node == [sortIndex : SortIndexes, id : Ids]

VARIABLES
  heap,
  popped   \* what the last pop(heap) returned

Elements(h) == {h[i] : i \in DOMAIN h}

At(h, i) == h[i + 1]
Put(h, i, node) == [h EXCEPT ![i + 1] = node]

Compare(a, b) ==
  IF a.sortIndex # b.sortIndex THEN a.sortIndex - b.sortIndex ELSE a.id - b.id

Parent(i) == (i - 1) \div 2

\* heap[i] and heap[j] swap positions
Exchanged(h, i, j) == Put(Put(h, i, At(h, j)), j, At(h, i))

\* A loop keeps the heap and the index of the node it moves.
Positions(n) == [heap : [1..n -> Node], index : 0..(n - 1)]

\* siftUp(heap, node, i), node being heap[i]
SiftUp(h, i) ==
  LET up[s \in Positions(Len(h))] ==
        LET parent == Parent(s.index)
        IN  IF s.index > 0 /\ Compare(At(s.heap, parent), At(s.heap, s.index)) > 0
            THEN up[[heap |-> Exchanged(s.heap, s.index, parent), index |-> parent]]
            ELSE s.heap
  IN  up[[heap |-> h, index |-> i]]

\* The child the loop of siftDown exchanges heap[i] with, 0 for none.
SmallerChild(h, i) ==
  LET left == (i + 1) * 2 - 1
      right == left + 1
      IsBefore(j, k) == j < Len(h) /\ Compare(At(h, j), At(h, k)) < 0
  IN  CASE i >= Len(h) \div 2 -> 0
        [] i < Len(h) \div 2 /\ IsBefore(left, i) ->
             IF IsBefore(right, left) THEN right ELSE left
        [] i < Len(h) \div 2 /\ ~IsBefore(left, i) ->
             IF IsBefore(right, i) THEN right ELSE 0

\* siftDown(heap, node, i), node being heap[i]
SiftDown(h, i) ==
  LET down[s \in Positions(Len(h))] ==
        LET child == SmallerChild(s.heap, s.index)
        IN  IF child # 0
            THEN down[[heap |-> Exchanged(s.heap, s.index, child), index |-> child]]
            ELSE s.heap
  IN  down[[heap |-> h, index |-> i]]

-----------------------------------------------------------------------------
HeapInit == heap = <<>> /\ popped = None

Push(node) ==
  /\ node.id \notin {n.id : n \in Elements(heap)}
  /\ heap' = SiftUp(Append(heap, node), Len(heap))
  /\ UNCHANGED popped

\* Mutant: the last node replaces the first and is not sifted down.
PopWithoutSift ==
  IF heap = <<>>
  THEN popped' = None /\ UNCHANGED heap
  ELSE /\ popped' = At(heap, 0)
       /\ heap' = IF Len(heap) = 1 THEN <<>>
                  ELSE Put(SubSeq(heap, 1, Len(heap) - 1), 0,
                           At(heap, Len(heap) - 1))

Pop ==
  IF heap = <<>>
  THEN popped' = None /\ UNCHANGED heap
  ELSE LET first == At(heap, 0)
           last == At(heap, Len(heap) - 1)
           rest == SubSeq(heap, 1, Len(heap) - 1)
       IN  /\ popped' = first
           /\ heap' = IF last = first THEN rest
                      ELSE SiftDown(Put(rest, 0, last), 0)

HeapNext == (\E node \in Node : Push(node)) \/ Pop

heapVars == <<heap, popped>>
HeapSpec == HeapInit /\ [][HeapNext]_heapVars

-----------------------------------------------------------------------------
\* The heap implements the priority queue the scheduler relies on: pop returns
\* the first node by sortIndex and insertion order, no node is lost or copied.
Queue == INSTANCE PriorityQueue WITH items <- Elements(heap)
HeapImplementsQueue == Queue!Spec
=============================================================================
