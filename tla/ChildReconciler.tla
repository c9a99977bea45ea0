-------------------------- MODULE ChildReconciler --------------------------
(***************************************************************************)
(* The children of one host parent: reconciled by ReactChildFiber against  *)
(* the next elements, then committed by ReactFiberCommitWork to the host   *)
(* nodes, of which only deletions and placements reach the host.           *)
(*                                                                         *)
(* A child is a host node, a text, a portal (whose host nodes live         *)
(* elsewhere) or a group: a fragment or component with children of its own *)
(* that are host nodes of the same parent.  Keys are unique among          *)
(* siblings, as warnOnInvalidKey demands.                                  *)
(***************************************************************************)
EXTENDS Integers, Sequences, FiniteSets, SequencesExt

CONSTANTS
  ChildKeys,
  ChildTypes,   \* "text", "portal", "group" and any number of host types
  ChildInputs   \* what a render may return: [single : BOOLEAN, slots : sequence of elements]

\* An element is [key, type, children].  Hole stands for null, undefined and booleans.
NoKey == "none"
Hole  == [key |-> NoKey, type |-> "hole", children |-> <<>>]

LeafElements == [key : ChildKeys \cup {NoKey}, type : ChildTypes, children : {<<>>}] \cup {Hole}
ChildElements ==
  [key : ChildKeys \cup {NoKey}, type : ChildTypes, children : Seq(LeafElements)] \cup {Hole}

KeysAreUnique(slots) ==
  \A i, j \in DOMAIN slots : i # j /\ slots[i].key = slots[j].key => slots[i].key = NoKey

\* A group has children that are none, the others have none; a text has no key.
ASSUME ChildrenAssumption ==
  /\ NoKey \notin ChildKeys
  /\ "hole" \notin ChildTypes
  /\ ChildInputs \subseteq [single : BOOLEAN, slots : Seq(ChildElements)]
  /\ \A input \in ChildInputs :
       /\ input.single => Len(input.slots) = 1
       /\ KeysAreUnique(input.slots)
       /\ \A i \in DOMAIN input.slots :
            LET element == input.slots[i]
            IN  /\ element.type = "text" => element.key = NoKey
                /\ element.type # "group" => element.children = <<>>
                /\ KeysAreUnique(element.children)
                /\ \A j \in DOMAIN element.children : element.children[j].type # "group"

VARIABLES
  childFibers,  \* the child fibers on screen
  hostNodes,    \* the host parent's child nodes, by instance
  phase,        \* "idle" or "finished"
  finished      \* the rendered children and the deletions of their parent

childrenVars == <<childFibers, hostNodes, phase, finished>>

IsHost(fiber) == fiber.type \notin {"portal", "group"}

\* seq without the members of a set
Without(seq, gone) ==
  LET kept[n \in 0..Len(seq)] ==
        IF n = 0 THEN <<>>
        ELSE IF seq[n] \in gone THEN kept[n - 1] ELSE Append(kept[n - 1], seq[n])
  IN  kept[Len(seq)]

The(S) == CHOOSE x \in S : TRUE

-----------------------------------------------------------------------------
(* Reconciling one list of siblings.                                         *)

\* createChild
Created(element, index, name) ==
  [key |-> element.key, type |-> element.type, index |-> index, instance |-> name,
   reused |-> FALSE, placement |-> FALSE, props |-> element.children,
   children |-> <<>>, deletions |-> <<>>]

\* useFiber
Reused(fiber, element, index) ==
  [fiber EXCEPT !.index = index, !.reused = TRUE, !.placement = FALSE,
                !.props = element.children, !.deletions = <<>>]

\* updateElement, updateTextNode, updatePortal, updateFragment; olds has at most
\* one member, the fiber that matches.
UpdateMatched(olds, element, index, name) ==
  IF \E old \in olds : old.type = element.type
  THEN Reused(The(olds), element, index)
  ELSE Created(element, index, name)

IsMoved(acc, olds, fiber) == fiber.reused /\ The(olds).index < acc.lastPlaced

\* Mutant: a reused child does not move the last placed index forward.
PlaceChildForgetting(acc, olds, fiber, track) ==
  [acc EXCEPT
     !.children = Append(@, [fiber EXCEPT
        !.placement = track /\ (~fiber.reused \/ IsMoved(acc, olds, fiber))])]

PlaceChild(acc, olds, fiber, track) ==
  [acc EXCEPT
     !.children = Append(@, [fiber EXCEPT
        !.placement = track /\ (~fiber.reused \/ IsMoved(acc, olds, fiber))]),
     !.lastPlaced = IF track /\ fiber.reused /\ ~IsMoved(acc, olds, fiber)
                    THEN The(olds).index ELSE @]

\* One turn of the first loop of reconcileChildrenArray.  acc.olds are the old
\* fibers not yet compared, acc.next the next slot.
FirstPass(acc, element, name, track) ==
  LET atHole == acc.olds[1].index > acc.next
      olds == IF atHole THEN {} ELSE {acc.olds[1]}
      key == IF atHole THEN NoKey ELSE acc.olds[1].key
      fiber == UpdateMatched(olds, element, acc.next, name)
  IN  IF acc.stopped \/ acc.olds = <<>> THEN acc
      ELSE IF element = Hole \/ key # element.key THEN [acc EXCEPT !.stopped = TRUE]
      ELSE [PlaceChild(acc, olds, fiber, track) EXCEPT
              !.olds = IF atHole THEN @ ELSE Tail(@),
              !.next = @ + 1,
              !.deletions = IF ~atHole /\ ~fiber.reused THEN Append(@, acc.olds[1]) ELSE @]

\* Mutant: children without a key are matched in any slot.
MatchesAnyIndex(olds, element, index) == {f \in ToSet(olds) : f.key = element.key}

\* The entry of the map of remaining children for a slot: by key, else by index
Matches(olds, element, index) ==
  {f \in ToSet(olds) : f.key = element.key /\ (element.key = NoKey => f.index = index)}

\* One turn of the last loop (and of the loop that creates what is left when no
\* old fiber is)
SecondPass(acc, element, name, track) ==
  LET olds == Matches(acc.olds, element, acc.next)
      fiber == UpdateMatched(olds, element, acc.next, name)
  IN  IF element = Hole THEN [acc EXCEPT !.next = @ + 1]
      ELSE [PlaceChild(acc, olds, fiber, track) EXCEPT
              !.next = @ + 1,
              !.olds = IF fiber.reused THEN Without(@, olds) ELSE @]

\* A slot is dealt with by the first loop, unless that loop has ended or ends at it.
UpdateSlot(acc, element, name, track) ==
  LET first == FirstPass(acc, element, name, track)
  IN  IF first.next > acc.next THEN first ELSE SecondPass(first, element, name, track)

ReconcileChildrenArray(olds, slots, prefix, track) ==
  LET start == [olds |-> olds, next |-> 1, stopped |-> FALSE, lastPlaced |-> 0,
                children |-> <<>>, deletions |-> <<>>]
      done[n \in 0..Len(slots)] ==
        IF n = 0 THEN start
        ELSE UpdateSlot(done[n - 1], slots[n], prefix \o <<n>>, track)
      end == done[Len(slots)]
  IN  [children |-> end.children,
       deletions |-> IF track THEN end.deletions \o end.olds ELSE <<>>]

\* A single element, portal or text, given the at most one old child that matches
ReconcileSingle(olds, match, element, prefix) ==
  LET fiber == UpdateMatched(match, element, 1, prefix \o <<1>>)
  IN  [children |-> <<[fiber EXCEPT !.placement = ~fiber.reused]>>,
       deletions |-> IF fiber.reused THEN Without(olds, match) ELSE olds]

\* reconcileSingleElement, reconcileSinglePortal and placeSingleChild: of the old
\* children the first with the same key is used, if it has the type.
ReconcileSingleElement(olds, element, prefix) ==
  LET same == {f \in ToSet(olds) : f.key = element.key}
  IN  ReconcileSingle(olds, {f \in same : \A g \in same : f.index <= g.index}, element, prefix)

\* reconcileSingleTextNode: only the first old child is looked at.
ReconcileSingleTextNode(olds, element, prefix) ==
  ReconcileSingle(olds, IF olds = <<>> THEN {} ELSE {olds[1]}, element, prefix)

\* reconcileChildFibers
ReconcileChildFibers(olds, input) ==
  CASE ~input.single -> ReconcileChildrenArray(olds, input.slots, <<"new">>, TRUE)
    [] input.single /\ input.slots[1] = Hole -> [children |-> <<>>, deletions |-> olds]
    [] input.single /\ input.slots[1].type = "text" ->
         ReconcileSingleTextNode(olds, input.slots[1], <<"new">>)
    [] OTHER -> ReconcileSingleElement(olds, input.slots[1], <<"new">>)

\* beginWork of a group: mountChildFibers for a new one, which tracks no effects
BeginGroup(fiber) ==
  LET result == ReconcileChildrenArray(fiber.children, fiber.props,
                                       <<"new", fiber.index>>, fiber.reused)
  IN  [fiber EXCEPT !.children = result.children, !.deletions = result.deletions]

RenderChildren(input) ==
  /\ phase = "idle"
  /\ LET result == ReconcileChildFibers(childFibers, input)
     IN  finished' = [children |-> [i \in DOMAIN result.children |->
                        IF result.children[i].type = "group"
                        THEN BeginGroup(result.children[i]) ELSE result.children[i]],
                      deletions |-> result.deletions,
                      input |-> input]
  /\ phase' = "finished"
  /\ UNCHANGED <<childFibers, hostNodes>>

-----------------------------------------------------------------------------
(* commitMutationEffects                                                     *)

\* A child is addressed by <<i>>, a child of a group by <<i, j>>.
ChildAt(children, path) ==
  IF Len(path) = 1 THEN children[path[1]] ELSE children[path[1]].children[path[2]]

Paths(children) ==
  UNION {{<<i>>} \cup {<<i, j>> : j \in DOMAIN children[i].children} : i \in DOMAIN children}

\* The order in which the tree is walked, among paths none of which is above another
Precedes(p, q) == p[1] < q[1] \/ (p[1] = q[1] /\ Len(p) = 2 /\ Len(q) = 2 /\ p[2] < q[2])

\* The host nodes of a child, or below it, that are children of the host parent
HostNodes(fiber) ==
  IF IsHost(fiber) THEN <<fiber.instance>>
  ELSE FlattenSeq([j \in DOMAIN fiber.children |->
         IF IsHost(fiber.children[j]) THEN <<fiber.children[j].instance>> ELSE <<>>])

\* getHostSibling: the next host node after path (and what is below it) that is
\* not to be placed itself, and in no other group that is; <<>> if there is none.
HostSibling(children, path) ==
  LET Stable(p) ==
        /\ ~ChildAt(children, p).placement
        /\ Len(p) = 2 /\ p[1] # path[1] => ~children[p[1]].placement
      found == {p \in Paths(children) :
                  IsHost(ChildAt(children, p)) /\ Precedes(path, p) /\ Stable(p)}
  IN  IF found = {} THEN <<>>
      ELSE ChildAt(children, CHOOSE p \in found : \A q \in found : ~Precedes(q, p)).instance

\* insertBefore of each of nodes, or appendChild if before is <<>>
InsertBefore(host, nodes, before) ==
  LET others == Without(host, ToSet(nodes))
      place == IF before = <<>> THEN Len(others) + 1
               ELSE CHOOSE k \in DOMAIN others : others[k] = before
  IN  SubSeq(others, 1, place - 1) \o nodes \o SubSeq(others, place, Len(others))

\* commitDeletionEffects of each deleted child
CommitDeletions(host, deletions) ==
  Without(host, UNION {ToSet(HostNodes(fiber)) : fiber \in ToSet(deletions)})

\* commitPlacement of the child at path, then its flag is cleared
CommitPlacement(acc, path) ==
  LET fiber == ChildAt(acc.children, path)
  IN  IF ~fiber.placement THEN acc
      ELSE [children |->
              IF Len(path) = 1
              THEN [acc.children EXCEPT ![path[1]].placement = FALSE]
              ELSE [acc.children EXCEPT ![path[1]].children[path[2]].placement = FALSE],
            host |-> InsertBefore(acc.host, HostNodes(fiber), HostSibling(acc.children, path))]

\* commitMutationEffectsOnFiber: deletions, then what is below, then the placement
CommitChild(acc, i) ==
  LET fiber == acc.children[i]
      below[j \in 0..Len(fiber.children)] ==
        IF j = 0 THEN [acc EXCEPT !.host = CommitDeletions(@, fiber.deletions)]
        ELSE CommitPlacement(below[j - 1], <<i, j>>)
  IN  CommitPlacement(below[Len(fiber.children)], <<i>>)

CommitMutationEffects ==
  LET done[i \in 0..Len(finished.children)] ==
        IF i = 0 THEN [children |-> finished.children,
                       host |-> CommitDeletions(hostNodes, finished.deletions)]
        ELSE CommitChild(done[i - 1], i)
  IN  done[Len(finished.children)]

\* Instances matter up to renaming: those on screen are named by their place.
Named(path) == <<"old">> \o path

Renamed(children) ==
  [i \in DOMAIN children |->
     [children[i] EXCEPT
        !.instance = Named(<<i>>), !.reused = FALSE, !.deletions = <<>>, !.props = <<>>,
        !.children = [j \in DOMAIN @ |->
           [@[j] EXCEPT !.instance = Named(<<i, j>>), !.reused = FALSE, !.props = <<>>]]]]

RenamedNodes(nodes, children) ==
  [k \in DOMAIN nodes |->
     LET paths == {p \in Paths(children) : ChildAt(children, p).instance = nodes[k]}
     IN  IF paths = {} THEN nodes[k] ELSE Named(The(paths))]

CommitChildren ==
  /\ phase = "finished"
  /\ LET end == CommitMutationEffects
     IN  /\ childFibers' = Renamed(end.children)
         /\ hostNodes' = RenamedNodes(end.host, end.children)
  /\ phase' = "idle"
  /\ finished' = <<>>

ChildrenInit ==
  /\ childFibers = <<>>
  /\ hostNodes = <<>>
  /\ phase = "idle"
  /\ finished = <<>>

ChildrenNext ==
  \/ \E input \in ChildInputs : RenderChildren(input)
  \/ CommitChildren

ChildrenSpec == ChildrenInit /\ [][ChildrenNext]_childrenVars

-----------------------------------------------------------------------------
(* Properties.                                                               *)

\* After every commit the host parent's nodes are those of the tree, in the order
\* of the elements, though only some were moved: no node is lost, left behind,
\* doubled or out of order, be it inside a group that moved itself.
HostNodesFollowElements ==
  phase = "idle" =>
    hostNodes = FlattenSeq([i \in DOMAIN childFibers |-> HostNodes(childFibers[i])])

SlotsOf(input) == Without(input.slots, {Hole})

\* An element is one of the fiber's key and type, in the same slot if it has no key
\* (a single element without key takes the first old child without one).
Continues(fiber, old, single) ==
  /\ fiber.key = old.key /\ fiber.type = old.type
  /\ fiber.key = NoKey /\ ~single => fiber.index = old.index

\* The state of a component survives exactly as keys promise: each element gives
\* one child, which is the old child it continues if there is one, and a new
\* instance otherwise; no old child is continued twice or both used and deleted.
InstancesFollowKeys ==
  phase = "finished" =>
    LET children == finished.children
        slots == SlotsOf(finished.input)
    IN  /\ Len(children) = Len(slots)
        /\ \A i \in DOMAIN children :
             /\ children[i].type = slots[i].type /\ children[i].key = slots[i].key
             /\ children[i].reused =>
                  \E k \in DOMAIN childFibers :
                    /\ children[i].instance = childFibers[k].instance
                    /\ Continues(children[i], childFibers[k], finished.input.single)
             /\ ~children[i].reused =>
                  ~\E k \in DOMAIN childFibers : Continues(children[i], childFibers[k], FALSE)
        /\ \A k \in DOMAIN childFibers :
             Cardinality({i \in DOMAIN children :
                            children[i].instance = childFibers[k].instance})
             + Cardinality({i \in DOMAIN finished.deletions :
                              finished.deletions[i] = childFibers[k]})
             = 1
=============================================================================
