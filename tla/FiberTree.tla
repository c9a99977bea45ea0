----------------------------- MODULE FiberTree -----------------------------
(***************************************************************************)
(* Lanes in a tree of double-buffered fibers: an update marks its fiber    *)
(* and the path to the root, a render follows childLanes down, clones and  *)
(* processes what it reaches, bubbles the remaining lanes up and is        *)
(* committed or dropped; a provider whose value changes marks consumers.   *)
(*                                                                         *)
(* The tree is fixed; the state of a component is what it last read of the *)
(* provider and the lanes of its queued updates, handled as updateReducer  *)
(* does (UpdateQueue models the queue itself).  Siblings are begun in any  *)
(* order.                                                                  *)
(***************************************************************************)
EXTENDS Integers, FiniteSets

CONSTANTS
  Position,    \* the positions in the tree, each with its two fibers
  Root,        \* the host root
  Return,      \* the position that fiber.return of the others leads to
  Ancestors,   \* the positions above each
  Lanes,
  Provider,    \* a context provider
  Consumers,   \* function components below it that read its context
  MaxUpdates,  \* bound: updates made in a behaviour
  MaxValues    \* bound: the values 0..MaxValues of the context

\* Ancestors[f] are the positions met by following Return from f to Root.
ASSUME TreeAssumption ==
  /\ Root \in Position
  /\ Ancestors[Root] = {}
  /\ \A f \in Position : Ancestors[f] \subseteq Position \ {f}
  /\ \A f \in Position \ {Root} : /\ Return[f] \in Position
                                /\ Root \in Ancestors[f]
                                /\ Ancestors[f] = Ancestors[Return[f]] \cup {Return[f]}
  /\ \A f \in Position : \A a \in Ancestors[f] :
       Return[f] = a \/ \E c \in Position \ {Root} : Return[c] = a /\ c \in Ancestors[f]

ASSUME BoundsAssumption ==
  /\ Provider \in Position
  /\ Consumers \subseteq {f \in Position : Provider \in Ancestors[f]}
  /\ MaxUpdates \in Nat
  /\ MaxValues \in Nat

VARIABLES
  current,      \* [lanes, childLanes, seen] of the fiber on screen of each position
  alternate,    \* the same of its alternate, work in progress where stage is not "none"
  stage,        \* how far each position is in the render
  newProps,     \* the positions whose new element has other props
  processed,    \* the positions whose update queue the render has processed
  queued,       \* lanes of pending and base updates of each position
  interleaved,  \* lanes of its interleaved updates
  renderLanes,  \* {}: no render in progress
  pendingLanes, \* root.pendingLanes
  updates       \* history: number of updates made

vars == <<current, alternate, stage, newProps, processed, queued, interleaved,
          renderLanes, pendingLanes, updates>>

Children(f) == {c \in Position \ {Root} : Return[c] = f}

FiberRecord == [lanes : SUBSET Lanes, childLanes : SUBSET Lanes, seen : 0..MaxValues]

TypeOK ==
  /\ current \in [Position -> FiberRecord]
  /\ alternate \in [Position -> FiberRecord]
  /\ stage \in [Position -> {"none", "cloned", "begun", "done"}]
  /\ newProps \subseteq Position
  /\ processed \subseteq Position
  /\ queued \in [Position -> SUBSET Lanes]
  /\ interleaved \in [Position -> SUBSET Lanes]
  /\ renderLanes \subseteq Lanes
  /\ pendingLanes \subseteq Lanes
  /\ updates \in 0..MaxUpdates

-----------------------------------------------------------------------------
(* markUpdateLaneFromFiberToRoot *)

MarkedPath(fibers, f, lane) ==
  [g \in Position |->
     IF g = f THEN [fibers[g] EXCEPT !.lanes = @ \cup {lane}]
     ELSE IF g \in Ancestors[f]
          THEN [fibers[g] EXCEPT !.childLanes = @ \cup {lane}]
          ELSE fibers[g]]

\* enqueueConcurrentHookUpdate and scheduleUpdateOnFiber, between two slices
Update(f, lane) ==
  /\ updates < MaxUpdates
  /\ f # Provider
  /\ updates' = updates + 1
  /\ interleaved' = [interleaved EXCEPT ![f] = @ \cup {lane}]
  /\ current' = MarkedPath(current, f, lane)
  /\ alternate' = MarkedPath(alternate, f, lane)
  /\ pendingLanes' = pendingLanes \cup {lane}
  /\ UNCHANGED <<stage, newProps, processed, queued, renderLanes>>

-----------------------------------------------------------------------------
(* prepareFreshStack: a new render, which drops the one in progress, if any. *)
PrepareFreshStack(lanes) ==
  /\ renderLanes' = lanes
  /\ queued' = [f \in Position |-> queued[f] \cup interleaved[f]]
  /\ interleaved' = [f \in Position |-> {}]
  /\ alternate' = [alternate EXCEPT ![Root] = current[Root]]
  /\ stage' = [f \in Position |-> IF f = Root THEN "cloned" ELSE "none"]
  /\ newProps' = {}
  /\ processed' = {}
  /\ UNCHANGED <<current, pendingLanes, updates>>

\* createWorkInProgress of the children of f, from those on screen
CloneChildrenFrom(onScreen, fibers, f) ==
  [g \in Position |-> IF g \in Children(f) THEN onScreen[g] ELSE fibers[g]]

CloneChildren(fibers, f) == CloneChildrenFrom(current, fibers, f)

ChildrenCloned(f) ==
  [g \in Position |-> IF g = f THEN "begun"
                   ELSE IF g \in Children(f) THEN "cloned" ELSE stage[g]]

HasWork(f) == f \in newProps \/ current[f].lanes \cap renderLanes # {}

\* Mutant: the lanes of f itself decide whether its children are looked at.
BailOutByLanes(fibers, f) ==
  IF fibers[f].lanes \cap renderLanes = {}
  THEN /\ alternate' = fibers
       /\ stage' = [stage EXCEPT ![f] = "begun"]
  ELSE /\ alternate' = CloneChildren(fibers, f)
       /\ stage' = ChildrenCloned(f)

\* bailoutOnAlreadyFinishedWork of f, fibers being the alternates
BailOut(fibers, f) ==
  IF fibers[f].childLanes \cap renderLanes = {}
  THEN /\ alternate' = fibers
       /\ stage' = [stage EXCEPT ![f] = "begun"]
  ELSE /\ alternate' = CloneChildren(fibers, f)
       /\ stage' = ChildrenCloned(f)

\* beginWork of a fiber without new props or lanes of this render
BeginEarlyBailOut(f) ==
  /\ stage[f] = "cloned"
  /\ ~HasWork(f)
  /\ BailOut(alternate, f)
  /\ UNCHANGED <<current, newProps, processed, queued, interleaved, renderLanes,
                 pendingLanes, updates>>

\* What a consumer reads is the value of the provider above it in this render.
Read(f) == IF f \in Consumers THEN alternate[Provider].seen ELSE alternate[f].seen

\* Mutant: the lanes of interleaved updates are lost.
ProcessQueueOnly(f) ==
  [alternate EXCEPT ![f].lanes = queued[f] \ renderLanes, ![f].seen = Read(f)]

\* updateReducer: the fiber keeps the lanes of skipped and interleaved updates.
ProcessQueue(f) ==
  [alternate EXCEPT ![f].lanes = (queued[f] \ renderLanes) \cup interleaved[f],
                    ![f].seen = Read(f)]

\* beginWork of a component that renders; the elements in changed have new props.
BeginRender(f, changed) ==
  /\ stage[f] = "cloned"
  /\ f # Provider
  /\ HasWork(f)
  /\ changed \subseteq Children(f)
  /\ alternate' = CloneChildren(ProcessQueue(f), f)
  /\ stage' = ChildrenCloned(f)
  /\ newProps' = newProps \cup changed
  /\ processed' = processed \cup {f}
  /\ UNCHANGED <<current, queued, interleaved, renderLanes, pendingLanes, updates>>

\* beginWork of a component that processes its queue and then bails out
\* (shouldComponentUpdate returned false)
BeginLateBailOut(f) ==
  /\ stage[f] = "cloned"
  /\ f \notin Consumers \cup {Provider}
  /\ HasWork(f)
  /\ BailOut(ProcessQueue(f), f)
  /\ processed' = processed \cup {f}
  /\ UNCHANGED <<current, newProps, queued, interleaved, renderLanes, pendingLanes,
                 updates>>

\* updateContextProvider without another value: it bails out if its children
\* are the same, too.
BeginSameValue(changed) ==
  /\ stage[Provider] = "cloned"
  /\ HasWork(Provider)
  /\ changed \subseteq Children(Provider)
  /\ \/ /\ changed = {}
        /\ BailOut(ProcessQueue(Provider), Provider)
     \/ /\ alternate' = CloneChildren(ProcessQueue(Provider), Provider)
        /\ stage' = ChildrenCloned(Provider)
  /\ newProps' = newProps \cup changed
  /\ processed' = processed \cup {Provider}
  /\ UNCHANGED <<current, queued, interleaved, renderLanes, pendingLanes, updates>>

\* The fibers on the paths from the consumers up to the provider
OnPath ==
  {g \in Position : /\ g = Provider \/ Provider \in Ancestors[g]
                 /\ \E c \in Consumers : g \in Ancestors[c]}

\* Mutant: the paths above the consumers are not marked.
PropagatedToConsumers(fibers) ==
  [g \in Position |->
     [fibers[g] EXCEPT !.lanes = IF g \in Consumers THEN @ \cup renderLanes ELSE @]]

\* propagateContextChange and scheduleContextWorkOnParentPath
Propagated(fibers) ==
  [g \in Position |->
     [fibers[g] EXCEPT
        !.lanes = IF g \in Consumers THEN @ \cup renderLanes ELSE @,
        !.childLanes = IF g \in OnPath THEN @ \cup renderLanes ELSE @]]

\* updateContextProvider with another value: both fibers of each consumer and of
\* the path to it are marked, then the children are reconciled.
BeginNewValue(value, changed) ==
  /\ stage[Provider] = "cloned"
  /\ Provider \in newProps
  /\ value # current[Provider].seen
  /\ changed \subseteq Children(Provider)
  /\ current' = Propagated(current)
  /\ alternate' =
       CloneChildrenFrom(Propagated(current),
                         Propagated([ProcessQueue(Provider) EXCEPT ![Provider].seen = value]),
                         Provider)
  /\ stage' = ChildrenCloned(Provider)
  /\ newProps' = newProps \cup changed
  /\ processed' = processed \cup {Provider}
  /\ UNCHANGED <<queued, interleaved, renderLanes, pendingLanes, updates>>

-----------------------------------------------------------------------------
(* completeWork and commitRoot *)

\* The fiber a finished parent has as its child at this position
InFinishedTree(f) == IF stage[f] = "none" THEN current[f] ELSE alternate[f]

\* bubbleProperties
Bubbled(f) ==
  UNION {InFinishedTree(c).lanes \cup InFinishedTree(c).childLanes : c \in Children(f)}

CompleteWork(f) ==
  /\ stage[f] = "begun"
  /\ \A c \in Children(f) : stage[c] \in {"none", "done"}
  /\ alternate' = [alternate EXCEPT ![f].childLanes = Bubbled(f)]
  /\ stage' = [stage EXCEPT ![f] = "done"]
  /\ UNCHANGED <<current, newProps, processed, queued, interleaved, renderLanes,
                 pendingLanes, updates>>

Commit ==
  /\ stage[Root] = "done"
  /\ current' = [f \in Position |-> InFinishedTree(f)]
  /\ alternate' = [f \in Position |-> IF stage[f] = "none" THEN alternate[f] ELSE current[f]]
  /\ pendingLanes' = alternate[Root].lanes \cup alternate[Root].childLanes
  /\ queued' = [f \in Position |-> IF f \in processed THEN queued[f] \ renderLanes ELSE queued[f]]
  /\ stage' = [f \in Position |-> "none"]
  /\ newProps' = {}
  /\ processed' = {}
  /\ renderLanes' = {}
  /\ UNCHANGED <<interleaved, updates>>

-----------------------------------------------------------------------------
Init ==
  /\ current = [f \in Position |-> [lanes |-> {}, childLanes |-> {}, seen |-> 0]]
  /\ alternate = current
  /\ stage = [f \in Position |-> "none"]
  /\ newProps = {}
  /\ processed = {}
  /\ queued = [f \in Position |-> {}]
  /\ interleaved = [f \in Position |-> {}]
  /\ renderLanes = {}
  /\ pendingLanes = {}
  /\ updates = 0

Begin(f) ==
  \/ BeginEarlyBailOut(f)
  \/ \E changed \in SUBSET Position : BeginRender(f, changed)
  \/ BeginLateBailOut(f)

BeginProvider ==
  \E changed \in SUBSET Position :
    \/ BeginSameValue(changed)
    \/ \E value \in 0..MaxValues : BeginNewValue(value, changed)

Next ==
  \/ \E f \in Position, lane \in Lanes : Update(f, lane)
  \/ \E lanes \in (SUBSET pendingLanes) \ {{}} : PrepareFreshStack(lanes)
  \/ \E f \in Position : Begin(f) \/ CompleteWork(f)
  \/ BeginProvider
  \/ Commit

Spec == Init /\ [][Next]_vars

-----------------------------------------------------------------------------
(* Properties.                                                               *)

\* However renders are interrupted, bail out and commit, every queued update is
\* known all the way up the tree on screen: its fiber has its lane, each fiber
\* above has it in childLanes and the root in pendingLanes.
UpdatesReachRoot ==
  \A f \in Position : \A lane \in queued[f] \cup interleaved[f] :
    /\ lane \in current[f].lanes
    /\ \A a \in Ancestors[f] : lane \in current[a].childLanes
    /\ lane \in pendingLanes

\* A finished render has processed every update of its lanes that was queued
\* before it began, wherever in the tree it is: a batch is shown as a whole.
BatchIsRenderedWhole ==
  stage[Root] = "done" =>
    \A f \in Position : queued[f] \cap renderLanes # {} => f \in processed

\* On screen every consumer shows the value of its provider, also those below
\* components that bailed out.
ConsumersAgree == \A c \in Consumers : current[c].seen = current[Provider].seen
=============================================================================
