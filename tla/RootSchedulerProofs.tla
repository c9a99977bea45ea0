------------------------- MODULE RootSchedulerProofs -------------------------
(***************************************************************************)
(* Proofs about RootScheduler, for any roots, lanes, faults and bounds.    *)
(*                                                                         *)
(* The invariant has three parts. The roots agree with each other and with *)
(* the work in progress (RootsAgree). Each call on the stack fits the call *)
(* below it (StackInv), which ties the root that a commit works on to what *)
(* its caller rendered. While a call has still to decide what to render,   *)
(* no passive effects are pending (EffectsInv).                            *)
(*                                                                         *)
(* What a step does to the roots is first shown to be one of seven effects *)
(* (RootsStep); RootsAgree and the refinement of UpdateService then follow *)
(* from the effects, with no action in sight.                              *)
(*                                                                         *)
(* That no work of a root is lost stands on all this, in the second half.  *)
(***************************************************************************)
EXTENDS RootScheduler, SequenceTheorems, TLAPS

-----------------------------------------------------------------------------
(* What the operators of FiberLane return, for every set of lanes            *)

\* A set of lanes that is not empty has a lane of the highest priority.  There
\* are 31 lanes: if each had a smaller one, 0 to 6 would be none of them, then
\* 7 to 13, and so on.
LEMMA LeastLane ==
  ASSUME NEW S \in SUBSET (0..30), S # {}
  PROVE  \E l \in S : \A k \in S : l <= k
<1> SUFFICES ASSUME \A l \in S : \E k \in S : k < l PROVE FALSE
  OBVIOUS
<1>1. \A l \in S : l \in 7..30
  BY SMTT(30)
<1>2. \A l \in S : l \in 14..30
  BY <1>1, SMTT(30)
<1>3. \A l \in S : l \in 21..30
  BY <1>2, SMTT(30)
<1>4. \A l \in S : l \in 28..30
  BY <1>3, SMTT(30)
<1>5. PICK l \in S : TRUE
  OBVIOUS
<1> QED BY <1>4, <1>5, SMTT(30)

\* getHighestPriorityLane returns a lane of the set, and none goes before it.
LEMMA HighestPriorityLaneIsLeast ==
  ASSUME NEW S \in SUBSET Lanes, S # {}
  PROVE  /\ HighestPriorityLane(S) \in S
         /\ \A k \in S : HighestPriorityLane(S) <= k
<1>1. \E l \in S : \A k \in S : l <= k
  BY LanesAssumption, LeastLane
<1> QED BY <1>1 DEF HighestPriorityLane

\* getHighestPriorityLanes returns lanes of the set, and none only of none.
LEMMA HighestPriorityLanesAreLanes ==
  ASSUME NEW S \in SUBSET Lanes
  PROVE  /\ HighestPriorityLanes(S) \subseteq S
         /\ S # {} => HighestPriorityLane(S) \in HighestPriorityLanes(S)
<1> QED BY HighestPriorityLaneIsLeast DEF HighestPriorityLanes

LEMMA WorkableLanes ==
  ASSUME NEW root, LaneFields(root)
  PROVE  /\ Workable(root) \subseteq Lanes
         /\ Workable(root) \subseteq root.pendingLanes \cup root.pingedLanes
<1> QED BY DEF Workable, Unblocked, Candidates, Pinged, LaneFields

\* Lanes are only added to a batch because they are pending or entangled.
LEMMA EntanglementsOfLanes ==
  ASSUME NEW root, LaneFields(root), NEW lanes \in SUBSET Lanes
  PROVE  /\ WithEntanglements(root, lanes) \subseteq Lanes
         /\ lanes \subseteq WithEntanglements(root, lanes)
         /\ (\A l \in Lanes : root.entanglements[l] \subseteq TransitionLanes)
              => WithEntanglements(root, lanes) \subseteq lanes \cup TransitionLanes
<1>1. \A l \in Lanes : root.entanglements[l] \subseteq Lanes
  BY DEF LaneFields
<1> HIDE DEF TransitionLanes
<1> QED BY <1>1 DEF WithEntanglements

\* getNextLanes returns lanes that are pending, pinged, entangled, or being
\* rendered already.
THEOREM NextLanesAreLanes ==
  ASSUME NEW root, LaneFields(root), NEW wipLanes \in SUBSET Lanes
  PROVE  /\ GetNextLanes(root, wipLanes) \subseteq Lanes
         /\ (\A l \in Lanes : root.entanglements[l] \subseteq TransitionLanes)
              => GetNextLanes(root, wipLanes)
                   \subseteq root.pendingLanes \cup root.pingedLanes
                               \cup wipLanes \cup TransitionLanes
<1> DEFINE next == HighestPriorityLanes(Workable(root))
           batch == IF InputContinuousLane \in next
                    THEN next \cup (root.pendingLanes \cap {DefaultLane})
                    ELSE next
<1>1. next \in SUBSET Lanes /\ next \subseteq root.pendingLanes \cup root.pingedLanes
  BY WorkableLanes, HighestPriorityLanesAreLanes
<1>2. batch \in SUBSET Lanes /\ batch \subseteq root.pendingLanes \cup root.pingedLanes
  BY <1>1 DEF LaneFields
<1>3. \/ GetNextLanes(root, wipLanes) = wipLanes
      \/ GetNextLanes(root, wipLanes) = WithEntanglements(root, batch)
  BY DEF GetNextLanes
<1> HIDE DEF next, batch
<1> QED BY <1>2, <1>3, EntanglementsOfLanes

\* getNextLanes finds work exactly when a pending lane is not suspended, or a
\* suspended one was pinged.
THEOREM NextLanesFindWork ==
  ASSUME NEW root, LaneFields(root), NEW wipLanes \in SUBSET Lanes
  PROVE  GetNextLanes(root, wipLanes) # {} <=> Workable(root) # {}
<1> DEFINE next == HighestPriorityLanes(Workable(root))
           batch == IF InputContinuousLane \in next
                    THEN next \cup (root.pendingLanes \cap {DefaultLane})
                    ELSE next
<1>1. next \in SUBSET Lanes /\ (next # {} <=> Workable(root) # {})
  BY WorkableLanes, HighestPriorityLanesAreLanes
<1>2. batch \in SUBSET Lanes /\ (batch # {} <=> Workable(root) # {})
  BY <1>1 DEF LaneFields
<1>3. CASE next # {} /\ KeepsWorking(root, wipLanes, next)
  <2>1. wipLanes # {}
    BY <1>3 DEF KeepsWorking
  <2> QED BY <1>1, <1>3, <2>1 DEF GetNextLanes
<1>4. CASE ~(next # {} /\ KeepsWorking(root, wipLanes, next))
  <2>1. GetNextLanes(root, wipLanes) = WithEntanglements(root, batch)
    BY <1>4 DEF GetNextLanes
  <2>2. batch = {} => WithEntanglements(root, batch) = {}
    BY DEF WithEntanglements
  <2> HIDE DEF batch
  <2> QED BY <1>2, <2>1, <2>2, EntanglementsOfLanes
<1> QED BY <1>3, <1>4

-----------------------------------------------------------------------------
(* The inductive invariant                                                   *)

\* The type of a FiberRoot.
RootRecord ==
  [pendingLanes : SUBSET Lanes, suspendedLanes : SUBSET Lanes,
   pingedLanes : SUBSET Lanes, expiredLanes : SUBSET Lanes,
   timedLanes : SUBSET Lanes, entangledLanes : SUBSET Lanes,
   entanglements : [Lanes -> SUBSET Lanes],
   callbackNode : NodeId \cup {NoNode}, callbackPriority : Lanes \cup {NoLane},
   finishedLanes : SUBSET Lanes, timeoutHandle : BOOLEAN,
   updatedLanes : SUBSET Lanes, showsFallback : BOOLEAN, errorLanes : SUBSET Lanes]

\* The sets of lanes of one root agree.  Transitions are apart: entanglement
\* may make a render take some that are not pending.
GoodRoot(x) ==
  /\ x \in RootRecord
  /\ x.timedLanes \cup x.expiredLanes \cup x.entangledLanes \subseteq x.pendingLanes
  /\ x.pingedLanes \subseteq x.suspendedLanes
  /\ x.updatedLanes \subseteq x.pendingLanes
  /\ (x.suspendedLanes \cup x.finishedLanes) \ TransitionLanes \subseteq x.pendingLanes
  /\ \A l \in Lanes : x.entanglements[l] \subseteq TransitionLanes

\* The root differs in what scheduling needs, not in what is rendered and
\* committed.
SameWork(x, y) ==
  /\ x.pendingLanes = y.pendingLanes
  /\ x.finishedLanes = y.finishedLanes
  /\ x.updatedLanes = y.updatedLanes
  /\ x.timeoutHandle = y.timeoutHandle

LEMMA GoodRootHasLaneFields ==
  ASSUME NEW x, GoodRoot(x)
  PROVE  LaneFields(x)
<1> QED BY DEF GoodRoot, RootRecord, LaneFields

LEMMA NewRootIsGood == GoodRoot(NewRoot)
<1> QED BY DEF GoodRoot, RootRecord, NewRoot, NoLane, NoNode

LEMMA MarkRootSuspendedIsGood ==
  ASSUME NEW x, GoodRoot(x), NEW lanes \in SUBSET Lanes,
         lanes \ TransitionLanes \subseteq x.pendingLanes
  PROVE  /\ GoodRoot(MarkRootSuspended(x, lanes))
         /\ SameWork(MarkRootSuspended(x, lanes), x)
<1> QED BY DEF GoodRoot, RootRecord, SameWork, MarkRootSuspended

LEMMA MarkRootPingedIsGood ==
  ASSUME NEW x, GoodRoot(x), NEW lanes
  PROVE  /\ GoodRoot(MarkRootPinged(x, lanes))
         /\ SameWork(MarkRootPinged(x, lanes), x)
<1> QED BY DEF GoodRoot, RootRecord, SameWork, MarkRootPinged

LEMMA MarkStarvedLanesAsExpiredIsGood ==
  ASSUME NEW x, GoodRoot(x), NEW due \in {{}, MayBeDue(x)}
  PROVE  /\ GoodRoot(MarkStarvedLanesAsExpired(x, due))
         /\ SameWork(MarkStarvedLanesAsExpired(x, due), x)
<1> QED BY DEF GoodRoot, RootRecord, SameWork, MarkStarvedLanesAsExpired, MayBeDue

LEMMA MarkRootEntangledIsGood ==
  ASSUME NEW x, GoodRoot(x),
         NEW lanes \in SUBSET (x.pendingLanes \cap TransitionLanes)
  PROVE  /\ GoodRoot(MarkRootEntangled(x, lanes))
         /\ SameWork(MarkRootEntangled(x, lanes), x)
<1> QED BY DEF GoodRoot, RootRecord, SameWork, MarkRootEntangled

LEMMA PrepareFreshStackIsGood ==
  ASSUME NEW x, GoodRoot(x)
  PROVE  LET y == PrepareFreshStack(x)
         IN  /\ GoodRoot(y)
             /\ y.pendingLanes = x.pendingLanes
             /\ y.finishedLanes = {} /\ y.updatedLanes = {} /\ ~y.timeoutHandle
<1> QED BY DEF GoodRoot, RootRecord, PrepareFreshStack

LEMMA UpdatedIsGood ==
  ASSUME NEW r, GoodRoot(roots[r]), NEW lane \in Lanes
  PROVE  LET y == Updated(r, lane)
         IN  /\ GoodRoot(y)
             /\ y.pendingLanes = roots[r].pendingLanes \cup {lane}
             /\ y.updatedLanes = roots[r].updatedLanes \cup {lane}
             /\ y.finishedLanes = roots[r].finishedLanes
             /\ y.timeoutHandle = roots[r].timeoutHandle
<1> DEFINE x == roots[r]
           y == Updated(r, lane)
           z == MarkRootUpdated(x, lane)
<1>1. PICK errors \in SUBSET Lanes :
        y = [z EXCEPT !.updatedLanes = @ \cup {lane}, !.errorLanes = errors]
  <2>1. z.errorLanes \in SUBSET Lanes
    BY DEF GoodRoot, RootRecord, MarkRootUpdated
  <2>2. PICK errors : errors = IF MayCaptureError(r, lane) THEN z.errorLanes \cup {lane}
                               ELSE z.errorLanes
    OBVIOUS
  <2>3. errors \in SUBSET Lanes
    BY <2>1, <2>2
  <2>4. y = [z EXCEPT !.updatedLanes = @ \cup {lane}, !.errorLanes = errors]
    BY <2>2 DEF Updated
  <2> QED BY <2>3, <2>4
<1>2. /\ GoodRoot(z) /\ z.pendingLanes = x.pendingLanes \cup {lane}
      /\ z.updatedLanes = x.updatedLanes
      /\ z.finishedLanes = x.finishedLanes /\ z.timeoutHandle = x.timeoutHandle
  BY DEF GoodRoot, RootRecord, MarkRootUpdated
<1> HIDE DEF y, z
<1>3. y \in RootRecord
  BY <1>1, <1>2 DEF GoodRoot, RootRecord
<1>4. /\ GoodRoot(y) /\ y.pendingLanes = x.pendingLanes \cup {lane}
      /\ y.updatedLanes = x.updatedLanes \cup {lane}
      /\ y.finishedLanes = x.finishedLanes /\ y.timeoutHandle = x.timeoutHandle
  BY <1>1, <1>2, <1>3 DEF GoodRoot, RootRecord
<1> QED BY <1>4 DEF y

LEMMA CommittedIsGood ==
  ASSUME NEW x, GoodRoot(x)
  PROVE  LET y == Committed(x)
         IN  /\ GoodRoot(y)
             /\ y.pendingLanes = (x.pendingLanes \ x.finishedLanes) \cup x.updatedLanes
             /\ y.finishedLanes = {} /\ y.updatedLanes = {}
             /\ y.timeoutHandle = x.timeoutHandle
<1> DEFINE remaining == (x.pendingLanes \ x.finishedLanes) \cup x.updatedLanes
           finished == x.pendingLanes \ remaining
           z == MarkRootFinished(x, remaining)
<1>1. remaining \in SUBSET Lanes
  BY DEF GoodRoot, RootRecord
<1>2. [l \in Lanes |-> IF l \in finished THEN {} ELSE x.entanglements[l]]
        \in [Lanes -> SUBSET Lanes]
  BY DEF GoodRoot, RootRecord
<1>3. /\ z \in RootRecord
      /\ z.pendingLanes = remaining
      /\ z.suspendedLanes = {} /\ z.pingedLanes = {}
      /\ z.expiredLanes = x.expiredLanes \cap remaining
      /\ z.entangledLanes = x.entangledLanes \cap remaining
      /\ z.timedLanes = x.timedLanes \ finished
      /\ z.entanglements = [l \in Lanes |-> IF l \in finished THEN {}
                                            ELSE x.entanglements[l]]
      /\ z.timeoutHandle = x.timeoutHandle
  BY <1>1, <1>2 DEF GoodRoot, RootRecord, MarkRootFinished
<1>4. \A l \in Lanes : z.entanglements[l] \subseteq TransitionLanes
  BY <1>3 DEF GoodRoot
<1>5. z.timedLanes \cup z.expiredLanes \cup z.entangledLanes \subseteq remaining
  BY <1>3 DEF GoodRoot
<1>6. Committed(x) = [z EXCEPT !.callbackNode = NoNode, !.callbackPriority = NoLane,
                              !.finishedLanes = {}, !.updatedLanes = {},
                              !.showsFallback = FALSE,
                              !.errorLanes = z.errorLanes \ (x.finishedLanes \ x.updatedLanes)]
  BY DEF Committed
<1> HIDE DEF z, remaining
<1>7. GoodRoot(Committed(x))
  <2>1. PICK errors : errors = z.errorLanes \ (x.finishedLanes \ x.updatedLanes)
    OBVIOUS
  <2>2. errors \in SUBSET Lanes
    BY <1>3, <2>1 DEF RootRecord
  <2>3. Committed(x) = [z EXCEPT !.callbackNode = NoNode, !.callbackPriority = NoLane,
                                !.finishedLanes = {}, !.updatedLanes = {},
                                !.showsFallback = FALSE, !.errorLanes = errors]
    BY <1>6, <2>1
  <2>4. Committed(x) \in RootRecord
    BY <1>3, <2>2, <2>3, ZenonT(40) DEF RootRecord, NoLane, NoNode
  <2>5. /\ Committed(x).timedLanes = z.timedLanes
        /\ Committed(x).expiredLanes = z.expiredLanes
        /\ Committed(x).entangledLanes = z.entangledLanes
        /\ Committed(x).pendingLanes = remaining /\ Committed(x).pingedLanes = {}
        /\ Committed(x).suspendedLanes = {} /\ Committed(x).updatedLanes = {}
        /\ Committed(x).finishedLanes = {}
        /\ Committed(x).entanglements = z.entanglements
    BY <1>3, <2>3 DEF RootRecord
  <2> QED BY <1>4, <1>5, <2>4, <2>5 DEF GoodRoot
<1> QED BY <1>3, <1>6, <1>7 DEF RootRecord, remaining

-----------------------------------------------------------------------------
\* The type of the work in progress, and of the queues.
WorkRecord ==
  [root : Root \cup {NoRoot}, lanes : SUBSET Lanes,
   exit : {"InProgress", "Suspended", "SuspendedWithDelay", "Errored"},
   interleaved : SUBSET Lanes, pinged : SUBSET Lanes,
   unwinds : BOOLEAN, fallback : BOOLEAN]

QueueTypes ==
  /\ tasks \subseteq [node : NodeId, root : Root]
  /\ syncQueue \in Seq(Root)
  /\ microtasks \in Nat

LEMMA EnsureRootIsScheduledKeeps ==
  ASSUME roots \in [Root -> RootRecord], QueueTypes,
         NEW r \in Root, NEW root, GoodRoot(root), NEW work \in WorkRecord,
         NEW entangled \in SUBSET (root.pendingLanes \cap TransitionLanes),
         EnsureRootIsScheduled(r, root, work, entangled)
  PROVE  /\ \E x : GoodRoot(x) /\ SameWork(x, root) /\ roots' = [roots EXCEPT ![r] = x]
         /\ QueueTypes'
<1>1. PICK due \in {{}, MayBeDue(root)} :
        LET marked == MarkStarvedLanesAsExpired(root, due)
            nextLanes == GetNextLanes(marked, WipLanes(work, r))
            priority == HighestPriorityLane(nextLanes)
            others == {t \in tasks : t.node # root.callbackNode}
            Record(node) ==
              roots' = [roots EXCEPT ![r] =
                          MarkRootEntangled([marked EXCEPT !.callbackNode = node,
                                                           !.callbackPriority = priority],
                                            entangled)]
        IN  \/ Record(NoNode) /\ tasks' = others /\ UNCHANGED <<syncQueue, microtasks>>
            \/ Record(root.callbackNode) /\ UNCHANGED <<tasks, syncQueue, microtasks>>
            \/ /\ Record(NoNode) /\ tasks' = others
               /\ syncQueue' = Append(syncQueue, r) /\ microtasks' = microtasks + 1
            \/ /\ \E node \in NodeId :
                    Record(node) /\ tasks' = others \cup {[node |-> node, root |-> r]}
               /\ UNCHANGED <<syncQueue, microtasks>>
  BY DEF EnsureRootIsScheduled
<1> DEFINE marked == MarkStarvedLanesAsExpired(root, due)
           nextLanes == GetNextLanes(marked, WipLanes(work, r))
           priority == HighestPriorityLane(nextLanes)
           Recorded(node) == [marked EXCEPT !.callbackNode = node,
                                            !.callbackPriority = priority]
<1>2. GoodRoot(marked) /\ SameWork(marked, root)
  BY MarkStarvedLanesAsExpiredIsGood
<1>3. priority \in Lanes \cup {NoLane}
  <2>1. WipLanes(work, r) \in SUBSET Lanes
    BY DEF WipLanes, WorkRecord
  <2>2. nextLanes \in SUBSET Lanes
    BY <1>2, <2>1, GoodRootHasLaneFields, NextLanesAreLanes
  <2> HIDE DEF nextLanes
  <2> QED BY <2>2, HighestPriorityLaneIsLeast DEF HighestPriorityLane
<1> HIDE DEF marked, nextLanes, priority
<1>4. ASSUME NEW node \in NodeId \cup {NoNode}
      PROVE  LET x == MarkRootEntangled(Recorded(node), entangled)
             IN  GoodRoot(x) /\ SameWork(x, root)
  <2>1. GoodRoot(Recorded(node)) /\ SameWork(Recorded(node), marked)
    BY <1>2, <1>3 DEF GoodRoot, RootRecord, SameWork
  <2>2. entangled \in SUBSET (Recorded(node).pendingLanes \cap TransitionLanes)
    BY <1>2, <2>1 DEF SameWork
  <2> HIDE DEF Recorded
  <2> QED BY <1>2, <2>1, <2>2, MarkRootEntangledIsGood DEF SameWork
<1>5. root.callbackNode \in NodeId \cup {NoNode}
  BY DEF GoodRoot, RootRecord
<1>6. \E x : GoodRoot(x) /\ SameWork(x, root) /\ roots' = [roots EXCEPT ![r] = x]
  BY <1>1, <1>4, <1>5 DEF marked, nextLanes, priority
<1>7. QueueTypes'
  <2>1. Append(syncQueue, r) \in Seq(Root)
    BY AppendProperties DEF QueueTypes
  <2>2. {t \in tasks : t.node # root.callbackNode} \subseteq [node : NodeId, root : Root]
    BY DEF QueueTypes
  <2>3. \A node \in NodeId : [node |-> node, root |-> r] \in [node : NodeId, root : Root]
    OBVIOUS
  <2>4. tasks' \subseteq [node : NodeId, root : Root]
    BY <1>1, <2>2, <2>3 DEF QueueTypes
  <2>5. \/ UNCHANGED <<syncQueue, microtasks>>
        \/ syncQueue' = Append(syncQueue, r) /\ microtasks' = microtasks + 1
    BY <1>1
  <2> QED BY <2>1, <2>4, <2>5 DEF QueueTypes
<1> QED BY <1>6, <1>7

-----------------------------------------------------------------------------
(* What a step does to the roots and the work in progress *)

\* The roots agree with each other and with the work in progress.
RootsAgree ==
  /\ roots \in [Root -> RootRecord]
  /\ wip \in WorkRecord
  /\ \A r \in Root :
       /\ GoodRoot(roots[r])
       /\ roots[r].timeoutHandle => roots[r].finishedLanes # {}
       /\ roots[r].finishedLanes # {} => wip.root # r
       /\ WipLanes(wip, r) \ TransitionLanes \subseteq roots[r].pendingLanes

\* The effects a step may have on a root.
KeepsWip == wip'.root = wip.root /\ wip'.lanes = wip.lanes

Reschedules(r) == SameWork(roots'[r], roots[r]) /\ KeepsWip

UpdatesLane(r, lane) ==
  /\ roots'[r].pendingLanes = roots[r].pendingLanes \cup {lane}
  /\ roots'[r].updatedLanes = roots[r].updatedLanes \cup {lane}
  /\ roots'[r].finishedLanes = roots[r].finishedLanes
  /\ roots'[r].timeoutHandle = roots[r].timeoutHandle
  /\ KeepsWip

Begins(r) ==
  /\ roots'[r].pendingLanes = roots[r].pendingLanes
  /\ roots'[r].updatedLanes = {}
  /\ roots'[r].finishedLanes = {}
  /\ ~roots'[r].timeoutHandle
  /\ wip'.root = r
  /\ wip'.lanes \ TransitionLanes \subseteq roots[r].pendingLanes

Finishes(r) ==
  /\ wip.root = r
  /\ wip.lanes # {}
  /\ roots'[r].pendingLanes = roots[r].pendingLanes
  /\ roots'[r].updatedLanes = roots[r].updatedLanes
  /\ roots'[r].finishedLanes = wip.lanes
  /\ wip'.root = NoRoot

Abandons(r) ==
  /\ SameWork(roots'[r], roots[r])
  /\ wip.root = r
  /\ wip'.root = NoRoot

Commits(r) ==
  /\ roots[r].finishedLanes # {}
  /\ roots'[r].pendingLanes =
       (roots[r].pendingLanes \ roots[r].finishedLanes) \cup roots[r].updatedLanes
  /\ roots'[r].updatedLanes = {}
  /\ roots'[r].finishedLanes = {}
  /\ ~roots'[r].timeoutHandle
  /\ KeepsWip

FiresTimer(r) ==
  /\ roots'[r].pendingLanes = roots[r].pendingLanes
  /\ roots'[r].updatedLanes = roots[r].updatedLanes
  /\ roots'[r].finishedLanes = roots[r].finishedLanes
  /\ ~roots'[r].timeoutHandle
  /\ KeepsWip

\* Only root r changes, and its sets of lanes still agree.
Touches(r) == \E x : GoodRoot(x) /\ roots' = [roots EXCEPT ![r] = x]

RootsStep ==
  /\ wip' \in WorkRecord
  /\ \/ UNCHANGED roots /\ KeepsWip
     \/ \E r \in Root :
          /\ Touches(r)
          /\ \/ Reschedules(r)
             \/ \E lane \in Lanes : UpdatesLane(r, lane)
             \/ Begins(r)
             \/ Finishes(r)
             \/ Abandons(r)
             \/ Commits(r)
             \/ FiresTimer(r)

LEMMA RootsStepKeepsRoots ==
  ASSUME RootsAgree, RootsStep
  PROVE  RootsAgree'
<1>1. CASE UNCHANGED roots /\ KeepsWip
  BY <1>1 DEF RootsAgree, RootsStep, KeepsWip, WipLanes
<1>2. ASSUME NEW r \in Root, Touches(r),
             \/ Reschedules(r)
             \/ \E lane \in Lanes : UpdatesLane(r, lane)
             \/ Begins(r)
             \/ Finishes(r)
             \/ Abandons(r)
             \/ Commits(r)
             \/ FiresTimer(r)
      PROVE  RootsAgree'
  <2>1. /\ roots' \in [Root -> RootRecord]
        /\ GoodRoot(roots'[r])
        /\ \A q \in Root \ {r} : roots'[q] = roots[q]
    BY <1>2 DEF Touches, RootsAgree, GoodRoot
  <2>2. wip' \in WorkRecord
    BY DEF RootsStep
  <2>3. NoRoot \notin Root
    BY RootSchedulerAssumption
  <2>4. ASSUME NEW q \in Root
        PROVE  /\ roots'[q].timeoutHandle => roots'[q].finishedLanes # {}
               /\ roots'[q].finishedLanes # {} => wip'.root # q
               /\ WipLanes(wip', q) \ TransitionLanes \subseteq roots'[q].pendingLanes
    <3> HIDE DEF TransitionLanes
    <3>1. CASE Reschedules(r)
      BY <2>1, <3>1 DEF Reschedules, SameWork, KeepsWip, RootsAgree, WipLanes
    <3>2. CASE \E lane \in Lanes : UpdatesLane(r, lane)
      BY <2>1, <3>2 DEF UpdatesLane, KeepsWip, RootsAgree, WipLanes
    <3>3. CASE Begins(r)
      BY <2>1, <3>3 DEF Begins, RootsAgree, WipLanes
    <3>4. CASE Finishes(r)
      BY <2>1, <2>3, <3>4 DEF Finishes, RootsAgree, WipLanes
    <3>5. CASE Abandons(r)
      BY <2>1, <2>3, <3>5 DEF Abandons, SameWork, RootsAgree, WipLanes
    <3>6. CASE Commits(r)
      BY <2>1, <3>6 DEF Commits, KeepsWip, RootsAgree, WipLanes
    <3>7. CASE FiresTimer(r)
      BY <2>1, <3>7 DEF FiresTimer, KeepsWip, RootsAgree, WipLanes
    <3> QED BY <1>2, <3>1, <3>2, <3>3, <3>4, <3>5, <3>6, <3>7
  <2>5. ASSUME NEW q \in Root PROVE GoodRoot(roots'[q])
    BY <2>1 DEF RootsAgree
  <2> QED BY <2>1, <2>2, <2>4, <2>5 DEF RootsAgree
<1> QED BY <1>1, <1>2 DEF RootsStep

\* Each effect is a step of the update service, for every root.
LEMMA RootsStepIsServed ==
  ASSUME RootsAgree, RootsStep
  PROVE  Updates!Next
<1>1. DOMAIN updateStatus' = Root
  BY DEF updateStatus
<1>2. CASE UNCHANGED roots /\ KeepsWip
  BY <1>1, <1>2 DEF KeepsWip, Updates!Next, Updates!Step, updateStatus, WipLanes
<1>3. ASSUME NEW r \in Root, Touches(r),
             \/ Reschedules(r)
             \/ \E lane \in Lanes : UpdatesLane(r, lane)
             \/ Begins(r)
             \/ Finishes(r)
             \/ Abandons(r)
             \/ Commits(r)
             \/ FiresTimer(r),
             NEW q \in Root
      PROVE  Updates!Step(updateStatus[q], updateStatus'[q])
  <2>1. /\ GoodRoot(roots'[r])
        /\ q # r => roots'[q] = roots[q]
    BY <1>3 DEF Touches, RootsAgree
  <2>2. NoRoot \notin Root
    BY RootSchedulerAssumption
  <2>3. CASE q = r
    <3>1. CASE Reschedules(r)
      <4>1. updateStatus'[q] = updateStatus[q]
        BY <2>3, <3>1 DEF Reschedules, SameWork, KeepsWip, updateStatus, WipLanes
      <4> QED BY <4>1 DEF Updates!Step
    <3>2. CASE \E lane \in Lanes : UpdatesLane(r, lane)
      <4>1. PICK lane \in Lanes : UpdatesLane(r, lane)
        BY <3>2
      <4>2. Updates!Update(updateStatus[q], updateStatus'[q], lane)
        BY <2>3, <4>1 DEF UpdatesLane, KeepsWip, updateStatus, WipLanes, Updates!Update
      <4> QED BY <4>2 DEF Updates!Step
    <3>3. CASE Begins(r)
      <4>1. Updates!Begin(updateStatus[q], updateStatus'[q], wip'.lanes)
        BY <2>3, <3>3 DEF Begins, updateStatus, WipLanes, Updates!Begin
      <4>2. wip'.lanes \in SUBSET Lanes
        BY DEF RootsStep, WorkRecord
      <4> QED BY <4>1, <4>2 DEF Updates!Step
    <3>4. CASE Finishes(r)
      <4>1. roots[r].finishedLanes = {}
        BY <3>4 DEF Finishes, RootsAgree
      <4>2. updateStatus'[q] = updateStatus[q]
        BY <2>2, <2>3, <3>4, <4>1 DEF Finishes, updateStatus, WipLanes
      <4> QED BY <4>2 DEF Updates!Step
    <3>5. CASE Abandons(r)
      <4>1. roots[r].finishedLanes = {}
        BY <3>5 DEF Abandons, RootsAgree
      <4>2. Updates!Begin(updateStatus[q], updateStatus'[q], {})
        BY <2>2, <2>3, <3>5, <4>1
           DEF Abandons, SameWork, updateStatus, WipLanes, Updates!Begin
      <4> QED BY <4>2 DEF Updates!Step
    <3>6. CASE Commits(r)
      <4>1. wip.root # r /\ roots[r].updatedLanes \subseteq roots[r].pendingLanes
        BY <3>6 DEF Commits, RootsAgree, GoodRoot
      <4>2. Updates!Commit(updateStatus[q], updateStatus'[q])
        BY <2>3, <3>6, <4>1 DEF Commits, KeepsWip, updateStatus, WipLanes, Updates!Commit
      <4> QED BY <4>2 DEF Updates!Step
    <3>7. CASE FiresTimer(r)
      <4>1. updateStatus'[q] = updateStatus[q]
        BY <2>3, <3>7 DEF FiresTimer, KeepsWip, updateStatus, WipLanes
      <4> QED BY <4>1 DEF Updates!Step
    <3> QED BY <1>3, <3>1, <3>2, <3>3, <3>4, <3>5, <3>6, <3>7
  <2>4. CASE q # r
    <3>1. CASE WipLanes(wip', q) = WipLanes(wip, q)
      <4>1. updateStatus'[q] = updateStatus[q]
        BY <2>1, <2>4, <3>1 DEF updateStatus
      <4> QED BY <4>1 DEF Updates!Step
    <3>2. CASE WipLanes(wip', q) # WipLanes(wip, q)
      <4>1. Begins(r) /\ wip'.root = r /\ wip.root = q
        BY <1>3, <2>2, <2>4, <3>2 DEF Reschedules, UpdatesLane, Begins, Finishes, Abandons,
                                Commits, FiresTimer, KeepsWip, WipLanes
      <4>2. roots[q].finishedLanes = {} /\ WipLanes(wip', q) = {}
        BY <2>4, <4>1 DEF RootsAgree, WipLanes
      <4>3. Updates!Begin(updateStatus[q], updateStatus'[q], {})
        BY <2>1, <2>4, <4>2 DEF updateStatus, Updates!Begin
      <4> QED BY <4>3 DEF Updates!Step
    <3> QED BY <3>1, <3>2
  <2> QED BY <2>3, <2>4
<1> QED BY <1>1, <1>2, <1>3 DEF RootsStep, Updates!Next

-----------------------------------------------------------------------------
(* The stack *)

Workers == {"performConcurrentWorkOnRoot", "performSyncWorkOnRoot"}

\* The type of a call on the stack, and what every call has.
CallRecord ==
  [function : Workers \cup {"commitRoot", "flushPassiveEffects", "flushSyncCallbacks"},
   at : {"start", "rendering", "end", "return", "layout", "passive", "flush"},
   root : Root \cup {NoRoot}, node : NodeId \cup {NoNode},
   task : NodeId \cup {NoNode}, lanes : SUBSET Lanes, sliced : BOOLEAN,
   attempt : {"first", "recovery", "store", "storeRecovery"}, fails : BOOLEAN]

GoodCall(c) ==
  /\ c \in CallRecord
  /\ c.function # "flushSyncCallbacks" => c.root \in Root
  /\ c.function = "performConcurrentWorkOnRoot" => c.task \in NodeId

\* What lies below the last call of the stack.
NoCall == Call("none", NoRoot)

\* Call c may lie on call b: tasks start with an empty stack, a render calls
\* nothing, a commit is called at the end of a render, or by a timer; a commit
\* called by performSyncWorkOnRoot is one of the Sync lane, unless the root was
\* rendered anew meanwhile.
Fits(rts, c, b) ==
  /\ GoodCall(c)
  /\ c.function = "performConcurrentWorkOnRoot" => b.function = "none"
  /\ b.at # "rendering"
  /\ c.function = "commitRoot" =>
       /\ b.function = "none" \/ (b.function \in Workers /\ b.at = "end")
       /\ c.at = "start" => ~rts[c.root].timeoutHandle
       /\ b.function = "performSyncWorkOnRoot" =>
            IF c.at = "start"
            THEN rts[c.root].finishedLanes = {} \/ SyncLane \in rts[c.root].finishedLanes
            ELSE SyncLane \in c.lanes

Below(s, i) == IF i < Len(s) THEN s[i + 1] ELSE NoCall
Top(s) == IF s = <<>> THEN NoCall ELSE s[1]

AllFit(rts, s) ==
  /\ s \in Seq(CallRecord)
  /\ \A i \in 1..Len(s) : Fits(rts, s[i], Below(s, i))

\* A call that has still to decide what to render.
Deciding(c) == c.function \in Workers /\ c.at = "start"
Undecided(s) == \A i \in 1..Len(s) : ~Deciding(s[i])

LEMMA EmptyStackFits ==
  ASSUME NEW rts
  PROVE  AllFit(rts, <<>>) /\ Undecided(<<>>) /\ Top(<<>>) = NoCall
<1>1. <<>> \in Seq(CallRecord) /\ Len(<<>>) = 0
  BY EmptySeq
<1> QED BY <1>1 DEF AllFit, Undecided, Top

LEMMA PushFits ==
  ASSUME NEW rts, NEW s, AllFit(rts, s), NEW c, Fits(rts, c, Top(s))
  PROVE  /\ AllFit(rts, <<c>> \o s)
         /\ <<c>> \o s # <<>>
         /\ Head(<<c>> \o s) = c
         /\ Top(<<c>> \o s) = c
         /\ Tail(<<c>> \o s) = s
         /\ Undecided(s) /\ ~Deciding(c) => Undecided(<<c>> \o s)
<1> DEFINE t == <<c>> \o s
<1>1. <<c>> \in Seq(CallRecord) /\ Len(<<c>>) = 1 /\ <<c>>[1] = c /\ s \in Seq(CallRecord)
  BY DEF Fits, GoodCall, AllFit
<1>2. /\ t \in Seq(CallRecord)
      /\ Len(t) = Len(s) + 1
      /\ \A i \in 1..(Len(s) + 1) : t[i] = IF i <= 1 THEN c ELSE s[i - 1]
  <2> HIDE DEF t
  <2>1. /\ t \in Seq(CallRecord)
        /\ Len(t) = Len(<<c>>) + Len(s)
        /\ \A i \in 1..(Len(<<c>>) + Len(s)) :
             t[i] = IF i <= Len(<<c>>) THEN <<c>>[i] ELSE s[i - Len(<<c>>)]
    BY <1>1, ConcatProperties DEF t
  <2>2. Len(s) \in Nat
    BY <1>1, LenProperties
  <2> QED BY <1>1, <2>1, <2>2
<1> HIDE DEF t
<1>3. Len(s) \in Nat /\ (s = <<>> <=> Len(s) = 0)
  BY <1>1, LenProperties, EmptySeq
<1>4. t # <<>> /\ t[1] = c /\ \A i \in 2..Len(t) : t[i] = s[i - 1] /\ i - 1 \in 1..Len(s)
  BY <1>2, <1>3, EmptySeq
<1>5. Head(t) = c
  BY <1>2, <1>4
<1>6. Tail(t) = s
  <2>1. /\ Tail(t) \in Seq(CallRecord) /\ Len(Tail(t)) = Len(t) - 1
        /\ \A i \in 1..Len(Tail(t)) : Tail(t)[i] = t[i + 1]
    BY <1>2, <1>4, HeadTailProperties
  <2>2. Len(Tail(t)) = Len(s) /\ \A i \in 1..Len(Tail(t)) : Tail(t)[i] = s[i]
    BY <1>2, <1>3, <2>1
  <2> QED BY <1>1, <2>1, <2>2, SeqEqual
<1>7. ASSUME NEW i \in 1..Len(t) PROVE Fits(rts, t[i], Below(t, i))
  <2>1. CASE i = 1
    <3>1. Below(t, 1) = Top(s)
      BY <1>2, <1>3 DEF Below, Top
    <3> QED BY <1>4, <2>1, <3>1
  <2>2. CASE i # 1
    <3>1. t[i] = s[i - 1] /\ i - 1 \in 1..Len(s)
      BY <1>4, <2>2
    <3>2. Below(t, i) = Below(s, i - 1)
      BY <1>2, <1>3, <3>1 DEF Below
    <3> QED BY <3>1, <3>2 DEF AllFit
  <2> QED BY <2>1, <2>2
<1>8. AllFit(rts, t)
  BY <1>2, <1>7 DEF AllFit
<1>9. Undecided(s) /\ ~Deciding(c) => Undecided(t)
  BY <1>4 DEF Undecided
<1>10. Top(t) = c
  BY <1>4 DEF Top
<1> QED BY <1>4, <1>5, <1>6, <1>8, <1>9, <1>10 DEF t

LEMMA PopFits ==
  ASSUME NEW rts, NEW s, AllFit(rts, s), s # <<>>
  PROVE  /\ AllFit(rts, Tail(s))
         /\ Fits(rts, Head(s), Top(Tail(s)))
         /\ Undecided(s) => Undecided(Tail(s)) /\ ~Deciding(Head(s))
         /\ Head(s).function = "performConcurrentWorkOnRoot" => Tail(s) = <<>>
<1>1. s \in Seq(CallRecord)
  BY DEF AllFit
<1>2. /\ Tail(s) \in Seq(CallRecord) /\ Len(Tail(s)) = Len(s) - 1
      /\ \A i \in 1..Len(Tail(s)) : Tail(s)[i] = s[i + 1]
  BY <1>1, HeadTailProperties
<1>3. Len(s) \in Nat \ {0} /\ (Tail(s) = <<>> <=> Len(Tail(s)) = 0)
  BY <1>1, <1>2, EmptySeq
<1>4. Head(s) = s[1]
  BY <1>1
<1>5. ASSUME NEW i \in 1..Len(Tail(s)) PROVE Fits(rts, Tail(s)[i], Below(Tail(s), i))
  <2>1. Tail(s)[i] = s[i + 1] /\ i + 1 \in 1..Len(s)
    BY <1>2, <1>3
  <2>2. Below(Tail(s), i) = Below(s, i + 1)
    BY <1>2, <1>3 DEF Below
  <2> QED BY <2>1, <2>2 DEF AllFit
<1>6. Top(Tail(s)) = Below(s, 1)
  BY <1>2, <1>3 DEF Below, Top
<1>7. Fits(rts, Head(s), Top(Tail(s)))
  BY <1>3, <1>4, <1>6 DEF AllFit
<1>8. Undecided(s) => Undecided(Tail(s)) /\ ~Deciding(Head(s))
  BY <1>2, <1>3, <1>4 DEF Undecided
<1>9. Head(s).function = "performConcurrentWorkOnRoot" => Tail(s) = <<>>
  <2> SUFFICES ASSUME Head(s).function = "performConcurrentWorkOnRoot", Tail(s) # <<>>
               PROVE  FALSE
    OBVIOUS
  <2>1. Top(Tail(s)) = Tail(s)[1] /\ 1 \in 1..Len(Tail(s))
    BY <1>2, <1>3 DEF Top
  <2>2. Top(Tail(s)).function = "none" /\ Top(Tail(s)) \in CallRecord
    BY <1>5, <1>7, <2>1 DEF Fits, GoodCall
  <2> QED BY <2>2 DEF CallRecord, Workers
<1> QED BY <1>2, <1>5, <1>7, <1>8, <1>9 DEF AllFit

LEMMA PushTwo ==
  ASSUME NEW s \in Seq(CallRecord), NEW c \in CallRecord, NEW d \in CallRecord
  PROVE  <<c, d>> \o s = <<c>> \o (<<d>> \o s)
<1>1. /\ <<c>> \in Seq(CallRecord) /\ Len(<<c>>) = 1 /\ <<c>>[1] = c
      /\ <<d>> \in Seq(CallRecord) /\ Len(<<d>>) = 1 /\ <<d>>[1] = d
      /\ <<c, d>> \in Seq(CallRecord) /\ Len(<<c, d>>) = 2
      /\ <<c, d>>[1] = c /\ <<c, d>>[2] = d
  OBVIOUS
<1>2. /\ <<c>> \o <<d>> \in Seq(CallRecord)
      /\ Len(<<c>> \o <<d>>) = 2
      /\ (<<c>> \o <<d>>)[1] = c /\ (<<c>> \o <<d>>)[2] = d
  <2> DEFINE t == <<c>> \o <<d>>
  <2>1. /\ t \in Seq(CallRecord)
        /\ Len(t) = Len(<<c>>) + Len(<<d>>)
        /\ \A i \in 1..(Len(<<c>>) + Len(<<d>>)) :
             t[i] = IF i <= Len(<<c>>) THEN <<c>>[i] ELSE <<d>>[i - Len(<<c>>)]
    BY <1>1, ConcatProperties
  <2> HIDE DEF t
  <2>2. Len(t) = 2 /\ t[1] = c /\ t[2] = d
    BY <1>1, <2>1
  <2> QED BY <2>1, <2>2 DEF t
<1>3. <<c, d>> = <<c>> \o <<d>>
  <2> DEFINE t == <<c>> \o <<d>>
             u == <<c, d>>
  <2>1. t \in Seq(CallRecord) /\ Len(t) = 2 /\ t[1] = c /\ t[2] = d
    BY <1>2
  <2>2. u \in Seq(CallRecord) /\ Len(u) = 2 /\ u[1] = c /\ u[2] = d
    BY <1>1
  <2> HIDE DEF t, u
  <2>3. \A i \in 1..Len(u) : u[i] = t[i]
    BY <2>1, <2>2
  <2>4. u = t
    BY <2>1, <2>2, <2>3, SeqEqual
  <2> QED BY <2>4 DEF t, u
<1> QED BY <1>1, <1>3, ConcatAssociative

\* How the roots may change under the calls that wait.
RootsFrame(old, new) ==
  \A r \in Root :
    /\ new[r].timeoutHandle => old[r].timeoutHandle
    /\ \/ new[r].finishedLanes = old[r].finishedLanes
       \/ new[r].finishedLanes = {}
       \/ SyncLane \in new[r].finishedLanes

LEMMA WaitingCallsFit ==
  ASSUME NEW s, NEW old, NEW new, AllFit(old, s), RootsFrame(old, new)
  PROVE  AllFit(new, s)
<1>1. ASSUME NEW c, NEW b, Fits(old, c, b) PROVE Fits(new, c, b)
  BY <1>1 DEF Fits, GoodCall, RootsFrame
<1> QED BY <1>1 DEF AllFit

-----------------------------------------------------------------------------
(* The inductive invariant *)

\* The types of what the host keeps.
HostTypes ==
  /\ pendingPassive \in Root \cup {NoRoot}
  /\ listeners \subseteq [root : Root, lanes : SUBSET Lanes]
  /\ retries \subseteq Root
  /\ flushTasks \in Nat /\ passiveTasks \in Nat /\ spent \in Nat

\* The call that renders is the innermost one, and renders what wip says.
RenderingIsWip ==
  Rendering => /\ Head(stack).function \in Workers
               /\ wip.root = Head(stack).root
               /\ wip.lanes = Head(stack).lanes
               /\ Head(stack).lanes # {}
               /\ Head(stack).function = "performSyncWorkOnRoot"
                    => SyncLane \in Head(stack).lanes

StackInv == AllFit(roots, stack) /\ RenderingIsWip

\* While a call has still to decide what to render, passive effects are only
\* pending in a commit that is about to flush them.
EffectsInv ==
  \/ pendingPassive = NoRoot
  \/ Undecided(stack)
  \/ Running("commitRoot", "passive") /\ SyncLane \in Head(stack).lanes

PassiveInv == pendingPassive # NoRoot => passiveTasks > 0

IInv ==
  /\ RootsAgree
  /\ QueueTypes
  /\ HostTypes
  /\ StackInv
  /\ EffectsInv
  /\ PassiveInv

\* What every step is shown to do.
Preserves ==
  /\ RootsStep
  /\ QueueTypes'
  /\ HostTypes'
  /\ StackInv'
  /\ EffectsInv'
  /\ PassiveInv'

LEMMA InitInvariant == Init => IInv
<1> SUFFICES ASSUME Init PROVE IInv
  OBVIOUS
<1>1. roots = [r \in Root |-> NewRoot] /\ wip = NoWork
  BY DEF Init
<1>2. \A r \in Root : roots[r] = NewRoot /\ GoodRoot(roots[r])
  BY <1>1, NewRootIsGood
<1>3. wip \in WorkRecord /\ wip.root = NoRoot /\ wip.lanes = {}
  BY <1>1 DEF NoWork, WorkRecord
<1>4. RootsAgree
  BY <1>1, <1>2, <1>3, RootSchedulerAssumption
     DEF RootsAgree, NewRoot, GoodRoot, WipLanes
<1>5. QueueTypes /\ HostTypes /\ PassiveInv /\ EffectsInv
  BY EmptySeq DEF Init, QueueTypes, HostTypes, PassiveInv, EffectsInv
<1>6. StackInv
  BY EmptyStackFits DEF Init, StackInv, RenderingIsWip, Rendering, Idle
<1> QED BY <1>4, <1>5, <1>6 DEF IInv

LEMMA EnsureStep ==
  ASSUME RootsAgree, QueueTypes,
         NEW r \in Root, NEW root, GoodRoot(root), NEW work \in WorkRecord,
         NEW entangled \in SUBSET (root.pendingLanes \cap TransitionLanes),
         EnsureRootIsScheduled(r, root, work, entangled)
  PROVE  /\ Touches(r)
         /\ SameWork(roots'[r], root)
         /\ QueueTypes'
<1>1. roots \in [Root -> RootRecord]
  BY DEF RootsAgree
<1> QED BY <1>1, EnsureRootIsScheduledKeeps DEF Touches

\* Only the end of a render gives a root a finished tree or a timer.
LEMMA RootsFrameOfStep ==
  ASSUME RootsAgree, NEW r \in Root, Touches(r),
         \/ Reschedules(r)
         \/ \E lane \in Lanes : UpdatesLane(r, lane)
         \/ Begins(r)
         \/ Abandons(r)
         \/ Commits(r)
         \/ FiresTimer(r)
  PROVE  RootsFrame(roots, roots')
<1>1. \A q \in Root \ {r} : roots'[q] = roots[q]
  BY DEF Touches, RootsAgree
<1>2. \/ roots'[r].timeoutHandle = roots[r].timeoutHandle
      \/ ~roots'[r].timeoutHandle
  BY DEF Reschedules, SameWork, UpdatesLane, Begins, Abandons, Commits, FiresTimer
<1>3. \/ roots'[r].finishedLanes = roots[r].finishedLanes
      \/ roots'[r].finishedLanes = {}
  BY DEF Reschedules, SameWork, UpdatesLane, Begins, Abandons, Commits, FiresTimer
<1> QED BY <1>1, <1>2, <1>3 DEF RootsFrame

LEMMA RootsFrameRefl == RootsFrame(roots, roots)
<1> QED BY DEF RootsFrame

\* A step that leaves the stack alone.
LEMMA StackStays ==
  ASSUME IInv, UNCHANGED <<stack, pendingPassive>>, RootsFrame(roots, roots'),
         KeepsWip \/ ~Rendering
  PROVE  StackInv' /\ EffectsInv'
<1>1. AllFit(roots', stack')
  BY WaitingCallsFit DEF IInv, StackInv
<1>2. RenderingIsWip'
  BY DEF IInv, StackInv, RenderingIsWip, KeepsWip, Rendering, Idle
<1>3. EffectsInv'
  BY DEF IInv, EffectsInv, Undecided, Deciding, Running, Idle
<1> QED BY <1>1, <1>2, <1>3 DEF StackInv

-----------------------------------------------------------------------------
(* Updates, pings, retries and what happens in a render *)

LEMMA ScheduleUpdateOnFiberStep ==
  ASSUME RootsAgree, QueueTypes, NEW r \in Root, NEW lane \in UpdateLanes,
         ScheduleUpdateOnFiber(r, lane)
  PROVE  /\ RootsStep
         /\ RootsFrame(roots, roots')
         /\ KeepsWip
         /\ QueueTypes'
         /\ spent \in Nat => spent' \in Nat
<1> DEFINE work == IF wip.root = r THEN [wip EXCEPT !.interleaved = @ \cup {lane}]
                                   ELSE wip
           root == IF wip.root = r /\ wip.exit = "SuspendedWithDelay"
                   THEN SuspendLanes(Updated(r, lane), work, wip.lanes)
                   ELSE Updated(r, lane)
<1>1. lane \in Lanes
  BY RootSchedulerAssumption
<1>2. /\ work \in WorkRecord /\ wip' = work
      /\ work.root = wip.root /\ work.lanes = wip.lanes
  BY <1>1 DEF ScheduleUpdateOnFiber, RootsAgree, WorkRecord
<1>3. /\ GoodRoot(Updated(r, lane))
      /\ Updated(r, lane).pendingLanes = roots[r].pendingLanes \cup {lane}
      /\ Updated(r, lane).updatedLanes = roots[r].updatedLanes \cup {lane}
      /\ Updated(r, lane).finishedLanes = roots[r].finishedLanes
      /\ Updated(r, lane).timeoutHandle = roots[r].timeoutHandle
  BY <1>1, UpdatedIsGood DEF RootsAgree
<1>4. GoodRoot(root) /\ SameWork(root, Updated(r, lane))
  <2>1. CASE wip.root = r /\ wip.exit = "SuspendedWithDelay"
    <3>1. wip.lanes \in SUBSET Lanes
          /\ wip.lanes \ TransitionLanes \subseteq Updated(r, lane).pendingLanes
      BY <1>3, <2>1 DEF RootsAgree, WorkRecord, WipLanes
    <3> HIDE DEF work
    <3>2. wip.lanes \ (work.pinged \cup work.interleaved) \in SUBSET Lanes
      BY <3>1
    <3> QED BY <1>3, <2>1, <3>1, <3>2, MarkRootSuspendedIsGood DEF SuspendLanes
  <2>2. CASE ~(wip.root = r /\ wip.exit = "SuspendedWithDelay")
    BY <1>3, <2>2 DEF SameWork
  <2> QED BY <2>1, <2>2
<1>5. PICK queued \in SUBSET (root.pendingLanes \cap TransitionLanes) :
        EnsureRootIsScheduled(r, root, work,
          IF lane \in TransitionLanes THEN queued \cup {lane} ELSE {})
  BY DEF ScheduleUpdateOnFiber
<1> HIDE DEF work, root
<1>6. lane \in root.pendingLanes
  BY <1>3, <1>4 DEF SameWork
<1>7. (IF lane \in TransitionLanes THEN queued \cup {lane} ELSE {})
        \in SUBSET (root.pendingLanes \cap TransitionLanes)
  BY <1>6
<1>8. Touches(r) /\ SameWork(roots'[r], root) /\ QueueTypes'
  BY <1>2, <1>4, <1>5, <1>7, EnsureStep
<1>9. UpdatesLane(r, lane) /\ KeepsWip
  BY <1>2, <1>3, <1>4, <1>8 DEF SameWork, UpdatesLane, KeepsWip
<1>10. RootsFrame(roots, roots')
  BY <1>1, <1>8, <1>9, RootsFrameOfStep
<1>11. RootsStep
  BY <1>1, <1>2, <1>8, <1>9 DEF RootsStep
<1>12. spent \in Nat => spent' \in Nat
  BY DEF ScheduleUpdateOnFiber, Spend
<1> QED BY <1>8, <1>9, <1>10, <1>11, <1>12

LEMMA EffectUpdateStep ==
  ASSUME IInv, NEW r \in Root, NEW lane \in UpdateLanes,
         ScheduleUpdateOnFiber(r, lane),
         UNCHANGED <<stack, pendingPassive, flushTasks, passiveTasks, listeners, retries>>
  PROVE  Preserves
<1>1. /\ RootsStep /\ RootsFrame(roots, roots') /\ KeepsWip /\ QueueTypes'
      /\ spent' \in Nat
  BY ScheduleUpdateOnFiberStep DEF IInv, HostTypes
<1>2. StackInv' /\ EffectsInv'
  BY <1>1, StackStays
<1>3. HostTypes' /\ PassiveInv'
  BY <1>1 DEF IInv, HostTypes, PassiveInv
<1> QED BY <1>1, <1>2, <1>3 DEF Preserves

LEMMA TouchStep ==
  ASSUME RootsAgree, NEW r \in Root, Touches(r), wip' \in WorkRecord,
         \/ Reschedules(r)
         \/ \E lane \in Lanes : UpdatesLane(r, lane)
         \/ Begins(r)
         \/ Abandons(r)
         \/ Commits(r)
         \/ FiresTimer(r)
  PROVE  RootsStep /\ RootsFrame(roots, roots')
<1>1. RootsFrame(roots, roots')
  BY RootsFrameOfStep
<1> QED BY <1>1 DEF RootsStep

LEMMA PingSuspendedRootStep ==
  ASSUME IInv, NEW l \in listeners, PingSuspendedRoot(l)
  PROVE  Preserves
<1> DEFINE r == l.root
           root == MarkRootPinged(roots[r], l.lanes)
<1>1. r \in Root /\ l.lanes \in SUBSET Lanes
  BY DEF IInv, HostTypes
<1>2. /\ RootsAgree /\ QueueTypes
      /\ GoodRoot(root) /\ SameWork(root, roots[r])
  BY <1>1, MarkRootPingedIsGood DEF IInv, RootsAgree
<1>3. /\ GoodRoot(PrepareFreshStack(root))
      /\ PrepareFreshStack(root).pendingLanes = roots[r].pendingLanes
      /\ PrepareFreshStack(root).finishedLanes = {}
      /\ PrepareFreshStack(root).updatedLanes = {}
      /\ ~PrepareFreshStack(root).timeoutHandle
  BY <1>2, PrepareFreshStackIsGood DEF SameWork
<1>4. /\ FreshWork(r, {}) \in WorkRecord
      /\ FreshWork(r, {}).root = r
      /\ FreshWork(r, {}).lanes = {}
  BY <1>1 DEF FreshWork, NoWork, WorkRecord
<1>5. wip \in WorkRecord /\ [wip EXCEPT !.pinged = @ \cup l.lanes] \in WorkRecord
  BY <1>1, <1>2 DEF RootsAgree, WorkRecord
<1>6. ~Rendering
  BY DEF PingSuspendedRoot, Rendering
<1> HIDE DEF r, root
<1>7. RootsStep /\ RootsFrame(roots, roots') /\ QueueTypes'
  <2>1. CASE /\ wip' = FreshWork(r, {})
             /\ EnsureRootIsScheduled(r, PrepareFreshStack(root), FreshWork(r, {}), {})
    <3>1. Touches(r) /\ SameWork(roots'[r], PrepareFreshStack(root)) /\ QueueTypes'
      BY <1>1, <1>2, <1>3, <1>4, <2>1, EnsureStep
    <3>2. Begins(r)
      BY <1>3, <1>4, <2>1, <3>1 DEF SameWork, Begins
    <3> QED BY <1>1, <1>2, <1>4, <2>1, <3>1, <3>2, TouchStep
  <2>2. CASE /\ wip' = wip \/ wip' = [wip EXCEPT !.pinged = @ \cup l.lanes]
             /\ EnsureRootIsScheduled(r, root, wip, {})
    <3>1. Touches(r) /\ SameWork(roots'[r], root) /\ QueueTypes'
      BY <1>1, <1>2, <1>5, <2>2, EnsureStep
    <3>2. Reschedules(r)
      BY <1>2, <1>5, <2>2, <3>1 DEF SameWork, Reschedules, KeepsWip, WorkRecord
    <3> QED BY <1>1, <1>2, <1>5, <2>2, <3>1, <3>2, TouchStep
  <2> QED BY <2>1, <2>2 DEF PingSuspendedRoot, r, root
<1>8. UNCHANGED <<stack, pendingPassive>>
  BY DEF PingSuspendedRoot
<1>9. StackInv' /\ EffectsInv'
  BY <1>6, <1>7, <1>8, StackStays
<1>10. HostTypes' /\ PassiveInv'
  BY DEF IInv, HostTypes, PassiveInv, PingSuspendedRoot
<1> QED BY <1>7, <1>9, <1>10 DEF Preserves

LEMMA RetryTimedOutBoundaryStep ==
  ASSUME IInv, NEW r \in Root, NEW lane \in Lanes, RetryTimedOutBoundary(r, lane)
  PROVE  Preserves
<1>1. RootsAgree /\ QueueTypes /\ wip \in WorkRecord
  BY DEF IInv, RootsAgree
<1>2. Touches(r) /\ SameWork(roots'[r], Updated(r, lane)) /\ QueueTypes'
  BY <1>1, UpdatedIsGood, EnsureStep DEF RootsAgree, RetryTimedOutBoundary
<1>3. UNCHANGED <<wip, stack, pendingPassive>>
  BY DEF RetryTimedOutBoundary
<1>4. UpdatesLane(r, lane)
  BY <1>1, <1>2, <1>3, UpdatedIsGood DEF RootsAgree, SameWork, UpdatesLane, KeepsWip
<1>5. RootsStep /\ RootsFrame(roots, roots')
  BY <1>1, <1>2, <1>3, <1>4, TouchStep
<1>6. StackInv' /\ EffectsInv'
  BY <1>3, <1>5, StackStays DEF KeepsWip
<1>7. HostTypes' /\ PassiveInv'
  BY DEF IInv, HostTypes, PassiveInv, RetryTimedOutBoundary
<1> QED BY <1>2, <1>5, <1>6, <1>7 DEF Preserves

LEMMA RenderPhaseUpdateStep ==
  ASSUME IInv, NEW r \in Root, RenderPhaseUpdate(r)
  PROVE  Preserves
<1> DEFINE lane == HighestPriorityLane(wip.lanes)
<1>1. RootsAgree /\ QueueTypes /\ wip \in WorkRecord /\ wip.lanes \in SUBSET Lanes
  BY DEF IInv, RootsAgree, WorkRecord
<1>2. lane \in Lanes
  <2>1. wip.lanes # {}
    BY DEF RenderPhaseUpdate, IInv, StackInv, RenderingIsWip
  <2> QED BY <1>1, <2>1, HighestPriorityLaneIsLeast
<1>3. UNCHANGED <<wip, stack, pendingPassive>>
  BY DEF RenderPhaseUpdate
<1>4. /\ GoodRoot(Updated(r, lane))
      /\ Updated(r, lane).pendingLanes = roots[r].pendingLanes \cup {lane}
      /\ Updated(r, lane).updatedLanes = roots[r].updatedLanes \cup {lane}
      /\ Updated(r, lane).finishedLanes = roots[r].finishedLanes
      /\ Updated(r, lane).timeoutHandle = roots[r].timeoutHandle
  BY <1>1, <1>2, UpdatedIsGood DEF RootsAgree
<1> HIDE DEF lane
<1>5. Touches(r) /\ SameWork(roots'[r], Updated(r, lane)) /\ QueueTypes'
  <2>1. CASE r = wip.root
    <3>1. roots' = [roots EXCEPT ![r] = Updated(r, lane)] /\ QueueTypes'
      BY <1>1, <2>1 DEF RenderPhaseUpdate, QueueTypes, lane
    <3> QED BY <1>1, <1>4, <3>1 DEF Touches, SameWork, RootsAgree
  <2>2. CASE r # wip.root
    <3>1. EnsureRootIsScheduled(r, Updated(r, lane), wip, {})
      BY <2>2 DEF RenderPhaseUpdate, lane
    <3> QED BY <1>1, <1>4, <3>1, EnsureStep
  <2> QED BY <2>1, <2>2
<1>6. UpdatesLane(r, lane)
  BY <1>3, <1>4, <1>5 DEF SameWork, UpdatesLane, KeepsWip
<1>7. RootsStep /\ RootsFrame(roots, roots')
  BY <1>1, <1>2, <1>3, <1>5, <1>6, TouchStep
<1>8. StackInv' /\ EffectsInv'
  BY <1>3, <1>7, StackStays DEF KeepsWip
<1>9. HostTypes' /\ PassiveInv'
  BY DEF IInv, HostTypes, PassiveInv, RenderPhaseUpdate, Spend
<1> QED BY <1>5, <1>7, <1>8, <1>9 DEF Preserves

LEMMA SuspendStep ==
  ASSUME IInv, NEW delay \in BOOLEAN, NEW unwinds \in BOOLEAN, Suspend(delay, unwinds)
  PROVE  Preserves
<1> DEFINE r == wip.root
<1>1. RootsAgree /\ QueueTypes /\ wip \in WorkRecord /\ wip.lanes \in SUBSET Lanes
  BY DEF IInv, RootsAgree, WorkRecord
<1>2. r \in Root
  <2>1. Rendering /\ stack # <<>> /\ AllFit(roots, stack)
    BY DEF Suspend, IInv, StackInv, Rendering, Idle
  <2>2. GoodCall(Head(stack)) /\ r = Head(stack).root /\ Head(stack).function \in Workers
    BY <2>1, PopFits DEF IInv, StackInv, RenderingIsWip, Fits
  <2> QED BY <2>2 DEF GoodCall, Workers
<1>3. wip' \in WorkRecord /\ KeepsWip
  BY <1>1 DEF Suspend, WorkRecord, KeepsWip
<1>4. UNCHANGED <<stack, pendingPassive, tasks, syncQueue, microtasks>>
  BY DEF Suspend
<1>5. RootsStep /\ RootsFrame(roots, roots')
  <2>1. CASE roots' = [roots EXCEPT ![r] = SuspendLanes(@, wip, wip.lanes)]
    <3> DEFINE x == SuspendLanes(roots[r], wip, wip.lanes)
    <3>1. wip.lanes \ TransitionLanes \subseteq roots[r].pendingLanes
      BY <1>1, <1>2 DEF RootsAgree, WipLanes
    <3>2. GoodRoot(x) /\ SameWork(x, roots[r])
      <4> DEFINE lanes == wip.lanes \ (wip.pinged \cup wip.interleaved)
      <4>1. lanes \in SUBSET Lanes /\ lanes \ TransitionLanes \subseteq roots[r].pendingLanes
        BY <1>1, <3>1
      <4> HIDE DEF lanes
      <4>2. GoodRoot(MarkRootSuspended(roots[r], lanes))
            /\ SameWork(MarkRootSuspended(roots[r], lanes), roots[r])
        BY <1>1, <1>2, <4>1, MarkRootSuspendedIsGood DEF RootsAgree
      <4> QED BY <4>2 DEF SuspendLanes, lanes
    <3> HIDE DEF x
    <3>3. roots' = [roots EXCEPT ![r] = x]
      BY <2>1 DEF x
    <3>4. Touches(r) /\ Reschedules(r)
      BY <1>1, <1>2, <1>3, <3>2, <3>3 DEF Touches, Reschedules, RootsAgree
    <3> QED BY <1>1, <1>2, <1>3, <3>4, TouchStep
  <2>2. CASE UNCHANGED roots
    BY <1>3, <2>2, RootsFrameRefl DEF RootsStep, RootsFrame
  <2> QED BY <2>1, <2>2 DEF Suspend
<1>6. StackInv' /\ EffectsInv'
  BY <1>3, <1>4, <1>5, StackStays
<1>7. QueueTypes' /\ PassiveInv'
  BY <1>1, <1>4 DEF QueueTypes, IInv, PassiveInv, Suspend
<1>8. HostTypes'
  <2>1. listeners' \subseteq [root : Root, lanes : SUBSET Lanes]
    BY <1>1, <1>2 DEF IInv, HostTypes, Suspend, AttachPingListener
  <2> QED BY <2>1 DEF IInv, HostTypes, Suspend, Spend
<1> QED BY <1>5, <1>6, <1>7, <1>8 DEF Preserves

LEMMA ComponentThrowsStep ==
  ASSUME IInv, ComponentThrows
  PROVE  Preserves
<1>1. /\ wip' \in WorkRecord /\ KeepsWip
      /\ UNCHANGED <<roots, stack, pendingPassive>>
  BY DEF ComponentThrows, IInv, RootsAgree, WorkRecord, KeepsWip
<1>2. RootsStep /\ RootsFrame(roots, roots')
  BY <1>1, RootsFrameRefl DEF RootsStep, RootsFrame
<1>3. StackInv' /\ EffectsInv'
  BY <1>1, <1>2, StackStays
<1>4. QueueTypes' /\ HostTypes' /\ PassiveInv'
  BY DEF IInv, QueueTypes, HostTypes, PassiveInv, ComponentThrows, hostVars, Spend
<1> QED BY <1>2, <1>3, <1>4 DEF Preserves

-----------------------------------------------------------------------------
(* Jobs that start calls *)

LEMMA RootsStay ==
  ASSUME RootsAgree, UNCHANGED <<roots, wip>>
  PROVE  RootsStep /\ RootsFrame(roots, roots')
<1> QED BY RootsFrameRefl DEF RootsAgree, RootsStep, KeepsWip, RootsFrame

LEMMA CallIsGood ==
  /\ GoodCall(Call("flushSyncCallbacks", NoRoot))
  /\ \A r \in Root :
       /\ GoodCall(Call("flushPassiveEffects", r))
       /\ GoodCall(Call("commitRoot", r))
       /\ GoodCall(Call("performSyncWorkOnRoot", r))
<1> QED BY DEF GoodCall, Call, CallRecord, Workers, NoNode

LEMMA StackBecomes ==
  ASSUME AllFit(roots', stack'), Top(stack').at # "rendering",
         pendingPassive' = NoRoot \/ Undecided(stack')
  PROVE  StackInv' /\ EffectsInv'
<1>1. stack' # <<>> => Head(stack') = Top(stack')
  BY DEF AllFit, Top
<1>2. ~Rendering'
  BY <1>1 DEF Rendering, Idle
<1> QED BY <1>2 DEF StackInv, RenderingIsWip, EffectsInv

\* A stack of one call.
LEMMA SingleCallFits ==
  ASSUME NEW rts, NEW c, Fits(rts, c, NoCall)
  PROVE  AllFit(rts, <<c>>) /\ Top(<<c>>) = c /\ (~Deciding(c) => Undecided(<<c>>))
<1>1. <<c>> \o <<>> = <<c>>
  <2>1. <<c>> \in Seq(CallRecord)
    BY DEF Fits, GoodCall
  <2> QED BY <2>1, ConcatEmptySeq
<1>2. AllFit(rts, <<>>) /\ Undecided(<<>>) /\ Fits(rts, c, Top(<<>>))
  BY EmptyStackFits
<1> DEFINE t == <<c>> \o <<>>
<1>3. AllFit(rts, t) /\ Top(t) = c /\ (~Deciding(c) => Undecided(t))
  BY <1>2, PushFits
<1>4. t = <<c>>
  BY <1>1
<1> HIDE DEF t
<1> QED BY <1>3, <1>4

LEMMA CallFlushSyncCallbacksFits ==
  ASSUME NEW below, AllFit(roots', below), Top(below).at # "rendering",
         CallFlushSyncCallbacks(below)
  PROVE  /\ AllFit(roots', stack')
         /\ Top(stack').at # "rendering"
         /\ Undecided(below) => Undecided(stack')
<1> DEFINE c == Call("flushSyncCallbacks", NoRoot)
<1>1. Fits(roots', c, Top(below)) /\ c.at = "start" /\ ~Deciding(c)
  BY CallIsGood DEF Fits, Call, Deciding, Workers
<1>2. stack' = below \/ stack' = <<c>> \o below
  BY DEF CallFlushSyncCallbacks
<1> HIDE DEF c
<1> DEFINE t == <<c>> \o below
<1>3. /\ AllFit(roots', t) /\ Top(t) = c
      /\ Undecided(below) => Undecided(t)
  BY <1>1, PushFits
<1> HIDE DEF t
<1>4. stack' = below \/ stack' = t
  BY <1>2 DEF t
<1> QED BY <1>1, <1>3, <1>4

LEMMA CallFlushPassiveEffectsFits ==
  ASSUME pendingPassive \in Root \cup {NoRoot},
         NEW rest, AllFit(roots', rest), NEW call, Fits(roots', call, Top(rest)),
         call.at # "rendering", CallFlushPassiveEffects(call, rest)
  PROVE  /\ AllFit(roots', stack')
         /\ Top(stack').at # "rendering"
         /\ pendingPassive' = NoRoot
<1>1. AllFit(roots', <<call>> \o rest) /\ Top(<<call>> \o rest) = call
  BY PushFits
<1>2. CASE pendingPassive = NoRoot
  BY <1>1, <1>2 DEF CallFlushPassiveEffects
<1>3. CASE pendingPassive # NoRoot
  <2> DEFINE c == Call("flushPassiveEffects", pendingPassive)
  <2>1. Fits(roots', c, call) /\ c.at = "start"
    BY <1>3, CallIsGood DEF Fits, Call, Workers
  <2>2. stack' = <<c, call>> \o rest
    BY <1>3 DEF CallFlushPassiveEffects
  <2> HIDE DEF c
  <2>3. stack' = <<c>> \o (<<call>> \o rest)
    BY <2>1, <2>2, PushTwo DEF Fits, GoodCall, AllFit
  <2> QED BY <1>1, <1>3, <2>1, <2>3, PushFits DEF CallFlushPassiveEffects
<1> QED BY <1>2, <1>3

LEMMA FlushJobStep ==
  ASSUME IInv,
         \/ FlushSync
         \/ Microtask
         \/ RunFlushTask
  PROVE  Preserves
<1>1. /\ stack = <<>> /\ CallFlushSyncCallbacks(<<>>)
      /\ UNCHANGED <<roots, wip, pendingPassive>>
  BY DEF FlushSync, Microtask, RunFlushTask, MacrotaskMayRun, Idle
<1>2. RootsStep
  BY <1>1, RootsStay DEF IInv
<1>3. AllFit(roots', stack') /\ Top(stack').at # "rendering" /\ Undecided(stack')
  <2>1. Top(<<>>).at # "rendering"
    BY DEF Top, NoCall, Call
  <2> QED BY <1>1, <2>1, EmptyStackFits, CallFlushSyncCallbacksFits
<1>4. StackInv' /\ EffectsInv'
  BY <1>3, StackBecomes
<1>5. QueueTypes' /\ HostTypes' /\ PassiveInv'
  <2>1. microtasks' \in Nat /\ flushTasks' \in Nat
    BY DEF FlushSync, Microtask, RunFlushTask, IInv, QueueTypes, HostTypes, hostVars
  <2>2. UNCHANGED <<tasks, syncQueue, pendingPassive, listeners, retries, passiveTasks, spent>>
    BY DEF FlushSync, Microtask, RunFlushTask, hostVars
  <2> QED BY <2>1, <2>2 DEF IInv, QueueTypes, HostTypes, PassiveInv
<1> QED BY <1>2, <1>4, <1>5 DEF Preserves

LEMMA RunTaskStep ==
  ASSUME IInv, NEW t \in tasks, RunTask(t)
  PROVE  Preserves
<1> DEFINE call == [Call("performConcurrentWorkOnRoot", t.root) EXCEPT
                      !.node = roots[t.root].callbackNode, !.task = t.node]
<1>1. t.root \in Root /\ t.node \in NodeId
  BY DEF IInv, QueueTypes
<1>2. roots[t.root].callbackNode \in NodeId \cup {NoNode}
  BY <1>1 DEF IInv, RootsAgree, GoodRoot, RootRecord
<1>3. GoodCall(call) /\ call.at = "start" /\ call.function = "performConcurrentWorkOnRoot"
  BY <1>1, <1>2 DEF GoodCall, Call, CallRecord, Workers, NoNode
<1>4. RootsStep
  BY RootsStay DEF RunTask, IInv
<1>5. Fits(roots', call, Top(<<>>))
  BY <1>3 DEF Fits, Top, NoCall, Call
<1>6. CallFlushPassiveEffects(call, <<>>)
  BY DEF RunTask
<1> HIDE DEF call
<1>7. /\ AllFit(roots', stack')
      /\ Top(stack').at # "rendering"
      /\ pendingPassive' = NoRoot
  BY <1>3, <1>5, <1>6, EmptyStackFits, CallFlushPassiveEffectsFits DEF IInv, HostTypes
<1>8. StackInv' /\ EffectsInv'
  BY <1>7, StackBecomes
<1>9. QueueTypes' /\ HostTypes' /\ PassiveInv'
  BY <1>7 DEF RunTask, IInv, QueueTypes, HostTypes, PassiveInv, hostVars
<1> QED BY <1>4, <1>8, <1>9 DEF Preserves

LEMMA RunPassiveTaskStep ==
  ASSUME IInv, RunPassiveTask
  PROVE  Preserves
<1> DEFINE c == Call("flushPassiveEffects", pendingPassive)
<1>1. RootsStep
  BY RootsStay DEF RunPassiveTask, IInv
<1>2. AllFit(roots', stack') /\ Top(stack').at # "rendering"
  <2>1. CASE pendingPassive = NoRoot
    BY <2>1, EmptyStackFits DEF RunPassiveTask, NoCall, Call
  <2>2. CASE pendingPassive # NoRoot
    <3>1. Fits(roots', c, NoCall) /\ c.at = "start"
      BY <2>2, CallIsGood DEF Fits, Call, NoCall, IInv, HostTypes
    <3>2. stack' = <<c>>
      BY <2>2 DEF RunPassiveTask
    <3> HIDE DEF c
    <3> QED BY <3>1, <3>2, SingleCallFits
  <2> QED BY <2>1, <2>2
<1>3. pendingPassive' = NoRoot
  BY DEF RunPassiveTask
<1>4. StackInv' /\ EffectsInv'
  BY <1>2, <1>3, StackBecomes
<1>5. QueueTypes' /\ HostTypes' /\ PassiveInv'
  BY <1>3 DEF RunPassiveTask, IInv, QueueTypes, HostTypes, PassiveInv
<1> QED BY <1>1, <1>4, <1>5 DEF Preserves

LEMMA RunCommitTimerStep ==
  ASSUME IInv, NEW r \in Root, RunCommitTimer(r)
  PROVE  Preserves
<1> DEFINE x == [roots[r] EXCEPT !.timeoutHandle = FALSE]
           c == Call("commitRoot", r)
<1>1. RootsAgree /\ roots' = [roots EXCEPT ![r] = x] /\ UNCHANGED <<wip, pendingPassive>>
  BY DEF IInv, RunCommitTimer
<1>2. /\ GoodRoot(x) /\ ~x.timeoutHandle
      /\ x.pendingLanes = roots[r].pendingLanes
      /\ x.finishedLanes = roots[r].finishedLanes
      /\ x.updatedLanes = roots[r].updatedLanes
  <2>1. GoodRoot(roots[r])
    BY <1>1 DEF RootsAgree
  <2> QED BY <2>1 DEF GoodRoot, RootRecord
<1> HIDE DEF x
<1>3. roots'[r] = x /\ Touches(r)
  BY <1>1, <1>2 DEF RootsAgree, Touches
<1>4. FiresTimer(r)
  BY <1>1, <1>2, <1>3 DEF FiresTimer, KeepsWip
<1>5. RootsStep
  BY <1>1, <1>3, <1>4, TouchStep DEF RootsAgree
<1>6. Fits(roots', c, NoCall) /\ c.at = "start" /\ ~Deciding(c)
  <2>1. GoodCall(c)
    BY CallIsGood
  <2>2. /\ c.function = "commitRoot" /\ c.at = "start" /\ c.root = r
        /\ NoCall.function = "none" /\ NoCall.at = "start"
    BY DEF Call, NoCall
  <2>3. ~roots'[c.root].timeoutHandle
    BY <1>2, <1>3, <2>2
  <2> HIDE DEF c
  <2>4. Fits(roots', c, NoCall)
    BY <2>1, <2>2, <2>3 DEF Fits
  <2>5. ~Deciding(c)
    BY <2>2 DEF Deciding, Workers
  <2> QED BY <2>2, <2>4, <2>5
<1>7. stack' = <<c>>
  BY DEF RunCommitTimer
<1> HIDE DEF c
<1>8. StackInv' /\ EffectsInv'
  BY <1>6, <1>7, SingleCallFits, StackBecomes
<1>9. QueueTypes' /\ HostTypes' /\ PassiveInv'
  BY DEF RunCommitTimer, IInv, QueueTypes, HostTypes, PassiveInv, hostVars
<1> QED BY <1>5, <1>8, <1>9 DEF Preserves

-----------------------------------------------------------------------------
(* The running call goes on *)

LEMMA RunningCall ==
  ASSUME IInv, stack # <<>>
  PROVE  /\ AllFit(roots, Tail(stack))
         /\ Fits(roots, Head(stack), Top(Tail(stack)))
         /\ GoodCall(Head(stack))
         /\ Top(Tail(stack)).at # "rendering"
         /\ Undecided(stack) => Undecided(Tail(stack)) /\ ~Deciding(Head(stack))
         /\ Head(stack).function = "performConcurrentWorkOnRoot" => Tail(stack) = <<>>
<1>1. AllFit(roots, stack)
  BY DEF IInv, StackInv
<1> QED BY <1>1, PopFits DEF Fits

LEMMA ContinueStep ==
  ASSUME IInv, stack # <<>>, ~Running("commitRoot", "passive"),
         UNCHANGED pendingPassive, RootsFrame(roots, roots'),
         NEW c, Fits(roots', c, Top(Tail(stack))), c.at # "rendering", ~Deciding(c),
         Continue(c)
  PROVE  StackInv' /\ EffectsInv'
<1> DEFINE t == <<c>> \o Tail(stack)
<1>1. AllFit(roots', Tail(stack))
  BY RunningCall, WaitingCallsFit
<1>2. AllFit(roots', t) /\ Top(t) = c /\ (Undecided(Tail(stack)) => Undecided(t))
  BY <1>1, PushFits
<1>3. stack' = t
  BY DEF Continue
<1> HIDE DEF t
<1>4. pendingPassive' = NoRoot \/ Undecided(stack')
  BY <1>2, <1>3, RunningCall DEF IInv, EffectsInv
<1> QED BY <1>2, <1>3, <1>4, StackBecomes

LEMMA ReturnStep ==
  ASSUME IInv, stack # <<>>, ~Running("commitRoot", "passive"),
         UNCHANGED pendingPassive, RootsFrame(roots, roots'), Return
  PROVE  StackInv' /\ EffectsInv'
<1>1. stack' = Tail(stack)
  BY DEF Return
<1>2. AllFit(roots', stack')
  BY <1>1, RunningCall, WaitingCallsFit
<1>3. pendingPassive' = NoRoot \/ Undecided(stack')
  BY <1>1, RunningCall DEF IInv, EffectsInv
<1>4. Top(stack').at # "rendering"
  BY <1>1, RunningCall
<1> QED BY <1>2, <1>3, <1>4, StackBecomes

\* The lanes that are rendered next, transitions apart, are pending.
LEMMA NextLanesArePending ==
  ASSUME RootsAgree, NEW r \in Root, NEW wipLanes \in {{}, WipLanes(wip, r)}
  PROVE  /\ GetNextLanes(roots[r], wipLanes) \in SUBSET Lanes
         /\ GetNextLanes(roots[r], wipLanes) \ TransitionLanes
              \subseteq roots[r].pendingLanes
<1>1. GoodRoot(roots[r]) /\ WipLanes(wip, r) \ TransitionLanes \subseteq roots[r].pendingLanes
  BY DEF RootsAgree
<1>2. wipLanes \in SUBSET Lanes
  BY DEF RootsAgree, WorkRecord, WipLanes
<1>3. /\ GetNextLanes(roots[r], wipLanes) \subseteq Lanes
      /\ GetNextLanes(roots[r], wipLanes)
           \subseteq roots[r].pendingLanes \cup roots[r].pingedLanes
                       \cup wipLanes \cup TransitionLanes
  BY <1>1, <1>2, GoodRootHasLaneFields, NextLanesAreLanes DEF GoodRoot
<1>4. roots[r].pingedLanes \ TransitionLanes \subseteq roots[r].pendingLanes
  BY <1>1 DEF GoodRoot
<1> HIDE DEF TransitionLanes
<1> QED BY <1>1, <1>3, <1>4

LEMMA StartRenderStep ==
  ASSUME IInv, stack # <<>>, pendingPassive = NoRoot, UNCHANGED pendingPassive,
         NEW call, Fits(roots, call, Top(Tail(stack))), call.function \in Workers,
         NEW lanes \in SUBSET Lanes, lanes # {},
         lanes \ TransitionLanes \subseteq roots[call.root].pendingLanes,
         call.function = "performSyncWorkOnRoot" => SyncLane \in lanes,
         StartRender(call, lanes)
  PROVE  RootsStep /\ StackInv' /\ EffectsInv'
<1> DEFINE r == call.root
           c == [call EXCEPT !.at = "rendering", !.lanes = lanes]
<1>1. RootsAgree /\ r \in Root /\ call \in CallRecord /\ GoodCall(call)
  BY DEF IInv, Fits, GoodCall, Workers
<1>2. GoodCall(c) /\ c.at = "rendering" /\ c.lanes = lanes /\ c.root = r
      /\ c.function = call.function
  BY <1>1 DEF GoodCall, CallRecord, Workers
<1>3. Fits(roots', c, Top(Tail(stack)))
  BY <1>2 DEF Fits, Workers
<1>4. stack' = <<c>> \o Tail(stack)
  BY DEF StartRender, Continue
<1> HIDE DEF c
<1>5. RootsStep /\ RootsFrame(roots, roots') /\ wip'.root = r /\ wip'.lanes = lanes
  <2>1. CASE wip.root = r /\ wip.lanes = lanes
    BY <1>1, <2>1, RootsStay DEF StartRender
  <2>2. CASE ~(wip.root = r /\ wip.lanes = lanes)
    <3> DEFINE x == PrepareFreshStack(roots[r])
    <3>1. /\ GoodRoot(x) /\ x.pendingLanes = roots[r].pendingLanes
          /\ x.finishedLanes = {} /\ x.updatedLanes = {} /\ ~x.timeoutHandle
      BY <1>1, PrepareFreshStackIsGood DEF RootsAgree
    <3>2. roots' = [roots EXCEPT ![r] = x] /\ wip' = FreshWork(r, lanes)
      BY <2>2 DEF StartRender
    <3> HIDE DEF x
    <3>3. wip' \in WorkRecord /\ wip'.root = r /\ wip'.lanes = lanes
      BY <1>1, <3>2 DEF FreshWork, NoWork, WorkRecord
    <3>4. Touches(r) /\ roots'[r] = x
      BY <1>1, <3>1, <3>2 DEF Touches, RootsAgree
    <3>5. Begins(r)
      BY <3>1, <3>3, <3>4 DEF Begins
    <3> QED BY <1>1, <3>3, <3>4, <3>5, TouchStep
  <2> QED BY <2>1, <2>2
<1> DEFINE t == <<c>> \o Tail(stack)
<1>6. AllFit(roots', Tail(stack))
  BY <1>5, RunningCall, WaitingCallsFit
<1>7. AllFit(roots', t) /\ Head(t) = c
  BY <1>3, <1>6, PushFits
<1> HIDE DEF t
<1>8. stack' = t
  BY <1>4 DEF t
<1>9. RenderingIsWip'
  BY <1>2, <1>5, <1>7, <1>8 DEF RenderingIsWip, Rendering
<1> QED BY <1>5, <1>7, <1>8, <1>9 DEF StackInv, EffectsInv

\* Effects are not pending in a call that decides what to render.
LEMMA DecidesWithoutEffects ==
  ASSUME IInv, stack # <<>>, Deciding(Head(stack))
  PROVE  pendingPassive = NoRoot
<1>1. ~Undecided(stack)
  BY RunningCall
<1>2. ~Running("commitRoot", "passive")
  BY DEF Running, Deciding, Workers
<1> QED BY <1>1, <1>2 DEF IInv, EffectsInv

LEMMA PerformConcurrentWorkStep ==
  ASSUME IInv, PerformConcurrentWork
  PROVE  Preserves
<1> DEFINE call == Head(stack)
           r == call.root
           lanes == GetNextLanes(roots[r], WipLanes(wip, r))
<1>1. /\ stack # <<>> /\ call.function = "performConcurrentWorkOnRoot"
      /\ call.at = "start" /\ Deciding(call) /\ ~Running("commitRoot", "passive")
  BY DEF PerformConcurrentWork, Running, Idle, Deciding, Workers
<1>2. /\ Fits(roots, call, Top(Tail(stack))) /\ GoodCall(call) /\ r \in Root
  BY <1>1, RunningCall DEF GoodCall
<1>3. pendingPassive = NoRoot /\ UNCHANGED pendingPassive
  BY <1>1, DecidesWithoutEffects DEF PerformConcurrentWork
<1>4. lanes \in SUBSET Lanes /\ lanes \ TransitionLanes \subseteq roots[r].pendingLanes
  BY <1>2, NextLanesArePending DEF IInv
<1>5. RootsStep /\ StackInv' /\ EffectsInv'
  <2>1. CASE Return /\ UNCHANGED <<wip, roots>>
    <3>1. RootsStep /\ RootsFrame(roots, roots')
      BY <2>1, RootsStay DEF IInv
    <3> QED BY <1>1, <1>3, <2>1, <3>1, ReturnStep
  <2>2. ASSUME NEW sliced \in BOOLEAN, lanes # {},
               StartRender([call EXCEPT !.sliced = sliced], lanes)
        PROVE  RootsStep /\ StackInv' /\ EffectsInv'
    <3> DEFINE c == [call EXCEPT !.sliced = sliced]
    <3>1. /\ GoodCall(c) /\ c.function = "performConcurrentWorkOnRoot" /\ c.root = r
      BY <1>1, <1>2 DEF GoodCall, CallRecord
    <3> HIDE DEF call, lanes, c
    <3>2. Fits(roots, c, Top(Tail(stack)))
      BY <1>1, <1>2, <3>1 DEF Fits
    <3>3. StartRender(c, lanes)
      BY <2>2 DEF c
    <3> QED BY <1>1, <1>3, <1>4, <2>2, <3>1, <3>2, <3>3, StartRenderStep DEF Workers
  <2> QED BY <1>3, <2>1, <2>2 DEF PerformConcurrentWork
<1>6. QueueTypes' /\ HostTypes' /\ PassiveInv'
  BY DEF PerformConcurrentWork, IInv, QueueTypes, HostTypes, PassiveInv, hostVars
<1> QED BY <1>5, <1>6 DEF Preserves

LEMMA PerformSyncWorkStep ==
  ASSUME IInv, PerformSyncWork
  PROVE  Preserves
<1> DEFINE call == Head(stack)
           r == call.root
           lanes == GetNextLanes(roots[r], {})
<1>1. /\ stack # <<>> /\ call.function = "performSyncWorkOnRoot"
      /\ call.at = "start" /\ Deciding(call) /\ ~Running("commitRoot", "passive")
  BY DEF PerformSyncWork, Running, Idle, Deciding, Workers
<1>2. /\ Fits(roots, call, Top(Tail(stack))) /\ GoodCall(call) /\ r \in Root
  BY <1>1, RunningCall DEF GoodCall
<1>3. pendingPassive = NoRoot /\ UNCHANGED pendingPassive
  BY <1>1, DecidesWithoutEffects DEF PerformSyncWork
<1>4. lanes \in SUBSET Lanes /\ lanes \ TransitionLanes \subseteq roots[r].pendingLanes
  BY <1>2, NextLanesArePending DEF IInv
<1>5. RootsAgree /\ QueueTypes /\ wip \in WorkRecord /\ GoodRoot(roots[r])
  BY <1>2 DEF IInv, RootsAgree
<1>6. RootsStep /\ StackInv' /\ EffectsInv' /\ QueueTypes'
  <2>1. CASE SyncLane \in lanes
    <3>1. StartRender(call, lanes) /\ UNCHANGED <<tasks, syncQueue, microtasks>>
      BY <2>1 DEF PerformSyncWork
    <3> HIDE DEF call, lanes
    <3> QED BY <1>1, <1>2, <1>3, <1>4, <1>5, <2>1, <3>1, StartRenderStep
            DEF Workers, QueueTypes
  <2>2. CASE SyncLane \notin lanes
    <3>1. Return /\ EnsureRootIsScheduled(r, roots[r], wip, {}) /\ UNCHANGED wip
      BY <2>2 DEF PerformSyncWork
    <3>2. Touches(r) /\ SameWork(roots'[r], roots[r]) /\ QueueTypes'
      BY <1>2, <1>5, <3>1, EnsureStep
    <3>3. RootsStep /\ RootsFrame(roots, roots')
      BY <1>2, <1>5, <3>1, <3>2, TouchStep DEF Reschedules, KeepsWip
    <3> QED BY <1>1, <1>3, <3>1, <3>2, <3>3, ReturnStep
  <2> QED BY <2>1, <2>2
<1>7. HostTypes' /\ PassiveInv'
  BY DEF PerformSyncWork, IInv, HostTypes, PassiveInv
<1> QED BY <1>6, <1>7 DEF Preserves

LEMMA RenderYieldsStep ==
  ASSUME IInv, RenderYields
  PROVE  Preserves
<1> DEFINE c == [Head(stack) EXCEPT !.at = "end"]
<1>1. /\ stack # <<>> /\ Head(stack).at = "rendering" /\ ~Running("commitRoot", "passive")
      /\ UNCHANGED <<roots, wip, pendingPassive>> /\ Continue(c)
  BY DEF RenderYields, Rendering, Running, Idle
<1>2. Fits(roots, Head(stack), Top(Tail(stack))) /\ Head(stack).function \in Workers
  BY <1>1, RunningCall DEF IInv, StackInv, RenderingIsWip, Rendering, Idle
<1>3. GoodCall(c) /\ c.at = "end" /\ c.function = Head(stack).function
  BY <1>2 DEF Fits, GoodCall, CallRecord, Workers
<1> HIDE DEF c
<1>4. Fits(roots', c, Top(Tail(stack))) /\ ~Deciding(c)
  BY <1>2, <1>3 DEF Fits, Workers, Deciding
<1>5. RootsStep /\ RootsFrame(roots, roots')
  BY <1>1, RootsStay DEF IInv
<1>6. StackInv' /\ EffectsInv'
  BY <1>1, <1>3, <1>4, <1>5, ContinueStep
<1>7. QueueTypes' /\ HostTypes' /\ PassiveInv'
  BY DEF RenderYields, IInv, QueueTypes, HostTypes, PassiveInv, hostVars
<1> QED BY <1>5, <1>6, <1>7 DEF Preserves

LEMMA EndConcurrentWorkStep ==
  ASSUME IInv, EndConcurrentWork
  PROVE  Preserves
<1> DEFINE r == Head(stack).root
           c == [Head(stack) EXCEPT !.at = "return"]
<1>1. /\ stack # <<>> /\ Head(stack).function = "performConcurrentWorkOnRoot"
      /\ ~Running("commitRoot", "passive") /\ Continue(c)
      /\ EnsureRootIsScheduled(r, roots[r], wip, {})
      /\ UNCHANGED <<wip, pendingPassive>>
  BY DEF EndConcurrentWork, Running, Idle
<1>2. Fits(roots, Head(stack), Top(Tail(stack))) /\ GoodCall(Head(stack)) /\ r \in Root
  BY <1>1, RunningCall DEF GoodCall
<1>3. RootsAgree /\ QueueTypes /\ wip \in WorkRecord /\ GoodRoot(roots[r])
  BY <1>2 DEF IInv, RootsAgree
<1>4. GoodCall(c) /\ c.at = "return" /\ c.function = "performConcurrentWorkOnRoot"
  BY <1>1, <1>2 DEF GoodCall, CallRecord
<1> HIDE DEF c
<1>5. Fits(roots', c, Top(Tail(stack))) /\ ~Deciding(c)
  BY <1>1, <1>2, <1>4 DEF Fits, Deciding
<1>6. Touches(r) /\ SameWork(roots'[r], roots[r]) /\ QueueTypes'
  BY <1>1, <1>2, <1>3, EnsureStep
<1>7. RootsStep /\ RootsFrame(roots, roots')
  BY <1>1, <1>2, <1>3, <1>6, TouchStep DEF Reschedules, KeepsWip
<1>8. StackInv' /\ EffectsInv'
  BY <1>1, <1>4, <1>5, <1>7, ContinueStep
<1>9. HostTypes' /\ PassiveInv'
  BY DEF EndConcurrentWork, IInv, HostTypes, PassiveInv
<1> QED BY <1>6, <1>7, <1>8, <1>9 DEF Preserves

LEMMA EndSyncWorkStep ==
  ASSUME IInv, EndSyncWork
  PROVE  Preserves
<1> DEFINE r == Head(stack).root
<1>1. /\ stack # <<>> /\ Head(stack).function = "performSyncWorkOnRoot"
      /\ ~Running("commitRoot", "passive") /\ Return
      /\ EnsureRootIsScheduled(r, roots[r], wip, {})
      /\ UNCHANGED <<wip, pendingPassive>>
  BY DEF EndSyncWork, Running, Idle
<1>2. r \in Root
  BY <1>1, RunningCall DEF GoodCall
<1>3. RootsAgree /\ QueueTypes /\ wip \in WorkRecord /\ GoodRoot(roots[r])
  BY <1>2 DEF IInv, RootsAgree
<1>4. Touches(r) /\ SameWork(roots'[r], roots[r]) /\ QueueTypes'
  BY <1>1, <1>2, <1>3, EnsureStep
<1>5. RootsStep /\ RootsFrame(roots, roots')
  BY <1>1, <1>2, <1>3, <1>4, TouchStep DEF Reschedules, KeepsWip
<1>6. StackInv' /\ EffectsInv'
  BY <1>1, <1>5, ReturnStep
<1>7. HostTypes' /\ PassiveInv'
  BY DEF EndSyncWork, IInv, HostTypes, PassiveInv
<1> QED BY <1>4, <1>5, <1>6, <1>7 DEF Preserves

LEMMA ReturnContinuationStep ==
  ASSUME IInv, ReturnContinuation
  PROVE  Preserves
<1>1. /\ stack # <<>> /\ Head(stack).function = "performConcurrentWorkOnRoot"
      /\ ~Running("commitRoot", "passive") /\ Return
      /\ UNCHANGED <<roots, wip, pendingPassive>>
  BY DEF ReturnContinuation, Running, Idle
<1>2. RootsStep /\ RootsFrame(roots, roots')
  BY <1>1, RootsStay DEF IInv
<1>3. StackInv' /\ EffectsInv'
  BY <1>1, <1>2, ReturnStep
<1>4. QueueTypes'
  <2>1. [node |-> Head(stack).task, root |-> Head(stack).root] \in [node : NodeId, root : Root]
    BY <1>1, RunningCall DEF GoodCall
  <2> QED BY <2>1 DEF ReturnContinuation, IInv, QueueTypes, hostVars
<1>5. HostTypes' /\ PassiveInv'
  BY DEF ReturnContinuation, IInv, HostTypes, PassiveInv, hostVars
<1> QED BY <1>2, <1>3, <1>4, <1>5 DEF Preserves

-----------------------------------------------------------------------------
(* The end of a render *)

\* What is known of a render in progress.
LEMMA RenderInProgress ==
  ASSUME IInv, Rendering
  PROVE  LET call == Head(stack)
             r == call.root
         IN  /\ stack # <<>> /\ ~Running("commitRoot", "passive")
             /\ GoodCall(call) /\ call.function \in Workers /\ r \in Root
             /\ wip \in WorkRecord /\ wip.root = r /\ wip.lanes = call.lanes
             /\ call.lanes \in SUBSET Lanes /\ call.lanes # {}
             /\ call.lanes \ TransitionLanes \subseteq roots[r].pendingLanes
             /\ call.function = "performSyncWorkOnRoot" => SyncLane \in call.lanes
             /\ GoodRoot(roots[r])
             /\ roots[r].finishedLanes = {} /\ ~roots[r].timeoutHandle
<1>1. stack # <<>> /\ Head(stack).at = "rendering" /\ ~Running("commitRoot", "passive")
  BY DEF Rendering, Running, Idle
<1>2. /\ Head(stack).function \in Workers
      /\ wip.root = Head(stack).root /\ wip.lanes = Head(stack).lanes
      /\ Head(stack).lanes # {}
      /\ Head(stack).function = "performSyncWorkOnRoot" => SyncLane \in Head(stack).lanes
  BY DEF IInv, StackInv, RenderingIsWip
<1>3. GoodCall(Head(stack)) /\ Head(stack).root \in Root
  BY <1>1, <1>2, RunningCall DEF GoodCall, Workers
<1>4. Head(stack).lanes \in SUBSET Lanes
  BY <1>3 DEF GoodCall, CallRecord
<1>5. /\ wip \in WorkRecord /\ GoodRoot(roots[Head(stack).root])
      /\ roots[Head(stack).root].finishedLanes = {}
      /\ ~roots[Head(stack).root].timeoutHandle
      /\ wip.lanes \ TransitionLanes \subseteq roots[Head(stack).root].pendingLanes
  BY <1>2, <1>3 DEF IInv, RootsAgree, WipLanes
<1> QED BY <1>1, <1>2, <1>3, <1>4, <1>5

LEMMA RenderAgainStep ==
  ASSUME IInv, Rendering, UNCHANGED pendingPassive,
         NEW attempt \in {"first", "recovery", "store", "storeRecovery"},
         NEW lanes \in SUBSET Lanes, lanes # {},
         lanes \ TransitionLanes \subseteq roots[Head(stack).root].pendingLanes,
         Head(stack).function = "performSyncWorkOnRoot" => SyncLane \in lanes,
         RenderAgain(attempt, lanes)
  PROVE  RootsStep /\ StackInv' /\ EffectsInv' /\ QueueTypes'
<1> DEFINE r == Head(stack).root
           c == [Head(stack) EXCEPT !.attempt = attempt, !.lanes = lanes, !.sliced = FALSE]
           x == PrepareFreshStack(roots[r])
           t == <<c>> \o Tail(stack)
<1>1. /\ stack # <<>> /\ ~Running("commitRoot", "passive")
      /\ GoodCall(Head(stack)) /\ Head(stack).function \in Workers
      /\ Head(stack).at = "rendering" /\ r \in Root /\ GoodRoot(roots[r])
  BY RenderInProgress DEF Rendering
<1>2. /\ wip' = FreshWork(r, lanes) /\ roots' = [roots EXCEPT ![r] = x] /\ stack' = t
      /\ UNCHANGED <<tasks, syncQueue, microtasks>>
  BY DEF RenderAgain, Continue
<1>3. /\ GoodRoot(x) /\ x.pendingLanes = roots[r].pendingLanes
      /\ x.finishedLanes = {} /\ x.updatedLanes = {} /\ ~x.timeoutHandle
  BY <1>1, PrepareFreshStackIsGood
<1>4. /\ GoodCall(c) /\ c.at = "rendering" /\ c.lanes = lanes /\ c.root = r
      /\ c.function = Head(stack).function
  BY <1>1 DEF GoodCall, CallRecord, Workers
<1>5. Fits(roots, Head(stack), Top(Tail(stack)))
  BY <1>1, RunningCall
<1> HIDE DEF x, c
<1>6. wip' \in WorkRecord /\ wip'.root = r /\ wip'.lanes = lanes
  BY <1>1, <1>2 DEF FreshWork, NoWork, WorkRecord
<1>7. Touches(r) /\ Begins(r)
  <2>1. Touches(r) /\ roots'[r] = x
    BY <1>1, <1>2, <1>3 DEF Touches, IInv, RootsAgree
  <2> QED BY <1>3, <1>6, <2>1 DEF Begins
<1>8. RootsStep /\ RootsFrame(roots, roots')
  BY <1>1, <1>6, <1>7, TouchStep DEF IInv
<1>9. Fits(roots', c, Top(Tail(stack))) /\ ~Deciding(c)
  BY <1>1, <1>4, <1>5 DEF Fits, Workers, Deciding
<1>10. /\ AllFit(roots', t) /\ Head(t) = c
       /\ Undecided(Tail(stack)) => Undecided(t)
  <2>1. AllFit(roots', Tail(stack))
    BY <1>1, <1>8, RunningCall, WaitingCallsFit
  <2> QED BY <1>9, <2>1, PushFits
<1> HIDE DEF t
<1>11. StackInv'
  BY <1>1, <1>2, <1>4, <1>6, <1>10 DEF StackInv, RenderingIsWip
<1>12. EffectsInv'
  BY <1>1, <1>2, <1>10, RunningCall DEF IInv, EffectsInv
<1>13. QueueTypes'
  BY <1>2 DEF IInv, QueueTypes
<1> QED BY <1>8, <1>11, <1>12, <1>13

LEMMA RecoverFromConcurrentErrorStep ==
  ASSUME IInv, Rendering, UNCHANGED pendingPassive, NEW status,
         RecoversFromError(status), RecoverFromConcurrentError
  PROVE  RootsStep /\ StackInv' /\ EffectsInv' /\ QueueTypes'
<1> DEFINE attempt == IF Head(stack).attempt = "first" THEN "recovery" ELSE "storeRecovery"
           r == Head(stack).root
<1>1. RetryLanesOnError = roots[r].pendingLanes \ {OffscreenLane}
  BY DEF RetryLanesOnError, LanesToRetrySynchronouslyOnError
<1>2. /\ RetryLanesOnError \in SUBSET Lanes
      /\ RetryLanesOnError \subseteq roots[r].pendingLanes
  BY <1>1, RenderInProgress DEF GoodRoot, RootRecord
<1>3. RetryLanesOnError # {}
  BY DEF RecoversFromError
<1>4. Head(stack).function = "performSyncWorkOnRoot" => SyncLane \in RetryLanesOnError
  <2>1. Head(stack).lanes \ TransitionLanes \subseteq roots[r].pendingLanes
        /\ (Head(stack).function = "performSyncWorkOnRoot"
              => SyncLane \in Head(stack).lanes)
    BY RenderInProgress
  <2>2. SyncLane \notin TransitionLanes /\ SyncLane # OffscreenLane
    BY DEF SyncLane, TransitionLanes, OffscreenLane
  <2> QED BY <1>1, <2>1, <2>2
<1>5. RenderAgain(attempt, RetryLanesOnError)
  BY DEF RecoverFromConcurrentError
<1>6. attempt \in {"first", "recovery", "store", "storeRecovery"}
  OBVIOUS
<1> HIDE DEF attempt
<1> QED BY <1>2, <1>3, <1>4, <1>5, <1>6, RenderAgainStep

LEMMA ThrowStep ==
  ASSUME HostTypes, NEW done, Throw(done)
  PROVE  stack' = <<>> /\ flushTasks' \in Nat
<1> QED BY DEF Throw, HostTypes

LEMMA EmptiedStack ==
  ASSUME stack' = <<>>
  PROVE  StackInv' /\ EffectsInv'
<1>1. /\ AllFit(roots', stack') /\ Undecided(stack')
      /\ Top(stack').at # "rendering"
  BY EmptyStackFits DEF NoCall, Call
<1> QED BY <1>1, StackBecomes

LEMMA ThrowFatalErrorStep ==
  ASSUME IInv, Rendering, ThrowFatalError
  PROVE  /\ RootsStep /\ StackInv' /\ EffectsInv' /\ QueueTypes'
         /\ flushTasks' \in Nat
<1> DEFINE r == Head(stack).root
           x == PrepareFreshStack(roots[r])
           y == MarkRootSuspended(x, Head(stack).lanes)
           work == FreshWork(r, {})
<1>1. /\ r \in Root /\ GoodRoot(roots[r]) /\ Head(stack).lanes \in SUBSET Lanes
      /\ Head(stack).lanes \ TransitionLanes \subseteq roots[r].pendingLanes
  BY RenderInProgress
<1>2. /\ GoodRoot(x) /\ x.pendingLanes = roots[r].pendingLanes
      /\ x.finishedLanes = {} /\ x.updatedLanes = {} /\ ~x.timeoutHandle
  BY <1>1, PrepareFreshStackIsGood
<1> HIDE DEF x
<1>3. GoodRoot(y) /\ SameWork(y, x)
  BY <1>1, <1>2, MarkRootSuspendedIsGood
<1>4. work \in WorkRecord /\ work.root = r /\ work.lanes = {}
  BY <1>1 DEF FreshWork, NoWork, WorkRecord
<1>5. wip' = work /\ EnsureRootIsScheduled(r, y, work, {})
  BY DEF ThrowFatalError, x
<1> HIDE DEF y, work
<1>6. Touches(r) /\ SameWork(roots'[r], y) /\ QueueTypes'
  BY <1>1, <1>3, <1>4, <1>5, EnsureStep DEF IInv
<1>7. Begins(r)
  BY <1>2, <1>3, <1>4, <1>5, <1>6 DEF SameWork, Begins
<1>8. RootsStep
  BY <1>1, <1>4, <1>5, <1>6, <1>7, TouchStep DEF IInv
<1>9. stack' = <<>> /\ flushTasks' \in Nat
  BY ThrowStep DEF ThrowFatalError, IInv
<1> QED BY <1>6, <1>8, <1>9, EmptiedStack

\* x is the root with the tree that the render has finished.
FinishedTree(x) ==
  /\ GoodRoot(x)
  /\ x.pendingLanes = roots[Head(stack).root].pendingLanes
  /\ x.updatedLanes = roots[Head(stack).root].updatedLanes
  /\ x.finishedLanes = Head(stack).lanes

LEMMA FinishedIsGood ==
  ASSUME IInv, Rendering
  PROVE  LET call == Head(stack)
             x == Finished(call.root)
             y == SuspendLanes(x, wip, call.lanes)
         IN  /\ FinishedTree(x) /\ ~x.timeoutHandle
             /\ FinishedTree(y) /\ ~y.timeoutHandle
             /\ FinishedTree([y EXCEPT !.timeoutHandle = TRUE])
             /\ FinishedTree(MarkRootPinged(y, y.suspendedLanes))
<1> DEFINE call == Head(stack)
           r == call.root
           x == Finished(r)
           lanes == call.lanes \ (wip.pinged \cup wip.interleaved)
           y == MarkRootSuspended(x, lanes)
<1>1. /\ r \in Root /\ GoodRoot(roots[r]) /\ ~roots[r].timeoutHandle
      /\ call.lanes \in SUBSET Lanes
      /\ call.lanes \ TransitionLanes \subseteq roots[r].pendingLanes
      /\ wip.fallback \in BOOLEAN
  BY RenderInProgress DEF WorkRecord
<1>2. x = [roots[r] EXCEPT !.finishedLanes = call.lanes, !.showsFallback = wip.fallback]
  BY DEF Finished
<1>3. FinishedTree(x) /\ ~x.timeoutHandle
  <2> HIDE DEF x, call
  <2>1. GoodRoot(x)
    BY <1>1, <1>2 DEF GoodRoot, RootRecord
  <2>2. /\ x.pendingLanes = roots[r].pendingLanes
        /\ x.updatedLanes = roots[r].updatedLanes
        /\ x.timeoutHandle = roots[r].timeoutHandle
        /\ x.finishedLanes = call.lanes
    BY <1>1, <1>2 DEF GoodRoot, RootRecord
  <2> QED BY <1>1, <2>1, <2>2 DEF FinishedTree, call
<1> HIDE DEF x
<1>4. lanes \in SUBSET Lanes /\ lanes \ TransitionLanes \subseteq x.pendingLanes
  BY <1>1, <1>3 DEF FinishedTree
<1>5. GoodRoot(y) /\ SameWork(y, x)
  <2> HIDE DEF lanes
  <2> QED BY <1>3, <1>4, MarkRootSuspendedIsGood DEF FinishedTree
<1>6. FinishedTree(y) /\ ~y.timeoutHandle
  BY <1>3, <1>5 DEF FinishedTree, SameWork
<1>7. y = SuspendLanes(x, wip, call.lanes)
  BY DEF SuspendLanes
<1> HIDE DEF y
<1>8. FinishedTree([y EXCEPT !.timeoutHandle = TRUE])
  BY <1>6 DEF FinishedTree, GoodRoot, RootRecord
<1>9. FinishedTree(MarkRootPinged(y, y.suspendedLanes))
  BY <1>6, MarkRootPingedIsGood DEF FinishedTree, SameWork
<1> QED BY <1>3, <1>6, <1>7, <1>8, <1>9 DEF x

LEMMA FinishStep ==
  ASSUME IInv, Rendering, NEW x, FinishedTree(x),
         roots' = [roots EXCEPT ![Head(stack).root] = x], wip' = NoWork
  PROVE  /\ RootsStep
         /\ roots'[Head(stack).root] = x
         /\ ~x.timeoutHandle /\ SyncLane \in Head(stack).lanes
              => RootsFrame(roots, roots')
<1> DEFINE r == Head(stack).root
<1>1. r \in Root /\ wip.root = r /\ wip.lanes = Head(stack).lanes /\ wip.lanes # {}
  BY RenderInProgress
<1>2. roots'[r] = x /\ Touches(r) /\ \A q \in Root \ {r} : roots'[q] = roots[q]
  BY <1>1 DEF IInv, RootsAgree, Touches, FinishedTree
<1>3. wip' \in WorkRecord /\ wip'.root = NoRoot
  BY DEF NoWork, WorkRecord
<1>4. Finishes(r)
  BY <1>1, <1>2, <1>3 DEF Finishes, FinishedTree
<1>5. RootsStep
  BY <1>1, <1>2, <1>3, <1>4 DEF RootsStep
<1>6. ~x.timeoutHandle /\ SyncLane \in Head(stack).lanes => RootsFrame(roots, roots')
  BY <1>2 DEF RootsFrame, FinishedTree
<1> QED BY <1>2, <1>5, <1>6

\* The render ends, its call goes on, and nothing is committed yet.
LEMMA EndStack ==
  ASSUME IInv, Rendering, UNCHANGED pendingPassive,
         Head(stack).function = "performConcurrentWorkOnRoot",
         Continue([Head(stack) EXCEPT !.at = "end"])
  PROVE  StackInv' /\ EffectsInv'
<1> DEFINE c == [Head(stack) EXCEPT !.at = "end"]
<1>1. /\ GoodCall(c) /\ c.at = "end" /\ c.function = "performConcurrentWorkOnRoot"
  BY RenderInProgress DEF GoodCall, CallRecord
<1>2. Tail(stack) = <<>>
  BY RenderInProgress, RunningCall
<1>3. stack' = <<c>> \o <<>>
  BY <1>2 DEF Continue
<1> HIDE DEF c
<1>4. AllFit(roots', <<>>) /\ Undecided(<<>>) /\ Top(<<>>) = NoCall
  BY EmptyStackFits
<1>5. Fits(roots', c, Top(<<>>)) /\ ~Deciding(c)
  BY <1>1, <1>4 DEF Fits, Deciding, NoCall, Call
<1> DEFINE t == <<c>> \o <<>>
<1>6. AllFit(roots', t) /\ Top(t) = c /\ Undecided(t)
  BY <1>4, <1>5, PushFits
<1> HIDE DEF t
<1>7. stack' = t
  BY <1>3 DEF t
<1> QED BY <1>1, <1>6, <1>7, StackBecomes

LEMMA EndWithoutCommitStep ==
  ASSUME IInv, Rendering, UNCHANGED pendingPassive,
         Head(stack).function = "performConcurrentWorkOnRoot",
         NEW x, FinishedTree(x), EndWithoutCommit(x), wip' = NoWork
  PROVE  RootsStep /\ StackInv' /\ EffectsInv' /\ QueueTypes'
<1>1. RootsStep
  BY FinishStep DEF EndWithoutCommit
<1>2. StackInv' /\ EffectsInv'
  BY EndStack DEF EndWithoutCommit
<1>3. QueueTypes'
  BY DEF EndWithoutCommit, IInv, QueueTypes
<1> QED BY <1>1, <1>2, <1>3

LEMMA CallCommitRootStep ==
  ASSUME IInv, Rendering, UNCHANGED pendingPassive,
         NEW x, FinishedTree(x), ~x.timeoutHandle, NEW status,
         CallCommitRoot(x, status), wip' = NoWork
  PROVE  RootsStep /\ StackInv' /\ EffectsInv' /\ QueueTypes'
<1> DEFINE call == Head(stack)
           r == call.root
           c == [call EXCEPT !.at = "end"]
<1>1. /\ stack # <<>> /\ GoodCall(call) /\ call.function \in Workers /\ r \in Root
      /\ call.function = "performSyncWorkOnRoot" => SyncLane \in call.lanes
      /\ ~Running("commitRoot", "passive")
  BY RenderInProgress
<1>2. /\ roots' = [roots EXCEPT ![r] = x]
      /\ UNCHANGED <<syncQueue, tasks, microtasks>>
  BY DEF CallCommitRoot
<1>3. PICK fails \in BOOLEAN :
        stack' = <<[Call("commitRoot", r) EXCEPT !.fails = fails], c>> \o Tail(stack)
  BY DEF CallCommitRoot
<1> DEFINE commit == [Call("commitRoot", r) EXCEPT !.fails = fails]
<1>4. /\ RootsStep /\ roots'[r] = x
      /\ SyncLane \in call.lanes => RootsFrame(roots, roots')
  BY <1>2, FinishStep
<1>5. /\ GoodCall(c) /\ c.at = "end" /\ c.function = call.function
  BY <1>1 DEF GoodCall, CallRecord, Workers
<1>6. /\ GoodCall(commit) /\ commit.function = "commitRoot" /\ commit.at = "start"
      /\ commit.root = r
  BY <1>1 DEF Call, GoodCall, CallRecord, Workers, NoNode
<1>7. stack' = <<commit, c>> \o Tail(stack)
  BY <1>3
<1>8. Fits(roots, call, Top(Tail(stack))) /\ AllFit(roots, Tail(stack))
  BY <1>1, RunningCall
<1> HIDE DEF c, commit, call
<1>9. AllFit(roots', Tail(stack))
  <2>1. CASE call.function = "performConcurrentWorkOnRoot"
    BY <1>1, <2>1, RunningCall, EmptyStackFits DEF call
  <2>2. CASE call.function = "performSyncWorkOnRoot"
    BY <1>1, <1>4, <1>8, <2>2, WaitingCallsFit
  <2> QED BY <1>1, <2>1, <2>2 DEF Workers
<1>10. Fits(roots', c, Top(Tail(stack))) /\ ~Deciding(c)
  BY <1>1, <1>5, <1>8 DEF Fits, Workers, Deciding
<1> DEFINE t == <<c>> \o Tail(stack)
<1>11. /\ AllFit(roots', t) /\ Top(t) = c
       /\ Undecided(Tail(stack)) => Undecided(t)
  BY <1>9, <1>10, PushFits
<1>12. stack' = <<commit>> \o t
  BY <1>5, <1>6, <1>7, <1>8, PushTwo DEF GoodCall, AllFit
<1> HIDE DEF t
<1>13. Fits(roots', commit, Top(t))
  <2>1. x.finishedLanes = call.lanes
    BY DEF FinishedTree, call
  <2>2. /\ Top(t).at = "end" /\ Top(t).function \in Workers
        /\ Top(t).function = "performSyncWorkOnRoot"
             => SyncLane \in roots'[commit.root].finishedLanes
        /\ ~roots'[commit.root].timeoutHandle
    BY <1>1, <1>4, <1>5, <1>6, <1>11, <2>1
  <2> QED BY <1>6, <2>2 DEF Fits
<1>14. ~Deciding(commit)
  BY <1>6 DEF Deciding, Workers
<1> DEFINE u == <<commit>> \o t
<1>15. /\ AllFit(roots', u) /\ Top(u) = commit
       /\ Undecided(t) => Undecided(u)
  BY <1>11, <1>13, <1>14, PushFits
<1> HIDE DEF u
<1>16. stack' = u
  BY <1>12 DEF u
<1>17. pendingPassive' = NoRoot \/ Undecided(stack')
  BY <1>1, <1>11, <1>15, <1>16, RunningCall DEF IInv, EffectsInv
<1>18. StackInv' /\ EffectsInv'
  BY <1>6, <1>15, <1>16, <1>17, StackBecomes
<1>19. QueueTypes'
  BY <1>2 DEF IInv, QueueTypes
<1> QED BY <1>4, <1>18, <1>19

LEMMA FinishConcurrentRenderStep ==
  ASSUME IInv, Rendering, UNCHANGED pendingPassive,
         Head(stack).function = "performConcurrentWorkOnRoot",
         NEW status, FinishConcurrentRender(status), wip' = NoWork
  PROVE  /\ RootsStep /\ StackInv' /\ EffectsInv' /\ QueueTypes'
         /\ flushTasks' \in Nat
<1> DEFINE call == Head(stack)
           x == Finished(call.root)
           y == SuspendLanes(x, wip, call.lanes)
           z == [y EXCEPT !.timeoutHandle = TRUE]
           p == MarkRootPinged(y, y.suspendedLanes)
<1>1. /\ FinishedTree(x) /\ ~x.timeoutHandle
      /\ FinishedTree(y) /\ ~y.timeoutHandle
      /\ FinishedTree(z) /\ FinishedTree(p)
  BY FinishedIsGood
<1>2. \/ CallCommitRoot(x, status)
      \/ CallCommitRoot(y, status)
      \/ EndWithoutCommit(y)
      \/ EndWithoutCommit(z)
      \/ EndWithoutCommit(p)
      \/ /\ roots' = [roots EXCEPT ![call.root] = x]
         /\ Throw({})
         /\ UNCHANGED <<syncQueue, tasks, microtasks>>
  BY DEF FinishConcurrentRender, ThrottleFallback
<1> HIDE DEF x, y, z, p
<1>3. CASE CallCommitRoot(x, status) \/ CallCommitRoot(y, status)
  <2>1. RootsStep /\ StackInv' /\ EffectsInv' /\ QueueTypes'
    BY <1>1, <1>3, CallCommitRootStep
  <2>2. flushTasks' \in Nat
    BY <1>3 DEF CallCommitRoot, IInv, HostTypes
  <2> QED BY <2>1, <2>2
<1>4. CASE EndWithoutCommit(y) \/ EndWithoutCommit(z) \/ EndWithoutCommit(p)
  <2>1. RootsStep /\ StackInv' /\ EffectsInv' /\ QueueTypes'
    BY <1>1, <1>4, EndWithoutCommitStep
  <2>2. flushTasks' \in Nat
    BY <1>4 DEF EndWithoutCommit, IInv, HostTypes
  <2> QED BY <2>1, <2>2
<1>5. CASE /\ roots' = [roots EXCEPT ![call.root] = x]
           /\ Throw({})
           /\ UNCHANGED <<syncQueue, tasks, microtasks>>
  <2>1. RootsStep
    BY <1>1, <1>5, FinishStep
  <2>2. stack' = <<>> /\ flushTasks' \in Nat
    BY <1>5, ThrowStep DEF IInv
  <2>3. QueueTypes'
    BY <1>5 DEF IInv, QueueTypes
  <2> QED BY <2>1, <2>2, <2>3, EmptiedStack
<1> QED BY <1>2, <1>3, <1>4, <1>5

LEMMA CompleteConcurrentRenderStep ==
  ASSUME IInv, NEW status \in Statuses, CompleteConcurrentRender(status)
  PROVE  Preserves
<1> DEFINE call == Head(stack)
           r == call.root
<1>1. /\ Rendering /\ call.function = "performConcurrentWorkOnRoot"
      /\ UNCHANGED <<pendingPassive, passiveTasks, listeners, retries>>
  BY DEF CompleteConcurrentRender, Running, Rendering
<1>2. spent' \in Nat
  BY DEF CompleteConcurrentRender, Spend, IInv, HostTypes
<1>3. /\ RootsStep /\ StackInv' /\ EffectsInv' /\ QueueTypes'
      /\ flushTasks' \in Nat
  <2>1. CASE RecoversFromError(status) /\ RecoverFromConcurrentError
    <3>1. flushTasks' \in Nat
      BY <2>1 DEF RecoverFromConcurrentError, RenderAgain, IInv, HostTypes
    <3> QED BY <1>1, <2>1, <3>1, RecoverFromConcurrentErrorStep
  <2>2. CASE ThrowFatalError
    BY <1>1, <2>2, ThrowFatalErrorStep
  <2>3. CASE EndWithoutCommit(SuspendLanes(roots[r], wip, call.lanes)) /\ wip' = NoWork
    <3> DEFINE lanes == call.lanes \ (wip.pinged \cup wip.interleaved)
               x == MarkRootSuspended(roots[r], lanes)
    <3>1. /\ r \in Root /\ wip.root = r /\ GoodRoot(roots[r])
          /\ call.lanes \in SUBSET Lanes
          /\ call.lanes \ TransitionLanes \subseteq roots[r].pendingLanes
      BY <1>1, RenderInProgress
    <3>2. lanes \in SUBSET Lanes /\ lanes \ TransitionLanes \subseteq roots[r].pendingLanes
      BY <3>1
    <3>3. roots' = [roots EXCEPT ![r] = x]
      BY <2>3 DEF EndWithoutCommit, SuspendLanes
    <3> HIDE DEF lanes
    <3>4. GoodRoot(x) /\ SameWork(x, roots[r])
      BY <3>1, <3>2, MarkRootSuspendedIsGood
    <3> HIDE DEF x
    <3>5. Touches(r) /\ roots'[r] = x
      BY <3>1, <3>3, <3>4 DEF Touches, IInv, RootsAgree
    <3>6. wip' \in WorkRecord /\ wip'.root = NoRoot
      BY <2>3 DEF NoWork, WorkRecord
    <3>7. Abandons(r)
      BY <3>1, <3>4, <3>5, <3>6 DEF Abandons
    <3>8. RootsStep
      BY <3>1, <3>5, <3>6, <3>7, TouchStep DEF IInv
    <3>9. StackInv' /\ EffectsInv'
      BY <1>1, <2>3, EndStack DEF EndWithoutCommit
    <3>10. QueueTypes' /\ flushTasks' \in Nat
      BY <2>3 DEF EndWithoutCommit, IInv, QueueTypes, HostTypes
    <3> QED BY <3>8, <3>9, <3>10
  <2>4. CASE RenderAgain("store", call.lanes)
    <3>1. /\ call.lanes \in SUBSET Lanes /\ call.lanes # {}
          /\ call.lanes \ TransitionLanes \subseteq roots[r].pendingLanes
      BY <1>1, RenderInProgress
    <3>2. RootsStep /\ StackInv' /\ EffectsInv' /\ QueueTypes'
      BY <1>1, <2>4, <3>1, RenderAgainStep
    <3>3. flushTasks' \in Nat
      BY <2>4 DEF RenderAgain, IInv, HostTypes
    <3> QED BY <3>2, <3>3
  <2>5. CASE FinishConcurrentRender(status) /\ wip' = NoWork
    BY <1>1, <2>5, FinishConcurrentRenderStep
  <2> QED BY <2>1, <2>2, <2>3, <2>4, <2>5 DEF CompleteConcurrentRender
<1>4. HostTypes' /\ PassiveInv'
  BY <1>1, <1>2, <1>3 DEF IInv, HostTypes, PassiveInv
<1> QED BY <1>3, <1>4 DEF Preserves

LEMMA CompleteSyncRenderStep ==
  ASSUME IInv, NEW status \in Statuses, CompleteSyncRender(status)
  PROVE  Preserves
<1>1. /\ Rendering
      /\ UNCHANGED <<pendingPassive, passiveTasks, listeners, retries, spent>>
  BY DEF CompleteSyncRender, Running, Rendering
<1>2. /\ RootsStep /\ StackInv' /\ EffectsInv' /\ QueueTypes'
      /\ flushTasks' \in Nat
  <2>1. CASE RecoversFromError(status) /\ RecoverFromConcurrentError
    <3>1. flushTasks' \in Nat
      BY <2>1 DEF RecoverFromConcurrentError, RenderAgain, IInv, HostTypes
    <3> QED BY <1>1, <2>1, <3>1, RecoverFromConcurrentErrorStep
  <2>2. CASE ThrowFatalError
    BY <1>1, <2>2, ThrowFatalErrorStep
  <2>3. CASE CallCommitRoot(Finished(Head(stack).root), status) /\ wip' = NoWork
    <3> DEFINE x == Finished(Head(stack).root)
    <3>1. FinishedTree(x) /\ ~x.timeoutHandle
      BY <1>1, FinishedIsGood
    <3> HIDE DEF x
    <3>2. CallCommitRoot(x, status)
      BY <2>3 DEF x
    <3>3. RootsStep /\ StackInv' /\ EffectsInv' /\ QueueTypes'
      BY <1>1, <2>3, <3>1, <3>2, CallCommitRootStep
    <3>4. flushTasks' \in Nat
      BY <3>2 DEF CallCommitRoot, IInv, HostTypes
    <3> QED BY <3>3, <3>4
  <2> QED BY <2>1, <2>2, <2>3 DEF CompleteSyncRender
<1>3. HostTypes' /\ PassiveInv'
  BY <1>1, <1>2 DEF IInv, HostTypes, PassiveInv
<1> QED BY <1>2, <1>3 DEF Preserves

-----------------------------------------------------------------------------
(* Commit *)

LEMMA CommitFlushesPassiveEffectsStep ==
  ASSUME IInv, CommitFlushesPassiveEffects
  PROVE  Preserves
<1>1. /\ stack # <<>> /\ Head(stack).at = "start"
      /\ CallFlushPassiveEffects(Head(stack), Tail(stack))
      /\ UNCHANGED <<roots, wip>>
  BY DEF CommitFlushesPassiveEffects, Running, Idle
<1>2. RootsStep /\ RootsFrame(roots, roots')
  BY <1>1, RootsStay DEF IInv
<1>3. /\ AllFit(roots', Tail(stack))
      /\ Fits(roots', Head(stack), Top(Tail(stack)))
  BY <1>1, RunningCall
<1>4. /\ AllFit(roots', stack') /\ Top(stack').at # "rendering"
      /\ pendingPassive' = NoRoot
  BY <1>1, <1>3, CallFlushPassiveEffectsFits DEF IInv, HostTypes
<1>5. StackInv' /\ EffectsInv'
  BY <1>4, StackBecomes
<1>6. QueueTypes' /\ HostTypes' /\ PassiveInv'
  BY <1>4 DEF CommitFlushesPassiveEffects, IInv, QueueTypes, HostTypes, PassiveInv, hostVars
<1> QED BY <1>2, <1>5, <1>6 DEF Preserves

LEMMA CommitRootStep ==
  ASSUME IInv, CommitRoot
  PROVE  Preserves
<1> DEFINE call == Head(stack)
           r == call.root
           x == Committed(roots[r])
           c == [call EXCEPT !.at = "layout", !.lanes = roots[r].finishedLanes]
<1>1. /\ stack # <<>> /\ call.function = "commitRoot" /\ call.at = "start"
      /\ ~Running("commitRoot", "passive")
      /\ pendingPassive = NoRoot /\ UNCHANGED pendingPassive
  BY DEF CommitRoot, Running, Idle
<1>2. Fits(roots, call, Top(Tail(stack))) /\ GoodCall(call) /\ r \in Root
  BY <1>1, RunningCall DEF GoodCall
<1>3. RootsAgree /\ GoodRoot(roots[r]) /\ wip \in WorkRecord
  BY <1>2 DEF IInv, RootsAgree
<1>4. RootsStep /\ StackInv' /\ EffectsInv' /\ retries' \subseteq Root
  <2>1. CASE roots[r].finishedLanes = {}
    <3>1. Return /\ UNCHANGED <<roots, wip, retries>>
      BY <2>1 DEF CommitRoot
    <3>2. RootsStep /\ RootsFrame(roots, roots')
      BY <1>3, <3>1, RootsStay
    <3> QED BY <1>1, <3>1, <3>2, ReturnStep DEF IInv, HostTypes
  <2>2. CASE roots[r].finishedLanes # {}
    <3>1. /\ roots' = [roots EXCEPT ![r] = x]
          /\ wip' = IF wip.root = r THEN NoWork ELSE wip
          /\ retries' \subseteq retries \cup {r}
          /\ Continue(c)
      BY <2>2 DEF CommitRoot
    <3>2. wip.root # r /\ wip' = wip
      BY <1>2, <1>3, <2>2, <3>1 DEF RootsAgree
    <3>3. ~roots[r].timeoutHandle
      BY <1>1, <1>2 DEF Fits
    <3>4. /\ GoodRoot(x)
          /\ x.pendingLanes = (roots[r].pendingLanes \ roots[r].finishedLanes)
                                \cup roots[r].updatedLanes
          /\ x.updatedLanes = {} /\ x.finishedLanes = {}
          /\ x.timeoutHandle = roots[r].timeoutHandle
      BY <1>3, CommittedIsGood
    <3>5. /\ GoodCall(c) /\ c.function = "commitRoot" /\ c.at = "layout"
          /\ c.lanes = roots[r].finishedLanes
      <4>1. roots[r].finishedLanes \in SUBSET Lanes
        BY <1>3 DEF GoodRoot, RootRecord
      <4> QED BY <1>1, <1>2, <4>1 DEF GoodCall, CallRecord
    <3> HIDE DEF x, c
    <3>6. Touches(r) /\ roots'[r] = x
      BY <1>2, <1>3, <3>1, <3>4 DEF Touches, RootsAgree
    <3>7. Commits(r)
      BY <2>2, <3>2, <3>3, <3>4, <3>6 DEF Commits, KeepsWip
    <3>8. RootsStep /\ RootsFrame(roots, roots')
      BY <1>2, <1>3, <3>2, <3>6, <3>7, TouchStep
    <3>9. Fits(roots', c, Top(Tail(stack))) /\ ~Deciding(c)
      BY <1>1, <1>2, <2>2, <3>5 DEF Fits, Deciding, Workers
    <3>10. StackInv' /\ EffectsInv'
      BY <1>1, <3>1, <3>5, <3>8, <3>9, ContinueStep
    <3> QED BY <1>2, <3>1, <3>8, <3>10 DEF IInv, HostTypes
  <2> QED BY <2>1, <2>2
<1>5. QueueTypes' /\ HostTypes' /\ PassiveInv'
  BY <1>4 DEF CommitRoot, IInv, QueueTypes, HostTypes, PassiveInv
<1> QED BY <1>4, <1>5 DEF Preserves

LEMMA CommitFlushesSyncCallbacksStep ==
  ASSUME IInv, CommitFlushesSyncCallbacks \/ PassiveEffectsEnd
  PROVE  Preserves
<1>1. /\ stack # <<>> /\ ~Running("commitRoot", "passive")
      /\ CallFlushSyncCallbacks(Tail(stack))
      /\ UNCHANGED <<roots, wip, pendingPassive>>
  BY DEF CommitFlushesSyncCallbacks, PassiveEffectsEnd, Running, Idle
<1>2. RootsStep /\ RootsFrame(roots, roots')
  BY <1>1, RootsStay DEF IInv
<1>3. AllFit(roots', Tail(stack)) /\ Top(Tail(stack)).at # "rendering"
  BY <1>1, RunningCall
<1>4. /\ AllFit(roots', stack') /\ Top(stack').at # "rendering"
      /\ Undecided(Tail(stack)) => Undecided(stack')
  BY <1>1, <1>3, CallFlushSyncCallbacksFits
<1>5. pendingPassive' = NoRoot \/ Undecided(stack')
  BY <1>1, <1>4, RunningCall DEF IInv, EffectsInv
<1>6. StackInv' /\ EffectsInv'
  BY <1>4, <1>5, StackBecomes
<1>7. QueueTypes' /\ HostTypes' /\ PassiveInv'
  BY DEF CommitFlushesSyncCallbacks, PassiveEffectsEnd, IInv, QueueTypes, HostTypes,
         PassiveInv, hostVars
<1> QED BY <1>2, <1>6, <1>7 DEF Preserves

\* A commit of other than the Sync lane lies on no call that has still to decide.
LEMMA CommitOverUndecided ==
  ASSUME NEW rts, NEW s, AllFit(rts, s),
         \/ Top(s).function = "none"
         \/ Top(s).function = "performConcurrentWorkOnRoot" /\ Top(s).at = "end"
  PROVE  Undecided(s)
<1>1. s \in Seq(CallRecord) /\ Len(s) \in Nat /\ (s = <<>> <=> Len(s) = 0)
  BY LenProperties, EmptySeq DEF AllFit
<1>2. CASE s = <<>>
  BY <1>2, EmptyStackFits
<1>3. CASE s # <<>>
  <2>1. Top(s) = s[1] /\ s[1] = Head(s) /\ s[1] \in CallRecord
    BY <1>1, <1>3 DEF Top
  <2>2. Top(s).function = "performConcurrentWorkOnRoot" /\ Top(s).at = "end"
    BY <2>1 DEF CallRecord, Workers
  <2>3. Tail(s) = <<>>
    BY <1>3, <2>1, <2>2, PopFits
  <2>4. Len(Tail(s)) = Len(s) - 1 /\ Len(Tail(s)) = 0
    BY <1>1, <1>3, <2>3, HeadTailProperties, EmptySeq
  <2>5. Len(s) = 1
    BY <1>1, <2>4
  <2> QED BY <2>1, <2>2, <2>5 DEF Undecided, Deciding
<1> QED BY <1>2, <1>3

LEMMA CommitEndsStep ==
  ASSUME IInv, CommitEnds
  PROVE  Preserves
<1> DEFINE call == Head(stack)
           r == call.root
           c == [call EXCEPT !.at = "passive"]
<1>1. /\ stack # <<>> /\ call.function = "commitRoot" /\ call.at = "layout"
      /\ EnsureRootIsScheduled(r, roots[r], wip, {})
      /\ UNCHANGED <<wip, listeners, retries, spent>>
  BY DEF CommitEnds, Running, Idle
<1>2. Fits(roots, call, Top(Tail(stack))) /\ GoodCall(call) /\ r \in Root
  BY <1>1, RunningCall DEF GoodCall
<1>3. RootsAgree /\ QueueTypes /\ wip \in WorkRecord /\ GoodRoot(roots[r])
  BY <1>2 DEF IInv, RootsAgree
<1>4. Touches(r) /\ SameWork(roots'[r], roots[r]) /\ QueueTypes'
  BY <1>1, <1>2, <1>3, EnsureStep
<1>5. RootsStep /\ RootsFrame(roots, roots')
  BY <1>1, <1>2, <1>3, <1>4, TouchStep DEF Reschedules, KeepsWip
<1>6. \/ pendingPassive' = NoRoot /\ passiveTasks' = passiveTasks
      \/ pendingPassive' = r /\ passiveTasks' = passiveTasks + 1
  BY DEF CommitEnds
<1>7. StackInv' /\ EffectsInv' /\ flushTasks' \in Nat
  <2>1. CASE call.fails
    <3>1. stack' = <<>> /\ flushTasks' \in Nat
      BY <2>1, ThrowStep DEF CommitEnds, IInv
    <3> QED BY <3>1, EmptiedStack
  <2>2. CASE ~call.fails
    <3>1. stack' = <<c>> \o Tail(stack) /\ UNCHANGED flushTasks
      BY <2>2 DEF CommitEnds, Continue
    <3>2. /\ GoodCall(c) /\ c.function = "commitRoot" /\ c.at = "passive"
          /\ c.lanes = call.lanes
      BY <1>1, <1>2 DEF GoodCall, CallRecord
    <3> HIDE DEF c
    <3>3. Fits(roots', c, Top(Tail(stack))) /\ ~Deciding(c)
      BY <1>1, <1>2, <3>2 DEF Fits, Deciding, Workers
    <3>4. AllFit(roots', Tail(stack))
      BY <1>1, <1>5, RunningCall, WaitingCallsFit
    <3> DEFINE t == <<c>> \o Tail(stack)
    <3>5. /\ AllFit(roots', t) /\ Top(t) = c /\ t # <<>> /\ Head(t) = c
          /\ Undecided(Tail(stack)) => Undecided(t)
      BY <3>3, <3>4, PushFits
    <3> HIDE DEF t
    <3>6. stack' = t
      BY <3>1 DEF t
    <3>7. SyncLane \in c.lanes \/ Undecided(Tail(stack))
      <4>1. \/ Top(Tail(stack)).function = "none"
            \/ Top(Tail(stack)).function \in Workers /\ Top(Tail(stack)).at = "end"
        BY <1>1, <1>2 DEF Fits
      <4>2. Top(Tail(stack)).function = "performSyncWorkOnRoot" => SyncLane \in c.lanes
        BY <3>2, <3>3 DEF Fits
      <4> QED BY <3>4, <4>1, <4>2, CommitOverUndecided DEF Workers
    <3>8. StackInv'
      BY <3>2, <3>5, <3>6 DEF StackInv, RenderingIsWip, Rendering
    <3>9. EffectsInv'
      BY <3>2, <3>5, <3>6, <3>7 DEF EffectsInv, Running, Idle
    <3> QED BY <3>1, <3>8, <3>9 DEF IInv, HostTypes
  <2>3. call.fails \in BOOLEAN
    BY <1>2 DEF GoodCall, CallRecord
  <2> QED BY <2>1, <2>2, <2>3
<1>8. HostTypes' /\ PassiveInv'
  BY <1>1, <1>2, <1>6, <1>7 DEF IInv, HostTypes, PassiveInv
<1> QED BY <1>4, <1>5, <1>7, <1>8 DEF Preserves

LEMMA CommitFlushesOwnEffectsStep ==
  ASSUME IInv, CommitFlushesOwnEffects
  PROVE  Preserves
<1> DEFINE call == Head(stack)
           c == [call EXCEPT !.at = "flush"]
<1>1. /\ stack # <<>> /\ call.function = "commitRoot" /\ call.at = "passive"
      /\ UNCHANGED <<roots, wip>>
  BY DEF CommitFlushesOwnEffects, Running, Idle
<1>2. Fits(roots, call, Top(Tail(stack))) /\ GoodCall(call)
  BY <1>1, RunningCall
<1>3. RootsStep /\ RootsFrame(roots, roots')
  BY <1>1, RootsStay DEF IInv
<1>4. /\ GoodCall(c) /\ c.function = "commitRoot" /\ c.at = "flush"
      /\ c.lanes = call.lanes
  BY <1>1, <1>2 DEF GoodCall, CallRecord
<1>5. \/ SyncLane \in call.lanes /\ CallFlushPassiveEffects(c, Tail(stack))
      \/ SyncLane \notin call.lanes /\ stack' = <<c>> \o Tail(stack) /\ UNCHANGED pendingPassive
  BY DEF CommitFlushesOwnEffects, Continue
<1> HIDE DEF c
<1>6. Fits(roots', c, Top(Tail(stack))) /\ ~Deciding(c) /\ AllFit(roots', Tail(stack))
  BY <1>1, <1>2, <1>4, RunningCall DEF Fits, Deciding, Workers
<1>7. StackInv' /\ EffectsInv' /\ pendingPassive' \in {NoRoot, pendingPassive}
  <2>1. CASE SyncLane \in call.lanes /\ CallFlushPassiveEffects(c, Tail(stack))
    <3>1. /\ AllFit(roots', stack') /\ Top(stack').at # "rendering"
          /\ pendingPassive' = NoRoot
      BY <1>4, <1>6, <2>1, CallFlushPassiveEffectsFits DEF IInv, HostTypes
    <3> QED BY <3>1, StackBecomes
  <2>2. CASE /\ SyncLane \notin call.lanes
             /\ stack' = <<c>> \o Tail(stack)
             /\ UNCHANGED pendingPassive
    <3> DEFINE t == <<c>> \o Tail(stack)
    <3>1. /\ AllFit(roots', t) /\ Top(t) = c
          /\ Undecided(Tail(stack)) => Undecided(t)
      BY <1>6, PushFits
    <3> HIDE DEF t
    <3>2. stack' = t
      BY <2>2 DEF t
    <3>3. pendingPassive = NoRoot \/ Undecided(Tail(stack))
      BY <1>1, <2>2, RunningCall DEF IInv, EffectsInv
    <3>4. StackInv' /\ EffectsInv'
      BY <1>4, <2>2, <3>1, <3>2, <3>3, StackBecomes
    <3> QED BY <2>2, <3>4
  <2> QED BY <1>5, <2>1, <2>2
<1>8. QueueTypes' /\ HostTypes' /\ PassiveInv'
  BY <1>7 DEF CommitFlushesOwnEffects, IInv, QueueTypes, HostTypes, PassiveInv, hostVars
<1> QED BY <1>3, <1>7, <1>8 DEF Preserves

-----------------------------------------------------------------------------
(* The sync queue *)

LEMMA FlushSyncCallbacksStep ==
  ASSUME IInv, FlushSyncCallbacks
  PROVE  Preserves
<1>1. /\ stack # <<>> /\ Head(stack).at = "start"
      /\ Head(stack).function = "flushSyncCallbacks"
      /\ ~Running("commitRoot", "passive")
      /\ UNCHANGED <<roots, wip>>
  BY DEF FlushSyncCallbacks, Running, Idle
<1>2. RootsStep /\ RootsFrame(roots, roots')
  BY <1>1, RootsStay DEF IInv
<1>3. /\ StackInv' /\ EffectsInv' /\ syncQueue' \in Seq(Root)
      /\ pendingPassive' \in {NoRoot, pendingPassive}
  <2>1. CASE syncQueue = <<>>
    <3>1. Return /\ UNCHANGED <<syncQueue, pendingPassive>>
      BY <2>1 DEF FlushSyncCallbacks
    <3> QED BY <1>1, <1>2, <3>1, ReturnStep DEF IInv, QueueTypes
  <2>2. CASE syncQueue # <<>>
    <3> DEFINE c == Call("performSyncWorkOnRoot", Head(syncQueue))
    <3>1. /\ syncQueue' = Tail(syncQueue) /\ CallFlushPassiveEffects(c, stack)
      BY <2>2 DEF FlushSyncCallbacks
    <3>2. Head(syncQueue) \in Root /\ Tail(syncQueue) \in Seq(Root)
      BY <2>2, HeadTailProperties DEF IInv, QueueTypes
    <3>3. GoodCall(c) /\ c.at = "start" /\ c.function = "performSyncWorkOnRoot"
      BY <3>2, CallIsGood DEF Call
    <3> HIDE DEF c
    <3>4. AllFit(roots', stack)
      BY <1>1 DEF IInv, StackInv
    <3>5. Top(stack) = Head(stack)
      BY <1>1, <3>4 DEF Top, AllFit
    <3>6. Fits(roots', c, Top(stack))
      BY <1>1, <3>3, <3>5 DEF Fits
    <3>7. /\ AllFit(roots', stack') /\ Top(stack').at # "rendering"
          /\ pendingPassive' = NoRoot
      BY <3>1, <3>3, <3>4, <3>6, CallFlushPassiveEffectsFits DEF IInv, HostTypes
    <3> QED BY <3>1, <3>2, <3>7, StackBecomes
  <2> QED BY <2>1, <2>2
<1>4. QueueTypes' /\ HostTypes' /\ PassiveInv'
  BY <1>3 DEF FlushSyncCallbacks, IInv, QueueTypes, HostTypes, PassiveInv, hostVars
<1> QED BY <1>2, <1>3, <1>4 DEF Preserves

-----------------------------------------------------------------------------
(* Every step preserves the invariant *)

LEMMA NextPreserves ==
  ASSUME IInv, Next
  PROVE  Preserves
<1>1. ASSUME NEW r \in Root, NEW lane \in UpdateLanes,
             \/ Update(r, lane)
             \/ LayoutEffectUpdate(r, lane)
             \/ PassiveEffectUpdate(r, lane)
      PROVE  Preserves
  <2>1. ScheduleUpdateOnFiber(r, lane)
    BY <1>1 DEF Update, LayoutEffectUpdate, PassiveEffectUpdate
  <2>2. UNCHANGED <<stack, pendingPassive, flushTasks, passiveTasks, listeners, retries>>
    BY <1>1 DEF Update, LayoutEffectUpdate, PassiveEffectUpdate
  <2> QED BY <2>1, <2>2, EffectUpdateStep
<1>2. CASE \/ FlushSync
           \/ Microtask
           \/ RunFlushTask
  BY <1>2, FlushJobStep
<1>3. CASE \E t \in tasks : RunTask(t)
  BY <1>3, RunTaskStep
<1>4. CASE RunPassiveTask
  BY <1>4, RunPassiveTaskStep
<1>5. CASE \E r \in Root : RunCommitTimer(r)
  BY <1>5, RunCommitTimerStep
<1>6. CASE \E l \in listeners : PingSuspendedRoot(l)
  BY <1>6, PingSuspendedRootStep
<1>7. CASE \E r \in Root, lane \in Lanes : RetryTimedOutBoundary(r, lane)
  BY <1>7, RetryTimedOutBoundaryStep
<1>8. CASE PerformConcurrentWork
  BY <1>8, PerformConcurrentWorkStep
<1>9. CASE PerformSyncWork
  BY <1>9, PerformSyncWorkStep
<1>10. CASE \E r \in Root : RenderPhaseUpdate(r)
  BY <1>10, RenderPhaseUpdateStep
<1>11. CASE ComponentSuspends \/ ShellSuspends
  BY <1>11, SuspendStep DEF ComponentSuspends, ShellSuspends
<1>12. CASE ComponentThrows
  BY <1>12, ComponentThrowsStep
<1>13. CASE RenderYields
  BY <1>13, RenderYieldsStep
<1>14. CASE \E status \in Statuses :
              CompleteConcurrentRender(status) \/ CompleteSyncRender(status)
  BY <1>14, CompleteConcurrentRenderStep, CompleteSyncRenderStep
<1>15. CASE EndConcurrentWork
  BY <1>15, EndConcurrentWorkStep
<1>16. CASE ReturnContinuation
  BY <1>16, ReturnContinuationStep
<1>17. CASE EndSyncWork
  BY <1>17, EndSyncWorkStep
<1>18. CASE CommitFlushesPassiveEffects
  BY <1>18, CommitFlushesPassiveEffectsStep
<1>19. CASE CommitRoot
  BY <1>19, CommitRootStep
<1>20. CASE CommitEnds
  BY <1>20, CommitEndsStep
<1>21. CASE CommitFlushesOwnEffects
  BY <1>21, CommitFlushesOwnEffectsStep
<1>22. CASE CommitFlushesSyncCallbacks \/ PassiveEffectsEnd
  BY <1>22, CommitFlushesSyncCallbacksStep
<1>23. CASE FlushSyncCallbacks
  BY <1>23, FlushSyncCallbacksStep
<1> QED
  BY <1>1, <1>2, <1>3, <1>4, <1>5, <1>6, <1>7, <1>8, <1>9, <1>10, <1>11, <1>12,
     <1>13, <1>14, <1>15, <1>16, <1>17, <1>18, <1>19, <1>20, <1>21, <1>22, <1>23
     DEF Next

LEMMA StutteringPreserves ==
  ASSUME IInv, UNCHANGED vars
  PROVE  Preserves
<1>1. UNCHANGED <<roots, wip, stack, pendingPassive, syncQueue, tasks, flushTasks,
                  passiveTasks, microtasks, listeners, retries, spent>>
  BY DEF vars, hostVars
<1>2. RootsStep /\ RootsFrame(roots, roots')
  BY <1>1, RootsStay DEF IInv
<1>3. StackInv' /\ EffectsInv'
  BY <1>1, <1>2, StackStays DEF KeepsWip
<1>4. QueueTypes' /\ HostTypes' /\ PassiveInv'
  BY <1>1 DEF IInv, QueueTypes, HostTypes, PassiveInv
<1> QED BY <1>2, <1>3, <1>4 DEF Preserves

\* The inductive invariant holds of every behaviour of the work loop.
THEOREM Invariance == Spec => []IInv
<1>1. IInv /\ [Next]_vars => Preserves
  BY NextPreserves, StutteringPreserves
<1>2. IInv /\ Preserves => IInv'
  BY RootsStepKeepsRoots DEF IInv, Preserves
<1> QED BY InitInvariant, <1>1, <1>2, PTL DEF Spec

-----------------------------------------------------------------------------
(* The properties *)

\* Every field of the roots, the work in progress and the queues of the host
\* keeps its type.
THEOREM TypeCorrect == Spec => []TypeOK
<1>1. IInv => TypeOK
  <2> SUFFICES ASSUME IInv PROVE TypeOK
    OBVIOUS
  <2>1. ASSUME NEW r \in Root
        PROVE  /\ LaneFields(roots[r])
               /\ roots[r].callbackNode \in NodeId \cup {NoNode}
               /\ roots[r].callbackPriority \in Lanes \cup {NoLane}
               /\ roots[r].finishedLanes \subseteq Lanes
               /\ roots[r].timeoutHandle \in BOOLEAN
               /\ roots[r].updatedLanes \subseteq Lanes
               /\ roots[r].showsFallback \in BOOLEAN
               /\ roots[r].errorLanes \subseteq Lanes
    <3>1. GoodRoot(roots[r])
      BY DEF IInv, RootsAgree
    <3> QED BY <3>1, GoodRootHasLaneFields DEF GoodRoot, RootRecord
  <2>2. wip \in WorkRecord
    BY DEF IInv, RootsAgree
  <2>3. /\ wip.root \in Root \cup {NoRoot}
        /\ wip.lanes \cup wip.interleaved \cup wip.pinged \subseteq Lanes
        /\ wip.exit \in {"InProgress", "Suspended", "SuspendedWithDelay", "Errored"}
    BY <2>2 DEF WorkRecord
  <2> QED BY <2>1, <2>3 DEF TypeOK, IInv, QueueTypes, HostTypes
<1> QED BY <1>1, Invariance, PTL

\* markRootUpdated, markRootSuspended, markRootPinged, markRootFinished,
\* markRootEntangled and markStarvedLanesAsExpired keep the sets of lanes of a
\* root in agreement, in whatever order the work loop calls them.
THEOREM LanesAgree == Spec => []LaneSetsAgree
<1>1. IInv => LaneSetsAgree
  BY DEF IInv, RootsAgree, GoodRoot, LaneSetsAgree
<1> QED BY <1>1, Invariance, PTL

\* While the timer of a delayed commit is set the tree it will commit is there,
\* and the root is not being rendered anew.
THEOREM TimerIsSound == Spec => []TimerHasFinishedWork
<1>1. IInv => TimerHasFinishedWork
  BY DEF IInv, RootsAgree, TimerHasFinishedWork
<1> QED BY <1>1, Invariance, PTL

\* commitRoot leaves no passive effects without a task that flushes them.
THEOREM EffectsAreScheduled == Spec => []PassiveEffectsAreScheduled
<1>1. IInv => PassiveEffectsAreScheduled
  BY DEF IInv, PassiveInv, PassiveEffectsAreScheduled
<1> QED BY <1>1, Invariance, PTL

\* The work loop keeps the promise of UpdateService: whatever interrupts,
\* suspends, fails or restarts a render, an update is done only once a render
\* that began after it has been committed.
THEOREM Implementation == Spec => ImplementsUpdates
<1>1. Init => Updates!Init
  <2> SUFFICES ASSUME Init PROVE updateStatus = [r \in Root |-> [l \in Lanes |-> "done"]]
    BY DEF Updates!Init
  <2>1. \A r \in Root : roots[r].pendingLanes = {}
    BY DEF Init, NewRoot
  <2> QED BY <2>1 DEF updateStatus
<1>2. IInv /\ [Next]_vars => [Updates!Next]_updateStatus
  <2>1. IInv /\ [Next]_vars => Updates!Next
    BY NextPreserves, StutteringPreserves, RootsStepIsServed DEF IInv, Preserves
  <2> QED BY <2>1
<1> QED BY <1>1, <1>2, Invariance, PTL DEF Spec, ImplementsUpdates, Updates!Spec

LEMMA StackRendersNothing ==
  ASSUME AllFit(roots', stack'), Top(stack').at # "rendering"
  PROVE  ~Rendering'
<1> QED BY DEF AllFit, Top, Rendering, Idle

\* Of the calls that stand at their start, only performConcurrentWorkOnRoot and
\* performSyncWorkOnRoot begin a render.
LEMMA OnlyWorkersRender ==
  ASSUME IInv, Next, stack # <<>>, Head(stack).at = "start", ~Deciding(Head(stack))
  PROVE  ~Rendering'
<1>1. /\ AllFit(roots, Tail(stack)) /\ Top(Tail(stack)).at # "rendering"
      /\ Fits(roots, Head(stack), Top(Tail(stack)))
  BY RunningCall
<1>2. CASE UNCHANGED stack
  BY <1>2 DEF Rendering, Idle
<1>3. CASE CommitFlushesPassiveEffects
  <2>1. UNCHANGED roots /\ CallFlushPassiveEffects(Head(stack), Tail(stack))
    BY <1>3 DEF CommitFlushesPassiveEffects
  <2>2. AllFit(roots', stack') /\ Top(stack').at # "rendering"
    BY <1>1, <2>1, CallFlushPassiveEffectsFits DEF IInv, HostTypes
  <2> QED BY <2>2, StackRendersNothing
<1>4. CASE CommitRoot
  <2>1. AllFit(roots', stack')
    BY <1>4, CommitRootStep DEF Preserves, StackInv
  <2>2. CASE Return
    BY <1>1, <2>1, <2>2, StackRendersNothing DEF Return
  <2>3. ASSUME NEW lanes, Continue([Head(stack) EXCEPT !.at = "layout", !.lanes = lanes])
        PROVE  ~Rendering'
    <3> DEFINE c == [Head(stack) EXCEPT !.at = "layout", !.lanes = lanes]
    <3>1. c.at = "layout"
      BY <1>1 DEF Fits, GoodCall, CallRecord
    <3>2. stack' = <<c>> \o Tail(stack) /\ Tail(stack) \in Seq(CallRecord)
      BY <1>1, <2>3 DEF Continue, AllFit
    <3> HIDE DEF c
    <3>3. Head(stack') = c
      BY <3>2
    <3> QED BY <3>1, <3>3 DEF Rendering
  <2> QED BY <1>4, <2>2, <2>3 DEF CommitRoot
<1>5. CASE PassiveEffectsEnd
  <2>1. UNCHANGED roots /\ CallFlushSyncCallbacks(Tail(stack))
    BY <1>5 DEF PassiveEffectsEnd
  <2>2. AllFit(roots', stack') /\ Top(stack').at # "rendering"
    BY <1>1, <2>1, CallFlushSyncCallbacksFits
  <2> QED BY <2>2, StackRendersNothing
<1>6. CASE FlushSyncCallbacks
  <2>1. CASE Return
    <3>1. stack' = Tail(stack) /\ UNCHANGED roots
      BY <1>6, <2>1 DEF FlushSyncCallbacks, Return
    <3> QED BY <1>1, <3>1, StackRendersNothing
  <2>2. CASE syncQueue # <<>>
    <3> DEFINE c == Call("performSyncWorkOnRoot", Head(syncQueue))
    <3>1. UNCHANGED roots /\ CallFlushPassiveEffects(c, stack)
      BY <1>6, <2>2 DEF FlushSyncCallbacks
    <3>2. Head(syncQueue) \in Root
      BY <2>2, HeadTailProperties DEF IInv, QueueTypes
    <3>3. GoodCall(c) /\ c.at = "start" /\ c.function = "performSyncWorkOnRoot"
      BY <3>2, CallIsGood DEF Call
    <3> HIDE DEF c
    <3>4. AllFit(roots', stack) /\ Top(stack) = Head(stack)
      BY <3>1 DEF IInv, StackInv, AllFit, Top
    <3>5. Fits(roots', c, Top(stack))
      BY <3>3, <3>4 DEF Fits
    <3>6. AllFit(roots', stack') /\ Top(stack').at # "rendering"
      BY <3>1, <3>3, <3>4, <3>5, CallFlushPassiveEffectsFits DEF IInv, HostTypes
    <3> QED BY <3>6, StackRendersNothing
  <2> QED BY <1>6, <2>1, <2>2 DEF FlushSyncCallbacks
<1>7. /\ ~Idle /\ Head(stack).at = "start"
      /\ Head(stack).function \notin Workers
  BY DEF Deciding, Idle
<1>8. ~CommitEnds /\ ~CommitFlushesOwnEffects /\ ~CommitFlushesSyncCallbacks
  BY <1>7 DEF CommitEnds, CommitFlushesOwnEffects, CommitFlushesSyncCallbacks, Running
<1>9. /\ ~EndConcurrentWork /\ ~ReturnContinuation /\ ~EndSyncWork /\ ~RenderYields
      /\ ~PerformConcurrentWork /\ ~PerformSyncWork
      /\ \A status \in Statuses :
           ~CompleteConcurrentRender(status) /\ ~CompleteSyncRender(status)
  BY <1>7 DEF EndConcurrentWork, ReturnContinuation, EndSyncWork, RenderYields, Workers,
     PerformConcurrentWork, PerformSyncWork, CompleteConcurrentRender, CompleteSyncRender,
     Running, Rendering
<1>10. /\ ~FlushSync /\ ~Microtask /\ ~RunFlushTask /\ ~RunPassiveTask
       /\ \A t \in tasks : ~RunTask(t)
       /\ \A r \in Root : ~RunCommitTimer(r)
  BY <1>7 DEF FlushSync, Microtask, RunFlushTask, RunPassiveTask, RunTask, RunCommitTimer,
     MacrotaskMayRun
<1>11. /\ \A l \in listeners : PingSuspendedRoot(l) => UNCHANGED stack
       /\ \A r \in Root, lane \in Lanes : RetryTimedOutBoundary(r, lane) => UNCHANGED stack
       /\ \A r \in Root, lane \in UpdateLanes :
            Update(r, lane) \/ LayoutEffectUpdate(r, lane) \/ PassiveEffectUpdate(r, lane)
              => UNCHANGED stack
  BY DEF PingSuspendedRoot, RetryTimedOutBoundary, Update, LayoutEffectUpdate,
     PassiveEffectUpdate
<1>12. /\ ~ComponentSuspends /\ ~ShellSuspends /\ ~ComponentThrows
       /\ \A r \in Root : ~RenderPhaseUpdate(r)
  BY <1>7 DEF ComponentSuspends, ShellSuspends, ComponentThrows, RenderPhaseUpdate, Suspend,
     Rendering
<1> QED
  BY <1>2, <1>3, <1>4, <1>5, <1>6, <1>8, <1>9, <1>10, <1>11, <1>12 DEF Next

\* Passive effects that are pending have been flushed whenever
\* performConcurrentWorkOnRoot or performSyncWorkOnRoot goes on to render.
THEOREM EffectsComeFirst == Spec => EffectsPrecedeRender
<1> DEFINE A == ~Idle /\ stack' # <<>> /\ Head(stack).at = "start"
                  /\ Head(stack').at = "rendering" => pendingPassive = NoRoot
<1>1. IInv /\ [Next]_vars => [A]_vars
  <2> SUFFICES ASSUME IInv, Next PROVE A
    BY DEF Idle
  <2>1. CASE ~Idle /\ Deciding(Head(stack))
    BY <2>1, DecidesWithoutEffects DEF Idle
  <2>2. CASE ~Idle /\ ~Deciding(Head(stack))
    BY <2>2, OnlyWorkersRender DEF Idle, Rendering
  <2> QED BY <2>1, <2>2
<1> QED BY <1>1, Invariance, PTL DEF Spec, EffectsPrecedeRender

-----------------------------------------------------------------------------
(***************************************************************************)
(* No work of a root is lost.                                              *)
(*                                                                         *)
(* A render that suspends is woken (SuspendedLanesWake).  The lanes it     *)
(* suspends are those it rendered, and since it suspended it has a ping    *)
(* listener for all of them, or was pinged for all of them; so the         *)
(* invariant is about the work in progress (WaitingRenderWakes) as well as *)
(* about the roots (StuckLanesWake).                                       *)
(*                                                                         *)
(* The work of a root is scheduled (RootIsScheduled), with the task that   *)
(* the root has recorded (RecordedTaskIsLive).  Both are about the moments *)
(* when no code is running; while code is running the work of a root may   *)
(* also be in the hands of a call.  WorkInv says which: a call may be      *)
(* running the recorded task (Runs), doing what was in the sync queue      *)
(* (Performs), or about to call ensureRootIsScheduled (Owes); and every    *)
(* step is shown to hand on what it stops doing.                           *)
(*                                                                         *)
(* An error that nothing catches hands nothing on.  The roots of the calls *)
(* it ends are wrecked, but for one whose commit was done but for the      *)
(* error: CommitIsScheduled says that it is scheduled without that commit. *)
(***************************************************************************)
\* The lanes of a root that only a ping brings back.
Stuck(x) == (x.pendingLanes \cap x.suspendedLanes) \ x.pingedLanes

IsAwaited(r, lane) == \E l \in listeners : l.root = r /\ lane \in l.lanes

StuckLanesWake ==
  \A r \in Root \ wrecked : \A lane \in Stuck(roots[r]) : IsAwaited(r, lane)

\* A render that may end suspended, and the lanes it may then suspend.
Waits == wip.exit \in {"Suspended", "SuspendedWithDelay"}

WaitingRenderWakes ==
  /\ wip.unwinds => wip.exit = "SuspendedWithDelay"
  /\ Waits => \/ [root |-> wip.root, lanes |-> wip.lanes] \in listeners
              \/ wip.lanes \subseteq wip.pinged

WakeInv == StuckLanesWake /\ WaitingRenderWakes

-----------------------------------------------------------------------------
(* What the operators on a root do to its stuck lanes *)

LEMMA UpdatedStuck ==
  ASSUME NEW r, GoodRoot(roots[r]), NEW lane \in Lanes
  PROVE  Stuck(Updated(r, lane)) \subseteq Stuck(roots[r])
<1>1. roots[r] \in RootRecord
      /\ roots[r].suspendedLanes \ TransitionLanes \subseteq roots[r].pendingLanes
  BY DEF GoodRoot
<1>2. IdleLane \notin TransitionLanes
  BY DEF IdleLane, TransitionLanes
<1> HIDE DEF TransitionLanes, IdleLane
<1>3. CASE lane = IdleLane
  BY <1>1, <1>2, <1>3 DEF Updated, MarkRootUpdated, Stuck, RootRecord
<1>4. CASE lane # IdleLane
  BY <1>1, <1>4 DEF Updated, MarkRootUpdated, Stuck, RootRecord
<1> QED BY <1>3, <1>4

LEMMA SuspendLanesStuck ==
  ASSUME NEW x \in RootRecord, NEW work, NEW lanes
  PROVE  Stuck(SuspendLanes(x, work, lanes)) \subseteq Stuck(x) \cup (lanes \ work.pinged)
<1> QED BY DEF SuspendLanes, MarkRootSuspended, Stuck, RootRecord

LEMMA PrepareFreshStackStuck ==
  ASSUME NEW x \in RootRecord
  PROVE  Stuck(PrepareFreshStack(x)) = Stuck(x)
<1> QED BY DEF PrepareFreshStack, Stuck, RootRecord

LEMMA MarkRootPingedStuck ==
  ASSUME NEW x \in RootRecord, NEW lanes
  PROVE  Stuck(MarkRootPinged(x, lanes)) = Stuck(x) \ lanes
<1> QED BY DEF MarkRootPinged, Stuck, RootRecord

LEMMA CommittedStuck ==
  ASSUME NEW x \in RootRecord
  PROVE  Stuck(Committed(x)) = {}
<1> QED BY DEF Committed, MarkRootFinished, Stuck, RootRecord

\* x is the root as ensureRootIsScheduled leaves it: no set of lanes that
\* decides what to work on has changed.
SameLanes(x, y) ==
  /\ x.pendingLanes = y.pendingLanes
  /\ x.suspendedLanes = y.suspendedLanes
  /\ x.pingedLanes = y.pingedLanes

\* The root that ensureRootIsScheduled leaves.
Recorded(x, due, node, priority, entangled) ==
  MarkRootEntangled([MarkStarvedLanesAsExpired(x, due) EXCEPT
                       !.callbackNode = node, !.callbackPriority = priority], entangled)

LEMMA RecordedRoot ==
  ASSUME NEW x \in RootRecord, NEW due, NEW node, NEW priority, NEW entangled
  PROVE  LET z == Recorded(x, due, node, priority, entangled)
         IN  SameLanes(z, x) /\ z.callbackNode = node /\ z.callbackPriority = priority
<1> DEFINE w == MarkStarvedLanesAsExpired(x, due)
           y == [w EXCEPT !.callbackNode = node, !.callbackPriority = priority]
           z == MarkRootEntangled(y, entangled)
           fields == DOMAIN NewRoot
<1>1. DOMAIN w = fields /\ w = [f \in fields |-> w[f]] /\ SameLanes(w, x)
  BY DEF MarkStarvedLanesAsExpired, SameLanes, RootRecord, NewRoot
<1>2. z = Recorded(x, due, node, priority, entangled)
  BY DEF Recorded
<1> HIDE DEF w
<1>3. /\ DOMAIN y = fields /\ SameLanes(y, x)
      /\ y.callbackNode = node /\ y.callbackPriority = priority
  BY <1>1 DEF SameLanes, NewRoot
<1> HIDE DEF y
<1>4. SameLanes(z, x) /\ z.callbackNode = node /\ z.callbackPriority = priority
  BY <1>3 DEF SameLanes, MarkRootEntangled, NewRoot
<1> QED BY <1>2, <1>4

LEMMA EnsureKeepsStuck ==
  ASSUME RootsAgree, NEW r \in Root, NEW root \in RootRecord, NEW work, NEW entangled,
         EnsureRootIsScheduled(r, root, work, entangled)
  PROVE  /\ Stuck(roots'[r]) = Stuck(root)
         /\ \A q \in Root \ {r} : roots'[q] = roots[q]
<1> DEFINE priority(due) == HighestPriorityLane(
             GetNextLanes(MarkStarvedLanesAsExpired(root, due), WipLanes(work, r)))
<1>1. PICK due, node :
        roots' = [roots EXCEPT ![r] = Recorded(root, due, node, priority(due), entangled)]
  BY DEF EnsureRootIsScheduled, Recorded
<1>2. SameLanes(Recorded(root, due, node, priority(due), entangled), root)
  BY RecordedRoot
<1> QED BY <1>1, <1>2 DEF SameLanes, Stuck, RootsAgree

-----------------------------------------------------------------------------
(* What is awaited stays awaited *)

\* The lanes that the render in progress may suspend are awaited.
LEMMA WaitingLanesAreAwaited ==
  ASSUME WakeInv, Waits
  PROVE  \A lane \in wip.lanes \ wip.pinged : IsAwaited(wip.root, lane)
<1> QED BY DEF WakeInv, WaitingRenderWakes, IsAwaited

\* A step that removes no listener, and leaves no lanes stuck but for those that
\* are awaited.
LEMMA StuckStep ==
  ASSUME WakeInv, listeners \subseteq listeners', wrecked \subseteq wrecked',
         \A r \in Root \ wrecked' : \A lane \in Stuck(roots'[r]) \ Stuck(roots[r]) : IsAwaited(r, lane)'
  PROVE  StuckLanesWake'
<1> QED BY DEF WakeInv, StuckLanesWake, IsAwaited

\* Nothing waits for a render that has just begun.
LEMMA FreshWorkWaitsForNothing ==
  ASSUME NEW r, NEW lanes, wip' \in {NoWork, FreshWork(r, lanes)}
  PROVE  WaitingRenderWakes'
<1>1. NoWork.unwinds = FALSE /\ NoWork.exit = "InProgress"
  BY DEF NoWork
<1>2. FreshWork(r, lanes).unwinds = FALSE /\ FreshWork(r, lanes).exit = "InProgress"
  BY DEF NoWork, FreshWork
<1>3. wip'.unwinds = FALSE /\ wip'.exit = "InProgress"
  BY <1>1, <1>2
<1> QED BY <1>3 DEF WaitingRenderWakes, Waits

\* A render goes on, or is only told of updates and pings.
SameRender ==
  /\ wip'.root = wip.root
  /\ wip'.lanes = wip.lanes
  /\ wip'.exit = wip.exit
  /\ wip'.unwinds = wip.unwinds
  /\ wip.pinged \subseteq wip'.pinged

LEMMA SameRenderWakes ==
  ASSUME WakeInv, SameRender, listeners \subseteq listeners'
  PROVE  WaitingRenderWakes'
<1> QED BY DEF WakeInv, WaitingRenderWakes, Waits, SameRender

LEMMA NothingWakes ==
  ASSUME WakeInv, UNCHANGED <<roots, wip, listeners, wrecked>>
  PROVE  WakeInv'
<1> QED BY DEF WakeInv, StuckLanesWake, IsAwaited, WaitingRenderWakes, Waits

\* ensureRootIsScheduled is called for a root with no more lanes stuck.
LEMMA EnsureWakes ==
  ASSUME IInv, WakeInv, NEW r \in Root, NEW root \in RootRecord, NEW work, NEW entangled,
         EnsureRootIsScheduled(r, root, work, entangled),
         r \notin wrecked' =>
           \A lane \in Stuck(root) \ Stuck(roots[r]) : IsAwaited(r, lane),
         UNCHANGED listeners, wrecked \subseteq wrecked'
  PROVE  StuckLanesWake'
<1>1. /\ Stuck(roots'[r]) = Stuck(root)
      /\ \A q \in Root \ {r} : roots'[q] = roots[q]
  BY EnsureKeepsStuck DEF IInv
<1>2. \A q \in Root \ wrecked' : \A lane \in Stuck(roots'[q]) \ Stuck(roots[q]) : IsAwaited(q, lane)'
  BY <1>1 DEF IsAwaited
<1> QED BY <1>2, StuckStep

\* The fields of one root change, none of its lanes being stuck anew.
LEMMA RootChangeWakes ==
  ASSUME IInv, WakeInv, NEW r \in Root, NEW x, roots' = [roots EXCEPT ![r] = x],
         r \notin wrecked' =>
           \A lane \in Stuck(x) \ Stuck(roots[r]) : IsAwaited(r, lane)',
         listeners \subseteq listeners', wrecked \subseteq wrecked'
  PROVE  StuckLanesWake'
<1>1. roots'[r] = x /\ \A q \in Root \ {r} : roots'[q] = roots[q]
  BY DEF IInv, RootsAgree
<1> QED BY <1>1, StuckStep

-----------------------------------------------------------------------------
(* The steps *)

LEMMA ScheduleUpdateOnFiberWakes ==
  ASSUME IInv, WakeInv, NEW r \in Root, NEW lane \in UpdateLanes,
         ScheduleUpdateOnFiber(r, lane), UNCHANGED <<listeners, wrecked>>
  PROVE  WakeInv'
<1> DEFINE work == IF wip.root = r THEN [wip EXCEPT !.interleaved = @ \cup {lane}]
                                   ELSE wip
           root == IF wip.root = r /\ wip.exit = "SuspendedWithDelay"
                   THEN SuspendLanes(Updated(r, lane), work, wip.lanes)
                   ELSE Updated(r, lane)
<1>1. lane \in Lanes /\ GoodRoot(roots[r]) /\ wip \in WorkRecord
  BY RootSchedulerAssumption DEF IInv, RootsAgree
<1>2. SameRender /\ wip' = work /\ work.pinged = wip.pinged
  BY <1>1 DEF ScheduleUpdateOnFiber, SameRender, WorkRecord
<1>3. /\ GoodRoot(Updated(r, lane)) /\ Updated(r, lane) \in RootRecord
      /\ Stuck(Updated(r, lane)) \subseteq Stuck(roots[r])
  BY <1>1, UpdatedIsGood, UpdatedStuck DEF GoodRoot
<1>4. root \in RootRecord
  <2>1. SuspendLanes(Updated(r, lane), work, wip.lanes) \in RootRecord
    <3> DEFINE lanes == wip.lanes \ (work.pinged \cup work.interleaved)
    <3>1. lanes \in SUBSET Lanes
      BY <1>1 DEF WorkRecord
    <3> HIDE DEF lanes
    <3>2. MarkRootSuspended(Updated(r, lane), lanes) \in RootRecord
      BY <1>3, <3>1 DEF MarkRootSuspended, RootRecord
    <3> QED BY <3>2 DEF SuspendLanes, lanes
  <2> QED BY <1>3, <2>1
<1>5. \A l \in Stuck(root) \ Stuck(roots[r]) : IsAwaited(r, l)
  <2>1. CASE wip.root = r /\ wip.exit = "SuspendedWithDelay"
    <3>1. Stuck(root) \subseteq Stuck(Updated(r, lane)) \cup (wip.lanes \ work.pinged)
      <4> HIDE DEF work
      <4> QED BY <1>3, <2>1, SuspendLanesStuck
    <3>2. \A l \in wip.lanes \ wip.pinged : IsAwaited(r, l)
      BY <2>1, WaitingLanesAreAwaited DEF Waits
    <3> HIDE DEF root, work
    <3> QED BY <1>2, <1>3, <3>1, <3>2
  <2>2. CASE ~(wip.root = r /\ wip.exit = "SuspendedWithDelay")
    BY <1>3, <2>2
  <2> QED BY <2>1, <2>2
<1>6. PICK queued : EnsureRootIsScheduled(r, root, work, queued)
  BY DEF ScheduleUpdateOnFiber
<1> HIDE DEF root, work
<1>7. StuckLanesWake'
  BY <1>4, <1>5, <1>6, EnsureWakes
<1>8. WaitingRenderWakes'
  BY <1>2, SameRenderWakes
<1> QED BY <1>7, <1>8 DEF WakeInv

\* A ping removes one listener: its lanes are pinged on the root, and on the
\* render in progress if they are all of its lanes.
LEMMA PingSuspendedRootWakes ==
  ASSUME IInv, WakeInv, NEW p \in listeners, PingSuspendedRoot(p)
  PROVE  WakeInv'
<1> DEFINE r == p.root
           root == MarkRootPinged(roots[r], p.lanes)
<1>1. /\ r \in Root /\ GoodRoot(roots[r]) /\ roots[r] \in RootRecord
      /\ wip \in WorkRecord
  BY DEF IInv, HostTypes, RootsAgree, GoodRoot
<1>2. Stuck(root) = Stuck(roots[r]) \ p.lanes /\ root \in RootRecord
  BY <1>1, MarkRootPingedStuck, MarkRootPingedIsGood DEF GoodRoot
<1>3. Stuck(PrepareFreshStack(root)) = Stuck(root) /\ PrepareFreshStack(root) \in RootRecord
  BY <1>2, PrepareFreshStackStuck DEF PrepareFreshStack, RootRecord
<1>4. listeners' = listeners \ {p} /\ UNCHANGED wrecked
  BY DEF PingSuspendedRoot
<1>5. \E x \in {root, PrepareFreshStack(root)} : \E work :
        EnsureRootIsScheduled(r, x, work, {})
  BY DEF PingSuspendedRoot
<1>6. /\ Stuck(roots'[r]) = Stuck(roots[r]) \ p.lanes
      /\ \A q \in Root \ {r} : roots'[q] = roots[q]
  <2> HIDE DEF root, r
  <2> QED BY <1>1, <1>2, <1>3, <1>5, EnsureKeepsStuck DEF IInv
<1>7. StuckLanesWake'
  <2> SUFFICES ASSUME NEW q \in Root \ wrecked, NEW lane \in Stuck(roots'[q])
               PROVE  IsAwaited(q, lane)'
    BY <1>4 DEF StuckLanesWake
  <2>1. lane \in Stuck(roots[q]) /\ (q = r => lane \notin p.lanes)
    BY <1>6
  <2>2. PICK l \in listeners : l.root = q /\ lane \in l.lanes
    BY <2>1 DEF WakeInv, StuckLanesWake, IsAwaited
  <2>3. l # p
    BY <2>1, <2>2
  <2> QED BY <1>4, <2>2, <2>3 DEF IsAwaited
<1>8. WaitingRenderWakes'
  <2>1. CASE wip' = FreshWork(r, {})
    BY <2>1, FreshWorkWaitsForNothing
  <2>2. CASE /\ r = wip.root /\ p.lanes \subseteq wip.lanes
             /\ wip' = [wip EXCEPT !.pinged = @ \cup p.lanes]
    <3>1. /\ wip'.root = wip.root /\ wip'.lanes = wip.lanes /\ wip'.exit = wip.exit
          /\ wip'.unwinds = wip.unwinds /\ wip'.pinged = wip.pinged \cup p.lanes
      BY <1>1, <2>2 DEF WorkRecord
    <3>2. CASE p = [root |-> wip.root, lanes |-> wip.lanes]
      <4>1. wip.lanes \subseteq wip'.pinged
        BY <3>1, <3>2
      <4> QED BY <3>1, <4>1 DEF WakeInv, WaitingRenderWakes, Waits
    <3>3. CASE p # [root |-> wip.root, lanes |-> wip.lanes]
      BY <1>4, <3>1, <3>3 DEF WakeInv, WaitingRenderWakes, Waits
    <3> QED BY <3>2, <3>3
  <2>3. CASE ~(r = wip.root /\ p.lanes \subseteq wip.lanes) /\ wip' = wip
    <3>1. p # [root |-> wip.root, lanes |-> wip.lanes]
      BY <2>3
    <3> QED BY <1>4, <2>3, <3>1 DEF WakeInv, WaitingRenderWakes, Waits
  <2> QED BY <2>1, <2>2, <2>3 DEF PingSuspendedRoot
<1> QED BY <1>7, <1>8 DEF WakeInv

LEMMA RetryTimedOutBoundaryWakes ==
  ASSUME IInv, WakeInv, NEW r \in Root, NEW lane \in Lanes, RetryTimedOutBoundary(r, lane)
  PROVE  WakeInv'
<1>1. /\ EnsureRootIsScheduled(r, Updated(r, lane), wip, {})
      /\ UNCHANGED <<wip, listeners, wrecked>>
  BY DEF RetryTimedOutBoundary
<1>2. /\ Updated(r, lane) \in RootRecord
      /\ Stuck(Updated(r, lane)) \subseteq Stuck(roots[r])
  BY UpdatedIsGood, UpdatedStuck DEF IInv, RootsAgree, GoodRoot
<1>3. StuckLanesWake'
  BY <1>1, <1>2, EnsureWakes
<1>4. WaitingRenderWakes'
  BY <1>1 DEF WakeInv, WaitingRenderWakes, Waits
<1> QED BY <1>3, <1>4 DEF WakeInv

LEMMA RenderPhaseUpdateWakes ==
  ASSUME IInv, WakeInv, NEW r \in Root, RenderPhaseUpdate(r)
  PROVE  WakeInv'
<1> DEFINE lane == HighestPriorityLane(wip.lanes)
<1>1. lane \in Lanes
  BY RenderInProgress, HighestPriorityLaneIsLeast DEF RenderPhaseUpdate
<1>2. /\ Updated(r, lane) \in RootRecord
      /\ Stuck(Updated(r, lane)) \subseteq Stuck(roots[r])
  BY <1>1, UpdatedIsGood, UpdatedStuck DEF IInv, RootsAgree, GoodRoot
<1>3. UNCHANGED <<wip, listeners, wrecked>>
  BY DEF RenderPhaseUpdate
<1>4. \/ roots' = [roots EXCEPT ![r] = Updated(r, lane)]
      \/ EnsureRootIsScheduled(r, Updated(r, lane), wip, {})
  BY DEF RenderPhaseUpdate
<1> HIDE DEF lane
<1>5. StuckLanesWake'
  <2>1. CASE roots' = [roots EXCEPT ![r] = Updated(r, lane)]
    BY <1>2, <1>3, <2>1, RootChangeWakes
  <2>2. CASE EnsureRootIsScheduled(r, Updated(r, lane), wip, {})
    BY <1>2, <1>3, <2>2, EnsureWakes
  <2> QED BY <1>4, <2>1, <2>2
<1>6. WaitingRenderWakes'
  BY <1>3 DEF WakeInv, WaitingRenderWakes, Waits
<1> QED BY <1>5, <1>6 DEF WakeInv

\* Whatever suspends attaches a listener for all lanes of the render first.
LEMMA SuspendWakes ==
  ASSUME IInv, WakeInv, NEW delay \in BOOLEAN, NEW unwinds \in BOOLEAN,
         unwinds => delay, Suspend(delay, unwinds)
  PROVE  WakeInv'
<1>1. PICK r \in Root : /\ r = wip.root
                       /\ roots[r] \in RootRecord /\ wip \in WorkRecord
  BY RenderInProgress DEF Suspend, GoodRoot
<1>2. /\ listeners \subseteq listeners' /\ UNCHANGED wrecked
      /\ [root |-> r, lanes |-> wip.lanes] \in listeners'
  BY <1>1 DEF Suspend, AttachPingListener
<1>3. StuckLanesWake'
  <2>1. CASE roots' = [roots EXCEPT ![r] = SuspendLanes(@, wip, wip.lanes)]
    <3> DEFINE x == SuspendLanes(roots[r], wip, wip.lanes)
    <3>1. Stuck(x) \subseteq Stuck(roots[r]) \cup (wip.lanes \ wip.pinged)
      BY <1>1, SuspendLanesStuck
    <3>2. \A lane \in wip.lanes : IsAwaited(r, lane)'
      BY <1>2 DEF IsAwaited
    <3>3. roots' = [roots EXCEPT ![r] = x]
      BY <1>1, <2>1 DEF IInv, RootsAgree
    <3> HIDE DEF x
    <3> QED BY <1>1, <1>2, <3>1, <3>2, <3>3, RootChangeWakes
  <2>2. CASE UNCHANGED roots
    BY <1>2, <2>2, StuckStep
  <2> QED BY <1>1, <2>1, <2>2 DEF Suspend
<1>4. WaitingRenderWakes'
  <2>1. /\ wip'.root = r /\ wip'.lanes = wip.lanes
        /\ wip'.unwinds => wip.unwinds \/ delay
        /\ delay => wip'.exit = "SuspendedWithDelay"
        /\ wip.exit = "SuspendedWithDelay" => wip'.exit = wip.exit
    BY <1>1 DEF Suspend, WorkRecord
  <2> QED BY <1>2, <2>1 DEF WakeInv, WaitingRenderWakes
<1> QED BY <1>3, <1>4 DEF WakeInv

LEMMA ComponentThrowsWakes ==
  ASSUME IInv, WakeInv, ComponentThrows
  PROVE  WakeInv'
<1>1. /\ UNCHANGED <<roots, listeners, wrecked>>
      /\ wip.exit \in {"InProgress", "Suspended"}
      /\ wip' = [wip EXCEPT !.exit = "Errored"] /\ wip \in WorkRecord
  BY DEF ComponentThrows, hostVars, IInv, RootsAgree
<1>2. wip'.exit = "Errored" /\ wip'.unwinds = wip.unwinds
  BY <1>1 DEF WorkRecord
<1>3. StuckLanesWake'
  BY <1>1, StuckStep
<1> QED BY <1>1, <1>2, <1>3 DEF WakeInv, WaitingRenderWakes, Waits

LEMMA StartRenderWakes ==
  ASSUME IInv, WakeInv, NEW call, call.root \in Root, NEW lanes,
         StartRender(call, lanes), UNCHANGED <<listeners, wrecked>>
  PROVE  WakeInv'
<1>1. CASE UNCHANGED <<wip, roots>>
  BY <1>1, NothingWakes
<1>2. CASE /\ wip' = FreshWork(call.root, lanes)
           /\ roots' = [roots EXCEPT ![call.root] = PrepareFreshStack(@)]
  <2> DEFINE x == PrepareFreshStack(roots[call.root])
  <2>1. Stuck(x) = Stuck(roots[call.root])
    BY PrepareFreshStackStuck DEF IInv, RootsAgree
  <2>2. roots' = [roots EXCEPT ![call.root] = x]
    BY <1>2
  <2> HIDE DEF x
  <2>3. StuckLanesWake'
    BY <2>1, <2>2, RootChangeWakes
  <2>4. WaitingRenderWakes'
    BY <1>2, FreshWorkWaitsForNothing
  <2> QED BY <2>3, <2>4 DEF WakeInv
<1> QED BY <1>1, <1>2 DEF StartRender

LEMMA EnsureOfRootWakes ==
  ASSUME IInv, WakeInv, NEW r \in Root, NEW work,
         EnsureRootIsScheduled(r, roots[r], work, {}), UNCHANGED <<wip, listeners>>,
         wrecked \subseteq wrecked'
  PROVE  WakeInv'
<1>1. roots[r] \in RootRecord
  BY DEF IInv, RootsAgree
<1>2. StuckLanesWake'
  BY <1>1, EnsureWakes
<1>3. WaitingRenderWakes'
  BY DEF WakeInv, WaitingRenderWakes, Waits
<1> QED BY <1>2, <1>3 DEF WakeInv

LEMMA PerformWorkWakes ==
  ASSUME IInv, WakeInv, PerformConcurrentWork \/ PerformSyncWork
  PROVE  WakeInv'
<1>1. stack # <<>> /\ Head(stack).function \in Workers /\ UNCHANGED <<listeners, wrecked>>
  BY DEF PerformConcurrentWork, PerformSyncWork, Running, Idle, Workers, hostVars
<1>2. Head(stack) \in CallRecord /\ Head(stack).root \in Root
  BY <1>1, RunningCall DEF GoodCall, Workers
<1>3. CASE PerformConcurrentWork
  <2>1. CASE UNCHANGED <<wip, roots>>
    BY <1>1, <2>1, NothingWakes
  <2>2. CASE \E sliced \in BOOLEAN : \E lanes :
               StartRender([Head(stack) EXCEPT !.sliced = sliced], lanes)
    <3>1. PICK sliced \in BOOLEAN : \E lanes :
            StartRender([Head(stack) EXCEPT !.sliced = sliced], lanes)
      BY <2>2
    <3>2. PICK lanes : StartRender([Head(stack) EXCEPT !.sliced = sliced], lanes)
      BY <3>1
    <3> DEFINE call == [Head(stack) EXCEPT !.sliced = sliced]
    <3>3. call.root \in Root
      BY <1>2 DEF CallRecord
    <3>4. StartRender(call, lanes)
      BY <3>2
    <3> HIDE DEF call
    <3> QED BY <1>1, <3>3, <3>4, StartRenderWakes
  <2>3. \/ UNCHANGED <<wip, roots>>
        \/ \E sliced \in BOOLEAN : \E lanes :
             StartRender([Head(stack) EXCEPT !.sliced = sliced], lanes)
    <3> DEFINE root == roots[Head(stack).root]
               lanes == GetNextLanes(root, WipLanes(wip, Head(stack).root))
               sliced(didTimeout) == /\ ~IncludesBlockingLane(lanes)
                                     /\ ~IncludesExpiredLane(root, lanes)
                                     /\ ~didTimeout
    <3>1. \/ UNCHANGED <<wip, roots>>
          \/ \E didTimeout \in BOOLEAN :
               StartRender([Head(stack) EXCEPT !.sliced = sliced(didTimeout)], lanes)
      BY <1>3 DEF PerformConcurrentWork
    <3>2. \A didTimeout \in BOOLEAN : sliced(didTimeout) \in BOOLEAN
      OBVIOUS
    <3> HIDE DEF sliced, lanes
    <3> QED BY <3>1, <3>2
  <2> QED BY <2>1, <2>2, <2>3
<1>4. CASE PerformSyncWork
  <2>1. \/ StartRender(Head(stack), GetNextLanes(roots[Head(stack).root], {}))
        \/ /\ EnsureRootIsScheduled(Head(stack).root, roots[Head(stack).root], wip, {})
           /\ UNCHANGED wip
    BY <1>4 DEF PerformSyncWork
  <2> QED BY <1>1, <1>2, <2>1, StartRenderWakes, EnsureOfRootWakes
<1> QED BY <1>3, <1>4

LEMMA RenderAgainWakes ==
  ASSUME IInv, WakeInv, Rendering, NEW attempt, NEW lanes, RenderAgain(attempt, lanes),
         UNCHANGED listeners
  PROVE  WakeInv'
<1> DEFINE r == Head(stack).root
           x == PrepareFreshStack(roots[r])
<1>1. r \in Root /\ roots[r] \in RootRecord
  BY RenderInProgress DEF GoodRoot
<1>2. /\ wip' = FreshWork(r, lanes) /\ roots' = [roots EXCEPT ![r] = x]
      /\ UNCHANGED wrecked
  BY DEF RenderAgain
<1>3. Stuck(x) = Stuck(roots[r])
  BY <1>1, PrepareFreshStackStuck
<1> HIDE DEF x
<1>4. StuckLanesWake'
  BY <1>1, <1>2, <1>3, RootChangeWakes
<1>5. WaitingRenderWakes'
  BY <1>2, FreshWorkWaitsForNothing
<1> QED BY <1>4, <1>5 DEF WakeInv

\* The statuses with which lanes are suspended are those of renders that have
\* attached a listener.
LEMMA SuspendedStatusWaits ==
  ASSUME IInv, WakeInv, NEW status \in ExitStatuses,
         status \in {"Suspended", "SuspendedWithDelay", "DidNotComplete"}
  PROVE  Waits
<1>1. wip.exit \in {"InProgress", "Suspended", "SuspendedWithDelay", "Errored"}
  BY DEF IInv, RootsAgree, WorkRecord
<1>2. \/ wip.unwinds
      \/ wip.exit # "InProgress" /\ status = wip.exit
  BY <1>1 DEF ExitStatuses
<1> QED BY <1>1, <1>2 DEF WakeInv, WaitingRenderWakes, Waits

\* The lanes of a finished render are suspended.
LEMMA SuspendRenderedWakes ==
  ASSUME IInv, WakeInv, Rendering, Waits, NEW x, x \in RootRecord,
         Stuck(x) = Stuck(roots[wip.root])
  PROVE  \A lane \in Stuck(SuspendLanes(x, wip, wip.lanes)) \ Stuck(roots[wip.root]) :
           IsAwaited(wip.root, lane)
<1> QED BY SuspendLanesStuck, WaitingLanesAreAwaited

\* An error that is thrown leaves nothing less wrecked.
LEMMA ThrowWrecks ==
  ASSUME stack \in Seq(CallRecord), NEW done, Throw(done)
  PROVE  /\ stack' = <<>>
         /\ wrecked \subseteq wrecked'
         /\ \A i \in 1..Len(stack) : stack[i].root \in wrecked' \cup done \cup {NoRoot}
         /\ flushTasks' = IF IsFlushingSyncQueue THEN flushTasks + 1 ELSE flushTasks
<1>1. DOMAIN stack = 1..Len(stack)
  BY LenProperties
<1> QED BY <1>1 DEF Throw

LEMMA ThrowWrecksHead ==
  ASSUME IInv, stack # <<>>, Head(stack).root \in Root, Throw({})
  PROVE  Head(stack).root \in wrecked'
<1>1. stack \in Seq(CallRecord)
  BY DEF IInv, StackInv, AllFit
<1>2. Len(stack) \in Nat \ {0} /\ stack[1] = Head(stack)
  BY <1>1, LenProperties, EmptySeq
<1>3. 1 \in 1..Len(stack)
  BY <1>2
<1> QED BY <1>1, <1>2, <1>3, ThrowWrecks, RootSchedulerAssumption

LEMMA FinishConcurrentRenderWakes ==
  ASSUME IInv, WakeInv, Rendering, NEW status \in ExitStatuses,
         FinishConcurrentRender(status), UNCHANGED listeners
  PROVE  StuckLanesWake'
<1> DEFINE finished == Finished(wip.root)
           suspended == SuspendLanes(finished, wip, wip.lanes)
<1>1. PICK r \in Root : /\ r = wip.root /\ r = Head(stack).root
                       /\ wip.lanes = Head(stack).lanes /\ wip.lanes \in SUBSET Lanes
                       /\ wip \in WorkRecord /\ roots[r] \in RootRecord
                       /\ stack # <<>> /\ stack \in Seq(CallRecord)
  BY RenderInProgress DEF GoodRoot, IInv, StackInv, AllFit
<1>2. finished \in RootRecord /\ Stuck(finished) = Stuck(roots[r])
  BY <1>1 DEF Finished, RootRecord, WorkRecord, Stuck
<1> HIDE DEF finished
<1>3. suspended \in RootRecord
  <2> DEFINE lanes == wip.lanes \ (wip.pinged \cup wip.interleaved)
  <2>1. lanes \in SUBSET Lanes
    BY <1>1
  <2> HIDE DEF lanes
  <2>2. MarkRootSuspended(finished, lanes) \in RootRecord
    BY <1>2, <2>1 DEF MarkRootSuspended, RootRecord
  <2> QED BY <2>2 DEF SuspendLanes, lanes
<1>4. Waits => \A lane \in Stuck(suspended) \ Stuck(roots[r]) : IsAwaited(r, lane)
  BY <1>1, <1>2, SuspendRenderedWakes
<1> HIDE DEF suspended
<1> DEFINE pinged == MarkRootPinged(suspended, suspended.suspendedLanes)
           delayed == [suspended EXCEPT !.timeoutHandle = TRUE]
<1>5. Stuck(pinged) \subseteq Stuck(suspended) /\ Stuck(delayed) = Stuck(suspended)
  <2>1. Stuck(pinged) \subseteq Stuck(suspended)
    BY <1>3, MarkRootPingedStuck
  <2>2. Stuck(delayed) = Stuck(suspended)
    BY <1>3 DEF Stuck, RootRecord
  <2> QED BY <2>1, <2>2
<1>6. PICK x \in {finished, suspended, pinged, delayed} :
        /\ roots' = [roots EXCEPT ![r] = x]
        /\ x = finished \/ status \in {"Suspended", "SuspendedWithDelay"}
  BY <1>1 DEF FinishConcurrentRender, CallCommitRoot, EndWithoutCommit, ThrottleFallback,
     finished, suspended
<1> HIDE DEF pinged, delayed
<1>7. wrecked \subseteq wrecked'
  BY <1>1, ThrowWrecks
     DEF FinishConcurrentRender, CallCommitRoot, EndWithoutCommit, ThrottleFallback
<1>8. \A lane \in Stuck(x) \ Stuck(roots[r]) : IsAwaited(r, lane)'
  <2>1. CASE x = finished
    BY <1>2, <2>1
  <2>2. CASE x # finished
    <3>1. Waits
      BY <1>6, <2>2, SuspendedStatusWaits
    <3>2. Stuck(x) \subseteq Stuck(suspended)
      BY <1>5, <1>6, <2>2
    <3> QED BY <1>4, <3>1, <3>2 DEF IsAwaited
  <2> QED BY <2>1, <2>2
<1> QED BY <1>6, <1>8, <1>7, RootChangeWakes

\* The root of a fatal error is wrecked.
LEMMA ThrowFatalErrorWakes ==
  ASSUME IInv, WakeInv, Rendering, ThrowFatalError, UNCHANGED listeners
  PROVE  WakeInv'
<1> DEFINE r == Head(stack).root
           x == MarkRootSuspended(PrepareFreshStack(roots[r]), Head(stack).lanes)
<1>1. /\ r \in Root /\ roots[r] \in RootRecord /\ Head(stack).lanes \in SUBSET Lanes
      /\ stack # <<>> /\ stack \in Seq(CallRecord)
  BY RenderInProgress DEF GoodRoot, IInv, StackInv, AllFit
<1>2. x \in RootRecord
  <2>1. PrepareFreshStack(roots[r]) \in RootRecord
    BY <1>1 DEF PrepareFreshStack, RootRecord
  <2> QED BY <1>1, <2>1 DEF MarkRootSuspended, RootRecord
<1>3. /\ wip' = FreshWork(r, {}) /\ Throw({})
      /\ EnsureRootIsScheduled(r, x, FreshWork(r, {}), {})
  BY DEF ThrowFatalError
<1>4. wrecked \subseteq wrecked' /\ r \in wrecked'
  BY <1>1, <1>3, ThrowWrecks, ThrowWrecksHead
<1> HIDE DEF x
<1>5. StuckLanesWake'
  BY <1>1, <1>2, <1>3, <1>4, EnsureWakes
<1>6. WaitingRenderWakes'
  BY <1>3, FreshWorkWaitsForNothing
<1> QED BY <1>5, <1>6 DEF WakeInv

LEMMA CompleteConcurrentRenderWakes ==
  ASSUME IInv, WakeInv, NEW status \in Statuses,
         CompleteConcurrentRender(status)
  PROVE  WakeInv'
<1>1. Rendering /\ status \in ExitStatuses /\ UNCHANGED listeners
  BY DEF CompleteConcurrentRender, Running, Rendering
<1>2. CASE ThrowFatalError
  BY <1>1, <1>2, ThrowFatalErrorWakes
<1>3. CASE \E attempt, lanes : RenderAgain(attempt, lanes)
  BY <1>1, <1>3, RenderAgainWakes
<1>4. CASE /\ status = "DidNotComplete"
           /\ EndWithoutCommit(SuspendLanes(roots[Head(stack).root], wip, Head(stack).lanes))
           /\ wip' = NoWork
  <2>1. PICK r \in Root : /\ r = wip.root /\ r = Head(stack).root
                         /\ wip.lanes = Head(stack).lanes /\ roots[r] \in RootRecord
    BY <1>1, RenderInProgress DEF GoodRoot
  <2> DEFINE x == SuspendLanes(roots[r], wip, wip.lanes)
  <2>2. Waits
    BY <1>1, <1>4, SuspendedStatusWaits
  <2>3. \A lane \in Stuck(x) \ Stuck(roots[r]) : IsAwaited(r, lane)
    BY <1>1, <2>1, <2>2, SuspendRenderedWakes
  <2>4. roots' = [roots EXCEPT ![r] = x] /\ UNCHANGED wrecked
    BY <1>4, <2>1 DEF EndWithoutCommit
  <2> HIDE DEF x
  <2>5. StuckLanesWake'
    <3>1. \A lane \in Stuck(x) \ Stuck(roots[r]) : IsAwaited(r, lane)'
      BY <1>1, <2>3 DEF IsAwaited
    <3> QED BY <1>1, <2>4, <3>1, RootChangeWakes
  <2>6. WaitingRenderWakes'
    BY <1>4, FreshWorkWaitsForNothing
  <2> QED BY <2>5, <2>6 DEF WakeInv
<1>5. CASE FinishConcurrentRender(status) /\ wip' = NoWork
  BY <1>1, <1>5, FinishConcurrentRenderWakes, FreshWorkWaitsForNothing DEF WakeInv
<1> QED
  BY <1>2, <1>3, <1>4, <1>5 DEF CompleteConcurrentRender, RecoverFromConcurrentError

LEMMA CompleteSyncRenderWakes ==
  ASSUME IInv, WakeInv, NEW status \in Statuses,
         CompleteSyncRender(status)
  PROVE  WakeInv'
<1>1. Rendering /\ status \in ExitStatuses /\ UNCHANGED listeners
  BY DEF CompleteSyncRender, Running, Rendering
<1>2. CASE ThrowFatalError
  BY <1>1, <1>2, ThrowFatalErrorWakes
<1>3. CASE \E attempt, lanes : RenderAgain(attempt, lanes)
  BY <1>1, <1>3, RenderAgainWakes
<1>4. CASE CallCommitRoot(Finished(Head(stack).root), status) /\ wip' = NoWork
  <2> DEFINE x == Finished(Head(stack).root)
  <2>1. PICK r \in Root : r = Head(stack).root /\ roots[r] \in RootRecord
    BY <1>1, RenderInProgress DEF GoodRoot
  <2>2. Stuck(x) = Stuck(roots[r])
    BY <2>1 DEF Finished, RootRecord, Stuck
  <2>3. roots' = [roots EXCEPT ![r] = x] /\ UNCHANGED wrecked
    BY <1>4, <2>1 DEF CallCommitRoot
  <2> HIDE DEF x
  <2>4. StuckLanesWake'
    BY <1>1, <2>2, <2>3, RootChangeWakes
  <2> QED BY <1>4, <2>4, FreshWorkWaitsForNothing DEF WakeInv
<1> QED BY <1>2, <1>3, <1>4 DEF CompleteSyncRender, RecoverFromConcurrentError

LEMMA CommitRootWakes ==
  ASSUME IInv, WakeInv, CommitRoot
  PROVE  WakeInv'
<1> DEFINE r == Head(stack).root
           x == Committed(roots[r])
<1>1. stack # <<>> /\ Head(stack).function = "commitRoot" /\ UNCHANGED <<listeners, wrecked>>
  BY DEF CommitRoot, Running, Idle
<1>2. r \in Root /\ roots[r] \in RootRecord
  BY <1>1, RunningCall DEF GoodCall, IInv, RootsAgree
<1>3. CASE UNCHANGED <<roots, wip>>
  BY <1>1, <1>3, NothingWakes
<1>4. CASE roots' = [roots EXCEPT ![r] = x] /\ wip' \in {NoWork, wip}
  <2>1. Stuck(x) = {}
    BY <1>2, CommittedStuck
  <2> HIDE DEF x
  <2>2. StuckLanesWake'
    BY <1>1, <1>2, <1>4, <2>1, RootChangeWakes
  <2>3. WaitingRenderWakes'
    BY <1>1, <1>4, FreshWorkWaitsForNothing DEF WakeInv, WaitingRenderWakes, Waits
  <2> QED BY <2>2, <2>3 DEF WakeInv
<1> QED BY <1>3, <1>4 DEF CommitRoot

LEMMA RunCommitTimerWakes ==
  ASSUME IInv, WakeInv, NEW r \in Root, RunCommitTimer(r)
  PROVE  WakeInv'
<1> DEFINE x == [roots[r] EXCEPT !.timeoutHandle = FALSE]
<1>1. roots' = [roots EXCEPT ![r] = x] /\ UNCHANGED <<wip, listeners, wrecked>>
  BY DEF RunCommitTimer, hostVars
<1>2. Stuck(x) = Stuck(roots[r])
  BY DEF IInv, RootsAgree, RootRecord, Stuck
<1> HIDE DEF x
<1>3. StuckLanesWake'
  BY <1>1, <1>2, RootChangeWakes
<1> QED BY <1>1, <1>3 DEF WakeInv, WaitingRenderWakes, Waits

LEMMA EndWakes ==
  ASSUME IInv, WakeInv, EndConcurrentWork \/ EndSyncWork \/ CommitEnds
  PROVE  WakeInv'
<1> DEFINE r == Head(stack).root
<1>1. /\ stack # <<>> /\ Head(stack).function \in Workers \cup {"commitRoot"}
      /\ EnsureRootIsScheduled(r, roots[r], wip, {})
      /\ UNCHANGED <<wip, listeners>>
      /\ UNCHANGED wrecked \/ Throw({r})
  BY DEF EndConcurrentWork, EndSyncWork, CommitEnds, Running, Idle, Workers
<1>2. r \in Root
  BY <1>1, RunningCall DEF GoodCall, Workers
<1>3. wrecked \subseteq wrecked'
  BY <1>1, ThrowWrecks DEF IInv, StackInv, AllFit
<1> QED BY <1>1, <1>2, <1>3, EnsureOfRootWakes

LEMMA NextWakes ==
  ASSUME IInv, WakeInv, Next
  PROVE  WakeInv'
<1>1. ASSUME NEW r \in Root, NEW lane \in UpdateLanes,
             \/ Update(r, lane)
             \/ LayoutEffectUpdate(r, lane)
             \/ PassiveEffectUpdate(r, lane)
      PROVE  WakeInv'
  BY <1>1, ScheduleUpdateOnFiberWakes DEF Update, LayoutEffectUpdate, PassiveEffectUpdate
<1>2. CASE \/ FlushSync
           \/ Microtask
           \/ \E t \in tasks : RunTask(t)
           \/ RunFlushTask
           \/ RunPassiveTask
           \/ RenderYields
           \/ ReturnContinuation
           \/ CommitFlushesPassiveEffects
           \/ CommitFlushesOwnEffects
           \/ CommitFlushesSyncCallbacks
           \/ PassiveEffectsEnd
           \/ FlushSyncCallbacks
  BY <1>2, NothingWakes
     DEF FlushSync, Microtask, RunTask, RunFlushTask, RunPassiveTask, RenderYields,
         ReturnContinuation, CommitFlushesPassiveEffects, CommitFlushesOwnEffects,
         CommitFlushesSyncCallbacks, PassiveEffectsEnd, FlushSyncCallbacks, hostVars
<1>3. CASE \E r \in Root : RunCommitTimer(r)
  BY <1>3, RunCommitTimerWakes
<1>4. CASE \E l \in listeners : PingSuspendedRoot(l)
  BY <1>4, PingSuspendedRootWakes
<1>5. CASE \E r \in Root, lane \in Lanes : RetryTimedOutBoundary(r, lane)
  BY <1>5, RetryTimedOutBoundaryWakes
<1>6. CASE PerformConcurrentWork \/ PerformSyncWork
  BY <1>6, PerformWorkWakes
<1>7. CASE \E r \in Root : RenderPhaseUpdate(r)
  BY <1>7, RenderPhaseUpdateWakes
<1>8. CASE ComponentSuspends \/ ShellSuspends
  BY <1>8, SuspendWakes DEF ComponentSuspends, ShellSuspends
<1>9. CASE ComponentThrows
  BY <1>9, ComponentThrowsWakes
<1>10. CASE \E status \in Statuses :
              CompleteConcurrentRender(status) \/ CompleteSyncRender(status)
  BY <1>10, CompleteConcurrentRenderWakes, CompleteSyncRenderWakes
<1>11. CASE EndConcurrentWork \/ EndSyncWork \/ CommitEnds
  BY <1>11, EndWakes
<1>12. CASE CommitRoot
  BY <1>12, CommitRootWakes
<1> QED
  BY <1>1, <1>2, <1>3, <1>4, <1>5, <1>6, <1>7, <1>8, <1>9, <1>10, <1>11, <1>12 DEF Next

\* A lane that a render suspended is brought back: as long as it is pending and
\* not pinged, attachPingListener has left a listener for it, whatever pings,
\* updates, commits and other renders come between.  Only a root that an error has
\* left in the middle of a call is excepted: a fatal error suspends lanes that
\* nothing will ping.
THEOREM SuspendedRendersWake == Spec => []SuspendedLanesWake
<1>1. Init => WakeInv
  <2> SUFFICES ASSUME Init PROVE WakeInv
    OBVIOUS
  <2>1. \A r \in Root : Stuck(roots[r]) = {}
    BY DEF Init, NewRoot, Stuck
  <2>2. wip.unwinds = FALSE /\ wip.exit = "InProgress"
    BY DEF Init, NoWork
  <2> QED BY <2>1, <2>2 DEF WakeInv, StuckLanesWake, WaitingRenderWakes, Waits
<1>2. IInv /\ WakeInv /\ [Next]_vars => WakeInv'
  BY NextWakes, NothingWakes DEF vars, hostVars
<1>3. WakeInv => SuspendedLanesWake
  BY DEF WakeInv, StuckLanesWake, Stuck, IsAwaited, SuspendedLanesWake
<1> QED BY <1>1, <1>2, <1>3, Invariance, PTL DEF Spec

-----------------------------------------------------------------------------
(* The stack as a set of frames *)

\* A call and the call it lies on.
Frame(c, b) == [call |-> c, on |-> b]
Frames(s) == {Frame(s[i], Below(s, i)) : i \in 1..Len(s)}

IsFlush(c) == c.function = "flushSyncCallbacks"
NoFlush(s) == \A i \in 1..Len(s) : ~IsFlush(s[i])
OneFlush(s) == \A i, j \in 1..Len(s) : IsFlush(s[i]) /\ IsFlush(s[j]) => i = j

LEMMA EmptyFrames ==
  Frames(<<>>) = {} /\ NoFlush(<<>>) /\ OneFlush(<<>>)
<1>1. Len(<<>>) = 0
  BY EmptySeq
<1> QED BY <1>1 DEF Frames, NoFlush, OneFlush

LEMMA PushFrames ==
  ASSUME NEW s \in Seq(CallRecord), NEW c \in CallRecord
  PROVE  LET t == <<c>> \o s
         IN  /\ t \in Seq(CallRecord) /\ t # <<>>
             /\ Head(t) = c /\ Tail(t) = s /\ Top(t) = c
             /\ Frames(t) = {Frame(c, Top(s))} \cup Frames(s)
             /\ NoFlush(t) <=> ~IsFlush(c) /\ NoFlush(s)
             /\ OneFlush(s) /\ (IsFlush(c) => NoFlush(s)) => OneFlush(t)
<1> DEFINE t == <<c>> \o s
<1>1. <<c>> \in Seq(CallRecord) /\ Len(<<c>>) = 1 /\ <<c>>[1] = c
  OBVIOUS
<1>2. Len(s) \in Nat /\ (s = <<>> <=> Len(s) = 0)
  BY LenProperties, EmptySeq
<1>3. /\ t \in Seq(CallRecord)
      /\ Len(t) = Len(s) + 1
      /\ \A i \in 1..(Len(s) + 1) : t[i] = IF i <= 1 THEN c ELSE s[i - 1]
  <2> HIDE DEF t
  <2>1. /\ t \in Seq(CallRecord)
        /\ Len(t) = Len(<<c>>) + Len(s)
        /\ \A i \in 1..(Len(<<c>>) + Len(s)) :
             t[i] = IF i <= Len(<<c>>) THEN <<c>>[i] ELSE s[i - Len(<<c>>)]
    BY <1>1, ConcatProperties DEF t
  <2> QED BY <1>1, <1>2, <2>1
<1> HIDE DEF t
<1>4. t # <<>> /\ t[1] = c /\ Top(t) = c /\ Head(t) = c
  BY <1>2, <1>3, EmptySeq DEF Top
<1>5. Tail(t) = s
  <2>1. /\ Tail(t) \in Seq(CallRecord) /\ Len(Tail(t)) = Len(t) - 1
        /\ \A i \in 1..Len(Tail(t)) : Tail(t)[i] = t[i + 1]
    BY <1>3, <1>4, HeadTailProperties
  <2>2. Len(Tail(t)) = Len(s) /\ \A i \in 1..Len(Tail(t)) : Tail(t)[i] = s[i]
    BY <1>2, <1>3, <2>1
  <2> QED BY <2>1, <2>2, SeqEqual
<1>6. \A i \in 1..Len(s) : i + 1 \in 1..Len(t) /\ t[i + 1] = s[i]
  BY <1>2, <1>3
<1>7. \A i \in 1..Len(t) : i = 1 \/ (i - 1 \in 1..Len(s) /\ t[i] = s[i - 1])
  BY <1>2, <1>3
<1>8. Frames(t) = {Frame(c, Top(s))} \cup Frames(s)
  <2>1. Below(t, 1) = Top(s)
    BY <1>2, <1>3 DEF Below, Top
  <2>2. \A i \in 1..Len(s) : Below(t, i + 1) = Below(s, i)
    BY <1>2, <1>3 DEF Below
  <2>3. 1 \in 1..Len(t)
    BY <1>2, <1>3
  <2>4. ASSUME NEW f \in Frames(t) PROVE f \in {Frame(c, Top(s))} \cup Frames(s)
    <3>1. PICK i \in 1..Len(t) : f = Frame(t[i], Below(t, i))
      BY DEF Frames
    <3>2. CASE i = 1
      BY <1>4, <2>1, <3>1, <3>2
    <3>3. CASE i # 1
      <4>1. i - 1 \in 1..Len(s) /\ t[i] = s[i - 1]
        BY <1>7, <3>3
      <4>2. Below(t, i) = Below(s, i - 1)
        <5>1. Below(t, (i - 1) + 1) = Below(s, i - 1)
          BY <2>2, <4>1
        <5>2. (i - 1) + 1 = i
          OBVIOUS
        <5> QED BY <5>1, <5>2
      <4> QED BY <3>1, <4>1, <4>2 DEF Frames
    <3> QED BY <3>2, <3>3
  <2>5. Frame(c, Top(s)) \in Frames(t)
    BY <1>4, <2>1, <2>3 DEF Frames
  <2>6. ASSUME NEW f \in Frames(s) PROVE f \in Frames(t)
    <3>1. PICK i \in 1..Len(s) : f = Frame(s[i], Below(s, i))
      BY DEF Frames
    <3>2. i + 1 \in 1..Len(t) /\ t[i + 1] = s[i] /\ Below(t, i + 1) = Below(s, i)
      BY <1>6, <2>2
    <3> QED BY <3>1, <3>2 DEF Frames
  <2> QED BY <2>4, <2>5, <2>6
<1>9. NoFlush(t) <=> ~IsFlush(c) /\ NoFlush(s)
  <2>1. ASSUME NoFlush(t) PROVE ~IsFlush(c) /\ NoFlush(s)
    <3>1. 1 \in 1..Len(t)
      BY <1>2, <1>3
    <3> QED BY <1>4, <1>6, <2>1, <3>1 DEF NoFlush
  <2>2. ASSUME ~IsFlush(c), NoFlush(s) PROVE NoFlush(t)
    BY <1>4, <1>7, <2>2 DEF NoFlush
  <2> QED BY <2>1, <2>2
<1>10. ASSUME OneFlush(s), IsFlush(c) => NoFlush(s) PROVE OneFlush(t)
  <2> SUFFICES ASSUME NEW i \in 1..Len(t), NEW j \in 1..Len(t),
                      IsFlush(t[i]), IsFlush(t[j])
               PROVE  i = j
    BY DEF OneFlush
  <2>1. CASE i = 1 \/ j = 1
    BY <1>4, <1>7, <1>10, <2>1 DEF NoFlush
  <2>2. CASE i # 1 /\ j # 1
    <3>1. /\ i - 1 \in 1..Len(s) /\ IsFlush(s[i - 1])
          /\ j - 1 \in 1..Len(s) /\ IsFlush(s[j - 1])
      BY <1>7, <2>2
    <3>2. i - 1 = j - 1
      BY <1>10, <3>1 DEF OneFlush
    <3> QED BY <3>2
  <2> QED BY <2>1, <2>2
<1> QED BY <1>3, <1>4, <1>5, <1>8, <1>9, <1>10 DEF t

LEMMA PopFrames ==
  ASSUME NEW s \in Seq(CallRecord), s # <<>>
  PROVE  /\ Head(s) \in CallRecord /\ Tail(s) \in Seq(CallRecord)
         /\ s = <<Head(s)>> \o Tail(s) /\ Top(s) = Head(s)
         /\ Frames(s) = {Frame(Head(s), Top(Tail(s)))} \cup Frames(Tail(s))
         /\ NoFlush(s) <=> ~IsFlush(Head(s)) /\ NoFlush(Tail(s))
         /\ OneFlush(s) => /\ OneFlush(Tail(s))
                           /\ IsFlush(Head(s)) => NoFlush(Tail(s))
<1> DEFINE c == Head(s)
           u == Tail(s)
<1>1. c \in CallRecord /\ u \in Seq(CallRecord) /\ s = <<c>> \o u /\ Top(s) = c
  <2>1. c \in CallRecord /\ u \in Seq(CallRecord) /\ Top(s) = c
    BY HeadTailProperties DEF Top
  <2>2. /\ Len(s) \in Nat \ {0} /\ Len(u) = Len(s) - 1
        /\ \A i \in 1..Len(u) : u[i] = s[i + 1]
    BY HeadTailProperties, EmptySeq, LenProperties
  <2> DEFINE t == <<c>> \o u
  <2>3. <<c>> \in Seq(CallRecord) /\ Len(<<c>>) = 1 /\ <<c>>[1] = c
    BY <2>1
  <2>4. /\ t \in Seq(CallRecord)
        /\ Len(t) = Len(<<c>>) + Len(u)
        /\ \A i \in 1..(Len(<<c>>) + Len(u)) :
             t[i] = IF i <= Len(<<c>>) THEN <<c>>[i] ELSE u[i - Len(<<c>>)]
    BY <2>1, <2>3, ConcatProperties
  <2> HIDE DEF t
  <2>5. Len(t) = Len(s) /\ \A i \in 1..Len(t) : t[i] = IF i <= 1 THEN c ELSE u[i - 1]
    BY <2>2, <2>3, <2>4
  <2>6. s[1] = c
    OBVIOUS
  <2> HIDE DEF c, u
  <2>7. \A i \in 1..Len(t) : t[i] = s[i]
    <3> TAKE i \in 1..Len(t)
    <3>1. CASE i = 1
      BY <2>5, <2>6, <3>1
    <3>2. CASE i # 1
      <4>1. i - 1 \in 1..Len(u) /\ (i - 1) + 1 = i
        BY <2>2, <2>5, <3>2
      <4> QED BY <2>2, <2>5, <3>2, <4>1
    <3> QED BY <3>1, <3>2
  <2>8. t = s
    BY <2>4, <2>5, <2>7, SeqEqual
  <2> QED BY <2>1, <2>8 DEF t, c, u
<1> HIDE DEF c, u
<1>2. /\ Frames(s) = {Frame(c, Top(u))} \cup Frames(u)
      /\ NoFlush(s) <=> ~IsFlush(c) /\ NoFlush(u)
  BY <1>1, PushFrames
<1>3. ASSUME OneFlush(s) PROVE OneFlush(u) /\ (IsFlush(c) => NoFlush(u))
  <2>1. /\ Len(s) \in Nat \ {0} /\ Len(u) = Len(s) - 1
        /\ \A i \in 1..Len(u) : u[i] = s[i + 1]
    BY HeadTailProperties, EmptySeq, LenProperties DEF u
  <2>2. s[1] = c
    BY DEF c
  <2>3. \A i \in 1..Len(u) : i + 1 \in 1..Len(s) /\ i + 1 # 1 /\ u[i] = s[i + 1]
    BY <2>1
  <2>4. OneFlush(u)
    <3> SUFFICES ASSUME NEW i \in 1..Len(u), NEW j \in 1..Len(u),
                        IsFlush(u[i]), IsFlush(u[j])
                 PROVE  i = j
      BY DEF OneFlush
    <3>1. i + 1 = j + 1
      BY <1>3, <2>3 DEF OneFlush
    <3> QED BY <3>1
  <2>5. IsFlush(c) => NoFlush(u)
    <3>1. 1 \in 1..Len(s)
      BY <2>1
    <3> QED BY <1>3, <2>2, <2>3, <3>1 DEF OneFlush, NoFlush
  <2> QED BY <2>4, <2>5
<1> QED BY <1>1, <1>2, <1>3 DEF c, u

\* flushSyncCallbacks is on the stack if it is the call of a frame.
LEMMA FlushFrames ==
  ASSUME NEW s \in Seq(CallRecord)
  PROVE  NoFlush(s) <=> \A f \in Frames(s) : ~IsFlush(f.call)
<1>1. \A f \in Frames(s) : \E i \in 1..Len(s) : f.call = s[i]
  BY DEF Frames, Frame
<1>2. ASSUME NEW i \in 1..Len(s) PROVE \E f \in Frames(s) : f.call = s[i]
  <2>1. Frame(s[i], Below(s, i)) \in Frames(s)
    BY DEF Frames
  <2>2. Frame(s[i], Below(s, i)).call = s[i]
    BY DEF Frame
  <2> QED BY <2>1, <2>2
<1> QED BY <1>1, <1>2 DEF NoFlush

LEMMA FlushingIsFlush ==
  ASSUME stack \in Seq(CallRecord)
  PROVE  IsFlushingSyncQueue <=> ~NoFlush(stack)
<1>1. DOMAIN stack = 1..Len(stack)
  BY LenProperties
<1> QED BY <1>1 DEF IsFlushingSyncQueue, NoFlush, IsFlush

-----------------------------------------------------------------------------
(* The shape of the stack *)

\* performSyncWorkOnRoot is only called by flushSyncCallbacks, and only one
\* flushSyncCallbacks is in progress.  commitRoot commits the root of its caller;
\* nothing is called from the middle of it.
FrameOk(f) ==
  /\ f.on.at # "layout"
  /\ f.call.at = "layout" => f.call.function = "commitRoot"
  /\ f.call.function = "performSyncWorkOnRoot" => IsFlush(f.on) /\ ~f.call.sliced
  /\ f.call.function = "commitRoot" /\ f.on.function = "performSyncWorkOnRoot"
       => f.call.root = f.on.root

Shape(s) == OneFlush(s) /\ \A f \in Frames(s) : FrameOk(f)

\* A commit that performSyncWorkOnRoot has called, and that is still to begin.
IsSyncCommit(f) ==
  /\ f.call.function = "commitRoot"
  /\ f.call.at = "start"
  /\ f.on.function = "performSyncWorkOnRoot"

\* It has a tree to commit.
CommitsHaveTrees ==
  \A f \in Frames(stack) : IsSyncCommit(f) => roots[f.call.root].finishedLanes # {}

\* No call of s is one of performSyncWorkOnRoot, or lies on one.
NoSync(s) == \A f \in Frames(s) : "performSyncWorkOnRoot" \notin {f.call.function, f.on.function}

LEMMA NoFlushNoSync ==
  ASSUME NEW s \in Seq(CallRecord), Shape(s), NoFlush(s)
  PROVE  NoSync(s) /\ Top(s).function # "performSyncWorkOnRoot"
<1>1. Len(s) \in Nat /\ NoCall.function = "none"
  BY LenProperties DEF NoCall, Call
<1>2. \A i \in 1..Len(s) : Below(s, i) = NoCall \/ \E j \in 1..Len(s) : Below(s, i) = s[j]
  BY <1>1 DEF Below
<1>3. \A i \in 1..Len(s) : ~IsFlush(Below(s, i))
  BY <1>1, <1>2 DEF NoFlush, IsFlush
<1>4. \A i \in 1..Len(s) : s[i].function # "performSyncWorkOnRoot"
  <2> SUFFICES ASSUME NEW i \in 1..Len(s), s[i].function = "performSyncWorkOnRoot"
               PROVE  FALSE
    OBVIOUS
  <2> DEFINE f == Frame(s[i], Below(s, i))
  <2>1. f \in Frames(s) /\ f.call = s[i] /\ f.on = Below(s, i)
    BY DEF Frames, Frame
  <2> HIDE DEF f
  <2>2. IsFlush(Below(s, i))
    BY <2>1 DEF Shape, FrameOk
  <2> QED BY <1>3, <2>2
<1>5. \A f \in Frames(s) : \E i \in 1..Len(s) : f.call = s[i] /\ f.on = Below(s, i)
  BY DEF Frames, Frame
<1>6. Top(s) = NoCall \/ (Top(s) = s[1] /\ 1 \in 1..Len(s))
  BY <1>1, EmptySeq DEF Top
<1> QED BY <1>1, <1>2, <1>4, <1>5, <1>6 DEF NoSync

LEMMA FrameFields ==
  ASSUME NEW c, NEW b
  PROVE  Frame(c, b).call = c /\ Frame(c, b).on = b
<1> QED BY DEF Frame

\* Below a call that renders there is no other such call but the bottom one,
\* which waits for its passive effects.
LEMMA NoSyncBelowWorker ==
  ASSUME NEW rts, NEW s, AllFit(rts, s), Shape(s), s # <<>>, Head(s).function \in Workers
  PROVE  NoSync(Tail(s))
<1>1. /\ s \in Seq(CallRecord) /\ Tail(s) \in Seq(CallRecord)
      /\ Frames(s) = {Frame(Head(s), Top(Tail(s)))} \cup Frames(Tail(s))
      /\ OneFlush(Tail(s))
  BY PopFrames DEF AllFit, Shape
<1>2. CASE Head(s).function = "performConcurrentWorkOnRoot"
  <2>1. Tail(s) = <<>>
    BY <1>2, PopFits
  <2> QED BY <2>1, EmptyFrames DEF NoSync
<1>3. CASE Head(s).function = "performSyncWorkOnRoot"
  <2> DEFINE u == Tail(s)
  <2>1. IsFlush(Top(u))
    <3>1. FrameOk(Frame(Head(s), Top(u)))
      BY <1>1 DEF Shape
    <3> QED BY <1>3, <3>1, FrameFields DEF FrameOk
  <2>2. u # <<>>
    BY <2>1 DEF Top, IsFlush, NoCall, Call
  <2> HIDE DEF u
  <2>3. /\ u \in Seq(CallRecord) /\ Shape(u)
    BY <1>1 DEF Shape, u
  <2>4. /\ Tail(u) \in Seq(CallRecord) /\ Top(u) = Head(u)
        /\ Frames(u) = {Frame(Head(u), Top(Tail(u)))} \cup Frames(Tail(u))
        /\ OneFlush(Tail(u)) /\ (IsFlush(Head(u)) => NoFlush(Tail(u)))
    BY <2>2, <2>3, PopFrames DEF Shape
  <2>5. NoSync(Tail(u)) /\ Top(Tail(u)).function # "performSyncWorkOnRoot"
    BY <2>1, <2>3, <2>4, NoFlushNoSync DEF Shape
  <2>6. Head(u).function # "performSyncWorkOnRoot"
    BY <2>1, <2>4 DEF IsFlush
  <2> QED BY <2>4, <2>5, <2>6, FrameFields DEF NoSync, u
<1> QED BY <1>2, <1>3 DEF Workers

\* At most the running call is a commit that performSyncWorkOnRoot called and
\* that is still to begin, once it does run.
LEMMA NoSyncCommitBelowCommit ==
  ASSUME NEW rts, NEW s, AllFit(rts, s), Shape(s), s # <<>>, Head(s).function = "commitRoot"
  PROVE  \A f \in Frames(Tail(s)) : ~IsSyncCommit(f)
<1> DEFINE u == Tail(s)
<1>1. /\ s \in Seq(CallRecord) /\ u \in Seq(CallRecord)
      /\ Frames(s) = {Frame(Head(s), Top(u))} \cup Frames(u)
      /\ OneFlush(u)
  BY PopFrames DEF AllFit, Shape
<1>2. AllFit(rts, u) /\ Fits(rts, Head(s), Top(u)) /\ Shape(u)
  BY <1>1, PopFits DEF Shape
<1> HIDE DEF u
<1>3. CASE u = <<>>
  BY <1>3, EmptyFrames DEF u
<1>4. CASE u # <<>>
  <2>1. /\ Top(u) = Head(u) /\ Head(u) \in CallRecord
        /\ Frames(u) = {Frame(Head(u), Top(Tail(u)))} \cup Frames(Tail(u))
    BY <1>1, <1>4, PopFrames
  <2>2. Head(u).function \in Workers
    BY <1>2, <2>1 DEF Fits, CallRecord, Workers
  <2>3. NoSync(Tail(u))
    BY <1>2, <1>4, <2>2, NoSyncBelowWorker
  <2>4. ~IsSyncCommit(Frame(Head(u), Top(Tail(u))))
    BY <2>2, FrameFields DEF IsSyncCommit, Workers
  <2>5. \A f \in Frames(u) : ~IsSyncCommit(f)
    BY <2>1, <2>3, <2>4 DEF IsSyncCommit, NoSync
  <2> QED BY <2>5 DEF u
<1> QED BY <1>3, <1>4

-----------------------------------------------------------------------------
(* What ensureRootIsScheduled does *)

\* The Sync lane comes first, and entanglement does not bring it in.
LEMMA SyncLaneComesFirst ==
  ASSUME NEW root, LaneFields(root),
         \A l \in Lanes : root.entanglements[l] \subseteq TransitionLanes,
         NEW wipLanes \in SUBSET Lanes, SyncLane \in wipLanes => SyncLane \in root.pendingLanes
  PROVE  SyncLane \in GetNextLanes(root, wipLanes) <=> SyncLane \in Workable(root)
<1> DEFINE nextLanes == HighestPriorityLanes(Workable(root))
           batch == IF InputContinuousLane \in nextLanes
                    THEN nextLanes \cup (root.pendingLanes \cap {DefaultLane})
                    ELSE nextLanes
<1>1. Workable(root) \in SUBSET Lanes
  BY WorkableLanes
<1>2. nextLanes \subseteq Workable(root) /\ nextLanes \in SUBSET Lanes
  BY <1>1, HighestPriorityLanesAreLanes
<1>3. SyncLane = 0 /\ SyncLane \notin TransitionLanes /\ DefaultLane # SyncLane
  BY DEF SyncLane, TransitionLanes, DefaultLane
<1>4. SyncLane \in batch <=> SyncLane \in nextLanes
  BY <1>3
<1>5. batch \in SUBSET Lanes
  BY <1>2 DEF LaneFields
<1>6. GetNextLanes(root, wipLanes) =
        IF nextLanes # {} /\ KeepsWorking(root, wipLanes, nextLanes)
        THEN wipLanes ELSE WithEntanglements(root, batch)
  BY DEF GetNextLanes
<1> HIDE DEF nextLanes, batch
<1>7. SyncLane \in WithEntanglements(root, batch) <=> SyncLane \in batch
  <2>1. \A l \in batch : SyncLane \notin root.entanglements[l]
    BY <1>3, <1>5
  <2> QED BY <2>1 DEF WithEntanglements
<1>8. \A S \in SUBSET Lanes : SyncLane \in S => HighestPriorityLane(S) = SyncLane
  <2> TAKE S \in SUBSET Lanes
  <2> HAVE SyncLane \in S
  <2>1. HighestPriorityLane(S) \in S /\ HighestPriorityLane(S) <= SyncLane
    BY HighestPriorityLaneIsLeast
  <2> DEFINE top == HighestPriorityLane(S)
  <2>2. top \in 0..30 /\ top <= 0
    BY <1>3, <2>1, LanesAssumption
  <2> HIDE DEF top
  <2>3. top = 0
    BY <2>2
  <2> QED BY <1>3, <2>3 DEF top
<1>9. ASSUME SyncLane \in Workable(root) PROVE SyncLane \in nextLanes
  <2>1. HighestPriorityLane(Workable(root)) = SyncLane
    BY <1>1, <1>8, <1>9
  <2> QED BY <1>1, <1>9, <2>1, HighestPriorityLanesAreLanes DEF nextLanes
<1>10. ASSUME SyncLane \in nextLanes, KeepsWorking(root, wipLanes, nextLanes)
       PROVE  SyncLane \in wipLanes
  <2>1. HighestPriorityLane(nextLanes) = SyncLane
    BY <1>2, <1>8, <1>10
  <2> DEFINE wipLane == HighestPriorityLane(wipLanes)
  <2>2. wipLanes # {} /\ (SyncLane >= wipLane \/ SyncLane = DefaultLane)
    BY <1>10, <2>1 DEF KeepsWorking
  <2>3. wipLane \in wipLanes /\ wipLane \in 0..30
    BY <2>2, HighestPriorityLaneIsLeast, LanesAssumption
  <2> HIDE DEF wipLane
  <2>4. wipLane = 0
    BY <1>3, <2>2, <2>3
  <2> QED BY <1>3, <2>3, <2>4
<1>11. ASSUME SyncLane \in wipLanes, KeepsWorking(root, wipLanes, nextLanes)
       PROVE  SyncLane \in Workable(root)
  <2>1. SyncLane \in root.pendingLanes /\ SyncLane \notin root.suspendedLanes
    BY <1>11 DEF KeepsWorking
  <2>2. SyncLane \in NonIdleLanes
    BY DEF NonIdleLanes, SyncLane
  <2> QED BY <2>1, <2>2 DEF Workable, Unblocked, Candidates
<1> QED BY <1>2, <1>4, <1>6, <1>7, <1>9, <1>10, <1>11

\* The priority a root is scheduled with tells whether it has work, and whether
\* it has any of the Sync lane.
Settled(x) ==
  /\ x.callbackPriority # NoLane <=> Workable(x) # {}
  /\ x.callbackPriority = SyncLane <=> SyncLane \in Workable(x)

\* A root has a Scheduler task exactly for work that is not of the Sync lane.
CallbackFits(x) == x.callbackNode # NoNode <=> x.callbackPriority \notin {NoLane, SyncLane}

\* What ensureRootIsScheduled(r) does.
Reschedule(r) ==
  /\ \A q \in Root \ {r} : roots'[q] = roots[q]
  /\ Settled(roots'[r])
  /\ CallbackFits(roots'[r])
  /\ \/ /\ roots'[r].callbackNode = roots[r].callbackNode
        /\ roots'[r].callbackPriority = roots[r].callbackPriority
        /\ UNCHANGED <<tasks, syncQueue, microtasks>>
     \/ /\ roots'[r].callbackNode # NoNode =>
             /\ [node |-> roots'[r].callbackNode, root |-> r] \in tasks'
             /\ \A q \in Root : roots'[r].callbackNode # roots[q].callbackNode
        /\ \A t \in tasks : t.node # roots[r].callbackNode => t \in tasks'
        /\ IF roots'[r].callbackPriority = SyncLane
           THEN syncQueue' = Append(syncQueue, r) /\ microtasks' = microtasks + 1
           ELSE UNCHANGED <<syncQueue, microtasks>>

\* The fields that ensureRootIsScheduled reads and replaces.
SameCallback(x, y) ==
  x.callbackNode = y.callbackNode /\ x.callbackPriority = y.callbackPriority

LEMMA EnsureReschedules ==
  ASSUME RootsAgree, NEW r \in Root, NEW root, GoodRoot(root), SameCallback(root, roots[r]),
         CallbackFits(root), NEW work \in WorkRecord,
         SyncLane \in WipLanes(work, r) => SyncLane \in root.pendingLanes,
         NEW entangled, EnsureRootIsScheduled(r, root, work, entangled)
  PROVE  /\ Reschedule(r)
         /\ SameLanes(roots'[r], root)
<1>1. PICK due \in {{}, MayBeDue(root)} :
        LET marked == MarkStarvedLanesAsExpired(root, due)
            nextLanes == GetNextLanes(marked, WipLanes(work, r))
            priority == HighestPriorityLane(nextLanes)
            others == {t \in tasks : t.node # root.callbackNode}
            Record(node) ==
              roots' = [roots EXCEPT ![r] = Recorded(root, due, node, priority, entangled)]
        IN  \/ /\ nextLanes = {} /\ Record(NoNode) /\ tasks' = others
               /\ UNCHANGED <<syncQueue, microtasks>>
            \/ /\ nextLanes # {} /\ priority = root.callbackPriority
               /\ Record(root.callbackNode) /\ UNCHANGED <<tasks, syncQueue, microtasks>>
            \/ /\ nextLanes # {} /\ priority = SyncLane
               /\ Record(NoNode) /\ tasks' = others
               /\ syncQueue' = Append(syncQueue, r) /\ microtasks' = microtasks + 1
            \/ /\ nextLanes # {} /\ priority # SyncLane
               /\ \E node \in NodeId :
                    /\ FreeNode(node)
                    /\ Record(node) /\ tasks' = others \cup {[node |-> node, root |-> r]}
               /\ UNCHANGED <<syncQueue, microtasks>>
  BY ZenonT(60) DEF EnsureRootIsScheduled, Recorded
<1> DEFINE marked == MarkStarvedLanesAsExpired(root, due)
           nextLanes == GetNextLanes(marked, WipLanes(work, r))
           priority == HighestPriorityLane(nextLanes)
           others == {t \in tasks : t.node # root.callbackNode}
           New(node) == Recorded(root, due, node, priority, entangled)
<1>2. GoodRoot(marked) /\ SameLanes(marked, root)
  <2>1. GoodRoot(marked)
    BY MarkStarvedLanesAsExpiredIsGood
  <2>2. root \in RootRecord
    BY DEF GoodRoot
  <2>3. SameLanes(marked, root)
    BY <2>2 DEF RootRecord, SameLanes, MarkStarvedLanesAsExpired
  <2> QED BY <2>1, <2>3
<1>3. WipLanes(work, r) \in SUBSET Lanes
  BY DEF WipLanes, WorkRecord
<1>4. /\ nextLanes \in SUBSET Lanes
      /\ nextLanes # {} <=> Workable(root) # {}
      /\ SyncLane \in nextLanes <=> SyncLane \in Workable(root)
  <2>1. Workable(marked) = Workable(root)
    BY <1>2 DEF SameLanes, Workable, Unblocked, Candidates, Pinged
  <2>2. SyncLane \in WipLanes(work, r) => SyncLane \in marked.pendingLanes
    BY <1>2 DEF SameLanes
  <2>3. LaneFields(marked) /\ \A l \in Lanes : marked.entanglements[l] \subseteq TransitionLanes
    BY <1>2, GoodRootHasLaneFields DEF GoodRoot
  <2> HIDE DEF marked
  <2> QED BY <1>3, <2>1, <2>3, <2>2, NextLanesAreLanes, NextLanesFindWork, SyncLaneComesFirst
<1>5. \A node : /\ SameLanes(New(node), root)
                /\ New(node).callbackNode = node
                /\ New(node).callbackPriority = priority
  <2>1. root \in RootRecord
    BY DEF GoodRoot
  <2> HIDE DEF priority
  <2> QED BY <2>1, RecordedRoot
<1> HIDE DEF marked, nextLanes
<1>6. /\ priority # NoLane <=> Workable(root) # {}
      /\ priority = SyncLane <=> SyncLane \in Workable(root)
  <2>1. nextLanes # {} => /\ priority \in nextLanes
                          /\ \A k \in nextLanes : priority <= k
    BY <1>4, HighestPriorityLaneIsLeast
  <2>2. nextLanes = {} => priority = NoLane
    BY DEF HighestPriorityLane
  <2>3. NoLane = -1 /\ SyncLane = 0
    BY DEF NoLane, SyncLane
  <2> HIDE DEF priority
  <2>4. nextLanes # {} => priority \in 0..30
    BY <1>4, <2>1, LanesAssumption
  <2>5. nextLanes # {} => priority # NoLane
    BY <2>3, <2>4
  <2>6. SyncLane \in nextLanes => priority = SyncLane
    BY <2>1, <2>3, <2>4
  <2>7. priority = SyncLane => SyncLane \in nextLanes
    BY <2>1, <2>2, <2>3
  <2> QED BY <1>4, <2>2, <2>5, <2>6, <2>7
<1>7. \E node : roots' = [roots EXCEPT ![r] = New(node)]
  BY <1>1 DEF marked, nextLanes, New
<1> HIDE DEF priority
<1>8. /\ \A q \in Root \ {r} : roots'[q] = roots[q]
      /\ SameLanes(roots'[r], root)
      /\ roots'[r].callbackPriority = priority
      /\ \A node : roots' = [roots EXCEPT ![r] = New(node)]
                     => roots'[r].callbackNode = node
  <2> HIDE DEF New
  <2> QED BY <1>5, <1>7 DEF RootsAgree
<1>9. Settled(roots'[r])
  <2>1. Workable(roots'[r]) = Workable(root)
    BY <1>8 DEF SameLanes, Workable, Unblocked, Candidates, Pinged
  <2> QED BY <1>6, <1>8, <2>1 DEF Settled
<1>10. CASE /\ nextLanes = {} \/ priority = SyncLane
            /\ roots' = [roots EXCEPT ![r] = New(NoNode)] /\ tasks' = others
            /\ IF nextLanes # {}
               THEN syncQueue' = Append(syncQueue, r) /\ microtasks' = microtasks + 1
               ELSE UNCHANGED <<syncQueue, microtasks>>
  <2>1. roots'[r].callbackNode = NoNode
    BY <1>8, <1>10
  <2>2. \/ nextLanes = {} /\ priority = NoLane /\ priority # SyncLane
        \/ nextLanes # {} /\ priority = SyncLane
    BY <1>4, <1>6, <1>10 DEF NoLane, SyncLane
  <2>3. CallbackFits(roots'[r])
    BY <1>8, <2>1, <2>2 DEF CallbackFits
  <2> QED BY <1>8, <1>9, <1>10, <2>1, <2>2, <2>3 DEF Reschedule, SameCallback
<1>11. CASE /\ priority = root.callbackPriority
            /\ roots' = [roots EXCEPT ![r] = New(root.callbackNode)]
            /\ UNCHANGED <<tasks, syncQueue, microtasks>>
  <2>1. SameCallback(roots'[r], root)
    BY <1>8, <1>11 DEF SameCallback
  <2>2. CallbackFits(roots'[r])
    BY <2>1 DEF CallbackFits, SameCallback
  <2> QED BY <1>8, <1>9, <1>11, <2>1, <2>2 DEF Reschedule, SameCallback
<1>12. ASSUME nextLanes # {}, priority # SyncLane, NEW node \in NodeId, FreeNode(node),
              roots' = [roots EXCEPT ![r] = New(node)],
              tasks' = others \cup {[node |-> node, root |-> r]},
              UNCHANGED <<syncQueue, microtasks>>
       PROVE  Reschedule(r)
  <2>1. roots'[r].callbackNode = node /\ node # NoNode
    <3>1. node # NoNode
      BY <1>12 DEF NodeId, NoNode
    <3> HIDE DEF New
    <3> QED BY <1>8, <1>12, <3>1
  <2>2. CallbackFits(roots'[r])
    BY <1>4, <1>6, <1>8, <1>12, <2>1 DEF CallbackFits
  <2>3. \A q \in Root : node # roots[q].callbackNode
    BY <1>12 DEF FreeNode
  <2> QED BY <1>8, <1>9, <1>12, <2>1, <2>2, <2>3 DEF Reschedule, SameCallback
<1>13. \/ /\ nextLanes = {} \/ priority = SyncLane
          /\ roots' = [roots EXCEPT ![r] = New(NoNode)] /\ tasks' = others
          /\ IF nextLanes # {}
             THEN syncQueue' = Append(syncQueue, r) /\ microtasks' = microtasks + 1
             ELSE UNCHANGED <<syncQueue, microtasks>>
       \/ /\ priority = root.callbackPriority
          /\ roots' = [roots EXCEPT ![r] = New(root.callbackNode)]
          /\ UNCHANGED <<tasks, syncQueue, microtasks>>
       \/ /\ nextLanes # {} /\ priority # SyncLane
          /\ \E node \in NodeId :
               /\ FreeNode(node)
               /\ roots' = [roots EXCEPT ![r] = New(node)]
               /\ tasks' = others \cup {[node |-> node, root |-> r]}
          /\ UNCHANGED <<syncQueue, microtasks>>
  BY <1>1 DEF marked, nextLanes, priority
<1>14. Reschedule(r)
  <2> HIDE DEF New, others
  <2> QED BY <1>10, <1>11, <1>12, <1>13
<1> QED BY <1>8, <1>14

-----------------------------------------------------------------------------
(* The work of a root is scheduled, or a call in progress will see to it *)

\* The Scheduler task n of root r is being called.
Runs(frames, n, r) ==
  \E f \in frames : /\ f.call.function = "performConcurrentWorkOnRoot"
                    /\ f.call.root = r /\ f.call.task = n /\ f.call.node = n

\* The entry of root r has left the sync queue, and its work is still to be
\* committed.
Performs(frames, r) ==
  \E f \in frames : /\ f.call.root = r
                    /\ \/ /\ f.call.function = "performSyncWorkOnRoot"
                          /\ f.call.at \in {"start", "rendering"}
                       \/ IsSyncCommit(f)

\* A call of root r is going to call ensureRootIsScheduled(r).
Owes(frames, r) ==
  \E f \in frames : /\ f.call.root = r
                    /\ \/ f.call.function \in Workers /\ f.call.at \in {"rendering", "end"}
                       \/ f.call.function = "commitRoot" /\ f.call.at = "layout"

TaskOf(r, n) == [node |-> n, root |-> r]
HasTask(r, n) == TaskOf(r, n) \in tasks \/ Runs(Frames(stack), n, r)
HasSyncWork(r) == IsQueued(r) \/ Performs(Frames(stack), r)

RootWork(r) ==
  /\ roots[r].callbackNode # NoNode => HasTask(r, roots[r].callbackNode)
  /\ roots[r].callbackPriority = SyncLane => HasSyncWork(r)
  /\ Owes(Frames(stack), r) \/ Settled(roots[r])

OwnTasks ==
  \A q, r \in Root : q # r /\ roots[q].callbackNode # NoNode
                       => roots[q].callbackNode # roots[r].callbackNode

\* The callbacks of all roots are in order; the work of a root is scheduled unless
\* the root was wrecked.
RootsWork ==
  /\ \A r \in Root : CallbackFits(roots[r])
  /\ \A r \in Root \ wrecked : RootWork(r)
  /\ OwnTasks

QueueIsFlushed == syncQueue # <<>> => ~NoFlush(stack) \/ microtasks + flushTasks > 0

\* A commit in its layout phase, which may end with an error, has left the
\* recorded task of its root to no call in progress.
CommitIsScheduled ==
  Top(stack).at = "layout" => RecordsLiveTask(Top(stack).root)

WorkInv ==
  /\ Shape(stack)
  /\ CommitsHaveTrees
  /\ RootsWork
  /\ QueueIsFlushed
  /\ CommitIsScheduled

\* What the calls in progress do for root r, they go on to do.
CallsKept(r) ==
  /\ \A n : Runs(Frames(stack), n, r) => Runs(Frames(stack'), n, r)
  /\ Performs(Frames(stack), r) => Performs(Frames(stack'), r)
  /\ Owes(Frames(stack), r) => Owes(Frames(stack'), r)

LEMMA MoreCallsKeep ==
  ASSUME Frames(stack) \subseteq Frames(stack')
  PROVE  \A r : CallsKept(r)
<1> QED BY DEF CallsKept, Runs, Performs, Owes

\* Of the calls of the stack, only the innermost may stop doing something.
LEMMA HeadOnly ==
  ASSUME stack \in Seq(CallRecord), stack # <<>>,
         Frames(Tail(stack)) \subseteq Frames(stack')
  PROVE  /\ \A r : r # Head(stack).root => CallsKept(r)
         /\ LET h == {Frame(Head(stack), Top(Tail(stack)))}
                r == Head(stack).root
            IN  /\ \A n : Runs(Frames(stack), n, r)
                            => Runs(h, n, r) \/ Runs(Frames(stack'), n, r)
                /\ Performs(Frames(stack), r)
                     => Performs(h, r) \/ Performs(Frames(stack'), r)
                /\ Owes(Frames(stack), r) => Owes(h, r) \/ Owes(Frames(stack'), r)
<1> DEFINE h == Frame(Head(stack), Top(Tail(stack)))
           r == Head(stack).root
<1>1. Frames(stack) = {h} \cup Frames(Tail(stack)) /\ h.call = Head(stack)
  BY PopFrames, FrameFields
<1> HIDE DEF h
<1>2. \A f \in Frames(stack) : f = h \/ f \in Frames(stack')
  BY <1>1
<1>3. \A q : q # r => CallsKept(q)
  BY <1>1, <1>2 DEF CallsKept, Runs, Performs, Owes
<1>4. \A n : Runs(Frames(stack), n, r) => Runs({h}, n, r) \/ Runs(Frames(stack'), n, r)
  BY <1>1, <1>2 DEF Runs
<1>5. Performs(Frames(stack), r) => Performs({h}, r) \/ Performs(Frames(stack'), r)
  BY <1>1, <1>2 DEF Performs
<1>6. Owes(Frames(stack), r) => Owes({h}, r) \/ Owes(Frames(stack'), r)
  BY <1>1, <1>2 DEF Owes
<1> QED BY <1>3, <1>4, <1>5, <1>6 DEF h

\* What one call does.
LEMMA OneCall ==
  ASSUME NEW c, NEW b, NEW r
  PROVE  /\ \A n : Runs({Frame(c, b)}, n, r) <=>
              c.function = "performConcurrentWorkOnRoot" /\ c.root = r /\ c.task = n /\ c.node = n
         /\ Performs({Frame(c, b)}, r) <=>
              c.root = r /\ ( \/ /\ c.function = "performSyncWorkOnRoot"
                                 /\ c.at \in {"start", "rendering"}
                              \/ /\ c.function = "commitRoot" /\ c.at = "start"
                                 /\ b.function = "performSyncWorkOnRoot")
         /\ Owes({Frame(c, b)}, r) <=>
              c.root = r /\ ( \/ c.function \in Workers /\ c.at \in {"rendering", "end"}
                              \/ c.function = "commitRoot" /\ c.at = "layout")
<1>1. Frame(c, b).call = c /\ Frame(c, b).on = b
  BY FrameFields
<1> QED BY <1>1 DEF Runs, Performs, Owes, IsSyncCommit

LEMMA CallsOfSubset ==
  ASSUME NEW A, NEW B, A \subseteq B, NEW r
  PROVE  /\ \A n : Runs(A, n, r) => Runs(B, n, r)
         /\ Performs(A, r) => Performs(B, r)
         /\ Owes(A, r) => Owes(B, r)
<1> QED BY DEF Runs, Performs, Owes

LEMMA SameLanesSettled ==
  ASSUME NEW x, NEW y, SameCallback(x, y), SameLanes(x, y)
  PROVE  Settled(y) => Settled(x)
<1>1. Workable(x) = Workable(y)
  BY DEF SameLanes, Workable, Unblocked, Candidates, Pinged
<1> QED BY <1>1 DEF Settled, SameCallback

\* A root whose callback stays as it is.
LEMMA KeptWork ==
  ASSUME NEW r, RootWork(r), SameCallback(roots'[r], roots[r]),
         \A n : n = roots[r].callbackNode /\ n # NoNode /\ HasTask(r, n) => HasTask(r, n)',
         roots[r].callbackPriority = SyncLane => (HasSyncWork(r) => HasSyncWork(r)'),
         \/ Owes(Frames(stack'), r)
         \/ ~Owes(Frames(stack), r) /\ SameLanes(roots'[r], roots[r])
  PROVE  RootWork(r)'
<1>1. PICK n : n = roots[r].callbackNode
  OBVIOUS
<1>2. roots'[r].callbackPriority = SyncLane => HasSyncWork(r)'
  BY DEF RootWork, SameCallback
<1>3. Owes(Frames(stack'), r) \/ Settled(roots'[r])
  BY SameLanesSettled DEF RootWork
<1>4. n # NoNode => HasTask(r, n)'
  BY <1>1 DEF RootWork
<1>5. roots'[r].callbackNode = n
  BY <1>1 DEF SameCallback
<1> QED BY <1>2, <1>3, <1>4, <1>5 DEF RootWork

LEMMA SameCallbacks ==
  ASSUME RootsWork, \A r \in Root : SameCallback(roots'[r], roots[r])
  PROVE  (\A r \in Root : CallbackFits(roots'[r])) /\ OwnTasks'
<1> QED BY DEF RootsWork, OwnTasks, CallbackFits, SameCallback

\* Nothing happens to the roots and the queues, and no call of a root that is not
\* wrecked stops.
LEMMA QuietRoots ==
  ASSUME RootsWork, UNCHANGED <<roots, tasks, syncQueue>>, wrecked \subseteq wrecked',
         \A r \in Root : r \notin wrecked' => CallsKept(r)
  PROVE  RootsWork'
<1>1. ASSUME NEW r \in Root \ wrecked' PROVE RootWork(r)'
  <2>1. SameCallback(roots'[r], roots[r]) /\ SameLanes(roots'[r], roots[r])
    BY DEF SameCallback, SameLanes
  <2>2. \A n : HasTask(r, n) => HasTask(r, n)'
    BY DEF HasTask, CallsKept
  <2>3. HasSyncWork(r) => HasSyncWork(r)'
    BY DEF HasSyncWork, CallsKept, IsQueued
  <2>4. Owes(Frames(stack'), r) \/ ~Owes(Frames(stack), r)
    BY DEF CallsKept
  <2>5. RootWork(r)
    BY DEF RootsWork
  <2> QED BY <2>1, <2>2, <2>3, <2>4, <2>5, KeptWork
<1>2. (\A r \in Root : CallbackFits(roots'[r])) /\ OwnTasks'
  BY DEF RootsWork, OwnTasks
<1> QED BY <1>1, <1>2 DEF RootsWork

LEMMA AppendedIsQueued ==
  ASSUME QueueTypes, NEW r \in Root, syncQueue' = Append(syncQueue, r)
  PROVE  IsQueued(r)' /\ \A q : IsQueued(q) => IsQueued(q)'
<1>1. /\ Len(syncQueue) \in Nat /\ DOMAIN syncQueue = 1..Len(syncQueue)
      /\ syncQueue' \in Seq(Root) /\ Len(syncQueue') = Len(syncQueue) + 1
      /\ \A i \in 1..Len(syncQueue) : syncQueue'[i] = syncQueue[i]
      /\ syncQueue'[Len(syncQueue) + 1] = r
  BY AppendProperties, LenProperties DEF QueueTypes
<1>2. DOMAIN syncQueue' = 1..(Len(syncQueue) + 1)
  BY <1>1, LenProperties
<1>3. Len(syncQueue) + 1 \in DOMAIN syncQueue'
      /\ \A i \in DOMAIN syncQueue : i \in DOMAIN syncQueue'
  BY <1>1, <1>2
<1> QED BY <1>1, <1>3 DEF IsQueued

\* What the calls in progress do for root r, to which work of the Sync lane
\* remains or not, they go on to do, or it is in the queues.
HandedOn(r, syncRemains) ==
  /\ \A n : n = roots[r].callbackNode /\ n # NoNode /\ Runs(Frames(stack), n, r)
               => TaskOf(r, n) \in tasks \/ Runs(Frames(stack'), n, r)
  /\ syncRemains /\ roots[r].callbackPriority = SyncLane /\ Performs(Frames(stack), r)
       => IsQueued(r) \/ Performs(Frames(stack'), r)

\* ensureRootIsScheduled(r) leaves the work of every root scheduled.
LEMMA RescheduledWork ==
  ASSUME QueueTypes, NEW r \in Root, RootsWork, Reschedule(r), wrecked \subseteq wrecked',
         \A q \in Root \ {r} : q \notin wrecked' => CallsKept(q),
         r \notin wrecked' => HandedOn(r, roots'[r].callbackPriority = SyncLane)
  PROVE  RootsWork'
<1>1. \A q : IsQueued(q) => IsQueued(q)'
  BY AppendedIsQueued DEF Reschedule, IsQueued
<1>2. OwnTasks
  BY DEF RootsWork
<1>3. ASSUME NEW q \in (Root \ {r}) \ wrecked' PROVE RootWork(q)'
  <2>1. SameCallback(roots'[q], roots[q]) /\ SameLanes(roots'[q], roots[q])
    BY DEF SameCallback, SameLanes, Reschedule
  <2>2. ASSUME NEW n, n = roots[q].callbackNode, n # NoNode, HasTask(q, n)
        PROVE  HasTask(q, n)'
    <3>1. n # roots[r].callbackNode
      BY <1>2, <2>2 DEF OwnTasks
    <3>2. TaskOf(q, n) \in tasks => TaskOf(q, n) \in tasks'
      BY <3>1 DEF Reschedule, TaskOf
    <3> QED BY <2>2, <3>2 DEF HasTask, CallsKept
  <2>3. HasSyncWork(q) => HasSyncWork(q)'
    BY <1>1 DEF HasSyncWork, CallsKept
  <2>4. Owes(Frames(stack'), q) \/ ~Owes(Frames(stack), q)
    BY DEF CallsKept
  <2>5. RootWork(q)
    BY DEF RootsWork
  <2> QED BY <2>1, <2>2, <2>3, <2>4, <2>5, KeptWork
<1>4. ASSUME r \notin wrecked' PROVE RootWork(r)'
  <2>1. RootWork(r) /\ HandedOn(r, roots'[r].callbackPriority = SyncLane)
    BY <1>4 DEF RootsWork
  <2>2. PICK n : n = roots'[r].callbackNode
    OBVIOUS
  <2>3. n # NoNode => HasTask(r, n)'
    <3>1. CASE /\ roots'[r].callbackNode = roots[r].callbackNode
               /\ UNCHANGED tasks
      BY <2>2, <2>1, <3>1 DEF RootWork, HasTask, HandedOn
    <3>2. CASE n # NoNode => TaskOf(r, n) \in tasks'
      BY <3>2 DEF HasTask
    <3> QED BY <2>2, <3>1, <3>2 DEF Reschedule, TaskOf
  <2>4. roots'[r].callbackPriority = SyncLane => HasSyncWork(r)'
    <3>1. CASE roots'[r].callbackPriority = roots[r].callbackPriority
      BY <1>1, <2>1, <3>1 DEF RootWork, HasSyncWork, HandedOn
    <3>2. CASE roots'[r].callbackPriority = SyncLane => syncQueue' = Append(syncQueue, r)
      BY <3>2, AppendedIsQueued DEF HasSyncWork
    <3> QED BY <3>1, <3>2 DEF Reschedule
  <2> QED BY <2>2, <2>3, <2>4 DEF RootWork, Reschedule
<1>5. OwnTasks'
  <2> SUFFICES ASSUME NEW p \in Root, NEW q \in Root, p # q, roots'[p].callbackNode # NoNode
               PROVE  roots'[p].callbackNode # roots'[q].callbackNode
    BY DEF OwnTasks
  <2>1. CASE roots'[r].callbackNode = roots[r].callbackNode
    BY <1>2, <2>1 DEF OwnTasks, Reschedule
  <2>2. CASE roots'[r].callbackNode # NoNode =>
               \A o \in Root : roots'[r].callbackNode # roots[o].callbackNode
    BY <1>2, <2>2 DEF OwnTasks, Reschedule
  <2> QED BY <2>1, <2>2 DEF Reschedule
<1>6. \A q \in Root : CallbackFits(roots'[q])
  BY DEF RootsWork, Reschedule
<1> QED BY <1>3, <1>4, <1>5, <1>6 DEF RootsWork

\* What it queues is flushed.
LEMMA RescheduledQueue ==
  ASSUME QueueTypes, HostTypes, NEW r \in Root, Reschedule(r), QueueIsFlushed,
         flushTasks' \in {flushTasks, flushTasks + 1},
         NoFlush(stack') => NoFlush(stack) \/ flushTasks' > 0
  PROVE  QueueIsFlushed'
<1>1. \/ UNCHANGED <<syncQueue, microtasks>>
      \/ microtasks' = microtasks + 1
  BY DEF Reschedule
<1>2. microtasks \in Nat /\ flushTasks \in Nat
  BY DEF QueueTypes, HostTypes
<1>3. CASE microtasks' + flushTasks' > 0
  BY <1>3 DEF QueueIsFlushed
<1>4. CASE ~(microtasks' + flushTasks' > 0)
  <2>1. /\ microtasks' # microtasks + 1
        /\ flushTasks' = flushTasks /\ flushTasks = 0
    BY <1>1, <1>2, <1>4
  <2>2. UNCHANGED <<syncQueue, microtasks>>
    BY <1>1, <2>1
  <2>3. microtasks = 0
    BY <1>2, <1>4, <2>1, <2>2
  <2>4. NoFlush(stack') => NoFlush(stack)
    <3>1. ~(flushTasks' > 0)
      BY <2>1
    <3> QED BY <3>1
  <2>5. syncQueue # <<>> => ~NoFlush(stack)
    <3>1. ~(microtasks + flushTasks > 0)
      BY <2>1, <2>3
    <3> QED BY <3>1 DEF QueueIsFlushed
  <2> QED BY <2>2, <2>4, <2>5 DEF QueueIsFlushed
<1> QED BY <1>3, <1>4

\* A root whose recorded task exists goes on to record one that does.
LEMMA RescheduledIsLive ==
  ASSUME QueueTypes, RootsWork, NEW r \in Root, Reschedule(r),
         NEW q \in Root, RecordsLiveTask(q)
  PROVE  RecordsLiveTask(q)'
<1>1. \A p : IsQueued(p) => IsQueued(p)'
  BY AppendedIsQueued DEF Reschedule, IsQueued
<1>2. CASE q # r
  <2>1. SameCallback(roots'[q], roots[q])
    BY <1>2 DEF Reschedule, SameCallback
  <2>2. roots[q].callbackNode # NoNode => roots[q].callbackNode # roots[r].callbackNode
    BY <1>2 DEF RootsWork, OwnTasks
  <2>3. \A t \in tasks : t.node # roots[r].callbackNode => t \in tasks'
    BY DEF Reschedule
  <2>4. PICK t : t = [node |-> roots[q].callbackNode, root |-> q]
    OBVIOUS
  <2>5. roots[q].callbackNode # NoNode => t \in tasks'
    BY <2>2, <2>3, <2>4 DEF RecordsLiveTask
  <2>6. [node |-> roots'[q].callbackNode, root |-> q] = t
    BY <2>1, <2>4 DEF SameCallback
  <2> QED BY <1>1, <2>1, <2>5, <2>6 DEF RecordsLiveTask, SameCallback
<1>3. CASE q = r
  <2>1. CallbackFits(roots'[r])
    BY DEF Reschedule
  <2>2. CASE /\ roots'[r].callbackNode = roots[r].callbackNode
             /\ roots'[r].callbackPriority = roots[r].callbackPriority
             /\ UNCHANGED <<tasks, syncQueue, microtasks>>
    BY <1>1, <1>3, <2>2 DEF RecordsLiveTask
  <2>3. CASE /\ roots'[r].callbackNode # NoNode =>
                  [node |-> roots'[r].callbackNode, root |-> r] \in tasks'
             /\ roots'[r].callbackPriority = SyncLane => syncQueue' = Append(syncQueue, r)
    BY <1>3, <2>1, <2>3, AppendedIsQueued DEF RecordsLiveTask, CallbackFits
  <2> QED BY <2>2, <2>3 DEF Reschedule
<1> QED BY <1>2, <1>3

-----------------------------------------------------------------------------
(* What a step does to the stack *)

\* A call goes on as c.
GoesOn(c, h) ==
  /\ c \in CallRecord
  /\ c.function = h.function /\ c.root = h.root /\ c.node = h.node /\ c.task = h.task
  /\ c.at = "layout" => c.function = "commitRoot"
  /\ c.sliced => h.sliced \/ c.function # "performSyncWorkOnRoot"

LEMMA ContinuesShape ==
  ASSUME NEW s \in Seq(CallRecord), Shape(s), s # <<>>, NEW c, GoesOn(c, Head(s))
  PROVE  LET t == <<c>> \o Tail(s)
         IN  /\ t \in Seq(CallRecord) /\ Shape(t) /\ t # <<>> /\ Top(t) = c /\ Head(t) = c
             /\ Tail(t) = Tail(s)
             /\ Frames(t) = {Frame(c, Top(Tail(s)))} \cup Frames(Tail(s))
             /\ Frames(s) = {Frame(Head(s), Top(Tail(s)))} \cup Frames(Tail(s))
             /\ NoFlush(t) <=> NoFlush(s)
<1> DEFINE t == <<c>> \o Tail(s)
           b == Top(Tail(s))
<1>1. /\ Head(s) \in CallRecord /\ Tail(s) \in Seq(CallRecord)
      /\ Frames(s) = {Frame(Head(s), b)} \cup Frames(Tail(s))
      /\ NoFlush(s) <=> ~IsFlush(Head(s)) /\ NoFlush(Tail(s))
      /\ OneFlush(Tail(s)) /\ (IsFlush(Head(s)) => NoFlush(Tail(s)))
  BY PopFrames DEF Shape
<1>2. /\ t \in Seq(CallRecord) /\ t # <<>> /\ Head(t) = c /\ Tail(t) = Tail(s) /\ Top(t) = c
      /\ Frames(t) = {Frame(c, b)} \cup Frames(Tail(s))
      /\ NoFlush(t) <=> ~IsFlush(c) /\ NoFlush(Tail(s))
      /\ OneFlush(Tail(s)) /\ (IsFlush(c) => NoFlush(Tail(s))) => OneFlush(t)
  BY <1>1, PushFrames DEF GoesOn
<1> HIDE DEF t, b
<1>3. IsFlush(c) <=> IsFlush(Head(s))
  BY DEF IsFlush, GoesOn
<1>4. FrameOk(Frame(Head(s), b))
  BY <1>1 DEF Shape
<1>5. FrameOk(Frame(c, b))
  BY <1>4, FrameFields DEF FrameOk, GoesOn
<1>6. Shape(t)
  BY <1>1, <1>2, <1>3, <1>5 DEF Shape
<1> QED BY <1>1, <1>2, <1>3, <1>6 DEF t, b

LEMMA ReturnsShape ==
  ASSUME NEW s \in Seq(CallRecord), Shape(s), s # <<>>
  PROVE  /\ Tail(s) \in Seq(CallRecord) /\ Shape(Tail(s))
         /\ Frames(s) = {Frame(Head(s), Top(Tail(s)))} \cup Frames(Tail(s))
         /\ NoFlush(s) => NoFlush(Tail(s))
         /\ ~IsFlush(Head(s)) /\ NoFlush(Tail(s)) => NoFlush(s)
         /\ Top(Tail(s)).at # "layout"
<1>1. /\ Frames(s) = {Frame(Head(s), Top(Tail(s)))} \cup Frames(Tail(s))
      /\ Tail(s) \in Seq(CallRecord) /\ OneFlush(Tail(s))
      /\ NoFlush(s) <=> ~IsFlush(Head(s)) /\ NoFlush(Tail(s))
  BY PopFrames DEF Shape
<1>2. FrameOk(Frame(Head(s), Top(Tail(s)))) /\ Shape(Tail(s))
  BY <1>1 DEF Shape
<1>3. Top(Tail(s)).at # "layout"
  BY <1>2, FrameFields DEF FrameOk
<1> QED BY <1>1, <1>2, <1>3

LEMMA FlushIsCalled ==
  ASSUME stack \in Seq(CallRecord), NEW below \in Seq(CallRecord), Shape(below),
         Top(below).at # "layout",
         NoFlush(stack) <=> NoFlush(below), CallFlushSyncCallbacks(below)
  PROVE  /\ Shape(stack') /\ stack' \in Seq(CallRecord)
         /\ Frames(below) \subseteq Frames(stack')
         /\ \A f \in Frames(stack') : IsSyncCommit(f) => f \in Frames(below)
         /\ syncQueue # <<>> => ~NoFlush(stack')
         /\ NoFlush(stack') => NoFlush(below)
         /\ Top(stack').at # "layout"
<1> DEFINE c == Call("flushSyncCallbacks", NoRoot)
<1>1. c \in CallRecord /\ c.function = "flushSyncCallbacks" /\ c.at = "start"
  BY CallIsGood DEF GoodCall, Call
<1>2. NoFlush(stack) <=> ~IsFlushingSyncQueue
  BY FlushingIsFlush
<1>3. CASE IsFlushingSyncQueue \/ syncQueue = <<>>
  <2>1. stack' = below
    BY <1>3 DEF CallFlushSyncCallbacks
  <2> QED BY <1>2, <1>3, <2>1
<1>4. CASE ~(IsFlushingSyncQueue \/ syncQueue = <<>>)
  <2>1. stack' = <<c>> \o below
    BY <1>4 DEF CallFlushSyncCallbacks
  <2> HIDE DEF c
  <2>2. NoFlush(below) /\ IsFlush(c)
    BY <1>1, <1>2, <1>4 DEF IsFlush
  <2>3. /\ stack' \in Seq(CallRecord) /\ Top(stack') = c
        /\ Frames(stack') = {Frame(c, Top(below))} \cup Frames(below)
        /\ ~NoFlush(stack') /\ OneFlush(stack')
    <3>1. OneFlush(below)
      BY DEF Shape
    <3> QED BY <1>1, <2>1, <2>2, <3>1, PushFrames
  <2>4. FrameOk(Frame(c, Top(below))) /\ ~IsSyncCommit(Frame(c, Top(below)))
    BY <1>1, FrameFields DEF FrameOk, IsSyncCommit
  <2> QED BY <1>1, <2>3, <2>4 DEF Shape
<1> QED BY <1>3, <1>4

LEMMA PassiveIsCalled ==
  ASSUME pendingPassive \in Root \cup {NoRoot}, NEW call \in CallRecord, call.at # "layout",
         NEW rest \in Seq(CallRecord), Shape(<<call>> \o rest),
         CallFlushPassiveEffects(call, rest)
  PROVE  LET t == <<call>> \o rest
         IN  /\ Shape(stack') /\ stack' \in Seq(CallRecord)
             /\ Frames(t) \subseteq Frames(stack')
             /\ \A f \in Frames(stack') : IsSyncCommit(f) => f \in Frames(t)
             /\ NoFlush(stack') <=> NoFlush(t)
             /\ Top(stack').at # "layout"
<1> DEFINE t == <<call>> \o rest
           c == Call("flushPassiveEffects", pendingPassive)
<1>1. t \in Seq(CallRecord) /\ Top(t) = call
  BY PushFrames
<1>2. CASE pendingPassive = NoRoot
  <2>1. stack' = t
    BY <1>2 DEF CallFlushPassiveEffects
  <2> QED BY <1>1, <2>1
<1>3. CASE pendingPassive # NoRoot
  <2>1. c \in CallRecord /\ c.function = "flushPassiveEffects" /\ c.at = "start"
    BY <1>3, CallIsGood DEF GoodCall, Call
  <2>2. stack' = <<c>> \o t
    BY <1>3, <2>1, PushTwo DEF CallFlushPassiveEffects
  <2> HIDE DEF c, t
  <2>3. ~IsFlush(c)
    BY <2>1 DEF IsFlush
  <2>4. /\ stack' \in Seq(CallRecord) /\ Top(stack') = c
        /\ Frames(stack') = {Frame(c, call)} \cup Frames(t)
        /\ NoFlush(stack') <=> NoFlush(t)
        /\ OneFlush(stack')
    <3>1. OneFlush(t)
      BY DEF Shape, t
    <3> QED BY <1>1, <2>1, <2>2, <2>3, <3>1, PushFrames
  <2>5. FrameOk(Frame(c, call)) /\ ~IsSyncCommit(Frame(c, call))
    BY <2>1, FrameFields DEF FrameOk, IsSyncCommit
  <2> QED BY <2>1, <2>4, <2>5 DEF Shape, t
<1> QED BY <1>2, <1>3

-----------------------------------------------------------------------------
(* Steps that call ensureRootIsScheduled *)

LEMMA UpdatedCallback ==
  ASSUME NEW r, roots[r] \in RootRecord, NEW lane
  PROVE  SameCallback(Updated(r, lane), roots[r])
<1> HIDE DEF IdleLane
<1>1. CASE lane = IdleLane
  BY <1>1 DEF Updated, MarkRootUpdated, SameCallback, RootRecord
<1>2. CASE lane # IdleLane
  BY <1>2 DEF Updated, MarkRootUpdated, SameCallback, RootRecord
<1> QED BY <1>1, <1>2

LEMMA SuspendLanesCallback ==
  ASSUME NEW x \in RootRecord, NEW work, NEW lanes
  PROVE  SameCallback(SuspendLanes(x, work, lanes), x)
<1> QED BY DEF SuspendLanes, MarkRootSuspended, SameCallback, RootRecord

LEMMA PrepareFreshStackCallback ==
  ASSUME NEW x \in RootRecord
  PROVE  SameCallback(PrepareFreshStack(x), x)
<1> QED BY DEF PrepareFreshStack, SameCallback, RootRecord

LEMMA MarkRootPingedCallback ==
  ASSUME NEW x \in RootRecord, NEW lanes
  PROVE  SameCallback(MarkRootPinged(x, lanes), x)
<1> QED BY DEF MarkRootPinged, SameCallback, RootRecord

\* It is of a root.
LEMMA SyncCommitHasRoot ==
  ASSUME NEW rts, NEW s, AllFit(rts, s)
  PROVE  \A f \in Frames(s) : IsSyncCommit(f) => f.call.root \in Root
<1>1. \A f \in Frames(s) : \E i \in 1..Len(s) : f.call = s[i]
  BY DEF Frames, Frame
<1>2. \A i \in 1..Len(s) : s[i].function # "flushSyncCallbacks" => s[i].root \in Root
  BY DEF AllFit, Fits, GoodCall
<1> QED BY <1>1, <1>2 DEF IsSyncCommit

\* A commit in its layout phase is of a root.
LEMMA LayoutCommitHasRoot ==
  ASSUME NEW rts, NEW s, AllFit(rts, s), Shape(s), Top(s).at = "layout"
  PROVE  Top(s).root \in Root /\ Top(s).function = "commitRoot"
<1>1. s # <<>> /\ Top(s) = s[1]
  BY DEF Top, NoCall, Call
<1>2. 1 \in 1..Len(s)
  BY <1>1, EmptySeq, LenProperties DEF AllFit
<1>3. s[1].function = "commitRoot"
  <2>1. Frame(s[1], Below(s, 1)) \in Frames(s)
    BY <1>2 DEF Frames
  <2>2. FrameOk(Frame(s[1], Below(s, 1)))
    BY <2>1 DEF Shape
  <2> QED BY <1>1, <2>2, FrameFields DEF FrameOk
<1> QED BY <1>1, <1>2, <1>3 DEF AllFit, Fits, GoodCall

\* What a step that calls ensureRootIsScheduled(r) does to the roots and queues.
LEMMA EnsureWork ==
  ASSUME IInv, WorkInv, NEW r \in Root, NEW root, GoodRoot(root), SameCallback(root, roots[r]),
         NEW work \in WorkRecord,
         SyncLane \in WipLanes(work, r) => SyncLane \in root.pendingLanes,
         NEW entangled \in SUBSET (root.pendingLanes \cap TransitionLanes),
         EnsureRootIsScheduled(r, root, work, entangled),
         wrecked \subseteq wrecked',
         \A q \in Root \ {r} : q \notin wrecked' => CallsKept(q),
         r \notin wrecked' => HandedOn(r, SyncLane \in Workable(root)),
         flushTasks' \in {flushTasks, flushTasks + 1},
         NoFlush(stack') => NoFlush(stack) \/ flushTasks' > 0
  PROVE  /\ RootsWork' /\ QueueIsFlushed'
         /\ Reschedule(r)
         /\ roots'[r].finishedLanes = root.finishedLanes
<1>1. RootsAgree /\ QueueTypes /\ HostTypes /\ RootsWork /\ CallbackFits(root)
  BY DEF IInv, WorkInv, RootsWork, CallbackFits, SameCallback
<1>2. Reschedule(r) /\ SameLanes(roots'[r], root)
  BY <1>1, EnsureReschedules
<1>3. roots'[r].callbackPriority = SyncLane <=> SyncLane \in Workable(root)
  <2>1. Workable(roots'[r]) = Workable(root)
    BY <1>2 DEF SameLanes, Workable, Unblocked, Candidates, Pinged
  <2> QED BY <1>2, <2>1 DEF Reschedule, Settled
<1>4. r \notin wrecked' => HandedOn(r, roots'[r].callbackPriority = SyncLane)
  BY <1>3 DEF HandedOn
<1>5. RootsWork'
  BY <1>1, <1>2, <1>4, RescheduledWork
<1>6. QueueIsFlushed'
  BY <1>1, <1>2, RescheduledQueue DEF WorkInv
<1>7. roots'[r].finishedLanes = root.finishedLanes
  BY <1>1, EnsureStep DEF SameWork
<1> QED BY <1>2, <1>5, <1>6, <1>7

\* Calls that go on hand on what they do.
LEMMA KeptIsHandedOn ==
  ASSUME NEW r, CallsKept(r)
  PROVE  \A syncRemains \in BOOLEAN : HandedOn(r, syncRemains)
<1> QED BY DEF CallsKept, HandedOn

\* The same, when no call begins or ends.
LEMMA EnsureOnSameStack ==
  ASSUME IInv, WorkInv, NEW r \in Root, NEW root, GoodRoot(root), SameCallback(root, roots[r]),
         NEW work \in WorkRecord,
         SyncLane \in WipLanes(work, r) => SyncLane \in root.pendingLanes,
         NEW entangled \in SUBSET (root.pendingLanes \cap TransitionLanes),
         EnsureRootIsScheduled(r, root, work, entangled),
         UNCHANGED <<stack, flushTasks, wrecked>>,
         stack = <<>> \/ root.finishedLanes = roots[r].finishedLanes
  PROVE  WorkInv'
<1>1. /\ RootsWork' /\ QueueIsFlushed'
      /\ Reschedule(r)
      /\ roots'[r].finishedLanes = root.finishedLanes
  <2>1. \A q : CallsKept(q)
    BY DEF CallsKept
  <2>2. HandedOn(r, SyncLane \in Workable(root))
    BY <2>1 DEF CallsKept, HandedOn
  <2> QED BY <2>1, <2>2, EnsureWork
<1>2. CommitsHaveTrees'
  <2>1. CASE stack = <<>>
    BY <2>1, EmptyFrames DEF CommitsHaveTrees
  <2>2. CASE root.finishedLanes = roots[r].finishedLanes
    <3>1. \A f \in Frames(stack) : IsSyncCommit(f) => f.call.root \in Root
      BY SyncCommitHasRoot DEF IInv, StackInv
    <3>2. \A q \in Root \ {r} : roots'[q] = roots[q]
      BY <1>1 DEF Reschedule
    <3> QED BY <1>1, <2>2, <3>1, <3>2 DEF CommitsHaveTrees, WorkInv
  <2> QED BY <2>1, <2>2
<1>3. CommitIsScheduled'
  <2> DEFINE q == Top(stack).root
  <2> SUFFICES ASSUME Top(stack).at = "layout" PROVE RecordsLiveTask(q)'
    BY DEF CommitIsScheduled
  <2>1. q \in Root
    BY LayoutCommitHasRoot DEF IInv, StackInv, WorkInv
  <2>2. QueueTypes /\ RootsWork /\ RecordsLiveTask(q)
    BY DEF IInv, WorkInv, CommitIsScheduled
  <2>3. PICK p \in Root : p = q
    BY <2>1
  <2>4. RecordsLiveTask(p)'
    BY <1>1, <2>2, <2>3, RescheduledIsLive
  <2> QED BY <2>3, <2>4 DEF RecordsLiveTask, IsQueued
<1>4. Shape(stack')
  BY DEF WorkInv
<1> QED BY <1>1, <1>2, <1>3, <1>4 DEF WorkInv

\* The Sync lane is only rendered while it is pending.
LEMMA SyncRenderIsPending ==
  ASSUME RootsAgree, NEW r \in Root, SyncLane \in WipLanes(wip, r)
  PROVE  SyncLane \in roots[r].pendingLanes
<1>1. SyncLane \notin TransitionLanes
  BY DEF SyncLane, TransitionLanes
<1> HIDE DEF TransitionLanes
<1> QED BY <1>1 DEF RootsAgree

LEMMA ScheduleUpdateOnFiberWorks ==
  ASSUME IInv, WorkInv, NEW r \in Root, NEW lane \in UpdateLanes,
         ScheduleUpdateOnFiber(r, lane), UNCHANGED <<stack, flushTasks, wrecked>>
  PROVE  WorkInv'
<1> DEFINE work == IF wip.root = r THEN [wip EXCEPT !.interleaved = @ \cup {lane}]
                                   ELSE wip
           root == IF wip.root = r /\ wip.exit = "SuspendedWithDelay"
                   THEN SuspendLanes(Updated(r, lane), work, wip.lanes)
                   ELSE Updated(r, lane)
<1>1. lane \in Lanes /\ GoodRoot(roots[r]) /\ roots[r] \in RootRecord /\ wip \in WorkRecord
  BY RootSchedulerAssumption DEF IInv, RootsAgree, GoodRoot
<1>2. /\ work \in WorkRecord /\ wip' = work
      /\ work.root = wip.root /\ work.lanes = wip.lanes
  BY <1>1 DEF ScheduleUpdateOnFiber, WorkRecord
<1>3. /\ GoodRoot(Updated(r, lane)) /\ SameCallback(Updated(r, lane), roots[r])
      /\ Updated(r, lane).pendingLanes = roots[r].pendingLanes \cup {lane}
      /\ Updated(r, lane).finishedLanes = roots[r].finishedLanes
  BY <1>1, UpdatedIsGood, UpdatedCallback
<1>4. /\ GoodRoot(root) /\ SameWork(root, Updated(r, lane))
      /\ SameCallback(root, Updated(r, lane))
  <2>1. CASE wip.root = r /\ wip.exit = "SuspendedWithDelay"
    <3>1. wip.lanes \in SUBSET Lanes
          /\ wip.lanes \ TransitionLanes \subseteq Updated(r, lane).pendingLanes
      BY <1>3, <2>1 DEF IInv, RootsAgree, WorkRecord, WipLanes
    <3>2. SameCallback(SuspendLanes(Updated(r, lane), work, wip.lanes), Updated(r, lane))
      <4> HIDE DEF work
      <4> QED BY <1>3, SuspendLanesCallback DEF GoodRoot
    <3> HIDE DEF work
    <3>3. wip.lanes \ (work.pinged \cup work.interleaved) \in SUBSET Lanes
      BY <3>1
    <3> QED BY <1>3, <2>1, <3>1, <3>2, <3>3, MarkRootSuspendedIsGood DEF SuspendLanes
  <2>2. CASE ~(wip.root = r /\ wip.exit = "SuspendedWithDelay")
    BY <1>3, <2>2 DEF SameWork, SameCallback
  <2> QED BY <2>1, <2>2
<1>5. PICK queued \in SUBSET (root.pendingLanes \cap TransitionLanes) :
        EnsureRootIsScheduled(r, root, work,
          IF lane \in TransitionLanes THEN queued \cup {lane} ELSE {})
  BY DEF ScheduleUpdateOnFiber
<1> HIDE DEF work, root
<1>6. (IF lane \in TransitionLanes THEN queued \cup {lane} ELSE {})
        \in SUBSET (root.pendingLanes \cap TransitionLanes)
  BY <1>3, <1>4 DEF SameWork
<1>7. SyncLane \in WipLanes(work, r) => SyncLane \in root.pendingLanes
  <2>1. WipLanes(work, r) = WipLanes(wip, r)
    BY <1>2 DEF WipLanes
  <2>2. roots[r].pendingLanes \subseteq root.pendingLanes
    BY <1>3, <1>4 DEF SameWork
  <2> QED BY <2>1, <2>2, SyncRenderIsPending DEF IInv
<1>8. SameCallback(root, roots[r]) /\ root.finishedLanes = roots[r].finishedLanes
  BY <1>3, <1>4 DEF SameCallback, SameWork
<1> QED BY <1>2, <1>4, <1>5, <1>6, <1>7, <1>8, EnsureOnSameStack

LEMMA EmptyWork ==
  ASSUME NEW r \in Root
  PROVE  FreshWork(r, {}) \in WorkRecord /\ WipLanes(FreshWork(r, {}), r) = {}
<1> QED BY DEF FreshWork, NoWork, WorkRecord, WipLanes

LEMMA PingSuspendedRootWorks ==
  ASSUME IInv, WorkInv, NEW p \in listeners, PingSuspendedRoot(p)
  PROVE  WorkInv'
<1> DEFINE r == p.root
           root == MarkRootPinged(roots[r], p.lanes)
<1>1. /\ r \in Root /\ GoodRoot(roots[r]) /\ roots[r] \in RootRecord
      /\ wip \in WorkRecord
  BY DEF IInv, HostTypes, RootsAgree, GoodRoot
<1>2. GoodRoot(root) /\ SameCallback(root, roots[r])
  BY <1>1, MarkRootPingedIsGood, MarkRootPingedCallback
<1>3. GoodRoot(PrepareFreshStack(root)) /\ SameCallback(PrepareFreshStack(root), roots[r])
  <2> HIDE DEF root
  <2>1. SameCallback(PrepareFreshStack(root), root)
    BY <1>2, PrepareFreshStackCallback DEF GoodRoot
  <2> QED BY <1>2, <2>1, PrepareFreshStackIsGood DEF SameCallback
<1>4. stack = <<>> /\ UNCHANGED <<stack, flushTasks, wrecked>>
  BY DEF PingSuspendedRoot, Idle
<1>5. SyncLane \in WipLanes(wip, r) => SyncLane \in root.pendingLanes
  <2>1. root.pendingLanes = roots[r].pendingLanes
    BY <1>1, MarkRootPingedIsGood DEF SameWork
  <2> HIDE DEF root
  <2> QED BY <1>1, <2>1, SyncRenderIsPending DEF IInv
<1>6. \/ /\ EnsureRootIsScheduled(r, PrepareFreshStack(root), FreshWork(r, {}), {})
         /\ wip' = FreshWork(r, {})
      \/ /\ EnsureRootIsScheduled(r, root, wip, {})
         /\ wip' = wip \/ wip' = [wip EXCEPT !.pinged = @ \cup p.lanes]
  BY DEF PingSuspendedRoot
<1> HIDE DEF root, r
<1>7. \A x : {} \in SUBSET (x.pendingLanes \cap TransitionLanes)
  OBVIOUS
<1>8. CASE /\ EnsureRootIsScheduled(r, PrepareFreshStack(root), FreshWork(r, {}), {})
           /\ wip' = FreshWork(r, {})
  <2>1. SyncLane \notin WipLanes(FreshWork(r, {}), r) /\ FreshWork(r, {}) \in WorkRecord
    BY <1>1, EmptyWork
  <2> QED BY <1>1, <1>3, <1>4, <1>7, <1>8, <2>1, EnsureOnSameStack
<1>9. CASE /\ EnsureRootIsScheduled(r, root, wip, {})
           /\ wip' = wip \/ wip' = [wip EXCEPT !.pinged = @ \cup p.lanes]
  BY <1>1, <1>2, <1>4, <1>5, <1>7, <1>9, EnsureOnSameStack
<1> QED BY <1>6, <1>8, <1>9

LEMMA RetryTimedOutBoundaryWorks ==
  ASSUME IInv, WorkInv, NEW r \in Root, NEW lane \in Lanes, RetryTimedOutBoundary(r, lane)
  PROVE  WorkInv'
<1>1. GoodRoot(roots[r]) /\ roots[r] \in RootRecord /\ wip \in WorkRecord
  BY DEF IInv, RootsAgree, GoodRoot
<1>2. /\ GoodRoot(Updated(r, lane)) /\ SameCallback(Updated(r, lane), roots[r])
      /\ Updated(r, lane).finishedLanes = roots[r].finishedLanes
  BY <1>1, UpdatedIsGood, UpdatedCallback
<1>3. stack = <<>> /\ UNCHANGED <<stack, flushTasks, wrecked>>
      /\ EnsureRootIsScheduled(r, Updated(r, lane), wip, {})
  BY DEF RetryTimedOutBoundary, Idle
<1>4. SyncLane \in WipLanes(wip, r) => SyncLane \in Updated(r, lane).pendingLanes
  <2>1. roots[r].pendingLanes \subseteq Updated(r, lane).pendingLanes
    BY <1>1, UpdatedIsGood
  <2> QED BY <2>1, SyncRenderIsPending DEF IInv
<1>5. {} \in SUBSET (Updated(r, lane).pendingLanes \cap TransitionLanes)
  OBVIOUS
<1> QED BY <1>1, <1>2, <1>3, <1>4, <1>5, EnsureOnSameStack

-----------------------------------------------------------------------------
(* Steps of a render *)

\* A call that renders owes its root an ensureRootIsScheduled.
LEMMA RenderingOwes ==
  ASSUME IInv, Rendering
  PROVE  Owes(Frames(stack), Head(stack).root)
<1>1. stack \in Seq(CallRecord) /\ stack # <<>> /\ Head(stack).at = "rendering"
      /\ Head(stack).function \in Workers
  BY RenderInProgress DEF IInv, StackInv, AllFit, Rendering
<1>2. Owes({Frame(Head(stack), Top(Tail(stack)))}, Head(stack).root)
  BY <1>1, OneCall
<1>3. {Frame(Head(stack), Top(Tail(stack)))} \subseteq Frames(stack)
  BY <1>1, PopFrames
<1> QED BY <1>2, <1>3, CallsOfSubset

\* The root of a call that owes it an ensureRootIsScheduled changes in what it
\* works on, not in its callback.
LEMMA OwedRootWorks ==
  ASSUME WorkInv, NEW r \in Root, \A q \in Root \ {r} : roots'[q] = roots[q],
         SameCallback(roots'[r], roots[r]), UNCHANGED <<tasks, syncQueue>>,
         wrecked \subseteq wrecked',
         \A q \in Root : q \notin wrecked' => CallsKept(q),
         r \notin wrecked' => Owes(Frames(stack'), r)
  PROVE  RootsWork'
<1>1. \A q \in Root : SameCallback(roots'[q], roots[q])
  BY DEF SameCallback
<1>2. ASSUME NEW q \in Root \ wrecked' PROVE RootWork(q)'
  <2>1. /\ SameCallback(roots'[q], roots[q])
        /\ q # r => SameLanes(roots'[q], roots[q])
    BY DEF SameCallback, SameLanes
  <2>2. \A n : HasTask(q, n) => HasTask(q, n)'
    BY DEF HasTask, CallsKept
  <2>3. HasSyncWork(q) => HasSyncWork(q)'
    BY DEF HasSyncWork, CallsKept, IsQueued
  <2>4. \/ Owes(Frames(stack'), q)
        \/ ~Owes(Frames(stack), q) /\ SameLanes(roots'[q], roots[q])
    BY <2>1 DEF CallsKept
  <2>5. RootWork(q)
    BY DEF WorkInv, RootsWork
  <2> QED BY <2>1, <2>2, <2>3, <2>4, <2>5, KeptWork
<1> QED BY <1>2, <1>1, SameCallbacks DEF WorkInv, RootsWork

\* Events during a render.
LEMMA SameRenderWorks ==
  ASSUME IInv, WorkInv, Rendering, NEW r \in Root, r = wip.root,
         \A q \in Root \ {r} : roots'[q] = roots[q],
         SameCallback(roots'[r], roots[r]),
         UNCHANGED <<tasks, syncQueue, microtasks, stack, flushTasks, wrecked>>
  PROVE  WorkInv'
<1>1. stack # <<>> /\ r = Head(stack).root /\ Head(stack).function \in Workers
      /\ stack \in Seq(CallRecord) /\ Head(stack).at = "rendering"
  BY RenderInProgress DEF IInv, StackInv, AllFit, Rendering
<1>2. RootsWork'
  <2>1. \A q : CallsKept(q)
    BY DEF CallsKept
  <2>2. Owes(Frames(stack'), r)
    BY <1>1, RenderingOwes
  <2> QED BY <2>1, <2>2, OwedRootWorks
<1>3. CommitsHaveTrees'
  <2>1. /\ NoSync(Tail(stack))
        /\ Frames(stack) = {Frame(Head(stack), Top(Tail(stack)))} \cup Frames(Tail(stack))
    BY <1>1, NoSyncBelowWorker, PopFrames DEF WorkInv, IInv, StackInv
  <2>2. \A f \in Frames(stack) : ~IsSyncCommit(f)
    BY <1>1, <2>1, FrameFields DEF NoSync, IsSyncCommit, Workers
  <2> QED BY <2>2 DEF CommitsHaveTrees
<1>4. QueueIsFlushed' /\ Shape(stack')
  BY DEF WorkInv, QueueIsFlushed
<1>5. CommitIsScheduled'
  <2>1. Top(stack).at = "rendering"
    BY <1>1, PopFrames
  <2> QED BY <2>1 DEF CommitIsScheduled
<1> QED BY <1>2, <1>3, <1>4, <1>5 DEF WorkInv

LEMMA RenderPhaseUpdateWorks ==
  ASSUME IInv, WorkInv, NEW r \in Root, RenderPhaseUpdate(r)
  PROVE  WorkInv'
<1> DEFINE lane == HighestPriorityLane(wip.lanes)
<1>1. lane \in Lanes /\ Rendering /\ UNCHANGED <<stack, flushTasks, wrecked>>
  BY RenderInProgress, HighestPriorityLaneIsLeast DEF RenderPhaseUpdate
<1>2. GoodRoot(roots[r]) /\ roots[r] \in RootRecord /\ wip \in WorkRecord
      /\ roots \in [Root -> RootRecord]
  BY DEF IInv, RootsAgree, GoodRoot
<1>3. /\ GoodRoot(Updated(r, lane)) /\ SameCallback(Updated(r, lane), roots[r])
      /\ Updated(r, lane).finishedLanes = roots[r].finishedLanes
  BY <1>1, <1>2, UpdatedIsGood, UpdatedCallback
<1>4. IF r = wip.root
      THEN /\ roots' = [roots EXCEPT ![r] = Updated(r, lane)]
           /\ UNCHANGED <<tasks, syncQueue, microtasks>>
      ELSE EnsureRootIsScheduled(r, Updated(r, lane), wip, {})
  BY DEF RenderPhaseUpdate
<1> HIDE DEF lane
<1>5. CASE r = wip.root
  <2>1. /\ \A q \in Root \ {r} : roots'[q] = roots[q]
        /\ SameCallback(roots'[r], roots[r])
    BY <1>2, <1>3, <1>4, <1>5
  <2> QED BY <1>1, <1>4, <1>5, <2>1, SameRenderWorks
<1>6. CASE r # wip.root
  <2>1. SyncLane \notin WipLanes(wip, r)
    BY <1>6 DEF WipLanes
  <2>2. {} \in SUBSET (Updated(r, lane).pendingLanes \cap TransitionLanes)
    OBVIOUS
  <2> QED BY <1>1, <1>2, <1>3, <1>4, <1>6, <2>1, <2>2, EnsureOnSameStack
<1> QED BY <1>5, <1>6

LEMMA SuspendWorks ==
  ASSUME IInv, WorkInv, NEW delay \in BOOLEAN, NEW unwinds \in BOOLEAN, Suspend(delay, unwinds)
  PROVE  WorkInv'
<1>1. PICK r \in Root : /\ r = wip.root
                       /\ roots[r] \in RootRecord /\ wip \in WorkRecord
  BY RenderInProgress DEF Suspend, GoodRoot
<1>2. Rendering /\ UNCHANGED <<tasks, syncQueue, microtasks, stack, flushTasks, wrecked>>
  BY <1>1 DEF Suspend, WorkRecord
<1>3. \/ roots' = [roots EXCEPT ![r] = SuspendLanes(@, wip, wip.lanes)]
      \/ UNCHANGED roots
  BY <1>1 DEF Suspend
<1>4. /\ \A q \in Root \ {r} : roots'[q] = roots[q]
      /\ SameCallback(roots'[r], roots[r])
  <2>1. CASE roots' = [roots EXCEPT ![r] = SuspendLanes(@, wip, wip.lanes)]
    <3> DEFINE x == SuspendLanes(roots[r], wip, wip.lanes)
    <3>1. SameCallback(x, roots[r])
      BY <1>1, SuspendLanesCallback
    <3>2. roots' = [roots EXCEPT ![r] = x]
      BY <1>1, <2>1 DEF IInv, RootsAgree
    <3> HIDE DEF x
    <3> QED BY <3>1, <3>2 DEF IInv, RootsAgree
  <2>2. CASE UNCHANGED roots
    BY <2>2 DEF SameCallback
  <2> QED BY <1>3, <2>1, <2>2
<1> QED BY <1>1, <1>2, <1>4, SameRenderWorks

LEMMA ComponentThrowsWorks ==
  ASSUME IInv, WorkInv, ComponentThrows
  PROVE  WorkInv'
<1>1. PICK r \in Root : r = wip.root /\ wip \in WorkRecord
  BY RenderInProgress DEF ComponentThrows
<1>2. /\ Rendering
      /\ UNCHANGED <<roots, tasks, syncQueue, microtasks, stack, flushTasks, wrecked>>
  BY <1>1 DEF ComponentThrows, WorkRecord, hostVars
<1>3. SameCallback(roots'[r], roots[r])
  BY <1>2 DEF SameCallback
<1> QED BY <1>1, <1>2, <1>3, SameRenderWorks

\* A call that renders, or is about to, goes on as c: it still runs its task, and
\* it owes its root an ensureRootIsScheduled.  Its commit may lie on it.
LEMMA WorkerGoesOn ==
  ASSUME IInv, WorkInv, stack # <<>>, Head(stack).function \in Workers,
         NEW c, GoesOn(c, Head(stack)), c.at \in {"rendering", "end"},
         LET own == Frame(c, Top(Tail(stack)))
         IN  /\ {own} \cup Frames(Tail(stack)) \subseteq Frames(stack')
             /\ c.at = "end" => \/ c.function = "performConcurrentWorkOnRoot"
                                \/ \E f \in Frames(stack') : IsSyncCommit(f) /\ f.call.root = c.root
  PROVE  /\ \A q : CallsKept(q)
         /\ Owes(Frames(stack'), Head(stack).root)
<1> DEFINE h == Head(stack)
           r == h.root
           b == Top(Tail(stack))
<1>1. stack \in Seq(CallRecord)
  BY DEF IInv, StackInv, AllFit
<1>2. /\ c.function = h.function /\ c.root = r /\ c.node = h.node /\ c.task = h.task
  BY DEF GoesOn
<1>3. /\ Frame(c, b) \in Frames(stack') /\ Frames(Tail(stack)) \subseteq Frames(stack')
  OBVIOUS
<1>4. {Frame(c, b)} \subseteq Frames(stack')
  BY <1>3
<1>5. /\ \A q : q # r => CallsKept(q)
      /\ \A n : Runs(Frames(stack), n, r) => Runs({Frame(h, b)}, n, r) \/ Runs(Frames(stack'), n, r)
      /\ Performs(Frames(stack), r) => Performs({Frame(h, b)}, r) \/ Performs(Frames(stack'), r)
  BY <1>1, <1>3, HeadOnly
<1> HIDE DEF h, b
<1>6. Owes(Frames(stack'), r)
  <2>1. Owes({Frame(c, b)}, r)
    BY <1>2, OneCall DEF h
  <2> QED BY <1>4, <2>1, CallsOfSubset
<1>7. \A n : Runs(Frames(stack), n, r) => Runs(Frames(stack'), n, r)
  <2> TAKE n
  <2>1. Runs({Frame(h, b)}, n, r) => Runs({Frame(c, b)}, n, r)
    BY <1>2, OneCall
  <2> QED BY <1>4, <1>5, <2>1, CallsOfSubset
<1>8. Performs(Frames(stack), r) => Performs(Frames(stack'), r)
  <2>1. Performs({Frame(h, b)}, r) => h.function = "performSyncWorkOnRoot"
    BY OneCall DEF Workers, h
  <2>2. CASE c.at = "rendering"
    <3>1. Performs({Frame(h, b)}, r) => Performs({Frame(c, b)}, r)
      BY <1>2, <2>1, <2>2, OneCall
    <3> QED BY <1>4, <1>5, <3>1, CallsOfSubset
  <2>3. CASE c.at = "end" /\ c.function = "performConcurrentWorkOnRoot"
    BY <1>2, <1>5, <2>1, <2>3
  <2>4. CASE \E f \in Frames(stack') : IsSyncCommit(f) /\ f.call.root = c.root
    BY <1>2, <2>4 DEF Performs
  <2> QED BY <2>2, <2>3, <2>4
<1>9. CallsKept(r)
  BY <1>6, <1>7, <1>8 DEF CallsKept
<1> QED BY <1>5, <1>6, <1>9 DEF h

\* Nothing below a call that renders is a commit of performSyncWorkOnRoot.
LEMMA NothingCommitsBelowWorker ==
  ASSUME IInv, WorkInv, stack # <<>>, Head(stack).function \in Workers
  PROVE  \A f \in Frames(Tail(stack)) : ~IsSyncCommit(f)
<1>1. NoSync(Tail(stack))
  BY NoSyncBelowWorker DEF IInv, StackInv, WorkInv
<1> QED BY <1>1 DEF NoSync, IsSyncCommit

\* A render begins, begins again, pauses or ends without a commit.
LEMMA WorkerWorks ==
  ASSUME IInv, WorkInv, stack # <<>>, Head(stack).function \in Workers,
         NEW c, GoesOn(c, Head(stack)), c.at \in {"rendering", "end"},
         c.at = "end" => c.function = "performConcurrentWorkOnRoot",
         Continue(c),
         NEW r \in Root, r = Head(stack).root, \A q \in Root \ {r} : roots'[q] = roots[q],
         SameCallback(roots'[r], roots[r]),
         UNCHANGED <<tasks, syncQueue, microtasks, flushTasks, wrecked>>
  PROVE  WorkInv'
<1>1. stack \in Seq(CallRecord) /\ Shape(stack)
  BY DEF IInv, StackInv, AllFit, WorkInv
<1>2. stack' = <<c>> \o Tail(stack)
  BY DEF Continue
<1>3. /\ Shape(stack') /\ stack' # <<>> /\ Top(stack') = c /\ Head(stack') = c
      /\ Frames(stack') = {Frame(c, Top(Tail(stack)))} \cup Frames(Tail(stack))
      /\ NoFlush(stack') <=> NoFlush(stack)
  BY <1>1, <1>2, ContinuesShape
<1>4. /\ \A q : CallsKept(q)
      /\ Owes(Frames(stack'), r)
  BY <1>3, WorkerGoesOn
<1>5. RootsWork'
  BY <1>4, OwedRootWorks
<1>6. CommitsHaveTrees'
  <2>1. c.function \in Workers
    BY DEF GoesOn
  <2>2. ~IsSyncCommit(Frame(c, Top(Tail(stack))))
    BY <2>1, FrameFields DEF IsSyncCommit, Workers
  <2>3. \A f \in Frames(stack') : ~IsSyncCommit(f)
    BY <1>3, <2>2, NothingCommitsBelowWorker
  <2> QED BY <2>3 DEF CommitsHaveTrees
<1>7. QueueIsFlushed'
  BY <1>3 DEF WorkInv, QueueIsFlushed
<1>8. CommitIsScheduled'
  BY <1>3 DEF CommitIsScheduled
<1> QED BY <1>3, <1>5, <1>6, <1>7, <1>8 DEF WorkInv

\* A commit is called.
LEMMA CallCommitRootWorks ==
  ASSUME IInv, WorkInv, Rendering, NEW x, NEW status,
         SameCallback(x, roots[Head(stack).root]), x.finishedLanes = Head(stack).lanes,
         CallCommitRoot(x, status)
  PROVE  WorkInv'
<1> DEFINE h == Head(stack)
           c == [h EXCEPT !.at = "end"]
<1>1. PICK r \in Root : /\ r = h.root /\ stack # <<>> /\ h.function \in Workers
                        /\ h \in CallRecord /\ h.lanes # {}
  BY RenderInProgress DEF GoodCall
<1> DEFINE t == <<c>> \o Tail(stack)
<1>2. stack \in Seq(CallRecord) /\ Shape(stack)
  BY DEF IInv, StackInv, AllFit, WorkInv
<1>3. PICK fails \in BOOLEAN :
        stack' = <<[Call("commitRoot", r) EXCEPT !.fails = fails], c>> \o Tail(stack)
  BY <1>1 DEF CallCommitRoot
<1> DEFINE commit == [Call("commitRoot", r) EXCEPT !.fails = fails]
<1>4. stack' = <<commit, c>> \o Tail(stack)
  BY <1>3
<1>5. commit \in CallRecord /\ commit.function = "commitRoot" /\ commit.at = "start"
      /\ commit.root = r /\ ~IsFlush(commit)
  BY CallIsGood DEF GoodCall, Call, CallRecord, IsFlush
<1>6. PICK f \in {Frame(h, Top(Tail(stack)))} : f \in Frames(stack) /\ FrameOk(f)
  BY <1>1, <1>2, PopFrames DEF Shape
<1>7. f.call = h
  BY <1>6, FrameFields
<1>8. /\ GoesOn(c, h) /\ c \in CallRecord /\ c.at = "end"
      /\ c.function = h.function /\ c.root = r
  BY <1>1, <1>6, <1>7 DEF GoesOn, CallRecord, FrameOk
<1> HIDE DEF c, commit
<1>9. /\ t \in Seq(CallRecord) /\ Shape(t) /\ Top(t) = c
      /\ Frames(t) = {Frame(c, Top(Tail(stack)))} \cup Frames(Tail(stack))
      /\ NoFlush(t) <=> NoFlush(stack)
  BY <1>1, <1>2, <1>8, ContinuesShape
<1>10. stack' = <<commit>> \o t
  <2>1. Tail(stack) \in Seq(CallRecord)
    BY <1>1, <1>2, PopFrames
  <2> QED BY <1>5, <1>8, <1>4, <2>1, PushTwo
<1> HIDE DEF t
<1>11. /\ stack' # <<>> /\ Top(stack') = commit
       /\ Frames(stack') = {Frame(commit, c)} \cup Frames(t)
       /\ NoFlush(stack') <=> NoFlush(stack)
       /\ OneFlush(stack')
  <2>1. OneFlush(t)
    BY <1>9 DEF Shape
  <2> QED BY <1>5, <1>9, <1>10, <2>1, PushFrames
<1>12. Frame(commit, c).call = commit /\ Frame(commit, c).on = c
  BY FrameFields
<1>13. Shape(stack')
  <2>1. FrameOk(Frame(commit, c))
    BY <1>5, <1>8, <1>12 DEF FrameOk
  <2> QED BY <1>9, <1>11, <2>1 DEF Shape
<1>14. /\ \A q : CallsKept(q)
       /\ Owes(Frames(stack'), r)
  <2>1. {Frame(c, Top(Tail(stack)))} \cup Frames(Tail(stack)) \subseteq Frames(stack')
    BY <1>9, <1>11
  <2>2. c.function = "performSyncWorkOnRoot" =>
          \E g \in Frames(stack') : IsSyncCommit(g) /\ g.call.root = c.root
    <3>1. Frame(commit, c) \in Frames(stack')
      BY <1>11
    <3> QED BY <1>5, <1>8, <1>12, <3>1 DEF IsSyncCommit
  <2> QED BY <1>1, <1>8, <2>1, <2>2, WorkerGoesOn DEF Workers
<1>15. /\ roots' = [roots EXCEPT ![r] = x]
       /\ UNCHANGED <<syncQueue, tasks, microtasks, flushTasks, wrecked>>
  BY <1>1 DEF CallCommitRoot
<1>16. roots'[r] = x /\ \A q \in Root \ {r} : roots'[q] = roots[q]
  BY <1>15 DEF IInv, RootsAgree
<1>17. RootsWork'
  BY <1>1, <1>14, <1>15, <1>16, OwedRootWorks
<1>18. CommitsHaveTrees'
  <2>1. ~IsSyncCommit(Frame(c, Top(Tail(stack))))
    BY <1>1, <1>8, FrameFields DEF IsSyncCommit, Workers
  <2>2. \A g \in Frames(stack') : IsSyncCommit(g) => g.call.root = r
    BY <1>1, <1>5, <1>9, <1>11, <1>12, <2>1, NothingCommitsBelowWorker
  <2> QED BY <1>1, <1>16, <2>2 DEF CommitsHaveTrees
<1>19. QueueIsFlushed'
  BY <1>11, <1>15 DEF WorkInv, QueueIsFlushed
<1>20. CommitIsScheduled'
  BY <1>5, <1>11 DEF CommitIsScheduled
<1> QED BY <1>13, <1>17, <1>18, <1>19, <1>20 DEF WorkInv

LEMMA HeadFrame ==
  ASSUME IInv, WorkInv, stack # <<>>
  PROVE  /\ FrameOk(Frame(Head(stack), Top(Tail(stack))))
         /\ Head(stack) \in CallRecord
         /\ GoesOn(Head(stack), Head(stack))
<1>1. stack \in Seq(CallRecord)
  BY DEF IInv, StackInv, AllFit
<1>2. Frame(Head(stack), Top(Tail(stack))) \in Frames(stack) /\ Head(stack) \in CallRecord
  BY <1>1, PopFrames
<1>3. FrameOk(Frame(Head(stack), Top(Tail(stack))))
  BY <1>2 DEF WorkInv, Shape
<1> QED BY <1>2, <1>3, FrameFields DEF FrameOk, GoesOn

LEMMA StartRenderWorks ==
  ASSUME IInv, WorkInv, stack # <<>>, Head(stack).function \in Workers,
         NEW call, GoesOn(call, Head(stack)), NEW lanes \in SUBSET Lanes,
         StartRender(call, lanes), UNCHANGED <<tasks, syncQueue, microtasks, flushTasks, wrecked>>
  PROVE  WorkInv'
<1> DEFINE c == [call EXCEPT !.at = "rendering", !.lanes = lanes]
<1>1. PICK r \in Root : r = Head(stack).root /\ r = call.root
  BY RunningCall DEF GoodCall, Workers, GoesOn
<1>2. GoesOn(c, Head(stack)) /\ c.at = "rendering"
  BY DEF GoesOn, CallRecord
<1>3. Continue(c)
  BY DEF StartRender
<1> HIDE DEF c
<1>4. /\ \A q \in Root \ {r} : roots'[q] = roots[q]
      /\ SameCallback(roots'[r], roots[r])
  <2>1. CASE wip.root = r /\ wip.lanes = lanes
    BY <1>1, <2>1 DEF StartRender, SameCallback
  <2>2. CASE ~(wip.root = r /\ wip.lanes = lanes)
    <3> DEFINE x == PrepareFreshStack(roots[r])
    <3>1. SameCallback(x, roots[r])
      BY PrepareFreshStackCallback DEF IInv, RootsAgree
    <3>2. roots' = [roots EXCEPT ![r] = x]
      BY <1>1, <2>2 DEF StartRender
    <3> HIDE DEF x
    <3> QED BY <3>1, <3>2 DEF IInv, RootsAgree
  <2> QED BY <2>1, <2>2
<1> QED BY <1>1, <1>2, <1>3, <1>4, WorkerWorks

\* A call has returned, leaving what it did for its root to its caller or to the
\* Scheduler.
LEMMA ReturnedWork ==
  ASSUME IInv, WorkInv, stack # <<>>, Frames(Tail(stack)) \subseteq Frames(stack'),
         UNCHANGED <<roots, syncQueue, wrecked>>, tasks \subseteq tasks',
         NEW r, r = Head(stack).root,
         LET h == {Frame(Head(stack), Top(Tail(stack)))}
         IN  r \in Root \ wrecked =>
             /\ \A n : n = roots[r].callbackNode /\ n # NoNode /\ Runs(h, n, r) => HasTask(r, n)'
             /\ Performs(h, r) /\ roots[r].callbackPriority = SyncLane => HasSyncWork(r)'
             /\ Owes(h, r) => Owes(Frames(stack'), r)
  PROVE  RootsWork'
<1> DEFINE h == {Frame(Head(stack), Top(Tail(stack)))}
<1>1. stack \in Seq(CallRecord)
  BY DEF IInv, StackInv, AllFit
<1>2. /\ \A q : q # r => CallsKept(q)
      /\ \A n : Runs(Frames(stack), n, r) => Runs(h, n, r) \/ Runs(Frames(stack'), n, r)
      /\ Performs(Frames(stack), r) => Performs(h, r) \/ Performs(Frames(stack'), r)
      /\ Owes(Frames(stack), r) => Owes(h, r) \/ Owes(Frames(stack'), r)
  BY <1>1, HeadOnly
<1>3. r \in Root \ wrecked =>
      /\ \A n : n = roots[r].callbackNode /\ n # NoNode /\ Runs(h, n, r) => HasTask(r, n)'
      /\ Performs(h, r) /\ roots[r].callbackPriority = SyncLane => HasSyncWork(r)'
      /\ Owes(h, r) => Owes(Frames(stack'), r)
  OBVIOUS
<1> HIDE DEF h
<1>4. ASSUME NEW q \in Root \ wrecked PROVE RootWork(q)'
  <2>1. SameCallback(roots'[q], roots[q]) /\ SameLanes(roots'[q], roots[q])
    BY DEF SameCallback, SameLanes
  <2>2. ASSUME NEW n, n = roots[q].callbackNode, n # NoNode, HasTask(q, n)
        PROVE  HasTask(q, n)'
    <3>1. TaskOf(q, n) \in tasks => TaskOf(q, n) \in tasks'
      OBVIOUS
    <3>2. CASE q # r
      BY <1>2, <2>2, <3>1, <3>2 DEF HasTask, CallsKept
    <3>3. CASE q = r
      BY <1>2, <1>3, <2>2, <3>1, <3>3 DEF HasTask
    <3> QED BY <3>2, <3>3
  <2>3. roots[q].callbackPriority = SyncLane /\ HasSyncWork(q) => HasSyncWork(q)'
    <3>1. IsQueued(q) => IsQueued(q)'
      BY DEF IsQueued
    <3>2. CASE q # r
      BY <1>2, <3>1, <3>2 DEF HasSyncWork, CallsKept
    <3>3. CASE q = r
      BY <1>2, <1>3, <3>1, <3>3 DEF HasSyncWork
    <3> QED BY <3>2, <3>3
  <2>4. Owes(Frames(stack'), q) \/ ~Owes(Frames(stack), q)
    BY <1>2, <1>3 DEF CallsKept
  <2>5. RootWork(q)
    BY DEF WorkInv, RootsWork
  <2> QED BY <2>1, <2>2, <2>3, <2>4, <2>5, KeptWork
<1>5. (\A q \in Root : CallbackFits(roots'[q])) /\ OwnTasks'
  BY DEF WorkInv, RootsWork, OwnTasks
<1> QED BY <1>4, <1>5 DEF RootsWork

\* A task that finds nothing to do is one that its root does not record.
LEMMA NothingToDoIsNotRecorded ==
  ASSUME IInv, WorkInv, Running("performConcurrentWorkOnRoot", "start"),
         NEW r \in Root \ wrecked, r = Head(stack).root,
         GetNextLanes(roots[r], WipLanes(wip, r)) = {}
  PROVE  roots[r].callbackNode = NoNode
<1> DEFINE h == Head(stack)
           f == Frame(h, Top(Tail(stack)))
<1>1. /\ stack # <<>> /\ h.function = "performConcurrentWorkOnRoot" /\ h.at = "start"
      /\ stack \in Seq(CallRecord)
  BY DEF Running, Idle, IInv, StackInv, AllFit
<1>2. Tail(stack) = <<>>
  BY <1>1, RunningCall
<1>3. Frames(stack) = {f}
  BY <1>1, <1>2, PopFrames, EmptyFrames
<1>4. ~Owes({f}, r)
  BY <1>1, OneCall
<1> HIDE DEF f
<1>5. Settled(roots[r])
  BY <1>3, <1>4 DEF WorkInv, RootsWork, RootWork
<1>6. /\ LaneFields(roots[r]) /\ CallbackFits(roots[r])
      /\ WipLanes(wip, r) \in SUBSET Lanes
  BY GoodRootHasLaneFields DEF IInv, RootsAgree, GoodRoot, WorkInv, RootsWork, WipLanes, WorkRecord
<1>7. Workable(roots[r]) = {}
  BY <1>6, NextLanesFindWork
<1> QED BY <1>5, <1>6, <1>7 DEF CallbackFits, Settled

LEMMA EmptyStackWorks ==
  ASSUME stack' = <<>>
  PROVE  Shape(stack') /\ CommitsHaveTrees' /\ CommitIsScheduled'
<1>1. Top(stack') = NoCall
  BY DEF Top
<1> QED BY <1>1, EmptyFrames DEF Shape, CommitsHaveTrees, CommitIsScheduled, NoCall, Call

LEMMA PerformConcurrentWorkWorks ==
  ASSUME IInv, WorkInv, PerformConcurrentWork
  PROVE  WorkInv'
<1> DEFINE h == Head(stack)
<1>1. /\ stack # <<>> /\ h.function = "performConcurrentWorkOnRoot" /\ h.at = "start"
      /\ Running("performConcurrentWorkOnRoot", "start")
      /\ UNCHANGED <<syncQueue, tasks, microtasks, flushTasks, wrecked>>
      /\ stack \in Seq(CallRecord) /\ Shape(stack)
  BY DEF PerformConcurrentWork, Running, Idle, hostVars, IInv, StackInv, AllFit, WorkInv
<1>2. PICK r \in Root : r = h.root
  BY <1>1, RunningCall DEF GoodCall
<1> DEFINE lanes == GetNextLanes(roots[r], WipLanes(wip, r))
           sliced(didTimeout) == /\ ~IncludesBlockingLane(lanes)
                                 /\ ~IncludesExpiredLane(roots[r], lanes)
                                 /\ ~didTimeout
<1>3. r \in Root \ wrecked /\ lanes = {} => roots[r].callbackNode = NoNode
  BY <1>1, <1>2, NothingToDoIsNotRecorded
<1>4. lanes \in SUBSET Lanes
  BY <1>2, NextLanesArePending DEF IInv
<1>5. CASE /\ roots[r].callbackNode # h.node \/ lanes = {}
           /\ Return /\ UNCHANGED <<wip, roots>>
  <2>1. stack' = <<>> /\ Tail(stack) = <<>>
    BY <1>1, <1>5, RunningCall DEF Return
  <2>2. RootsWork'
    <3> DEFINE f == Frame(h, Top(Tail(stack)))
    <3>1. Frames(Tail(stack)) \subseteq Frames(stack')
      BY <2>1
    <3>2. /\ \A n : Runs({f}, n, r) => h.node = n
          /\ ~Performs({f}, r) /\ ~Owes({f}, r)
      BY <1>1, OneCall
    <3>3. r \in Root \ wrecked => \A n : n = roots[r].callbackNode /\ n # NoNode => ~Runs({f}, n, r)
      BY <1>3, <1>5, <3>2
    <3> QED BY <1>1, <1>2, <1>5, <3>1, <3>2, <3>3, ReturnedWork
  <2>3. NoFlush(stack)
    BY <1>1, <2>1, EmptyFrames, ReturnsShape DEF IsFlush
  <2>4. QueueIsFlushed'
    BY <1>1, <2>3 DEF WorkInv, QueueIsFlushed
  <2>5. Shape(stack') /\ CommitsHaveTrees' /\ CommitIsScheduled'
    BY <2>1, EmptyStackWorks
  <2> QED BY <2>2, <2>4, <2>5 DEF WorkInv
<1>6. ASSUME NEW s \in BOOLEAN, StartRender([h EXCEPT !.sliced = s], lanes)
      PROVE  WorkInv'
  <2> DEFINE c == [h EXCEPT !.sliced = s]
  <2>1. GoesOn(c, h)
    <3>1. GoesOn(h, h) /\ h \in CallRecord
      BY <1>1, HeadFrame
    <3> QED BY <1>1, <3>1 DEF GoesOn, CallRecord
  <2> HIDE DEF c, lanes
  <2>2. StartRender(c, lanes)
    BY <1>6 DEF c
  <2> QED BY <1>1, <1>4, <2>1, <2>2, StartRenderWorks DEF Workers
<1>7. \/ /\ roots[r].callbackNode # h.node \/ lanes = {}
         /\ Return /\ UNCHANGED <<wip, roots>>
      \/ \E didTimeout \in BOOLEAN :
           StartRender([h EXCEPT !.sliced = sliced(didTimeout)], lanes)
  BY <1>2 DEF PerformConcurrentWork
<1>8. \A didTimeout \in BOOLEAN : sliced(didTimeout) \in BOOLEAN
  OBVIOUS
<1> HIDE DEF sliced, lanes
<1> QED BY <1>5, <1>6, <1>7, <1>8

LEMMA PerformSyncWorkWorks ==
  ASSUME IInv, WorkInv, PerformSyncWork
  PROVE  WorkInv'
<1> DEFINE h == Head(stack)
           f == Frame(h, Top(Tail(stack)))
<1>1. /\ stack # <<>> /\ h.function = "performSyncWorkOnRoot" /\ h.at = "start"
      /\ UNCHANGED <<flushTasks, wrecked>> /\ stack \in Seq(CallRecord) /\ Shape(stack)
  BY DEF PerformSyncWork, Running, Idle, IInv, StackInv, AllFit, WorkInv
<1>2. PICK r \in Root : r = h.root
  BY <1>1, RunningCall DEF GoodCall
<1>3. ~h.sliced /\ IsFlush(Top(Tail(stack))) /\ GoesOn(h, h)
  BY <1>1, HeadFrame, FrameFields DEF FrameOk
<1> DEFINE lanes == GetNextLanes(roots[r], {})
<1>4. lanes \in SUBSET Lanes
  BY <1>2, NextLanesArePending DEF IInv
<1>5. CASE SyncLane \in lanes
  <2>1. StartRender(h, lanes) /\ UNCHANGED <<tasks, syncQueue, microtasks>>
    BY <1>2, <1>5 DEF PerformSyncWork
  <2> HIDE DEF lanes
  <2> QED BY <1>1, <1>3, <1>4, <2>1, StartRenderWorks DEF Workers
<1>6. CASE SyncLane \notin lanes
  <2>1. stack' = Tail(stack) /\ EnsureRootIsScheduled(r, roots[r], wip, {})
    BY <1>2, <1>6 DEF PerformSyncWork, Return
  <2>2. /\ GoodRoot(roots[r]) /\ LaneFields(roots[r]) /\ wip \in WorkRecord
        /\ \A l \in Lanes : roots[r].entanglements[l] \subseteq TransitionLanes
    BY GoodRootHasLaneFields DEF IInv, RootsAgree, GoodRoot
  <2>3. SyncLane \notin Workable(roots[r])
    BY <1>6, <2>2, SyncLaneComesFirst
  <2>4. SyncLane \in WipLanes(wip, r) => SyncLane \in roots[r].pendingLanes
    BY SyncRenderIsPending DEF IInv
  <2>5. /\ Shape(stack') /\ (NoFlush(stack') => NoFlush(stack)) /\ Top(stack').at # "layout"
    BY <1>1, <2>1, ReturnsShape DEF IsFlush
  <2>6. /\ \A q \in Root \ {r} : CallsKept(q)
        /\ HandedOn(r, SyncLane \in Workable(roots[r]))
    <3>1. /\ \A q : q # r => CallsKept(q)
          /\ \A n : Runs(Frames(stack), n, r) => Runs({f}, n, r) \/ Runs(Frames(stack'), n, r)
      BY <1>1, <1>2, <2>1, HeadOnly
    <3>2. \A n : ~Runs({f}, n, r)
      BY <1>1, OneCall
    <3> QED BY <2>3, <3>1, <3>2 DEF HandedOn
  <2>7. RootsWork' /\ QueueIsFlushed' /\ Reschedule(r)
        /\ roots'[r].finishedLanes = roots[r].finishedLanes
    <3>1. /\ SameCallback(roots[r], roots[r])
          /\ {} \in SUBSET (roots[r].pendingLanes \cap TransitionLanes)
      BY DEF SameCallback
    <3> QED BY <1>1, <2>1, <2>2, <2>4, <2>5, <2>6, <3>1, EnsureWork
  <2>8. CommitsHaveTrees'
    BY <1>1, <2>1, NothingCommitsBelowWorker DEF CommitsHaveTrees, Workers
  <2>9. CommitIsScheduled'
    BY <2>5 DEF CommitIsScheduled
  <2> QED BY <2>5, <2>7, <2>8, <2>9 DEF WorkInv
<1> QED BY <1>5, <1>6

LEMMA RenderYieldsWorks ==
  ASSUME IInv, WorkInv, RenderYields
  PROVE  WorkInv'
<1> DEFINE h == Head(stack)
           c == [h EXCEPT !.at = "end"]
<1>1. /\ Rendering /\ h.sliced /\ Continue(c)
      /\ UNCHANGED <<roots, tasks, syncQueue, microtasks, flushTasks, wrecked>>
  BY DEF RenderYields, hostVars
<1>2. PICK r \in Root : r = h.root /\ stack # <<>> /\ h.function \in Workers
  BY <1>1, RenderInProgress
<1>3. /\ GoesOn(h, h) /\ h \in CallRecord
      /\ h.function = "performConcurrentWorkOnRoot"
  BY <1>1, <1>2, HeadFrame, FrameFields DEF FrameOk, Workers
<1>4. GoesOn(c, h) /\ c.at = "end" /\ c.function = "performConcurrentWorkOnRoot"
  BY <1>3 DEF GoesOn, CallRecord
<1>5. SameCallback(roots'[r], roots[r])
  BY <1>1 DEF SameCallback
<1> HIDE DEF c
<1> QED BY <1>1, <1>2, <1>4, <1>5, WorkerWorks

LEMMA RenderAgainWorks ==
  ASSUME IInv, WorkInv, Rendering, NEW lanes \in SUBSET Lanes,
         NEW attempt \in {"first", "recovery", "store", "storeRecovery"},
         RenderAgain(attempt, lanes)
  PROVE  WorkInv'
<1> DEFINE h == Head(stack)
           c == [h EXCEPT !.attempt = attempt, !.lanes = lanes, !.sliced = FALSE]
           x == PrepareFreshStack(roots[h.root])
<1>1. PICK r \in Root : /\ r = h.root /\ stack # <<>> /\ h.function \in Workers
                        /\ h.at = "rendering" /\ roots[r] \in RootRecord
  BY RenderInProgress DEF Rendering, GoodRoot
<1>2. GoesOn(h, h) /\ h \in CallRecord
  BY <1>1, HeadFrame
<1>3. GoesOn(c, h) /\ c.at = "rendering"
  BY <1>1, <1>2 DEF GoesOn, CallRecord
<1>4. Continue(c) /\ roots' = [roots EXCEPT ![r] = x]
      /\ UNCHANGED <<tasks, syncQueue, microtasks, flushTasks, wrecked>>
  BY <1>1 DEF RenderAgain
<1>5. SameCallback(x, roots[r])
  BY <1>1, PrepareFreshStackCallback
<1> HIDE DEF x, c
<1>6. /\ \A q \in Root \ {r} : roots'[q] = roots[q]
      /\ SameCallback(roots'[r], roots[r])
  BY <1>4, <1>5 DEF IInv, RootsAgree
<1> QED BY <1>1, <1>3, <1>4, <1>6, WorkerWorks

LEMMA EndWithoutCommitWorks ==
  ASSUME IInv, WorkInv, Rendering, Head(stack).function = "performConcurrentWorkOnRoot",
         NEW x, SameCallback(x, roots[Head(stack).root]), EndWithoutCommit(x)
  PROVE  WorkInv'
<1> DEFINE h == Head(stack)
           c == [h EXCEPT !.at = "end"]
<1>1. PICK r \in Root : r = h.root /\ stack # <<>> /\ h.function \in Workers
  BY RenderInProgress
<1>2. GoesOn(h, h) /\ h \in CallRecord
  BY <1>1, HeadFrame
<1>3. GoesOn(c, h) /\ c.at = "end" /\ c.function = "performConcurrentWorkOnRoot"
  BY <1>1, <1>2 DEF GoesOn, CallRecord
<1>4. Continue(c) /\ roots' = [roots EXCEPT ![r] = x]
      /\ UNCHANGED <<tasks, syncQueue, microtasks, flushTasks, wrecked>>
  BY <1>1 DEF EndWithoutCommit
<1> HIDE DEF c
<1>5. /\ \A q \in Root \ {r} : roots'[q] = roots[q]
      /\ SameCallback(roots'[r], roots[r])
  BY <1>1, <1>4 DEF IInv, RootsAgree
<1> QED BY <1>1, <1>3, <1>4, <1>5, WorkerWorks

LEMMA RecoverFromConcurrentErrorWorks ==
  ASSUME IInv, WorkInv, Rendering, NEW status, RecoversFromError(status),
         RecoverFromConcurrentError
  PROVE  WorkInv'
<1>1. PICK attempt \in {"recovery", "storeRecovery"} : RenderAgain(attempt, RetryLanesOnError)
  BY DEF RecoverFromConcurrentError
<1>2. RetryLanesOnError \in SUBSET Lanes
  BY RenderInProgress
     DEF RetryLanesOnError, LanesToRetrySynchronouslyOnError, GoodRoot, RootRecord
<1> HIDE DEF RetryLanesOnError
<1> QED BY <1>1, <1>2, RenderAgainWorks

\* The root of a finished render keeps its callback.
LEMMA FinishedCallback ==
  ASSUME IInv, Rendering
  PROVE  LET r == Head(stack).root
             x == Finished(r)
             y == SuspendLanes(x, wip, Head(stack).lanes)
         IN  /\ SameCallback(x, roots[r]) /\ x.finishedLanes = Head(stack).lanes
             /\ SameCallback(y, roots[r]) /\ y.finishedLanes = Head(stack).lanes
             /\ SameCallback([y EXCEPT !.timeoutHandle = TRUE], roots[r])
             /\ SameCallback(MarkRootPinged(y, y.suspendedLanes), roots[r])
<1> DEFINE r == Head(stack).root
           x == Finished(r)
           y == SuspendLanes(x, wip, Head(stack).lanes)
<1>1. roots[r] \in RootRecord
  BY RenderInProgress DEF GoodRoot
<1>2. FinishedTree(x) /\ FinishedTree(y)
  BY FinishedIsGood
<1>3. SameCallback(x, roots[r])
  BY <1>1 DEF Finished, SameCallback, RootRecord
<1> HIDE DEF x
<1>4. SameCallback(y, x)
  BY <1>2, SuspendLanesCallback DEF FinishedTree, GoodRoot
<1> HIDE DEF y
<1>5. y \in RootRecord
  BY <1>2 DEF FinishedTree, GoodRoot
<1>6. /\ SameCallback([y EXCEPT !.timeoutHandle = TRUE], y)
      /\ SameCallback(MarkRootPinged(y, y.suspendedLanes), y)
  <2>1. SameCallback(MarkRootPinged(y, y.suspendedLanes), y)
    BY <1>5, MarkRootPingedCallback
  <2>2. SameCallback([y EXCEPT !.timeoutHandle = TRUE], y)
    BY <1>5 DEF SameCallback, RootRecord
  <2> QED BY <2>1, <2>2
<1>7. \A a, b, d : SameCallback(a, b) /\ SameCallback(b, d) => SameCallback(a, d)
  BY DEF SameCallback
<1> USE DEF x, y
<1> QED BY <1>2, <1>3, <1>4, <1>6, <1>7 DEF FinishedTree

\* An error ends all calls.  The roots they leave without an ensureRootIsScheduled
\* are wrecked.
LEMMA ThrowDropsCalls ==
  ASSUME IInv, WorkInv, NEW done, Throw(done)
  PROVE  /\ stack' = <<>> /\ Shape(stack') /\ CommitsHaveTrees' /\ CommitIsScheduled'
         /\ wrecked \subseteq wrecked'
         /\ \A q \in Root : q \notin wrecked' \cup done => CallsKept(q)
         /\ flushTasks' \in {flushTasks, flushTasks + 1}
         /\ NoFlush(stack') => NoFlush(stack) \/ flushTasks' > 0
<1>1. stack \in Seq(CallRecord) /\ flushTasks \in Nat
  BY DEF IInv, StackInv, AllFit, HostTypes
<1>2. /\ stack' = <<>> /\ wrecked \subseteq wrecked'
      /\ \A i \in 1..Len(stack) : stack[i].root \in wrecked' \cup done \cup {NoRoot}
      /\ flushTasks' = IF IsFlushingSyncQueue THEN flushTasks + 1 ELSE flushTasks
  BY <1>1, ThrowWrecks
<1>3. ASSUME NEW q \in Root, q \notin wrecked' \cup done PROVE CallsKept(q)
  <2>1. q # NoRoot
    BY RootSchedulerAssumption
  <2>2. \A f \in Frames(stack) : f.call.root # q
    BY <1>2, <1>3, <2>1 DEF Frames, Frame
  <2> QED BY <2>2 DEF CallsKept, Runs, Performs, Owes
<1>4. NoFlush(stack) \/ flushTasks' > 0
  BY <1>1, <1>2, FlushingIsFlush
<1> QED BY <1>1, <1>2, <1>3, <1>4, EmptyStackWorks

LEMMA ThrowFatalErrorWorks ==
  ASSUME IInv, WorkInv, Rendering, ThrowFatalError
  PROVE  WorkInv'
<1> DEFINE x == PrepareFreshStack(roots[Head(stack).root])
           y == MarkRootSuspended(x, Head(stack).lanes)
           work == FreshWork(Head(stack).root, {})
<1>1. PICK r \in Root : /\ r = Head(stack).root /\ GoodRoot(roots[r]) /\ stack # <<>>
                        /\ Head(stack).lanes \in SUBSET Lanes
                        /\ Head(stack).lanes \ TransitionLanes \subseteq roots[r].pendingLanes
  BY RenderInProgress
<1>2. /\ GoodRoot(x) /\ x.pendingLanes = roots[r].pendingLanes
      /\ SameCallback(x, roots[r])
  BY <1>1, PrepareFreshStackIsGood, PrepareFreshStackCallback DEF GoodRoot
<1>3. work \in WorkRecord /\ WipLanes(work, r) = {}
  BY <1>1, EmptyWork
<1>4. EnsureRootIsScheduled(r, y, work, {}) /\ Throw({})
  BY <1>1 DEF ThrowFatalError
<1> HIDE DEF x, work
<1>5. GoodRoot(y)
  BY <1>1, <1>2, MarkRootSuspendedIsGood
<1>6. SameCallback(y, roots[r])
  <2>1. x \in RootRecord
    BY <1>2 DEF GoodRoot
  <2>2. SameCallback(y, x)
    BY <2>1 DEF MarkRootSuspended, SameCallback, RootRecord
  <2> QED BY <1>2, <2>2 DEF SameCallback
<1> HIDE DEF y
<1>7. r \in wrecked'
  BY <1>1, <1>4, ThrowWrecksHead
<1>8. /\ Shape(stack') /\ CommitsHaveTrees' /\ CommitIsScheduled'
      /\ wrecked \subseteq wrecked'
      /\ \A q \in Root : q \notin wrecked' => CallsKept(q)
      /\ flushTasks' \in {flushTasks, flushTasks + 1}
      /\ NoFlush(stack') => NoFlush(stack) \/ flushTasks' > 0
  BY <1>4, ThrowDropsCalls
<1>9. {} \in SUBSET (y.pendingLanes \cap TransitionLanes) /\ SyncLane \notin WipLanes(work, r)
  BY <1>3
<1>10. RootsWork' /\ QueueIsFlushed'
  BY <1>3, <1>4, <1>5, <1>6, <1>7, <1>8, <1>9, EnsureWork
<1> QED BY <1>8, <1>10 DEF WorkInv

\* "Unknown root exit status."
LEMMA ThrowUnknownStatusWorks ==
  ASSUME IInv, WorkInv, Rendering, NEW x, SameCallback(x, roots[Head(stack).root]),
         roots' = [roots EXCEPT ![Head(stack).root] = x], Throw({}),
         UNCHANGED <<syncQueue, tasks, microtasks>>
  PROVE  WorkInv'
<1>1. PICK r \in Root : r = Head(stack).root /\ stack # <<>>
  BY RenderInProgress
<1>2. r \in wrecked'
  BY <1>1, ThrowWrecksHead
<1>3. /\ Shape(stack') /\ CommitsHaveTrees' /\ CommitIsScheduled'
      /\ wrecked \subseteq wrecked'
      /\ \A q \in Root : q \notin wrecked' => CallsKept(q)
      /\ flushTasks' \in {flushTasks, flushTasks + 1}
      /\ NoFlush(stack') => NoFlush(stack) \/ flushTasks' > 0
  BY ThrowDropsCalls
<1>4. /\ \A q \in Root \ {r} : roots'[q] = roots[q]
      /\ SameCallback(roots'[r], roots[r])
  BY <1>1 DEF IInv, RootsAgree
<1>5. RootsWork'
  BY <1>2, <1>3, <1>4, OwedRootWorks
<1>6. QueueIsFlushed'
  BY <1>3 DEF WorkInv, QueueIsFlushed, IInv, QueueTypes, HostTypes
<1> QED BY <1>3, <1>5, <1>6 DEF WorkInv

LEMMA FinishConcurrentRenderWorks ==
  ASSUME IInv, WorkInv, Rendering, Head(stack).function = "performConcurrentWorkOnRoot",
         NEW status, FinishConcurrentRender(status)
  PROVE  WorkInv'
<1> DEFINE r == Head(stack).root
           x == Finished(r)
           y == SuspendLanes(x, wip, Head(stack).lanes)
           z == [y EXCEPT !.timeoutHandle = TRUE]
           p == MarkRootPinged(y, y.suspendedLanes)
<1>1. /\ SameCallback(x, roots[r]) /\ x.finishedLanes = Head(stack).lanes
      /\ SameCallback(y, roots[r]) /\ y.finishedLanes = Head(stack).lanes
      /\ SameCallback(z, roots[r])
      /\ SameCallback(p, roots[r])
  BY FinishedCallback
<1>2. \/ CallCommitRoot(x, status) \/ CallCommitRoot(y, status)
      \/ EndWithoutCommit(y) \/ EndWithoutCommit(z) \/ EndWithoutCommit(p)
      \/ /\ roots' = [roots EXCEPT ![r] = x] /\ Throw({})
         /\ UNCHANGED <<syncQueue, tasks, microtasks>>
  BY DEF FinishConcurrentRender, ThrottleFallback
<1> HIDE DEF x, y, z, p
<1>3. CASE CallCommitRoot(x, status) \/ CallCommitRoot(y, status)
  BY <1>1, <1>3, CallCommitRootWorks
<1>4. CASE EndWithoutCommit(y) \/ EndWithoutCommit(z) \/ EndWithoutCommit(p)
  BY <1>1, <1>4, EndWithoutCommitWorks
<1>5. CASE /\ roots' = [roots EXCEPT ![r] = x] /\ Throw({})
           /\ UNCHANGED <<syncQueue, tasks, microtasks>>
  BY <1>1, <1>5, ThrowUnknownStatusWorks
<1> QED BY <1>2, <1>3, <1>4, <1>5

LEMMA CompleteConcurrentRenderWorks ==
  ASSUME IInv, WorkInv, NEW status \in Statuses, CompleteConcurrentRender(status)
  PROVE  WorkInv'
<1> DEFINE r == Head(stack).root
           u == SuspendLanes(roots[r], wip, Head(stack).lanes)
<1>1. /\ Rendering /\ stack # <<>>
      /\ Head(stack).function = "performConcurrentWorkOnRoot"
  BY DEF CompleteConcurrentRender, Running, Rendering, Idle
<1>2. CASE RecoversFromError(status) /\ RecoverFromConcurrentError
  BY <1>1, <1>2, RecoverFromConcurrentErrorWorks
<1>3. CASE ThrowFatalError
  BY <1>1, <1>3, ThrowFatalErrorWorks
<1>4. CASE EndWithoutCommit(u)
  <2>1. SameCallback(u, roots[r])
    BY <1>1, RenderInProgress, SuspendLanesCallback DEF GoodRoot
  <2> HIDE DEF u
  <2> QED BY <1>1, <1>4, <2>1, EndWithoutCommitWorks
<1>5. CASE RenderAgain("store", Head(stack).lanes)
  BY <1>1, <1>5, RenderInProgress, RenderAgainWorks
<1>6. CASE FinishConcurrentRender(status)
  BY <1>1, <1>6, FinishConcurrentRenderWorks
<1> QED BY <1>2, <1>3, <1>4, <1>5, <1>6 DEF CompleteConcurrentRender

LEMMA CompleteSyncRenderWorks ==
  ASSUME IInv, WorkInv, NEW status \in Statuses, CompleteSyncRender(status)
  PROVE  WorkInv'
<1> DEFINE x == Finished(Head(stack).root)
<1>1. Rendering
  BY DEF CompleteSyncRender, Running, Rendering
<1>2. CASE RecoversFromError(status) /\ RecoverFromConcurrentError
  BY <1>1, <1>2, RecoverFromConcurrentErrorWorks
<1>3. CASE ThrowFatalError
  BY <1>1, <1>3, ThrowFatalErrorWorks
<1>4. CASE CallCommitRoot(x, status)
  <2>1. SameCallback(x, roots[Head(stack).root]) /\ x.finishedLanes = Head(stack).lanes
    BY <1>1, FinishedCallback
  <2> HIDE DEF x
  <2> QED BY <1>1, <1>4, <2>1, CallCommitRootWorks
<1> QED BY <1>2, <1>3, <1>4 DEF CompleteSyncRender

-----------------------------------------------------------------------------
(* The end of a call, and commits *)

\* The running call, which goes on or returns, calls ensureRootIsScheduled of its
\* root.
LEMMA EnsureOfHeadWorks ==
  ASSUME IInv, WorkInv, stack # <<>>, NEW r \in Root, r = Head(stack).root,
         EnsureRootIsScheduled(r, roots[r], wip, {}), UNCHANGED <<flushTasks, wrecked>>,
         Frames(Tail(stack)) \subseteq Frames(stack'),
         LET h == {Frame(Head(stack), Top(Tail(stack)))}
         IN  /\ \A n : Runs(h, n, r) => Runs(Frames(stack'), n, r)
             /\ ~Performs(h, r),
         NoFlush(stack') => NoFlush(stack)
  PROVE  /\ RootsWork' /\ QueueIsFlushed'
         /\ \A q \in Root : roots'[q].finishedLanes = roots[q].finishedLanes
<1> DEFINE h == {Frame(Head(stack), Top(Tail(stack)))}
<1>1. stack \in Seq(CallRecord) /\ GoodRoot(roots[r]) /\ wip \in WorkRecord
  BY DEF IInv, StackInv, AllFit, RootsAgree
<1>2. SyncLane \in WipLanes(wip, r) => SyncLane \in roots[r].pendingLanes
  BY SyncRenderIsPending DEF IInv
<1>3. /\ \A q : q # r => CallsKept(q)
      /\ \A n : Runs(Frames(stack), n, r) => Runs(h, n, r) \/ Runs(Frames(stack'), n, r)
      /\ Performs(Frames(stack), r) => Performs(h, r) \/ Performs(Frames(stack'), r)
  BY <1>1, HeadOnly
<1>4. /\ \A n : Runs(h, n, r) => Runs(Frames(stack'), n, r)
      /\ ~Performs(h, r)
  OBVIOUS
<1> HIDE DEF h
<1>5. SameCallback(roots[r], roots[r]) /\ {} \in SUBSET (roots[r].pendingLanes \cap TransitionLanes)
  BY DEF SameCallback
<1>6. HandedOn(r, SyncLane \in Workable(roots[r]))
  BY <1>3, <1>4 DEF HandedOn
<1>7. /\ RootsWork' /\ QueueIsFlushed'
      /\ Reschedule(r)
      /\ roots'[r].finishedLanes = roots[r].finishedLanes
  BY <1>1, <1>2, <1>3, <1>5, <1>6, EnsureWork
<1> QED BY <1>7 DEF Reschedule

LEMMA EndConcurrentWorkWorks ==
  ASSUME IInv, WorkInv, EndConcurrentWork
  PROVE  WorkInv'
<1> DEFINE h == Head(stack)
           c == [h EXCEPT !.at = "return"]
           b == Top(Tail(stack))
<1>1. /\ stack # <<>> /\ h.function = "performConcurrentWorkOnRoot" /\ h.at = "end"
      /\ Continue(c) /\ UNCHANGED <<flushTasks, wrecked>>
      /\ EnsureRootIsScheduled(h.root, roots[h.root], wip, {})
      /\ stack \in Seq(CallRecord) /\ Shape(stack)
  BY DEF EndConcurrentWork, Running, Idle, IInv, StackInv, AllFit, WorkInv
<1>2. PICK r \in Root : r = h.root
  BY <1>1, RunningCall DEF GoodCall
<1>3. GoesOn(h, h) /\ h \in CallRecord
  BY <1>1, HeadFrame
<1>4. /\ GoesOn(c, h) /\ c.at = "return" /\ c.function = h.function
      /\ c.root = h.root /\ c.node = h.node /\ c.task = h.task
  BY <1>3 DEF GoesOn, CallRecord
<1> HIDE DEF c
<1>5. /\ Shape(stack') /\ stack' # <<>> /\ Top(stack') = c
      /\ Frames(stack') = {Frame(c, b)} \cup Frames(Tail(stack))
      /\ NoFlush(stack') <=> NoFlush(stack)
  BY <1>1, <1>4, ContinuesShape DEF Continue
<1>6. /\ \A n : Runs({Frame(h, b)}, n, r) => Runs(Frames(stack'), n, r)
      /\ ~Performs({Frame(h, b)}, r)
  <2>1. \A n : Runs({Frame(h, b)}, n, r) => Runs({Frame(c, b)}, n, r)
    BY <1>4, OneCall
  <2>2. ~Performs({Frame(h, b)}, r)
    BY <1>1, OneCall
  <2>3. {Frame(c, b)} \subseteq Frames(stack')
    BY <1>5
  <2> QED BY <2>1, <2>2, <2>3, CallsOfSubset
<1>7. RootsWork' /\ QueueIsFlushed'
  BY <1>1, <1>2, <1>5, <1>6, EnsureOfHeadWorks
<1>8. CommitsHaveTrees'
  <2>1. ~IsSyncCommit(Frame(c, b))
    BY <1>1, <1>4, FrameFields DEF IsSyncCommit
  <2> QED BY <1>1, <1>5, <2>1, NothingCommitsBelowWorker DEF CommitsHaveTrees, Workers
<1>9. CommitIsScheduled'
  BY <1>4, <1>5 DEF CommitIsScheduled
<1> QED BY <1>5, <1>7, <1>8, <1>9 DEF WorkInv

LEMMA ReturnContinuationWorks ==
  ASSUME IInv, WorkInv, ReturnContinuation
  PROVE  WorkInv'
<1> DEFINE h == Head(stack)
           f == Frame(h, Top(Tail(stack)))
<1>1. /\ stack # <<>> /\ h.function = "performConcurrentWorkOnRoot" /\ h.at = "return"
      /\ stack' = Tail(stack)
      /\ UNCHANGED <<roots, syncQueue, microtasks, flushTasks, wrecked>>
      /\ tasks' = IF roots[h.root].callbackNode = h.node
                  THEN tasks \cup {[node |-> h.task, root |-> h.root]}
                  ELSE tasks
      /\ stack \in Seq(CallRecord) /\ Shape(stack)
  BY DEF ReturnContinuation, Running, Idle, Return, hostVars, IInv, StackInv, AllFit, WorkInv
<1>2. PICK r \in Root : r = h.root
  BY <1>1, RunningCall DEF GoodCall
<1>3. Tail(stack) = <<>>
  BY <1>1, RunningCall
<1>4. /\ \A n : Runs({f}, n, r) <=> h.task = n /\ h.node = n
      /\ ~Performs({f}, r) /\ ~Owes({f}, r)
  BY <1>1, <1>2, OneCall DEF Workers
<1>5. \A n : n = roots[r].callbackNode /\ n # NoNode /\ Runs({f}, n, r) => HasTask(r, n)'
  <2> TAKE n
  <2> HAVE n = roots[r].callbackNode /\ n # NoNode /\ Runs({f}, n, r)
  <2>1. TaskOf(r, n) \in tasks'
    BY <1>1, <1>2, <1>4 DEF TaskOf
  <2> QED BY <2>1 DEF HasTask
<1>6. RootsWork'
  <2>1. tasks \subseteq tasks'
    BY <1>1
  <2> QED BY <1>1, <1>2, <1>4, <1>5, <2>1, ReturnedWork
<1>7. Shape(stack') /\ CommitsHaveTrees' /\ CommitIsScheduled'
  BY <1>1, <1>3, EmptyStackWorks
<1>8. NoFlush(stack)
  BY <1>1, <1>3, EmptyFrames, ReturnsShape DEF IsFlush
<1>9. QueueIsFlushed'
  BY <1>1, <1>8 DEF WorkInv, QueueIsFlushed
<1> QED BY <1>6, <1>7, <1>9 DEF WorkInv

LEMMA EndSyncWorkWorks ==
  ASSUME IInv, WorkInv, EndSyncWork
  PROVE  WorkInv'
<1> DEFINE h == Head(stack)
           f == Frame(h, Top(Tail(stack)))
<1>1. /\ stack # <<>> /\ h.function = "performSyncWorkOnRoot" /\ h.at = "end"
      /\ stack' = Tail(stack) /\ UNCHANGED <<flushTasks, wrecked>>
      /\ EnsureRootIsScheduled(h.root, roots[h.root], wip, {})
      /\ stack \in Seq(CallRecord) /\ Shape(stack)
  BY DEF EndSyncWork, Running, Idle, Return, IInv, StackInv, AllFit, WorkInv
<1>2. PICK r \in Root : r = h.root
  BY <1>1, RunningCall DEF GoodCall
<1>3. /\ Shape(stack') /\ Top(stack').at # "layout"
      /\ NoFlush(stack') => NoFlush(stack)
  BY <1>1, ReturnsShape DEF IsFlush
<1>4. (\A n : ~Runs({f}, n, r)) /\ ~Performs({f}, r)
  BY <1>1, OneCall
<1>5. RootsWork' /\ QueueIsFlushed'
  BY <1>1, <1>2, <1>3, <1>4, EnsureOfHeadWorks
<1>6. CommitsHaveTrees'
  BY <1>1, NothingCommitsBelowWorker DEF CommitsHaveTrees, Workers
<1>7. CommitIsScheduled'
  BY <1>3 DEF CommitIsScheduled
<1> QED BY <1>3, <1>5, <1>6, <1>7 DEF WorkInv

\* A step after which it only remains to see that the queues and the work of the
\* roots are in order.
LEMMA QuietWorks ==
  ASSUME WorkInv, UNCHANGED roots, Shape(stack'),
         \A f \in Frames(stack') : IsSyncCommit(f) => f \in Frames(stack),
         Top(stack').at # "layout", RootsWork', QueueIsFlushed'
  PROVE  WorkInv'
<1>1. CommitsHaveTrees'
  BY DEF WorkInv, CommitsHaveTrees
<1>2. CommitIsScheduled'
  BY DEF CommitIsScheduled
<1> QED BY <1>1, <1>2 DEF WorkInv

LEMMA CommitRootWorks ==
  ASSUME IInv, WorkInv, CommitRoot
  PROVE  WorkInv'
<1> DEFINE h == Head(stack)
           b == Top(Tail(stack))
           f == Frame(h, b)
<1>1. /\ stack # <<>> /\ h.function = "commitRoot" /\ h.at = "start"
      /\ UNCHANGED <<syncQueue, tasks, microtasks, flushTasks, wrecked>>
      /\ stack \in Seq(CallRecord) /\ Shape(stack)
  BY DEF CommitRoot, Running, Idle, IInv, StackInv, AllFit, WorkInv
<1>2. PICK r \in Root : r = h.root /\ roots[r] \in RootRecord
  BY <1>1, RunningCall DEF GoodCall, IInv, RootsAgree
<1>3. /\ Frames(stack) = {f} \cup Frames(Tail(stack))
      /\ NoFlush(stack) <=> NoFlush(Tail(stack))
  BY <1>1, PopFrames DEF IsFlush
<1>4. GoesOn(h, h) /\ h \in CallRecord /\ f.call = h /\ f.on = b
  BY <1>1, HeadFrame, FrameFields
<1>5. CASE /\ roots[r].finishedLanes = {}
           /\ stack' = Tail(stack) /\ UNCHANGED roots
  <2>1. ~IsSyncCommit(f)
    BY <1>2, <1>3, <1>4, <1>5 DEF WorkInv, CommitsHaveTrees
  <2>2. (\A n : ~Runs({f}, n, r)) /\ ~Performs({f}, r) /\ ~Owes({f}, r)
    <3>1. b.function # "performSyncWorkOnRoot"
      BY <1>1, <1>4, <2>1 DEF IsSyncCommit
    <3> QED BY <1>1, <3>1, OneCall DEF Workers
  <2>3. RootsWork'
    BY <1>1, <1>2, <1>5, <2>2, ReturnedWork
  <2>4. Shape(stack') /\ Top(stack').at # "layout"
    BY <1>1, <1>5, ReturnsShape
  <2>5. QueueIsFlushed'
    BY <1>1, <1>3, <1>5 DEF WorkInv, QueueIsFlushed
  <2>6. \A g \in Frames(stack') : g \in Frames(stack)
    BY <1>3, <1>5
  <2> QED BY <1>5, <2>3, <2>4, <2>5, <2>6, QuietWorks
<1>6. CASE /\ roots' = [roots EXCEPT ![r] = Committed(roots[r])]
           /\ Continue([h EXCEPT !.at = "layout", !.lanes = roots[r].finishedLanes])
  <2> DEFINE c == [h EXCEPT !.at = "layout", !.lanes = roots[r].finishedLanes]
             x == Committed(roots[r])
  <2>1. GoesOn(c, h) /\ c.at = "layout" /\ c.function = "commitRoot" /\ c.root = r
    BY <1>1, <1>2, <1>4 DEF GoesOn, CallRecord, RootRecord
  <2>2. x.callbackNode = NoNode /\ x.callbackPriority = NoLane /\ NoLane # SyncLane
    BY <1>2 DEF Committed, MarkRootFinished, RootRecord, NoLane, SyncLane
  <2>3. stack' = <<c>> \o Tail(stack)
    BY <1>6 DEF Continue
  <2> HIDE DEF c, x
  <2>4. /\ Shape(stack') /\ Top(stack') = c
        /\ Frames(stack') = {Frame(c, b)} \cup Frames(Tail(stack))
        /\ NoFlush(stack') <=> NoFlush(stack)
    BY <1>1, <2>1, <2>3, ContinuesShape
  <2>5. roots'[r] = x /\ \A q \in Root \ {r} : roots'[q] = roots[q]
    BY <1>6 DEF IInv, RootsAgree, x
  <2>6. ASSUME NEW q \in Root \ wrecked' PROVE RootWork(q)'
    <3>1. CASE q = r
      <4>1. Owes(Frames(stack'), r)
        <5>1. Owes({Frame(c, b)}, r)
          BY <2>1, OneCall
        <5>2. {Frame(c, b)} \subseteq Frames(stack')
          BY <2>4
        <5> QED BY <5>1, <5>2, CallsOfSubset
      <4>2. roots'[q].callbackPriority # SyncLane /\ roots'[q].callbackNode = NoNode
        BY <2>2, <2>5, <3>1
      <4> QED BY <3>1, <4>1, <4>2 DEF RootWork
    <3>2. CASE q # r
      <4>1. CallsKept(q)
        <5>1. Frames(Tail(stack)) \subseteq Frames(stack')
          BY <2>4
        <5> QED BY <1>1, <1>2, <3>2, <5>1, HeadOnly
      <4>2. SameCallback(roots'[q], roots[q]) /\ SameLanes(roots'[q], roots[q])
        BY <2>5, <3>2 DEF SameCallback, SameLanes
      <4>3. \A n : HasTask(q, n) => HasTask(q, n)'
        BY <1>1, <4>1 DEF HasTask, CallsKept
      <4>4. HasSyncWork(q) => HasSyncWork(q)'
        BY <1>1, <4>1 DEF HasSyncWork, CallsKept, IsQueued
      <4>5. Owes(Frames(stack'), q) \/ ~Owes(Frames(stack), q)
        BY <4>1 DEF CallsKept
      <4>6. RootWork(q)
        BY <1>1 DEF WorkInv, RootsWork
      <4> QED BY <4>2, <4>3, <4>4, <4>5, <4>6, KeptWork
    <3> QED BY <3>1, <3>2
  <2>7. OwnTasks' /\ \A q \in Root : CallbackFits(roots'[q])
    BY <2>2, <2>5 DEF WorkInv, RootsWork, OwnTasks, CallbackFits
  <2>8. CommitsHaveTrees'
    <3>1. ~IsSyncCommit(Frame(c, b))
      BY <2>1, FrameFields DEF IsSyncCommit
    <3>2. \A g \in Frames(Tail(stack)) : ~IsSyncCommit(g)
      BY <1>1, NoSyncCommitBelowCommit DEF IInv, StackInv
    <3> QED BY <2>4, <3>1, <3>2 DEF CommitsHaveTrees
  <2>9. QueueIsFlushed'
    BY <1>1, <2>4 DEF WorkInv, QueueIsFlushed
  <2>10. CommitIsScheduled'
    BY <2>1, <2>2, <2>4, <2>5 DEF CommitIsScheduled, RecordsLiveTask
  <2> QED BY <2>4, <2>6, <2>7, <2>8, <2>9, <2>10 DEF WorkInv, RootsWork
<1> QED BY <1>2, <1>5, <1>6 DEF CommitRoot, Return

LEMMA CommitEndsWorks ==
  ASSUME IInv, WorkInv, CommitEnds
  PROVE  WorkInv'
<1> DEFINE h == Head(stack)
           c == [h EXCEPT !.at = "passive"]
           b == Top(Tail(stack))
<1>1. /\ stack # <<>> /\ h.function = "commitRoot" /\ h.at = "layout"
      /\ EnsureRootIsScheduled(h.root, roots[h.root], wip, {})
      /\ stack \in Seq(CallRecord) /\ Shape(stack)
  BY DEF CommitEnds, Running, Idle, IInv, StackInv, AllFit, WorkInv
<1>2. PICK r \in Root : r = h.root
  BY <1>1, RunningCall DEF GoodCall
<1>3. GoesOn(h, h) /\ h \in CallRecord
  BY <1>1, HeadFrame
<1>4. CASE h.fails
  <2>1. Throw({r})
    BY <1>2, <1>4 DEF CommitEnds
  <2>2. /\ Shape(stack') /\ CommitsHaveTrees' /\ CommitIsScheduled'
        /\ wrecked \subseteq wrecked'
        /\ \A q \in Root \ {r} : q \notin wrecked' => CallsKept(q)
        /\ flushTasks' \in {flushTasks, flushTasks + 1}
        /\ NoFlush(stack') => NoFlush(stack) \/ flushTasks' > 0
    BY <2>1, ThrowDropsCalls
  <2>3. HandedOn(r, SyncLane \in Workable(roots[r]))
    <3>1. Top(stack) = h
      BY <1>1, PopFrames
    <3>2. RecordsLiveTask(r)
      BY <1>1, <1>2, <3>1 DEF WorkInv, CommitIsScheduled
    <3> QED BY <3>2 DEF HandedOn, RecordsLiveTask, TaskOf
  <2>4. /\ GoodRoot(roots[r]) /\ wip \in WorkRecord /\ SameCallback(roots[r], roots[r])
        /\ {} \in SUBSET (roots[r].pendingLanes \cap TransitionLanes)
    BY DEF IInv, RootsAgree, SameCallback
  <2>5. SyncLane \in WipLanes(wip, r) => SyncLane \in roots[r].pendingLanes
    BY SyncRenderIsPending DEF IInv
  <2>6. RootsWork' /\ QueueIsFlushed'
    BY <1>1, <1>2, <2>2, <2>3, <2>4, <2>5, EnsureWork
  <2> QED BY <2>2, <2>6 DEF WorkInv
<1>5. CASE ~h.fails
  <2>1. stack' = <<c>> \o Tail(stack) /\ UNCHANGED <<flushTasks, wrecked>>
    BY <1>5 DEF CommitEnds, Continue
  <2>2. GoesOn(c, h) /\ c.at = "passive" /\ c.function = "commitRoot"
    BY <1>1, <1>3 DEF GoesOn, CallRecord
  <2> HIDE DEF c
  <2>3. /\ Shape(stack') /\ Top(stack') = c
        /\ Frames(stack') = {Frame(c, b)} \cup Frames(Tail(stack))
        /\ NoFlush(stack') <=> NoFlush(stack)
    BY <1>1, <2>1, <2>2, ContinuesShape
  <2>4. (\A n : ~Runs({Frame(h, b)}, n, r)) /\ ~Performs({Frame(h, b)}, r)
    BY <1>1, OneCall
  <2>5. RootsWork' /\ QueueIsFlushed'
    BY <1>1, <1>2, <2>1, <2>3, <2>4, EnsureOfHeadWorks
  <2>6. CommitsHaveTrees'
    <3>1. ~IsSyncCommit(Frame(c, b))
      BY <2>2, FrameFields DEF IsSyncCommit
    <3>2. \A g \in Frames(Tail(stack)) : ~IsSyncCommit(g)
      BY <1>1, NoSyncCommitBelowCommit DEF IInv, StackInv
    <3> QED BY <2>3, <3>1, <3>2 DEF CommitsHaveTrees
  <2>7. CommitIsScheduled'
    BY <2>2, <2>3 DEF CommitIsScheduled
  <2> QED BY <2>3, <2>5, <2>6, <2>7 DEF WorkInv
<1> QED BY <1>4, <1>5

LEMMA CommitFlushesPassiveEffectsWorks ==
  ASSUME IInv, WorkInv, CommitFlushesPassiveEffects
  PROVE  WorkInv'
<1> DEFINE h == Head(stack)
<1>1. /\ stack # <<>> /\ h.function = "commitRoot" /\ h.at = "start"
      /\ UNCHANGED <<roots, syncQueue, tasks, microtasks, flushTasks, wrecked>>
      /\ CallFlushPassiveEffects(h, Tail(stack))
      /\ stack \in Seq(CallRecord) /\ Shape(stack) /\ pendingPassive \in Root \cup {NoRoot}
  BY DEF CommitFlushesPassiveEffects, Running, Idle, hostVars, IInv, StackInv,
         AllFit, WorkInv, HostTypes
<1>2. /\ h \in CallRecord /\ Tail(stack) \in Seq(CallRecord)
      /\ stack = <<h>> \o Tail(stack)
  BY <1>1, PopFrames
<1>3. /\ Shape(stack') /\ Frames(stack) \subseteq Frames(stack')
      /\ \A f \in Frames(stack') : IsSyncCommit(f) => f \in Frames(stack)
      /\ NoFlush(stack') <=> NoFlush(stack)
      /\ Top(stack').at # "layout"
  BY <1>1, <1>2, PassiveIsCalled
<1>4. RootsWork'
  BY <1>1, <1>3, MoreCallsKeep, QuietRoots DEF WorkInv
<1>5. QueueIsFlushed'
  BY <1>1, <1>3 DEF WorkInv, QueueIsFlushed
<1> QED BY <1>1, <1>3, <1>4, <1>5, QuietWorks

LEMMA CommitFlushesOwnEffectsWorks ==
  ASSUME IInv, WorkInv, CommitFlushesOwnEffects
  PROVE  WorkInv'
<1> DEFINE h == Head(stack)
           c == [h EXCEPT !.at = "flush"]
           b == Top(Tail(stack))
           t == <<c>> \o Tail(stack)
<1>1. /\ stack # <<>> /\ h.function = "commitRoot" /\ h.at = "passive"
      /\ UNCHANGED <<roots, syncQueue, tasks, microtasks, flushTasks, wrecked>>
      /\ stack' = t \/ CallFlushPassiveEffects(c, Tail(stack))
      /\ stack \in Seq(CallRecord) /\ Shape(stack) /\ pendingPassive \in Root \cup {NoRoot}
  BY DEF CommitFlushesOwnEffects, Running, Idle, hostVars, IInv, StackInv,
         AllFit, WorkInv, HostTypes, Continue
<1>2. GoesOn(h, h) /\ h \in CallRecord
  BY <1>1, HeadFrame
<1>3. GoesOn(c, h) /\ c \in CallRecord /\ c.at = "flush" /\ c.function = "commitRoot"
  BY <1>1, <1>2 DEF GoesOn, CallRecord
<1> HIDE DEF c
<1>4. /\ Shape(t) /\ Top(t) = c /\ Tail(stack) \in Seq(CallRecord)
      /\ Frames(t) = {Frame(c, b)} \cup Frames(Tail(stack))
      /\ Frames(stack) = {Frame(h, b)} \cup Frames(Tail(stack))
      /\ NoFlush(t) <=> NoFlush(stack)
  BY <1>1, <1>3, ContinuesShape, PopFrames
<1>5. /\ Shape(stack') /\ Frames(t) \subseteq Frames(stack')
      /\ \A f \in Frames(stack') : IsSyncCommit(f) => f \in Frames(t)
      /\ NoFlush(stack') <=> NoFlush(t)
      /\ Top(stack').at # "layout"
  <2>1. CASE stack' = t
    BY <1>3, <1>4, <2>1
  <2>2. CASE CallFlushPassiveEffects(c, Tail(stack))
    BY <1>1, <1>3, <1>4, <2>2, PassiveIsCalled
  <2> QED BY <1>1, <2>1, <2>2
<1>6. RootsWork'
  <2>1. PICK r : r = h.root
    OBVIOUS
  <2>2. /\ \A n : ~Runs({Frame(h, b)}, n, r)
        /\ ~Performs({Frame(h, b)}, r) /\ ~Owes({Frame(h, b)}, r)
    BY <1>1, OneCall DEF Workers
  <2>3. Frames(Tail(stack)) \subseteq Frames(stack')
    BY <1>4, <1>5
  <2> QED BY <1>1, <2>1, <2>2, <2>3, ReturnedWork
<1>7. \A f \in Frames(stack') : IsSyncCommit(f) => f \in Frames(stack)
  <2>1. ~IsSyncCommit(Frame(c, b))
    BY <1>3, FrameFields DEF IsSyncCommit
  <2> QED BY <1>4, <1>5, <2>1
<1>8. QueueIsFlushed'
  BY <1>1, <1>4, <1>5 DEF WorkInv, QueueIsFlushed
<1> QED BY <1>1, <1>5, <1>6, <1>7, <1>8, QuietWorks

\* commitRoot and flushPassiveEffects end with flushSyncCallbacks().
LEMMA EndsWithFlushWorks ==
  ASSUME IInv, WorkInv, CommitFlushesSyncCallbacks \/ PassiveEffectsEnd
  PROVE  WorkInv'
<1> DEFINE h == Head(stack)
           u == Tail(stack)
           f == Frame(h, Top(u))
<1>1. /\ stack # <<>>
      /\ \/ h.function = "commitRoot" /\ h.at = "flush"
         \/ h.function = "flushPassiveEffects" /\ h.at = "start"
      /\ UNCHANGED <<roots, syncQueue, tasks, microtasks, flushTasks, wrecked>>
      /\ CallFlushSyncCallbacks(u)
      /\ stack \in Seq(CallRecord) /\ Shape(stack)
  BY DEF CommitFlushesSyncCallbacks, PassiveEffectsEnd, Running, Idle, hostVars,
         IInv, StackInv, AllFit, WorkInv
<1>2. /\ u \in Seq(CallRecord) /\ Shape(u) /\ Top(u).at # "layout"
      /\ Frames(stack) = {f} \cup Frames(u)
      /\ NoFlush(stack) <=> NoFlush(u)
  BY <1>1, ReturnsShape DEF IsFlush
<1>3. /\ Shape(stack') /\ Frames(u) \subseteq Frames(stack')
      /\ \A g \in Frames(stack') : IsSyncCommit(g) => g \in Frames(u)
      /\ syncQueue # <<>> => ~NoFlush(stack')
      /\ Top(stack').at # "layout"
  BY <1>1, <1>2, FlushIsCalled
<1>4. RootsWork'
  <2>1. PICK r : r = h.root
    OBVIOUS
  <2>2. (\A n : ~Runs({f}, n, r)) /\ ~Performs({f}, r) /\ ~Owes({f}, r)
    BY <1>1, OneCall DEF Workers
  <2> QED BY <1>1, <1>3, <2>1, <2>2, ReturnedWork
<1>5. QueueIsFlushed'
  BY <1>1, <1>3 DEF QueueIsFlushed
<1>6. \A g \in Frames(stack') : IsSyncCommit(g) => g \in Frames(stack)
  BY <1>2, <1>3
<1> QED BY <1>1, <1>3, <1>4, <1>5, <1>6, QuietWorks

-----------------------------------------------------------------------------
(* Jobs *)

\* A job that starts with one call.
LEMMA SingleCall ==
  ASSUME NEW c \in CallRecord, FrameOk(Frame(c, NoCall))
  PROVE  /\ Shape(<<c>>) /\ Top(<<c>>) = c /\ <<c>> = <<c>> \o <<>>
         /\ Frames(<<c>>) = {Frame(c, NoCall)}
         /\ NoFlush(<<c>>) <=> ~IsFlush(c)
<1> DEFINE t == <<c>> \o <<>>
<1>1. t = <<c>> /\ <<>> \in Seq(CallRecord) /\ Top(<<>>) = NoCall
  <2>1. <<c>> \in Seq(CallRecord)
    OBVIOUS
  <2> QED BY <2>1, ConcatEmptySeq, EmptySeq DEF Top
<1>2. /\ Top(t) = c /\ Frames(t) = {Frame(c, Top(<<>>))} \cup Frames(<<>>)
      /\ NoFlush(t) <=> ~IsFlush(c) /\ NoFlush(<<>>)
      /\ OneFlush(<<>>) /\ (IsFlush(c) => NoFlush(<<>>)) => OneFlush(t)
  BY <1>1, PushFrames
<1>3. Frames(t) = {Frame(c, NoCall)} /\ (NoFlush(t) <=> ~IsFlush(c)) /\ OneFlush(t)
  BY <1>1, <1>2, EmptyFrames
<1> HIDE DEF t
<1>4. Shape(t)
  BY <1>3 DEF Shape
<1> QED BY <1>1, <1>2, <1>3, <1>4

\* When no code is running nothing is owed.
LEMMA IdleOwes ==
  ASSUME Idle
  PROVE  /\ \A r : ~Owes(Frames(stack), r) /\ ~Performs(Frames(stack), r)
         /\ \A n, r : ~Runs(Frames(stack), n, r)
         /\ \A f : f \notin Frames(stack)
         /\ stack = <<>> /\ <<>> \in Seq(CallRecord) /\ Shape(<<>>) /\ NoFlush(<<>>)
         /\ Top(<<>>).at # "layout"
<1>1. stack = <<>> /\ Frames(stack) = {} /\ NoFlush(<<>>) /\ OneFlush(<<>>) /\ Frames(<<>>) = {}
  BY EmptyFrames DEF Idle
<1>2. <<>> \in Seq(CallRecord) /\ Shape(<<>>)
  BY <1>1, EmptySeq DEF Shape
<1>3. Top(<<>>).at # "layout"
  BY DEF Top, NoCall, Call
<1> QED BY <1>1, <1>2, <1>3 DEF Owes, Performs, Runs

LEMMA FlushJobWorks ==
  ASSUME IInv, WorkInv, FlushSync \/ Microtask \/ RunFlushTask
  PROVE  WorkInv'
<1>1. /\ Idle /\ CallFlushSyncCallbacks(<<>>)
      /\ UNCHANGED <<roots, syncQueue, tasks, wrecked>>
  BY DEF FlushSync, Microtask, RunFlushTask, MacrotaskMayRun, hostVars
<1>2. /\ \A f : f \notin Frames(stack)
      /\ stack = <<>> /\ <<>> \in Seq(CallRecord) /\ Shape(<<>>)
      /\ Top(<<>>).at # "layout"
  BY <1>1, IdleOwes
<1>3. /\ Shape(stack') /\ Frames(<<>>) \subseteq Frames(stack')
      /\ \A f \in Frames(stack') : IsSyncCommit(f) => f \in Frames(<<>>)
      /\ syncQueue # <<>> => ~NoFlush(stack')
      /\ Top(stack').at # "layout"
  BY <1>1, <1>2, FlushIsCalled
<1>4. RootsWork'
  BY <1>1, <1>2, <1>3, MoreCallsKeep, QuietRoots DEF WorkInv
<1>5. QueueIsFlushed'
  BY <1>1, <1>3 DEF QueueIsFlushed
<1> QED BY <1>1, <1>2, <1>3, <1>4, <1>5, QuietWorks

LEMMA RunPassiveTaskWorks ==
  ASSUME IInv, WorkInv, RunPassiveTask
  PROVE  WorkInv'
<1> DEFINE c == Call("flushPassiveEffects", pendingPassive)
<1>1. /\ Idle /\ UNCHANGED <<roots, syncQueue, tasks, microtasks, flushTasks, wrecked>>
      /\ pendingPassive \in Root \cup {NoRoot}
  BY DEF RunPassiveTask, MacrotaskMayRun, IInv, HostTypes
<1>2. /\ \A f : f \notin Frames(stack)
      /\ stack = <<>> /\ Shape(<<>>) /\ NoFlush(<<>>) /\ Top(<<>>).at # "layout"
  BY <1>1, IdleOwes
<1>3. /\ Shape(stack')
      /\ \A f \in Frames(stack') : ~IsSyncCommit(f)
      /\ Top(stack').at # "layout"
  <2>1. CASE pendingPassive = NoRoot
    <3>1. stack' = <<>>
      BY <2>1 DEF RunPassiveTask
    <3> QED BY <1>2, <3>1
  <2>2. CASE pendingPassive # NoRoot
    <3>1. stack' = <<c>>
      BY <2>2 DEF RunPassiveTask
    <3>2. c \in CallRecord /\ c.function = "flushPassiveEffects" /\ c.at = "start"
      BY <1>1, <2>2, CallIsGood DEF GoodCall, Call
    <3> HIDE DEF c
    <3>3. FrameOk(Frame(c, NoCall)) /\ ~IsSyncCommit(Frame(c, NoCall))
      BY <3>2, FrameFields DEF FrameOk, IsSyncCommit, NoCall, Call
    <3>4. /\ Shape(<<c>>) /\ Top(<<c>>) = c
          /\ Frames(<<c>>) = {Frame(c, NoCall)}
      BY <3>2, <3>3, SingleCall
    <3> QED BY <3>1, <3>2, <3>3, <3>4
  <2> QED BY <2>1, <2>2
<1>4. RootsWork'
  <2>1. Frames(stack) \subseteq Frames(stack')
    BY <1>2
  <2> QED BY <1>1, <2>1, MoreCallsKeep, QuietRoots DEF WorkInv
<1>5. QueueIsFlushed'
  BY <1>1, <1>2 DEF WorkInv, QueueIsFlushed
<1> QED BY <1>1, <1>2, <1>3, <1>4, <1>5, QuietWorks

LEMMA RunTaskWorks ==
  ASSUME IInv, WorkInv, NEW t \in tasks, RunTask(t)
  PROVE  WorkInv'
<1> DEFINE c == [Call("performConcurrentWorkOnRoot", t.root) EXCEPT
                   !.node = roots[t.root].callbackNode, !.task = t.node]
<1>1. /\ Idle /\ UNCHANGED <<roots, syncQueue, microtasks, flushTasks, wrecked>>
      /\ tasks' = tasks \ {t} /\ CallFlushPassiveEffects(c, <<>>)
      /\ pendingPassive \in Root \cup {NoRoot}
  BY DEF RunTask, MacrotaskMayRun, IInv, HostTypes, hostVars
<1>2. /\ t.root \in Root /\ t.node \in NodeId
      /\ roots[t.root].callbackNode \in NodeId \cup {NoNode}
  BY DEF IInv, QueueTypes, RootsAgree, GoodRoot, RootRecord
<1>3. /\ c \in CallRecord /\ c.function = "performConcurrentWorkOnRoot" /\ c.at = "start"
      /\ c.root = t.root /\ c.task = t.node
      /\ c.node = roots[t.root].callbackNode
  BY <1>2 DEF Call, CallRecord, Workers, NoNode
<1> HIDE DEF c
<1>4. /\ \A f : f \notin Frames(stack)
      /\ \A n, r : ~Runs(Frames(stack), n, r)
      /\ \A r : ~Owes(Frames(stack), r) /\ ~Performs(Frames(stack), r)
      /\ stack = <<>> /\ <<>> \in Seq(CallRecord) /\ NoFlush(<<>>)
  BY <1>1, IdleOwes
<1>5. FrameOk(Frame(c, NoCall)) /\ ~IsSyncCommit(Frame(c, NoCall))
  BY <1>3, FrameFields DEF FrameOk, IsSyncCommit, NoCall, Call
<1>6. /\ Shape(<<c>> \o <<>>) /\ Frames(<<c>> \o <<>>) = {Frame(c, NoCall)}
  BY <1>3, <1>5, SingleCall
<1>7. /\ Shape(stack') /\ {Frame(c, NoCall)} \subseteq Frames(stack')
      /\ \A f \in Frames(stack') : IsSyncCommit(f) => f = Frame(c, NoCall)
      /\ Top(stack').at # "layout"
  BY <1>1, <1>3, <1>4, <1>6, PassiveIsCalled
<1>8. ASSUME NEW r \in Root \ wrecked' PROVE RootWork(r)'
  <2>1. SameCallback(roots'[r], roots[r]) /\ SameLanes(roots'[r], roots[r]) /\ RootWork(r)
    BY <1>1 DEF SameCallback, SameLanes, WorkInv, RootsWork
  <2>2. ASSUME NEW n, n = roots[r].callbackNode, HasTask(r, n) PROVE HasTask(r, n)'
    <3>1. TaskOf(r, n) \in tasks
      BY <1>4, <2>2 DEF HasTask
    <3>2. CASE TaskOf(r, n) # t
      BY <1>1, <3>1, <3>2 DEF HasTask
    <3>3. CASE TaskOf(r, n) = t
      <4>1. t.root = r /\ t.node = n
        BY <3>3 DEF TaskOf
      <4>2. Runs({Frame(c, NoCall)}, n, r)
        BY <1>3, <2>2, <4>1, OneCall
      <4>3. Runs(Frames(stack'), n, r)
        BY <1>7, <4>2, CallsOfSubset
      <4> QED BY <4>3 DEF HasTask
    <3> QED BY <3>2, <3>3
  <2>3. HasSyncWork(r) => HasSyncWork(r)'
    BY <1>1, <1>4 DEF HasSyncWork, IsQueued
  <2> QED BY <1>4, <2>1, <2>2, <2>3, KeptWork
<1>9. RootsWork'
  BY <1>1, <1>8 DEF WorkInv, RootsWork, OwnTasks
<1>10. QueueIsFlushed'
  BY <1>1, <1>4 DEF WorkInv, QueueIsFlushed
<1>11. \A f \in Frames(stack') : IsSyncCommit(f) => f \in Frames(stack)
  BY <1>5, <1>7
<1> QED BY <1>1, <1>7, <1>9, <1>10, <1>11, QuietWorks

LEMMA RunCommitTimerWorks ==
  ASSUME IInv, WorkInv, NEW r \in Root, RunCommitTimer(r)
  PROVE  WorkInv'
<1> DEFINE x == [roots[r] EXCEPT !.timeoutHandle = FALSE]
           c == Call("commitRoot", r)
<1>1. /\ Idle /\ UNCHANGED <<syncQueue, tasks, microtasks, flushTasks, wrecked>>
      /\ roots' = [roots EXCEPT ![r] = x] /\ stack' = <<c>>
  BY DEF RunCommitTimer, MacrotaskMayRun, hostVars
<1>2. SameCallback(x, roots[r]) /\ SameLanes(x, roots[r])
  BY DEF IInv, RootsAgree, RootRecord, SameCallback, SameLanes
<1>3. c \in CallRecord /\ c.function = "commitRoot" /\ c.at = "start"
  BY CallIsGood DEF GoodCall, Call
<1> HIDE DEF x, c
<1>4. /\ \A f : f \notin Frames(stack)
      /\ \A n, q : ~Runs(Frames(stack), n, q)
      /\ \A q : ~Owes(Frames(stack), q) /\ ~Performs(Frames(stack), q)
      /\ stack = <<>> /\ NoFlush(<<>>)
  BY <1>1, IdleOwes
<1>5. FrameOk(Frame(c, NoCall)) /\ ~IsSyncCommit(Frame(c, NoCall))
  BY <1>3, FrameFields DEF FrameOk, IsSyncCommit, NoCall, Call
<1>6. /\ Shape(stack') /\ Frames(stack') = {Frame(c, NoCall)} /\ Top(stack') = c
  BY <1>1, <1>3, <1>5, SingleCall
<1>7. \A q \in Root : SameCallback(roots'[q], roots[q]) /\ SameLanes(roots'[q], roots[q])
  BY <1>1, <1>2 DEF IInv, RootsAgree, SameCallback, SameLanes
<1>8. ASSUME NEW q \in Root \ wrecked' PROVE RootWork(q)'
  <2>1. \A n : HasTask(q, n) => HasTask(q, n)'
    BY <1>1, <1>4 DEF HasTask
  <2>2. HasSyncWork(q) => HasSyncWork(q)'
    BY <1>1, <1>4 DEF HasSyncWork, IsQueued
  <2>3. RootWork(q)
    BY <1>1 DEF WorkInv, RootsWork
  <2> QED BY <1>4, <1>7, <2>1, <2>2, <2>3, KeptWork
<1>9. RootsWork'
  BY <1>7, <1>8, SameCallbacks DEF WorkInv, RootsWork
<1>10. CommitsHaveTrees'
  BY <1>5, <1>6 DEF CommitsHaveTrees
<1>11. QueueIsFlushed'
  BY <1>1, <1>4 DEF WorkInv, QueueIsFlushed
<1>12. CommitIsScheduled'
  BY <1>3, <1>6 DEF CommitIsScheduled
<1> QED BY <1>6, <1>9, <1>10, <1>11, <1>12 DEF WorkInv

LEMMA FlushSyncCallbacksWorks ==
  ASSUME IInv, WorkInv, FlushSyncCallbacks
  PROVE  WorkInv'
<1> DEFINE h == Head(stack)
           f == Frame(h, Top(Tail(stack)))
           call == Call("performSyncWorkOnRoot", Head(syncQueue))
<1>1. /\ stack # <<>> /\ h.function = "flushSyncCallbacks"
      /\ UNCHANGED <<roots, tasks, microtasks, flushTasks, wrecked>>
      /\ stack \in Seq(CallRecord) /\ Shape(stack) /\ pendingPassive \in Root \cup {NoRoot}
      /\ syncQueue \in Seq(Root) /\ h.at = "start"
  BY DEF FlushSyncCallbacks, Running, Idle, hostVars, IInv, StackInv, AllFit,
         WorkInv, HostTypes, QueueTypes
<1>2. CASE syncQueue = <<>>
  <2>1. stack' = Tail(stack) /\ UNCHANGED syncQueue /\ syncQueue' = <<>>
    BY <1>2 DEF FlushSyncCallbacks, Return
  <2>2. /\ Shape(stack') /\ Frames(stack') \subseteq Frames(stack) /\ Top(stack').at # "layout"
    BY <1>1, <2>1, ReturnsShape
  <2>3. RootsWork'
    <3>1. PICK r : r = h.root
      OBVIOUS
    <3>2. (\A n : ~Runs({f}, n, r)) /\ ~Performs({f}, r) /\ ~Owes({f}, r)
      BY <1>1, OneCall DEF Workers
    <3> QED BY <1>1, <2>1, <3>1, <3>2, ReturnedWork
  <2>4. QueueIsFlushed'
    BY <2>1 DEF QueueIsFlushed
  <2> QED BY <1>1, <2>2, <2>3, <2>4, QuietWorks
<1>3. CASE syncQueue # <<>>
  <2> DEFINE t == <<call>> \o stack
             p == Head(syncQueue)
  <2>1. /\ syncQueue' = Tail(syncQueue) /\ CallFlushPassiveEffects(call, stack)
        /\ p \in Root
    BY <1>1, <1>3 DEF FlushSyncCallbacks
  <2>2. /\ call \in CallRecord /\ call.function = "performSyncWorkOnRoot"
        /\ ~call.sliced /\ call.root = p /\ call.at = "start"
    BY <2>1, CallIsGood DEF GoodCall, Call
  <2>3. \A q : IsQueued(q) => q = p \/ IsQueued(q)'
    <3> SUFFICES ASSUME NEW q, IsQueued(q), q # p PROVE IsQueued(q)'
      OBVIOUS
    <3>1. /\ Len(syncQueue) \in Nat /\ DOMAIN syncQueue = 1..Len(syncQueue)
          /\ Tail(syncQueue) \in Seq(Root) /\ Len(Tail(syncQueue)) = Len(syncQueue) - 1
          /\ \A i \in 1..Len(Tail(syncQueue)) : Tail(syncQueue)[i] = syncQueue[i + 1]
      BY <1>1, <1>3, HeadTailProperties, LenProperties, EmptySeq
    <3>2. PICK i \in 1..Len(syncQueue) : syncQueue[i] = q
      BY <3>1 DEF IsQueued
    <3>3. i # 1
      BY <3>2
    <3>4. i - 1 \in 1..Len(Tail(syncQueue)) /\ (i - 1) + 1 = i
      BY <3>1, <3>3
    <3>5. Tail(syncQueue)[i - 1] = q /\ i - 1 \in DOMAIN Tail(syncQueue)
      BY <3>1, <3>2, <3>4, LenProperties
    <3> QED BY <2>1, <3>5 DEF IsQueued
  <2> HIDE DEF call, p
  <2>4. Top(stack) = h
    BY <1>1, PopFrames
  <2>5. ~IsFlush(call) /\ IsFlush(h)
    BY <1>1, <2>2 DEF IsFlush
  <2>6. FrameOk(Frame(call, h)) /\ ~IsSyncCommit(Frame(call, h))
    BY <1>1, <2>2, <2>5, FrameFields DEF FrameOk, IsSyncCommit
  <2>7. /\ Frames(t) = {Frame(call, h)} \cup Frames(stack)
        /\ NoFlush(t) <=> NoFlush(stack)
        /\ Shape(t)
    <3>1. /\ Frames(t) = {Frame(call, Top(stack))} \cup Frames(stack)
          /\ NoFlush(t) <=> ~IsFlush(call) /\ NoFlush(stack)
          /\ OneFlush(stack) /\ (IsFlush(call) => NoFlush(stack)) => OneFlush(t)
      BY <1>1, <2>2, PushFrames
    <3> QED BY <1>1, <2>4, <2>5, <2>6, <3>1 DEF Shape
  <2>8. ~NoFlush(stack)
    BY <1>1, <2>5, PopFrames
  <2>9. /\ Shape(stack') /\ Frames(t) \subseteq Frames(stack')
        /\ \A g \in Frames(stack') : IsSyncCommit(g) => g \in Frames(t)
        /\ NoFlush(stack') <=> NoFlush(t)
        /\ Top(stack').at # "layout"
    BY <1>1, <2>1, <2>2, <2>7, PassiveIsCalled
  <2>10. \A r : CallsKept(r)
    <3>1. Frames(stack) \subseteq Frames(stack')
      BY <2>7, <2>9
    <3> QED BY <3>1, MoreCallsKeep
  <2>11. ASSUME NEW r \in Root \ wrecked' PROVE RootWork(r)'
    <3>1. SameCallback(roots'[r], roots[r]) /\ SameLanes(roots'[r], roots[r]) /\ RootWork(r)
      BY <1>1 DEF SameCallback, SameLanes, WorkInv, RootsWork
    <3>2. \A n : HasTask(r, n) => HasTask(r, n)'
      BY <1>1, <2>10 DEF HasTask, CallsKept
    <3>3. Performs(Frames(stack'), p)
      <4>1. Performs({Frame(call, h)}, p)
        BY <2>2, OneCall
      <4>2. {Frame(call, h)} \subseteq Frames(stack')
        BY <2>7, <2>9
      <4> QED BY <4>1, <4>2, CallsOfSubset
    <3>4. HasSyncWork(r) => HasSyncWork(r)'
      BY <2>3, <2>10, <3>3 DEF HasSyncWork, CallsKept
    <3>5. Owes(Frames(stack'), r) \/ ~Owes(Frames(stack), r)
      BY <2>10 DEF CallsKept
    <3> QED BY <3>1, <3>2, <3>4, <3>5, KeptWork
  <2>12. RootsWork'
    BY <1>1, <2>11 DEF WorkInv, RootsWork, OwnTasks
  <2>13. QueueIsFlushed'
    BY <2>7, <2>8, <2>9 DEF QueueIsFlushed
  <2>14. \A g \in Frames(stack') : IsSyncCommit(g) => g \in Frames(stack)
    BY <2>6, <2>7, <2>9
  <2> QED BY <1>1, <2>9, <2>12, <2>13, <2>14, QuietWorks
<1> QED BY <1>2, <1>3

-----------------------------------------------------------------------------
(* All steps *)

LEMMA NextWorks ==
  ASSUME IInv, WorkInv, Next
  PROVE  WorkInv'
<1>1. ASSUME NEW r \in Root, NEW lane \in UpdateLanes,
             \/ Update(r, lane)
             \/ LayoutEffectUpdate(r, lane)
             \/ PassiveEffectUpdate(r, lane)
      PROVE  WorkInv'
  BY <1>1, ScheduleUpdateOnFiberWorks
     DEF Update, LayoutEffectUpdate, PassiveEffectUpdate
<1>2. CASE FlushSync \/ Microtask \/ RunFlushTask
  BY <1>2, FlushJobWorks
<1>3. CASE \E t \in tasks : RunTask(t)
  BY <1>3, RunTaskWorks
<1>4. CASE RunPassiveTask \/ \E r \in Root : RunCommitTimer(r)
  BY <1>4, RunPassiveTaskWorks, RunCommitTimerWorks
<1>5. CASE \E l \in listeners : PingSuspendedRoot(l)
  BY <1>5, PingSuspendedRootWorks
<1>6. CASE \E r \in Root, lane \in Lanes : RetryTimedOutBoundary(r, lane)
  BY <1>6, RetryTimedOutBoundaryWorks
<1>7. CASE PerformConcurrentWork \/ PerformSyncWork
  BY <1>7, PerformConcurrentWorkWorks, PerformSyncWorkWorks
<1>8. CASE \E r \in Root : RenderPhaseUpdate(r)
  BY <1>8, RenderPhaseUpdateWorks
<1>9. CASE ComponentSuspends \/ ShellSuspends
  BY <1>9, SuspendWorks DEF ComponentSuspends, ShellSuspends
<1>10. CASE ComponentThrows
  BY <1>10, ComponentThrowsWorks
<1>11. CASE RenderYields
  BY <1>11, RenderYieldsWorks
<1>12. CASE \E status \in Statuses :
              CompleteConcurrentRender(status) \/ CompleteSyncRender(status)
  BY <1>12, CompleteConcurrentRenderWorks, CompleteSyncRenderWorks
<1>13. CASE EndConcurrentWork \/ ReturnContinuation \/ EndSyncWork
  BY <1>13, EndConcurrentWorkWorks, ReturnContinuationWorks, EndSyncWorkWorks
<1>14. CASE \/ CommitFlushesPassiveEffects
            \/ CommitRoot
            \/ CommitEnds
            \/ CommitFlushesOwnEffects
  BY <1>14, CommitFlushesPassiveEffectsWorks, CommitRootWorks, CommitEndsWorks,
     CommitFlushesOwnEffectsWorks
<1>15. CASE CommitFlushesSyncCallbacks \/ PassiveEffectsEnd
  BY <1>15, EndsWithFlushWorks
<1>16. CASE FlushSyncCallbacks
  BY <1>16, FlushSyncCallbacksWorks
<1> QED
  BY <1>1, <1>2, <1>3, <1>4, <1>5, <1>6, <1>7, <1>8, <1>9, <1>10, <1>11, <1>12, <1>13,
     <1>14, <1>15, <1>16 DEF Next

LEMMA WorkInvariance == Spec => []WorkInv
<1>1. Init => WorkInv
  <2> SUFFICES ASSUME Init PROVE WorkInv
    OBVIOUS
  <2>1. /\ stack = <<>> /\ syncQueue = <<>>
        /\ \A r \in Root : /\ roots[r].callbackNode = NoNode
                           /\ roots[r].callbackPriority = NoLane
                           /\ roots[r].pendingLanes = {}
    BY DEF Init, NewRoot
  <2>2. Frames(stack) = {} /\ NoFlush(stack) /\ OneFlush(stack)
    BY <2>1, EmptyFrames
  <2>3. NoLane # SyncLane /\ Top(stack).at = "start"
    BY <2>1 DEF NoLane, SyncLane, Top, NoCall, Call
  <2>4. Shape(stack) /\ CommitsHaveTrees /\ CommitIsScheduled
    BY <2>2, <2>3 DEF Shape, CommitsHaveTrees, CommitIsScheduled
  <2>5. ASSUME NEW r \in Root PROVE RootWork(r) /\ CallbackFits(roots[r])
    <3>1. Workable(roots[r]) = {}
      BY <2>1 DEF Workable, Unblocked, Candidates, Pinged
    <3>2. Settled(roots[r]) /\ CallbackFits(roots[r])
      BY <2>1, <2>3, <3>1 DEF Settled, CallbackFits
    <3> QED BY <2>1, <2>3, <3>2 DEF RootWork
  <2>6. RootsWork /\ QueueIsFlushed
    BY <2>1, <2>5 DEF RootsWork, OwnTasks, QueueIsFlushed
  <2> QED BY <2>4, <2>6 DEF WorkInv
<1>2. IInv /\ WorkInv /\ [Next]_vars => WorkInv'
  <2> SUFFICES ASSUME IInv, WorkInv, UNCHANGED vars PROVE WorkInv'
    BY NextWorks
  <2>1. UNCHANGED <<roots, wip, stack, syncQueue, tasks, microtasks, flushTasks, wrecked>>
    BY DEF vars, hostVars
  <2>2. Frames(stack)' = Frames(stack)
    BY <2>1 DEF Frames, Below
  <2>3. RootsWork'
    BY <2>1, <2>2 DEF WorkInv, RootsWork, RootWork, HasTask, HasSyncWork, IsQueued, OwnTasks
  <2>4. CommitsHaveTrees' /\ QueueIsFlushed' /\ CommitIsScheduled' /\ Shape(stack')
    BY <2>1, <2>2 DEF WorkInv, CommitsHaveTrees, QueueIsFlushed, CommitIsScheduled,
                      RecordsLiveTask, IsQueued
  <2> QED BY <2>3, <2>4 DEF WorkInv
<1> QED BY <1>1, <1>2, Invariance, PTL DEF Spec

\* No root with work is forgotten: whatever is updated, suspended, retried,
\* interrupted or thrown, ensureRootIsScheduled has left a Scheduler task or a
\* place in the sync queue behind for every root that getNextLanes finds work for,
\* once the code that was running has ended.  Roots that an error took the last
\* ensureRootIsScheduled from are excepted.
THEOREM WorkIsScheduled == Spec => []RootIsScheduled
<1>1. IInv /\ WorkInv => RootIsScheduled
  <2> SUFFICES ASSUME IInv, WorkInv, Idle, NEW r \in Root \ wrecked,
                      GetNextLanes(roots[r], WipLanes(wip, r)) # {}
               PROVE  \/ \E t \in tasks : t.root = r
                      \/ IsQueued(r) /\ microtasks + flushTasks > 0
    BY DEF RootIsScheduled
  <2> DEFINE x == roots[r]
             n == roots[r].callbackNode
  <2>1. /\ \A q : ~Owes(Frames(stack), q) /\ ~Performs(Frames(stack), q)
        /\ \A m, q : ~Runs(Frames(stack), m, q)
        /\ NoFlush(stack)
    BY IdleOwes
  <2>2. RootWork(r) /\ Settled(x) /\ CallbackFits(x)
    BY <2>1 DEF WorkInv, RootsWork, RootWork
  <2>3. Workable(x) # {}
    <3>1. LaneFields(x) /\ WipLanes(wip, r) \in SUBSET Lanes
      BY GoodRootHasLaneFields DEF IInv, RootsAgree, WipLanes, WorkRecord
    <3> QED BY <3>1, NextLanesFindWork
  <2>4. x.callbackPriority # NoLane
    BY <2>2, <2>3 DEF Settled
  <2>5. CASE x.callbackPriority = SyncLane
    <3>1. IsQueued(r)
      BY <2>1, <2>2, <2>5 DEF RootWork, HasSyncWork
    <3>2. syncQueue # <<>>
      BY <3>1 DEF IsQueued
    <3>3. microtasks + flushTasks > 0
      BY <2>1, <3>2 DEF WorkInv, QueueIsFlushed
    <3> QED BY <3>1, <3>3
  <2>6. CASE x.callbackPriority # SyncLane
    <3>1. TaskOf(r, n) \in tasks
      BY <2>1, <2>2, <2>4, <2>6 DEF RootWork, CallbackFits, HasTask
    <3>2. TaskOf(r, n).root = r
      BY DEF TaskOf
    <3> QED BY <3>1, <3>2
  <2> QED BY <2>5, <2>6
<1> QED BY <1>1, Invariance, WorkInvariance, PTL

\* "The priority hasn't changed. We can reuse the existing task."
\* (ensureRootIsScheduled) is right: when no code is running, the Scheduler has
\* the task that a root has recorded, and the root is in the sync queue if the
\* recorded priority is Sync.  Roots that an error wrecked are excepted.
THEOREM RecordedTasksExist == Spec => []RecordedTaskIsLive
<1>1. IInv /\ WorkInv => RecordedTaskIsLive
  <2> SUFFICES ASSUME WorkInv, Idle, NEW r \in Root \ wrecked
               PROVE  /\ roots[r].callbackNode # NoNode
                           => TaskOf(r, roots[r].callbackNode) \in tasks
                      /\ roots[r].callbackPriority = SyncLane => IsQueued(r)
                      /\ roots[r].callbackPriority \notin {NoLane, SyncLane}
                           => roots[r].callbackNode # NoNode
    BY DEF RecordedTaskIsLive, RecordsLiveTask, TaskOf
  <2>1. /\ \A q : ~Performs(Frames(stack), q)
        /\ \A m, q : ~Runs(Frames(stack), m, q)
    BY IdleOwes
  <2>2. RootWork(r) /\ CallbackFits(roots[r])
    BY DEF WorkInv, RootsWork
  <2> QED BY <2>1, <2>2 DEF RootWork, CallbackFits, HasTask, HasSyncWork
<1> QED BY <1>1, Invariance, WorkInvariance, PTL
===============================================================================
