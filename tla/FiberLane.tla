------------------------------ MODULE FiberLane ------------------------------
(***************************************************************************)
(* The lanes of a root: react-reconciler/src/ReactFiberLane.old.js.        *)
(*                                                                         *)
(* A lane is the index of its bit, so a smaller lane has a higher          *)
(* priority, and the source's `Lanes` bit masks are sets.  The functions   *)
(* that mutate a FiberRoot are operators from the root before to the root  *)
(* after; of a root only the lane fields are read or written here.         *)
(***************************************************************************)
EXTENDS Integers

CONSTANT Lanes   \* the lanes in use, of the 31 of the source

ASSUME LanesAssumption == Lanes \subseteq 0..30

NoLane == -1
SyncLane == 0
InputContinuousHydrationLane == 1
InputContinuousLane == 2
DefaultHydrationLane == 3
DefaultLane == 4
TransitionLanes == 6..21
RetryLanes == 22..26
NonIdleLanes == 0..27
IdleLane == 29
OffscreenLane == 30

\* The lane fields of a FiberRoot.  `timedLanes` are the lanes with an entry
\* other than NoTimestamp in `expirationTimes`.
LaneFields(root) ==
  /\ root.pendingLanes \subseteq Lanes
  /\ root.suspendedLanes \subseteq Lanes
  /\ root.pingedLanes \subseteq Lanes
  /\ root.expiredLanes \subseteq Lanes
  /\ root.timedLanes \subseteq Lanes
  /\ root.entangledLanes \subseteq Lanes
  /\ root.entanglements \in [Lanes -> SUBSET Lanes]

\* getHighestPriorityLane(lanes)
HighestPriorityLane(lanes) ==
  IF lanes = {} THEN NoLane
                ELSE CHOOSE l \in lanes : \A k \in lanes : l <= k

\* getHighestPriorityLanes(lanes): transitions, and retries, go together.
HighestPriorityLanes(lanes) ==
  LET top == HighestPriorityLane(lanes)
  IN  {l \in lanes : \/ l = top
                     \/ {l, top} \subseteq TransitionLanes
                     \/ {l, top} \subseteq RetryLanes}

-----------------------------------------------------------------------------
(* What to work on next *)

\* The pending lanes that may be considered: idle ones come last, after all
\* the others have finished.
Candidates(root) ==
  IF root.pendingLanes \cap NonIdleLanes # {}
  THEN root.pendingLanes \cap NonIdleLanes
  ELSE root.pendingLanes

Unblocked(root) == Candidates(root) \ root.suspendedLanes

\* A pinged lane is a suspended one whose data may have arrived.
Pinged(root) ==
  IF root.pendingLanes \cap NonIdleLanes # {}
  THEN root.pendingLanes \cap NonIdleLanes \cap root.pingedLanes
  ELSE root.pingedLanes

Workable(root) ==
  IF root.pendingLanes = {} THEN {}
  ELSE IF Unblocked(root) # {} THEN Unblocked(root) ELSE Pinged(root)

\* Work in progress on `wipLanes` is not interrupted by nextLanes.
KeepsWorking(root, wipLanes, nextLanes) ==
  LET nextLane == HighestPriorityLane(nextLanes)
      wipLane == HighestPriorityLane(wipLanes)
  IN  /\ wipLanes # {}
      /\ wipLanes # nextLanes
      /\ wipLanes \cap root.suspendedLanes = {}
      /\ \/ nextLane >= wipLane
         \/ nextLane = DefaultLane /\ wipLane \in TransitionLanes

WithEntanglements(root, lanes) ==
  lanes \cup UNION {root.entanglements[l] : l \in lanes \cap root.entangledLanes}

\* getNextLanes(root, wipLanes)
GetNextLanes(root, wipLanes) ==
  LET nextLanes == HighestPriorityLanes(Workable(root))
      batch == IF InputContinuousLane \in nextLanes
               THEN nextLanes \cup (root.pendingLanes \cap {DefaultLane})
               ELSE nextLanes
  IN  IF nextLanes # {} /\ KeepsWorking(root, wipLanes, nextLanes)
      THEN wipLanes
      ELSE WithEntanglements(root, batch)

\* getLanesToRetrySynchronouslyOnError(root)
LanesToRetrySynchronouslyOnError(root) == root.pendingLanes \ {OffscreenLane}

\* includesBlockingLane(root, lanes)
IncludesBlockingLane(lanes) ==
  lanes \cap {InputContinuousHydrationLane, InputContinuousLane,
              DefaultHydrationLane, DefaultLane} # {}

IncludesExpiredLane(root, lanes) == lanes \cap root.expiredLanes # {}
IncludesOnlyRetries(lanes) == lanes \subseteq RetryLanes
IncludesOnlyTransitions(lanes) == lanes \subseteq TransitionLanes
IncludesNonIdleWork(lanes) == lanes \cap NonIdleLanes # {}

-----------------------------------------------------------------------------
(* Changes of the root *)

\* markRootUpdated(root, lane, eventTime)
MarkRootUpdated(root, lane) ==
  LET updated == [root EXCEPT !.pendingLanes = @ \cup {lane}]
  IN  IF lane = IdleLane THEN updated
      ELSE [updated EXCEPT !.suspendedLanes = {}, !.pingedLanes = {}]

\* markRootSuspended(root, suspendedLanes), as ReactFiberLane exports it
MarkRootSuspended(root, lanes) ==
  [root EXCEPT !.suspendedLanes = @ \cup lanes,
               !.pingedLanes = @ \ lanes,
               !.timedLanes = @ \ lanes]

\* markRootPinged(root, pingedLanes, eventTime)
MarkRootPinged(root, lanes) ==
  [root EXCEPT !.pingedLanes = @ \cup (root.suspendedLanes \cap lanes)]

\* computeExpirationTime(lane, currentTime) !== NoTimestamp
Expires(lane) == lane <= 21

\* The lanes whose expiration time may have passed.
MayBeDue(root) == root.pendingLanes \cap root.timedLanes

\* markStarvedLanesAsExpired(root, currentTime), where `due` are the lanes
\* whose expiration time has passed.
MarkStarvedLanesAsExpired(root, due) ==
  [root EXCEPT
     !.timedLanes = @ \cup {l \in root.pendingLanes :
                              /\ Expires(l)
                              /\ l \notin root.suspendedLanes
                                   \/ l \in root.pingedLanes},
     !.expiredLanes = @ \cup due]

\* Mutant: a finished lane stays expired.
MarkRootFinishedKeepsExpired(root, remainingLanes) ==
  LET finished == root.pendingLanes \ remainingLanes
  IN  [root EXCEPT
         !.pendingLanes = remainingLanes,
         !.suspendedLanes = {},
         !.pingedLanes = {},
         !.entangledLanes = @ \cap remainingLanes,
         !.entanglements = [l \in Lanes |-> IF l \in finished THEN {} ELSE @[l]],
         !.timedLanes = @ \ finished]

\* markRootFinished(root, remainingLanes)
MarkRootFinished(root, remainingLanes) ==
  LET finished == root.pendingLanes \ remainingLanes
  IN  [root EXCEPT
         !.pendingLanes = remainingLanes,
         !.suspendedLanes = {},
         !.pingedLanes = {},
         !.expiredLanes = @ \cap remainingLanes,
         !.entangledLanes = @ \cap remainingLanes,
         !.entanglements = [l \in Lanes |-> IF l \in finished THEN {} ELSE @[l]],
         !.timedLanes = @ \ finished]

\* markRootEntangled(root, entangledLanes)
MarkRootEntangled(root, lanes) ==
  LET all == root.entangledLanes \cup lanes
  IN  [root EXCEPT
         !.entangledLanes = all,
         !.entanglements =
           [l \in Lanes |->
              IF l \in all /\ (l \in lanes \/ @[l] \cap lanes # {})
              THEN @[l] \cup lanes ELSE @[l]]]
=============================================================================
