---------------------------- MODULE UpdateQueue ----------------------------
(***************************************************************************)
(* The update queue of one fiber, a class component (or root) of           *)
(* ReactFiberClassUpdateQueue or one useState or useReducer hook of        *)
(* ReactFiberHooks, through renders that are interrupted, restarted and    *)
(* committed while updates of several lanes arrive.  Circular and linked   *)
(* lists of updates are sequences, oldest first.                           *)
(*                                                                         *)
(* The rest of the tree is abstract: the fiber is reached by every render  *)
(* of one of its lanes, and may be reached, with or without new props, by  *)
(* others.                                                                 *)
(***************************************************************************)
EXTENDS Integers, Sequences, FiniteSets, SequencesExt

CONSTANTS
  QueueKinds,      \* subset of {"class", "hook"}
  UpdateLanes,     \* positive numbers, the smaller the more urgent
  UpdateActions,   \* subset of {"append", "reset", "same"}
  MaxQueued        \* bound: updates made in a behaviour

ASSUME QueueAssumption ==
  /\ QueueKinds \subseteq {"class", "hook"}
  /\ UpdateLanes \subseteq Nat \ {0}
  /\ UpdateActions \subseteq {"append", "reset", "same"}
  /\ MaxQueued \in Nat

NoLane == 0

VARIABLES
  kind,             \* which of the two queues this is
  currentFiber,     \* the fiber on screen: lanes, memoized state, base state, base queue
  alternateFiber,   \* its alternate, work in progress in a render; <<>> before the first
  shared,           \* pending and interleaved updates, lastRenderedState
  rendering,        \* the render of the root in progress, <<>> if none
  rootLanes,        \* root.pendingLanes
  inserted,         \* history: the updates that count, in insertion order
  called,           \* history: calls of each update's callback
  surprises         \* history: which of Surprises a hook met

queueVars == <<kind, currentFiber, alternateFiber, shared, rendering, rootLanes, inserted,
               called, surprises>>

\* "droppedBailout": a render in which bailoutHooks took lanes off the fiber on
\* screen was dropped, and they were not put back;
\* "renderPhase": the component updated itself while it rendered;
\* "staleEager": a state was computed eagerly from one that is not on screen, or
\* that is replaced by the commit of a render already in progress.
Surprises == {"droppedBailout", "renderPhase", "staleEager"}

UpdateIds == 1..MaxQueued
NextId == Cardinality({i \in UpdateIds : called[i] >= 0}) + 1

\* What a reducer makes of a state.  States are the sequences of the appended
\* ids, so that no two orders of updates give the same state by accident.
Reduce(state, update) ==
  CASE update.action = "append" -> Append(state, update.id)
    [] update.action = "reset"  -> <<>>
    [] update.action = "same"   -> state

Result(state, updates) ==
  LET after[n \in 0..Len(updates)] ==
        IF n = 0 THEN state ELSE Reduce(after[n - 1], updates[n])
  IN  after[Len(updates)]

Eager(update) == update.eager # <<>>

-----------------------------------------------------------------------------
(* processUpdateQueue and updateReducer: one update of the base queue.       *)

QueueFiber(lanes, state, baseState, baseQueue) ==
  [lanes |-> lanes, state |-> state, baseState |-> baseState, baseQueue |-> baseQueue]

\* Mutant: an update rebased after a skipped one keeps its lane.
ProcessKeepingLane(renderLanes, acc, update) ==
  IF update.lane \notin renderLanes \cup {NoLane}
  THEN [acc EXCEPT !.lanes = @ \cup {update.lane},
                   !.baseState = IF acc.baseQueue = <<>> THEN acc.state ELSE @,
                   !.baseQueue = Append(@, update)]
  ELSE [acc EXCEPT
          !.baseQueue = IF @ = <<>> THEN @ ELSE Append(@, update),
          !.state = IF Eager(update) THEN update.eager[1] ELSE Reduce(@, update),
          !.callbacks = IF update.lane # NoLane THEN Append(@, update.id) ELSE @]

\* Mutant: an update processed after a skipped one is not rebased.
ProcessWithoutRebase(renderLanes, acc, update) ==
  IF update.lane \notin renderLanes \cup {NoLane}
  THEN [acc EXCEPT !.lanes = @ \cup {update.lane},
                   !.baseState = IF acc.baseQueue = <<>> THEN acc.state ELSE @,
                   !.baseQueue = Append(@, update)]
  ELSE [acc EXCEPT
          !.state = IF Eager(update) THEN update.eager[1] ELSE Reduce(@, update),
          !.callbacks = IF update.lane # NoLane THEN Append(@, update.id) ELSE @]

Process(renderLanes, acc, update) ==
  IF update.lane \notin renderLanes \cup {NoLane}
  THEN [acc EXCEPT !.lanes = @ \cup {update.lane},
                   !.baseState = IF acc.baseQueue = <<>> THEN acc.state ELSE @,
                   !.baseQueue = Append(@, update)]
  ELSE [acc EXCEPT
          !.baseQueue = IF @ = <<>> THEN @ ELSE Append(@, [update EXCEPT !.lane = NoLane]),
          !.state = IF Eager(update) THEN update.eager[1] ELSE Reduce(@, update),
          !.callbacks = IF update.lane # NoLane THEN Append(@, update.id) ELSE @]

ProcessAll(renderLanes, baseState, updates) ==
  LET start == [lanes |-> {}, state |-> baseState, baseState |-> baseState,
                baseQueue |-> <<>>, callbacks |-> <<>>]
      after[n \in 0..Len(updates)] ==
        IF n = 0 THEN start ELSE Process(renderLanes, after[n - 1], updates[n])
      end == after[Len(updates)]
  IN  [end EXCEPT !.baseState = IF end.baseQueue = <<>> THEN end.state ELSE @]

LanesOf(updates) == {updates[i].lane : i \in DOMAIN updates} \ {NoLane}

-----------------------------------------------------------------------------
(* Updates.  They are made between two slices of the render, if any.         *)

IsIdle(fiber) == fiber = <<>> \/ fiber.lanes = {}

\* dispatchSetState computes the state at once when both fibers have no lanes.
CanComputeEagerly == kind = "hook" /\ IsIdle(currentFiber) /\ IsIdle(alternateFiber)

MarkLane(fiber, lane) ==
  IF fiber = <<>> THEN fiber ELSE [fiber EXCEPT !.lanes = @ \cup {lane}]

NewUpdate(lane, action) ==
  LET update == [id |-> NextId, lane |-> lane, action |-> action, eager |-> <<>>]
  IN  IF CanComputeEagerly
      THEN [update EXCEPT !.eager = <<Reduce(shared.lastRenderedState, update)>>]
      ELSE update

\* setState of a class, dispatchSetState and dispatchReducerAction of a hook
Dispatch(lane, action) ==
  LET update == NewUpdate(lane, action)
      bailsOut == Eager(update) /\ update.eager[1] = shared.lastRenderedState
  IN  /\ NextId \in UpdateIds
      /\ called' = [called EXCEPT ![NextId] = 0]
      /\ inserted' = Append(inserted, update)
      /\ shared' = [shared EXCEPT !.interleaved = Append(@, update)]
      /\ IF bailsOut
         THEN UNCHANGED <<currentFiber, alternateFiber, rootLanes, rendering>>
         ELSE /\ currentFiber' = MarkLane(currentFiber, lane)
              /\ alternateFiber' = MarkLane(alternateFiber, lane)
              /\ rootLanes' = rootLanes \cup {lane}
              /\ rendering' = IF rendering = <<>> THEN rendering
                              ELSE [rendering EXCEPT
                                      !.preempted = @ \/ \A l \in rendering.lanes : lane < l]
      /\ surprises' = IF Eager(update) /\ shared.lastRenderedState # currentFiber.state
                      THEN surprises \cup {"staleEager"} ELSE surprises
      /\ UNCHANGED kind

-----------------------------------------------------------------------------
(* Rendering.                                                                *)

\* Of a fiber that is not on screen only the lanes are looked at, until
\* createWorkInProgress overwrites the rest.
Stale(fiber) ==
  IF fiber = <<>> THEN <<>> ELSE QueueFiber(fiber.lanes, <<>>, <<>>, <<>>)

\* prepareFreshStack, for a new render or in place of one that is dropped;
\* finishQueueingConcurrentUpdates moves the interleaved updates.
PrepareRender(lanes) ==
  /\ rendering' = [lanes |-> lanes, phase |-> "begin", cloned |-> FALSE,
                   preempted |-> FALSE, bailed |-> FALSE, callbacks |-> <<>>, extra |-> <<>>]
  /\ shared' = [shared EXCEPT !.pending = @ \o shared.interleaved, !.interleaved = <<>>]
  /\ surprises' = IF rendering # <<>> /\ rendering.bailed
                   THEN surprises \cup {"droppedBailout"} ELSE surprises
  /\ alternateFiber' = Stale(alternateFiber)
  /\ UNCHANGED <<kind, currentFiber, rootLanes, inserted, called>>

InPhase(phase) == rendering # <<>> /\ rendering.phase = phase /\ ~rendering.preempted

\* The parent bailed out without cloning this fiber.
NotReached ==
  /\ InPhase("begin")
  /\ currentFiber.lanes \cap rendering.lanes = {}
  /\ rendering' = [rendering EXCEPT !.phase = "complete"]
  /\ UNCHANGED <<kind, currentFiber, alternateFiber, shared, rootLanes, inserted, called,
                 surprises>>

\* createWorkInProgress and an early bailout of beginWork
BailOutOfFiber ==
  /\ InPhase("begin")
  /\ currentFiber.lanes \cap rendering.lanes = {}
  /\ alternateFiber' = currentFiber
  /\ rendering' = [rendering EXCEPT !.phase = "complete", !.cloned = TRUE]
  /\ UNCHANGED <<kind, currentFiber, shared, rootLanes, inserted, called, surprises>>

IsReached(newProps) == newProps \/ currentFiber.lanes \cap rendering.lanes # {}

\* Mutant: updates moved from the shared queue only reach the work in progress.
ProcessUpdateQueueOfWipOnly(wip) ==
  LET queue == wip.baseQueue \o shared.pending
      end == ProcessAll(rendering.lanes, wip.baseState, queue)
      lanes == IF queue = <<>> THEN {}
               ELSE end.lanes \cup LanesOf(shared.interleaved)
  IN  /\ alternateFiber' = IF queue = <<>> THEN [wip EXCEPT !.lanes = {}]
                           ELSE QueueFiber(lanes, end.state, end.baseState, end.baseQueue)
      /\ UNCHANGED currentFiber
      /\ shared' = [shared EXCEPT !.pending = <<>>]
      /\ rendering' = [rendering EXCEPT !.phase = "complete", !.cloned = TRUE,
                                        !.callbacks = @ \o end.callbacks]

\* processUpdateQueue of the work in progress fiber wip.  The lanes of the
\* interleaved updates are merged only if there was an update to process.
ProcessUpdateQueue(wip) ==
  LET queue == wip.baseQueue \o shared.pending
      end == ProcessAll(rendering.lanes, wip.baseState, queue)
      lanes == IF queue = <<>> THEN {}
               ELSE end.lanes \cup LanesOf(shared.interleaved)
  IN  /\ alternateFiber' = IF queue = <<>> THEN [wip EXCEPT !.lanes = {}]
                           ELSE QueueFiber(lanes, end.state, end.baseState, end.baseQueue)
      /\ currentFiber' = [currentFiber EXCEPT !.baseQueue = @ \o shared.pending]
      /\ shared' = [shared EXCEPT !.pending = <<>>]
      /\ rendering' = [rendering EXCEPT !.phase = "complete", !.cloned = TRUE,
                                        !.callbacks = @ \o end.callbacks]

BeginClass(newProps) ==
  /\ kind = "class"
  /\ InPhase("begin")
  /\ IsReached(newProps)
  /\ ProcessUpdateQueue(currentFiber)
  /\ UNCHANGED <<kind, rootLanes, inserted, called, surprises>>

\* An error thrown by a child: enqueueCapturedUpdate on the boundary, which is
\* then begun again.
CaptureError ==
  /\ kind = "class"
  /\ InPhase("complete")
  /\ rendering.cloned /\ rendering.extra = <<>>
  /\ NextId \in UpdateIds
  /\ \E lane \in rendering.lanes :
       LET update == [id |-> NextId, lane |-> lane, action |-> "append", eager |-> <<>>]
           before == Len(inserted) - Len(shared.pending) - Len(shared.interleaved)
       IN  /\ alternateFiber' = [alternateFiber EXCEPT !.baseQueue = Append(@, update)]
           /\ rendering' = [rendering EXCEPT !.phase = "captured",
                                             !.extra = <<[at |-> before, update |-> update]>>]
           /\ called' = [called EXCEPT ![NextId] = 0]
  /\ UNCHANGED <<kind, currentFiber, shared, rootLanes, inserted, surprises>>

BeginBoundaryAgain ==
  /\ InPhase("captured")
  /\ ProcessUpdateQueue(alternateFiber)
  /\ UNCHANGED <<kind, rootLanes, inserted, called, surprises>>

\* updateReducer, then rerenderReducer with the updates the component makes
\* while it renders; then bailoutHooks if nothing changed.
HookPass ==
  ProcessAll(rendering.lanes, currentFiber.baseState, currentFiber.baseQueue \o shared.pending)

RenderPhaseUpdate(action) ==
  [id |-> NextId, lane |-> NoLane, action |-> action, eager |-> <<>>]

\* Mutant: the lanes of interleaved updates are not merged.
BeginHookWithoutInterleaved(newProps, renderPhase) ==
  LET queue == currentFiber.baseQueue \o shared.pending
      end == HookPass
      received == newProps \/ end.state # currentFiber.state
  IN  /\ kind = "hook"
      /\ InPhase("begin")
      /\ IsReached(newProps)
      /\ alternateFiber' = QueueFiber(end.lanes, end.state, end.baseState, end.baseQueue)
      /\ currentFiber' = [currentFiber EXCEPT
                            !.baseQueue = queue,
                            !.lanes = IF received THEN @ ELSE @ \ rendering.lanes]
      /\ shared' = [shared EXCEPT !.pending = <<>>, !.lastRenderedState = end.state]
      /\ rendering' = [rendering EXCEPT !.phase = "complete", !.cloned = TRUE]
      /\ UNCHANGED <<kind, rootLanes, inserted>>

BeginHook(newProps, renderPhase) ==
  LET queue == currentFiber.baseQueue \o shared.pending
      end == HookPass
      processed == IF queue = <<>> THEN currentFiber.state ELSE end.state
      state == Result(processed, renderPhase)
      baseQueue == end.baseQueue
      baseState == IF baseQueue = <<>> /\ renderPhase # <<>> THEN state
                   ELSE end.baseState
      received == newProps \/ processed # currentFiber.state \/ state # processed
  IN  /\ kind = "hook"
      /\ InPhase("begin")
      /\ IsReached(newProps)
      /\ alternateFiber' = QueueFiber(end.lanes \cup LanesOf(shared.interleaved),
                                     state, baseState, baseQueue)
      /\ currentFiber' = [currentFiber EXCEPT
                            !.baseQueue = queue,
                            !.lanes = IF received THEN @ ELSE @ \ rendering.lanes]
      /\ shared' = [shared EXCEPT
                      !.pending = <<>>,
                      !.lastRenderedState =
                         IF queue = <<>> /\ renderPhase = <<>> THEN @ ELSE state]
      /\ rendering' = [rendering EXCEPT
                      !.phase = "complete", !.cloned = TRUE, !.bailed = ~received,
                      !.extra = IF renderPhase # <<>> /\ baseQueue = <<>>
                                THEN <<[at |-> Len(inserted) - Len(shared.interleaved),
                                        update |-> renderPhase[1]]>>
                                ELSE <<>>]
      /\ UNCHANGED <<kind, rootLanes, inserted>>

BeginHookQuietly(newProps) ==
  BeginHook(newProps, <<>>) /\ UNCHANGED <<called, surprises>>

BeginHookWithUpdate(newProps, action) ==
  /\ NextId \in UpdateIds
  /\ BeginHook(newProps, <<RenderPhaseUpdate(action)>>)
  /\ called' = [called EXCEPT ![NextId] = 0]
  /\ surprises' = surprises \cup {"renderPhase"}

\* The component throws after an update of its own: resetHooksAfterThrow
\* empties the queue and the render is given up.
ThrowAfterUpdate(newProps) ==
  LET queue == currentFiber.baseQueue \o shared.pending
  IN  /\ kind = "hook"
      /\ InPhase("begin")
      /\ IsReached(newProps)
      /\ currentFiber' = [currentFiber EXCEPT !.baseQueue = queue]
      /\ alternateFiber' = Stale(QueueFiber(HookPass.lanes \cup LanesOf(shared.interleaved),
                                            <<>>, <<>>, <<>>))
      /\ shared' = [shared EXCEPT
                      !.pending = <<>>,
                      !.lastRenderedState = IF queue = <<>> THEN @ ELSE HookPass.state]
      /\ rendering' = <<>>
      /\ UNCHANGED <<kind, rootLanes, inserted, called, surprises>>

-----------------------------------------------------------------------------
(* commitRoot: the alternate is the fiber on screen if the render cloned it, *)
(* the callbacks of class updates are called, and the root keeps the lanes   *)
(* the tree is left with.                                                    *)

WithExtra ==
  IF rendering.extra = <<>> THEN inserted
  ELSE InsertAt(inserted, rendering.extra[1].at + 1, rendering.extra[1].update)

CommitFiber ==
  /\ rendering # <<>> /\ rendering.phase = "complete"
  /\ IF rendering.cloned
     THEN /\ currentFiber' = alternateFiber
          /\ alternateFiber' = Stale(currentFiber)
     ELSE UNCHANGED <<currentFiber, alternateFiber>>
  /\ rootLanes' = currentFiber'.lanes
  /\ inserted' = WithExtra
  /\ called' = [i \in UpdateIds |->
                  called[i] + Cardinality({k \in DOMAIN rendering.callbacks :
                                             rendering.callbacks[k] = i})]
  /\ rendering' = <<>>
  /\ surprises' = IF kind = "hook" /\ rendering.extra # <<>>
                      /\ \E i \in DOMAIN shared.interleaved : Eager(shared.interleaved[i])
                   THEN surprises \cup {"staleEager"} ELSE surprises
  /\ UNCHANGED <<kind, shared>>

-----------------------------------------------------------------------------
QueueInit ==
  /\ kind \in QueueKinds
  /\ currentFiber = QueueFiber({}, <<>>, <<>>, <<>>)
  /\ alternateFiber = <<>>
  /\ shared = [pending |-> <<>>, interleaved |-> <<>>, lastRenderedState |-> <<>>]
  /\ rendering = <<>>
  /\ rootLanes = {}
  /\ inserted = <<>>
  /\ called = [i \in UpdateIds |-> -1]
  /\ surprises = {}

QueueNext ==
  \/ \E lane \in UpdateLanes, action \in UpdateActions : Dispatch(lane, action)
  \/ \E lanes \in (SUBSET UpdateLanes) \ {{}} : PrepareRender(lanes)
  \/ NotReached
  \/ BailOutOfFiber
  \/ \E newProps \in BOOLEAN : BeginClass(newProps)
  \/ CaptureError
  \/ BeginBoundaryAgain
  \/ \E newProps \in BOOLEAN : BeginHookQuietly(newProps)
  \/ \E newProps \in BOOLEAN, action \in UpdateActions : BeginHookWithUpdate(newProps, action)
  \/ \E newProps \in BOOLEAN : ThrowAfterUpdate(newProps)
  \/ CommitFiber

QueueSpec == QueueInit /\ [][QueueNext]_queueVars

-----------------------------------------------------------------------------
(* Properties.                                                               *)

Outstanding == currentFiber.baseQueue \o shared.pending \o shared.interleaved

IdsOf(updates) == {updates[i].id : i \in DOMAIN updates}

\* Those of a queue whose effect was never shown.
Unshown(updates) ==
  {updates[i].id : i \in {j \in DOMAIN updates : updates[j].lane # NoLane}}

\* The updates whose effect is on screen.
Committed == IdsOf(inserted) \ Unshown(Outstanding)

\* Whatever was skipped, rebased, interrupted or thrown away, processing what is
\* queued on top of the base state gives all updates in insertion order
\* (ReactFiberClassUpdateQueue.old.js: "the final state is always the same").
FinalStateIsDeterministic ==
  surprises \subseteq {"renderPhase"} =>
    Result(currentFiber.baseState, Outstanding) = Result(<<>>, inserted)

\* What an update did to the screen is taken back by no commit, though the update
\* is rebased after an earlier one of another lane; only a reset that is shown for
\* the first time may.
ShownStays ==
  [][\A u \in Range(inserted) :
       /\ u.action = "append" /\ u.id \in Range(currentFiber.state)
       /\ surprises' = {}
       => \/ u.id \in Range(currentFiber'.state)
          \/ \E r \in Range(inserted) :
               r.action = "reset" /\ r.id \in Committed' \ Committed]_queueVars

\* The callback of an update is called once, by the commit that shows it.
CallbacksAreCalledOnce ==
  kind = "class" =>
    \A i \in IdsOf(inserted) : called[i] = IF i \in Committed THEN 1 ELSE 0

UpToDate == rootLanes = {} => currentFiber.state = Result(<<>>, inserted)

\* Once the root has no lanes left, a hook shows every update: none was dropped
\* by an eager bailout, by bailoutHooks or by arriving during a render.  Not
\* counted are a dropped render's bailoutHooks and an eager state computed from one that
\* is not on screen.
HookIsUpToDate == kind = "hook" /\ surprises \subseteq {"renderPhase"} => UpToDate

\* ReactFiberClassUpdateQueue.old.js:642 and ReactFiberHooks.old.js:943:
\* interleaved updates are not processed during the render, "but we do need to
\* track which lanes are remaining", so that every update is shown in the end.
InterleavedLanesRemain == surprises \subseteq {"droppedBailout"} => UpToDate
=============================================================================
