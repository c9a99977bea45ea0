# Verification of the React runtime in `src/app/src/react`

The repository is an annotated copy of the React 18 monorepo
(`src/app/src/react`) inside a small demonstration app (`src/app`) with the
author's notes (`src/notes`). The modules of this directory model the parts of
React whose correctness depends on an order of events that tests hardly reach:

* the **scheduler** that slices work over the event loop;
* the **root scheduler of the reconciler**, which decides which updates of which
  root are rendered, restarted, suspended, retried and committed, and when;
* below it, the data those renders work on: **update queues**, the **tree of
  fibers** with its lanes and contexts, **children**, **effects** and **external
  stores**;
* around it, the **server renderers** (Fizz and Flight) with their clients, the
  **replay of events** that came before hydration, and the **resource cache**.

Paths below are relative to `src/app/src/react/packages`.

The build that is modelled is the one the feature flags of the repository
select: `enableNewReconciler = false` (the `.old.js` fork),
`enableSyncDefaultUpdates = true`, `allowConcurrentByDefault = false`,
`deferRenderPhaseUpdateToNextBatch = false`, `enableTransitionTracing = false`,
`enableProfiling = false`, `enableIsInputPending = false`,
`disableSchedulerTimeoutInWorkLoop = false`.

## 1. The system

### Components, their state and their operations

| Component | Source | State | Operations | Modelled by |
|---|---|---|---|---|
| Scheduler | `scheduler/src/forks/Scheduler.js` | task and timer queue, current task, flags of the message loop and of the host timeout | `unstable_scheduleCallback`, `unstable_cancelCallback`, pause/continue, `forceFrameRate`; the message handler `performWorkUntilDeadline` -> `flushWork` -> `workLoop`; the timer handler `handleTimeout` | `Scheduler` |
| Min heap | `scheduler/src/SchedulerMinHeap.js` | an array | `push`, `peek`, `pop` | `SchedulerMinHeap` |
| Lanes | `react-reconciler/src/ReactFiberLane.old.js` | per root: `pendingLanes`, `suspendedLanes`, `pingedLanes`, `expiredLanes`, `entangledLanes`, `entanglements`, `expirationTimes` | `markRoot*`, `markStarvedLanesAsExpired`, `getNextLanes`, `getLanesToRetrySynchronouslyOnError` | `FiberLane` |
| Work loop, root level | `react-reconciler/src/ReactFiberWorkLoop.old.js` | work in progress (root, lanes, exit status), pending passive effects; per root: `callbackNode`, `callbackPriority`, `timeoutHandle` | `scheduleUpdateOnFiber`, `ensureRootIsScheduled`, `performConcurrentWorkOnRoot`, `performSyncWorkOnRoot`, `finishConcurrentRender`, `commitRoot`, `flushPassiveEffects`, `pingSuspendedRoot`, `retryTimedOutBoundary` | `RootScheduler` |
| Sync task queue | `react-reconciler/src/ReactFiberSyncTaskQueue.old.js` | `syncQueue`, `isFlushingSyncQueue` | `scheduleSyncCallback`, `flushSyncCallbacks` | `RootScheduler` |
| Ping listeners | `react-reconciler/src/ReactFiberThrow.old.js` | `root.pingCache` | `attachPingListener` | `RootScheduler` |
| Update queues | `ReactFiberClassUpdateQueue.old.js`, `ReactFiberConcurrentUpdates.old.js`, queue part of `ReactFiberHooks.old.js` | circular pending list, base queue, base state, interleaved list | `enqueueUpdate`, `processUpdateQueue`, `updateReducer` (rebasing of skipped lanes) | `UpdateQueue` |
| Hooks | `ReactFiberHooks.old.js` | per-fiber hook list, dispatcher, effects | `renderWithHooks`, `bailoutHooks`, `useState/Reducer/Effect/SyncExternalStore` | `UpdateQueue`, `HookEffects`, `ExternalStore` |
| Child reconciliation | `ReactChildFiber.old.js` | sibling list | `reconcileChildFibers` (keys, moves, deletions) | `ChildReconciler` |
| Begin, complete, unwind | `ReactFiberBeginWork/CompleteWork/UnwindWork/Throw.old.js` | the fiber tree, lanes and child lanes, flags | one unit of work, bailout, suspense and error boundaries | `FiberTree` (lanes, bailouts); their effect on the root (exit status, pings) in `RootScheduler` |
| Commit phase | `ReactFiberCommitWork.old.js` | host tree, effect lists | before-mutation, mutation, layout, passive effects | `ChildReconciler` (host nodes), `HookEffects` (effects), `RootScheduler` (order of the phases) |
| Context | `ReactFiberNewContext.old.js`, `ReactFiberStack.old.js` | value stack, dependencies | `pushProvider`, `propagateContextChange` | `FiberTree` |
| Server rendering (Fizz) | `react-server/src/ReactFizzServer.js` | request, segments, boundaries, pinged tasks | `performWork`, `pingTask`, `abort`, `flushCompletedQueues` | `Fizz` |
| Flight server and client | `ReactFlightServer.js`, `react-client/src/ReactFlightClient.js` | chunks and their listeners | `resolveModel`, `readChunk`, `pingSegment` | `Flight` |
| DOM events | `react-dom/src/events/*` | listener sets, queues of replayable events | dispatch in two phases, replaying after hydration | `EventReplay` (the queues and the replay) |
| Resource cache | `react-cache/src/LRU.js`, `ReactCacheOld.js` | circular list, size, limit | `add`, `access`, `update`, clean-up | `ResourceCache` |
| Author's sketches | `src/notes/js/*` | toy scheduler, `useState`, event system | - | not modelled: illustrations, imported by nothing |
| DevTools, ESLint plugin, fixtures, scripts, other renderers, app | the rest | - | - | not modelled: tools, examples, demonstration pages, or host glue without protocol |

### How they interact

* JavaScript runs one **job** at a time: an event handler, a message posted
  by the Scheduler, a `setTimeout` callback, a microtask, a settled promise.
  Jobs interleave; a job does not, except that it calls user code (callbacks,
  components, effects) which calls back into the same functions.
* The reconciler keeps at most one *recorded* Scheduler task per root
  (`root.callbackNode`), created and cancelled by `ensureRootIsScheduled`
  through `unstable_scheduleCallback`/`unstable_cancelCallback`; the task may
  return a continuation, and the Scheduler then calls the same task again.
* Updates of the Sync lane do not use a Scheduler task but `syncQueue`, drained by
  a microtask or at the end of an event, a commit or a task of their own.
* Effects that need not block paint are left in
  `rootWithPendingPassiveEffects` and flushed by a Scheduler task, or earlier
  by whoever is about to render, commit or read the lanes of a root.
* Suspended renders hand a *ping* to the promise they wait for; a commit of a
  fallback hands a *retry* instead.
* A fiber's update queue, its lanes and the `childLanes` above it say the same thing
  three times, and the root's `pendingLanes` a fourth: an update writes all,
  `beginWork` and `bubbleProperties` recompute them, a commit publishes them.
* A commit of a dehydrated boundary calls into the event system
  (`retryIfBlockedOn`); the event system calls back to raise its hydration.
* Fizz and Flight run outside of all of this: tasks that suspend hand a ping to their
  promise, and what is complete is written whenever the destination takes it.

### What is hard, and what makes each component correct

* **Scheduler**: three ways to ask for the loop (an API call, a timer, the end
  of a slice) and two handles to track by hand (message, timeout). Correct when
  no task, no wakeup and no message is lost or doubled, callbacks run in
  expiration order and never after cancellation, and nothing starves.
* **Heap**: index arithmetic. Correct when it is a priority queue.
* **Lanes**: seven bit sets that must stay consistent while updates arrive
  during a render of other lanes. Correct when no pending lane is forgotten:
  each is worked on, has a wakeup, or is behind a lane that is.
* **Root scheduler**: every operation starts and ends in the middle of others
  (a commit flushes effects that schedule updates that flush synchronously; a
  task flushes effects that cancel it), the recorded task is a cache that goes
  stale, errors leave any of these half way. Correct when a root with work is
  always scheduled, a suspended lane always has a ping, a commit never loses
  an update that came in while it rendered, and every update is committed.
* **Update queues**: updates of several lanes are processed in several renders,
  some of which are thrown away, while more arrive. Correct when the final state is
  that of all updates in order, none is shown and taken back, and none is left
  behind without a lane that brings it.
* **Fiber tree and context**: each position has two fibers, either of which may be
  stale, and `childLanes` decide what is skipped. Correct when every queued update is
  known up to the root, a batch is rendered as a whole, and no consumer of a context
  shows an old value.
* **Children**: moves, insertions and deletions are derived from one index and
  from a search for the next host sibling. Correct when the host nodes end in the
  order of the elements and state follows keys.
* **Effects**: a hook, the fiber's queue and the two fibers hold effect objects that
  bailouts separate; boundaries switch layout effects. Correct when creates and
  destroys alternate and match what is on screen.
* **External stores** change at any time, between any two steps of a render,
  a commit and a subscription. Correct when nobody stays stale and no finished
  render mixes two states.
* **Fizz**: tasks, segments and boundaries complete, fail, are pinged and aborted in any
  order, and flushed in part. Correct when a request always goes on or ends, and
  the client is told of each boundary once, with all of its content sent.
* **Flight**: rows are written in an order that depends on suspensions, errors and
  back-pressure. Correct when no reader on the client sleeps over its chunk and the stream
  ends exactly when all was sent.
* **Event replay**: events wait for a boundary that may be hydrated, cleared or deleted
  meanwhile. Correct when what blocks an event retries it.
* **Resource cache**: a linked list, its size and maps of maps are kept by hand. Correct
  when it is a cache that forgets what was read longest ago, and only that.

## 2. The modules

| Module | What it is | Code |
|---|---|---|
| `Scheduler` | the task scheduler, its message loop and host timeout | `scheduler/src/forks/Scheduler.js` |
| `TaskService` | what a caller of the scheduler may rely on: the life of one task | abstract; `Scheduler` implements it (`ImplementsService`) |
| `SchedulerMinHeap` | the binary heap of the two queues | `scheduler/src/SchedulerMinHeap.js` |
| `PriorityQueue` | a set of nodes whose first can be taken | abstract; `SchedulerMinHeap` implements it (`HeapImplementsQueue`) |
| `FiberLane` | the lanes of a root, as operators on a root | `react-reconciler/src/ReactFiberLane.old.js` |
| `RootScheduler` | scheduling, rendering and committing of roots | `ReactFiberWorkLoop.old.js`, `ReactFiberSyncTaskQueue.old.js`, `attachPingListener` of `ReactFiberThrow.old.js` |
| `UpdateService` | what React promises an update: the life of a lane of a root | abstract; `RootScheduler` implements it (`ImplementsUpdates`) |
| `UpdateQueue` | the updates of one class component or one state hook, through renders and commits | `ReactFiberClassUpdateQueue.old.js`, `ReactFiberConcurrentUpdates.old.js`, `ReactFiberHooks.old.js` |
| `FiberTree` | lanes, child lanes and one context in a tree of double-buffered fibers | `ReactFiberBeginWork.old.js`, `ReactFiberCompleteWork.old.js`, `ReactFiberNewContext.old.js`, `ReactChildFiber.old.js` |
| `ChildReconciler` | children reconciled by key, and their host nodes in the commit | `ReactChildFiber.old.js`, `ReactFiberCommitWork.old.js` |
| `HookEffects` | the effects of one component in a boundary that is hidden and shown | `ReactFiberHooks.old.js`, `ReactFiberCommitWork.old.js` |
| `ExternalStore` | `useSyncExternalStore` against a store that changes at any time | `ReactFiberHooks.old.js`, `ReactFiberWorkLoop.old.js` |
| `Fizz`, `FizzPrograms` | streaming server rendering; what it is given to render | `react-server/src/ReactFizzServer.js`, the instructions of `ReactDOMServerFormatConfig.js` |
| `Flight`, `FlightPrograms` | server components and their client; what they are given to render | `react-server/src/ReactFlightServer.js`, `react-client/src/ReactFlightClient.js` |
| `ResourceCache` | the cache of `react-cache` | `react-cache/src/LRU.js`, `ReactCacheOld.js` |
| `RecencyService` | a cache that forgets what was read longest ago | abstract; `ResourceCache` implements it (`CacheImplementsRecency`) |
| `EventReplay` | events and explicit targets that wait for hydration | `react-dom/src/events/ReactDOMEventReplaying.js`, `ReactDOMEventListener.js`, `client/ReactDOMHostConfig.js` |
| `MCScheduler`, `MCRootScheduler`, `MCFizz`, `MCFlight` | constant values for TLC | - |
| `MCRoots` | three instances of `RootScheduler`, side by side | - |
| `MCComponents` | the components from `UpdateQueue` to `EventReplay`, and the heap, side by side | - |
| `SchedulerProofs` | theorems about `Scheduler` and `SchedulerMinHeap` | - |
| `RootSchedulerProofs` | theorems about `RootScheduler`, and about the operators of `FiberLane` | - |
| `FiberTreeProofs` | theorems about `FiberTree` | - |
| `UpdateQueueProofs` | theorems about `UpdateQueue` | - |
| `HookProofs` | theorems about `HookEffects`, `ExternalStore`, `EventReplay` and `ResourceCache` | - |
| `ChildReconcilerProofs` | theorems about `ChildReconciler` | - |
| `FizzProofs` | theorems about `Fizz` | - |
| `FlightProofs` | theorems about `Flight` | - |

`RootScheduler` EXTENDS `FiberLane`. `Scheduler` and `RootScheduler` meet at an
interface: `tasks`, `flushTasks` and `passiveTasks` of `RootScheduler` are
Scheduler tasks, called in any order, each once unless it returns a
continuation, never after it was cancelled while not running, and eventually
called. The first three are what `TaskService` says and `Scheduler` is shown
to implement, the last is `NoStarvation`. `FiberTree`, `UpdateQueue`, `HookEffects`
and `ExternalStore` look below `RootScheduler`: each restates, at its level of detail,
the life of a render (prepared for some lanes, worked on, dropped or committed),
which `RootScheduler` drives.

### Scheduler

A queue is a set of task ids ordered by `<<sortIndex, id>>`; that an array heap
does this is the business of `SchedulerMinHeap`. The fields of a task object
are functions of its id. `pc` is the code on the stack: nothing (`idle`), the
`while` loop of `workLoop` (`loop`) or a callback called from it (`callback`).
API calls are enabled when idle (an event handler) and inside a callback, which
is where re-entrance comes from; the clock ticks between any two steps.

| Code | Action |
|---|---|
| `unstable_scheduleCallback` | `ScheduleCallback` (both branches; the delayed one is `ScheduleDelayed`) |
| `unstable_cancelCallback` | `CancelCallback` |
| `unstable_pauseExecution`, `unstable_continueExecution`, `forceFrameRate` | `PauseExecution`, `ContinueExecution`, `ForceFrameRate` |
| `performWorkUntilDeadline` up to `workLoop` | `PerformWorkUntilDeadline` |
| one turn of the loop of `workLoop` | `RunTask` (calls it), `DropTask` (cancelled), `YieldToHost` (`break`), `FinishWork` (queue empty) |
| a callback returns or throws | `TaskReturn`, `TaskThrow` |
| `handleTimeout` | `HandleTimeout` |

`performWorkUntilDeadline`, `flushWork` and their `finally` blocks are part of
the action in which the loop is entered or left. `shouldYieldToHost` compares
the clock with the start of the slice, so a slice may end at every tick.

### FiberLane and RootScheduler

A lane is the index of its bit, `Lanes` are sets. `roots[r]` holds the fields of
a FiberRoot the work loop uses; `wip` the module variables
`workInProgressRoot*`; `stack` the calls of the work loop in progress, the
innermost first. A record on the stack is a call together with its locals that
live across another call (`originalCallbackNode`, `lanes`, the exit-status
handling reached, ...), and `at` the statement it has come to. That is how the
model keeps the code's re-entrance: `commitRoot` calls `flushPassiveEffects`,
whose effects call `scheduleUpdateOnFiber` and at its end
`flushSyncCallbacks`, which calls `performSyncWorkOnRoot` of another root,
which commits - all while the first call waits in the middle. A job starts only
when the stack is empty.

| Code | Action or operator |
|---|---|
| `scheduleUpdateOnFiber` from an event, a layout effect, a passive effect | `Update`, `LayoutEffectUpdate`, `PassiveEffectUpdate` (with `entangleTransitions`); from a render: `RenderPhaseUpdate` |
| `ensureRootIsScheduled` | `EnsureRootIsScheduled`, inside every action whose code calls it |
| `performConcurrentWorkOnRoot` | `RunTask` (flushes passive effects), `PerformConcurrentWork` (picks lanes, `prepareFreshStack`), `RenderYields` or `CompleteConcurrentRender`, `EndConcurrentWork`, `ReturnContinuation` |
| `performSyncWorkOnRoot` | called by `FlushSyncCallbacks`; `PerformSyncWork`, `CompleteSyncRender`, `EndSyncWork` |
| `recoverFromConcurrentError`, the second render for stores | `RecoverFromConcurrentError`, `RenderAgain` |
| `finishConcurrentRender` | `FinishConcurrentRender`, `ThrottleFallback` |
| `commitRootImpl` | `CommitFlushesPassiveEffects`, `CommitRoot`, `LayoutEffectUpdate`, `CommitEnds`, `CommitFlushesOwnEffects`, `CommitFlushesSyncCallbacks` |
| `flushPassiveEffects` | `CallFlushPassiveEffects`, `PassiveEffectUpdate`, `PassiveEffectsEnd` |
| `flushSyncCallbacks` | `FlushSync`, `Microtask`, `RunFlushTask`, `FlushSyncCallbacks`; an error that leaves it: `Throw` |
| `attachPingListener`, `renderDidSuspendDelayIfPossible` | `ComponentSuspends`, `ShellSuspends` |
| `pingSuspendedRoot`, `retryTimedOutBoundary` | `PingSuspendedRoot`, `RetryTimedOutBoundary` |
| `root.timeoutHandle` fires | `RunCommitTimer` |

What is abstracted, and how:

* **The fiber tree.** A render may, at any point, suspend inside a boundary
  (with or without the wish to delay the commit) or outside of all of them,
  throw, or have a component that updates; it may complete at any point. The
  exit status is computed as the code computes it from these events.
* **Remaining lanes.** `updatedLanes` are the lanes of updates enqueued since
  the tree was started: exactly these survive on the finished tree. Lanes that a
  boundary skips are retries, one per root (`retries`).
* **Time.** Expiration times are not numbers: at each
  `markStarvedLanesAsExpired` either none or all lanes that carry a time are
  due. Whether a Suspense throttle has passed, whether a slice is over and
  whether the Scheduler says the task timed out are free choices.
* **Promises.** One ping listener per root and set of lanes, as `pingCache`
  keeps them per promise; the promises that one set of lanes waits for count
  as one.
* **Errors.** A component that throws makes the render `Errored`; whether a
  boundary catches it or `commitRoot` rethrows it (`UncaughtErrors`) is a free
  choice of the commit. An error of an effect that no boundary catches is a Sync update of
  the root (`captureCommitPhaseErrorOnRoot`): `errorLanes` are the lanes that may hold one,
  and the commit that shows such a lane may rethrow the error.
* **Scheduler tasks that a `callbackNode` names** are the numbers
  `1..MaxNodes`; a number is free again when no task, root or call holds it.

### UpdateQueue

One queue, of a class component (or root) or of a `useState`/`useReducer` hook; `currentFiber`
and `alternateFiber` are the two fibers it is on, `rendering` the render of the root. Circular
and linked lists are sequences; an update is its lane and what it does to the
state: append itself, reset the state, or nothing.

| Code | Action |
|---|---|
| `dispatchSetState`, `enqueueSetState` with `enqueueConcurrent...Update` | `Dispatch` (to `pending` or, while the root renders, to `interleaved`; a hook may compute its state eagerly and drop the update) |
| `prepareFreshStack` with `finishQueueingConcurrentUpdates` | `PrepareRender` |
| the parent bails out | `NotReached` |
| `bailoutOnAlreadyFinishedWork` | `BailOutOfFiber` |
| `processUpdateQueue` from `updateClassInstance` | `BeginClass` |
| `enqueueCapturedUpdate`, the second visit of a boundary | `CaptureError`, `BeginBoundaryAgain` |
| `updateReducer` with `renderWithHooks`, `bailoutHooks` | `BeginHookQuietly`, `BeginHookWithUpdate` (an update in the render phase), `ThrowAfterUpdate` |
| commit with `commitUpdateQueue` | `CommitFiber` |

### FiberTree

The tree is fixed. A position has its `current` and its `alternate` fiber with their
lanes and what they read of the provider; `stage` says how far the render has
come with it.

| Code | Action |
|---|---|
| `markUpdateLaneFromFiberToRoot`, `markRootUpdated` | `Update` |
| `prepareFreshStack` | `PrepareFreshStack` |
| `beginWork`: `bailoutOnAlreadyFinishedWork`, a render, a late bailout | `BeginEarlyBailOut`, `BeginRender`, `BeginLateBailOut` |
| `updateContextProvider` with `propagateContextChange` | `BeginSameValue`, `BeginNewValue` |
| `completeWork` with `bubbleProperties` | `CompleteWork` |
| `commitRoot` | `Commit` |

### ChildReconciler, HookEffects, ExternalStore

`RenderChildren` is `reconcileChildFibers` with `reconcileChildrenArray`,
`reconcileSingleElement` and the paths for text, portals and fragments, as functions from
old fibers and elements to new fibers and deletions; `CommitChildren` is
`commitDeletionEffects` and `commitPlacement` with `getHostSibling`. A *group* is a
fragment or a component with host children of its own. The three loops of
`reconcileChildrenArray` are one function on the slots (`UpdateSlot`): each slot belongs to
the first loop until that ends, and to the others after that.

`HookEffects` has a render of each kind (`RenderMount`, `RenderUpdate`,
`RenderAndBailOut`, `RenderElsewhere`, `RenderSuspended`, `RenderDeleted`), `Commit`
with all effects of the mutation and layout phases, `CommitDeletion` and
`FlushPassiveEffects`. Effect objects keep their two homes: the hook, which the next
render reads, and the fiber's `updateQueue`, which the commit runs.

`ExternalStore`: `StoreChange` calls the listeners (`handleStoreChange`); `SyncRender` is
a whole synchronous render and commit; a concurrent render is
`StartConcurrentRender`, `RenderConcurrently` for each component, and
`FinishConcurrentRender` with `isRenderConsistentWithExternalStores`, or `CommitLater`
if its commit was delayed; `FlushUnmountEffects` and `FlushMountEffects` are the passive
effects that unsubscribe and subscribe, and check again.

### Fizz

| Code | Action |
|---|---|
| a promise settles: `pingTask` | `PingTask` |
| `performWork`, `retryTask` | `PerformTasks`, `RetryTask`, `EndPerformTasks` |
| `renderNode` and what it calls, up to the end of an item | `Render` (text, a component, `renderSuspenseBoundary`; suspends or throws by choice), `Finish` (`finishedTask`) |
| `flushCompletedQueues`, one turn | `Flush` |
| `startFlowing` | `StartStreaming` |
| `abort`, `abortTask` | `Abort`, `AbortRootTask`, `AbortTask`, `EndAbort` |

A page says what root, components, boundaries and fallbacks render: text, components
and boundaries, of which each is in one place (`FizzAssumption`): a component that is
rendered twice is two components of the model. `client` is what the browser knows: ids sent and referred to, what each
boundary shows and was told. The destination may become full after any write.

### Flight

| Code | Action |
|---|---|
| a promise settles: `pingSegment` | `PingSegment` |
| `performWork`, `retrySegment` with `resolveModelToJSON`; `flushCompletedChunks` | `PerformWork`, `RetrySegment`, `EndPerformWork` |
| `startFlowing` | `StartFlowing` |
| `processFullRow`, `close` | `ProcessFullRow` |
| `reportGlobalError` | `ReportGlobalError` |
| `readRoot`, `readChunk` and the initialisation of models and modules | `ReadPlainChunk`, `InitializeModelChunk` |

Rows arrive in the order of the stream; a reader that meets a pending chunk listens to it.
A program says what each component renders: items, of which one may be a component, a
reference to the client, one whose module is missing, a provider, a symbol or a value that
cannot be sent. `Resolved` is the loop of `resolveModelToJSON` over the items of a model
and of the components in it; `MaxItems` bounds its turns, and `FlightAssumption` says
that no model of `Programs` needs more, so that the bound cuts nothing off. `MaxHitches`
bounds the suspensions, errors and stops of the destination.

### ResourceCache and EventReplay

`ResourceCache`: `Fetch` and `Access` are `read` and `preload` of an input that is not
and that is cached (`add`, `access`), `FetchThrows` one whose fetch throws, `Settle` the promise, `SetLimit`
`setGlobalCacheLimit`, `CleanUp` the task that runs `deleteLeastRecentlyUsedEntries`, whose
loop takes the turns `DeleteLast`. The list is kept as the code does, by `previous` and
`next`.

`EventReplay`: `ContinuousEvent` is `dispatchEvent` with `findInstanceBlockingEvent` and
`queueIfContinuousEvent`, `EndingEvent` the event that clears a kind
(`clearIfContinuousEvent`), `QueueExplicitHydrationTarget` itself,
`ReplayUnblockedEvents` the scheduled `replayUnblockedEvents`, and `Hydrate`,
`ClearSuspenseBoundary` and `RemoveHostNode` the commits that end a
dehydrated instance, with their calls of `retryIfBlockedOn`.

## 3. What the runs check

### Scheduler

**`scheduler_safety`** (3 tasks, priorities Immediate (timeout -1) and Normal,
delays 0 and 1, clock 0..2, 5 host timeouts; `enableSchedulerDebugging` on, so
that pausing is a step of `workLoop` as well) checks `TypeOK` and

* `OneMessageLoop`: the flags `isMessageLoopRunning`, `isPerformingWork`,
  `isHostCallbackScheduled` and the posted messages agree: never two loops,
  never a flag that claims a loop which will not run;
* `NoLostTask`, `NoLostWakeup`: a task with a callback is in a queue, under the
  key of that queue; when the thread is free there is a message for queued
  tasks, and for every timer a message or a timeout by its start;
* `PriorityRespected`, `NoExpiredTaskLeft`: which task is called next, and what
  may be left when the loop yields;
* `ImplementsService`: refinement of `TaskService`.

**`scheduler_liveness`** (2 tasks, production flags): `NoStarvation`: every
task is called or cancelled, in spite of continuations and re-scheduling, and
`WindsDown`: queues and timeouts end up empty. The supply of tasks is finite, so that
this is not about expiry, which `NoExpiredTaskLeft` is about.

Three tasks are what it takes for one task to run, one to be ahead of it and one
to be behind it or still a timer; two priorities and two delays put every pair in
every order of `<<expirationTime, id>>` against `<<startTime, id>>`. At clock 2 a
timer has fired and a task of each priority has expired. Five host timeouts
are more than three timers and two re-arms produce. (The theorems below hold without
these bounds.)

### Root scheduler

**`roots`** checks three instances of `RootScheduler` side by side, chosen in the initial
state, each with its own mixture of roots, lanes and faults:

| Instance | Roots | Lanes of updates | Faults | Events |
|---|---|---|---|---|
| `one` | one | Sync, Default, two transitions, and a retry; they expire | suspension, suspension outside of all boundaries, error, uncaught error | 4 |
| `two` | two | Sync, Default | suspension, error, uncaught error; nothing is retried | 5 |
| `faults` | one | Sync, a transition, and a retry | all five and uncaught errors | 4 |

In all instances:

* `RootIsScheduled`: whenever no code is running, a root for which
  `getNextLanes` finds work has a Scheduler task or waits in a sync queue that
  something will flush. Yields, suspended renders, re-entrant flushes and errors
  all have to restore it;
* `RecordedTaskIsLive`: the cache (`callbackNode`, `callbackPriority`) by which
  `ensureRootIsScheduled` decides to do nothing is right;
* `SuspendedLanesWake`: a suspended lane that is not pinged has a listener;
* `LaneSetsAgree`: expiry, entanglement and ping bits exist only for lanes that
  are pending, or suspended;
* `PassiveEffectsAreScheduled`: effects left for later have a task;
* `EffectsPrecedeRender`: effects are flushed before a render starts, not only
  before its lanes are chosen;
* `TimerHasFinishedWork`: the timer of a delayed commit never outlives the tree it
  is to commit;
* `ImplementsUpdates`, the refinement of `UpdateService`: every update is
  committed by a render that began after it, never by one that had begun before.

The first three except the roots in the history variable `wrecked`. An error that no
boundary catches and a fatal error of a render end every call in progress (`Throw`), and
with them the `ensureRootIsScheduled` that each was still to call: `wrecked` collects the
roots of those calls, but not a root that the code had rescheduled before it threw, nor
the roots whose work is untouched. Disagreements 2 and 3 below are about what
becomes of a wrecked root, and the lanes of a render with a fatal error stay suspended.

**`root_liveness`** (`FairSpec`, lanes Sync, transition and retry, 3 events):
`EveryUpdateIsCommitted`. Its specification, `OneRootSpec`, leaves out the one
action that needs a second root (a commit that finds effects of another commit
pending). Lanes do not expire in it: events are finite, so that no lane is starved for ever;
`roots` has an instance whose lanes expire.

`MaxEvents` bounds what the outside does: updates, suspensions, errors and store
changes, all actions that drive the code to a new situation. Four are enough for an
update, a second one that interrupts it, a suspension or error of either and one more
update inside an effect; five with two roots, where the second root
takes its own. `MaxNodes` bounds no behaviour: in the passing runs a
free node is available in every state (checked separately), so
`EnsureRootIsScheduled` is never blocked by it. Deadlock checking is off in the
runs of both systems, because both stop when there is nothing left to do.

### Components

**`components`** checks ten components side by side: a behaviour is one of the
component that its initial state chooses, so that the run is the sum of ten state
spaces, not their product. The others stay in one state each, so that the `VIEW`
`ActiveState`, the variables of the component, tells all states apart. Every component is quiet once its bound is reached, so
deadlock checking is off.

| Component | Instance | Properties |
|---|---|---|
| `FiberTree` | `root - a - b - {c, d}`, `a` a provider and `c` its consumer; two lanes, 3 updates, context values 0 and 1 | `UpdatesReachRoot`: every queued update is known to its fiber, every fiber above and the root. `BatchIsRenderedWhole`: a finished render has processed every update of its lanes. `ConsumersAgree`: no consumer on screen shows an old value |
| `UpdateQueue` | both kinds, two lanes, updates that append and reset, 3 updates | `FinalStateIsDeterministic`: the base state with what is queued on top is always the fold over all updates in order of insertion. `ShownStays`: what is on screen is taken back by no commit. `CallbacksAreCalledOnce`. `HookIsUpToDate`: a root without lanes shows everything |
| `ChildReconciler` | up to two children of each kind and three hosts and holes, permutations of four keys, groups with up to two children each, single children | `HostNodesFollowElements`, `InstancesFollowKeys` |
| `HookEffects` | with and without dependency arrays, two values of them, 4 creates per kind | `EffectsAlternate`, `EffectsMatchScreen` |
| `ExternalStore` | two components, three states of the store, one getter that tells all apart and one that does not, 2 changes | `StaleIsRepaired`: an update or effect that will find out is always pending. `NoTearing`: a concurrent render that commits at once shows one state, the present one |
| `Fizz` | 4 pages with three components and two boundaries: nested with a fallback that suspends, a boundary in a fallback, a shell that suspends, siblings that complete apart; one second suspension or stop | `NothingStalls`, `RevealedIsWhole`, `BoundariesAreResolvedOnce` |
| `Flight` | 3 programs: a module used twice, a value that cannot be sent, a module that is missing; models of 8 items, 2 suspensions, errors or stops | `WaitersAreServed`, `ClosesWhenAllIsSent` |
| `ResourceCache` | two resources with two keys each, limits 0..3 | `CacheImplementsRecency` |
| `EventReplay` | a container with boundaries o and n, and i in o; two kinds of event, three priorities of which one is none, 3 events or targets | `BlockedIsRetried`: the instance that blocks the head of a queue will retry it, or a replay is on its way |
| `SchedulerMinHeap` | 5 nodes, 3 sort indexes: ties, parents with one and with two children, depth 2 | `HeapImplementsQueue` |

Why the bounds are enough: three updates are one that is skipped, one that is
processed and rebased behind it, and one that arrives while the others are being rendered; two
lanes are one that is rendered and one that is not; a tree with two levels below the
provider has a parent that bails out above a consumer that does not. Two changes of
a store fit between any two of render, commit and subscription. One suspension
of each component of Fizz comes for free (each may suspend once), the event
bound only counts a *second* one. The lists of children hold every kind of slot (hole, text,
keyed and unkeyed element, portal, group) next to every other.

Some properties exclude a case that the code is known to mishandle, by a
history variable that names it: `surprises` in `UpdateQueue` (a render that
`bailoutHooks` of a dropped render misled; an eager state computed from one),
`split` in `HookEffects` (the situation of disagreement 5). What is excluded is listed in section 4.

### Fairness

`Scheduler!Fairness`: code on the stack goes on; the host delivers messages,
and expired timeouts (strongly: messages may keep coming); the clock advances; a
callback returns, and one that is called again and again does not return
a continuation for ever. `RootScheduler!Fairness`: code on the stack goes on; a render
that is resumed again and again completes (each slice works on at least one
fiber of a finite tree, and `MaxEvents` bounds the interruptions); the host
delivers microtasks (weakly: nothing else runs before them) and timers, the
Scheduler calls each task (strongly: a task may be put aside while others run; this is
`Scheduler!NoStarvation`), and promises settle. There is no fairness for
updates, faults and returns of *particular* values.

## 4. Disagreements found

Each has a run that must fail, and quotes the code in `PROJECT.json`.

1. `root_entangled`: entanglement is neither symmetric nor followed
   transitively, so a fresh render can take a lane without one it is entangled with.
2. `root_uncaught`: an uncaught error of root B, thrown while the task of root A
   flushes passive effects, ends the task of A. `A.callbackNode` still names it, so
   later updates of A at the same priority are not scheduled.
3. `root_store`: if the second render for an external store suspends outside of all
   boundaries, `finishConcurrentRender` throws 'Unknown root exit status.'
4. `update_queue_lost`: `processUpdateQueue` merges the lanes of interleaved updates only
   if there are other updates to process. A class component that is rendered for new
   props while its only updates are interleaved loses their lanes; they are not
   shown until something else renders it.
5. `effects_destroyed_twice`: after `bailoutHooks`, hiding a boundary destroys a
   layout effect through the queue, and showing it with other dependencies destroys it
   again through the hook.
6. `fizz_flush`: a boundary fails while one of its completed segments waits in
   `partialBoundaries`; flushing that segment throws 'This is a bug in React.' and the
   response is lost.
7. `flight_symbols`: a flush that fills the destination among the symbols
   goes on with a model, which can reach the client before a symbol it refers to; its reader
   waits for ever.

Met while modelling, without a run of their own:

* `workLoop` arms a host timeout without setting `isHostTimeoutScheduled`, so the timeout
  that `flushWork` says it cancels may be pending while it works; and after a delayed
  commit a root may have two Scheduler tasks. Both are harmless: `handleTimeout`
  tolerates it, and the older task finds `callbackNode` changed.
* `ReactFiberHooks.old.js`: `lastRenderedState` is also written by renders that are thrown
  away, so an eager state may be computed from a state that was never shown (2316);
  `bailoutHooks` removes lanes of the current fiber even if the render is dropped (617).
* `ReactFiberCommitWork.old.js:2072`: the insertion effects of a component that
  is deleted while hidden are never destroyed (`HookEffects!HiddenIsUnmounted`).
* Fizz: a boundary in a fallback that was given up may complete, and the instruction to
  reveal it names content that is not sent (`Fizz!InstructionsFindContent`); the tasks of
  the fallback of a boundary that failed are in no abort set, so that an abort leaves them
  (`Fizz!AbortEndsTasks`); `byteSize` is always 0, so the branch for large boundaries is
  dead.
* Flight: `reportGlobalError` does not reach a chunk that is first asked for after the
  failure; `writtenProviders` is read by another key than it is written with
  (`ReactFlightServer.js:589`), so a provider has a row for each use.
* `LRU.js`: `add` never schedules a clean-up, so the cache may exceed its limit until the
  next time a cached entry is read.
* `ReactFiberCommitWork.old.js:1878`: a dehydrated boundary deleted within a host
  node does not retry what it blocks: a queued event, and the explicit targets behind it,
  stay (state `"removed"`, which `BlockedIsRetried` exempts).
  `queueExplicitHydrationTarget` passes targets of lower priority where its comment says it stops at
  the first, so that a target of higher priority goes to the back.

## 5. What is proved

TLAPS checks the theorems below for every value of the constants, under the
named assumptions of the modules: `SchedulerAssumption` (bounds and delays are
natural numbers, there is a frame interval, timeouts are integers),
`LanesAssumption` (lanes are among the 31 bits of the code),
`RootSchedulerAssumption` (`null` is no root, bounds are natural numbers),
`TreeAssumption` and `BoundsAssumption` (`Return` and `Ancestors` describe a tree, the
consumers are below the provider; bounds are natural numbers), `QueueAssumption` (lanes
are positive; kinds and actions are among those of the model), `HeapAssumption` (ids and
keys are integers), `PathAssumption` (what surrounds a target is a sequence),
`CacheAssumption` (limits are integers, `null` is no entry), `ChildrenAssumption` (keys are
unique among siblings, a group has no groups in it, a text has no key),
`FlightAssumption` (what components render is known, and ends after `MaxItems` items) and
`FizzAssumption` (what a page holds is known and is in one place of it). The
theorems about `ExternalStore` and `HookEffects` assume nothing, and none assumes
anything about behaviours.

### `SchedulerProofs`: tasks and timers

| Theorem | Property |
|---|---|
| `Invariance` | the inductive invariant `IInv` |
| `TypeCorrect`, `MessageLoopUnique`, `TasksAreKept`, `WakeupsAreKept`, `TimeoutFlagIsSound` | the safety invariants of `scheduler_safety`; `TimeoutFlagSound` (while `isHostTimeoutScheduled` is set, `clearTimeout` clears the right timeout) is proved only |
| `PriorityIsRespected`, `ExpiredTasksRun` | its two action properties |
| `Implementation` | `Scheduler` implements `TaskService` |

`IInv` conjoins the invariants TLC checks, because none is inductive by itself:
`NoLostWakeup` relies on the message that `OneMessageLoop` says is posted, and
on `TimeoutFlagSound` for the timeout that a call cancels; `NoLostTask` keeps
a popped timer out of the task queue. Three facts complete it: `Handed` (an
id that was not handed out yet occurs nowhere), `Advanced` (inside `workLoop`
no live timer is due at the loop's time: `advanceTimers` ran last), `Taken`
(`workLoop` took the callback of the task it runs, so it is not called twice).
`AdvanceTimersLemma` says once what `advanceTimers` does; each action has a step
of its own.

### `RootSchedulerProofs`: roots and calls

| Theorem | Property |
|---|---|
| `Invariance` | the inductive invariant `IInv` |
| `TypeCorrect` | `TypeOK` |
| `LanesAgree` | `LaneSetsAgree` |
| `TimerIsSound` | `TimerHasFinishedWork` |
| `EffectsAreScheduled` | `PassiveEffectsAreScheduled` |
| `EffectsComeFirst` | `EffectsPrecedeRender` (an action property) |
| `Implementation` | `RootScheduler` implements `UpdateService` |
| `NextLanesAreLanes`, `NextLanesFindWork` | `getNextLanes` returns lanes, and some exactly when a pending lane is unsuspended or pinged; their core is `LeastLane`, that a non-empty set of lanes has a highest-priority one |

The argument, which TLC also checked as an invariant on the instances of `roots`
before it was proved:

* **`RootsAgree`.** Each root is well formed (`GoodRoot`: updated lanes are pending;
  suspended and finished ones are pending unless entanglement brought in
  a transition that is not), a timer has a finished tree, a finished tree excludes
  a render of that root, and what is being rendered is pending, transitions
  apart. The exception is real: `entangledLanes` bring lanes into a render
  that have no update (see disagreement 1 for the other direction).
* **`StackInv`.** `RootsAgree` alone is not inductive: `commitRoot`
  clears a timer's tree only because no timer is set when it starts, and this
  depends on who called it. `Fits(roots, c, b)` says which calls may lie
  on which: a task starts on an empty stack; a render calls nothing; a commit
  lies on the end of a render or on nothing, with no timer; and a commit called by
  `performSyncWorkOnRoot` is of the Sync lane, unless the tree it was to commit is
  gone. Calls that wait keep fitting because of `RootsFrame`: below a
  running call, a step never sets a timer, and gives a root a finished tree only
  when that tree holds the Sync lane.
* **`EffectsInv`.** "Flush passive effects before deciding what to render" is an
  assertion about one call; what makes it true across re-entrance is that
  effects become pending under a call that has still to decide only in a Sync
  commit, which flushes them itself in its next step (`CommitOverUndecided`).
* **Effects as steps.** Each action is shown to have one of seven effects
  on one root, or none (`RootsStep`: reschedules, updates a lane, begins,
  finishes, abandons, commits, fires the timer). `RootsStepKeepsRoots` derives
  `RootsAgree'`, and `RootsStepIsServed` the step of `UpdateService`, from the
  effect alone; `Implementation` follows from it with `Invariance`.

Every action has a lemma (`...Step`) with one conclusion, `Preserves`;
`NextPreserves` assembles them.

### `RootSchedulerProofs`: the work of roots

| Theorem | Property |
|---|---|
| `SuspendedRendersWake` | `SuspendedLanesWake` |
| `WorkIsScheduled` | `RootIsScheduled` |
| `RecordedTasksExist` | `RecordedTaskIsLive` |

They hold with every fault and error the model has, for the roots that are not `wrecked`.

`SuspendedLanesWake` is not inductive: a root says
nothing of a render that is about to suspend. The invariant adds
`WaitingRenderWakes`, that a render whose exit status lets it end suspended has a
listener for all of its lanes or was pinged for all of them. Each action then either
leaves the stuck lanes of the roots and the listeners as they were, or shrinks the stuck lanes
(`UpdatedStuck`, `MarkRootPingedStuck`, `CommittedStuck`), or suspends lanes of the work
in progress, which the second part covers (`SuspendLanesStuck`). It uses `Invariance`
for the agreement of the lane sets.

`RootIsScheduled` and `RecordedTaskIsLive` are about the moments when no code is running,
and say nothing of the steps between them. Their invariant, `WorkInv`, is about every
state, and TLC checked it on the instances of `roots` before it was proved:

* `RootWork(r)`: the recorded callback agrees with the work of the root (`Settled`), or a
  call on the stack still owes it an `ensureRootIsScheduled` (`Owes`); the recorded task
  is in the Scheduler, or is the one being called (`Runs`); a root recorded at Sync
  priority is in the sync queue, or its entry has just been taken from it and its work is
  still to be committed (`Performs`).
* `OwnTasks`: no two roots record the same task, so that cancelling one leaves the other.
  It holds of wrecked roots too: a task that a wrecked root has forgotten is
  nobody's, and a new one is given an id that is free.
* `QueueIsFlushed`: a sync queue that is not empty has a `flushSyncCallbacks` on the stack,
  or a microtask or a task to come. An error out of `flushSyncCallbacks` leaves the rest of
  the queue to a task of its own (`flushTasks`).
* `Shape(stack)`: one `flushSyncCallbacks` at most, `performSyncWorkOnRoot` only under it, and
  a commit of the root of its caller; `CommitsHaveTrees`: a commit called by
  `performSyncWorkOnRoot` has a tree to commit.
* `CommitIsScheduled`: a commit whose layout effects are done, and which may now rethrow an
  error, has already left its root scheduled: no call below it holds the task or
  the queue entry. That is why `Throw` does not count the root of the commit as wrecked.

The stack is handled as a set of frames, a call with the call it lies on (`Frames`,
`PushFrames`, `PopFrames`), so that "some call will do it" is monotone in the stack
(`MoreCallsKeep`). A step that calls `ensureRootIsScheduled` restores `RootWork` by
`EnsureReschedules`, which rests on `SyncLaneComesFirst` (the next lanes include the Sync
lane when there is Sync work, whatever is in progress); a step that does not is shown
to hand on what the running call stops doing (`HandedOn`, `HeadOnly`, `ReturnedWork`). An
error hands nothing on (`ThrowDropsCalls`): each call it ends is one of a wrecked
root, or of one that the code rescheduled just before.

### `FiberTreeProofs`

| Theorem | Property |
|---|---|
| `TypeCorrectness` | `TypeOK` |
| `UpdatesAreNotLost` | `UpdatesReachRoot` |
| `BatchIsWhole` | `BatchIsRenderedWhole` |
| `ConsumersShowTheirProvider` | `ConsumersAgree` |

They hold for a tree of any size and shape, for any number of lanes and any set of
consumers. `UpdatesReachRoot` speaks of what is on screen, but a commit
replaces the screen by the finished tree; so `IInv` says of the render in
progress what the commit needs:

* `RenderShape`: the positions the render has reached are connected, and are finished
  from below;
* `LanesAreKept`: a work in progress has the lanes its own updates will leave
  (`Remaining`), and in `childLanes` those of all updates below it while it waits to be
  begun, and of what remains below it when it is done. This is where the
  recomputation of `childLanes` by `bubbleProperties` meets updates that arrive in
  the middle, which `markUpdateLaneFromFiberToRoot` writes on both fibers;
* `WorkIsReached`: a render goes down to every update of its lanes: none below a
  position that has been begun is without a work in progress on its path, and below
  one that is done all have been processed.

`BeginStep` says what all actions that begin a fiber have in common (its children
are cloned or skipped, skipped only without lanes to render, child lanes only grow);
`BeginPreserves` then needs one argument for a bailout, a render, a late bailout and
a provider that propagates.

`ConsumersShowTheirProvider` holds with any consumers below the provider. Its invariant `ContextInv` stands on `IInv` (`RenderShape` says that no consumer is begun
before its provider) and adds what the values in a work in progress are:

* `ValuesAreRead`: a fiber that waits to be begun has the value on screen, one that was
  begun has the provider's of this render;
* `ConsumersAreReached`: once the provider has another value, every consumer has the lanes
  of the render, and from every position between (`IsReachedFrom`) the render will go on to it
  or has been there. This is what `propagateContextChange` and
  `scheduleContextWorkOnParentPath` set up, on both fibers, and what no bailout, update
  or `bubbleProperties` on the way may undo;
* `RenderHasLanes`: a render in progress has lanes, without which marking a consumer with
  them would say nothing.

A consumer that bails out has so no other value to read (`BeginKeepsValuesRead`), and at the
commit a consumer that the render did not reach has a provider with the same value
(`CommitKeepsContext`).

### `UpdateQueueProofs`

| Theorem | Property |
|---|---|
| `QueueInvariance` | the inductive invariant `IInv` |
| `FinalState` | `FinalStateIsDeterministic` |
| `HookUpToDate` | `HookIsUpToDate` |
| `CallbacksCalledOnce` | `CallbacksAreCalledOnce` |

They hold for any lanes, any number of updates and both kinds of queue. The properties speak
of the fiber on screen, but a commit puts the one in progress in its place; so
`IInv` says of both that they are `Rebased`: the base queue is the end of the updates
that have come to it (`Done`), equal up to the lanes, and the base state is the `Result` of
those before. Of the fiber in progress the updates are those with the one that a boundary
captured, or that the component made while it rendered, at the place where the render
met it (`WithUpdate`). For hooks it needs two facts more: `EagersRight`, a state
computed early is what the updates up to there give; and `ScreenInv` and `WorkInv`, a
fiber without lanes shows the `Result` of all that was inserted, though updates wait whose
eager state changed nothing.

* `ProcessAllKeeps`: a pass of `processUpdateQueue` or `updateReducer` over a base queue that is
  `Rebased` ends with one that is, for any lanes to render. `RebasedAtFirst` and
  `KeptNext` are its step: the first update that is skipped fixes the base state, those
  after it are kept, and the others leave no trace in the queue.
* `ProcessQueueKeeps` (class) and `HookRenderKeeps` (hook) put the pass into the
  begin phase, `CommitClonedKeeps` moves what it left to the screen, with `WithUpdateConcat`
  for the update inserted in the middle.
* `CountInv` says which callbacks are still to be called: of the updates on screen, those whose
  effect was never shown; of the render in progress, those and the callbacks it
  has collected, without repetition. `ProcessAllSorts` is its fact about a pass: it divides
  the unshown updates into those of the callbacks and those it leaves in the queue. A
  restart forgets the callbacks with the queue they came from.

`Result` and `ProcessAll` are recursive functions on the length of a sequence. That they have the
values their definitions say is `StepwiseExists` (a function on `0..n` that takes a given
step), and what holds of each prefix is proved with `UpToFrom`, induction over a set of
numbers, as for the heap.

### `HookProofs`: effects

| Theorem | Property |
|---|---|
| `EffectsTakeTurns` | `EffectsAlternate` |
| `EffectsFollowScreen` | `EffectsMatchScreen` |

Whether a destroy function is called twice depends on where it is kept: in the effect object
of the hook, which a render replaces, and in that of the update queue, from which the
commit calls it. `EffectsIInv` says of each effect that is on screen, of what a render has
made of it, and of what passive effects still to be flushed will find in it,
whether its destroy is that of the create that is on. `HooksAgree` is what is left of the
agreement of hooks and queue after `bailoutHooks` has put the old queue back
(disagreement 5): both have the same destroys and dependencies, unless a render
flagged the fiber, when they are the same objects.

### `HookProofs`: external stores

| Theorem | Property |
|---|---|
| `NobodyStaysStale` | `StaleIsRepaired` |
| `NothingTears` | `NoTearing` (an action property) |

They hold for any components, any store and any getSnapshot functions, which may
return the same value for different states. `StaleIsRepaired` speaks only of states in which
nothing is pending; `StoreIInv` says of every state who will find out:

* `MountedFollow`: a mounted component listens to the store, or an effect is to subscribe it;
  and `Follows` holds of it, or an effect is to compare it. `Follows` is what makes a
  listener's answer right: `hook.queue` holds what the component shows (or
  `handleStoreChange` would compare with something else), and the component shows the present
  state or has a Sync update.
* `StoreRenderInv`: each outcome of a render is `Sound`: one that leaves no effect to
  compare has changed neither getSnapshot nor the snapshot, one that leaves none to
  subscribe is of a mounted component. `StoreCommitPreserves` uses it for every commit,
  synchronous, at once or delayed.
* `StorePassiveInv`: effects unsubscribe only those that are deleted or that
  they subscribe again, and no render is in progress before they are flushed.

`NothingTears` needs the same invariant: `isRenderConsistentWithExternalStores` looks only
at components that were rendered and changed, so that for the others it is
`Follows`, with no Sync update pending, that says they show the present state.

### `SchedulerProofs`: the heap

`HeapIsQueue`: `HeapImplementsQueue`, for any number of nodes with any ids and keys. The loops
of `siftUp` and `siftDown` are recursive functions on the heap and the index of the
node they move (`Positions`). What a loop computes is shown without induction over
formulas, which the provers cannot instantiate: `LoopRuns` says that a loop whose measure
decreases has a run, and `LoopKeeps` that what each turn keeps holds at the end; states,
turns and measure are sets and functions, not operators. The induction itself is about
sets of numbers (`InductiveSet`), from the well-foundedness of `<`.

* The loop of `siftUp` keeps the nodes, and the order of the heap but between the node and its
  parent (`StepUp`); that of `siftDown` but between the node and its children (`StepDown`).
  Both keep in mind that the parent of the node is in order with its children.
* `FirstIsSmallest`: in an ordered heap the first node comes before every other: a node
  that does not has a parent that does not either, and indexes have a least one.
* `PushKeepsOrder` and `PopKeepsOrder` put these together, with ids that are distinct
  (`HeapInv`), so that a node is pushed and popped once.

### `HookProofs`: events that wait for hydration

| Theorem | Property |
|---|---|
| `NothingIsBlockedForever` | `BlockedIsRetried` |

It holds for any boundaries, nested in any way. The invariant is `BlockedIsRetried` with the type
of the queues. Its core is `FindBlockingFinds`: what blocks an event is the outermost dehydrated boundary
on its path, which exists because a set of numbers has a least one (`LeastPlace`, from
the well-foundedness of the order); and `AdvancedWait`: `retryIfBlockedOn` goes on with the queue
of explicit targets up to the first that is blocked, and records what blocks it now.

### `HookProofs`: the resource cache

| Theorem | Property |
|---|---|
| `CacheInvariance` | the inductive invariant `CacheIInv` |
| `CacheImplementation` | `CacheImplementsRecency`: `ResourceCache` implements `RecencyService` |

They hold for any resources and keys, and for any limits, negative ones too. The code has the
order in which inputs were read only in the links of its entries; so the invariant names
it: for some sequence `q` of inputs without repetition, `IsCache` says that the entries of
`q` are linked into a ring, forwards and backwards (`Ring`), that `first` and `size` are its
head and length, and that the maps of the resources hold its inputs and no other.

* `RecencyIs`: who walks the ring `size` times from `first` reads `q`, so that the refinement
  mapping, which walks it, is `q` in every state of the invariant.
* `Unlinked` and `Appended` are about the links: taking an entry out of a ring, and
  appending one to its head, make the ring of the shorter and of the longer sequence.
  `FetchKeeps` and `AccessKeeps` put them together; an access that did not unlink its entry
  first would leave links that are no ring.
* `TurnDeletes`: a turn of the loop of `deleteLeastRecentlyUsedEntries` makes of the
  ring of `q` that of `q` without its last entry, and of the variable `last` the end of what
  is left, or ends at the target size. `LoopKeeps` adds the turns up, by induction over a
  set of numbers (`UpToFrom`), and `CleanUpForgets` compares with the prefix that the
  abstract cache keeps.

### `ChildReconcilerProofs`

| Theorem | Property |
|---|---|
| `ChildrenInvariant` | the invariant `ChildrenInv` |
| `InstancesFollow` | `InstancesFollowKeys` |
| `HostNodesFollow` | `HostNodesFollowElements` |

They hold for any number of children, keys and host types, any elements with unique keys,
and children that move in groups that move themselves. The invariant is small: the children
on screen are well formed (`Shown`), the host has the nodes of their tree (`Tree`), and what
is finished is the `Rendering` of an input. The work is in its two steps; TLC checked
what they come to on the instance of `components` before it was proved.

A render is followed slot by slot. Each of four things a slot may do (`SkipsSlot`,
`CreatesChild`, `ReplacesChild`, `ReusesChild`, shown of both loops by `UpdateSlotDoes`)
keeps what `ReconcilesTo` says of the slots so far:

* `OldsAreAccounted`: each old child is still to be matched, or was used once, or is
  deleted once; and one that is gone is not one that a later slot continues
  (`GoneAreOthers`), because keys are unique and indexes grow. From this a new instance is
  created only where no old child could go on, though the first loop looks only
  at the next old child and the map only at those it left.
* `OrderSoFar`: the children that are not to be placed are in the order they had, and
  none was behind `lastPlacedIndex`.

A commit is followed child by child (`UnderWay`), from what the deletions of the parent leave
(`StartTracks`). `Tracks` says how far the host is: it has the nodes of the finished
tree that were there before and are not to be placed, those of a group that is still to move
included (`Present`); those which are in no such group are in the order of the tree
(`Settled`); all else is of children that are still to be deleted. The host need not be in
order in between: a child that moves inside a group which moves later is put before a node
that is itself in the wrong place.

* `FollowersAre`: the node that `getHostSibling` finds is present, does not move with the
  child, and is settled unless both are in one group that is still to move. Without its
  test of the placement flag it could be a node that is not in the host.
* `MoveKeeps`: moving the nodes of a child before that node, or to the end, makes them
  settled and leaves the others in their order; that no settled node is between is the
  choice of the *first* node to follow.
* `CommitEnds`: when all flags are clear every node is present and settled, so that the host is the tree
  (`SameTree`), a sequence being given by its elements and their order.
* `RenderedIsReady`, `RenderedIsApart`: no two nodes have the same name, in whatever
  generation they were created, and none in use is deleted.

`Without`, `FlattenSeq` and the loops are recursive functions and folds; what they compute
is shown by `WithoutPicks`, `FlattenIs` and `StepwiseExists`, with induction over a set of
numbers (`UpToFrom`). A list of paths in the order of the tree is determined by its set (`SameList`).

### `FizzProofs`

| Theorem | Property |
|---|---|
| `FizzInvariant` | the inductive invariant `FizzInv` |
| `NeverStalls` | `NothingStalls` |

They hold for any page: any components and boundaries, nested in any way in contents and
fallbacks, that suspend and throw in any order, with pings, aborts and a destination that
stops and goes on. `NothingStalls` speaks of a request between two jobs; the invariant says
of every state of the stack how it will come to that. The stack is seen from its
bottom (`Calls`), where a step changes nothing.

* `ShapeInv`, `RenderInv`: a flush runs on its own; renders are nested in the retry of one
  task, each in the content of a boundary of its own; aborts are nested in one `abort`.
* `PingInv`: a task that is left is suspended, is in `pingedTasks` at or after the place where
  `performWork` is, or is being rendered. `PingTask` calls `scheduleWork` only if it finds
  `pingedTasks` empty; what makes this right is that a list which is not empty has a call
  scheduled, or is being worked on by a loop that reads its length anew.
* `CountInv`: `allPendingTasks` is the number of tasks that are pending and of those that
  ended and are on the stack to be counted. It is a number only because no task ends
  twice: `AbortInv` says that what is in the abort set of the request, in the fallback tasks
  of a boundary, or on the stack to be aborted, is pending, once, and in one of them only. A
  boundary that completes in a render aborts its fallback tasks softly, while an `abort` takes
  them from the boundary first.
* `OpenedInv`: no task is created twice. Some set R holds the segments whose body was opened;
  what is still to be rendered is not in a body opened before, and what has a task, a segment
  or a boundary is only in bodies that were. Each component and boundary being in one place
  of the page, none is met again. R is no variable of the model: each step shows the next one.
* `PlaceInv`, `DoneInv`: a flush that comes to its end has emptied the queues it went
  through, so that the flush after the last task was counted ends the stream. Who schedules that
  flush is `DoneInv`.
* `NamesInv` and `FizzTypes`: what is created together, and that tables refer to what exists.
  The recursions (`Reached`, `QueueCompleted`) are recursive functions on the segments; the proof
  needs only that they stay inside the table, and that a flush makes no pending segment
  anything else, nor any other pending (`FlushSegment`, `FlushEach`).

### `FlightProofs`

| Theorem | Property |
|---|---|
| `FlightInvariance` | the inductive invariant `IInv` |
| `ClosesInTime` | `ClosesWhenAllIsSent` |
| `NoReaderSleeps` | `WaitersAreServed` |

They hold for any programs whose models end, any number of rows, and any order of
suspensions, errors, pings, flushes that stop half-way, rows and reads. `NoReaderSleeps`
assumes that no program passes a symbol; `flight_symbols` shows what happens otherwise
(disagreement 7). TLC checked the invariant on the instance of `components`
before it was proved.

* `CountInv`: `pendingChunks` is the number of segments that wait, were pinged or are still
  to be retried, and of rows in the three queues. `WorkInv` is what makes a number of it:
  a segment is in one of these places, once, and while a job runs no segment is
  pinged (`ServerIdle`: the server is one thread).
* `ServedInv`: whatever the client has met, or a row or `written` refers to, is a segment or
  row still to come, or a chunk that is settled. It makes of `WaitersAreServed`, which is
  about readers that wait, a statement about ids, which every step hands on.
* `OrderInv`: the row of a provider, for which `resolveProvider` makes a chunk whoever waits for
  the old one, comes before every row that mentions it, in the queue, in the stream and
  before the client: it is written into the queue of models before the model it is in, and
  that queue is sent in order. That is what symbols lack: they are in another queue.
* `ListenInv`: who waits is among the listeners of a pending chunk. `ProcessFullRowListens`
  needs `OrderInv` for the rows that replace a chunk.

On the server, `Renders(a, b, id)` says what the rendering of a segment makes of a request,
whatever its model: new ids only, a row for each or a segment, one row for the segment
itself, references only to those and to what was known. `ResolvedMade` proves it for the whole
loop from one turn (`ItemStep`), by induction over a set of numbers (`UpToFrom`). `Cut` and
`Writes` say what a flush moves from the queues to the stream (`FlushKeeps`), and
`ClientStep` what all steps of the client leave to be shown.

## 6. What is only model-checked

* Liveness (`NoStarvation`, `WindsDown`, `EveryUpdateIsCommitted`): fairness and
  ENABLED are outside of what the prover can do.
* `RevealedIsWhole` and `BoundariesAreResolvedOnce` of `Fizz`. The first is about what the
  recursion of a flush reaches below a segment, for every tree of segments: induction over
  data. The second needs the queues of the request as well, in which a boundary may be
  when it is put into client rendered mode (disagreement 6); no attempt was made.
* `ShownStays` of `UpdateQueue`: it speaks of what a state contains when some updates
  were skipped, where `IInv` says only what all of them will give.
* What becomes of a wrecked root: `ExistingTaskIsReused` is false (disagreement 2), and after
  a render that ends with an exit status that is not known nothing is scheduled
  (disagreement 3).
* The seven disagreements: they are counterexamples.

## 7. What is not modelled, and why

* Legacy roots, `batchedUpdates` for them, hydration of roots and boundaries,
  mutable sources: other modes of the same functions. Each multiplies the
  actions of `RootScheduler`; concurrent roots are the default of
  `createRoot`.
* `act` and its queue, the nested-update limit, transition tracing,
  profiling: development aids, disabled or counters.
* `unstable_runWithPriority`, `unstable_next`, `unstable_wrapCallback`: they set
  `currentPriorityLevel` around a call; the model chooses the priority of each call
  freely.
* `claimNextTransitionLane`, `claimNextRetryLane`: lanes are chosen freely among the
  lanes of their kind. Idle lanes may be given in `Lanes`, but no run has one.
* The composition of `FiberTree`, `UpdateQueue` and `RootScheduler`: in `RootScheduler`
  the tree is its effect on the root, in the others the root is a choice of lanes to
  render and of when to drop or commit. Together their state spaces multiply.
* `UpdateQueue`: updates made inside an updater function (a warning), `forceUpdate` and
  `replaceState` as such, unsafe class updates in the render phase.
* `FiberTree`: trees that change shape, several providers of one context, class consumers,
  the lazy propagation that a flag turns off; Suspense and Offscreen with their own lanes.
* Refs, memos, ids, deferred values, `useTransition`, class life cycles,
  updates of host attributes, errors thrown by effects: data of a component, or errors
  that `RootScheduler` has as updates.
* `RootScheduler`: an unsafe class update made while its own root renders, which the render
  takes in at once. A `RenderPhaseUpdate` is interleaved, as every update of a hook and of
  another component's class is, and its lane stays.
* `ChildReconciler`: iterators and lazy elements (the same algorithm behind a
  conversion), duplicate keys (which React warns about).
* `Fizz`: elements, contexts, hooks and formats are data; `abort` called from inside a
  component; a destination that is destroyed.
* `Flight`: contexts and hooks of server components, fatal errors, the splitting of rows into
  network chunks and the loading of modules, with a module that throws when it is required.
  Components of which each is all that the one above renders share a segment in the code;
  in the model they are one component.
* `EventReplay`: the collection of listeners and their calls, and the replay of discrete
  events, which the flag `enableCapturePhaseSelectiveHydrationWithoutDiscreteEventReplay`
  turns off; handlers that commit in the middle of a replay.
* `ResourceCache`: a fetch that reads its own input again, and `update`, which nothing calls.
* DOM host code, DevTools, the ESLint plugin, build scripts, other renderers, the
  demonstration app and the author's notes: host glue, tools and examples.

## 8. Plan

What is left, in this order.

Proofs:

1. `UpdateQueue`: `ShownStays`, with an invariant about the updates each state contains.
2. `Fizz`: `BoundariesAreResolvedOnce`, on top of `FizzInv`: which queue a boundary that is
   shown as loading is in, and that the request and the client agree on it.

Models:

1. Hydration of roots and boundaries, which would join `EventReplay`, `FiberTree` and
   the hydration lanes of `FiberLane`.
2. Class life cycles and refs in the commit, beside `HookEffects`.
3. A limit of nested updates as a constant of `RootScheduler`: the 50 of the code is
   far beyond what can be explored, so that it would have to be shown to matter only as
   a limit.
