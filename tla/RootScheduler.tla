---------------------------- MODULE RootScheduler ----------------------------
(***************************************************************************)
(* How React schedules, renders and commits the work of its roots:         *)
(* react-reconciler/src/ReactFiberWorkLoop.old.js, with                    *)
(* ReactFiberSyncTaskQueue.old.js and attachPingListener of                *)
(* ReactFiberThrow.old.js, for concurrent roots that are not hydrating.    *)
(*                                                                         *)
(* JavaScript runs one job at a time, on one stack, but a job is not       *)
(* atomic: a render yields, and effects call back into the scheduler.      *)
(* `stack` holds the calls of this file in progress, the innermost first;  *)
(* jobs start when it is empty.  Rendering itself, the fiber tree, is      *)
(* abstracted to the events that reach the root: a component suspends,     *)
(* throws or updates, and the tree completes or not.                       *)
(***************************************************************************)
EXTENDS FiberLane, Sequences, FiniteSets

CONSTANTS
  Root,            \* the FiberRoots
  NoRoot,          \* null
  UpdateLanes,     \* lanes that updates are given by requestUpdateLane
  MaxEvents,       \* bound: updates, suspensions, errors and store changes
  MaxNodes,        \* bound: Scheduler tasks that exist at the same time
  RenderFaults,    \* what may go wrong in a render, a subset of AllFaults
  UncaughtErrors,  \* whether a commit may rethrow an error of a component
  LanesExpire      \* whether time passes expiration times

AllFaults == {"suspend", "suspendInShell", "error", "fatal", "store"}

ASSUME RootSchedulerAssumption ==
  /\ NoRoot \notin Root
  /\ UpdateLanes \subseteq Lanes
  /\ MaxEvents \in Nat
  /\ MaxNodes \in Nat
  /\ RenderFaults \subseteq AllFaults
  /\ {UncaughtErrors, LanesExpire} \subseteq BOOLEAN

NodeId == 1..MaxNodes
NoNode == 0           \* callbackNode === null

VARIABLES
  roots,          \* the FiberRoots
  wip,            \* the workInProgressRoot* variables
  stack,          \* calls in progress
  pendingPassive, \* rootWithPendingPassiveEffects
  syncQueue,      \* roots whose performSyncWorkOnRoot is still to be called
  \* the host
  tasks,          \* Scheduler tasks of performConcurrentWorkOnRoot
  flushTasks,     \* Scheduler tasks of flushSyncCallbacks
  passiveTasks,   \* Scheduler tasks of flushPassiveEffects
  microtasks,     \* queued microtasks of flushSyncCallbacks
  listeners,      \* ping listeners attached to promises
  retries,        \* roots with a retry attached to a promise
  spent,          \* events so far
  wrecked         \* history: roots that an error has left without what they recorded

hostVars == <<flushTasks, passiveTasks, microtasks, listeners, retries, wrecked>>
vars == <<roots, wip, stack, pendingPassive, syncQueue, tasks, hostVars, spent>>

\* updatedLanes: the lanes of updates enqueued since the last
\* prepareFreshStack, which the finished tree still has as remaining lanes.
\* errorLanes: SyncLane, when an error of an effect may be among its updates.
NewRoot ==
  [pendingLanes |-> {}, suspendedLanes |-> {}, pingedLanes |-> {},
   expiredLanes |-> {}, timedLanes |-> {}, entangledLanes |-> {},
   entanglements |-> [l \in Lanes |-> {}],
   callbackNode |-> NoNode, callbackPriority |-> NoLane,
   finishedLanes |-> {}, timeoutHandle |-> FALSE,
   updatedLanes |-> {}, showsFallback |-> FALSE, errorLanes |-> {}]

NoWork ==
  [root |-> NoRoot, lanes |-> {}, exit |-> "InProgress", interleaved |-> {},
   pinged |-> {}, unwinds |-> FALSE, fallback |-> FALSE]

FreshWork(r, lanes) == [NoWork EXCEPT !.root = r, !.lanes = lanes]

\* One call: `at` is where it stands, `node` the originalCallbackNode, `task`
\* the Scheduler task that runs it, `fails` whether its commit rethrows.
Call(function, r) ==
  [function |-> function, at |-> "start", root |-> r, node |-> NoNode,
   task |-> NoNode, lanes |-> {}, sliced |-> FALSE, attempt |-> "first",
   fails |-> FALSE]

Init ==
  /\ roots = [r \in Root |-> NewRoot]
  /\ wip = NoWork
  /\ stack = <<>>
  /\ pendingPassive = NoRoot
  /\ syncQueue = <<>>
  /\ tasks = {}
  /\ flushTasks = 0
  /\ passiveTasks = 0
  /\ microtasks = 0
  /\ listeners = {}
  /\ retries = {}
  /\ spent = 0
  /\ wrecked = {}

-----------------------------------------------------------------------------
(* Scheduling *)

WipLanes(work, r) == IF work.root = r THEN work.lanes ELSE {}

FreeNode(n) ==
  LET used == {t.node : t \in tasks}
                \cup {roots[r].callbackNode : r \in Root}
                \cup UNION {{stack[i].node, stack[i].task} : i \in DOMAIN stack}
  IN  n \notin used /\ \A m \in 1..(n - 1) : m \in used

\* ensureRootIsScheduled(r), the root being `root` and the work in progress
\* `work`; `entangled` are lanes the caller entangles afterwards.
EnsureRootIsScheduled(r, root, work, entangled) ==
  \E due \in IF LanesExpire THEN {{}, MayBeDue(root)} ELSE {{}} :
    LET marked == MarkStarvedLanesAsExpired(root, due)
        nextLanes == GetNextLanes(marked, WipLanes(work, r))
        priority == HighestPriorityLane(nextLanes)
        others == {t \in tasks : t.node # root.callbackNode}
        Record(node) ==
          roots' = [roots EXCEPT ![r] =
                      MarkRootEntangled([marked EXCEPT !.callbackNode = node,
                                                       !.callbackPriority = priority],
                                        entangled)]
    IN  \/ /\ nextLanes = {}
           /\ Record(NoNode)
           /\ tasks' = others
           /\ UNCHANGED <<syncQueue, microtasks>>
        \/ /\ nextLanes # {}
           /\ priority = root.callbackPriority
           /\ Record(root.callbackNode)
           /\ UNCHANGED <<tasks, syncQueue, microtasks>>
        \/ /\ nextLanes # {}
           /\ priority # root.callbackPriority
           /\ priority = SyncLane
           /\ Record(NoNode)
           /\ tasks' = others
           /\ syncQueue' = Append(syncQueue, r)
           /\ microtasks' = microtasks + 1
        \/ /\ nextLanes # {}
           /\ priority # root.callbackPriority
           /\ priority # SyncLane
           /\ \E node \in NodeId :
                /\ FreeNode(node)
                /\ Record(node)
                /\ tasks' = others \cup {[node |-> node, root |-> r]}
           /\ UNCHANGED <<syncQueue, microtasks>>

\* The local markRootSuspended(root, lanes) of the work loop.
SuspendLanes(root, work, lanes) ==
  MarkRootSuspended(root, lanes \ (work.pinged \cup work.interleaved))

\* Mutant: the timer of a delayed commit is not cancelled.
PrepareFreshStackKeepsTimer(root) ==
  [root EXCEPT !.finishedLanes = {}, !.updatedLanes = {}, !.showsFallback = FALSE]

PrepareFreshStack(root) ==
  [root EXCEPT !.finishedLanes = {}, !.timeoutHandle = FALSE,
               !.updatedLanes = {}, !.showsFallback = FALSE]

\* captureCommitPhaseError: a Sync update that an effect of the root makes may be
\* the error that it threw.
MayCaptureError(r, lane) ==
  /\ lane = SyncLane
  /\ stack # <<>>
  /\ Head(stack).root = r
  /\ <<Head(stack).function, Head(stack).at>> \in
       {<<"commitRoot", "layout">>, <<"flushPassiveEffects", "start">>}

\* enqueueConcurrentUpdate marks the lane on the fibers, markRootUpdated on
\* the root.
Updated(r, lane) ==
  [MarkRootUpdated(roots[r], lane) EXCEPT
     !.updatedLanes = @ \cup {lane},
     !.errorLanes = IF MayCaptureError(r, lane) THEN @ \cup {lane} ELSE @]

Spend == spent < MaxEvents /\ spent' = spent + 1

\* scheduleUpdateOnFiber(root, fiber, lane) outside of a render, followed by
\* entangleTransitionUpdate when the queue holds transitions already.
ScheduleUpdateOnFiber(r, lane) ==
  LET work == IF wip.root = r THEN [wip EXCEPT !.interleaved = @ \cup {lane}]
                              ELSE wip
      root == IF wip.root = r /\ wip.exit = "SuspendedWithDelay"
              THEN SuspendLanes(Updated(r, lane), work, wip.lanes)
              ELSE Updated(r, lane)
  IN  /\ Spend
      /\ wip' = work
      /\ \E queued \in SUBSET (root.pendingLanes \cap TransitionLanes) :
           EnsureRootIsScheduled(r, root, work,
             IF lane \in TransitionLanes THEN queued \cup {lane} ELSE {})

-----------------------------------------------------------------------------
(* The stack *)

Idle == stack = <<>>
Running(function, at) ==
  /\ ~Idle
  /\ Head(stack).function = function
  /\ Head(stack).at = at

\* The running call goes on as `call`, or returns.
Continue(call) == stack' = <<call>> \o Tail(stack)
Return == stack' = Tail(stack)

IsFlushingSyncQueue == \E i \in DOMAIN stack : stack[i].function = "flushSyncCallbacks"

\* Pushes what the running call, which goes on as the calls `below`, calls.
CallFlushSyncCallbacks(below) ==
  stack' = IF IsFlushingSyncQueue \/ syncQueue = <<>> THEN below
           ELSE <<Call("flushSyncCallbacks", NoRoot)>> \o below

\* An error that nothing catches ends the job; flushSyncCallbacks resumes in
\* a task of its own.  Roots whose calls end in the middle are wrecked; those in
\* `done` were scheduled before.
Throw(done) ==
  /\ stack' = <<>>
  /\ wrecked' = wrecked \cup ({stack[i].root : i \in DOMAIN stack} \ (done \cup {NoRoot}))
  /\ flushTasks' = IF IsFlushingSyncQueue THEN flushTasks + 1 ELSE flushTasks

\* flushPassiveEffects() from the running call, which goes on as `call`
CallFlushPassiveEffects(call, rest) ==
  IF pendingPassive = NoRoot
  THEN /\ stack' = <<call>> \o rest
       /\ UNCHANGED pendingPassive
  ELSE /\ stack' = <<Call("flushPassiveEffects", pendingPassive), call>> \o rest
       /\ pendingPassive' = NoRoot

-----------------------------------------------------------------------------
(* Jobs *)

\* An event handler calls setState.
Update(r, lane) ==
  /\ Idle
  /\ lane \in UpdateLanes
  /\ ScheduleUpdateOnFiber(r, lane)
  /\ UNCHANGED <<stack, pendingPassive, flushTasks, wrecked, passiveTasks, listeners, retries>>

\* flushSync() at the end of an event handler
FlushSync ==
  /\ Idle
  /\ syncQueue # <<>>
  /\ CallFlushSyncCallbacks(<<>>)
  /\ UNCHANGED <<roots, wip, pendingPassive, syncQueue, tasks, hostVars, spent>>

\* Mutant: a microtask runs that nobody queued.
MicrotaskUnqueued ==
  /\ Idle
  /\ microtasks' = microtasks - 1
  /\ CallFlushSyncCallbacks(<<>>)
  /\ UNCHANGED <<roots, wip, pendingPassive, syncQueue, tasks, flushTasks, wrecked,
                 passiveTasks, listeners, retries, spent>>

Microtask ==
  /\ Idle
  /\ microtasks > 0
  /\ microtasks' = microtasks - 1
  /\ CallFlushSyncCallbacks(<<>>)
  /\ UNCHANGED <<roots, wip, pendingPassive, syncQueue, tasks, flushTasks, wrecked,
                 passiveTasks, listeners, retries, spent>>

\* Tasks and timers wait for the microtasks.
MacrotaskMayRun == Idle /\ microtasks = 0

\* performConcurrentWorkOnRoot is called by the Scheduler.
RunTask(t) ==
  /\ MacrotaskMayRun
  /\ tasks' = tasks \ {t}
  /\ CallFlushPassiveEffects(
       [Call("performConcurrentWorkOnRoot", t.root) EXCEPT
          !.node = roots[t.root].callbackNode, !.task = t.node], <<>>)
  /\ UNCHANGED <<roots, wip, syncQueue, hostVars, spent>>

RunFlushTask ==
  /\ MacrotaskMayRun
  /\ flushTasks > 0
  /\ flushTasks' = flushTasks - 1
  /\ CallFlushSyncCallbacks(<<>>)
  /\ UNCHANGED <<roots, wip, pendingPassive, syncQueue, tasks, passiveTasks,
                 microtasks, listeners, retries, spent, wrecked>>

RunPassiveTask ==
  /\ MacrotaskMayRun
  /\ passiveTasks > 0
  /\ passiveTasks' = passiveTasks - 1
  /\ pendingPassive' = NoRoot
  /\ stack' = IF pendingPassive = NoRoot THEN <<>>
              ELSE <<Call("flushPassiveEffects", pendingPassive)>>
  /\ UNCHANGED <<roots, wip, syncQueue, tasks, flushTasks, wrecked, microtasks,
                 listeners, retries, spent>>

\* The timer of finishConcurrentRender calls commitRoot.
RunCommitTimer(r) ==
  /\ MacrotaskMayRun
  /\ roots[r].timeoutHandle
  /\ roots' = [roots EXCEPT ![r].timeoutHandle = FALSE]
  /\ stack' = <<Call("commitRoot", r)>>
  /\ UNCHANGED <<wip, pendingPassive, syncQueue, tasks, hostVars, spent>>

\* pingSuspendedRoot: a promise that a render of l.lanes waits for settles.
PingSuspendedRoot(l) ==
  LET r == l.root
      root == MarkRootPinged(roots[r], l.lanes)
      rendering == wip.root = r /\ l.lanes \subseteq wip.lanes
  IN  /\ Idle
      /\ listeners' = listeners \ {l}
      /\ \/ /\ rendering
            /\ \/ wip.exit = "SuspendedWithDelay"
               \/ wip.exit = "Suspended" /\ IncludesOnlyRetries(wip.lanes)
            /\ wip' = FreshWork(r, {})
            /\ EnsureRootIsScheduled(r, PrepareFreshStack(root), FreshWork(r, {}), {})
         \/ /\ rendering
            /\ wip.exit # "SuspendedWithDelay"
            /\ wip' = [wip EXCEPT !.pinged = @ \cup l.lanes]
            /\ EnsureRootIsScheduled(r, root, wip, {})
         \/ /\ ~rendering
            /\ EnsureRootIsScheduled(r, root, wip, {})
            /\ UNCHANGED wip
      /\ UNCHANGED <<stack, pendingPassive, flushTasks, wrecked, passiveTasks, retries, spent>>

\* retryTimedOutBoundary: a promise that a committed fallback waits for settles.
RetryTimedOutBoundary(r, lane) ==
  /\ Idle
  /\ r \in retries
  /\ lane \in Lanes \cap RetryLanes
  /\ retries' = retries \ {r}
  /\ EnsureRootIsScheduled(r, Updated(r, lane), wip, {})
  /\ UNCHANGED <<wip, stack, pendingPassive, flushTasks, wrecked, passiveTasks,
                 listeners, spent>>

-----------------------------------------------------------------------------
(* Rendering *)

\* Goes on to render `lanes` of r: the work in progress is resumed if it is
\* the same, and thrown away otherwise.
StartRender(call, lanes) ==
  /\ Continue([call EXCEPT !.at = "rendering", !.lanes = lanes])
  /\ IF wip.root = call.root /\ wip.lanes = lanes
     THEN UNCHANGED <<wip, roots>>
     ELSE /\ wip' = FreshWork(call.root, lanes)
          /\ roots' = [roots EXCEPT ![call.root] = PrepareFreshStack(@)]

\* performConcurrentWorkOnRoot after flushPassiveEffects().
PerformConcurrentWork ==
  LET call == Head(stack)
      root == roots[call.root]
      lanes == GetNextLanes(root, WipLanes(wip, call.root))
  IN  /\ Running("performConcurrentWorkOnRoot", "start")
      /\ IF root.callbackNode # call.node \/ lanes = {}
         THEN Return /\ UNCHANGED <<wip, roots>>
         ELSE \E didTimeout \in BOOLEAN :
                StartRender([call EXCEPT !.sliced =
                               /\ ~IncludesBlockingLane(lanes)
                               /\ ~IncludesExpiredLane(root, lanes)
                               /\ ~didTimeout], lanes)
      /\ UNCHANGED <<pendingPassive, syncQueue, tasks, hostVars, spent>>

\* performSyncWorkOnRoot after flushPassiveEffects().
PerformSyncWork ==
  LET call == Head(stack)
      lanes == GetNextLanes(roots[call.root], {})
  IN  /\ Running("performSyncWorkOnRoot", "start")
      /\ IF SyncLane \in lanes
         THEN StartRender(call, lanes) /\ UNCHANGED <<tasks, syncQueue, microtasks>>
         ELSE /\ Return
              /\ EnsureRootIsScheduled(call.root, roots[call.root], wip, {})
              /\ UNCHANGED wip
      /\ UNCHANGED <<pendingPassive, flushTasks, wrecked, passiveTasks, listeners,
                     retries, spent>>

Rendering == ~Idle /\ Head(stack).at = "rendering"

\* A component updates while it renders, itself or another, of any root:
\* requestUpdateLane returns a lane that is being rendered.  The update is interleaved,
\* so that this render leaves it (an unsafe one of a class component is not modelled).
RenderPhaseUpdate(r) ==
  LET lane == HighestPriorityLane(wip.lanes)
  IN  /\ Rendering
      /\ Spend
      /\ IF r = wip.root
         THEN /\ roots' = [roots EXCEPT ![r] = Updated(r, lane)]
              /\ UNCHANGED <<tasks, syncQueue, microtasks>>
         ELSE EnsureRootIsScheduled(r, Updated(r, lane), wip, {})
      /\ UNCHANGED <<wip, stack, pendingPassive, flushTasks, wrecked, passiveTasks,
                     listeners, retries>>

\* Mutant: the ping cache is shared by the roots.
AttachSharedPingListener(r, lanes) ==
  IF \E l \in listeners : l.lanes = lanes THEN listeners
  ELSE listeners \cup {[root |-> r, lanes |-> lanes]}

\* attachPingListener(root, wakeable, lanes): one listener for each promise and
\* set of lanes; the promises that a set of lanes waits for are taken as one.
AttachPingListener(r, lanes) == listeners \cup {[root |-> r, lanes |-> lanes]}

\* attachPingListener, and renderDidSuspendDelayIfPossible when `delay`.
Suspend(delay, unwinds) ==
  LET r == wip.root
      skipped == roots[r].pendingLanes \ wip.lanes
      exit == IF delay /\ wip.exit \in {"InProgress", "Suspended", "Errored"}
              THEN "SuspendedWithDelay"
              ELSE IF ~delay /\ wip.exit = "InProgress" THEN "Suspended"
              ELSE wip.exit
  IN  /\ Rendering
      /\ Spend
      /\ listeners' = AttachPingListener(r, wip.lanes)
      /\ wip' = [wip EXCEPT !.exit = exit,
                            !.unwinds = @ \/ unwinds,
                            !.fallback = @ \/ ~unwinds]
      /\ \/ /\ delay
            /\ IncludesNonIdleWork(skipped \cup wip.interleaved)
            /\ roots' = [roots EXCEPT ![r] = SuspendLanes(@, wip, wip.lanes)]
         \/ /\ ~(delay /\ IncludesNonIdleWork(wip.interleaved))
            /\ UNCHANGED roots
      /\ UNCHANGED <<stack, pendingPassive, syncQueue, tasks, flushTasks, wrecked,
                     passiveTasks, microtasks, retries>>

\* A component suspends inside a Suspense boundary.
ComponentSuspends == "suspend" \in RenderFaults /\ \E delay \in BOOLEAN : Suspend(delay, FALSE)

\* A component suspends outside of all boundaries: the render unwinds.
ShellSuspends ==
  /\ "suspendInShell" \in RenderFaults
  /\ SyncLane \notin wip.lanes
  /\ Suspend(TRUE, TRUE)

\* renderDidError; once the commit is to be delayed an error changes nothing.
ComponentThrows ==
  /\ Rendering
  /\ "error" \in RenderFaults
  /\ Spend
  /\ wip.exit \in {"InProgress", "Suspended"}
  /\ wip' = [wip EXCEPT !.exit = "Errored"]
  /\ UNCHANGED <<roots, stack, pendingPassive, syncQueue, tasks, hostVars>>

-----------------------------------------------------------------------------
(* The end of a render *)

\* The slice is over: performConcurrentWorkOnRoot goes on to its end.
RenderYields ==
  /\ Rendering
  /\ Head(stack).sliced
  /\ Continue([Head(stack) EXCEPT !.at = "end"])
  /\ UNCHANGED <<roots, wip, pendingPassive, syncQueue, tasks, hostVars, spent>>

\* The exit statuses the render may end with.
ExitStatuses ==
  {CASE wip.unwinds -> "DidNotComplete"
     [] ~wip.unwinds /\ wip.exit = "InProgress" -> "Completed"
     [] ~wip.unwinds /\ wip.exit # "InProgress" -> wip.exit}
  \cup (IF "fatal" \in RenderFaults THEN {"FatalErrored"} ELSE {})

\* Renders again, synchronously: after an error with all lanes there are, or
\* after a store changed with the same.
RenderAgain(attempt, lanes) ==
  LET call == Head(stack)
  IN  /\ wip' = FreshWork(call.root, lanes)
      /\ roots' = [roots EXCEPT ![call.root] = PrepareFreshStack(@)]
      /\ Continue([call EXCEPT !.attempt = attempt, !.lanes = lanes, !.sliced = FALSE])
      /\ UNCHANGED <<syncQueue, tasks, microtasks, flushTasks, wrecked>>

RetryLanesOnError == LanesToRetrySynchronouslyOnError(roots[Head(stack).root])

RecoversFromError(status) ==
  /\ status = "Errored"
  /\ Head(stack).attempt \in {"first", "store"}
  /\ RetryLanesOnError # {}

RecoverFromConcurrentError ==
  RenderAgain(IF Head(stack).attempt = "first" THEN "recovery" ELSE "storeRecovery",
              RetryLanesOnError)

\* A fatal error: the lanes are suspended, the error is thrown.
ThrowFatalError ==
  LET r == Head(stack).root
  IN  /\ wip' = FreshWork(r, {})
      /\ EnsureRootIsScheduled(r,
           MarkRootSuspended(PrepareFreshStack(roots[r]), Head(stack).lanes),
           FreshWork(r, {}), {})
      /\ Throw({})

Finished(r) ==
  [roots[r] EXCEPT !.finishedLanes = Head(stack).lanes,
                   !.showsFallback = wip.fallback]

\* Nothing is committed: the call goes on to its end, its root as `root`.
EndWithoutCommit(root) ==
  /\ roots' = [roots EXCEPT ![Head(stack).root] = root]
  /\ Continue([Head(stack) EXCEPT !.at = "end"])
  /\ UNCHANGED <<syncQueue, tasks, microtasks, flushTasks, wrecked>>

HasCapturedErrors(root) == root.finishedLanes \cap root.errorLanes # {}

\* commitRoot(root); an error of the tree, or of an effect before, may have found no
\* boundary.
CallCommitRoot(root, status) ==
  LET call == Head(stack)
  IN  /\ roots' = [roots EXCEPT ![call.root] = root]
      /\ \E fails \in IF UncaughtErrors /\ (status = "Errored" \/ HasCapturedErrors(root))
                    THEN BOOLEAN ELSE {FALSE} :
           stack' = <<[Call("commitRoot", call.root) EXCEPT !.fails = fails],
                      [call EXCEPT !.at = "end"]>> \o Tail(stack)
      /\ UNCHANGED <<syncQueue, tasks, microtasks, flushTasks, wrecked>>

\* A fallback appeared soon after another one: the commit may wait.
ThrottleFallback(suspended) ==
  IF GetNextLanes(suspended, {}) # {}
  THEN EndWithoutCommit(suspended)
  ELSE IF ~(Head(stack).lanes \subseteq suspended.suspendedLanes)
  THEN EndWithoutCommit(MarkRootPinged(suspended, suspended.suspendedLanes))
  ELSE EndWithoutCommit([suspended EXCEPT !.timeoutHandle = TRUE])

\* finishConcurrentRender(root, status, lanes)
FinishConcurrentRender(status) ==
  LET call == Head(stack)
      finished == Finished(call.root)
      suspended == SuspendLanes(finished, wip, call.lanes)
  IN  \/ /\ status \in {"Errored", "Completed"}
         /\ CallCommitRoot(finished, status)
      \/ /\ status = "Suspended"
         /\ \/ IncludesOnlyRetries(call.lanes) /\ ThrottleFallback(suspended)
            \/ CallCommitRoot(suspended, status)
      \/ /\ status = "SuspendedWithDelay"
         /\ IF IncludesOnlyTransitions(call.lanes)
            THEN EndWithoutCommit(suspended)
            ELSE \/ EndWithoutCommit([suspended EXCEPT !.timeoutHandle = TRUE])
                 \/ CallCommitRoot(suspended, status)
      \/ /\ status = "DidNotComplete"   \* 'Unknown root exit status.'
         /\ roots' = [roots EXCEPT ![call.root] = finished]
         /\ Throw({})
         /\ UNCHANGED <<syncQueue, tasks, microtasks>>

\* performConcurrentWorkOnRoot after a render with this exit status.
CompleteConcurrentRender(status) ==
  LET call == Head(stack)
      checksStores == call.attempt \in {"first", "recovery"}
  IN  /\ Running("performConcurrentWorkOnRoot", "rendering")
      /\ status \in ExitStatuses
      /\ \/ /\ RecoversFromError(status)
            /\ RecoverFromConcurrentError
            /\ UNCHANGED spent
         \/ /\ status = "FatalErrored"
            /\ ThrowFatalError
            /\ UNCHANGED spent
         \/ /\ status = "DidNotComplete" /\ checksStores
            /\ EndWithoutCommit(SuspendLanes(roots[call.root], wip, call.lanes))
            /\ wip' = NoWork
            /\ UNCHANGED spent
         \/ /\ status \in {"Completed", "Suspended", "SuspendedWithDelay", "Errored"}
            /\ ~RecoversFromError(status)
            /\ "store" \in RenderFaults /\ checksStores
            /\ ~IncludesBlockingLane(call.lanes)
            /\ RenderAgain("store", call.lanes)
            /\ Spend
         \/ /\ status # "FatalErrored"
            /\ ~RecoversFromError(status)
            /\ ~(status = "DidNotComplete" /\ checksStores)
            /\ FinishConcurrentRender(status)
            /\ wip' = NoWork
            /\ UNCHANGED spent
      /\ UNCHANGED <<pendingPassive, passiveTasks, listeners, retries>>

\* performSyncWorkOnRoot after a render with this exit status.
CompleteSyncRender(status) ==
  /\ Running("performSyncWorkOnRoot", "rendering")
  /\ status \in ExitStatuses
  /\ \/ RecoversFromError(status) /\ RecoverFromConcurrentError
     \/ status = "FatalErrored" /\ ThrowFatalError
     \/ /\ status \notin {"FatalErrored", "DidNotComplete"}
        /\ ~RecoversFromError(status)
        /\ CallCommitRoot(Finished(Head(stack).root), status)
        /\ wip' = NoWork
  /\ UNCHANGED <<pendingPassive, passiveTasks, listeners, retries, spent>>

\* Mutant: the work that remains is not scheduled.
EndConcurrentWorkWithoutEnsure ==
  LET call == Head(stack)
  IN  /\ Running("performConcurrentWorkOnRoot", "end")
      /\ Continue([call EXCEPT !.at = "return"])
      /\ UNCHANGED <<roots, wip, pendingPassive, syncQueue, tasks, hostVars, spent>>

\* The last ensureRootIsScheduled of performConcurrentWorkOnRoot.
EndConcurrentWork ==
  LET call == Head(stack)
  IN  /\ Running("performConcurrentWorkOnRoot", "end")
      /\ EnsureRootIsScheduled(call.root, roots[call.root], wip, {})
      /\ Continue([call EXCEPT !.at = "return"])
      /\ UNCHANGED <<wip, pendingPassive, flushTasks, wrecked, passiveTasks, listeners,
                     retries, spent>>

\* Mutant: the task never returns a continuation.
ReturnNothing ==
  /\ Running("performConcurrentWorkOnRoot", "return")
  /\ Return
  /\ UNCHANGED <<roots, wip, pendingPassive, syncQueue, tasks, hostVars, spent>>

\* The task returns itself as a continuation, or null.
ReturnContinuation ==
  LET call == Head(stack)
  IN  /\ Running("performConcurrentWorkOnRoot", "return")
      /\ tasks' = IF roots[call.root].callbackNode = call.node
                  THEN tasks \cup {[node |-> call.task, root |-> call.root]}
                  ELSE tasks
      /\ Return
      /\ UNCHANGED <<roots, wip, pendingPassive, syncQueue, hostVars, spent>>

\* The last ensureRootIsScheduled of performSyncWorkOnRoot.
EndSyncWork ==
  LET call == Head(stack)
  IN  /\ Running("performSyncWorkOnRoot", "end")
      /\ EnsureRootIsScheduled(call.root, roots[call.root], wip, {})
      /\ Return
      /\ UNCHANGED <<wip, pendingPassive, flushTasks, wrecked, passiveTasks, listeners,
                     retries, spent>>

-----------------------------------------------------------------------------
(* Commit *)

\* The loop at the start of commitRootImpl.
CommitFlushesPassiveEffects ==
  /\ Running("commitRoot", "start")
  /\ pendingPassive # NoRoot
  /\ CallFlushPassiveEffects(Head(stack), Tail(stack))
  /\ UNCHANGED <<roots, wip, syncQueue, tasks, hostVars, spent>>

\* Mutant: an update that came in while its lane was rendered is taken for done.
CommittedForgetsUpdates(root) ==
  [MarkRootFinished(root, root.pendingLanes \ root.finishedLanes) EXCEPT
     !.callbackNode = NoNode, !.callbackPriority = NoLane,
     !.finishedLanes = {}, !.updatedLanes = {}, !.showsFallback = FALSE,
     !.errorLanes = @ \ root.finishedLanes]

\* Mutant: the finished task stays recorded.
CommittedKeepsCallback(root) ==
  [MarkRootFinished(root, (root.pendingLanes \ root.finishedLanes) \cup root.updatedLanes)
     EXCEPT !.finishedLanes = {}, !.updatedLanes = {}, !.showsFallback = FALSE,
            !.errorLanes = @ \ (root.finishedLanes \ root.updatedLanes)]

\* What was rendered is done, except for updates that came in after the render
\* had started.
Committed(root) ==
  [MarkRootFinished(root, (root.pendingLanes \ root.finishedLanes) \cup root.updatedLanes)
     EXCEPT !.callbackNode = NoNode, !.callbackPriority = NoLane,
            !.finishedLanes = {}, !.updatedLanes = {}, !.showsFallback = FALSE,
            !.errorLanes = @ \ (root.finishedLanes \ root.updatedLanes)]

\* commitRootImpl up to the layout effects.
CommitRoot ==
  LET call == Head(stack)
      root == roots[call.root]
  IN  /\ Running("commitRoot", "start")
      /\ pendingPassive = NoRoot
      /\ IF root.finishedLanes = {}
         THEN Return /\ UNCHANGED <<roots, wip, retries>>
         ELSE /\ roots' = [roots EXCEPT ![call.root] = Committed(root)]
              /\ wip' = IF wip.root = call.root THEN NoWork ELSE wip
              /\ retries' = IF root.showsFallback THEN retries \cup {call.root} ELSE retries
              /\ Continue([call EXCEPT !.at = "layout", !.lanes = root.finishedLanes])
      /\ UNCHANGED <<pendingPassive, syncQueue, tasks, flushTasks, wrecked, passiveTasks,
                     microtasks, listeners, spent>>

\* A layout effect updates: with the priority of the commit, or in a
\* transition.
LayoutEffectUpdate(r, lane) ==
  /\ Running("commitRoot", "layout")
  /\ lane \in UpdateLanes \cap ({SyncLane} \cup TransitionLanes)
  /\ ScheduleUpdateOnFiber(r, lane)
  /\ UNCHANGED <<stack, pendingPassive, flushTasks, wrecked, passiveTasks, listeners, retries>>

\* Mutant: a commit of a discrete event schedules no task for its passive
\* effects, as it will flush them itself.
CommitEndsTrustingFlush ==
  LET call == Head(stack)
  IN  /\ Running("commitRoot", "layout")
      /\ \E hasPassiveEffects \in BOOLEAN :
           /\ pendingPassive' = IF hasPassiveEffects THEN call.root ELSE NoRoot
           /\ passiveTasks' = IF hasPassiveEffects /\ SyncLane \notin call.lanes
                              THEN passiveTasks + 1 ELSE passiveTasks
      /\ EnsureRootIsScheduled(call.root, roots[call.root], wip, {})
      /\ IF call.fails THEN Throw({call.root})
         ELSE Continue([call EXCEPT !.at = "passive"]) /\ UNCHANGED <<flushTasks, wrecked>>
      /\ UNCHANGED <<wip, listeners, retries, spent>>

\* commitRootImpl after the layout effects, up to the error it rethrows.
CommitEnds ==
  LET call == Head(stack)
  IN  /\ Running("commitRoot", "layout")
      /\ \E hasPassiveEffects \in BOOLEAN :
           /\ pendingPassive' = IF hasPassiveEffects THEN call.root ELSE NoRoot
           /\ passiveTasks' = IF hasPassiveEffects THEN passiveTasks + 1 ELSE passiveTasks
      /\ EnsureRootIsScheduled(call.root, roots[call.root], wip, {})
      /\ IF call.fails THEN Throw({call.root})
         ELSE Continue([call EXCEPT !.at = "passive"]) /\ UNCHANGED <<flushTasks, wrecked>>
      /\ UNCHANGED <<wip, listeners, retries, spent>>

\* Mutant: all passive effects wait for their task.
CommitLeavesOwnEffects ==
  /\ Running("commitRoot", "passive")
  /\ Continue([Head(stack) EXCEPT !.at = "flush"])
  /\ UNCHANGED <<roots, wip, pendingPassive, syncQueue, tasks, hostVars, spent>>

\* Effects of a discrete event are flushed with its commit.
CommitFlushesOwnEffects ==
  LET call == Head(stack)
  IN  /\ Running("commitRoot", "passive")
      /\ IF SyncLane \in call.lanes
         THEN CallFlushPassiveEffects([call EXCEPT !.at = "flush"], Tail(stack))
         ELSE Continue([call EXCEPT !.at = "flush"]) /\ UNCHANGED pendingPassive
      /\ UNCHANGED <<roots, wip, syncQueue, tasks, hostVars, spent>>

\* commitRootImpl ends with flushSyncCallbacks().
CommitFlushesSyncCallbacks ==
  /\ Running("commitRoot", "flush")
  /\ CallFlushSyncCallbacks(Tail(stack))
  /\ UNCHANGED <<roots, wip, pendingPassive, syncQueue, tasks, hostVars, spent>>

-----------------------------------------------------------------------------
(* Passive effects and the sync queue *)

\* A passive effect calls setState, possibly inside flushSync.
PassiveEffectUpdate(r, lane) ==
  /\ Running("flushPassiveEffects", "start")
  /\ lane \in UpdateLanes
  /\ ScheduleUpdateOnFiber(r, lane)
  /\ UNCHANGED <<stack, pendingPassive, flushTasks, wrecked, passiveTasks, listeners, retries>>

PassiveEffectsEnd ==
  /\ Running("flushPassiveEffects", "start")
  /\ CallFlushSyncCallbacks(Tail(stack))
  /\ UNCHANGED <<roots, wip, pendingPassive, syncQueue, tasks, hostVars, spent>>

\* The loop of flushSyncCallbacks.
FlushSyncCallbacks ==
  /\ Running("flushSyncCallbacks", "start")
  /\ IF syncQueue = <<>>
     THEN Return /\ UNCHANGED <<syncQueue, pendingPassive>>
     ELSE /\ syncQueue' = Tail(syncQueue)
          /\ CallFlushPassiveEffects(Call("performSyncWorkOnRoot", Head(syncQueue)), stack)
  /\ UNCHANGED <<roots, wip, tasks, hostVars, spent>>

-----------------------------------------------------------------------------
Statuses == {"Completed", "Suspended", "SuspendedWithDelay", "Errored",
             "FatalErrored", "DidNotComplete"}

Next ==
  \/ \E r \in Root, lane \in UpdateLanes :
       \/ Update(r, lane)
       \/ LayoutEffectUpdate(r, lane)
       \/ PassiveEffectUpdate(r, lane)
  \/ FlushSync
  \/ Microtask
  \/ \E t \in tasks : RunTask(t)
  \/ RunFlushTask
  \/ RunPassiveTask
  \/ \E r \in Root : RunCommitTimer(r)
  \/ \E l \in listeners : PingSuspendedRoot(l)
  \/ \E r \in Root, lane \in Lanes : RetryTimedOutBoundary(r, lane)
  \/ PerformConcurrentWork
  \/ PerformSyncWork
  \/ \E r \in Root : RenderPhaseUpdate(r)
  \/ ComponentSuspends
  \/ ShellSuspends
  \/ ComponentThrows
  \/ RenderYields
  \/ \E status \in Statuses :
       CompleteConcurrentRender(status) \/ CompleteSyncRender(status)
  \/ EndConcurrentWork
  \/ ReturnContinuation
  \/ EndSyncWork
  \/ CommitFlushesPassiveEffects
  \/ CommitRoot
  \/ CommitEnds
  \/ CommitFlushesOwnEffects
  \/ CommitFlushesSyncCallbacks
  \/ PassiveEffectsEnd
  \/ FlushSyncCallbacks

Spec == Init /\ [][Next]_vars

\* The steps of the code on the stack, as opposed to what components and
\* events may do.
CodeStep ==
  \/ PerformConcurrentWork
  \/ PerformSyncWork
  \/ RenderYields
  \/ \E status \in Statuses :
       CompleteConcurrentRender(status) \/ CompleteSyncRender(status)
  \/ EndConcurrentWork
  \/ ReturnContinuation
  \/ EndSyncWork
  \/ CommitFlushesPassiveEffects
  \/ CommitRoot
  \/ CommitEnds
  \/ CommitFlushesOwnEffects
  \/ CommitFlushesSyncCallbacks
  \/ PassiveEffectsEnd
  \/ FlushSyncCallbacks

(* Fairness.  Code on the stack goes on; a render that is resumed again and  *)
(* again completes (every slice works on a fiber, and a tree is finite); the *)
(* host delivers microtasks and timers, the Scheduler calls every task       *)
(* (Scheduler!NoStarvation), and every promise settles.                      *)
Fairness ==
  /\ WF_vars(CodeStep)
  /\ SF_vars(\E status \in Statuses : CompleteConcurrentRender(status))
  /\ WF_vars(Microtask)
  /\ \A t \in [node : NodeId, root : Root] : SF_vars(t \in tasks /\ RunTask(t))
  /\ SF_vars(RunFlushTask)
  /\ SF_vars(RunPassiveTask)
  /\ \A r \in Root : SF_vars(RunCommitTimer(r))
  /\ SF_vars(\E l \in listeners : PingSuspendedRoot(l))

FairSpec == Spec /\ Fairness

-----------------------------------------------------------------------------
(* Properties *)

TypeOK ==
  /\ \A r \in Root :
       /\ LaneFields(roots[r])
       /\ roots[r].callbackNode \in NodeId \cup {NoNode}
       /\ roots[r].callbackPriority \in Lanes \cup {NoLane}
       /\ roots[r].finishedLanes \subseteq Lanes
       /\ roots[r].timeoutHandle \in BOOLEAN
       /\ roots[r].updatedLanes \subseteq Lanes
       /\ roots[r].showsFallback \in BOOLEAN
       /\ roots[r].errorLanes \subseteq Lanes
  /\ wip.root \in Root \cup {NoRoot}
  /\ wip.lanes \cup wip.interleaved \cup wip.pinged \subseteq Lanes
  /\ wip.exit \in {"InProgress", "Suspended", "SuspendedWithDelay", "Errored"}
  /\ pendingPassive \in Root \cup {NoRoot}
  /\ tasks \subseteq [node : NodeId, root : Root]
  /\ listeners \subseteq [root : Root, lanes : SUBSET Lanes]
  /\ retries \subseteq Root
  /\ {flushTasks, passiveTasks, microtasks, spent} \subseteq Nat

IsQueued(r) == \E i \in DOMAIN syncQueue : syncQueue[i] = r

\* No root with work is forgotten: whenever no code is running, a root that
\* getNextLanes finds work for has a Scheduler task, or waits in the sync queue
\* for a microtask or a task, unless it was wrecked.
RootIsScheduled ==
  Idle => \A r \in Root \ wrecked :
    GetNextLanes(roots[r], WipLanes(wip, r)) # {} =>
      \/ \E t \in tasks : t.root = r
      \/ IsQueued(r) /\ microtasks + flushTasks > 0

RecordsLiveTask(r) ==
  /\ roots[r].callbackNode # NoNode => [node |-> roots[r].callbackNode, root |-> r] \in tasks
  /\ roots[r].callbackPriority = SyncLane => IsQueued(r)
  /\ roots[r].callbackPriority \notin {NoLane, SyncLane} => roots[r].callbackNode # NoNode

\* The task a root has recorded, which updates of the same priority reuse, really
\* exists, unless the root was wrecked.
RecordedTaskIsLive == Idle => \A r \in Root \ wrecked : RecordsLiveTask(r)

\* "The priority hasn't changed. We can reuse the existing task."
\* (ensureRootIsScheduled), with no exception.
ExistingTaskIsReused == Idle => \A r \in Root : RecordsLiveTask(r)

\* A suspended render is woken: every pending lane that is suspended and not
\* pinged has a ping listener that will bring it back, unless its root was wrecked.
SuspendedLanesWake ==
  Idle => \A r \in Root \ wrecked :
    \A lane \in (roots[r].pendingLanes \cap roots[r].suspendedLanes) \ roots[r].pingedLanes :
      \E l \in listeners : l.root = r /\ lane \in l.lanes

\* A delayed commit still has the tree it is to commit, and no new render of
\* that root is in progress: prepareFreshStack cancelled the timer.
TimerHasFinishedWork ==
  \A r \in Root : roots[r].timeoutHandle =>
    /\ roots[r].finishedLanes # {}
    /\ wip.root # r

\* Pending passive effects are flushed sooner or later.
PassiveEffectsAreScheduled ==
  Idle /\ pendingPassive # NoRoot => passiveTasks > 0

\* The sets of lanes of a root agree: only pending lanes age, expire or are
\* entangled, and only suspended ones are pinged.
LaneSetsAgree ==
  \A r \in Root :
    /\ roots[r].timedLanes \cup roots[r].expiredLanes \cup roots[r].entangledLanes
         \subseteq roots[r].pendingLanes
    /\ roots[r].pingedLanes \subseteq roots[r].suspendedLanes

\* What became of the updates of each root and lane.
updateStatus ==
  [r \in Root |-> [l \in Lanes |->
     CASE l \notin roots[r].pendingLanes -> "done"
       [] /\ l \in roots[r].pendingLanes
          /\ l \in (WipLanes(wip, r) \cup roots[r].finishedLanes) \ roots[r].updatedLanes
            -> "rendering"
       [] /\ l \in roots[r].pendingLanes
          /\ l \notin (WipLanes(wip, r) \cup roots[r].finishedLanes) \ roots[r].updatedLanes
            -> "waiting"]]

\* Every update is committed by a render that began after it: whatever
\* interrupts, suspends, fails or restarts that render, and whatever is
\* updated while it runs.
Updates == INSTANCE UpdateService WITH Lane <- Lanes, status <- updateStatus
ImplementsUpdates == Updates!Spec

\* Every update is committed, whatever is updated, suspended, thrown or
\* retried around it.
EveryUpdateIsCommitted ==
  \A r \in Root, l \in Lanes : l \in roots[r].pendingLanes ~> l \notin roots[r].pendingLanes

\* "A lane is said to be entangled with another when it's not allowed to render
\* in a batch that does not also include the other lane" (getNextLanes): a
\* render that starts afresh takes all that is entangled with what it takes.
EntangledLanesRenderTogether ==
  [][ ~Idle /\ Head(stack).at = "start" /\ wip' # wip /\ wip'.root # NoRoot
      => LET root == roots[wip'.root]
         IN  \A l \in wip'.lanes \cap root.entangledLanes :
               root.entanglements[l] \cap root.pendingLanes \subseteq wip'.lanes ]_vars

\* "Flush any pending passive effects before deciding which lanes to work on"
\* (performConcurrentWorkOnRoot): whatever the effects schedule and commit
\* meanwhile, none are pending when a render starts.
EffectsPrecedeRender ==
  [][ ~Idle /\ stack' # <<>> /\ Head(stack).at = "start" /\ Head(stack').at = "rendering"
      => pendingPassive = NoRoot ]_vars

\* finishConcurrentRender never meets an exit status it does not know
\* ("Unknown root exit status.").
ExitStatusIsKnown ==
  Running("performConcurrentWorkOnRoot", "rendering")
    /\ Head(stack).attempt \in {"store", "storeRecovery"}
    => "DidNotComplete" \notin ExitStatuses
=============================================================================
