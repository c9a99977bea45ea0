------------------------------ MODULE Scheduler ------------------------------
(***************************************************************************)
(* The browser build of the `scheduler` package                            *)
(* (packages/scheduler/src/forks/Scheduler.js): two priority queues of     *)
(* tasks, one message loop that runs them in slices of a frame, and one    *)
(* host timeout that wakes delayed tasks up.                               *)
(*                                                                         *)
(* JavaScript runs one job at a time, so what interleaves are the jobs of  *)
(* the host's event loop (a posted message, an expired setTimeout, an      *)
(* event handler that calls the API) and, inside a message, the callbacks  *)
(* of the tasks, which call the same API.  `pc` says which code is on the  *)
(* stack; the clock may tick between any two steps.                        *)
(*                                                                         *)
(* Queues are sets of task ids ordered by <<sortIndex, id>>: the binary    *)
(* heap that implements them is the subject of SchedulerMinHeap.           *)
(***************************************************************************)
EXTENDS Integers, FiniteSets

CONSTANTS
  MaxTasks,       \* bound: tasks ever scheduled
  MaxTime,        \* bound: the clock stops here
  MaxTimeouts,    \* bound: host timeouts pending at the same time
  Delays,         \* values of options.delay (0: no delay)
  Priorities,     \* priority levels used by callers
  Timeout,        \* priority level -> milliseconds until expiration
  FrameIntervals, \* values of frameInterval that forceFrameRate may set
  EnableSchedulerDebugging  \* feature flag of the build

ASSUME SchedulerAssumption ==
  /\ MaxTasks \in Nat
  /\ MaxTime \in Nat
  /\ MaxTimeouts \in Nat
  /\ Delays \subseteq Nat
  /\ Priorities \subseteq 1..5
  /\ Timeout \in [Priorities -> Int]
  /\ FrameIntervals \subseteq Nat
  /\ FrameIntervals # {}
  /\ EnableSchedulerDebugging \in BOOLEAN

TaskId == 1..MaxTasks
NoTask == 0           \* currentTask === null
TimeoutId == 1..MaxTimeouts
NoTimeout == -1       \* taskTimeoutID after clearTimeout
NormalPriority == 3
NoSlice == -1

VARIABLES
  now,                \* the clock read by getCurrentTime()
  \* the tasks: fields of the objects unstable_scheduleCallback returns
  taskIdCounter,      \* id of the next task
  callback,           \* whether task.callback holds a function
  priorityLevel,
  startTime,
  expirationTime,
  sortIndex,
  \* the module's variables
  taskQueue,
  timerQueue,
  currentTask,
  currentPriorityLevel,
  isSchedulerPaused,
  isPerformingWork,
  isHostCallbackScheduled,
  isHostTimeoutScheduled,
  isMessageLoopRunning,
  scheduledHostCallback,  \* TRUE: flushWork, FALSE: null
  taskTimeoutID,
  frameInterval,
  sliceStart,         \* `startTime` of the message loop (line 439)
  \* locals of the code on the stack
  pc,                 \* "idle", "loop" (in workLoop), "callback" (in a task)
  loopTime,           \* `currentTime` of workLoop
  \* the host
  messages,           \* posted message events not delivered yet
  hostTimeouts        \* pending setTimeouts: [id, at]

taskVars == <<taskIdCounter, priorityLevel, startTime, expirationTime>>
queueVars == <<sortIndex, taskQueue, timerQueue>>
timeoutVars == <<isHostTimeoutScheduled, taskTimeoutID, hostTimeouts>>
loopVars == <<isPerformingWork, isHostCallbackScheduled,
              isMessageLoopRunning, scheduledHostCallback, messages>>
stackVars == <<pc, currentTask, currentPriorityLevel, sliceStart, loopTime>>
modeVars == <<isSchedulerPaused, frameInterval>>
vars == <<now, callback, taskVars, queueVars, timeoutVars, loopVars,
          stackVars, modeVars>>

TypeOK ==
  /\ now \in Int
  /\ taskIdCounter \in 1..(MaxTasks + 1)
  /\ callback \in [TaskId -> BOOLEAN]
  /\ priorityLevel \in [TaskId -> 1..5]
  /\ startTime \in [TaskId -> Int]
  /\ expirationTime \in [TaskId -> Int]
  /\ sortIndex \in [TaskId -> Int]
  /\ taskQueue \subseteq TaskId
  /\ timerQueue \subseteq TaskId
  /\ currentTask \in TaskId \cup {NoTask}
  /\ currentPriorityLevel \in 1..5
  /\ isSchedulerPaused \in BOOLEAN
  /\ isPerformingWork \in BOOLEAN
  /\ isHostCallbackScheduled \in BOOLEAN
  /\ isHostTimeoutScheduled \in BOOLEAN
  /\ isMessageLoopRunning \in BOOLEAN
  /\ scheduledHostCallback \in BOOLEAN
  /\ taskTimeoutID \in TimeoutId \cup {NoTimeout}
  /\ frameInterval \in Nat
  /\ sliceStart \in Int
  /\ pc \in {"idle", "loop", "callback"}
  /\ loopTime \in Int
  /\ messages \in Nat
  /\ hostTimeouts \subseteq [id : TimeoutId, at : Int]

Init ==
  /\ now = 0
  /\ taskIdCounter = 1
  /\ callback = [t \in TaskId |-> FALSE]
  /\ priorityLevel = [t \in TaskId |-> NormalPriority]
  /\ startTime = [t \in TaskId |-> 0]
  /\ expirationTime = [t \in TaskId |-> 0]
  /\ sortIndex = [t \in TaskId |-> -1]
  /\ taskQueue = {}
  /\ timerQueue = {}
  /\ currentTask = NoTask
  /\ currentPriorityLevel = NormalPriority
  /\ isSchedulerPaused = FALSE
  /\ isPerformingWork = FALSE
  /\ isHostCallbackScheduled = FALSE
  /\ isHostTimeoutScheduled = FALSE
  /\ isMessageLoopRunning = FALSE
  /\ scheduledHostCallback = FALSE
  /\ taskTimeoutID = NoTimeout
  /\ frameInterval \in FrameIntervals
  /\ sliceStart = NoSlice
  /\ pc = "idle"
  /\ loopTime = NoSlice
  /\ messages = 0
  /\ hostTimeouts = {}

-----------------------------------------------------------------------------
(* The queues *)

\* compare(a, b) < 0: by sortIndex, then by id.  `idx` is sortIndex.
Before(idx, a, b) ==
  \/ idx[a] < idx[b]
  \/ idx[a] = idx[b] /\ a < b

\* peek(queue) === t
IsPeek(idx, queue, t) ==
  /\ t \in queue
  /\ \A u \in queue \ {t} : Before(idx, t, u)

\* Mutant: a timer due exactly now is left waiting (< for <=).
ReachedLate(currentTime) ==
  {t \in timerQueue :
     \A u \in timerQueue :
       (u = t \/ Before(sortIndex, u, t))
         => ~callback[u] \/ startTime[u] < currentTime}

\* The timers advanceTimers(currentTime) pops: it stops at the first one that
\* is neither cancelled nor due.
Reached(currentTime) ==
  {t \in timerQueue :
     \A u \in timerQueue :
       (u = t \/ Before(sortIndex, u, t))
         => ~callback[u] \/ startTime[u] <= currentTime}

\* Mutant: a fired timer keeps the sort key of the timer queue.
AdvanceTimersKeepsKey(tasks, currentTime) ==
  /\ timerQueue' = timerQueue \ Reached(currentTime)
  /\ taskQueue' = tasks \cup {t \in Reached(currentTime) : callback[t]}
  /\ UNCHANGED sortIndex

\* advanceTimers(currentTime), started with the task queue `tasks`: timers
\* that fired move to the task queue, cancelled ones are forgotten.
AdvanceTimers(tasks, currentTime) ==
  LET fired == {t \in Reached(currentTime) : callback[t]}
  IN  /\ timerQueue' = timerQueue \ Reached(currentTime)
      /\ taskQueue' = tasks \cup fired
      /\ sortIndex' = [t \in TaskId |-> IF t \in fired THEN expirationTime[t]
                                                     ELSE sortIndex[t]]

-----------------------------------------------------------------------------
(* The host *)

\* requestHostTimeout(handleTimeout, at - currentTime).  setTimeout promises
\* not to fire early; it may fire at any time from `at` on, which also covers
\* the age of the caller's currentTime.  The host gives it a handle that no
\* pending timeout has, here the smallest one.  `pending` are the timeouts
\* left by a cancelHostTimeout() or a firing before it.
RequestHostTimeout(pending, at) ==
  \E id \in TimeoutId :
    /\ {h.id : h \in pending} \cap 1..id = 1..(id - 1)
    /\ hostTimeouts' = pending \cup {[id |-> id, at |-> at]}
    /\ taskTimeoutID' = id

\* The pending timeouts after cancelHostTimeout().
WithoutHostTimeout == {h \in hostTimeouts : h.id # taskTimeoutID}

\* requestHostCallback(flushWork)
RequestHostCallback ==
  /\ isHostCallbackScheduled' = TRUE
  /\ scheduledHostCallback' = TRUE
  /\ isMessageLoopRunning' = TRUE
  /\ messages' = IF isMessageLoopRunning THEN messages ELSE messages + 1

-----------------------------------------------------------------------------
(* The API: called by event handlers and by the callbacks of tasks *)

CallerRuns == pc \in {"idle", "callback"}

NewTask(p, start, index) ==
  LET t == taskIdCounter
  IN  /\ t \in TaskId
      /\ taskIdCounter' = t + 1
      /\ callback' = [callback EXCEPT ![t] = TRUE]
      /\ priorityLevel' = [priorityLevel EXCEPT ![t] = p]
      /\ startTime' = [startTime EXCEPT ![t] = start]
      /\ expirationTime' = [expirationTime EXCEPT ![t] = start + Timeout[p]]
      /\ sortIndex' = [sortIndex EXCEPT ![t] = index]

\* unstable_scheduleCallback(p, callback, {delay})
ScheduleDelayed(p, delay) ==
  LET t == taskIdCounter
      start == now + delay
  IN  /\ CallerRuns
      /\ delay > 0
      /\ start <= MaxTime
      /\ NewTask(p, start, start)
      /\ timerQueue' = timerQueue \cup {t}
      /\ IF taskQueue = {} /\ IsPeek(sortIndex', timerQueue', t)
         THEN /\ isHostTimeoutScheduled' = TRUE
              /\ RequestHostTimeout(IF isHostTimeoutScheduled
                                    THEN WithoutHostTimeout
                                    ELSE hostTimeouts, start)
         ELSE UNCHANGED timeoutVars
      /\ UNCHANGED <<now, taskQueue, loopVars, stackVars, modeVars>>

\* unstable_scheduleCallback(p, callback)
ScheduleNow(p) ==
  /\ CallerRuns
  /\ NewTask(p, now, now + Timeout[p])
  /\ taskQueue' = taskQueue \cup {taskIdCounter}
  /\ IF ~isHostCallbackScheduled /\ ~isPerformingWork
     THEN RequestHostCallback /\ UNCHANGED isPerformingWork
     ELSE UNCHANGED loopVars
  /\ UNCHANGED <<now, timerQueue, timeoutVars, stackVars, modeVars>>

ScheduleCallback(p, delay) ==
  ScheduleDelayed(p, delay) \/ (delay = 0 /\ ScheduleNow(p))

\* unstable_cancelCallback(task), of any task handed out so far
CancelCallback(t) ==
  /\ CallerRuns
  /\ t < taskIdCounter
  /\ callback' = [callback EXCEPT ![t] = FALSE]
  /\ UNCHANGED <<now, taskVars, queueVars, timeoutVars, loopVars, stackVars,
                 modeVars>>

\* unstable_forceFrameRate(fps)
ForceFrameRate(interval) ==
  /\ CallerRuns
  /\ frameInterval' = interval
  /\ UNCHANGED <<now, callback, taskVars, queueVars, timeoutVars, loopVars,
                 stackVars, isSchedulerPaused>>

\* unstable_pauseExecution()
PauseExecution ==
  /\ CallerRuns
  /\ isSchedulerPaused' = TRUE
  /\ UNCHANGED <<now, callback, taskVars, queueVars, timeoutVars, loopVars,
                 stackVars, frameInterval>>

\* Mutant: asks for a host callback while work is being performed.
ContinueExecutionUnchecked ==
  /\ CallerRuns
  /\ Cardinality(hostTimeouts) < MaxTimeouts - MaxTasks
  /\ isSchedulerPaused' = FALSE
  /\ RequestHostCallback
  /\ UNCHANGED <<now, callback, taskVars, queueVars, timeoutVars, stackVars,
                 frameInterval, isPerformingWork>>

\* unstable_continueExecution().  Called again and again while a timer is
\* pending, each call ends in one more host timeout (see FinishWork): the bound
\* leaves a handle for every task that is still to be scheduled.
ContinueExecution ==
  /\ CallerRuns
  /\ Cardinality(hostTimeouts) < MaxTimeouts - MaxTasks
  /\ isSchedulerPaused' = FALSE
  /\ IF ~isHostCallbackScheduled /\ ~isPerformingWork
     THEN RequestHostCallback /\ UNCHANGED isPerformingWork
     ELSE UNCHANGED loopVars
  /\ UNCHANGED <<now, callback, taskVars, queueVars, timeoutVars, stackVars,
                 frameInterval>>

-----------------------------------------------------------------------------
(* The message loop *)

\* performWorkUntilDeadline up to the first iteration of workLoop.
PerformWorkUntilDeadline ==
  /\ pc = "idle"
  /\ messages > 0
  /\ messages' = messages - 1
  /\ IF scheduledHostCallback
     THEN /\ sliceStart' = now
          /\ isHostCallbackScheduled' = FALSE
          /\ IF isHostTimeoutScheduled
             THEN /\ isHostTimeoutScheduled' = FALSE
                  /\ hostTimeouts' = WithoutHostTimeout
                  /\ taskTimeoutID' = NoTimeout
             ELSE UNCHANGED timeoutVars
          /\ isPerformingWork' = TRUE
          /\ loopTime' = now
          /\ AdvanceTimers(taskQueue, now)
          /\ pc' = "loop"
          /\ UNCHANGED isMessageLoopRunning
     ELSE /\ isMessageLoopRunning' = FALSE
          /\ UNCHANGED <<sliceStart, isHostCallbackScheduled, timeoutVars,
                         isPerformingWork, loopTime, queueVars, pc>>
  /\ UNCHANGED <<now, callback, taskVars, scheduledHostCallback, currentTask,
                 currentPriorityLevel, modeVars>>

\* shouldYieldToHost() (enableIsInputPending is false in this build)
ShouldYieldToHost == now - sliceStart >= frameInterval

\* Mutant: a task that expires exactly now may wait for the next slice.
MustStopBeforeExpired(t) ==
  \/ EnableSchedulerDebugging /\ isSchedulerPaused
  \/ expirationTime[t] >= loopTime /\ ShouldYieldToHost

\* The loop breaks before task t.
MustStop(t) ==
  \/ EnableSchedulerDebugging /\ isSchedulerPaused
  \/ expirationTime[t] > loopTime /\ ShouldYieldToHost

\* Mutant: the priority level is reset to NoPriority.
EndWorkNoPriority(hasMoreWork) ==
  /\ currentTask' = NoTask
  /\ currentPriorityLevel' = 0
  /\ isPerformingWork' = FALSE
  /\ pc' = "idle"
  /\ messages' = IF hasMoreWork THEN messages + 1 ELSE messages
  /\ isMessageLoopRunning' = hasMoreWork
  /\ scheduledHostCallback' = (hasMoreWork /\ scheduledHostCallback)
  /\ sliceStart' = NoSlice
  /\ loopTime' = NoSlice
  /\ UNCHANGED isHostCallbackScheduled

\* The end of flushWork (its `finally`) and of performWorkUntilDeadline.  The
\* next slice sets sliceStart and loopTime before reading them: both are reset
\* here, a dead value being no part of the state.
EndWork(hasMoreWork) ==
  /\ currentTask' = NoTask
  /\ currentPriorityLevel' = NormalPriority
  /\ isPerformingWork' = FALSE
  /\ pc' = "idle"
  /\ messages' = IF hasMoreWork THEN messages + 1 ELSE messages
  /\ isMessageLoopRunning' = hasMoreWork
  /\ scheduledHostCallback' = (hasMoreWork /\ scheduledHostCallback)
  /\ sliceStart' = NoSlice
  /\ loopTime' = NoSlice
  /\ UNCHANGED isHostCallbackScheduled

\* Mutant: a task is called although it was cancelled.
RunCancelledTask(t) ==
  /\ pc = "loop"
  /\ IsPeek(sortIndex, taskQueue, t)
  /\ ~MustStop(t)
  /\ callback' = [callback EXCEPT ![t] = FALSE]
  /\ currentTask' = t
  /\ currentPriorityLevel' = priorityLevel[t]
  /\ pc' = "callback"
  /\ UNCHANGED <<now, taskVars, queueVars, timeoutVars, loopVars, sliceStart,
                 loopTime, modeVars>>

\* workLoop calls the callback of task t.
RunTask(t) ==
  /\ pc = "loop"
  /\ IsPeek(sortIndex, taskQueue, t)
  /\ ~MustStop(t)
  /\ callback[t]
  /\ callback' = [callback EXCEPT ![t] = FALSE]
  /\ currentTask' = t
  /\ currentPriorityLevel' = priorityLevel[t]
  /\ pc' = "callback"
  /\ UNCHANGED <<now, taskVars, queueVars, timeoutVars, loopVars, sliceStart,
                 loopTime, modeVars>>

\* workLoop pops a task whose callback was cancelled or has completed.
DropTask(t) ==
  /\ pc = "loop"
  /\ IsPeek(sortIndex, taskQueue, t)
  /\ ~MustStop(t)
  /\ ~callback[t]
  /\ taskQueue' = taskQueue \ {t}
  /\ UNCHANGED <<now, callback, taskVars, sortIndex, timerQueue, timeoutVars,
                 loopVars, stackVars, modeVars>>

\* The callback returns; `continues` when it returns a continuation.
TaskReturn(continues) ==
  /\ pc = "callback"
  /\ loopTime' = now
  /\ callback' = IF continues THEN [callback EXCEPT ![currentTask] = TRUE]
                              ELSE callback
  /\ AdvanceTimers(IF ~continues /\ IsPeek(sortIndex, taskQueue, currentTask)
                   THEN taskQueue \ {currentTask} ELSE taskQueue, now)
  /\ pc' = "loop"
  /\ UNCHANGED <<now, taskVars, timeoutVars, loopVars, currentTask,
                 currentPriorityLevel, sliceStart, modeVars>>

\* The callback throws: the error leaves flushWork, hasMoreWork stays true.
TaskThrow ==
  /\ pc = "callback"
  /\ EndWork(TRUE)
  /\ UNCHANGED <<now, callback, taskVars, queueVars, timeoutVars, modeVars>>

\* Mutant: a paused workLoop reports that there is no more work.
YieldToHostForgetsPaused ==
  /\ pc = "loop"
  /\ \E t \in TaskId : IsPeek(sortIndex, taskQueue, t) /\ MustStop(t)
  /\ EndWork(~isSchedulerPaused)
  /\ UNCHANGED <<now, callback, taskVars, queueVars, timeoutVars, modeVars>>

\* workLoop breaks with work left.
YieldToHost ==
  /\ pc = "loop"
  /\ \E t \in TaskId : IsPeek(sortIndex, taskQueue, t) /\ MustStop(t)
  /\ EndWork(TRUE)
  /\ UNCHANGED <<now, callback, taskVars, queueVars, timeoutVars, modeVars>>

\* Mutant: an empty task queue counts as more work.
FinishWorkNeverRests ==
  /\ pc = "loop"
  /\ taskQueue = {}
  /\ EndWork(TRUE)
  /\ UNCHANGED <<now, callback, taskVars, queueVars, timeoutVars, modeVars>>

\* workLoop finds the task queue empty.
FinishWork ==
  /\ pc = "loop"
  /\ taskQueue = {}
  /\ \/ /\ timerQueue = {}
        /\ UNCHANGED timeoutVars
     \/ \E t \in TaskId :
          /\ IsPeek(sortIndex, timerQueue, t)
          /\ RequestHostTimeout(hostTimeouts, startTime[t])
          /\ UNCHANGED isHostTimeoutScheduled
  /\ EndWork(FALSE)
  /\ UNCHANGED <<now, callback, taskVars, queueVars, modeVars>>

\* Mutant: fired timers are queued and no host callback is requested.
HandleTimeoutOnlyQueues(h) ==
  /\ pc = "idle"
  /\ h.at <= now
  /\ isHostTimeoutScheduled' = FALSE
  /\ AdvanceTimers(taskQueue, now)
  /\ hostTimeouts' = hostTimeouts \ {h}
  /\ UNCHANGED <<now, callback, taskVars, taskTimeoutID, loopVars, stackVars,
                 modeVars>>

\* A host timeout fires: handleTimeout(getCurrentTime()).
HandleTimeout(h) ==
  /\ pc = "idle"
  /\ h.at <= now
  /\ isHostTimeoutScheduled' = FALSE
  /\ AdvanceTimers(taskQueue, now)
  /\ IF ~isHostCallbackScheduled /\ taskQueue' # {}
     THEN RequestHostCallback /\ UNCHANGED isPerformingWork
     ELSE UNCHANGED loopVars
  /\ IF isHostCallbackScheduled \/ taskQueue' # {} \/ timerQueue' = {}
     THEN /\ hostTimeouts' = hostTimeouts \ {h}
          /\ UNCHANGED taskTimeoutID
     ELSE \E t \in TaskId :
            /\ IsPeek(sortIndex', timerQueue', t)
            /\ RequestHostTimeout(hostTimeouts \ {h}, startTime[t])
  /\ UNCHANGED <<now, callback, taskVars, stackVars, modeVars>>

\* Time passes, whatever the code is doing.
Tick ==
  /\ now < MaxTime
  /\ now' = now + 1
  /\ UNCHANGED <<callback, taskVars, queueVars, timeoutVars, loopVars,
                 stackVars, modeVars>>

-----------------------------------------------------------------------------
Next ==
  \/ \E p \in Priorities, d \in Delays : ScheduleCallback(p, d)
  \/ \E t \in TaskId : CancelCallback(t)
  \/ \E i \in FrameIntervals : ForceFrameRate(i)
  \/ PauseExecution
  \/ ContinueExecution
  \/ PerformWorkUntilDeadline
  \/ \E t \in TaskId : RunTask(t)
  \/ \E t \in TaskId : DropTask(t)
  \/ \E c \in BOOLEAN : TaskReturn(c)
  \/ TaskThrow
  \/ YieldToHost
  \/ FinishWork
  \/ \E h \in hostTimeouts : HandleTimeout(h)
  \/ Tick

Spec == Init /\ [][Next]_vars

(* Fairness.  The host delivers every posted message, and every expired      *)
(* timeout even when messages keep coming; the clock advances, and workLoop, *)
(* being straight-line code, does not stop between callbacks.  A callback is *)
(* user code: it may continue any number of times, but a task that is run    *)
(* again and again completes.                                                *)
Fairness ==
  /\ WF_vars(PerformWorkUntilDeadline)
  /\ \A t \in TaskId : WF_vars(RunTask(t)) /\ WF_vars(DropTask(t))
  /\ WF_vars(YieldToHost)
  /\ WF_vars(FinishWork)
  /\ \A id \in TimeoutId :
       SF_vars(\E h \in hostTimeouts : h.id = id /\ HandleTimeout(h))
  /\ WF_vars(Tick)
  /\ WF_vars(TaskReturn(FALSE) \/ TaskReturn(TRUE) \/ TaskThrow)
  /\ \A t \in TaskId : SF_vars(currentTask = t /\ TaskReturn(FALSE))

FairSpec == Spec /\ Fairness

-----------------------------------------------------------------------------
(* Properties *)

\* The message loop never runs twice and never stops by mistake: a message is
\* posted or being handled exactly while isMessageLoopRunning is set, there is
\* never a second one, and a requested host callback is one that will come.
OneMessageLoop ==
  /\ isPerformingWork <=> pc # "idle"
  /\ messages = IF pc = "idle" /\ isMessageLoopRunning THEN 1 ELSE 0
  /\ isPerformingWork => isMessageLoopRunning
  /\ isMessageLoopRunning <=> scheduledHostCallback
  /\ isHostCallbackScheduled => isMessageLoopRunning /\ ~isPerformingWork

\* No work is forgotten: a task whose callback is still to be called sits in
\* one of the queues, ordered there by the key of that queue, and the running
\* task stays in the task queue until its callback has returned.
NoLostTask ==
  /\ \A t \in TaskId : callback[t] => t \in taskQueue \cup timerQueue
  /\ \A t \in taskQueue : t \notin timerQueue /\ sortIndex[t] = expirationTime[t]
  /\ \A t \in timerQueue : sortIndex[t] = startTime[t]
  /\ pc = "callback" => currentTask \in taskQueue

\* No wakeup is lost: whenever the host is free, queued tasks have a message
\* on its way and every delayed task has a message or a timeout that fires
\* by its start time.
NoLostWakeup ==
  pc = "idle" =>
    /\ taskQueue # {} => messages = 1 /\ scheduledHostCallback
    /\ \A t \in timerQueue :
         messages = 1 \/ \E h \in hostTimeouts : h.at <= startTime[t]

\* isHostTimeoutScheduled is only set while the timeout that cancelHostTimeout
\* would clear is really pending, so clearing it never misses.
TimeoutFlagSound ==
  isHostTimeoutScheduled => \E h \in hostTimeouts : h.id = taskTimeoutID

\* A task that is ready to run at time `time` and not cancelled.
Ready(t, time) == callback[t] /\ startTime[t] <= time

\* When workLoop calls a callback, no ready task, delayed ones included, goes
\* before it in the order of expiration time and, among equals, of insertion.
PriorityRespected ==
  [][pc = "loop" /\ pc' = "callback" =>
       \A u \in TaskId : Ready(u, loopTime) /\ u # currentTask'
                           => Before(expirationTime, currentTask', u)]_vars

\* workLoop never gives the thread back while a task has already expired
\* (except when the debugger paused it).
NoExpiredTaskLeft ==
  [][pc = "loop" /\ pc' = "idle" =>
       \/ EnableSchedulerDebugging /\ isSchedulerPaused
       \/ \A u \in TaskId : Ready(u, loopTime) => expirationTime[u] > loopTime]_vars

\* The life of each task as its callers see it.
taskState ==
  [t \in TaskId |->
     IF t >= taskIdCounter THEN "new"
     ELSE IF pc = "callback" /\ currentTask = t THEN "running"
     ELSE IF callback[t] THEN "live" ELSE "dead"]

\* The scheduler implements the task service: callbacks never overlap, each
\* call answers one schedule or one continuation, a task that completed, threw
\* or was cancelled while it was not running never runs again.
Service == INSTANCE TaskService WITH Task <- TaskId, state <- taskState
ImplementsService == Service!Spec

\* No task starves: every task waiting for its (next) call is called or
\* cancelled, whatever is scheduled, cancelled or thrown around it.
NoStarvation == \A t \in TaskId : callback[t] ~> ~callback[t]

\* The loop winds down: once everything scheduled is done, the queues stay
\* empty and no timeout is left; the message loop comes to rest again and
\* again, however often unstable_continueExecution() wakes it.
WindsDown ==
  /\ <>[](taskQueue = {} /\ timerQueue = {} /\ hostTimeouts = {})
  /\ []<>(pc = "idle" /\ messages = 0)
=============================================================================
