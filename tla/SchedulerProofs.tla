--------------------------- MODULE SchedulerProofs ---------------------------
(***************************************************************************)
(* Proofs about the scheduler: Scheduler, for any number of tasks, any     *)
(* clock bound, any delays, priorities and timeouts, and SchedulerMinHeap, *)
(* however many nodes it holds.                                            *)
(*                                                                         *)
(* The invariants TLC checks are inductive only together: OneMessageLoop   *)
(* says that the message NoLostWakeup relies on is really posted, and      *)
(* NoLostTask that a popped timer was not also in the task queue.  Three   *)
(* more facts are needed, Handed (ids not handed out yet occur nowhere),   *)
(* Advanced (in workLoop no live timer is due at the loop's time) and      *)
(* Taken (the running task's callback was taken from it).                  *)
(*                                                                         *)
(* The second part proves that the array heap implements the priority      *)
(* queue: siftUp and siftDown restore the order of the heap, lose no node  *)
(* and copy none.                                                          *)
(***************************************************************************)
EXTENDS Scheduler, SchedulerMinHeap, WellFoundedInduction, TLAPS

\* A task that was not scheduled yet is in no queue and has no callback.
Handed ==
  \A t \in TaskId :
    callback[t] \/ t \in taskQueue \cup timerQueue => t < taskIdCounter

\* Inside workLoop every timer due at loopTime has moved to the task queue.
Advanced ==
  pc # "idle" =>
    /\ loopTime <= now
    /\ \A t \in timerQueue : callback[t] => startTime[t] > loopTime

\* workLoop took the callback of the task it is running.
Taken == pc = "callback" => ~callback[currentTask]

IInv ==
  /\ TypeOK
  /\ OneMessageLoop
  /\ NoLostTask
  /\ NoLostWakeup
  /\ TimeoutFlagSound
  /\ Handed
  /\ Advanced
  /\ Taken

-----------------------------------------------------------------------------
(* What advanceTimers does to the queues. *)

LEMMA AdvanceTimersLemma ==
  ASSUME TypeOK, NoLostTask,
         NEW tasks \in SUBSET taskQueue, NEW time \in Int,
         AdvanceTimers(tasks, time)
  PROVE  /\ taskQueue' \subseteq TaskId
         /\ timerQueue' \subseteq timerQueue
         /\ taskQueue' \subseteq tasks \cup timerQueue
         /\ tasks \subseteq taskQueue'
         /\ sortIndex' \in [TaskId -> Int]
         /\ \A t \in timerQueue' : callback[t] => startTime[t] > time
         /\ \A t \in timerQueue : callback[t] => t \in taskQueue' \cup timerQueue'
         /\ \A t \in taskQueue' :
              t \notin timerQueue' /\ sortIndex'[t] = expirationTime[t]
         /\ \A t \in timerQueue' : sortIndex'[t] = startTime[t]
<1> DEFINE fired == {t \in Reached(time) : callback[t]}
<1>1. Reached(time) \subseteq timerQueue /\ timerQueue \subseteq TaskId
      /\ taskQueue \subseteq TaskId
  BY DEF Reached, TypeOK
<1>2. /\ timerQueue' = timerQueue \ Reached(time)
      /\ taskQueue' = tasks \cup fired
      /\ sortIndex' = [t \in TaskId |-> IF t \in fired THEN expirationTime[t]
                                                      ELSE sortIndex[t]]
  BY DEF AdvanceTimers
<1>3. \A t \in timerQueue' : callback[t] => startTime[t] > time
  <2>1. SUFFICES ASSUME NEW t \in timerQueue, t \notin Reached(time), callback[t]
                 PROVE  startTime[t] > time
    BY <1>2
  <2>2. PICK u \in timerQueue : /\ u = t \/ Before(sortIndex, u, t)
                                /\ ~(startTime[u] <= time)
    BY <2>1 DEF Reached
  <2>3. startTime[u] <= startTime[t]
    BY <1>1, <2>2 DEF Before, NoLostTask, TypeOK, TaskId
  <2>. QED
    BY <1>1, <2>2, <2>3 DEF TypeOK
<1>4. \A t \in taskQueue' :
        t \notin timerQueue' /\ sortIndex'[t] = expirationTime[t]
  BY <1>1, <1>2 DEF NoLostTask
<1>5. \A t \in timerQueue' : sortIndex'[t] = startTime[t]
  BY <1>1, <1>2 DEF NoLostTask
<1>6. sortIndex' \in [TaskId -> Int]
  BY <1>2 DEF TypeOK
<1>. QED
  BY <1>1, <1>2, <1>3, <1>4, <1>5, <1>6

-----------------------------------------------------------------------------
(* Type correctness *)

LEMMA InitType == Init => TypeOK
<1> SUFFICES ASSUME Init PROVE TypeOK
  OBVIOUS
<1> USE SchedulerAssumption DEF SchedulerAssumption, Init, TaskId
<1>1. taskIdCounter \in 1..(MaxTasks + 1) /\ frameInterval \in Nat
  OBVIOUS
<1>2. /\ callback \in [TaskId -> BOOLEAN]
      /\ priorityLevel \in [TaskId -> 1..5]
  BY DEF NormalPriority
<1>3. /\ startTime \in [TaskId -> Int]
      /\ expirationTime \in [TaskId -> Int]
      /\ sortIndex \in [TaskId -> Int]
  OBVIOUS
<1>4. currentTask \in TaskId \cup {NoTask} /\ currentPriorityLevel \in 1..5
  BY DEF NoTask, NormalPriority
<1>5. /\ now \in Int /\ sliceStart \in Int /\ loopTime \in Int
      /\ messages \in Nat /\ pc \in {"idle", "loop", "callback"}
  BY DEF NoSlice
<1>6. /\ taskTimeoutID \in TimeoutId \cup {NoTimeout}
      /\ hostTimeouts \subseteq [id : TimeoutId, at : Int]
      /\ taskQueue \subseteq TaskId
      /\ timerQueue \subseteq TaskId
  OBVIOUS
<1>7. /\ isSchedulerPaused \in BOOLEAN
      /\ isPerformingWork \in BOOLEAN
      /\ isHostCallbackScheduled \in BOOLEAN
      /\ isHostTimeoutScheduled \in BOOLEAN
      /\ isMessageLoopRunning \in BOOLEAN
      /\ scheduledHostCallback \in BOOLEAN
  OBVIOUS
<1>. QED
  BY ONLY <1>1, <1>2, <1>3, <1>4, <1>5, <1>6, <1>7 DEF TypeOK

LEMMA RequestHostTimeoutType ==
  ASSUME NEW pending \in SUBSET [id : TimeoutId, at : Int], NEW at \in Int,
         RequestHostTimeout(pending, at)
  PROVE  /\ hostTimeouts' \subseteq [id : TimeoutId, at : Int]
         /\ taskTimeoutID' \in TimeoutId \cup {NoTimeout}
BY DEF RequestHostTimeout

LEMMA RequestHostCallbackType ==
  ASSUME TypeOK, RequestHostCallback
  PROVE  /\ isHostCallbackScheduled' \in BOOLEAN
         /\ scheduledHostCallback' \in BOOLEAN
         /\ isMessageLoopRunning' \in BOOLEAN
         /\ messages' \in Nat
BY DEF TypeOK, RequestHostCallback

LEMMA EndWorkType ==
  ASSUME TypeOK, NEW more \in BOOLEAN, EndWork(more)
  PROVE  /\ currentTask' = NoTask
         /\ currentPriorityLevel' \in 1..5
         /\ isPerformingWork' \in BOOLEAN
         /\ isMessageLoopRunning' \in BOOLEAN
         /\ isHostCallbackScheduled' \in BOOLEAN
         /\ scheduledHostCallback' \in BOOLEAN
         /\ pc' \in {"idle", "loop", "callback"}
         /\ messages' \in Nat
         /\ sliceStart' \in Int
         /\ loopTime' \in Int
<1>1. messages' \in Nat /\ currentPriorityLevel' \in 1..5
  BY DEF TypeOK, EndWork, NormalPriority
<1>2. isHostCallbackScheduled' \in BOOLEAN
  BY DEF TypeOK, EndWork
<1>3. /\ isPerformingWork' \in BOOLEAN /\ isMessageLoopRunning' \in BOOLEAN
      /\ scheduledHostCallback' \in BOOLEAN
  BY Zenon DEF EndWork
<1>4. sliceStart' \in Int /\ loopTime' \in Int
  BY DEF EndWork, NoSlice
<1>5. currentTask' = NoTask /\ pc' \in {"idle", "loop", "callback"}
  BY DEF EndWork
<1>. QED
  BY <1>1, <1>2, <1>3, <1>4, <1>5

\* TypeOK speaks of each variable alone; a step keeps the conjuncts of the
\* variables it leaves unchanged.
LEMMA NextType ==
  ASSUME IInv, Next PROVE TypeOK'
<1> USE SchedulerAssumption DEF SchedulerAssumption, TaskId, NoTask, NoSlice
<1>1. TypeOK
  BY DEF IInv
<1>2. ASSUME NEW p \in Priorities, NEW d \in Delays, ScheduleDelayed(p, d)
      PROVE  TypeOK'
  <2>1. now + d \in Int /\ Timeout[p] \in Int /\ p \in 1..5
    BY <1>1 DEF TypeOK
  <2>2. /\ taskIdCounter' \in 1..(MaxTasks + 1)
        /\ callback' \in [TaskId -> BOOLEAN]
        /\ priorityLevel' \in [TaskId -> 1..5]
    BY <1>1, <1>2, <2>1 DEF TypeOK, ScheduleDelayed, NewTask
  <2>3. /\ startTime' \in [TaskId -> Int]
        /\ expirationTime' \in [TaskId -> Int]
        /\ sortIndex' \in [TaskId -> Int]
        /\ timerQueue' \subseteq TaskId
    BY <1>1, <1>2, <2>1 DEF TypeOK, ScheduleDelayed, NewTask
  <2>4. /\ isHostTimeoutScheduled' \in BOOLEAN
        /\ hostTimeouts' \subseteq [id : TimeoutId, at : Int]
        /\ taskTimeoutID' \in TimeoutId \cup {NoTimeout}
    BY <1>1, <1>2, <2>1, RequestHostTimeoutType
       DEF TypeOK, ScheduleDelayed, WithoutHostTimeout, timeoutVars
  <2>. QED
    BY <1>1, <1>2, <2>2, <2>3, <2>4
       DEF TypeOK, ScheduleDelayed, loopVars, stackVars, modeVars
<1>3. ASSUME NEW p \in Priorities, ScheduleNow(p)
      PROVE  TypeOK'
  <2>1. Timeout[p] \in Int /\ p \in 1..5
    BY <1>1 DEF TypeOK
  <2>2. /\ taskIdCounter' \in 1..(MaxTasks + 1)
        /\ callback' \in [TaskId -> BOOLEAN]
        /\ priorityLevel' \in [TaskId -> 1..5]
        /\ startTime' \in [TaskId -> Int]
        /\ expirationTime' \in [TaskId -> Int]
        /\ sortIndex' \in [TaskId -> Int]
        /\ taskQueue' \subseteq TaskId
    BY <1>1, <1>3, <2>1 DEF TypeOK, ScheduleNow, NewTask
  <2>3. /\ isHostCallbackScheduled' \in BOOLEAN
        /\ scheduledHostCallback' \in BOOLEAN
        /\ isMessageLoopRunning' \in BOOLEAN
        /\ messages' \in Nat
        /\ isPerformingWork' \in BOOLEAN
    BY <1>1, <1>3, RequestHostCallbackType DEF TypeOK, ScheduleNow, loopVars
  <2>. QED
    BY <1>1, <1>3, <2>2, <2>3
       DEF TypeOK, ScheduleNow, timeoutVars, stackVars, modeVars
<1>4. ASSUME NEW t \in TaskId, CancelCallback(t)
      PROVE  TypeOK'
  BY <1>1, <1>4
     DEF TypeOK, CancelCallback, taskVars, queueVars, timeoutVars, loopVars,
         stackVars, modeVars
<1>5. ASSUME NEW i \in FrameIntervals, ForceFrameRate(i)
      PROVE  TypeOK'
  BY <1>1, <1>5
     DEF TypeOK, ForceFrameRate, taskVars, queueVars, timeoutVars, loopVars,
         stackVars
<1>6. ASSUME PauseExecution \/ ContinueExecution
      PROVE  TypeOK'
  <2>1. /\ isHostCallbackScheduled' \in BOOLEAN
        /\ scheduledHostCallback' \in BOOLEAN
        /\ isMessageLoopRunning' \in BOOLEAN
        /\ messages' \in Nat
        /\ isPerformingWork' \in BOOLEAN
    BY <1>1, <1>6, RequestHostCallbackType
       DEF TypeOK, PauseExecution, ContinueExecution, loopVars
  <2>. QED
    BY <1>1, <1>6, <2>1
       DEF TypeOK, PauseExecution, ContinueExecution, taskVars, queueVars,
           timeoutVars, stackVars
<1>7. ASSUME PerformWorkUntilDeadline
      PROVE  TypeOK'
  <2>1. /\ taskQueue' \subseteq TaskId
        /\ timerQueue' \subseteq TaskId
        /\ sortIndex' \in [TaskId -> Int]
    <3>1. CASE scheduledHostCallback
      BY <1>1, <1>7, <3>1, AdvanceTimersLemma
         DEF PerformWorkUntilDeadline, IInv, TypeOK
    <3>2. CASE ~scheduledHostCallback
      BY <1>1, <1>7, <3>2 DEF PerformWorkUntilDeadline, TypeOK, queueVars
    <3>. QED
      BY <3>1, <3>2
  <2>2. /\ isHostTimeoutScheduled' \in BOOLEAN
        /\ hostTimeouts' \subseteq [id : TimeoutId, at : Int]
        /\ taskTimeoutID' \in TimeoutId \cup {NoTimeout}
    BY <1>1, <1>7
       DEF TypeOK, PerformWorkUntilDeadline, WithoutHostTimeout, timeoutVars
  <2>3. /\ messages' \in Nat /\ sliceStart' \in Int /\ loopTime' \in Int
        /\ pc' \in {"idle", "loop", "callback"}
    BY <1>1, <1>7 DEF TypeOK, PerformWorkUntilDeadline
  <2>4. /\ isHostCallbackScheduled' \in BOOLEAN
        /\ isPerformingWork' \in BOOLEAN
        /\ isMessageLoopRunning' \in BOOLEAN
    BY <1>1, <1>7, Zenon DEF TypeOK, PerformWorkUntilDeadline
  <2>5. UNCHANGED <<now, callback, taskVars, scheduledHostCallback, currentTask,
                    currentPriorityLevel, modeVars>>
    BY <1>7 DEF PerformWorkUntilDeadline
  <2>. QED
    BY <1>1, <2>1, <2>2, <2>3, <2>4, <2>5 DEF TypeOK, taskVars, modeVars
<1>8. ASSUME NEW t \in TaskId, RunTask(t) \/ DropTask(t)
      PROVE  TypeOK'
  <2>1. /\ callback' \in [TaskId -> BOOLEAN]
        /\ currentTask' \in TaskId \cup {NoTask}
        /\ currentPriorityLevel' \in 1..5
        /\ pc' \in {"idle", "loop", "callback"}
        /\ taskQueue' \subseteq TaskId
    <3>1. CASE RunTask(t)
      BY <1>1, <3>1 DEF TypeOK, RunTask, queueVars
    <3>2. CASE DropTask(t)
      BY <1>1, <3>2 DEF TypeOK, DropTask, stackVars
    <3>. QED
      BY <1>8, <3>1, <3>2
  <2>2. UNCHANGED <<now, taskVars, sortIndex, timerQueue, timeoutVars, loopVars,
                    sliceStart, loopTime, modeVars>>
    BY <1>8 DEF RunTask, DropTask, queueVars, stackVars
  <2>. QED
    BY <1>1, <2>1, <2>2 DEF TypeOK, taskVars, timeoutVars, loopVars, modeVars
<1>9. ASSUME NEW c \in BOOLEAN, TaskReturn(c)
      PROVE  TypeOK'
  <2>1. PICK tasks \in SUBSET taskQueue : AdvanceTimers(tasks, now)
    BY <1>9 DEF TaskReturn
  <2>2. /\ taskQueue' \subseteq TaskId
        /\ timerQueue' \subseteq TaskId
        /\ sortIndex' \in [TaskId -> Int]
    BY <1>1, <2>1, AdvanceTimersLemma DEF IInv, TypeOK
  <2>. QED
    BY <1>1, <1>9, <2>2
       DEF TypeOK, TaskReturn, taskVars, timeoutVars, loopVars, modeVars
<1>10. ASSUME TaskThrow \/ YieldToHost
       PROVE  TypeOK'
  BY <1>1, <1>10, EndWorkType
     DEF TypeOK, TaskThrow, YieldToHost, taskVars, queueVars, timeoutVars,
         modeVars
<1>11. ASSUME FinishWork
       PROVE  TypeOK'
  <2>1. /\ hostTimeouts' \subseteq [id : TimeoutId, at : Int]
        /\ taskTimeoutID' \in TimeoutId \cup {NoTimeout}
        /\ isHostTimeoutScheduled' \in BOOLEAN
    <3>1. ASSUME NEW t \in TaskId, RequestHostTimeout(hostTimeouts, startTime[t])
          PROVE  /\ hostTimeouts' \subseteq [id : TimeoutId, at : Int]
                 /\ taskTimeoutID' \in TimeoutId \cup {NoTimeout}
      BY <1>1, <3>1, RequestHostTimeoutType DEF TypeOK
    <3>. QED
      BY <1>1, <1>11, <3>1 DEF FinishWork, timeoutVars, TypeOK
  <2>. QED
    BY <1>1, <1>11, <2>1, EndWorkType
       DEF TypeOK, FinishWork, taskVars, queueVars, modeVars
<1>12. ASSUME NEW h \in hostTimeouts, HandleTimeout(h)
       PROVE  TypeOK'
  <2>1. /\ taskQueue' \subseteq TaskId
        /\ timerQueue' \subseteq TaskId
        /\ sortIndex' \in [TaskId -> Int]
    BY <1>1, <1>12, AdvanceTimersLemma DEF HandleTimeout, IInv, TypeOK
  <2>2. /\ hostTimeouts' \subseteq [id : TimeoutId, at : Int]
        /\ taskTimeoutID' \in TimeoutId \cup {NoTimeout}
    <3>1. ASSUME NEW t \in TaskId,
                 RequestHostTimeout(hostTimeouts \ {h}, startTime[t])
          PROVE  /\ hostTimeouts' \subseteq [id : TimeoutId, at : Int]
                 /\ taskTimeoutID' \in TimeoutId \cup {NoTimeout}
      BY <1>1, <3>1, RequestHostTimeoutType DEF TypeOK
    <3>. QED
      BY <1>1, <1>12, <3>1 DEF HandleTimeout, TypeOK
  <2>3. /\ isHostCallbackScheduled' \in BOOLEAN
        /\ scheduledHostCallback' \in BOOLEAN
        /\ isMessageLoopRunning' \in BOOLEAN
        /\ messages' \in Nat
        /\ isPerformingWork' \in BOOLEAN
    BY <1>1, <1>12, RequestHostCallbackType DEF TypeOK, HandleTimeout, loopVars
  <2>. QED
    BY <1>1, <1>12, <2>1, <2>2, <2>3
       DEF TypeOK, HandleTimeout, taskVars, stackVars, modeVars
<1>13. ASSUME Tick
       PROVE  TypeOK'
  BY <1>1, <1>13
     DEF TypeOK, Tick, taskVars, queueVars, timeoutVars, loopVars, stackVars,
         modeVars
<1>. QED
  BY <1>2, <1>3, <1>4, <1>5, <1>6, <1>7, <1>8, <1>9, <1>10, <1>11, <1>12,
     <1>13 DEF Next, ScheduleCallback

-----------------------------------------------------------------------------
(* Each part of the invariant is kept by every step. *)

LEMMA NextMessageLoop ==
  ASSUME IInv, Next PROVE OneMessageLoop'
<1>1. TypeOK /\ OneMessageLoop
  BY DEF IInv
<1>2. ASSUME RequestHostCallback, UNCHANGED <<pc, isPerformingWork>>,
             ~isHostCallbackScheduled, pc = "idle" \/ ~isPerformingWork
      PROVE  OneMessageLoop'
  BY <1>1, <1>2 DEF TypeOK, OneMessageLoop, RequestHostCallback
<1>3. ASSUME NEW more \in BOOLEAN, EndWork(more), pc # "idle"
      PROVE  OneMessageLoop'
  <2>1. /\ isPerformingWork /\ isMessageLoopRunning /\ scheduledHostCallback
        /\ messages = 0 /\ ~isHostCallbackScheduled
    BY <1>1, <1>3 DEF OneMessageLoop
  <2>. QED
    BY <1>3, <2>1 DEF OneMessageLoop, EndWork
<1>4. ASSUME UNCHANGED <<loopVars, pc>>
      PROVE  OneMessageLoop'
  BY <1>1, <1>4 DEF OneMessageLoop, loopVars
<1>5. ASSUME NEW p \in Priorities, NEW d \in Delays, ScheduleDelayed(p, d)
      PROVE  OneMessageLoop'
  BY <1>4, <1>5 DEF ScheduleDelayed, stackVars
<1>6. ASSUME NEW p \in Priorities, ScheduleNow(p)
      PROVE  OneMessageLoop'
  BY <1>2, <1>4, <1>6 DEF ScheduleNow, stackVars
<1>7. ASSUME NEW t \in TaskId, CancelCallback(t)
      PROVE  OneMessageLoop'
  BY <1>4, <1>7 DEF CancelCallback, stackVars
<1>8. ASSUME NEW i \in FrameIntervals, ForceFrameRate(i)
      PROVE  OneMessageLoop'
  BY <1>4, <1>8 DEF ForceFrameRate, stackVars
<1>9. ASSUME PauseExecution \/ ContinueExecution
      PROVE  OneMessageLoop'
  BY <1>2, <1>4, <1>9 DEF PauseExecution, ContinueExecution, stackVars
<1>10. ASSUME PerformWorkUntilDeadline
       PROVE  OneMessageLoop'
  <2>1. messages = 1 /\ isMessageLoopRunning /\ scheduledHostCallback
    BY <1>1, <1>10 DEF OneMessageLoop, TypeOK, PerformWorkUntilDeadline
  <2>. QED
    BY <1>10, <2>1 DEF OneMessageLoop, PerformWorkUntilDeadline
<1>11. ASSUME NEW t \in TaskId, RunTask(t) \/ DropTask(t)
       PROVE  OneMessageLoop'
  BY <1>1, <1>11 DEF OneMessageLoop, RunTask, DropTask, loopVars, stackVars
<1>12. ASSUME NEW c \in BOOLEAN, TaskReturn(c)
       PROVE  OneMessageLoop'
  BY <1>1, <1>12 DEF OneMessageLoop, TaskReturn, loopVars
<1>13. ASSUME TaskThrow \/ YieldToHost \/ FinishWork
       PROVE  OneMessageLoop'
  BY <1>3, <1>13 DEF TaskThrow, YieldToHost, FinishWork
<1>14. ASSUME NEW h \in hostTimeouts, HandleTimeout(h)
       PROVE  OneMessageLoop'
  BY <1>2, <1>4, <1>14 DEF HandleTimeout, stackVars
<1>15. ASSUME Tick
       PROVE  OneMessageLoop'
  BY <1>4, <1>15 DEF Tick, stackVars
<1>. QED
  BY <1>5, <1>6, <1>7, <1>8, <1>9, <1>10, <1>11, <1>12, <1>13, <1>14, <1>15
     DEF Next, ScheduleCallback

LEMMA NextFlag ==
  ASSUME IInv, Next PROVE TimeoutFlagSound'
<1>1. TimeoutFlagSound
  BY DEF IInv
<1>2. ASSUME NEW pending, NEW at, RequestHostTimeout(pending, at)
      PROVE  TimeoutFlagSound'
  <2>1. PICK id \in TimeoutId :
          /\ hostTimeouts' = pending \cup {[id |-> id, at |-> at]}
          /\ taskTimeoutID' = id
    BY <1>2 DEF RequestHostTimeout
  <2>2. [id |-> id, at |-> at] \in hostTimeouts'
        /\ [id |-> id, at |-> at].id = taskTimeoutID'
    BY <2>1
  <2>. QED
    BY <2>2 DEF TimeoutFlagSound
<1>3. ASSUME UNCHANGED timeoutVars
      PROVE  TimeoutFlagSound'
  BY <1>1, <1>3 DEF TimeoutFlagSound, timeoutVars
<1>4. ASSUME isHostTimeoutScheduled' = FALSE
      PROVE  TimeoutFlagSound'
  BY <1>4 DEF TimeoutFlagSound
<1>5. ASSUME NEW p \in Priorities, NEW d \in Delays, ScheduleDelayed(p, d)
      PROVE  TimeoutFlagSound'
  BY <1>2, <1>3, <1>5 DEF ScheduleDelayed
<1>6. ASSUME PerformWorkUntilDeadline
      PROVE  TimeoutFlagSound'
  BY <1>3, <1>4, <1>6 DEF PerformWorkUntilDeadline
<1>7. ASSUME FinishWork
      PROVE  TimeoutFlagSound'
  BY <1>2, <1>3, <1>7 DEF FinishWork
<1>8. ASSUME NEW h \in hostTimeouts, HandleTimeout(h)
      PROVE  TimeoutFlagSound'
  BY <1>4, <1>8 DEF HandleTimeout
<1>9. ASSUME NEW t \in TaskId,
             CancelCallback(t) \/ RunTask(t) \/ DropTask(t)
      PROVE  TimeoutFlagSound'
  BY <1>3, <1>9 DEF CancelCallback, RunTask, DropTask
<1>11. ASSUME \/ PauseExecution \/ ContinueExecution \/ TaskThrow
              \/ YieldToHost \/ Tick
       PROVE  TimeoutFlagSound'
  BY <1>3, <1>11
     DEF PauseExecution, ContinueExecution, TaskThrow, YieldToHost, Tick
<1>13. ASSUME NEW c \in BOOLEAN, TaskReturn(c)
       PROVE  TimeoutFlagSound'
  BY <1>3, <1>13 DEF TaskReturn
<1>14. ASSUME NEW i \in FrameIntervals, ForceFrameRate(i)
       PROVE  TimeoutFlagSound'
  BY <1>3, <1>14 DEF ForceFrameRate
<1>15. ASSUME NEW p \in Priorities, ScheduleNow(p)
       PROVE  TimeoutFlagSound'
  BY <1>3, <1>15 DEF ScheduleNow
<1>. QED
  BY <1>5, <1>6, <1>7, <1>8, <1>9, <1>11, <1>13, <1>14, <1>15
     DEF Next, ScheduleCallback

\* The parts that speak of the queues go together.
Queues == NoLostTask /\ Handed /\ Advanced /\ Taken

LEMMA NextQueues ==
  ASSUME IInv, Next PROVE Queues'
<1> USE DEF TaskId, Queues
<1>1. /\ TypeOK /\ NoLostTask /\ Handed /\ Advanced /\ Taken /\ OneMessageLoop
      /\ taskQueue \subseteq TaskId /\ timerQueue \subseteq TaskId
  BY DEF IInv, TypeOK
<1>2. ASSUME UNCHANGED <<callback, taskVars, queueVars>>,
             UNCHANGED <<pc, currentTask, loopTime>> \/ pc' = "idle",
             now' \in Int, now' >= now
      PROVE  Queues'
  BY <1>1, <1>2
     DEF NoLostTask, Handed, Advanced, Taken, TypeOK, taskVars, queueVars
<1>3. ASSUME NEW p \in Priorities, NEW d \in Delays, ScheduleDelayed(p, d)
      PROVE  Queues'
  <2> DEFINE t == taskIdCounter
             start == now + d
  <2>1. /\ t \in TaskId /\ t = taskIdCounter
        /\ t \notin taskQueue \cup timerQueue /\ start > now
        /\ start \in Int /\ now \in Int
    BY <1>1, <1>3, SchedulerAssumption
       DEF SchedulerAssumption, ScheduleDelayed, NewTask, Handed, TypeOK
  <2>2. /\ taskIdCounter' = t + 1
        /\ callback' = [callback EXCEPT ![t] = TRUE]
        /\ startTime' = [startTime EXCEPT ![t] = start]
        /\ expirationTime' = [expirationTime EXCEPT ![t] = start + Timeout[p]]
        /\ sortIndex' = [sortIndex EXCEPT ![t] = start]
        /\ timerQueue' = timerQueue \cup {t}
        /\ UNCHANGED <<now, taskQueue, pc, currentTask, loopTime>>
    BY <1>3 DEF ScheduleDelayed, NewTask, stackVars
  <2> HIDE DEF t, start
  <2>3. NoLostTask'
    BY <1>1, <2>1, <2>2 DEF NoLostTask, TypeOK
  <2>4. Handed'
    BY <1>1, <2>1, <2>2 DEF Handed, TypeOK
  <2>5. Advanced' /\ Taken'
    BY <1>1, <2>1, <2>2 DEF Advanced, Taken, NoLostTask, TypeOK
  <2>. QED
    BY <2>3, <2>4, <2>5
<1>4. ASSUME NEW p \in Priorities, ScheduleNow(p)
      PROVE  Queues'
  <2> DEFINE t == taskIdCounter
             expiration == now + Timeout[p]
  <2>1. t \in TaskId /\ t = taskIdCounter /\ t \notin taskQueue \cup timerQueue
    BY <1>1, <1>4 DEF ScheduleNow, NewTask, Handed, TypeOK
  <2>2. /\ taskIdCounter' = t + 1
        /\ callback' = [callback EXCEPT ![t] = TRUE]
        /\ startTime' = [startTime EXCEPT ![t] = now]
        /\ expirationTime' = [expirationTime EXCEPT ![t] = expiration]
        /\ sortIndex' = [sortIndex EXCEPT ![t] = expiration]
        /\ taskQueue' = taskQueue \cup {t}
        /\ UNCHANGED <<now, timerQueue, pc, currentTask, loopTime>>
    BY <1>4 DEF ScheduleNow, NewTask, stackVars
  <2> HIDE DEF t, expiration
  <2>3. NoLostTask'
    BY <1>1, <2>1, <2>2 DEF NoLostTask, TypeOK
  <2>4. Handed'
    BY <1>1, <2>1, <2>2 DEF Handed, TypeOK
  <2>5. Advanced' /\ Taken'
    BY <1>1, <2>1, <2>2 DEF Advanced, Taken, NoLostTask, TypeOK
  <2>. QED
    BY <2>3, <2>4, <2>5
<1>5. ASSUME NEW t \in TaskId, CancelCallback(t)
      PROVE  Queues'
  <2>1. /\ callback' = [callback EXCEPT ![t] = FALSE]
        /\ UNCHANGED <<now, taskVars, queueVars, stackVars>>
    BY <1>5 DEF CancelCallback
  <2>. QED
    BY <1>1, <2>1
       DEF NoLostTask, Handed, Advanced, Taken, TypeOK, taskVars, queueVars, stackVars
<1>6. ASSUME NEW i \in FrameIntervals, ForceFrameRate(i)
      PROVE  Queues'
  BY <1>1, <1>2, <1>6 DEF ForceFrameRate, TypeOK, stackVars
<1>7. ASSUME PauseExecution \/ ContinueExecution
      PROVE  Queues'
  BY <1>1, <1>2, <1>7 DEF PauseExecution, ContinueExecution, TypeOK, stackVars
<1>8. ASSUME PerformWorkUntilDeadline
      PROVE  Queues'
  <2>1. /\ AdvanceTimers(taskQueue, now) /\ pc' = "loop" /\ loopTime' = now
        /\ UNCHANGED <<now, callback, taskVars>>
    BY <1>1, <1>8 DEF OneMessageLoop, PerformWorkUntilDeadline, TypeOK
  <2>2. NoLostTask' /\ Taken'
    BY <1>1, <2>1, AdvanceTimersLemma DEF NoLostTask, Taken, TypeOK, taskVars
  <2>3. Handed'
    BY <1>1, <2>1, AdvanceTimersLemma DEF Handed, TypeOK, taskVars
  <2>4. \A t \in timerQueue' : callback[t] => startTime[t] > now
    BY <1>1, <2>1, AdvanceTimersLemma DEF TypeOK
  <2>5. Advanced'
    BY <1>1, <2>1, <2>4 DEF Advanced, TypeOK, taskVars
  <2>. QED
    BY <2>2, <2>3, <2>5
<1>9. ASSUME NEW t \in TaskId, RunTask(t)
      PROVE  Queues'
  <2>1. /\ callback' = [callback EXCEPT ![t] = FALSE]
        /\ t \in taskQueue /\ currentTask' = t /\ pc = "loop" /\ pc' = "callback"
        /\ UNCHANGED <<now, taskVars, queueVars, loopTime>>
    BY <1>9 DEF RunTask, IsPeek
  <2>. QED
    BY <1>1, <2>1
       DEF NoLostTask, Handed, Advanced, Taken, TypeOK, taskVars, queueVars
<1>10. ASSUME NEW t \in TaskId, DropTask(t)
       PROVE  Queues'
  <2>1. /\ taskQueue' = taskQueue \ {t} /\ ~callback[t] /\ pc = "loop"
        /\ UNCHANGED <<now, callback, taskVars, sortIndex, timerQueue, stackVars>>
    BY <1>10 DEF DropTask
  <2>. QED
    BY <1>1, <2>1
       DEF NoLostTask, Handed, Advanced, Taken, TypeOK, taskVars, stackVars
<1>11. ASSUME NEW c \in BOOLEAN, TaskReturn(c)
       PROVE  Queues'
  <2> DEFINE tasks == IF ~c /\ IsPeek(sortIndex, taskQueue, currentTask)
                      THEN taskQueue \ {currentTask} ELSE taskQueue
  <2>1. /\ AdvanceTimers(tasks, now) /\ pc' = "loop" /\ loopTime' = now
        /\ callback' = IF c THEN [callback EXCEPT ![currentTask] = TRUE]
                            ELSE callback
        /\ currentTask \in taskQueue
        /\ UNCHANGED <<now, taskVars, currentTask>>
    BY <1>1, <1>11 DEF TaskReturn, NoLostTask
  <2>2. /\ ~callback[currentTask] /\ currentTask \notin timerQueue
        /\ tasks \in SUBSET taskQueue
        /\ taskQueue \subseteq tasks \cup {currentTask}
        /\ c => currentTask \in tasks
    BY <1>1, <1>11 DEF TaskReturn, Taken, NoLostTask
  <2> HIDE DEF tasks
  <2>3. /\ \A t \in TaskId : callback'[t] => callback[t] \/ (c /\ t = currentTask)
        /\ \A t \in timerQueue : callback'[t] <=> callback[t]
    BY <1>1, <2>1, <2>2 DEF TypeOK
  <2>4. /\ taskQueue' \subseteq TaskId
        /\ timerQueue' \subseteq timerQueue
        /\ taskQueue' \subseteq tasks \cup timerQueue
        /\ tasks \subseteq taskQueue'
        /\ \A t \in timerQueue' : callback[t] => startTime[t] > now
        /\ \A t \in timerQueue : callback[t] => t \in taskQueue' \cup timerQueue'
        /\ \A t \in taskQueue' :
             t \notin timerQueue' /\ sortIndex'[t] = expirationTime[t]
        /\ \A t \in timerQueue' : sortIndex'[t] = startTime[t]
    BY <1>1, <2>1, <2>2, AdvanceTimersLemma DEF TypeOK
  <2>5. UNCHANGED <<now, taskIdCounter, startTime, expirationTime, currentTask>>
    BY <2>1 DEF taskVars
  <2>6. NoLostTask'
    BY <1>1, <2>1, <2>2, <2>3, <2>4, <2>5 DEF NoLostTask
  <2>7. Handed'
    BY <1>1, <2>1, <2>2, <2>3, <2>4, <2>5 DEF Handed
  <2>8. Advanced' /\ Taken'
    <3>1. loopTime' <= now' /\ pc' # "callback"
      BY <1>1, <2>1 DEF TypeOK
    <3>2. \A t \in timerQueue' : callback'[t] => startTime'[t] > loopTime'
      BY <2>1, <2>3, <2>4, <2>5
    <3>. QED
      BY <3>1, <3>2 DEF Advanced, Taken
  <2>. QED
    BY <2>6, <2>7, <2>8
<1>12. ASSUME TaskThrow \/ YieldToHost \/ FinishWork
       PROVE  Queues'
  BY <1>1, <1>2, <1>12 DEF TaskThrow, YieldToHost, FinishWork, EndWork, TypeOK
<1>13. ASSUME NEW h \in hostTimeouts, HandleTimeout(h)
       PROVE  Queues'
  <2>1. /\ AdvanceTimers(taskQueue, now) /\ pc = "idle"
        /\ UNCHANGED <<now, callback, taskVars, stackVars>>
    BY <1>13 DEF HandleTimeout
  <2>. QED
    BY <1>1, <2>1, AdvanceTimersLemma
       DEF NoLostTask, Handed, Advanced, Taken, TypeOK, taskVars, stackVars
<1>14. ASSUME Tick
       PROVE  Queues'
  BY <1>1, <1>2, <1>14 DEF Tick, TypeOK, stackVars
<1>. QED
  BY <1>3, <1>4, <1>5, <1>6, <1>7, <1>8, <1>9, <1>10, <1>11, <1>12, <1>13, <1>14
     DEF Next, ScheduleCallback

LEMMA NextWakeup ==
  ASSUME IInv, Next PROVE NoLostWakeup'
<1>1. TypeOK /\ OneMessageLoop /\ NoLostTask /\ NoLostWakeup /\ Handed
  BY DEF IInv
<1>2. OneMessageLoop' /\ TypeOK'
  BY NextMessageLoop, NextType
<1>3. ASSUME isMessageLoopRunning' = TRUE
      PROVE  NoLostWakeup'
  BY <1>2, <1>3 DEF NoLostWakeup, OneMessageLoop
<1>4. ASSUME pc' # "idle"
      PROVE  NoLostWakeup'
  BY <1>4 DEF NoLostWakeup
<1>5. ASSUME UNCHANGED <<pc, taskQueue, timerQueue, startTime, hostTimeouts,
                         messages, scheduledHostCallback>>
      PROVE  NoLostWakeup'
  BY <1>1, <1>5 DEF NoLostWakeup
\* A timeout armed for the first timer serves all of them.
<1>6. ASSUME NEW pending, NEW t \in TaskId, taskQueue' = {},
             IsPeek(sortIndex', timerQueue', t),
             RequestHostTimeout(pending, startTime'[t])
      PROVE  NoLostWakeup'
  <2>1. PICK h \in hostTimeouts' : h.at = startTime'[t]
    <3>1. PICK id \in TimeoutId :
            hostTimeouts' = pending \cup {[id |-> id, at |-> startTime'[t]]}
      BY <1>6 DEF RequestHostTimeout
    <3>2. [id |-> id, at |-> startTime'[t]] \in hostTimeouts'
          /\ [id |-> id, at |-> startTime'[t]].at = startTime'[t]
      BY <3>1
    <3>. QED
      BY <3>2
  <2>2. NoLostTask'
    BY NextQueues DEF Queues
  <2>3. \A u \in timerQueue' : startTime'[t] <= startTime'[u]
    BY <1>2, <1>6, <2>2 DEF IsPeek, Before, NoLostTask, TypeOK
  <2>. QED
    BY <1>6, <2>1, <2>3 DEF NoLostWakeup
<1>7. ASSUME NEW p \in Priorities, NEW d \in Delays, ScheduleDelayed(p, d)
      PROVE  NoLostWakeup'
  <2> DEFINE t == taskIdCounter
  <2>1. /\ t \in TaskId /\ timerQueue' = timerQueue \cup {t}
        /\ startTime' = [startTime EXCEPT ![t] = now + d]
        /\ sortIndex' = [sortIndex EXCEPT ![t] = now + d]
        /\ t \notin timerQueue /\ now + d \in Int
        /\ UNCHANGED <<pc, messages, taskQueue, scheduledHostCallback>>
    BY <1>1, <1>7, SchedulerAssumption
       DEF SchedulerAssumption, ScheduleDelayed, NewTask, Handed, TypeOK,
           loopVars, stackVars
  <2>2. CASE taskQueue = {} /\ IsPeek(sortIndex', timerQueue', t)
    <3>1. PICK pending : RequestHostTimeout(pending, startTime'[t])
      BY <1>1, <1>7, <2>1, <2>2 DEF ScheduleDelayed, TypeOK
    <3>. QED
      BY <1>6, <2>1, <2>2, <3>1
  <2>3. CASE ~(taskQueue = {} /\ IsPeek(sortIndex', timerQueue', t))
    <3>1. hostTimeouts' = hostTimeouts
      BY <1>7, <2>3 DEF ScheduleDelayed, timeoutVars
    <3>2. \A u \in timerQueue : startTime'[u] = startTime[u]
      BY <1>1, <2>1 DEF TypeOK
    <3>3. CASE taskQueue # {}
      BY <1>1, <2>1, <3>1, <3>3 DEF NoLostWakeup
    <3>4. CASE taskQueue = {}
      <4>1. PICK u \in timerQueue' \ {t} : ~Before(sortIndex', t, u)
        BY <2>1, <2>3, <3>4 DEF IsPeek
      <4>2. u \in timerQueue /\ startTime[u] <= now + d
        BY <1>1, <2>1, <4>1 DEF Before, NoLostTask, TypeOK
      <4>3. \A g \in hostTimeouts : g.at <= startTime[u] => g.at <= now + d
        BY <1>1, <2>1, <4>2 DEF TypeOK
      <4>4. startTime'[t] = now + d
        BY <1>1, <2>1 DEF TypeOK
      <4>. QED
        BY <1>1, <2>1, <3>1, <3>2, <3>4, <4>2, <4>3, <4>4 DEF NoLostWakeup
    <3>. QED
      BY <3>3, <3>4
  <2>. QED
    BY <2>2, <2>3
<1>8. ASSUME NEW p \in Priorities, ScheduleNow(p)
      PROVE  NoLostWakeup'
  <2>1. CASE pc # "idle"
    BY <1>4, <1>8, <2>1 DEF ScheduleNow, stackVars
  <2>2. CASE pc = "idle"
    <3>1. ~isPerformingWork
      BY <1>1, <2>2 DEF OneMessageLoop
    <3>2. isMessageLoopRunning' = TRUE
      BY <1>1, <1>8, <3>1
         DEF ScheduleNow, RequestHostCallback, OneMessageLoop, loopVars, TypeOK
    <3>. QED
      BY <1>3, <3>2
  <2>. QED
    BY <2>1, <2>2
<1>9. ASSUME NEW t \in TaskId, CancelCallback(t)
      PROVE  NoLostWakeup'
  BY <1>5, <1>9
     DEF CancelCallback, taskVars, queueVars, timeoutVars, loopVars, stackVars
<1>10. ASSUME NEW i \in FrameIntervals, ForceFrameRate(i)
       PROVE  NoLostWakeup'
  BY <1>5, <1>10
     DEF ForceFrameRate, taskVars, queueVars, timeoutVars, loopVars, stackVars
<1>11. ASSUME PauseExecution
       PROVE  NoLostWakeup'
  BY <1>5, <1>11
     DEF PauseExecution, taskVars, queueVars, timeoutVars, loopVars, stackVars
<1>12. ASSUME ContinueExecution
       PROVE  NoLostWakeup'
  <2>1. CASE ~isHostCallbackScheduled /\ ~isPerformingWork
    BY <1>3, <1>12, <2>1 DEF ContinueExecution, RequestHostCallback
  <2>2. CASE ~(~isHostCallbackScheduled /\ ~isPerformingWork)
    BY <1>5, <1>12, <2>2
       DEF ContinueExecution, taskVars, queueVars, timeoutVars, loopVars,
           stackVars
  <2>. QED
    BY <2>1, <2>2
<1>13. ASSUME PerformWorkUntilDeadline
       PROVE  NoLostWakeup'
  <2>1. scheduledHostCallback
    BY <1>1, <1>13 DEF OneMessageLoop, PerformWorkUntilDeadline, TypeOK
  <2>. QED
    BY <1>4, <1>13, <2>1 DEF PerformWorkUntilDeadline
<1>14. ASSUME NEW t \in TaskId, RunTask(t) \/ DropTask(t)
       PROVE  NoLostWakeup'
  BY <1>4, <1>14 DEF RunTask, DropTask, stackVars
<1>15. ASSUME NEW c \in BOOLEAN, TaskReturn(c)
       PROVE  NoLostWakeup'
  BY <1>4, <1>15 DEF TaskReturn
<1>16. ASSUME TaskThrow \/ YieldToHost
       PROVE  NoLostWakeup'
  BY <1>3, <1>16 DEF TaskThrow, YieldToHost, EndWork
<1>17. ASSUME FinishWork
       PROVE  NoLostWakeup'
  <2>1. taskQueue' = {} /\ UNCHANGED <<timerQueue, sortIndex, startTime>>
    BY <1>17 DEF FinishWork, queueVars, taskVars
  <2>2. CASE timerQueue = {}
    BY <2>1, <2>2 DEF NoLostWakeup
  <2>3. ASSUME NEW t \in TaskId, IsPeek(sortIndex, timerQueue, t),
               RequestHostTimeout(hostTimeouts, startTime[t])
        PROVE  NoLostWakeup'
    BY <1>6, <2>1, <2>3
  <2>. QED
    BY <1>17, <2>2, <2>3 DEF FinishWork
<1>18. ASSUME NEW h \in hostTimeouts, HandleTimeout(h)
       PROVE  NoLostWakeup'
  <2>1. CASE isMessageLoopRunning'
    BY <1>2, <2>1 DEF NoLostWakeup, OneMessageLoop
  <2>2. CASE ~isMessageLoopRunning'
    <3>1. ~isHostCallbackScheduled /\ taskQueue' = {}
      BY <1>1, <1>18, <2>2
         DEF HandleTimeout, RequestHostCallback, OneMessageLoop, loopVars
    <3>2. CASE timerQueue' = {}
      BY <3>1, <3>2 DEF NoLostWakeup
    <3>3. CASE timerQueue' # {}
      <4>1. PICK t \in TaskId :
              /\ IsPeek(sortIndex', timerQueue', t)
              /\ RequestHostTimeout(hostTimeouts \ {h}, startTime[t])
        BY <1>18, <3>1, <3>3 DEF HandleTimeout
      <4>2. startTime' = startTime
        BY <1>18 DEF HandleTimeout, taskVars
      <4>. QED
        BY <1>6, <3>1, <4>1, <4>2
    <3>. QED
      BY <3>2, <3>3
  <2>. QED
    BY <2>1, <2>2
<1>19. ASSUME Tick
       PROVE  NoLostWakeup'
  BY <1>5, <1>19 DEF Tick, taskVars, queueVars, timeoutVars, loopVars, stackVars
<1>. QED
  BY <1>7, <1>8, <1>9, <1>10, <1>11, <1>12, <1>13, <1>14, <1>15, <1>16, <1>17,
     <1>18, <1>19 DEF Next, ScheduleCallback

-----------------------------------------------------------------------------
(* The safety theorems *)

LEMMA InitInv == Init => IInv
BY InitType
   DEF Init, IInv, OneMessageLoop, NoLostTask, NoLostWakeup, TimeoutFlagSound,
       Handed, Advanced, Taken

LEMMA NextInv == IInv /\ [Next]_vars => IInv'
<1>1. CASE IInv /\ Next
  BY <1>1, NextType, NextMessageLoop, NextQueues, NextWakeup, NextFlag
     DEF IInv, Queues
<1>2. CASE IInv /\ UNCHANGED vars
  BY <1>2
     DEF vars, taskVars, queueVars, timeoutVars, loopVars, stackVars, modeVars,
         IInv, TypeOK, OneMessageLoop, NoLostTask, NoLostWakeup,
         TimeoutFlagSound, Handed, Advanced, Taken, IsPeek
<1>. QED
  BY <1>1, <1>2

\* Every reachable state satisfies the inductive invariant.
THEOREM Invariance == Spec => []IInv
BY InitInv, NextInv, PTL DEF Spec

\* Every variable keeps its type.
THEOREM TypeCorrect == Spec => []TypeOK
BY Invariance, PTL DEF IInv

\* At most one message of the loop exists, and the flags of the loop tell the
\* truth about it: scheduleCallback, continueExecution and handleTimeout never
\* post a second one, and none of them believes in one that will not come.
THEOREM MessageLoopUnique == Spec => []OneMessageLoop
BY Invariance, PTL DEF IInv

\* advanceTimers, the pops of workLoop and cancellation never lose a task that
\* is still to be called, nor leave it under the key of the other queue.
THEOREM TasksAreKept == Spec => []NoLostTask
BY Invariance, PTL DEF IInv

\* Whenever the host is free, queued tasks have a message on its way and each
\* delayed task a message or a host timeout armed for its start at the latest.
THEOREM WakeupsAreKept == Spec => []NoLostWakeup
BY Invariance, PTL DEF IInv

\* While isHostTimeoutScheduled is set, taskTimeoutID names a pending timeout.
THEOREM TimeoutFlagIsSound == Spec => []TimeoutFlagSound
BY Invariance, PTL DEF IInv

-----------------------------------------------------------------------------
(* What workLoop may do next *)

\* A live task that is due at the loop's time is in the task queue.
LEMMA ReadyIsQueued ==
  ASSUME IInv, pc # "idle", NEW u \in TaskId, Ready(u, loopTime)
  PROVE  u \in taskQueue
<1>1. callback[u] /\ ~(startTime[u] > loopTime)
  BY DEF Ready, IInv, TypeOK
<1>. QED
  BY <1>1 DEF IInv, NoLostTask, Advanced

\* workLoop calls the callback of the ready task that comes first by
\* expiration time and insertion, delayed tasks included.
THEOREM PriorityIsRespected == Spec => PriorityRespected
<1> DEFINE A == pc = "loop" /\ pc' = "callback" =>
                  \A u \in TaskId : Ready(u, loopTime) /\ u # currentTask'
                                      => Before(expirationTime, currentTask', u)
<1>1. ASSUME IInv, Next PROVE A
  <2>1. SUFFICES ASSUME pc = "loop", pc' = "callback", NEW u \in TaskId,
                        Ready(u, loopTime), u # currentTask'
                 PROVE  Before(expirationTime, currentTask', u)
    OBVIOUS
  <2>2. PICK t \in TaskId : RunTask(t)
    BY <1>1, <2>1
       DEF Next, ScheduleCallback, ScheduleDelayed, ScheduleNow, CallerRuns,
           CancelCallback, ForceFrameRate, PauseExecution, ContinueExecution,
           PerformWorkUntilDeadline, DropTask, TaskReturn, TaskThrow,
           YieldToHost, FinishWork, EndWork, HandleTimeout, Tick, stackVars
  <2>3. t \in taskQueue /\ u \in taskQueue /\ currentTask' = t
        /\ Before(sortIndex, t, u)
    BY <1>1, <2>1, <2>2, ReadyIsQueued DEF RunTask, IsPeek
  <2>. QED
    BY <1>1, <2>3 DEF IInv, NoLostTask, Before
<1>2. ASSUME UNCHANGED vars PROVE A
  BY <1>2 DEF vars, stackVars
<1>3. IInv /\ [Next]_vars => [A]_vars
  BY <1>1, <1>2
<1>. QED
  BY <1>3, Invariance, PTL DEF Spec, PriorityRespected

\* workLoop gives the thread back only when no task that is due has expired.
THEOREM ExpiredTasksRun == Spec => NoExpiredTaskLeft
<1> DEFINE A == pc = "loop" /\ pc' = "idle" =>
                  \/ EnableSchedulerDebugging /\ isSchedulerPaused
                  \/ \A u \in TaskId :
                       Ready(u, loopTime) => expirationTime[u] > loopTime
<1>1. ASSUME IInv, Next PROVE A
  <2>1. SUFFICES ASSUME pc = "loop", pc' = "idle", NEW u \in TaskId,
                        ~(EnableSchedulerDebugging /\ isSchedulerPaused),
                        Ready(u, loopTime)
                 PROVE  expirationTime[u] > loopTime
    OBVIOUS
  <2>2. u \in taskQueue
    BY <1>1, <2>1, ReadyIsQueued
  <2>3. YieldToHost
    BY <1>1, <2>1, <2>2
       DEF Next, ScheduleCallback, ScheduleDelayed, ScheduleNow, CallerRuns,
           CancelCallback, ForceFrameRate, PauseExecution, ContinueExecution,
           PerformWorkUntilDeadline, RunTask, DropTask, TaskReturn, TaskThrow,
           FinishWork, HandleTimeout, Tick, stackVars
  <2>4. PICK t \in TaskId : IsPeek(sortIndex, taskQueue, t) /\ MustStop(t)
    BY <2>3 DEF YieldToHost
  <2>5. expirationTime[t] > loopTime
    BY <2>1, <2>4 DEF MustStop
  <2>6. expirationTime[t] <= expirationTime[u]
    BY <1>1, <2>2, <2>4 DEF IInv, TypeOK, NoLostTask, IsPeek, Before
  <2>. QED
    BY <1>1, <2>5, <2>6 DEF IInv, TypeOK
<1>2. ASSUME UNCHANGED vars PROVE A
  BY <1>2 DEF vars, stackVars
<1>3. IInv /\ [Next]_vars => [A]_vars
  BY <1>1, <1>2
<1>. QED
  BY <1>3, Invariance, PTL DEF Spec, NoExpiredTaskLeft

-----------------------------------------------------------------------------
(* The scheduler implements the task service *)

\* A step that changes no task's life is a stutter of the service.
LEMMA ServiceStutter ==
  ASSUME UNCHANGED <<callback, taskIdCounter>>,
         \/ UNCHANGED <<pc, currentTask>>
         \/ pc # "callback" /\ pc' # "callback"
  PROVE  taskState' = taskState
BY DEF taskState

\* A step that moves task t alone moves it in the service.
LEMMA ServiceMove ==
  ASSUME NEW t \in TaskId, NEW to,
         taskState'[t] = to,
         \A u \in TaskId \ {t} : taskState'[u] = taskState[u]
  PROVE  taskState' = [taskState EXCEPT ![t] = to]
BY DEF taskState

LEMMA ServiceStep ==
  ASSUME IInv, Next PROVE Service!Next \/ taskState' = taskState
<1> USE DEF TaskId
<1>1. /\ TypeOK /\ NoLostTask /\ Handed /\ Taken
      /\ taskQueue \subseteq TaskId /\ timerQueue \subseteq TaskId
  BY DEF IInv, TypeOK
<1>2. ASSUME NEW p \in Priorities, NEW start, NEW index,
             NewTask(p, start, index), UNCHANGED stackVars
      PROVE  Service!Next
  <2> DEFINE t == taskIdCounter
  <2>1. /\ t \in TaskId /\ taskIdCounter' = t + 1
        /\ callback' = [callback EXCEPT ![t] = TRUE]
        /\ UNCHANGED <<pc, currentTask>>
    BY <1>2 DEF NewTask, stackVars
  <2>2. pc = "callback" => currentTask \in TaskId /\ currentTask < t
    BY <1>1 DEF NoLostTask, Handed
  <2>3. taskState[t] = "new" /\ taskState'[t] = "live"
    BY <1>1, <2>1, <2>2 DEF taskState, TypeOK
  <2>4. \A u \in TaskId \ {t} : taskState'[u] = taskState[u]
    BY <1>1, <2>1 DEF taskState, TypeOK
  <2>5. Service!Schedule(t)
    BY <2>1, <2>3, <2>4, ServiceMove DEF Service!Schedule, Service!Move
  <2>. QED
    BY <2>1, <2>5 DEF Service!Next
<1>3. ASSUME NEW p \in Priorities, NEW d \in Delays,
             ScheduleDelayed(p, d) \/ ScheduleNow(p)
      PROVE  Service!Next
  BY <1>2, <1>3 DEF ScheduleDelayed, ScheduleNow
<1>4. ASSUME NEW t \in TaskId, CancelCallback(t)
      PROVE  Service!Next \/ taskState' = taskState
  <2>1. /\ callback' = [callback EXCEPT ![t] = FALSE] /\ t < taskIdCounter
        /\ UNCHANGED <<taskIdCounter, pc, currentTask>>
    BY <1>4 DEF CancelCallback, taskVars, stackVars
  <2>2. \A u \in TaskId \ {t} : taskState'[u] = taskState[u]
    BY <1>1, <2>1 DEF taskState, TypeOK
  <2>3. CASE callback[t] /\ ~(pc = "callback" /\ currentTask = t)
    <3>1. taskState[t] = "live" /\ taskState'[t] = "dead"
      BY <1>1, <2>1, <2>3 DEF taskState, TypeOK
    <3>2. Service!Cancel(t)
      BY <2>2, <3>1, ServiceMove DEF Service!Cancel, Service!Move
    <3>. QED
      BY <3>2 DEF Service!Next
  <2>4. CASE ~(callback[t] /\ ~(pc = "callback" /\ currentTask = t))
    <3>1. taskState'[t] = taskState[t]
      BY <1>1, <2>1, <2>4 DEF taskState, TypeOK
    <3>. QED
      BY <2>2, <3>1 DEF taskState
  <2>. QED
    BY <2>3, <2>4
<1>5. ASSUME NEW t \in TaskId, RunTask(t)
      PROVE  Service!Next
  <2>1. /\ callback' = [callback EXCEPT ![t] = FALSE] /\ t < taskIdCounter
        /\ callback[t] /\ pc = "loop" /\ pc' = "callback" /\ currentTask' = t
        /\ UNCHANGED taskIdCounter
    BY <1>1, <1>5 DEF RunTask, taskVars, Handed
  <2>2. \A u \in TaskId : taskState[u] # "running"
    BY <2>1 DEF taskState
  <2>3. taskState[t] = "live" /\ taskState'[t] = "running"
    BY <1>1, <2>1 DEF taskState, TypeOK
  <2>4. \A u \in TaskId \ {t} : taskState'[u] = taskState[u]
    BY <1>1, <2>1 DEF taskState, TypeOK
  <2>5. Service!Start(t)
    BY <2>2, <2>3, <2>4, ServiceMove DEF Service!Start, Service!Move
  <2>. QED
    BY <2>5 DEF Service!Next
<1>6. ASSUME NEW c \in BOOLEAN, TaskReturn(c) \/ (c = FALSE /\ TaskThrow)
      PROVE  Service!Next
  <2> DEFINE t == currentTask
  <2>1. /\ pc = "callback" /\ pc' # "callback"
        /\ callback' = IF c THEN [callback EXCEPT ![t] = TRUE] ELSE callback
        /\ UNCHANGED taskIdCounter
    BY <1>6 DEF TaskReturn, TaskThrow, EndWork, taskVars
  <2>2. t \in TaskId /\ t < taskIdCounter /\ ~callback[t]
    BY <1>1, <2>1 DEF NoLostTask, Handed, Taken
  <2>3. taskState[t] = "running" /\ taskState'[t] = IF c THEN "live" ELSE "dead"
    BY <1>1, <2>1, <2>2 DEF taskState, TypeOK
  <2>4. \A u \in TaskId \ {t} : taskState'[u] = taskState[u]
    BY <1>1, <2>1, <2>2 DEF taskState, TypeOK
  <2>5. Service!Continue(t) \/ Service!End(t)
    BY <2>2, <2>3, <2>4, ServiceMove
       DEF Service!Continue, Service!End, Service!Move
  <2>. QED
    BY <2>2, <2>5 DEF Service!Next
<1>7. ASSUME NEW t \in TaskId, DropTask(t)
      PROVE  taskState' = taskState
  BY <1>7, ServiceStutter DEF DropTask, taskVars, stackVars
<1>8. ASSUME NEW i \in FrameIntervals, ForceFrameRate(i)
      PROVE  taskState' = taskState
  BY <1>8, ServiceStutter DEF ForceFrameRate, taskVars, stackVars
<1>9. ASSUME \/ PauseExecution \/ ContinueExecution \/ Tick
             \/ PerformWorkUntilDeadline \/ YieldToHost \/ FinishWork
      PROVE  taskState' = taskState
  <2>1. UNCHANGED <<callback, taskIdCounter>>
    BY <1>9
       DEF PauseExecution, ContinueExecution, Tick, PerformWorkUntilDeadline,
           YieldToHost, FinishWork, taskVars
  <2>2. \/ UNCHANGED <<pc, currentTask>>
        \/ pc # "callback" /\ pc' # "callback"
    BY <1>9
       DEF PauseExecution, ContinueExecution, Tick, PerformWorkUntilDeadline,
           YieldToHost, FinishWork, EndWork, stackVars
  <2>. QED
    BY <2>1, <2>2, ServiceStutter
<1>10. ASSUME NEW h \in hostTimeouts, HandleTimeout(h)
       PROVE  taskState' = taskState
  BY <1>10, ServiceStutter DEF HandleTimeout, taskVars, stackVars
<1>. QED
  BY <1>3, <1>4, <1>5, <1>6, <1>7, <1>8, <1>9, <1>10
     DEF Next, ScheduleCallback

\* The scheduler implements the task service: through every delay, timeout,
\* slice and throw, calls never overlap, each answers one schedule or one
\* continuation, and a finished or cancelled task does not come back.
THEOREM Implementation == Spec => ImplementsService
<1>1. Init => Service!Init
  BY DEF Init, Service!Init, taskState, TaskId
<1>2. IInv /\ [Next]_vars => [Service!Next]_taskState
  <2>1. CASE IInv /\ Next
    BY <2>1, ServiceStep
  <2>2. CASE UNCHANGED vars
    BY <2>2, ServiceStutter DEF vars, taskVars, stackVars
  <2>. QED
    BY <2>1, <2>2
<1>. QED
  BY <1>1, <1>2, Invariance, PTL DEF Spec, ImplementsService, Service!Spec

-----------------------------------------------------------------------------
(* Loops.  A loop over the states S stops at a state s where stop[s] holds,  *)
(* with the result out[s], and goes on from next[s] elsewhere.  The measure  *)
(* m[s] bounds the steps that are left.                                      *)

Ends(S, stop, next, m) ==
  /\ stop \in [S -> BOOLEAN] /\ next \in [S -> S] /\ m \in [S -> Nat]
  /\ \A s \in S : ~stop[s] => m[next[s]] < m[s]

Closed(D, stop, next) == \A s \in D : ~stop[s] => next[s] \in D

Runs(f, D, stop, next, out) ==
  \A s \in D : f[s] = IF stop[s] THEN out[s] ELSE f[next[s]]

\* A non-empty set of numbers has a least element.
LEMMA LeastElement ==
  ASSUME NEW Z, Z \subseteq Nat, Z # {}
  PROVE  \E n \in Z : \A k \in Z : n <= k
<1>1. PICK n \in Z : \A k \in Z : ~(<<k, n>> \in OpToRel(<, Nat))
  BY NatLessThanWellFounded, WFMin
<1>2. \A k \in Z : ~(k < n)
  BY <1>1 DEF OpToRel
<1> QED BY <1>2

\* Induction, for a set of numbers.
LEMMA InductiveSet ==
  ASSUME NEW Z, 0 \in Z, \A n \in Nat : n \in Z => n + 1 \in Z
  PROVE  \A n \in Nat : n \in Z
<1> DEFINE Rest == {n \in Nat : n \notin Z}
<1>1. SUFFICES ASSUME Rest # {}
               PROVE  FALSE
  OBVIOUS
<1>2. PICK n \in Rest : \A k \in Rest : n <= k
  BY <1>1, LeastElement
<1>3. n # 0 /\ n - 1 \in Nat /\ n - 1 \notin Rest
  BY <1>2
<1>4. (n - 1) + 1 \in Z
  BY <1>3
<1> QED BY <1>2, <1>4

\* Two runs of a loop agree.
LEMMA RunsAgree ==
  ASSUME NEW S, NEW stop, NEW next, NEW out, NEW m, Ends(S, stop, next, m),
         NEW C, NEW D, C \subseteq S, D \subseteq S,
         Closed(C, stop, next), Closed(D, stop, next),
         NEW f, NEW g, Runs(f, C, stop, next, out), Runs(g, D, stop, next, out)
  PROVE  \A s \in C \cap D : f[s] = g[s]
<1> USE DEF Ends
<1> DEFINE Apart == {s \in C \cap D : f[s] # g[s]}
           Measures == {m[s] : s \in Apart}
<1>1. SUFFICES ASSUME Apart # {}
               PROVE  FALSE
  OBVIOUS
<1>2. Measures \subseteq Nat /\ Measures # {}
  BY <1>1
<1>3. PICK k \in Measures : \A l \in Measures : k <= l
  <2> HIDE DEF Measures
  <2> QED BY <1>2, LeastElement
<1>4. PICK s \in Apart : k = m[s]
  BY <1>3
<1>5. CASE stop[s]
  BY <1>4, <1>5 DEF Runs
<1>6. CASE ~stop[s]
  <2>1. next[s] \in C \cap D /\ f[s] = f[next[s]] /\ g[s] = g[next[s]]
    BY <1>4, <1>6 DEF Runs, Closed
  <2>2. next[s] \in Apart
    BY <1>4, <2>1
  <2>3. m[next[s]] \in Measures /\ m[next[s]] \in Nat /\ m[s] \in Nat
    BY <2>2
  <2>4. k <= m[next[s]] /\ m[next[s]] < m[s]
    BY <1>3, <1>4, <1>6, <2>3
  <2> QED BY <1>4, <2>3, <2>4
<1> QED BY <1>5, <1>6

\* A loop whose measure decreases has a run.
LEMMA LoopRuns ==
  ASSUME NEW S, NEW stop, NEW next, NEW out, NEW m, Ends(S, stop, next, m)
  PROVE  \E f : f = [s \in S |-> IF stop[s] THEN out[s] ELSE f[next[s]]]
<1> USE DEF Ends
<1> DEFINE Below(n) == {s \in S : m[s] < n}
           Run(n, f) == Runs(f, Below(n), stop, next, out)
           Z == {n \in Nat : \E f : Run(n, f)}
<1>1. \A n \in Nat : Closed(Below(n), stop, next)
  <2> SUFFICES ASSUME NEW n \in Nat, NEW s \in Below(n), ~stop[s]
               PROVE  next[s] \in Below(n)
    BY DEF Closed
  <2>1. s \in S /\ m[s] < n /\ m[s] \in Nat /\ next[s] \in S /\ m[next[s]] \in Nat
    OBVIOUS
  <2> QED BY <2>1
<1>2. 0 \in Z
  <2>1. Below(0) = {}
    OBVIOUS
  <2>2. Run(0, <<>>)
    BY <2>1 DEF Runs
  <2> QED BY <2>2
<1>3. ASSUME NEW n \in Nat, n \in Z
      PROVE  n + 1 \in Z
  <2>1. PICK f : Run(n, f)
    BY <1>3
  <2> DEFINE g == [s \in S |-> IF stop[s] THEN out[s] ELSE f[next[s]]]
  <2>2. \A s \in Below(n) : g[s] = f[s]
    BY <2>1 DEF Runs
  <2>3. ASSUME NEW s \in Below(n + 1), ~stop[s]
        PROVE  next[s] \in Below(n)
    <3>1. s \in S /\ m[s] < n + 1 /\ m[s] \in Nat /\ next[s] \in S /\ m[next[s]] \in Nat
      OBVIOUS
    <3>2. m[next[s]] < m[s]
      BY <2>3, <3>1
    <3> QED BY <3>1, <3>2
  <2>4. Run(n + 1, g)
    BY <2>2, <2>3 DEF Runs
  <2> QED BY <2>4
<1>4. \A n \in Nat : \E f : Run(n, f)
  <2>1. \A n \in Nat : n \in Z
    <3> HIDE DEF Z
    <3> QED BY <1>2, <1>3, InductiveSet
  <2> QED BY <2>1
<1> DEFINE F(n) == CHOOSE f : Run(n, f)
<1>5. \A n \in Nat : Run(n, F(n))
  <2> HIDE DEF Run
  <2> QED BY <1>4
<1>6. \A k, n \in Nat : \A s \in Below(k) \cap Below(n) : F(k)[s] = F(n)[s]
  <2> SUFFICES ASSUME NEW k \in Nat, NEW n \in Nat
               PROVE  \A s \in Below(k) \cap Below(n) : F(k)[s] = F(n)[s]
    OBVIOUS
  <2>1. Run(k, F(k)) /\ Run(n, F(n))
    BY <1>5
  <2>2. Below(k) \subseteq S /\ Below(n) \subseteq S
    OBVIOUS
  <2>3. Closed(Below(k), stop, next) /\ Closed(Below(n), stop, next)
    BY <1>1
  <2> HIDE DEF Below, F, Ends
  <2> QED BY <2>1, <2>2, <2>3, RunsAgree
<1> DEFINE run == [s \in S |-> F(m[s] + 1)[s]]
<1>7. ASSUME NEW s \in S
      PROVE  run[s] = IF stop[s] THEN out[s] ELSE run[next[s]]
  <2>1. m[s] + 1 \in Nat /\ s \in Below(m[s] + 1)
    OBVIOUS
  <2>2. F(m[s] + 1)[s] = IF stop[s] THEN out[s] ELSE F(m[s] + 1)[next[s]]
    <3> HIDE DEF Below, F
    <3> QED BY <1>5, <2>1 DEF Runs
  <2>3. CASE stop[s]
    BY <2>2, <2>3
  <2>4. CASE ~stop[s]
    <3>1. next[s] \in S /\ m[next[s]] + 1 \in Nat /\ next[s] \in Below(m[next[s]] + 1)
      OBVIOUS
    <3>2. next[s] \in Below(m[s] + 1)
      <4> HIDE DEF Below
      <4> QED BY <1>1, <2>1, <2>4 DEF Closed
    <3>3. F(m[s] + 1)[next[s]] = F(m[next[s]] + 1)[next[s]]
      <4> HIDE DEF Below, F
      <4> QED BY <1>6, <2>1, <3>1, <3>2
    <3> HIDE DEF F
    <3> QED BY <2>2, <2>4, <3>1, <3>3
  <2> QED BY <2>3, <2>4
<1>8. run = [s \in S |-> IF stop[s] THEN out[s] ELSE run[next[s]]]
  <2> HIDE DEF F
  <2> QED BY <1>7
<1> QED BY <1>8

\* What every step of a loop keeps, from a state of I to one of I, it keeps to
\* the end.
LEMMA LoopKeeps ==
  ASSUME NEW S, NEW stop, NEW next, NEW out, NEW m, Ends(S, stop, next, m),
         NEW f, Runs(f, S, stop, next, out),
         NEW I, I \subseteq S, Closed(I, stop, next)
  PROVE  \A s \in I : \E t \in I : stop[t] /\ f[s] = out[t]
<1> USE DEF Ends
<1> DEFINE Bad == {s \in I : ~ \E t \in I : stop[t] /\ f[s] = out[t]}
           Measures == {m[s] : s \in Bad}
<1>1. SUFFICES ASSUME Bad # {}
               PROVE  FALSE
  OBVIOUS
<1>2. Measures \subseteq Nat /\ Measures # {}
  BY <1>1
<1>3. PICK k \in Measures : \A l \in Measures : k <= l
  <2> HIDE DEF Measures
  <2> QED BY <1>2, LeastElement
<1>4. PICK s \in Bad : k = m[s]
  BY <1>3
<1>5. ~stop[s] /\ next[s] \in I /\ f[s] = f[next[s]]
  BY <1>4 DEF Runs, Closed
<1>6. next[s] \in Bad
  BY <1>4, <1>5
<1>7. m[next[s]] \in Measures /\ m[next[s]] \in Nat /\ m[s] \in Nat
  BY <1>5, <1>6
<1>8. k <= m[next[s]] /\ m[next[s]] < m[s]
  BY <1>3, <1>4, <1>5, <1>7
<1> QED BY <1>4, <1>7, <1>8

-----------------------------------------------------------------------------
(* The order of the heap                                                     *)

Leq(a, b) == Compare(a, b) <= 0

Distinct(h) == \A j, k \in DOMAIN h : j # k => h[j].id # h[k].id

\* No node comes before its parent; OrderedBut leaves out the node at i,
\* OrderedBelow those under i, which the parent of i does not come after.
Ordered(h) == \A j \in 1..(Len(h) - 1) : Leq(At(h, Parent(j)), At(h, j))

PassesOver(h, i) ==
  i > 0 => \A j \in 1..(Len(h) - 1) :
             Parent(j) = i => Leq(At(h, Parent(i)), At(h, j))

OrderedBut(h, i) ==
  /\ \A j \in 1..(Len(h) - 1) : j # i => Leq(At(h, Parent(j)), At(h, j))
  /\ PassesOver(h, i)

OrderedBelow(h, i) ==
  /\ \A j \in 1..(Len(h) - 1) : Parent(j) # i => Leq(At(h, Parent(j)), At(h, j))
  /\ PassesOver(h, i)

LEMMA NodesAreCompared ==
  ASSUME NEW a \in Node, NEW b \in Node
  PROVE  /\ Compare(a, b) \in Int
         /\ Leq(a, b) <=> Queue!First(a, b)
         /\ Leq(a, b) \/ Leq(b, a)
         /\ ~Leq(a, b) <=> Compare(a, b) > 0
         /\ Compare(a, b) < 0 => Leq(a, b)
         /\ ~(Compare(a, b) < 0) => Leq(b, a)
<1>1. a.sortIndex \in Int /\ a.id \in Int /\ b.sortIndex \in Int /\ b.id \in Int
  BY HeapAssumption DEF Node
<1> QED BY <1>1 DEF Leq, Compare, Queue!First

LEMMA OrderIsTransitive ==
  ASSUME NEW a \in Node, NEW b \in Node, NEW c \in Node, Leq(a, b), Leq(b, c)
  PROVE  Leq(a, c)
<1>1. /\ a.sortIndex \in Int /\ a.id \in Int /\ b.sortIndex \in Int /\ b.id \in Int
      /\ c.sortIndex \in Int /\ c.id \in Int
  BY HeapAssumption DEF Node
<1> QED BY <1>1 DEF Leq, Compare

LEMMA ParentComesFirst ==
  ASSUME NEW j \in Nat, j > 0
  PROVE  Parent(j) \in Nat /\ Parent(j) < j
BY DEF Parent

LEMMA ChildrenOf ==
  ASSUME NEW i \in Nat, NEW j \in Nat, j > 0
  PROVE  Parent(j) = i <=> j = 2 * i + 1 \/ j = 2 * i + 2
BY DEF Parent

LEMMA ExchangedHeap ==
  ASSUME NEW n \in Nat, NEW h \in [1..n -> Node],
         NEW i \in 0..(n - 1), NEW j \in 0..(n - 1), i # j
  PROVE  /\ Exchanged(h, i, j) \in [1..n -> Node]
         /\ Len(h) = n /\ Len(Exchanged(h, i, j)) = n
         /\ At(Exchanged(h, i, j), i) = At(h, j)
         /\ At(Exchanged(h, i, j), j) = At(h, i)
         /\ \A k \in 0..(n - 1) : k # i /\ k # j => At(Exchanged(h, i, j), k) = At(h, k)
         /\ Elements(Exchanged(h, i, j)) = Elements(h)
         /\ Distinct(h) => Distinct(Exchanged(h, i, j))
<1> DEFINE g == Exchanged(h, i, j)
<1>1. g \in [1..n -> Node]
  BY DEF Exchanged, Put, At
<1>2. Len(h) = n /\ Len(g) = n
  BY <1>1
<1>3. /\ g[i + 1] = h[j + 1] /\ g[j + 1] = h[i + 1]
      /\ \A k \in 1..n : k # i + 1 /\ k # j + 1 => g[k] = h[k]
  BY DEF Exchanged, Put, At
<1> HIDE DEF g
<1>4. Elements(g) = Elements(h)
  <2>1. \A k \in 1..n : \E l \in 1..n : g[k] = h[l]
    BY <1>3
  <2>2. \A l \in 1..n : \E k \in 1..n : h[l] = g[k]
    <3> SUFFICES ASSUME NEW l \in 1..n
                 PROVE  \E k \in 1..n : h[l] = g[k]
      OBVIOUS
    <3>1. CASE l = i + 1
      BY <1>3, <3>1
    <3>2. CASE l = j + 1
      BY <1>3, <3>2
    <3>3. CASE l # i + 1 /\ l # j + 1
      BY <1>3, <3>3
    <3> QED BY <3>1, <3>2, <3>3
  <2>3. DOMAIN g = 1..n /\ DOMAIN h = 1..n
    BY <1>1
  <2>4. Elements(g) = {g[k] : k \in 1..n} /\ Elements(h) = {h[k] : k \in 1..n}
    BY <2>3 DEF Elements
  <2>5. {g[k] : k \in 1..n} \subseteq {h[k] : k \in 1..n}
    BY <2>1
  <2>6. {h[k] : k \in 1..n} \subseteq {g[k] : k \in 1..n}
    BY <2>2
  <2> QED BY <2>4, <2>5, <2>6
<1>5. Distinct(h) => Distinct(g)
  BY <1>1, <1>3 DEF Distinct
<1> QED BY <1>1, <1>2, <1>3, <1>4, <1>5 DEF g, At

-----------------------------------------------------------------------------
(* siftUp                                                                    *)

SameNodes(g, h) == Elements(g) = Elements(h) /\ (Distinct(h) => Distinct(g))

LEMMA ExchangedKeeps ==
  ASSUME NEW n \in Nat, NEW h \in [1..n -> Node],
         NEW i \in 0..(n - 1), NEW j \in 0..(n - 1), i # j
  PROVE  SameNodes(Exchanged(h, i, j), h)
<1>1. /\ Elements(Exchanged(h, i, j)) = Elements(h)
      /\ Distinct(h) => Distinct(Exchanged(h, i, j))
  BY ExchangedHeap
<1> QED BY <1>1 DEF SameNodes

MovesUp(h, i) == i > 0 /\ Compare(At(h, Parent(i)), At(h, i)) > 0

LEMMA StepUp ==
  ASSUME NEW n \in Nat, NEW h \in [1..n -> Node], NEW i \in 0..(n - 1), MovesUp(h, i)
  PROVE  /\ Parent(i) \in 0..(n - 1) /\ Parent(i) < i
         /\ Exchanged(h, i, Parent(i)) \in [1..n -> Node]
         /\ OrderedBut(h, i) => OrderedBut(Exchanged(h, i, Parent(i)), Parent(i))
<1> DEFINE p == Parent(i)
           g == Exchanged(h, i, p)
<1>1. i > 0 /\ p \in 0..(n - 1) /\ p < i
  BY ParentComesFirst DEF MovesUp
<1>2. /\ g \in [1..n -> Node] /\ Len(g) = n /\ Len(h) = n
      /\ At(g, i) = At(h, p) /\ At(g, p) = At(h, i)
      /\ \A k \in 0..(n - 1) : k # i /\ k # p => At(g, k) = At(h, k)
  <2> HIDE DEF p
  <2> QED BY <1>1, ExchangedHeap
<1>3. \A k \in 0..(n - 1) : At(h, k) \in Node
  BY DEF At
<1>4. Leq(At(h, i), At(h, p))
  BY <1>1, <1>3, NodesAreCompared DEF MovesUp
<1>5. ASSUME OrderedBut(h, i), NEW j \in 1..(n - 1)
      PROVE  /\ j # p => Leq(At(g, Parent(j)), At(g, j))
             /\ p > 0 /\ Parent(j) = p => Leq(At(g, Parent(p)), At(g, j))
  <2> DEFINE q == Parent(j)
  <2>1. q \in 0..(n - 1) /\ q < j
    BY ParentComesFirst
  <2>2. j # i => Leq(At(h, q), At(h, j))
    BY <1>2, <1>5 DEF OrderedBut
  <2>3. q = i => Leq(At(h, p), At(h, j))
    BY <1>1, <1>2, <1>5 DEF OrderedBut, PassesOver
  <2>4. j # p => Leq(At(g, q), At(g, j))
    <3>1. CASE j = i
      BY <1>2, <1>4, <3>1
    <3>2. CASE j # i /\ q = p /\ j # p
      <4>1. At(g, q) = At(h, i) /\ At(g, j) = At(h, j) /\ Leq(At(h, p), At(h, j))
        BY <1>2, <2>2, <3>2
      <4> HIDE DEF p, q, g
      <4> QED BY <1>1, <1>3, <1>4, <4>1, OrderIsTransitive
    <3>3. CASE q = i /\ j # p
      <4>1. At(g, q) = At(h, p) /\ At(g, j) = At(h, j)
        BY <1>2, <2>1, <3>3
      <4> QED BY <2>3, <3>3, <4>1
    <3>4. CASE j # i /\ q # p /\ q # i /\ j # p
      <4> HIDE DEF p, q, g
      <4> QED BY <1>2, <2>1, <2>2, <3>4
    <3> HIDE DEF p, q, g
    <3> QED BY <3>1, <3>2, <3>3, <3>4
  <2>5. ASSUME p > 0, q = p
        PROVE  Leq(At(g, Parent(p)), At(g, j))
    <3> DEFINE r == Parent(p)
    <3>1. r \in 0..(n - 1) /\ r < p
      BY <1>1, <2>5, ParentComesFirst
    <3>2. At(g, r) = At(h, r)
      <4> HIDE DEF p, g, r
      <4> QED BY <1>1, <1>2, <3>1
    <3>3. Leq(At(h, r), At(h, p))
      <4>1. p \in 1..(n - 1) /\ p # i
        BY <1>1, <2>5
      <4> QED BY <1>2, <1>5, <4>1 DEF OrderedBut
    <3>4. CASE j = i
      BY <1>2, <3>2, <3>3, <3>4
    <3>5. CASE j # i
      <4>1. At(g, j) = At(h, j) /\ Leq(At(h, p), At(h, j))
        BY <1>2, <2>1, <2>2, <2>5, <3>5
      <4> HIDE DEF p, q, g
      <4> QED BY <1>1, <1>3, <3>1, <3>2, <3>3, <4>1, OrderIsTransitive
    <3> QED BY <3>4, <3>5
  <2> QED BY <2>4, <2>5
<1>6. OrderedBut(h, i) => OrderedBut(g, p)
  <2> HIDE DEF p, g
  <2> QED BY <1>2, <1>5 DEF OrderedBut, PassesOver
<1> QED BY <1>1, <1>2, <1>6

LEMMA SiftUpSorts ==
  ASSUME NEW n \in Nat, NEW h \in [1..n -> Node], NEW i \in 0..(n - 1),
         OrderedBut(h, i), Distinct(h)
  PROVE  /\ SiftUp(h, i) \in [1..n -> Node]
         /\ Ordered(SiftUp(h, i))
         /\ Distinct(SiftUp(h, i))
         /\ Elements(SiftUp(h, i)) = Elements(h)
<1> DEFINE S == Positions(n)
           Moved(s) == [heap |-> Exchanged(s.heap, s.index, Parent(s.index)),
                        index |-> Parent(s.index)]
           stop == [s \in S |-> ~MovesUp(s.heap, s.index)]
           next == [s \in S |-> IF MovesUp(s.heap, s.index) THEN Moved(s) ELSE s]
           out == [s \in S |-> s.heap]
           m == [s \in S |-> s.index]
           Up(f) == [s \in S |->
                      IF MovesUp(s.heap, s.index) THEN f[Moved(s)] ELSE s.heap]
           up == CHOOSE f : f = Up(f)
           I == {s \in S : /\ OrderedBut(s.heap, s.index) /\ Distinct(s.heap)
                           /\ Elements(s.heap) = Elements(h)}
           start == [heap |-> h, index |-> i]
<1>1. Len(h) = n
  OBVIOUS
<1>2. SiftUp(h, i) = up[start]
  BY <1>1 DEF SiftUp, MovesUp
<1>3. ASSUME NEW s \in S
      PROVE  s.heap \in [1..n -> Node] /\ s.index \in 0..(n - 1)
  BY DEF Positions
<1>4. ASSUME NEW s \in S, MovesUp(s.heap, s.index)
      PROVE  /\ Moved(s) \in S
             /\ Parent(s.index) < s.index
             /\ s \in I => Moved(s) \in I
  <2> DEFINE j == Parent(s.index)
  <2>1. /\ j \in 0..(n - 1) /\ j < s.index
        /\ Exchanged(s.heap, s.index, j) \in [1..n -> Node]
        /\ OrderedBut(s.heap, s.index) => OrderedBut(Exchanged(s.heap, s.index, j), j)
    BY <1>3, <1>4, StepUp
  <2>2. /\ Elements(Exchanged(s.heap, s.index, j)) = Elements(s.heap)
        /\ Distinct(s.heap) => Distinct(Exchanged(s.heap, s.index, j))
    <3>1. /\ s.heap \in [1..n -> Node] /\ s.index \in 0..(n - 1)
          /\ j \in 0..(n - 1) /\ s.index # j
      BY <1>3, <2>1
    <3>2. SameNodes(Exchanged(s.heap, s.index, j), s.heap)
      <4> HIDE DEF j, S
      <4> QED BY <3>1, ExchangedKeeps
    <3> HIDE DEF j, S
    <3> QED BY <3>2 DEF SameNodes
  <2>3. Moved(s).heap = Exchanged(s.heap, s.index, j) /\ Moved(s).index = j
    OBVIOUS
  <2>4. Moved(s) \in S
    BY <2>1 DEF Positions
  <2> HIDE DEF Moved, j, S
  <2> QED BY <2>1, <2>2, <2>3, <2>4 DEF j
<1>5. Ends(S, stop, next, m)
  <2>1. next \in [S -> S]
    <3> HIDE DEF S, Moved
    <3> QED BY <1>4
  <2>2. stop \in [S -> BOOLEAN]
    <3> HIDE DEF S
    <3> QED BY DEF MovesUp
  <2>3. m \in [S -> Nat]
    <3> HIDE DEF S
    <3> QED BY <1>3
  <2>4. ASSUME NEW s \in S, ~stop[s]
        PROVE  m[next[s]] < m[s]
    <3>1. next[s] = Moved(s) /\ Moved(s) \in S /\ Moved(s).index < s.index
      BY <1>4, <2>4
    <3> HIDE DEF S, Moved
    <3> QED BY <3>1
  <2> HIDE DEF S, stop, next, m
  <2> QED BY <2>1, <2>2, <2>3, <2>4 DEF Ends
<1>6. Runs(up, S, stop, next, out)
  <2>1. PICK f : f = [s \in S |-> IF stop[s] THEN out[s] ELSE f[next[s]]]
    <3> HIDE DEF S, stop, next, out, m
    <3> QED BY <1>5, LoopRuns
  <2>2. f = Up(f)
    <3> HIDE DEF S, Moved
    <3> QED BY <2>1
  <2>3. up = Up(up)
    <3> HIDE DEF Up
    <3> QED BY <2>2
  <2> HIDE DEF up, S, Moved
  <2> QED BY <2>3 DEF Runs
<1>7. \A s \in I : \E t \in I : stop[t] /\ up[s] = out[t]
  <2>1. I \subseteq S
    OBVIOUS
  <2>2. Closed(I, stop, next)
    <3> HIDE DEF S, Moved
    <3> QED BY <1>4, <2>1 DEF Closed
  <2> HIDE DEF S, stop, next, out, m, I, up
  <2> QED BY <1>5, <1>6, <2>1, <2>2, LoopKeeps
<1>8. start \in I
  BY DEF Positions
<1>9. PICK t \in I : stop[t] /\ up[start] = out[t]
  <2> HIDE DEF I, stop, up, start, out
  <2> QED BY <1>7, <1>8
<1>10. /\ t \in S /\ up[start] = t.heap /\ ~MovesUp(t.heap, t.index)
       /\ OrderedBut(t.heap, t.index) /\ Distinct(t.heap)
       /\ Elements(t.heap) = Elements(h)
  <2> HIDE DEF S, up, start
  <2> QED BY <1>9
<1>11. Ordered(t.heap)
  <2> DEFINE g == t.heap
             k == t.index
  <2>1. g \in [1..n -> Node] /\ k \in 0..(n - 1) /\ Len(g) = n
    BY <1>3, <1>10
  <2>2. ~MovesUp(g, k) /\ OrderedBut(g, k)
    BY <1>10
  <2>3. k > 0 => Leq(At(g, Parent(k)), At(g, k))
    <3> HIDE DEF g, k
    <3>1. k > 0 => Parent(k) \in 0..(n - 1)
      BY <2>1, ParentComesFirst
    <3>2. \A l \in 0..(n - 1) : At(g, l) \in Node
      BY <2>1 DEF At
    <3> QED BY <2>1, <2>2, <3>1, <3>2, NodesAreCompared DEF MovesUp
  <2> HIDE DEF g, k
  <2>4. Ordered(g)
    BY <2>1, <2>2, <2>3 DEF OrderedBut, Ordered
  <2> QED BY <2>4 DEF g
<1> HIDE DEF up, start
<1> QED BY <1>2, <1>3, <1>10, <1>11

-----------------------------------------------------------------------------
(* siftDown                                                                  *)

LEMMA SmallerChildIsSmallest ==
  ASSUME NEW n \in Nat, NEW h \in [1..n -> Node], NEW i \in 0..(n - 1)
  PROVE  \/ /\ SmallerChild(h, i) = 0
            /\ \A j \in 1..(n - 1) : Parent(j) = i => Leq(At(h, i), At(h, j))
         \/ /\ SmallerChild(h, i) \in 1..(n - 1)
            /\ Parent(SmallerChild(h, i)) = i
            /\ Leq(At(h, SmallerChild(h, i)), At(h, i))
            /\ \A j \in 1..(n - 1) :
                 Parent(j) = i => Leq(At(h, SmallerChild(h, i)), At(h, j))
<1> DEFINE left == (i + 1) * 2 - 1
           right == left + 1
           IsBefore(j, k) == j < Len(h) /\ Compare(At(h, j), At(h, k)) < 0
           c == SmallerChild(h, i)
<1>1. /\ Len(h) = n /\ i \in Nat /\ left \in Nat /\ right \in Nat
      /\ left = 2 * i + 1 /\ right = 2 * i + 2
  OBVIOUS
<1>2. \A k \in 0..(n - 1) : At(h, k) \in Node
  BY DEF At
<1>3. \A j \in 1..(n - 1) : Parent(j) = i => j = left \/ j = right
  BY <1>1, ChildrenOf
<1>4. Parent(left) = i /\ Parent(right) = i
  BY <1>1, ChildrenOf
<1>5. CASE i >= n \div 2
  <2>1. c = 0
    BY <1>1, <1>5 DEF SmallerChild
  <2>2. left >= n
    BY <1>1, <1>5
  <2> HIDE DEF c, left, right
  <2> QED BY <1>1, <1>3, <2>1, <2>2 DEF c
<1>6. CASE i < n \div 2
  <2>1. left \in 1..(n - 1) /\ right >= 1
    BY <1>1, <1>6
  <2>2. /\ IsBefore(left, i) /\ IsBefore(right, left) => c = right
        /\ IsBefore(left, i) /\ ~IsBefore(right, left) => c = left
        /\ ~IsBefore(left, i) /\ IsBefore(right, i) => c = right
        /\ ~IsBefore(left, i) /\ ~IsBefore(right, i) => c = 0
    <3>1. ~(i >= Len(h) \div 2) /\ i < Len(h) \div 2
      BY <1>1, <1>6
    <3>2. c = IF IsBefore(left, i)
              THEN IF IsBefore(right, left) THEN right ELSE left
              ELSE IF IsBefore(right, i) THEN right ELSE 0
      BY <3>1 DEF SmallerChild
    <3> HIDE DEF c, left, right, IsBefore
    <3> QED BY <3>2
  <2>3. ASSUME NEW j \in 0..(n - 1), NEW k \in 0..(n - 1)
        PROVE  /\ IsBefore(j, k) => Leq(At(h, j), At(h, k))
               /\ ~IsBefore(j, k) => Leq(At(h, k), At(h, j))
    <3>1. At(h, j) \in Node /\ At(h, k) \in Node
      BY <1>2
    <3>2. IsBefore(j, k) <=> Compare(At(h, j), At(h, k)) < 0
      BY <1>1
    <3> HIDE DEF IsBefore
    <3> QED BY <3>1, <3>2, NodesAreCompared
  <2>4. IsBefore(right, left) \/ IsBefore(right, i) => right \in 1..(n - 1)
    BY <1>1, <2>1
  <2>5. \A j \in 0..(n - 1) : Leq(At(h, j), At(h, j))
    BY <1>2, NodesAreCompared
  <2> HIDE DEF left, right, IsBefore
  <2>6. CASE IsBefore(left, i) /\ IsBefore(right, left)
    <3>1. Leq(At(h, right), At(h, left)) /\ Leq(At(h, left), At(h, i))
      BY <2>1, <2>3, <2>4, <2>6
    <3>2. Leq(At(h, right), At(h, i))
      BY <1>2, <2>1, <2>4, <2>6, <3>1, OrderIsTransitive
    <3> QED BY <1>3, <1>4, <2>2, <2>4, <2>5, <2>6, <3>1, <3>2
  <2>7. CASE IsBefore(left, i) /\ ~IsBefore(right, left)
    <3>1. Leq(At(h, left), At(h, i))
      BY <2>1, <2>3, <2>7
    <3>2. \A j \in 1..(n - 1) : Parent(j) = i => Leq(At(h, left), At(h, j))
      BY <1>3, <2>1, <2>3, <2>5, <2>7
    <3> QED BY <1>4, <2>1, <2>2, <2>7, <3>1, <3>2
  <2>8. CASE ~IsBefore(left, i) /\ IsBefore(right, i)
    <3>1. Leq(At(h, right), At(h, i)) /\ Leq(At(h, i), At(h, left))
      BY <2>1, <2>3, <2>4, <2>8
    <3>2. Leq(At(h, right), At(h, left))
      BY <1>2, <2>1, <2>4, <2>8, <3>1, OrderIsTransitive
    <3> QED BY <1>3, <1>4, <2>2, <2>4, <2>5, <2>8, <3>1, <3>2
  <2>9. CASE ~IsBefore(left, i) /\ ~IsBefore(right, i)
    <3>1. \A j \in 1..(n - 1) : Parent(j) = i => Leq(At(h, i), At(h, j))
      BY <1>3, <2>1, <2>3, <2>9
    <3> QED BY <2>2, <2>9, <3>1
  <2> QED BY <2>6, <2>7, <2>8, <2>9
<1> QED BY <1>1, <1>5, <1>6

LEMMA StepDown ==
  ASSUME NEW n \in Nat, NEW h \in [1..n -> Node], NEW i \in 0..(n - 1),
         SmallerChild(h, i) # 0
  PROVE  /\ SmallerChild(h, i) \in 0..(n - 1) /\ i < SmallerChild(h, i)
         /\ Exchanged(h, i, SmallerChild(h, i)) \in [1..n -> Node]
         /\ OrderedBelow(h, i) =>
              OrderedBelow(Exchanged(h, i, SmallerChild(h, i)), SmallerChild(h, i))
<1> DEFINE c == SmallerChild(h, i)
           g == Exchanged(h, i, c)
<1>1. /\ c \in 1..(n - 1) /\ Parent(c) = i
      /\ Leq(At(h, c), At(h, i))
      /\ \A j \in 1..(n - 1) : Parent(j) = i => Leq(At(h, c), At(h, j))
  BY SmallerChildIsSmallest
<1>2. i < c
  <2> HIDE DEF c
  <2> QED BY <1>1, ParentComesFirst
<1>3. /\ g \in [1..n -> Node] /\ Len(g) = n /\ Len(h) = n
      /\ At(g, i) = At(h, c) /\ At(g, c) = At(h, i)
      /\ \A k \in 0..(n - 1) : k # i /\ k # c => At(g, k) = At(h, k)
  <2> HIDE DEF c
  <2>1. c \in 0..(n - 1) /\ i # c
    BY <1>1, <1>2
  <2> QED BY <2>1, ExchangedHeap
<1>4. ASSUME OrderedBelow(h, i), NEW j \in 1..(n - 1)
      PROVE  /\ Parent(j) # c => Leq(At(g, Parent(j)), At(g, j))
             /\ Parent(j) = c => Leq(At(g, Parent(c)), At(g, j))
  <2> DEFINE q == Parent(j)
  <2>1. q \in 0..(n - 1) /\ q < j
    BY ParentComesFirst
  <2>2. q # i => Leq(At(h, q), At(h, j))
    BY <1>3, <1>4 DEF OrderedBelow
  <2>3. i > 0 => Leq(At(h, Parent(i)), At(h, c))
    <3> HIDE DEF c
    <3> QED BY <1>1, <1>3, <1>4 DEF OrderedBelow, PassesOver
  <2>4. i > 0 => Parent(i) \in 0..(n - 1) /\ Parent(i) < i
    BY ParentComesFirst
  <2>5. q = i => Leq(At(h, c), At(h, j))
    BY <1>1
  <2> HIDE DEF c, g
  <2>6. CASE j = c
    BY <1>1, <1>2, <1>3, <2>6
  <2>7. CASE j # c /\ q = i
    BY <1>2, <1>3, <2>1, <2>5, <2>7
  <2>8. CASE j = i /\ j # c
    <3>1. i > 0 /\ q # i /\ q # c
      BY <1>2, <2>1, <2>8
    <3>2. At(g, q) = At(h, q) /\ At(g, j) = At(h, c)
      BY <1>3, <2>1, <2>8, <3>1
    <3> QED BY <2>3, <2>8, <3>1, <3>2
  <2>9. CASE j # i /\ j # c /\ q # i /\ q # c
    BY <1>3, <2>1, <2>2, <2>9
  <2>10. CASE j # c /\ q = c
    <3>1. At(g, i) = At(h, q) /\ At(g, j) = At(h, j) /\ q # i
      BY <1>2, <1>3, <2>1, <2>10
    <3> QED BY <1>1, <2>2, <2>10, <3>1
  <2> QED BY <2>6, <2>7, <2>8, <2>9, <2>10
<1>5. OrderedBelow(h, i) => OrderedBelow(g, c)
  <2> HIDE DEF c, g
  <2> QED BY <1>3, <1>4 DEF OrderedBelow, PassesOver
<1> QED BY <1>1, <1>2, <1>3, <1>5

LEMMA SiftDownSorts ==
  ASSUME NEW n \in Nat, NEW h \in [1..n -> Node], NEW i \in 0..(n - 1),
         OrderedBelow(h, i), Distinct(h)
  PROVE  /\ SiftDown(h, i) \in [1..n -> Node]
         /\ Ordered(SiftDown(h, i))
         /\ Distinct(SiftDown(h, i))
         /\ Elements(SiftDown(h, i)) = Elements(h)
<1> DEFINE S == Positions(n)
           Moved(s) == [heap |-> Exchanged(s.heap, s.index, SmallerChild(s.heap, s.index)),
                        index |-> SmallerChild(s.heap, s.index)]
           stop == [s \in S |-> SmallerChild(s.heap, s.index) = 0]
           next == [s \in S |-> IF SmallerChild(s.heap, s.index) # 0 THEN Moved(s) ELSE s]
           out == [s \in S |-> s.heap]
           m == [s \in S |-> n - s.index]
           Down(f) == [s \in S |->
                      IF SmallerChild(s.heap, s.index) # 0 THEN f[Moved(s)] ELSE s.heap]
           down == CHOOSE f : f = Down(f)
           I == {s \in S : /\ OrderedBelow(s.heap, s.index) /\ Distinct(s.heap)
                           /\ Elements(s.heap) = Elements(h)}
           start == [heap |-> h, index |-> i]
<1>1. Len(h) = n
  OBVIOUS
<1>2. SiftDown(h, i) = down[start]
  BY <1>1 DEF SiftDown
<1>3. ASSUME NEW s \in S
      PROVE  s.heap \in [1..n -> Node] /\ s.index \in 0..(n - 1)
  BY DEF Positions
<1>4. ASSUME NEW s \in S, SmallerChild(s.heap, s.index) # 0
      PROVE  /\ Moved(s) \in S
             /\ SmallerChild(s.heap, s.index) > s.index
             /\ s \in I => Moved(s) \in I
  <2> DEFINE j == SmallerChild(s.heap, s.index)
  <2>1. /\ j \in 0..(n - 1) /\ j > s.index
        /\ Exchanged(s.heap, s.index, j) \in [1..n -> Node]
        /\ OrderedBelow(s.heap, s.index) => OrderedBelow(Exchanged(s.heap, s.index, j), j)
    BY <1>3, <1>4, StepDown
  <2>2. /\ Elements(Exchanged(s.heap, s.index, j)) = Elements(s.heap)
        /\ Distinct(s.heap) => Distinct(Exchanged(s.heap, s.index, j))
    <3>1. /\ s.heap \in [1..n -> Node] /\ s.index \in 0..(n - 1)
          /\ j \in 0..(n - 1) /\ s.index # j
      BY <1>3, <2>1
    <3>2. SameNodes(Exchanged(s.heap, s.index, j), s.heap)
      <4> HIDE DEF j, S
      <4> QED BY <3>1, ExchangedKeeps
    <3> HIDE DEF j, S
    <3> QED BY <3>2 DEF SameNodes
  <2>3. Moved(s).heap = Exchanged(s.heap, s.index, j) /\ Moved(s).index = j
    OBVIOUS
  <2>4. Moved(s) \in S
    BY <2>1 DEF Positions
  <2> HIDE DEF Moved, j, S
  <2> QED BY <2>1, <2>2, <2>3, <2>4 DEF j
<1>5. Ends(S, stop, next, m)
  <2>1. next \in [S -> S]
    <3> HIDE DEF S, Moved
    <3> QED BY <1>4
  <2>2. stop \in [S -> BOOLEAN]
    <3> HIDE DEF S
    <3> QED OBVIOUS
  <2>3. m \in [S -> Nat]
    <3> HIDE DEF S
    <3> QED BY <1>3
  <2>4. ASSUME NEW s \in S, ~stop[s]
        PROVE  m[next[s]] < m[s]
    <3>1. next[s] = Moved(s) /\ Moved(s) \in S /\ Moved(s).index > s.index
      BY <1>4, <2>4
    <3>2. s.index \in Int /\ Moved(s).index \in Int
      BY <1>3, <3>1
    <3> HIDE DEF S, Moved
    <3> QED BY <3>1, <3>2
  <2> HIDE DEF S, stop, next, m
  <2> QED BY <2>1, <2>2, <2>3, <2>4 DEF Ends
<1>6. Runs(down, S, stop, next, out)
  <2>1. PICK f : f = [s \in S |-> IF stop[s] THEN out[s] ELSE f[next[s]]]
    <3> HIDE DEF S, stop, next, out, m
    <3> QED BY <1>5, LoopRuns
  <2>2. f = Down(f)
    <3> HIDE DEF S, Moved
    <3> QED BY <2>1
  <2>3. down = Down(down)
    <3> HIDE DEF Down
    <3> QED BY <2>2
  <2> HIDE DEF down, S, Moved
  <2> QED BY <2>3 DEF Runs
<1>7. \A s \in I : \E t \in I : stop[t] /\ down[s] = out[t]
  <2>1. I \subseteq S
    OBVIOUS
  <2>2. Closed(I, stop, next)
    <3> HIDE DEF S, Moved
    <3> QED BY <1>4, <2>1 DEF Closed
  <2> HIDE DEF S, stop, next, out, m, I, down
  <2> QED BY <1>5, <1>6, <2>1, <2>2, LoopKeeps
<1>8. start \in I
  BY DEF Positions
<1>9. PICK t \in I : stop[t] /\ down[start] = out[t]
  <2> HIDE DEF I, stop, down, start, out
  <2> QED BY <1>7, <1>8
<1>10. /\ t \in S /\ down[start] = t.heap /\ SmallerChild(t.heap, t.index) = 0
       /\ OrderedBelow(t.heap, t.index) /\ Distinct(t.heap)
       /\ Elements(t.heap) = Elements(h)
  <2> HIDE DEF S, down, start
  <2> QED BY <1>9
<1>11. Ordered(t.heap)
  <2> DEFINE g == t.heap
             k == t.index
  <2>1. g \in [1..n -> Node] /\ k \in 0..(n - 1) /\ Len(g) = n
    BY <1>3, <1>10
  <2>2. SmallerChild(g, k) = 0 /\ OrderedBelow(g, k)
    BY <1>10
  <2> HIDE DEF g, k
  <2>3. \A j \in 1..(n - 1) : Parent(j) = k => Leq(At(g, k), At(g, j))
    BY <2>1, <2>2, SmallerChildIsSmallest
  <2>4. Ordered(g)
    BY <2>1, <2>2, <2>3 DEF OrderedBelow, Ordered
  <2> QED BY <2>4 DEF g
<1> HIDE DEF down, start
<1> QED BY <1>2, <1>3, <1>10, <1>11

-----------------------------------------------------------------------------
(* The queue                                                                 *)

HeapInv == heap \in Seq(Node) /\ Ordered(heap) /\ Distinct(heap)

\* No node of an ordered heap comes before the first one.
LEMMA FirstIsSmallest ==
  ASSUME NEW n \in Nat, NEW h \in [1..n -> Node], Ordered(h)
  PROVE  \A j \in 0..(n - 1) : Leq(At(h, 0), At(h, j))
<1> DEFINE Smaller == {j \in 0..(n - 1) : ~Leq(At(h, 0), At(h, j))}
<1>1. SUFFICES ASSUME Smaller # {}
               PROVE  FALSE
  OBVIOUS
<1>2. PICK j \in Smaller : \A k \in Smaller : j <= k
  <2>1. Smaller \subseteq Nat
    OBVIOUS
  <2> HIDE DEF Smaller
  <2> QED BY <1>1, <2>1, LeastElement
<1>3. \A k \in 0..(n - 1) : At(h, k) \in Node
  BY DEF At
<1>4. j \in 0..(n - 1) /\ 0 \in 0..(n - 1) /\ ~Leq(At(h, 0), At(h, j))
  BY <1>2
<1>5. j > 0
  BY <1>3, <1>4, NodesAreCompared
<1>6. Parent(j) \in 0..(n - 1) /\ Parent(j) < j
  BY <1>4, <1>5, ParentComesFirst
<1>7. Leq(At(h, 0), At(h, Parent(j)))
  <2>1. Parent(j) \notin Smaller
    <3> HIDE DEF Smaller
    <3>1. j \in Int /\ Parent(j) \in Int
      BY <1>4, <1>6
    <3> QED BY <1>2, <1>6, <3>1
  <2> QED BY <1>6, <2>1
<1>8. Leq(At(h, Parent(j)), At(h, j))
  <2>1. Len(h) = n
    OBVIOUS
  <2> QED BY <1>4, <1>5, <2>1 DEF Ordered
<1>9. Leq(At(h, 0), At(h, j))
  BY <1>3, <1>4, <1>6, <1>7, <1>8, OrderIsTransitive
<1> QED BY <1>4, <1>9

LEMMA PushKeepsOrder ==
  ASSUME HeapInv, NEW node \in Node, Push(node)
  PROVE  HeapInv' /\ Elements(heap') = Elements(heap) \cup {node}
<1> DEFINE n == Len(heap) + 1
           h == Append(heap, node)
<1>1. /\ n \in Nat /\ h \in [1..n -> Node] /\ Len(h) = n
      /\ Len(heap) \in Nat /\ n - 1 = Len(heap) /\ Len(heap) \in 0..(n - 1)
      /\ \A k \in 1..Len(heap) : h[k] = heap[k]
      /\ h[n] = node
      /\ DOMAIN heap = 1..Len(heap) /\ DOMAIN h = 1..n
  <2>1. heap \in Seq(Node) /\ Len(heap) \in Nat
    BY DEF HeapInv
  <2>2. h \in Seq(Node) /\ Len(h) = n
    BY <2>1
  <2>3. h[n] = node /\ \A k \in 1..Len(heap) : h[k] = heap[k]
    BY <2>1
  <2>4. n \in Nat /\ n - 1 = Len(heap) /\ Len(heap) \in 0..(n - 1)
    BY <2>1
  <2> HIDE DEF h, n
  <2>5. h \in [1..n -> Node]
    BY <2>2
  <2> QED BY <2>1, <2>2, <2>3, <2>4, <2>5
<1>2. node.id \notin {e.id : e \in Elements(heap)}
  BY DEF Push
<1>3. heap' = SiftUp(h, Len(heap))
  BY DEF Push
<1> HIDE DEF h, n
<1>4. OrderedBut(h, Len(heap))
  <2>1. ASSUME NEW j \in 1..(n - 1), j # Len(heap)
        PROVE  Leq(At(h, Parent(j)), At(h, j))
    <3>1. Parent(j) \in Nat /\ Parent(j) < j
      BY ParentComesFirst
    <3>2. PICK k \in Nat : k = Len(heap)
      BY <1>1
    <3>3. j \in 1..k /\ j # k
      BY <1>1, <2>1, <3>2
    <3>4. Parent(j) + 1 \in 1..k /\ j + 1 \in 1..k /\ j \in 1..(k - 1)
      BY <3>1, <3>3
    <3>5. At(h, Parent(j)) = At(heap, Parent(j)) /\ At(h, j) = At(heap, j)
      BY <1>1, <3>2, <3>4 DEF At
    <3> QED BY <3>2, <3>4, <3>5 DEF HeapInv, Ordered
  <2>2. ASSUME NEW j \in 1..(n - 1)
        PROVE  Parent(j) # Len(heap)
    BY <1>1, ParentComesFirst
  <2> QED BY <1>1, <2>1, <2>2 DEF OrderedBut, PassesOver
<1>5. Elements(h) = Elements(heap) \cup {node}
  <2>1. Elements(h) = {h[k] : k \in 1..n} /\ Elements(heap) = {heap[k] : k \in 1..Len(heap)}
    BY <1>1 DEF Elements
  <2>2. 1..n = 1..Len(heap) \cup {n}
    BY <1>1
  <2> QED BY <1>1, <2>1, <2>2
<1>6. Distinct(h)
  <2>1. \A k \in 1..Len(heap) : heap[k].id # node.id
    BY <1>1, <1>2 DEF Elements
  <2>2. \A k \in 1..n : k \in 1..Len(heap) \/ k = n
    BY <1>1
  <2> QED BY <1>1, <2>1, <2>2 DEF HeapInv, Distinct
<1>7. /\ heap' \in [1..n -> Node] /\ Ordered(heap') /\ Distinct(heap')
      /\ Elements(heap') = Elements(h)
  BY <1>1, <1>3, <1>4, <1>6, SiftUpSorts
<1>8. heap' \in Seq(Node)
  BY <1>1, <1>7
<1> QED BY <1>5, <1>7, <1>8 DEF HeapInv

\* What is left after the last node has taken the place of the first.
LEMMA LastReplacesFirst ==
  ASSUME HeapInv, NEW n \in Nat, Len(heap) = n + 1, n > 0,
         NEW h, h = Put(SubSeq(heap, 1, n), 0, At(heap, n))
  PROVE  /\ h \in [1..n -> Node] /\ OrderedBelow(h, 0) /\ Distinct(h)
         /\ Elements(h) = Elements(heap) \ {At(heap, 0)}
<1> DEFINE rest == SubSeq(heap, 1, n)
<1>1. /\ heap \in [1..(n + 1) -> Node] /\ rest \in [1..n -> Node]
      /\ \A k \in 1..n : rest[k] = heap[k]
  <2>1. heap \in Seq(Node) /\ heap \in [1..(n + 1) -> Node]
    BY DEF HeapInv
  <2>2. rest = [k \in 1..n |-> heap[k]]
    BY <2>1
  <2> HIDE DEF rest
  <2> QED BY <2>1, <2>2
<1>2. /\ h \in [1..n -> Node] /\ Len(h) = n
      /\ h[1] = heap[n + 1] /\ \A k \in 2..n : h[k] = heap[k]
  <2> HIDE DEF rest
  <2>1. h = [rest EXCEPT ![1] = heap[n + 1]]
    BY DEF Put, At, rest
  <2> QED BY <1>1, <2>1
<1>3. OrderedBelow(h, 0)
  <2>1. ASSUME NEW j \in 1..(n - 1), Parent(j) # 0
        PROVE  Leq(At(h, Parent(j)), At(h, j))
    <3>1. Parent(j) \in Nat /\ Parent(j) < j
      BY ParentComesFirst
    <3>2. At(h, Parent(j)) = At(heap, Parent(j)) /\ At(h, j) = At(heap, j)
      BY <1>2, <2>1, <3>1 DEF At
    <3>3. j \in 1..(Len(heap) - 1)
      OBVIOUS
    <3> QED BY <3>2, <3>3 DEF HeapInv, Ordered
  <2> QED BY <1>2, <2>1 DEF OrderedBelow, PassesOver
<1>4. \A j, k \in 1..(n + 1) : j # k => heap[j].id # heap[k].id
  BY <1>1 DEF HeapInv, Distinct
<1>5. Distinct(h)
  <2>1. \A j, k \in 1..n : j # k => h[j].id # h[k].id
    <3> SUFFICES ASSUME NEW j \in 1..n, NEW k \in 1..n, j # k
                 PROVE  h[j].id # h[k].id
      OBVIOUS
    <3>1. CASE j = 1
      BY <1>2, <1>4, <3>1
    <3>2. CASE k = 1
      BY <1>2, <1>4, <3>2
    <3>3. CASE j # 1 /\ k # 1
      BY <1>2, <1>4, <3>3
    <3> QED BY <3>1, <3>2, <3>3
  <2> QED BY <1>2, <2>1 DEF Distinct
<1>6. Elements(h) = Elements(heap) \ {At(heap, 0)}
  <2>1. Elements(h) = {h[k] : k \in 1..n} /\ Elements(heap) = {heap[k] : k \in 1..(n + 1)}
    BY <1>1, <1>2 DEF Elements
  <2>2. \A k \in 2..(n + 1) : heap[k] # heap[1]
    BY <1>4
  <2>3. \A k \in 1..n : \E l \in 2..(n + 1) : h[k] = heap[l]
    <3> SUFFICES ASSUME NEW k \in 1..n
                 PROVE  \E l \in 2..(n + 1) : h[k] = heap[l]
      OBVIOUS
    <3>1. CASE k = 1
      BY <1>2, <3>1
    <3>2. CASE k # 1
      BY <1>2, <3>2
    <3> QED BY <3>1, <3>2
  <2>4. \A l \in 2..(n + 1) : \E k \in 1..n : heap[l] = h[k]
    <3> SUFFICES ASSUME NEW l \in 2..(n + 1)
                 PROVE  \E k \in 1..n : heap[l] = h[k]
      OBVIOUS
    <3>1. CASE l = n + 1
      BY <1>2, <3>1
    <3>2. CASE l # n + 1
      BY <1>2, <3>2
    <3> QED BY <3>1, <3>2
  <2>5. {h[k] : k \in 1..n} = {heap[l] : l \in 2..(n + 1)}
    <3>1. {h[k] : k \in 1..n} \subseteq {heap[l] : l \in 2..(n + 1)}
      BY <2>3
    <3>2. {heap[l] : l \in 2..(n + 1)} \subseteq {h[k] : k \in 1..n}
      BY <2>4
    <3> QED BY <3>1, <3>2
  <2>6. {heap[l] : l \in 2..(n + 1)} = {heap[k] : k \in 1..(n + 1)} \ {heap[1]}
    <3>1. \A k \in 1..(n + 1) : k = 1 \/ k \in 2..(n + 1)
      OBVIOUS
    <3>2. \A k \in 2..(n + 1) : k \in 1..(n + 1)
      OBVIOUS
    <3> QED BY <2>2, <3>1, <3>2
  <2>7. At(heap, 0) = heap[1]
    BY DEF At
  <2> QED BY <2>1, <2>5, <2>6, <2>7
<1> QED BY <1>2, <1>3, <1>5, <1>6

LEMMA PopKeepsOrder ==
  ASSUME HeapInv, Pop, heap # <<>>
  PROVE  /\ HeapInv' /\ Elements(heap') = Elements(heap) \ {At(heap, 0)}
         /\ popped' = At(heap, 0) /\ At(heap, 0) \in Elements(heap)
         /\ \A node \in Elements(heap) : Queue!First(At(heap, 0), node)
<1> DEFINE n == Len(heap) - 1
           first == At(heap, 0)
           last == At(heap, n)
           rest == SubSeq(heap, 1, n)
<1>1. /\ n \in Nat /\ heap \in [1..(n + 1) -> Node] /\ Len(heap) = n + 1
      /\ DOMAIN heap = 1..(n + 1)
  BY DEF HeapInv
<1>2. /\ popped' = first
      /\ heap' = IF last = first THEN rest ELSE SiftDown(Put(rest, 0, last), 0)
  BY DEF Pop
<1>3. first \in Elements(heap)
  BY <1>1 DEF Elements, At
<1>4. ASSUME NEW node \in Elements(heap)
      PROVE  Queue!First(first, node)
  <2>1. PICK k \in 1..(n + 1) : node = heap[k]
    BY <1>1 DEF Elements
  <2>2. k - 1 \in 0..n /\ node = At(heap, k - 1)
    BY <1>1, <2>1 DEF At
  <2>3. Leq(first, node)
    <3> HIDE DEF n
    <3>1. \A j \in 0..((n + 1) - 1) : Leq(At(heap, 0), At(heap, j))
      BY <1>1, FirstIsSmallest DEF HeapInv
    <3> QED BY <1>1, <2>2, <3>1
  <2>4. first \in Node /\ node \in Node
    BY <1>1, <2>1 DEF At
  <2> QED BY <2>3, <2>4, NodesAreCompared
<1>5. CASE n = 0
  <2>1. Len(heap) = 1
    <3> HIDE DEF n
    <3> QED BY <1>1, <1>5
  <2>2. last = first
    BY <1>5
  <2>3. heap' = <<>>
    <3>1. rest = <<>>
      <4>1. rest = SubSeq(heap, 1, 0)
        BY <1>5
      <4>2. rest \in Seq(Node) /\ Len(rest) = 0
        BY <4>1 DEF HeapInv
      <4> HIDE DEF rest
      <4> QED BY <4>2
    <3> QED BY <1>2, <2>2, <3>1
  <2>4. Elements(heap) = {first}
    <3>1. DOMAIN heap = {1}
      BY <1>1, <2>1
    <3> QED BY <3>1 DEF Elements, At
  <2>5. Elements(heap') = {}
    BY <2>3 DEF Elements
  <2>6. HeapInv'
    BY <2>3 DEF HeapInv, Ordered, Distinct
  <2> QED BY <1>2, <1>3, <1>4, <2>4, <2>5, <2>6
<1>6. CASE n > 0
  <2>1. last # first
    <3>1. heap[n + 1].id # heap[1].id
      BY <1>1, <1>6 DEF HeapInv, Distinct
    <3> QED BY <3>1 DEF At
  <2> DEFINE h == Put(rest, 0, last)
  <2>2. heap' = SiftDown(h, 0)
    BY <1>2, <2>1
  <2>3. /\ h \in [1..n -> Node] /\ OrderedBelow(h, 0) /\ Distinct(h)
        /\ Elements(h) = Elements(heap) \ {first}
    <3> HIDE DEF n
    <3> QED BY <1>1, <1>6, LastReplacesFirst
  <2>4. /\ heap' \in [1..n -> Node] /\ Ordered(heap') /\ Distinct(heap')
        /\ Elements(heap') = Elements(h)
    <3> HIDE DEF n, h
    <3>1. 0 \in 0..(n - 1)
      BY <1>1, <1>6
    <3> QED BY <1>1, <2>2, <2>3, <3>1, SiftDownSorts
  <2>5. heap' \in Seq(Node)
    <3> HIDE DEF n
    <3> QED BY <1>1, <2>4
  <2> QED BY <1>2, <1>3, <1>4, <2>3, <2>4, <2>5 DEF HeapInv
<1> QED BY <1>1, <1>5, <1>6

LEMMA HeapInvHolds == HeapSpec => []HeapInv
<1>1. HeapInit => HeapInv
  BY DEF HeapInit, HeapInv, Ordered, Distinct
<1>2. HeapInv /\ [HeapNext]_heapVars => HeapInv'
  <2> SUFFICES ASSUME HeapInv, [HeapNext]_heapVars
               PROVE  HeapInv'
    OBVIOUS
  <2>1. CASE \E node \in Node : Push(node)
    BY <2>1, PushKeepsOrder
  <2>2. CASE Pop /\ heap # <<>>
    BY <2>2, PopKeepsOrder
  <2>3. CASE UNCHANGED heap
    BY <2>3 DEF HeapInv, Ordered, Distinct
  <2>4. Pop /\ heap = <<>> => UNCHANGED heap
    BY DEF Pop
  <2> QED BY <2>1, <2>2, <2>3, <2>4 DEF HeapNext, heapVars
<1> QED BY <1>1, <1>2, PTL DEF HeapSpec

\* The heap implements the priority queue the scheduler relies on: pop returns
\* the first node by sortIndex and insertion order, no node is lost or copied.
THEOREM HeapIsQueue == HeapSpec => HeapImplementsQueue
<1>1. HeapInit => Queue!Init
  BY DEF HeapInit, Queue!Init, Elements
<1>2. HeapInv /\ [HeapNext]_heapVars => [Queue!Next]_<<Elements(heap), popped>>
  <2> SUFFICES ASSUME HeapInv, [HeapNext]_heapVars
               PROVE  [Queue!Next]_<<Elements(heap), popped>>
    OBVIOUS
  <2>1. ASSUME NEW node \in Node, Push(node)
        PROVE  Queue!Push(node)
    BY <2>1, PushKeepsOrder DEF Push, Queue!Push
  <2>2. CASE Pop /\ heap # <<>>
    <3>1. At(heap, 0) \in Elements(heap)
      BY <2>2, PopKeepsOrder
    <3> QED BY <2>2, <3>1, PopKeepsOrder DEF Queue!Pop, Queue!Next
  <2>3. CASE Pop /\ heap = <<>>
    <3>1. Elements(heap) = {} /\ UNCHANGED heap /\ popped' = None
      BY <2>3 DEF Elements, Pop
    <3>2. Elements(heap)' = Elements(heap)
      BY <3>1
    <3> QED BY <3>1, <3>2 DEF Queue!Pop, Queue!Next
  <2>4. CASE UNCHANGED heapVars
    <3>1. Elements(heap)' = Elements(heap) /\ popped' = popped
      BY <2>4 DEF heapVars
    <3> QED BY <3>1
  <2> QED BY <2>1, <2>2, <2>3, <2>4 DEF HeapNext, Queue!Next
<1> QED
  BY <1>1, <1>2, HeapInvHolds, PTL DEF HeapSpec, HeapImplementsQueue, Queue!Spec

=============================================================================
