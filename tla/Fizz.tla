-------------------------------- MODULE Fizz --------------------------------
(***************************************************************************)
(* Streaming server rendering: a request renders a tree of components into *)
(* segments.  A component that suspends gets a task and a segment of its   *)
(* own; a Suspense boundary is sent as its fallback until its content is   *)
(* complete, or is left to the client if it fails.  What is complete is    *)
(* flushed whenever the destination takes it.                              *)
(*                                                                         *)
(* One thread: `stack` is the code that is running, each step one turn of  *)
(* a loop or one call.  Components do not call back into the renderer;     *)
(* onShellReady and onAllReady may start the flow.                         *)
(***************************************************************************)
EXTENDS Integers, FiniteSets, Sequences, SequencesExt

CONSTANTS
  PageComponents,
  Boundaries,
  Pages,       \* [root, component, content, fallback] of items: what is rendered
  MaxDelays    \* bound: second suspensions of a component, and stops of the destination

Nil == "null"
Text == "text"

\* A segment is named after what it holds, a task after its segment.
Own(x) == <<"own", x>>
Content(b) == <<"content", b>>
Fallback(b) == <<"fallback", b>>
RootTask == Own("root")

PageItems == {Text} \cup PageComponents \cup Boundaries
SegmentNames == {RootTask} \cup {Own(c) : c \in PageComponents}
                  \cup {Content(b) : b \in Boundaries} \cup {Fallback(b) : b \in Boundaries}

\* What a segment of page p holds; that of a component is what the component returns.
Body(p, s) ==
  CASE s = RootTask -> p.root
    [] s[1] = "content" -> p.content[s[2]]
    [] s[1] = "fallback" -> p.fallback[s[2]]
    [] OTHER -> p.component[s[2]]

\* Each component and boundary is in one place of a page.
ASSUME FizzAssumption ==
  /\ Text \notin PageComponents \cup Boundaries
  /\ "root" \notin PageComponents /\ Nil \notin Boundaries
  /\ PageComponents \cap Boundaries = {}
  /\ Pages \subseteq [root : Seq(PageItems), component : [PageComponents -> Seq(PageItems)],
                      content : [Boundaries -> Seq(PageItems)],
                      fallback : [Boundaries -> Seq(PageItems)]]
  /\ \A p \in Pages, s, t \in SegmentNames :
       \A i \in DOMAIN Body(p, s), j \in DOMAIN Body(p, t) :
         Body(p, s)[i] = Body(p, t)[j] => Body(p, s)[i] = Text \/ (s = t /\ i = j)
  /\ MaxDelays \in Nat

VARIABLES
  page,
  pageRequest, \* the fields of Request; flowing: destination # null;
               \* scheduled: scheduleWork will call performWork
  segments,    \* of those created: status, parentFlushed, hasChunks, children, id
  boundaries,  \* of those created
  tasks,       \* blockedBoundary and the boundary or request whose abort set it is in
  stack,
  suspended,   \* tasks whose promise is pending
  client,      \* what was written: how boundaries are shown, the ids that were
               \* referred to and those of the segments sent
  delays       \* history: counts what MaxDelays bounds

fizzVars == <<page, pageRequest, segments, boundaries, tasks, stack, suspended, client, delays>>

Idle == stack = <<>>
Top == Head(stack)
Leave == stack' = Tail(stack)
IsAt(place) == ~Idle /\ Top.at = place

Frame(at) == <<[at |-> at]>>
TaskFrame(at, task) == <<[at |-> at, task |-> task]>>
EachTask(at, list) == [i \in DOMAIN list |-> [at |-> at, task |-> list[i]]]

\* The innermost Suspense boundary being rendered is `of`, Nil in the task itself.
RenderFrame(task, of, rest, segment, boundary) ==
  <<[at |-> "render", task |-> task, of |-> of, rest |-> rest, segment |-> segment,
     boundary |-> boundary]>>

NewSegment(parentFlushed) ==
  [status |-> "pending", parentFlushed |-> parentFlushed, hasChunks |-> FALSE,
   children |-> <<>>, id |-> Nil]

NewBoundary ==
  [parentFlushed |-> FALSE, pendingTasks |-> 0, forceClientRender |-> FALSE,
   completedSegments |-> <<>>, rootSegmentID |-> Nil, fallbackTasks |-> <<>>]

\* s[x] = v
SetAt(s, x, v) == [y \in DOMAIN s \cup {x} |-> IF y = x THEN v ELSE s[y]]


-----------------------------------------------------------------------------
(* Tasks                                                                     *)

\* createTask, given the boundaries it is created in
CreateTask(task, boundary, abortSet, bs) ==
  LET counted == IF boundary = Nil THEN bs
                 ELSE [bs EXCEPT ![boundary].pendingTasks = @ + 1]
  IN /\ tasks' = SetAt(tasks, task, [boundary |-> boundary, abortSet |-> abortSet])
     /\ boundaries' = IF abortSet = Nil THEN counted
                      ELSE [counted EXCEPT ![abortSet].fallbackTasks = Append(@, task)]

Counting(task, boundary, abortSet) ==
  [pageRequest EXCEPT
     !.allPendingTasks = @ + 1,
     !.pendingRootTasks = IF boundary = Nil THEN @ + 1 ELSE @,
     !.abortable = IF abortSet = Nil THEN Append(@, task) ELSE @]

\* task.abortSet.delete(task)
LeaveAbortSet(task, req, bs) ==
  IF tasks[task].abortSet = Nil
  THEN pageRequest' = [req EXCEPT !.abortable = RemoveFirst(@, task)] /\ boundaries' = bs
  ELSE /\ pageRequest' = req
       /\ boundaries' = [bs EXCEPT ![tasks[task].abortSet].fallbackTasks = RemoveFirst(@, task)]

\* pingTask, when the promise of a task settles
PingTask(task) ==
  /\ Idle
  /\ task \in suspended
  /\ suspended' = suspended \ {task}
  /\ pageRequest' = [pageRequest EXCEPT !.pinged = Append(@, task),
                                        !.scheduled = @ \/ pageRequest.pinged = <<>>]
  /\ UNCHANGED <<page, segments, boundaries, tasks, stack, client, delays>>

PerformTasks ==
  /\ Idle
  /\ pageRequest.scheduled
  /\ pageRequest' = [pageRequest EXCEPT !.scheduled = FALSE]
  /\ stack' = IF pageRequest.status = "closed" THEN <<>>
              ELSE <<[at |-> "perform", next |-> 1]>>
  /\ UNCHANGED <<page, segments, boundaries, tasks, suspended, client, delays>>

NodeOf(task) ==
  IF task \in {Own(c) : c \in PageComponents} THEN <<task[2]>> ELSE Body(page, task)

\* Mutant: a task that was aborted meanwhile is rendered all the same.
RetryAnyTask ==
  /\ IsAt("perform")
  /\ Top.next <= Len(pageRequest.pinged)
  /\ LET task == pageRequest.pinged[Top.next]
     IN stack' = RenderFrame(task, Nil, NodeOf(task), task, tasks[task].boundary)
                   \o <<[Top EXCEPT !.next = @ + 1]>> \o Tail(stack)
  /\ UNCHANGED <<page, pageRequest, segments, boundaries, tasks, suspended, client, delays>>

\* retryTask of the next task in pingedTasks
RetryTask ==
  /\ IsAt("perform")
  /\ Top.next <= Len(pageRequest.pinged)
  /\ LET task == pageRequest.pinged[Top.next]
     IN stack' = (IF segments[task].status = "pending"
                  THEN RenderFrame(task, Nil, NodeOf(task), task, tasks[task].boundary)
                  ELSE <<>>)
                   \o <<[Top EXCEPT !.next = @ + 1]>> \o Tail(stack)
  /\ UNCHANGED <<page, pageRequest, segments, boundaries, tasks, suspended, client, delays>>

EndPerformTasks ==
  /\ IsAt("perform")
  /\ Top.next > Len(pageRequest.pinged)
  /\ pageRequest' = [pageRequest EXCEPT !.pinged = <<>>]
  /\ stack' = (IF pageRequest.flowing THEN Frame("root") ELSE <<>>) \o Tail(stack)
  /\ UNCHANGED <<page, segments, boundaries, tasks, suspended, client, delays>>

-----------------------------------------------------------------------------
(* Rendering                                                                 *)

Rendering(item) == IsAt("render") /\ Top.rest # <<>> /\ Head(Top.rest) = item

GoOnWith(items) == stack' = <<[Top EXCEPT !.rest = items \o Tail(@)]>> \o Tail(stack)

RenderText ==
  /\ Rendering(Text)
  /\ segments' = [segments EXCEPT ![Top.segment].hasChunks = TRUE]
  /\ GoOnWith(<<>>)
  /\ UNCHANGED <<page, pageRequest, boundaries, tasks, suspended, client, delays>>

ComponentRenders(c) ==
  /\ Rendering(c)
  /\ GoOnWith(Body(page, Own(c)))
  /\ UNCHANGED <<page, pageRequest, segments, boundaries, tasks, suspended, client, delays>>

\* The component of a task suspends again: retryTask keeps the task.
SuspendsAgain(c) ==
  /\ Rendering(c)
  /\ Top.task = Own(c)
  /\ delays < MaxDelays
  /\ delays' = delays + 1
  /\ suspended' = suspended \cup {Top.task}
  /\ Leave
  /\ UNCHANGED <<page, pageRequest, segments, boundaries, tasks, client>>

SpawnNewSuspendedTask(c) ==
  /\ Rendering(c)
  /\ Top.task # Own(c)
  /\ LET abortSet == tasks[Top.task].abortSet
     IN /\ CreateTask(Own(c), Top.boundary, abortSet, boundaries)
        /\ pageRequest' = Counting(Own(c), Top.boundary, abortSet)
  /\ segments' = SetAt([segments EXCEPT ![Top.segment].children = Append(@, Own(c))],
                      Own(c), NewSegment(FALSE))
  /\ suspended' = suspended \cup {Own(c)}
  /\ GoOnWith(<<>>)
  /\ UNCHANGED <<page, client, delays>>

\* renderSuspenseBoundary up to the rendering of its content
BeginBoundary(b) ==
  /\ Rendering(b)
  /\ boundaries' = SetAt(boundaries, b, NewBoundary)
  /\ segments' = SetAt(SetAt([segments EXCEPT ![Top.segment].children = Append(@, Fallback(b))],
                          Content(b), NewSegment(TRUE)), Fallback(b), NewSegment(FALSE))
  /\ stack' = RenderFrame(Top.task, b, Body(page, Content(b)), Content(b), b)
                \o <<[Top EXCEPT !.rest = Tail(@)]>> \o Tail(stack)
  /\ UNCHANGED <<page, pageRequest, tasks, suspended, client, delays>>

\* The end of renderSuspenseBoundary, back in the frame of the parent
SpawnFallback(b, bs) ==
  LET parent == Head(Tail(stack)).boundary
  IN /\ CreateTask(Fallback(b), parent, b, bs)
     /\ pageRequest' = [Counting(Fallback(b), parent, b) EXCEPT
                          !.pinged = Append(@, Fallback(b))]

\* A segment that holds nothing but the segment of a task: that one is sent in its place.
StandsFor(segs, s) ==
  IF /\ ~segs[s].hasChunks /\ Len(segs[s].children) = 1
     /\ segs[s].children[1][1] = "own"
  THEN {segs[s].children[1]} ELSE {}

\* queueCompletedSegment: <<segments, boundaries>> after it
QueueCompleted(b, s, segs, bs) ==
  LET inner[x \in DOMAIN segs] == {x} \cup
        UNION {IF segs[c].status = "completed" THEN inner[c] ELSE {c} : c \in StandsFor(segs, x)}
      moved == inner[s] \ {s}
      queued == {x \in DOMAIN segs : /\ x \in inner[s]
                                     /\ StandsFor(segs, x) = {}
                                     /\ x = s \/ segs[x].status = "completed"}
  IN <<[x \in DOMAIN segs |-> IF x \in moved
          THEN [segs[x] EXCEPT !.id = segs[s].id, !.parentFlushed = TRUE] ELSE segs[x]],
       [bs EXCEPT ![b].completedSegments = @ \o SetToSeq(queued)]>>

\* The content is rendered, but for what is suspended in it.
EndContent ==
  /\ IsAt("render")
  /\ Top.rest = <<>>
  /\ Top.of # Nil
  /\ LET done == [segments EXCEPT ![Content(Top.of)].status = "completed"]
         queued == QueueCompleted(Top.of, Content(Top.of), done, boundaries)
     IN /\ segments' = queued[1]
        /\ IF queued[2][Top.of].pendingTasks = 0
           THEN boundaries' = queued[2] /\ UNCHANGED <<pageRequest, tasks>>
           ELSE SpawnFallback(Top.of, queued[2])
  /\ Leave
  /\ UNCHANGED <<page, suspended, client, delays>>

\* A component throws in the content of a boundary.
ContentThrows(c) ==
  /\ Rendering(c)
  /\ Top.of # Nil
  /\ segments' = [segments EXCEPT ![Content(Top.of)].status = "errored"]
  /\ SpawnFallback(Top.of, [boundaries EXCEPT ![Top.of].forceClientRender = TRUE])
  /\ Leave
  /\ UNCHANGED <<page, suspended, client, delays>>

-----------------------------------------------------------------------------
(* How a task ends                                                           *)

\* fatalError
Fatal(req) == [req EXCEPT !.status = IF req.flowing THEN "closed" ELSE "closing"]
Ended(c, how) == [c EXCEPT !.end = IF pageRequest.flowing /\ @ = "none" THEN how ELSE @]

\* Mutant: each task that fails reports its boundary to the client.
ForcedAgain(req, b, bs) ==
  IF bs[b].parentFlushed THEN [req EXCEPT !.clientRendered = Append(@, b)] ELSE req

\* A boundary is put into client rendered mode.
Forced(req, b, bs) ==
  IF ~bs[b].forceClientRender /\ bs[b].parentFlushed
  THEN [req EXCEPT !.clientRendered = Append(@, b)] ELSE req

\* erroredTask
TaskThrows(c) ==
  /\ Rendering(c)
  /\ Top.of = Nil
  /\ segments' = [segments EXCEPT ![Top.segment].status = "errored"]
  /\ IF Top.boundary = Nil
     THEN /\ LeaveAbortSet(Top.task, Fatal(pageRequest), boundaries)
          /\ client' = Ended(client, "error")
     ELSE /\ LeaveAbortSet(Top.task, Forced(pageRequest, Top.boundary, boundaries),
               [boundaries EXCEPT ![Top.boundary].pendingTasks = @ - 1,
                                  ![Top.boundary].forceClientRender = TRUE])
          /\ UNCHANGED client
  /\ stack' = Frame("counted") \o Tail(stack)
  /\ UNCHANGED <<page, tasks, suspended, delays>>

\* retryTask comes to the end of the node.
TaskCompletes ==
  /\ IsAt("render")
  /\ Top.rest = <<>>
  /\ Top.of = Nil
  /\ segments' = [segments EXCEPT ![Top.segment].status = "completed"]
  /\ LeaveAbortSet(Top.task, pageRequest, boundaries)
  /\ stack' = TaskFrame("finished", Top.task) \o Tail(stack)
  /\ UNCHANGED <<page, tasks, suspended, client, delays>>

AbortTaskSoft ==
  /\ IsAt("abortSoft")
  /\ segments' = [segments EXCEPT ![Top.task].status = "aborted"]
  /\ stack' = TaskFrame("finished", Top.task) \o Tail(stack)
  /\ UNCHANGED <<page, pageRequest, boundaries, tasks, suspended, client, delays>>

\* startFlowing, with the code that goes on after it
Flow(then) ==
  /\ pageRequest' = [pageRequest EXCEPT
       !.flowing = @ \/ pageRequest.status = "open",
       !.status = IF @ = "closing" THEN "closed" ELSE @]
  /\ client' = [client EXCEPT !.end = IF pageRequest.status = "closing" THEN "error" ELSE @]
  /\ stack' = (IF ~pageRequest.flowing /\ pageRequest.status = "open"
               THEN Frame("root") ELSE <<>>) \o then

\* finishedTask of a task that blocks the root
FinishedRootTask ==
  /\ IsAt("finished")
  /\ tasks[Top.task].boundary = Nil
  /\ pageRequest' = [pageRequest EXCEPT
       !.root = IF segments[Top.task].parentFlushed THEN Top.task ELSE @,
       !.pendingRootTasks = @ - 1]
  /\ stack' = (IF pageRequest.pendingRootTasks = 1 THEN Frame("ready") ELSE <<>>)
                \o Frame("counted") \o Tail(stack)
  /\ UNCHANGED <<page, segments, boundaries, tasks, suspended, client, delays>>

\* The effect of finishedTask on the last task of a boundary, and on another
LastOfBoundary(b, queued) ==
  /\ segments' = queued[1]
  /\ boundaries' = [queued[2] EXCEPT ![b].fallbackTasks = <<>>]
  /\ pageRequest' = IF boundaries[b].parentFlushed
                    THEN [pageRequest EXCEPT !.completed = Append(@, b)] ELSE pageRequest
  /\ stack' = EachTask("abortSoft", boundaries[b].fallbackTasks)
                \o Frame("counted") \o Tail(stack)

OneOfBoundary(b, queued, isQueued) ==
  /\ segments' = queued[1]
  /\ boundaries' = queued[2]
  /\ pageRequest' = IF /\ isQueued
                       /\ Len(queued[2][b].completedSegments) = 1
                       /\ boundaries[b].parentFlushed
                    THEN [pageRequest EXCEPT !.partial = Append(@, b)] ELSE pageRequest
  /\ stack' = Frame("counted") \o Tail(stack)

\* finishedTask of a task that blocks a boundary
FinishedTask ==
  /\ IsAt("finished")
  /\ LET b == tasks[Top.task].boundary
     IN /\ b # Nil
        /\ LET less == [boundaries EXCEPT ![b].pendingTasks = @ - 1]
               segment == segments[Top.task]
               isQueued == segment.parentFlushed /\ segment.status = "completed"
               queued == IF isQueued THEN QueueCompleted(b, Top.task, segments, less)
                         ELSE <<segments, less>>
           IN IF boundaries[b].forceClientRender
              THEN /\ boundaries' = less
                   /\ stack' = Frame("counted") \o Tail(stack)
                   /\ UNCHANGED <<pageRequest, segments>>
              ELSE IF less[b].pendingTasks = 0 THEN LastOfBoundary(b, queued)
              ELSE OneOfBoundary(b, queued, isQueued)
  /\ UNCHANGED <<page, tasks, suspended, client, delays>>

\* onShellReady and onAllReady, which may start the flow
Ready ==
  /\ IsAt("ready")
  /\ \/ Flow(Tail(stack))
     \/ Leave /\ UNCHANGED <<pageRequest, client>>
  /\ UNCHANGED <<page, segments, boundaries, tasks, suspended, delays>>

StartStreaming ==
  /\ Idle
  /\ ~pageRequest.flowing
  /\ pageRequest.status # "closed"
  /\ Flow(<<>>)
  /\ UNCHANGED <<page, segments, boundaries, tasks, suspended, delays>>

\* The end of finishedTask, erroredTask and abortTask
TaskCounted ==
  /\ IsAt("counted")
  /\ pageRequest' = [pageRequest EXCEPT !.allPendingTasks = @ - 1]
  /\ stack' = (IF pageRequest.allPendingTasks = 1 THEN Frame("ready") ELSE <<>>) \o Tail(stack)
  /\ UNCHANGED <<page, segments, boundaries, tasks, suspended, client, delays>>

-----------------------------------------------------------------------------
(* abort                                                                     *)

Abort ==
  /\ Idle
  /\ pageRequest.abortable # <<>>
  /\ stack' = EachTask("abort", pageRequest.abortable) \o Frame("aborted")
  /\ UNCHANGED <<page, pageRequest, segments, boundaries, tasks, suspended, client, delays>>

AbortRootTask ==
  /\ IsAt("abort")
  /\ tasks[Top.task].boundary = Nil
  /\ segments' = [segments EXCEPT ![Top.task].status = "aborted"]
  /\ pageRequest' = [pageRequest EXCEPT !.allPendingTasks = @ - 1, !.status = "closed"]
  /\ client' = Ended(client, "aborted")
  /\ Leave
  /\ UNCHANGED <<page, boundaries, tasks, suspended, delays>>

AbortTask ==
  /\ IsAt("abort")
  /\ LET b == tasks[Top.task].boundary
     IN /\ b # Nil
        /\ pageRequest' = Forced(pageRequest, b, boundaries)
        /\ boundaries' = [boundaries EXCEPT ![b].pendingTasks = @ - 1,
                                            ![b].forceClientRender = TRUE,
                                            ![b].fallbackTasks = <<>>]
        /\ stack' = EachTask("abort", boundaries[b].fallbackTasks)
                      \o Frame("counted") \o Tail(stack)
  /\ segments' = [segments EXCEPT ![Top.task].status = "aborted"]
  /\ UNCHANGED <<page, tasks, suspended, client, delays>>

EndAbort ==
  /\ IsAt("aborted")
  /\ pageRequest' = [pageRequest EXCEPT !.abortable = <<>>]
  /\ stack' = (IF pageRequest.flowing THEN Frame("root") ELSE <<>>) \o Tail(stack)
  /\ UNCHANGED <<page, segments, boundaries, tasks, suspended, client, delays>>

-----------------------------------------------------------------------------
(* flushCompletedQueues                                                      *)

\* What a flush reads and changes, handed from one write to the next
Flushed == [segments |-> segments, boundaries |-> boundaries, client |-> client,
            partial |-> pageRequest.partial]

IsLoading(f, b) == ~f.boundaries[b].forceClientRender /\ f.boundaries[b].pendingTasks > 0

IsInlined(f, b) ==
  ~f.boundaries[b].forceClientRender /\ f.boundaries[b].pendingTasks = 0

IsWhole(f, b) == Len(f.boundaries[b].completedSegments) = 1

\* The segment written in place of s: the content of a boundary that is complete
Chosen(f, s) ==
  IF s[1] = "fallback" /\ IsInlined(f, s[2]) /\ IsWhole(f, s[2])
  THEN f.boundaries[s[2]].completedSegments[1] ELSE s

Reached(f, s) ==
  LET below[x \in DOMAIN f.segments] ==
        LET here == Chosen(f, x)
        IN {here} \cup
           IF f.segments[here].status = "completed"
           THEN UNION {below[c] : c \in ToSet(f.segments[here].children)} ELSE {}
  IN below[s]

How(f, b) ==
  IF f.boundaries[b].forceClientRender THEN "client"
  ELSE IF IsLoading(f, b) THEN "loading" ELSE "complete"

\* flushSegment and flushSubtree: everything below s that is there is written,
\* with a placeholder for each pending segment and boundary.
FlushSegment(f, s) ==
  LET reached == Reached(f, s)
      written == {x \in reached : f.segments[x].status = "completed"}
      pending == {x \in reached : f.segments[x].status = "pending"}
      met == {b \in DOMAIN f.boundaries :
                \E x \in written : Fallback(b) \in ToSet(f.segments[x].children)}
      loading == {b \in met : IsLoading(f, b)}
  IN [segments |-> [x \in DOMAIN f.segments |->
        IF x \notin reached THEN f.segments[x]
        ELSE IF x \in pending
        THEN [f.segments[x] EXCEPT !.parentFlushed = TRUE, !.id = x]
        ELSE [f.segments[x] EXCEPT !.parentFlushed = TRUE, !.status = "flushed"]],
      boundaries |-> [b \in DOMAIN f.boundaries |->
        IF b \notin met THEN f.boundaries[b]
        ELSE [f.boundaries[b] EXCEPT !.parentFlushed = TRUE,
                !.rootSegmentID = IF b \in loading THEN Content(b) ELSE @]],
      partial |-> f.partial
        \o SetToSeq({b \in loading : f.boundaries[b].completedSegments # <<>>}),
      client |-> [f.client EXCEPT
        !.shown = [b \in Boundaries |-> IF b \in met THEN How(f, b) ELSE @[b]],
        !.referred = @ \cup pending,
        !.failed = @ \/ reached # written \cup pending
                     \/ \E b \in met : IsInlined(f, b) /\ ~IsWhole(f, b)]]

\* flushPartiallyCompletedSegment
FlushPartiallyCompletedSegment(f, b, s) ==
  IF f.segments[s].status = "flushed" THEN f
  ELSE LET id == IF f.segments[s].id = Nil THEN f.boundaries[b].rootSegmentID
                 ELSE f.segments[s].id
       IN FlushSegment([f EXCEPT !.segments[s].id = id,
                                 !.client.sent = Append(@, id),
                                 !.client.failed = @ \/ id = Nil], s)

\* After a write the flush goes on, unless the destination is full; if a check
\* of the code threw, the request fails: closeWithError destroys the destination in
\* the same job, after the close that the `finally` may have got to.
Flushing(f, req, isFull, place) ==
  /\ segments' = f.segments
  /\ boundaries' = f.boundaries
  /\ delays' = IF isFull THEN delays + 1 ELSE delays
  /\ IF f.client.failed
     THEN /\ pageRequest' = Fatal(req)
          /\ client' = Ended(f.client, "error")
          /\ Leave
     ELSE /\ pageRequest' = [req EXCEPT !.partial = f.partial, !.flowing = ~isFull]
          /\ client' = f.client
          /\ stack' = Frame(IF isFull THEN "flushed" ELSE place) \o Tail(stack)
  /\ UNCHANGED <<page, tasks, suspended>>

MayBeFull == IF delays < MaxDelays THEN BOOLEAN ELSE {FALSE}

FlushRoot ==
  /\ IsAt("root")
  /\ IF pageRequest.root # Nil /\ pageRequest.pendingRootTasks = 0
     THEN Flushing(FlushSegment(Flushed, pageRequest.root), [pageRequest EXCEPT !.root = Nil],
                   FALSE, "clientRendered")
     ELSE Flushing(Flushed, pageRequest, FALSE, "clientRendered")

Following == [clientRendered |-> "completed", completed |-> "partial", partial |-> "flushed"]

FlushNextQueue ==
  \E place \in DOMAIN Following :
    /\ IsAt(place)
    /\ pageRequest[place] = <<>>
    /\ stack' = Frame(Following[place]) \o Tail(stack)
    /\ UNCHANGED <<page, pageRequest, segments, boundaries, tasks, suspended, client, delays>>

\* The instruction that tells the client what becomes of a boundary
Told(f, b, how) == [f EXCEPT !.client.shown[b] = how, !.client.told[b] = @ + 1]

FlushClientRenderedBoundary(isFull) ==
  /\ IsAt("clientRendered")
  /\ pageRequest.clientRendered # <<>>
  /\ Flushing(Told(Flushed, Head(pageRequest.clientRendered), "client"),
              [pageRequest EXCEPT !.clientRendered = Tail(@)], isFull, "clientRendered")

\* flushPartiallyCompletedSegment of each segment of a list
FlushEach(b, list, start) ==
  LET after[k \in 0..Len(list)] ==
        IF k = 0 THEN start
        ELSE FlushPartiallyCompletedSegment(after[k - 1], b, list[k])
  IN after[Len(list)]

FirstCompleted(b, n) == SubSeq(boundaries[b].completedSegments, 1, n)

\* Mutant: the segments for which there is no more room are dropped.
FlushSegmentsDropping(b, n) ==
  FlushEach(b, FirstCompleted(b, n), [Flushed EXCEPT !.boundaries[b].completedSegments = <<>>])

\* The first n completed segments of b are flushed.
FlushSegments(b, n) ==
  FlushEach(b, FirstCompleted(b, n),
            [Flushed EXCEPT !.boundaries[b].completedSegments = SubSeq(@, n + 1, Len(@))])

FlushCompletedBoundary(isFull) ==
  /\ IsAt("completed")
  /\ pageRequest.completed # <<>>
  /\ LET b == Head(pageRequest.completed)
     IN Flushing(Told(FlushSegments(b, Len(boundaries[b].completedSegments)), b, "complete"),
                 [pageRequest EXCEPT !.completed = Tail(@)], isFull, "completed")

\* flushPartialBoundary: when the destination is full the boundary leaves the
\* queue with the rest of its segments unsent.
FlushPartialBoundary(isFull) ==
  /\ IsAt("partial")
  /\ pageRequest.partial # <<>>
  /\ LET b == Head(pageRequest.partial)
         all == Len(boundaries[b].completedSegments)
     IN \E n \in IF isFull THEN 1..all ELSE {all} :
          LET f == FlushSegments(b, n)
          IN Flushing([f EXCEPT !.partial = Tail(@)], pageRequest, isFull, "partial")

\* The end of flushCompletedQueues.  The completed boundaries are looked at once
\* more before it; none has come since, byteSize being 0 always.
EndFlush ==
  /\ IsAt("flushed")
  /\ client' = IF /\ pageRequest.allPendingTasks = 0
                  /\ pageRequest.pinged = <<>>
                  /\ pageRequest.clientRendered = <<>>
                  /\ pageRequest.completed = <<>>
               THEN [client EXCEPT !.end = IF @ = "none" THEN "done" ELSE @] ELSE client
  /\ Leave
  /\ UNCHANGED <<page, pageRequest, segments, boundaries, tasks, suspended, delays>>

-----------------------------------------------------------------------------
\* createRequest and startWork
FizzInit ==
  /\ page \in Pages
  /\ pageRequest = [status |-> "open", flowing |-> FALSE, scheduled |-> TRUE,
                    allPendingTasks |-> 1, pendingRootTasks |-> 1, root |-> Nil,
                    abortable |-> <<RootTask>>, pinged |-> <<RootTask>>,
                    clientRendered |-> <<>>, completed |-> <<>>, partial |-> <<>>]
  /\ segments = [s \in {RootTask} |-> NewSegment(TRUE)]
  /\ boundaries = <<>>
  /\ tasks = [task \in {RootTask} |-> [boundary |-> Nil, abortSet |-> Nil]]
  /\ stack = <<>>
  /\ suspended = {}
  /\ client = [shown |-> [b \in Boundaries |-> "unwritten"],
               told |-> [b \in Boundaries |-> 0],
               referred |-> {}, sent |-> <<>>, failed |-> FALSE, end |-> "none"]
  /\ delays = 0

Render ==
  \/ RenderText \/ EndContent \/ TaskCompletes
  \/ \E b \in Boundaries : BeginBoundary(b)
  \/ \E c \in PageComponents :
       \/ ComponentRenders(c) \/ SuspendsAgain(c) \/ SpawnNewSuspendedTask(c)
       \/ ContentThrows(c) \/ TaskThrows(c)

Finish == FinishedRootTask \/ FinishedTask \/ AbortTaskSoft \/ Ready \/ TaskCounted

Flush ==
  \/ FlushRoot \/ FlushNextQueue \/ EndFlush
  \/ \E isFull \in MayBeFull :
       \/ FlushClientRenderedBoundary(isFull) \/ FlushCompletedBoundary(isFull)
       \/ FlushPartialBoundary(isFull)

FizzNext ==
  \/ \E task \in suspended : PingTask(task)
  \/ PerformTasks \/ RetryTask \/ EndPerformTasks
  \/ Render \/ Finish \/ Flush
  \/ StartStreaming \/ Abort \/ AbortRootTask \/ AbortTask \/ EndAbort

FizzSpec == FizzInit /\ [][FizzNext]_fizzVars

-----------------------------------------------------------------------------
(* Properties.                                                               *)

Live == {task \in DOMAIN tasks : segments[task].status = "pending"}

\* A request that has not failed is never stuck: between jobs each task that is
\* left waits for a promise or for work that is scheduled, and a stream without
\* tasks that has all it takes is ended.
NothingStalls ==
  Idle /\ pageRequest.status = "open" =>
    /\ Live \subseteq suspended \cup ToSet(pageRequest.pinged)
    /\ pageRequest.pinged # <<>> => pageRequest.scheduled
    /\ Live = {} /\ pageRequest.flowing => pageRequest.scheduled \/ client.end = "done"

\* The fallback that holds a task or its placeholder, Nil if none
Within(task) == IF task[1] = "fallback" THEN task[2] ELSE tasks[task].abortSet

IsReplaced(task) == Within(task) # Nil /\ client.shown[Within(task)] = "complete"

\* When the client is told that a boundary is complete, its content was sent and
\* the placeholders in it were filled, but for those in fallbacks that were
\* replaced themselves.  No id is sent twice.
RevealedIsWhole ==
  /\ IsInjective(client.sent)
  /\ Idle => \A task \in client.referred \ ToSet(client.sent) :
       LET b == tasks[task].boundary
       IN b # Nil /\ client.shown[b] = "complete" => IsReplaced(task)

\* The client is told at most once, and only of a boundary it shows as loading,
\* what becomes of it; a stream that ends by itself has told all.
BoundariesAreResolvedOnce ==
  [][/\ \A b \in Boundaries : client'.told[b] # client.told[b] => client.shown[b] = "loading"
     /\ client'.end = "done" /\ pageRequest.status = "open" =>
          \A b \in Boundaries : client.shown[b] # "loading"]_fizzVars

\* The errors of flushSubtree, flushSegment and flushPartiallyCompletedSegment
\* that end in "This is a bug in React." are never thrown.
NoBugInReact == ~client.failed

\* completeBoundary looks up the content it is to reveal by its id.  Not so for a
\* boundary in a fallback that was given up; no run checks this.
InstructionsFindContent ==
  Idle => \A b \in Boundaries :
    client.told[b] = 1 /\ client.shown[b] = "complete" => Content(b) \in ToSet(client.sent)

\* After an abort no task is left.  Fallbacks of a boundary that failed are; no run
\* checks this.
AbortEndsTasks == Idle /\ pageRequest.abortable = <<>> => Live = {}
=============================================================================
