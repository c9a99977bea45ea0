----------------------------- MODULE FizzProofs -----------------------------
(***************************************************************************)
(* For every page: between jobs each task that is left waits for a promise *)
(* or for work that is scheduled, and a stream that has all is ended.      *)
(*                                                                         *)
(* The stack is seen from its bottom, where a step leaves it alone.  What  *)
(* has to be known of it is ShapeInv: a flush runs on its own, renders are *)
(* nested in one retry, aborts in one abort.  CountInv is the heart: the   *)
(* request counts the tasks that are pending and those that ended and were *)
(* not counted yet.  It holds only if no task ends twice, for which        *)
(* AbortInv knows that each set of tasks to abort holds pending tasks,     *)
(* once each and in one set only, and if none is created twice, for which  *)
(* OpenedInv knows that nothing that was not reached yet has a task or a   *)
(* segment: each component and boundary is in one place of the page.       *)
(***************************************************************************)
EXTENDS Fizz, WellFoundedInduction, SequenceTheorems, FiniteSetTheorems, TLAPS

-----------------------------------------------------------------------------
(* The stack, seen from its bottom                                           *)

\* The frames of the stack, the bottom first
Height == Len(stack)
Calls == [h \in 1..Len(stack) |-> stack[Len(stack) + 1 - h]]

TaskNames ==
  {RootTask} \cup {Own(c) : c \in PageComponents} \cup {Fallback(b) : b \in Boundaries}
MaybeBoundary == Boundaries \cup {Nil}
FlushPlaces == {"root", "clientRendered", "completed", "partial", "flushed"}

PlainFrames == [at : {"ready", "counted", "aborted"} \cup FlushPlaces]
TaskFrames == [at : {"finished", "abort", "abortSoft"}, task : TaskNames]
PerformFrames == [at : {"perform"}, next : Nat \ {0}]
RenderFrames == [at : {"render"}, task : TaskNames, of : MaybeBoundary, rest : Seq(PageItems),
                 segment : SegmentNames, boundary : MaybeBoundary]
Frames == PlainFrames \cup TaskFrames \cup PerformFrames \cup RenderFrames

\* What a step does to the stack
Below(n) == \A h \in 1..n : Calls'[h] = Calls[h]
Leaves == Height' = Height - 1 /\ Below(Height - 1)
Becomes(f) == Height' = Height /\ Below(Height - 1) /\ Calls'[Height] = f
BecomesUnder(f, g) ==
  /\ Height' = Height + 1 /\ Below(Height - 1)
  /\ Calls'[Height] = f /\ Calls'[Height + 1] = g

\* From height n, a frame below those of the tasks of a list, the first one at the top
GetsTasks(n, frame, at, list) ==
  /\ Height' = n + Len(list) /\ Below(n - 1)
  /\ Calls'[n] = [at |-> frame]
  /\ \A h \in (n + 1)..(n + Len(list)) :
       Calls'[h] = [at |-> at, task |-> list[n + Len(list) + 1 - h]]

\* What replaces the top of a stack is above the rest of it.
LEMMA OverTheRest ==
  ASSUME NEW S, NEW st \in Seq(S), st # <<>>, NEW top \in Seq(S), NEW new, new = top \o Tail(st)
  PROVE  /\ new \in Seq(S) /\ Len(new) = Len(top) + Len(st) - 1
         /\ \A h \in 1..(Len(st) - 1) : new[Len(new) + 1 - h] = st[Len(st) + 1 - h]
         /\ \A i \in 1..Len(top) : new[i] = top[i]
<1>1. /\ Tail(st) \in Seq(S) /\ Len(Tail(st)) = Len(st) - 1 /\ Len(st) \in Nat /\ Len(st) > 0
      /\ \A i \in 1..Len(Tail(st)) : Tail(st)[i] = st[i + 1]
  OBVIOUS
<1>2. PICK rest \in Seq(S) : rest = Tail(st)
  BY <1>1
<1>3. Len(top) \in Nat /\ Len(rest) = Len(st) - 1
  BY <1>1, <1>2
<1>4. /\ new \in Seq(S) /\ Len(new) = Len(top) + Len(rest)
      /\ \A i \in 1..(Len(top) + Len(rest)) :
           new[i] = IF i <= Len(top) THEN top[i] ELSE rest[i - Len(top)]
  BY <1>2, ConcatProperties
<1>5. ASSUME NEW h \in 1..(Len(st) - 1)
      PROVE  new[Len(new) + 1 - h] = st[Len(st) + 1 - h]
  BY <1>1, <1>2, <1>3, <1>4
<1>6. \A i \in 1..Len(top) : new[i] = top[i]
  BY <1>3, <1>4
<1> QED BY <1>1, <1>3, <1>4, <1>5, <1>6

LEMMA TheRestStays ==
  ASSUME stack \in Seq(Frames), stack # <<>>, NEW top \in Seq(Frames),
         stack' = top \o Tail(stack)
  PROVE  /\ stack' \in Seq(Frames) /\ Len(stack') = Len(top) + Len(stack) - 1
         /\ \A h \in 1..(Len(stack) - 1) :
              stack'[Len(stack') + 1 - h] = stack[Len(stack) + 1 - h]
         /\ \A i \in 1..Len(top) : stack'[i] = top[i]
BY OverTheRest

LEMMA SeenFromBelow ==
  ASSUME NEW S, NEW st \in Seq(S),
         NEW calls, calls = [h \in 1..Len(st) |-> st[Len(st) + 1 - h]]
  PROVE  /\ Len(st) \in Nat /\ calls \in [1..Len(st) -> S]
         /\ st = <<>> <=> Len(st) = 0
         /\ st # <<>> =>
              Len(st) \in 1..Len(st) /\ Head(st) = calls[Len(st)] /\ Head(st) \in S
<1>1. Len(st) \in Nat /\ (st = <<>> <=> Len(st) = 0)
  OBVIOUS
<1>2. ASSUME NEW h \in 1..Len(st)
      PROVE  calls[h] \in S
  BY <1>1
<1>3. calls \in [1..Len(st) -> S]
  BY <1>2
<1>4. ASSUME st # <<>>
      PROVE  Len(st) \in 1..Len(st) /\ Head(st) = calls[Len(st)] /\ Head(st) \in S
  BY <1>1, <1>3, <1>4
<1> QED BY <1>1, <1>3, <1>4

LEMMA TopIs ==
  ASSUME stack \in Seq(Frames)
  PROVE  /\ Height \in Nat /\ Calls \in [1..Height -> Frames]
         /\ Idle <=> Height = 0
         /\ ~Idle => Height \in 1..Height /\ Top = Calls[Height] /\ Top \in Frames
BY SeenFromBelow DEF Height, Calls, Idle, Top

LEMMA TopIsNext ==
  ASSUME stack' \in Seq(Frames)
  PROVE  /\ Height' \in Nat /\ Calls' \in [1..Height' -> Frames]
         /\ Idle' <=> Height' = 0
         /\ ~Idle' => Height' \in 1..Height' /\ Top' = Calls'[Height'] /\ Top' \in Frames
BY SeenFromBelow DEF Height, Calls, Idle, Top

LEMMA StackLeaves ==
  ASSUME stack \in Seq(Frames), ~Idle, Leave
  PROVE  Leaves /\ stack' \in Seq(Frames)
<1>1. /\ stack # <<>> /\ <<>> \in Seq(Frames) /\ Len(<<>>) = 0 /\ stack' = Tail(stack)
      /\ Tail(stack) \in Seq(Frames)
  BY DEF Idle, Leave
<1>2. stack' = <<>> \o Tail(stack)
  BY <1>1
<1>3. /\ Len(stack') = 0 + Len(stack) - 1
      /\ \A h \in 1..(Len(stack) - 1) : stack'[Len(stack') + 1 - h] = stack[Len(stack) + 1 - h]
  BY <1>1, <1>2, OverTheRest
<1> QED BY <1>1, <1>3 DEF Leaves, Below, Calls, Height

LEMMA StackBecomes ==
  ASSUME stack \in Seq(Frames), ~Idle, NEW f \in Frames, stack' = <<f>> \o Tail(stack)
  PROVE  Becomes(f) /\ stack' \in Seq(Frames)
<1>0. <<f>> \in Seq(Frames) /\ Len(<<f>>) = 1 /\ <<f>>[1] = f
  OBVIOUS
<1>1. PICK top \in Seq(Frames) : top = <<f>> /\ Len(top) = 1 /\ top[1] = f
  BY <1>0
<1>2. stack # <<>> /\ Len(stack) \in Nat /\ Len(stack) > 0 /\ stack' = top \o Tail(stack)
  BY <1>1 DEF Idle
<1>3. /\ stack' \in Seq(Frames) /\ Len(stack') = Len(top) + Len(stack) - 1
      /\ \A h \in 1..(Len(stack) - 1) :
           stack'[Len(stack') + 1 - h] = stack[Len(stack) + 1 - h]
      /\ \A i \in 1..Len(top) : stack'[i] = top[i]
  BY <1>1, <1>2, OverTheRest
<1>4. Len(stack') = Len(stack) /\ Len(stack') + 1 - Len(stack) = 1
  BY <1>1, <1>2, <1>3
<1>5. stack'[1] = f
  BY <1>1, <1>3
<1> QED BY <1>2, <1>3, <1>4, <1>5 DEF Becomes, Below, Calls, Height

LEMMA StackBecomesUnder ==
  ASSUME stack \in Seq(Frames), ~Idle, NEW f \in Frames, NEW g \in Frames,
         stack' = <<g, f>> \o Tail(stack)
  PROVE  BecomesUnder(f, g) /\ stack' \in Seq(Frames)
<1>0. <<g, f>> \in Seq(Frames) /\ Len(<<g, f>>) = 2
  OBVIOUS
<1>1. PICK top \in Seq(Frames) : top = <<g, f>> /\ Len(top) = 2 /\ top[1] = g /\ top[2] = f
  BY <1>0
<1>2. stack # <<>> /\ Len(stack) \in Nat /\ Len(stack) > 0 /\ stack' = top \o Tail(stack)
  BY <1>1 DEF Idle
<1>3. /\ stack' \in Seq(Frames) /\ Len(stack') = Len(top) + Len(stack) - 1
      /\ \A h \in 1..(Len(stack) - 1) :
           stack'[Len(stack') + 1 - h] = stack[Len(stack) + 1 - h]
      /\ \A i \in 1..Len(top) : stack'[i] = top[i]
  BY <1>1, <1>2, OverTheRest
<1>4. /\ Len(stack') = Len(stack) + 1 /\ Len(stack') + 1 - Len(stack) = 2
      /\ Len(stack') + 1 - (Len(stack) + 1) = 1
  BY <1>1, <1>2, <1>3
<1>5. stack'[1] = g /\ stack'[2] = f
  BY <1>1, <1>3
<1> QED BY <1>2, <1>3, <1>4, <1>5 DEF BecomesUnder, Below, Calls, Height

LEMMA StackStarts ==
  ASSUME Idle, NEW f \in Frames, stack' = <<f>>
  PROVE  Height' = 1 /\ Calls'[1] = f /\ stack' \in Seq(Frames)
BY DEF Height, Calls

\* The frames of the tasks of a list over another frame
LEMMA TaskFramesAre ==
  ASSUME NEW at \in {"abort", "abortSoft"}, NEW list \in Seq(TaskNames),
         NEW frame \in {"counted", "aborted"}
  PROVE  \E top \in Seq(Frames) :
           /\ top = EachTask(at, list) \o Frame(frame) /\ Len(top) = Len(list) + 1
           /\ top[Len(list) + 1] = [at |-> frame]
           /\ \A i \in 1..Len(list) : top[i] = [at |-> at, task |-> list[i]]
<1>1. Len(list) \in Nat /\ DOMAIN list = 1..Len(list)
  OBVIOUS
<1>2. \A i \in 1..Len(list) : [at |-> at, task |-> list[i]] \in Frames
  BY <1>1 DEF Frames, TaskFrames
<1>3. EachTask(at, list) \in Seq(Frames) /\ Len(EachTask(at, list)) = Len(list)
  BY <1>1, <1>2 DEF EachTask
<1>4. \A i \in 1..Len(list) : EachTask(at, list)[i] = [at |-> at, task |-> list[i]]
  BY <1>1 DEF EachTask
<1>5. PICK each \in Seq(Frames) : each = EachTask(at, list)
  BY <1>3
<1>6. PICK f \in Frames : f = [at |-> frame]
  BY DEF Frames, PlainFrames
<1>7. <<f>> \in Seq(Frames) /\ Len(<<f>>) = 1 /\ <<f>>[1] = f
  BY <1>6
<1>8. /\ each \o <<f>> \in Seq(Frames) /\ Len(each \o <<f>>) = Len(each) + 1
      /\ (each \o <<f>>)[Len(each) + 1] = f
      /\ \A i \in 1..Len(each) : (each \o <<f>>)[i] = each[i]
  BY <1>5, <1>6, <1>7, ConcatProperties
<1>9. Len(each) = Len(list)
  BY <1>3, <1>5
<1>10. each \o <<f>> = EachTask(at, list) \o Frame(frame)
  BY <1>5, <1>6 DEF Frame
<1> QED BY <1>4, <1>5, <1>6, <1>8, <1>9, <1>10

LEMMA StackGetsTasks ==
  ASSUME stack \in Seq(Frames), ~Idle, NEW at \in {"abort", "abortSoft"},
         NEW list \in Seq(TaskNames), NEW frame \in {"counted", "aborted"},
         stack' = EachTask(at, list) \o Frame(frame) \o Tail(stack)
  PROVE  GetsTasks(Height, frame, at, list) /\ stack' \in Seq(Frames)
<1>1. PICK top \in Seq(Frames) :
        /\ top = EachTask(at, list) \o Frame(frame) /\ Len(top) = Len(list) + 1
        /\ top[Len(list) + 1] = [at |-> frame]
        /\ \A i \in 1..Len(list) : top[i] = [at |-> at, task |-> list[i]]
  BY TaskFramesAre
<1>2. Len(list) \in Nat /\ stack # <<>> /\ Len(stack) \in Nat /\ Len(stack) > 0
  BY DEF Idle
<1>3. top \in Seq(Frames) /\ Len(top) = Len(list) + 1
  BY <1>1
<1>4. stack' = top \o Tail(stack)
  BY <1>1
<1>5. /\ stack' \in Seq(Frames) /\ Len(stack') = Len(top) + Len(stack) - 1
      /\ \A h \in 1..(Len(stack) - 1) :
           stack'[Len(stack') + 1 - h] = stack[Len(stack) + 1 - h]
      /\ \A i \in 1..Len(top) : stack'[i] = top[i]
  BY <1>2, <1>3, <1>4, TheRestStays
<1>6. Len(stack') = Len(stack) + Len(list) /\ Len(stack') \in Nat
  BY <1>2, <1>3, <1>5
<1>7. stack'[Len(stack') + 1 - Len(stack)] = [at |-> frame]
  BY <1>1, <1>2, <1>3, <1>5, <1>6
<1>8. ASSUME NEW h \in (Len(stack) + 1)..(Len(stack) + Len(list))
      PROVE  stack'[Len(stack') + 1 - h]
               = [at |-> at, task |-> list[Len(stack) + Len(list) + 1 - h]]
  <2>1. PICK i : i = Len(stack) + Len(list) + 1 - h
    OBVIOUS
  <2>2. Len(stack') + 1 - h = i /\ i \in 1..Len(list) /\ i \in 1..Len(top)
    BY <1>2, <1>3, <1>6, <2>1
  <2>3. stack'[i] = [at |-> at, task |-> list[i]]
    BY <1>1, <1>5, <2>2
  <2> QED BY <2>1, <2>2, <2>3
<1>9. /\ Height = Len(stack) /\ Height' = Len(stack')
      /\ \A h \in 1..Len(stack) : Calls[h] = stack[Len(stack) + 1 - h]
      /\ \A h \in 1..Len(stack') : Calls'[h] = stack'[Len(stack') + 1 - h]
  BY DEF Height, Calls
<1>10. Height \in 1..Len(stack') /\ \A h \in 1..(Height - 1) : h \in 1..Len(stack')
  BY <1>2, <1>6, <1>9
<1>11. Below(Height - 1)
  <2> SUFFICES ASSUME NEW h \in 1..(Height - 1)
               PROVE  Calls'[h] = Calls[h]
    BY DEF Below
  <2>1. h \in 1..(Len(stack) - 1) /\ h \in 1..Len(stack)
    BY <1>2, <1>9
  <2> QED BY <1>5, <1>9, <1>10, <2>1
<1>12. Calls'[Height] = [at |-> frame] /\ Height' = Height + Len(list)
  BY <1>6, <1>7, <1>9, <1>10
<1>13. ASSUME NEW h \in (Height + 1)..(Height + Len(list))
       PROVE  Calls'[h] = [at |-> at, task |-> list[Height + Len(list) + 1 - h]]
  <2>1. h \in 1..Len(stack') /\ h \in (Len(stack) + 1)..(Len(stack) + Len(list))
    BY <1>2, <1>6, <1>9
  <2> QED BY <1>8, <1>9, <2>1
<1> QED BY <1>5, <1>11, <1>12, <1>13 DEF GetsTasks

LEMMA StackStartsTasks ==
  ASSUME Idle, NEW at \in {"abort", "abortSoft"},
         NEW list \in Seq(TaskNames), NEW frame \in {"counted", "aborted"},
         stack' = EachTask(at, list) \o Frame(frame)
  PROVE  GetsTasks(1, frame, at, list) /\ stack' \in Seq(Frames)
<1>1. PICK top \in Seq(Frames) :
        /\ top = EachTask(at, list) \o Frame(frame) /\ Len(top) = Len(list) + 1
        /\ top[Len(list) + 1] = [at |-> frame]
        /\ \A i \in 1..Len(list) : top[i] = [at |-> at, task |-> list[i]]
  BY TaskFramesAre
<1>2. Len(list) \in Nat
  OBVIOUS
<1>3. stack' = top /\ Len(stack') = Len(list) + 1
  BY <1>1
<1>4. /\ Height' = Len(stack')
      /\ \A h \in 1..Len(stack') : Calls'[h] = stack'[Len(stack') + 1 - h]
  BY DEF Height, Calls
<1>5. Calls'[1] = [at |-> frame]
  <2>1. 1 \in 1..Len(stack') /\ Len(stack') + 1 - 1 = Len(list) + 1
    BY <1>2, <1>3
  <2>2. Calls'[1] = stack'[Len(list) + 1]
    BY <1>4, <2>1
  <2> QED BY Zenon, <1>1, <1>3, <2>2
<1>6. ASSUME NEW h \in (1 + 1)..(1 + Len(list))
      PROVE  Calls'[h] = [at |-> at, task |-> list[1 + Len(list) + 1 - h]]
  <2>1. PICK i : i = 1 + Len(list) + 1 - h
    OBVIOUS
  <2>2. Len(stack') + 1 - h = i /\ i \in 1..Len(list) /\ h \in 1..Len(stack')
    BY <1>2, <1>3, <2>1
  <2>3. stack'[i] = [at |-> at, task |-> list[i]]
    BY <1>1, <1>3, <2>2
  <2> QED BY <1>4, <2>1, <2>2, <2>3
<1>7. Below(1 - 1) /\ Height' = 1 + Len(list)
  BY <1>2, <1>3, <1>4 DEF Below
<1> QED BY <1>1, <1>3, <1>5, <1>6, <1>7 DEF GetsTasks

-----------------------------------------------------------------------------
(* The inductive invariant                                                   *)

Statuses == {"pending", "completed", "errored", "aborted", "flushed"}
ShownStates == {"unwritten", "loading", "complete", "client"}

SegmentRecords ==
  [status : Statuses, parentFlushed : BOOLEAN, hasChunks : BOOLEAN,
   children : Seq(SegmentNames), id : SegmentNames \cup {Nil}]
BoundaryRecords ==
  [parentFlushed : BOOLEAN, pendingTasks : Int, forceClientRender : BOOLEAN,
   completedSegments : Seq(SegmentNames), rootSegmentID : SegmentNames \cup {Nil},
   fallbackTasks : Seq(TaskNames)]
TaskRecords == [boundary : MaybeBoundary, abortSet : MaybeBoundary]
RequestRecords ==
  [status : {"open", "closing", "closed"}, flowing : BOOLEAN, scheduled : BOOLEAN,
   allPendingTasks : Int, pendingRootTasks : Int, root : SegmentNames \cup {Nil},
   abortable : Seq(TaskNames), pinged : Seq(TaskNames), clientRendered : Seq(Boundaries),
   completed : Seq(Boundaries), partial : Seq(Boundaries)]
IsClient(c) ==
  /\ c = [shown |-> c.shown, told |-> c.told, referred |-> c.referred, sent |-> c.sent,
          failed |-> c.failed, end |-> c.end]
  /\ c.shown \in [Boundaries -> ShownStates]
  /\ c.told \in [Boundaries -> Nat]

FizzTypes ==
  /\ page \in Pages
  /\ pageRequest \in RequestRecords
  /\ segments \in [DOMAIN segments -> SegmentRecords]
  /\ boundaries \in [DOMAIN boundaries -> BoundaryRecords]
  /\ tasks \in [DOMAIN tasks -> TaskRecords]
  /\ stack \in Seq(Frames)
  /\ suspended \subseteq DOMAIN tasks
  /\ IsClient(client)

\* The tables: what is created together, and what refers to what
NamesInv ==
  /\ DOMAIN segments \subseteq SegmentNames /\ IsFiniteSet(DOMAIN segments)
  /\ DOMAIN boundaries \subseteq Boundaries /\ IsFiniteSet(DOMAIN boundaries)
  /\ DOMAIN tasks \subseteq TaskNames \cap DOMAIN segments
  /\ RootTask \in DOMAIN tasks
  /\ \A b \in Boundaries : /\ Content(b) \in DOMAIN segments <=> b \in DOMAIN boundaries
                           /\ Fallback(b) \in DOMAIN segments <=> b \in DOMAIN boundaries
  /\ \A c \in PageComponents : Own(c) \in DOMAIN segments => Own(c) \in DOMAIN tasks
  /\ \A t \in DOMAIN tasks : /\ tasks[t].boundary \in DOMAIN boundaries \cup {Nil}
                             /\ tasks[t].abortSet \in DOMAIN boundaries \cup {Nil}
  /\ \A b \in DOMAIN boundaries :
       \A i \in DOMAIN boundaries[b].completedSegments :
         boundaries[b].completedSegments[i] \in DOMAIN segments
  /\ \A i \in DOMAIN pageRequest.partial : pageRequest.partial[i] \in DOMAIN boundaries
  /\ \A i \in DOMAIN pageRequest.completed : pageRequest.completed[i] \in DOMAIN boundaries

\* What can be above what on the stack
ShapeInv ==
  /\ ~Idle => Calls[1].at \in {"perform", "aborted"} \cup FlushPlaces
  /\ \A h \in 1..Height :
       /\ h > 1 => Calls[h].at \notin {"perform", "aborted"}
       /\ Calls[h].at \in FlushPlaces \cup {"ready", "finished"} => h = Height
       /\ Calls[h].at = "render" =>
            /\ h > 1 /\ Calls[1].at = "perform"
            /\ \A g \in 2..Height : Calls[g].at = "render"
       /\ Calls[h].at \in {"finished", "abortSoft"} => Calls[1].at = "perform"
       /\ Calls[h].at = "abort" => Calls[1].at = "aborted"

\* The boundaries being rendered are those of one task, each in the one before.
Renders == {h \in 1..Height : Calls[h].at = "render"}
RenderInv ==
  \A h \in Renders :
    /\ Calls[h].task = Calls[2].task
    /\ Calls[h].task \in DOMAIN tasks
    /\ Calls[h].of = Nil <=> h = 2
    /\ h = 2 => /\ Calls[h].segment = Calls[h].task
                /\ Calls[h].boundary = tasks[Calls[h].task].boundary
    /\ h # 2 => /\ Calls[h].segment = Content(Calls[h].of)
                /\ Calls[h].boundary = Calls[h].of
                /\ Calls[h].of \in DOMAIN boundaries
                /\ Fallback(Calls[h].of) \notin DOMAIN tasks
                /\ segments[Fallback(Calls[h].of)].status = "pending"
    /\ segments[Calls[h].segment].status = "pending"
    /\ \A g \in Renders : Calls[g].of = Calls[h].of => g = h

\* A task that is left is suspended, or is or will be retried.
Performing == ~Idle /\ Calls[1].at = "perform"
NextPinged == IF Performing THEN Calls[1].next ELSE 1
PingInv ==
  /\ NextPinged <= Len(pageRequest.pinged) + 1
  /\ \A i \in DOMAIN pageRequest.pinged : pageRequest.pinged[i] \in DOMAIN tasks
  /\ \A t \in Live : \/ t \in suspended
                     \/ \E i \in DOMAIN pageRequest.pinged :
                          i >= NextPinged /\ pageRequest.pinged[i] = t
                     \/ \E h \in Renders : Calls[h].task = t
  /\ pageRequest.status = "open" /\ pageRequest.pinged # <<>> =>
       pageRequest.scheduled \/ Performing

\* The count of tasks includes those that ended and were not counted yet.
Owed == {h \in 1..Height : Calls[h].at \in {"counted", "finished"}}
CountInv ==
  /\ IsFiniteSet(Live)
  /\ pageRequest.allPendingTasks = Cardinality(Live) + Cardinality(Owed)

\* What is aborted, or is in a set of tasks to abort, is live and is there once.
Aborting == {h \in 1..Height : Calls[h].at \in {"abort", "abortSoft"}}
OneEach(s) == \A i, j \in DOMAIN s : s[i] = s[j] => i = j
AbortInv ==
  /\ \A h \in Aborting :
       /\ Calls[h].task \in Live
       /\ Calls[h].at = "abortSoft" => tasks[Calls[h].task].abortSet # Nil
       /\ \A g \in Aborting : Calls[g].task = Calls[h].task => g = h
  /\ \A b \in DOMAIN boundaries :
       /\ OneEach(boundaries[b].fallbackTasks)
       /\ \A i \in DOMAIN boundaries[b].fallbackTasks :
            /\ boundaries[b].fallbackTasks[i] \in Live
            /\ tasks[boundaries[b].fallbackTasks[i]].abortSet = b
            /\ \A h \in Aborting : Calls[h].task # boundaries[b].fallbackTasks[i]
  /\ Idle \/ Calls[1].at # "aborted" =>
       /\ OneEach(pageRequest.abortable)
       /\ \A i \in DOMAIN pageRequest.abortable :
            /\ pageRequest.abortable[i] \in Live
            /\ tasks[pageRequest.abortable[i]].abortSet = Nil

\* A flush has emptied the queues it has passed; what is finished is a task.
PlaceInv ==
  ~Idle =>
    /\ Top.at = "finished" => Top.task \in DOMAIN tasks
    /\ Top.at = "completed" => pageRequest.clientRendered = <<>>
    /\ Top.at = "partial" => pageRequest.clientRendered = <<>> /\ pageRequest.completed = <<>>
    /\ Top.at = "flushed" /\ pageRequest.flowing =>
         pageRequest.clientRendered = <<>> /\ pageRequest.completed = <<>>

\* A request that has not failed is ended when its last task is counted, or by the
\* flush that comes after it.
DoneInv ==
  pageRequest.status = "open" =>
    /\ client.end \in {"none", "done"}
    /\ Idle /\ pageRequest.flowing /\ Live = {} =>
         pageRequest.scheduled \/ client.end = "done"

\* R: the segments whose body was opened.  What is in a body is met after that, once.
Bodies == [s \in SegmentNames |-> Body(page, s)]
Engaged(x, R) ==
  \/ \E h \in Renders : \E i \in DOMAIN Calls[h].rest : Calls[h].rest[i] = x
  \/ x \in PageComponents /\ (Own(x) \in DOMAIN tasks \/ Own(x) \in R)
  \/ x \in DOMAIN boundaries
OpenedInv(R) ==
  /\ \A h, g \in Renders : \A i \in DOMAIN Calls[h].rest, j \in DOMAIN Calls[g].rest :
       Calls[h].rest[i] = Calls[g].rest[j] => Calls[h].rest[i] = Text \/ (h = g /\ i = j)
  /\ \A h \in Renders : \A i \in DOMAIN Calls[h].rest :
       /\ Calls[h].rest[i] \in PageComponents =>
            /\ Own(Calls[h].rest[i]) \notin R
            /\ Own(Calls[h].rest[i]) \in DOMAIN tasks =>
                 Calls[h].task = Own(Calls[h].rest[i])
       /\ Calls[h].rest[i] \notin DOMAIN boundaries
  /\ \A x \in PageItems \ {Text} : Engaged(x, R) =>
       \A s \in SegmentNames : \A i \in DOMAIN Bodies[s] : Bodies[s][i] = x => s \in R
  /\ \A t \in R : t \in Live => \E h \in Renders : Calls[h].task = t
  /\ \A b \in Boundaries : /\ Content(b) \in R => b \in DOMAIN boundaries
                           /\ Fallback(b) \in R => Fallback(b) \in DOMAIN tasks

FizzInv ==
  /\ FizzTypes /\ NamesInv /\ ShapeInv /\ RenderInv /\ PingInv /\ CountInv /\ AbortInv
  /\ PlaceInv /\ DoneInv
  /\ \E R : OpenedInv(R)

-----------------------------------------------------------------------------
(* What a step does to the stack, and to what is said of it                  *)

LEMMA AfterLeaves ==
  ASSUME stack \in Seq(Frames), stack' \in Seq(Frames), ~Idle, Leaves
  PROVE  /\ Renders' = Renders \ {Height} /\ Owed' = Owed \ {Height}
         /\ Aborting' = Aborting \ {Height}
         /\ Idle' <=> Height = 1
         /\ Height > 1 => Calls'[1] = Calls[1]
<1>1. Height \in Nat /\ Height # 0 /\ Height' = Height - 1 /\ (Idle' <=> Height' = 0)
  BY TopIs, TopIsNext DEF Leaves
<1>2. \A h \in 1..(Height - 1) : Calls'[h] = Calls[h]
  BY DEF Leaves, Below
<1>3. 1..Height' = (1..Height) \ {Height}
  BY <1>1
<1>4. \A h \in 1..Height' : Calls'[h] = Calls[h]
  BY <1>1, <1>2
<1> QED BY <1>1, <1>2, <1>3, <1>4 DEF Renders, Owed, Aborting

LEMMA AfterBecomes ==
  ASSUME stack \in Seq(Frames), stack' \in Seq(Frames), ~Idle, NEW f \in Frames, Becomes(f)
  PROVE  /\ Renders' = (Renders \ {Height}) \cup (IF f.at = "render" THEN {Height} ELSE {})
         /\ Owed' = (Owed \ {Height})
                      \cup (IF f.at \in {"counted", "finished"} THEN {Height} ELSE {})
         /\ Aborting' = (Aborting \ {Height})
                          \cup (IF f.at \in {"abort", "abortSoft"} THEN {Height} ELSE {})
         /\ ~Idle' /\ Top' = f
         /\ Height > 1 => Calls'[1] = Calls[1]
<1>1. /\ Height \in Nat /\ Height # 0 /\ Height' = Height /\ (Idle' <=> Height' = 0)
      /\ ~Idle' => Top' = Calls'[Height']
  BY TopIs, TopIsNext DEF Becomes
<1>2. /\ \A h \in 1..(Height - 1) : Calls'[h] = Calls[h]
      /\ Calls'[Height] = f
  BY DEF Becomes, Below
<1>3. 1..Height = (1..(Height - 1)) \cup {Height}
  BY <1>1
<1>4. \A h \in 1..Height : Calls'[h] = IF h = Height THEN f ELSE Calls[h]
  BY <1>1, <1>2
<1>5. Height > 1 => Calls'[1] = Calls[1]
  BY <1>1, <1>2
<1>6. ~Idle' /\ Top' = f
  BY <1>1, <1>2
<1>7. Renders' = (Renders \ {Height}) \cup (IF f.at = "render" THEN {Height} ELSE {})
  BY <1>1, <1>3, <1>4 DEF Renders
<1>8. Owed' = (Owed \ {Height})
               \cup (IF f.at \in {"counted", "finished"} THEN {Height} ELSE {})
  BY <1>1, <1>3, <1>4 DEF Owed
<1>9. Aborting' = (Aborting \ {Height})
                   \cup (IF f.at \in {"abort", "abortSoft"} THEN {Height} ELSE {})
  BY <1>1, <1>3, <1>4 DEF Aborting
<1> QED BY <1>5, <1>6, <1>7, <1>8, <1>9

LEMMA AfterBecomesUnder ==
  ASSUME stack \in Seq(Frames), stack' \in Seq(Frames), ~Idle,
         NEW f \in Frames, NEW g \in Frames, BecomesUnder(f, g),
         g.at \in {"render", "ready"}, f.at \notin {"abort", "abortSoft", "finished"}
  PROVE  /\ Renders' = (Renders \ {Height}) \cup (IF f.at = "render" THEN {Height} ELSE {})
                         \cup (IF g.at = "render" THEN {Height + 1} ELSE {})
         /\ Owed' = (Owed \ {Height}) \cup (IF f.at = "counted" THEN {Height} ELSE {})
         /\ Aborting' = Aborting \ {Height}
         /\ ~Idle' /\ Top' = g
         /\ Height > 1 => Calls'[1] = Calls[1]
<1>1. /\ Height \in Nat /\ Height # 0 /\ Height' = Height + 1 /\ (Idle' <=> Height' = 0)
      /\ ~Idle' => Top' = Calls'[Height']
  BY TopIs, TopIsNext DEF BecomesUnder
<1>2. /\ \A h \in 1..(Height - 1) : Calls'[h] = Calls[h]
      /\ Calls'[Height] = f /\ Calls'[Height + 1] = g
  BY DEF BecomesUnder, Below
<1>3. /\ 1..Height' = (1..(Height - 1)) \cup {Height, Height + 1}
      /\ 1..Height = (1..(Height - 1)) \cup {Height}
      /\ Height \notin 1..(Height - 1) /\ Height + 1 \notin 1..Height
  BY <1>1
<1>5. Height > 1 => Calls'[1] = Calls[1]
  BY <1>1, <1>2
<1>6. ~Idle' /\ Top' = g
  BY <1>1, <1>2
<1>7. Renders' = (Renders \ {Height}) \cup (IF f.at = "render" THEN {Height} ELSE {})
                   \cup (IF g.at = "render" THEN {Height + 1} ELSE {})
  BY <1>2, <1>3 DEF Renders
<1>8. Owed' = (Owed \ {Height}) \cup (IF f.at = "counted" THEN {Height} ELSE {})
  BY <1>2, <1>3 DEF Owed
<1>9. Aborting' = Aborting \ {Height}
  BY <1>2, <1>3 DEF Aborting
<1> QED BY <1>5, <1>6, <1>7, <1>8, <1>9

LEMMA AfterStarts ==
  ASSUME stack \in Seq(Frames), stack' \in Seq(Frames), Idle, NEW f \in Frames,
         Height' = 1, Calls'[1] = f, f.at \in {"perform"} \cup FlushPlaces
  PROVE  /\ Renders = {} /\ Owed = {} /\ Aborting = {}
         /\ Renders' = {} /\ Owed' = {} /\ Aborting' = {}
         /\ ~Idle' /\ Top' = f
<1>1. Height = 0 /\ 1..Height = {} /\ ~Idle' /\ Top' = Calls'[1]
  BY TopIs, TopIsNext
<1>2. 1..Height' = {1}
  OBVIOUS
<1>3. f.at \notin {"render", "counted", "finished", "abort", "abortSoft"}
  BY DEF FlushPlaces
<1> QED BY <1>1, <1>2, <1>3 DEF Renders, Owed, Aborting

LEMMA AfterIdle ==
  ASSUME stack \in Seq(Frames), Idle
  PROVE  Height = 0 /\ Renders = {} /\ Owed = {} /\ Aborting = {}
<1>1. Height = 0 /\ 1..Height = {}
  BY TopIs
<1> QED BY <1>1 DEF Renders, Owed, Aborting

LEMMA AfterGetsTasks ==
  ASSUME stack \in Seq(Frames), stack' \in Seq(Frames), NEW n \in Nat \ {0},
         NEW frame \in {"counted", "aborted"}, NEW at \in {"abort", "abortSoft"},
         NEW list \in Seq(TaskNames), GetsTasks(n, frame, at, list),
         n = Height \/ (Idle /\ n = 1)
  PROVE  /\ Renders' = Renders \ {n}
         /\ Owed' = (Owed \ {n}) \cup (IF frame = "counted" THEN {n} ELSE {})
         /\ Aborting' = (Aborting \ {n}) \cup ((n + 1)..(n + Len(list)))
         /\ ~Idle'
         /\ n > 1 => Calls'[1] = Calls[1]
         /\ n = 1 => Calls'[1] = [at |-> frame]
<1>1. /\ Height \in Nat /\ Len(list) \in Nat /\ Height' = n + Len(list)
      /\ Idle' <=> Height' = 0
      /\ Idle => Height = 0
  BY TopIs, TopIsNext DEF GetsTasks
<1>2. /\ \A h \in 1..(n - 1) : Calls'[h] = Calls[h]
      /\ Calls'[n] = [at |-> frame]
      /\ \A h \in (n + 1)..(n + Len(list)) :
           Calls'[h] = [at |-> at, task |-> list[n + Len(list) + 1 - h]]
  BY DEF GetsTasks, Below
<1>3. /\ 1..Height' = (1..(n - 1)) \cup {n} \cup ((n + 1)..(n + Len(list)))
      /\ n \notin 1..(n - 1) /\ n \notin (n + 1)..(n + Len(list))
      /\ (1..Height) \ {n} = 1..(n - 1)
  BY <1>1
<1>4. ASSUME NEW h \in (n + 1)..(n + Len(list))
      PROVE  Calls'[h].at = at
  <2>1. PICK task : task = list[n + Len(list) + 1 - h]
    OBVIOUS
  <2>2. Calls'[h] = [at |-> at, task |-> task]
    BY <1>2, <2>1
  <2> QED BY <2>2
<1>5. Calls'[n].at = frame
  BY <1>2
<1>6. Renders' = Renders \ {n}
  BY <1>2, <1>3, <1>4, <1>5 DEF Renders
<1>7. Owed' = (Owed \ {n}) \cup (IF frame = "counted" THEN {n} ELSE {})
  BY <1>2, <1>3, <1>4, <1>5 DEF Owed
<1>8. Aborting' = (Aborting \ {n}) \cup ((n + 1)..(n + Len(list)))
  BY <1>2, <1>3, <1>4, <1>5 DEF Aborting
<1>9. ~Idle' /\ (n > 1 => Calls'[1] = Calls[1]) /\ (n = 1 => Calls'[1] = [at |-> frame])
  BY <1>1, <1>2
<1> QED BY <1>6, <1>7, <1>8, <1>9

-----------------------------------------------------------------------------
(* Data                                                                      *)

\* RemoveFirst takes from a list of different things the one it is given.
LEMMA RemoveFirstIs ==
  ASSUME NEW S, NEW list \in Seq(S), OneEach(list), NEW t,
         NEW rest, rest = RemoveFirst(list, t)
  PROVE  /\ rest \in Seq(S) /\ OneEach(rest)
         /\ \A i \in DOMAIN rest : rest[i] # t /\ \E j \in DOMAIN list : list[j] = rest[i]
<1>1. Len(list) \in Nat /\ DOMAIN list = 1..Len(list)
  OBVIOUS
<1>2. CASE ~ \E i \in 1..Len(list) : list[i] = t
  BY <1>1, <1>2 DEF RemoveFirst
<1>3. CASE \E i \in 1..Len(list) : list[i] = t
  <2>1. PICK k \in 1..Len(list) : list[k] = t
    BY <1>3
  <2>2. {i \in 1..Len(list) : list[i] = t} = {k}
    BY <1>1, <2>1 DEF OneEach
  <2>3. Min({k}) = k
    BY <2>1 DEF Min
  <2>4. SelectInSeq(list, LAMBDA v : v = t) = k
    BY <2>2, <2>3 DEF SelectInSeq
  <2>5. rest = SubSeq(list, 1, k - 1) \o SubSeq(list, k + 1, Len(list))
    BY <1>3, <2>4 DEF RemoveFirst, RemoveAt
  <2> DEFINE a == SubSeq(list, 1, k - 1)
             z == SubSeq(list, k + 1, Len(list))
  <2>6. /\ a \in Seq(S) /\ Len(a) = k - 1 /\ \A i \in 1..(k - 1) : a[i] = list[i]
        /\ z \in Seq(S) /\ Len(z) = Len(list) - k
        /\ \A i \in 1..(Len(list) - k) : z[i] = list[i + k]
    <3>1. a \in Seq(S) /\ Len(a) = k - 1 /\ \A i \in 1..(k - 1) : a[i] = list[i]
      BY <1>1, <2>1
    <3>2. z \in Seq(S) /\ Len(z) = Len(list) - k
      <4>1. \A i \in (k + 1)..Len(list) : list[i] \in S
        BY <1>1, <2>1
      <4>2. /\ SubSeq(list, k + 1, Len(list)) \in Seq(S)
            /\ Len(SubSeq(list, k + 1, Len(list)))
                 = IF k + 1 <= Len(list) THEN Len(list) - (k + 1) + 1 ELSE 0
        BY <1>1, <2>1, <4>1, SubSeqProperties
      <4>3. k \in Int /\ Len(list) \in Int /\ k <= Len(list)
        BY <1>1, <2>1
      <4>4. \A n \in Int : k <= n => (IF k + 1 <= n THEN n - (k + 1) + 1 ELSE 0) = n - k
        BY ONLY <4>3
      <4> QED BY <4>2, <4>3, <4>4
    <3>3. \A i \in 1..(Len(list) - k) : z[i] = list[i + k]
      BY <1>1, <2>1, SubSeqProperties
    <3> QED BY <3>1, <3>2, <3>3
  <2> HIDE DEF a, z
  <2>7. rest = a \o z
    BY <2>5 DEF a, z
  <2>8. /\ rest \in Seq(S) /\ Len(rest) = Len(list) - 1
        /\ \A i \in 1..(Len(list) - 1) :
             rest[i] = IF i <= k - 1 THEN list[i] ELSE list[i + 1]
    <3>1. PICK f \in Seq(S), g \in Seq(S) : f = a /\ g = z
      BY <2>6
    <3>2. Len(f) = k - 1 /\ Len(g) = Len(list) - k
      BY <2>6, <3>1
    <3>3. /\ f \o g \in Seq(S) /\ Len(f \o g) = Len(f) + Len(g)
          /\ \A i \in 1..(Len(f) + Len(g)) :
               (f \o g)[i] = IF i <= Len(f) THEN f[i] ELSE g[i - Len(f)]
      BY <3>1, ConcatProperties
    <3>4. rest \in Seq(S) /\ Len(rest) = Len(list) - 1
      BY <1>1, <2>1, <2>7, <3>1, <3>2, <3>3
    <3>5. ASSUME NEW i \in 1..(Len(list) - 1)
          PROVE  rest[i] = IF i <= k - 1 THEN list[i] ELSE list[i + 1]
      <4>1. i \in 1..(Len(f) + Len(g)) /\ i \in Int /\ k \in Int
        BY <1>1, <2>1, <3>2
      <4>2. rest[i] = IF i <= Len(f) THEN f[i] ELSE g[i - Len(f)]
        BY <2>7, <3>1, <3>3, <4>1
      <4>3. CASE i <= k - 1
        BY <2>6, <3>1, <3>2, <4>1, <4>2, <4>3
      <4>4. CASE ~(i <= k - 1)
        BY <1>1, <2>6, <3>1, <3>2, <4>1, <4>2, <4>4
      <4> QED BY <4>3, <4>4
    <3> QED BY <3>4, <3>5
  <2>9. DOMAIN rest = 1..(Len(list) - 1)
    BY <2>8
  <2>10. ASSUME NEW i \in DOMAIN rest
         PROVE  \E j \in 1..Len(list) : /\ j # k /\ rest[i] = list[j]
                                        /\ j = IF i <= k - 1 THEN i ELSE i + 1
    BY <1>1, <2>1, <2>8, <2>9
  <2>11. \A i \in DOMAIN rest : rest[i] # t /\ \E j \in DOMAIN list : list[j] = rest[i]
    BY <1>1, <2>1, <2>10 DEF OneEach
  <2>12. OneEach(rest)
    BY <1>1, <2>1, <2>9, <2>10 DEF OneEach
  <2> QED BY <2>8, <2>11, <2>12
<1> QED BY <1>2, <1>3

LEMMA SetToSeqIs ==
  ASSUME NEW S, IsFiniteSet(S), NEW list, list = SetToSeq(S)
  PROVE  list \in Seq(S) /\ Len(list) = Cardinality(S) /\ OneEach(list)
<1>1. /\ Cardinality(S) \in Nat
      /\ \E f \in [1..Cardinality(S) -> S] : IsInjective(f)
  BY FS_CardinalityType DEF ExistsBijection, Bijection, Injection
<1>2. list \in [1..Cardinality(S) -> S] /\ IsInjective(list)
  BY <1>1 DEF SetToSeq
<1> QED BY <1>1, <1>2 DEF IsInjective, OneEach

\* What is in a page
LEMMA BodyIs ==
  ASSUME NEW p \in Pages, NEW s \in SegmentNames
  PROVE  Body(p, s) \in Seq(PageItems)
<1>1. /\ p.root \in Seq(PageItems)
      /\ p.component \in [PageComponents -> Seq(PageItems)]
      /\ p.content \in [Boundaries -> Seq(PageItems)]
      /\ p.fallback \in [Boundaries -> Seq(PageItems)]
  BY FizzAssumption
<1>2. ASSUME s = RootTask
      PROVE  Body(p, s) \in Seq(PageItems)
  BY <1>1, <1>2 DEF RootTask, Own, Body
<1>3. ASSUME NEW c \in PageComponents, s = Own(c)
      PROVE  Body(p, s) \in Seq(PageItems)
  BY <1>1, <1>3, FizzAssumption DEF Own, RootTask, Body
<1>4. ASSUME NEW b \in Boundaries, s = Content(b)
      PROVE  Body(p, s) \in Seq(PageItems)
  BY <1>1, <1>4 DEF Own, RootTask, Content, Body
<1>5. ASSUME NEW b \in Boundaries, s = Fallback(b)
      PROVE  Body(p, s) \in Seq(PageItems)
  BY <1>1, <1>5 DEF Own, RootTask, Fallback, Body
<1> QED BY <1>2, <1>3, <1>4, <1>5 DEF SegmentNames

LEMMA NamesDiffer ==
  /\ \A b \in Boundaries : /\ Content(b) \notin TaskNames /\ Content(b) \in SegmentNames
                           /\ Fallback(b) \in TaskNames /\ b # Nil
  /\ \A b, d \in Boundaries : /\ Content(b) # Fallback(d)
                              /\ Content(b) = Content(d) => b = d
                              /\ Fallback(b) = Fallback(d) => b = d
  /\ \A b \in Boundaries, c \in PageComponents :
       Own(c) # Fallback(b) /\ Own(c) # Content(b) /\ c # b
  /\ \A c \in PageComponents : /\ Own(c) \in TaskNames /\ Own(c) # RootTask
                               /\ c # Text /\ Own(c)[2] = c
  /\ \A c, d \in PageComponents : Own(c) = Own(d) => c = d
  /\ \A b \in Boundaries : RootTask # Fallback(b) /\ RootTask # Content(b) /\ b # Text
  /\ RootTask \in TaskNames /\ TaskNames \subseteq SegmentNames
<1>1. Text \notin PageComponents \cup Boundaries /\ "root" \notin PageComponents
      /\ Nil \notin Boundaries /\ PageComponents \cap Boundaries = {}
  BY FizzAssumption
<1> QED BY <1>1 DEF Own, Content, Fallback, RootTask, TaskNames, SegmentNames

\* No item but text is twice in a page.
LEMMA OncePerPage ==
  ASSUME NEW p \in Pages, NEW s \in SegmentNames, NEW t \in SegmentNames,
         NEW i \in DOMAIN Body(p, s), NEW j \in DOMAIN Body(p, t),
         Body(p, s)[i] = Body(p, t)[j], Body(p, s)[i] # Text
  PROVE  s = t /\ i = j
BY FizzAssumption

-----------------------------------------------------------------------------
(* What steps of a kind keep                                                 *)

LEMMA ShapeLeaves ==
  ASSUME stack \in Seq(Frames), stack' \in Seq(Frames), ShapeInv, ~Idle, Leaves
  PROVE  ShapeInv'
<1>1. /\ Height \in Nat /\ Height # 0 /\ Height' = Height - 1
      /\ Idle' <=> Height = 1
      /\ \A h \in 1..Height' : h \in 1..Height /\ Calls'[h] = Calls[h]
  BY TopIs, TopIsNext DEF Leaves, Below
<1> QED BY <1>1 DEF ShapeInv

LEMMA ShapeStarts ==
  ASSUME stack' \in Seq(Frames), NEW f, Height' = 1, Calls'[1] = f,
         f.at \in {"perform", "aborted"} \cup FlushPlaces
  PROVE  ShapeInv'
BY DEF ShapeInv, FlushPlaces

LEMMA ShapeBecomes ==
  ASSUME stack \in Seq(Frames), stack' \in Seq(Frames), ShapeInv, Height > 1,
         NEW f \in Frames, Becomes(f), f.at \notin {"perform", "aborted", "abort"},
         IF f.at = "render" THEN Height \in Renders ELSE Renders \subseteq {Height},
         f.at \in {"finished", "abortSoft"} => Calls[1].at = "perform"
  PROVE  ShapeInv'
<1>1. /\ Height \in Nat /\ Height' = Height /\ ~Idle /\ ~Idle'
      /\ \A h \in 1..Height' : h \in 1..Height /\ (h # Height => Calls'[h] = Calls[h])
      /\ Calls'[Height] = f /\ Calls'[1] = Calls[1]
  BY TopIs, TopIsNext DEF Becomes, Below
<1>2. ASSUME NEW h \in 1..Height', Calls'[h].at = "render"
      PROVE  /\ h > 1 /\ Calls'[1].at = "perform"
             /\ \A g \in 2..Height' : Calls'[g].at = "render"
  <2>1. CASE f.at = "render"
    BY <1>1, <1>2, <2>1 DEF ShapeInv, Renders
  <2>2. CASE f.at # "render"
    BY <1>1, <1>2, <2>2 DEF Renders
  <2> QED BY <2>1, <2>2
<1>3. ASSUME NEW h \in 1..Height'
      PROVE  /\ h > 1 => Calls'[h].at \notin {"perform", "aborted"}
             /\ Calls'[h].at \in FlushPlaces \cup {"ready", "finished"} => h = Height'
             /\ Calls'[h].at \in {"finished", "abortSoft"} => Calls'[1].at = "perform"
             /\ Calls'[h].at = "abort" => Calls'[1].at = "aborted"
  BY <1>1, <1>3 DEF ShapeInv
<1>4. Calls'[1].at \in {"perform", "aborted"} \cup FlushPlaces
  BY <1>1 DEF ShapeInv
<1> QED BY <1>2, <1>3, <1>4 DEF ShapeInv

LEMMA ShapeBecomesUnder ==
  ASSUME stack \in Seq(Frames), stack' \in Seq(Frames), ShapeInv, ~Idle,
         NEW f \in Frames, NEW g \in Frames, BecomesUnder(f, g),
         \/ Height = 1 /\ f.at = "perform" /\ g.at = "render"
         \/ Height > 1 /\ f.at = "render" /\ g.at = "render" /\ Height \in Renders
         \/ Height > 1 /\ f.at = "counted" /\ g.at = "ready" /\ Renders = {}
  PROVE  ShapeInv'
<1>1. /\ Height \in Nat /\ Height # 0 /\ Height' = Height + 1 /\ ~Idle'
      /\ \A h \in 1..Height' : \/ h \in 1..(Height - 1) /\ Calls'[h] = Calls[h]
                               \/ h = Height /\ Calls'[h] = f
                               \/ h = Height + 1 /\ Calls'[h] = g
      /\ Height > 1 => Calls'[1] = Calls[1]
  BY TopIs, TopIsNext DEF BecomesUnder, Below
<1>2. CASE Height = 1 /\ f.at = "perform" /\ g.at = "render"
  BY <1>1, <1>2 DEF ShapeInv, FlushPlaces
<1>3. CASE Height > 1 /\ f.at = "render" /\ g.at = "render" /\ Height \in Renders
  BY <1>1, <1>3 DEF ShapeInv, Renders, FlushPlaces
<1>4. CASE Height > 1 /\ f.at = "counted" /\ g.at = "ready" /\ Renders = {}
  BY <1>1, <1>4 DEF ShapeInv, Renders, FlushPlaces
<1> QED BY <1>2, <1>3, <1>4

LEMMA ShapeGetsTasks ==
  ASSUME stack \in Seq(Frames), stack' \in Seq(Frames), ShapeInv, NEW n \in Nat \ {0},
         NEW frame \in {"counted", "aborted"}, NEW at \in {"abort", "abortSoft"},
         NEW list \in Seq(TaskNames), GetsTasks(n, frame, at, list), Renders \subseteq {n},
         \/ Idle /\ n = 1 /\ frame = "aborted" /\ at = "abort"
         \/ n = Height /\ n > 1 /\ frame = "counted" /\ at = "abort" /\ Calls[1].at = "aborted"
         \/ n = Height /\ n > 1 /\ frame = "counted" /\ at = "abortSoft"
              /\ Calls[1].at = "perform"
  PROVE  ShapeInv'
<1>1. /\ Height \in Nat /\ Len(list) \in Nat /\ Height' = n + Len(list)
      /\ Idle' <=> Height' = 0
      /\ Idle => Height = 0
  BY TopIs, TopIsNext DEF GetsTasks
<1>2. /\ \A h \in 1..(n - 1) : Calls'[h] = Calls[h]
      /\ Calls'[n] = [at |-> frame]
      /\ \A h \in (n + 1)..(n + Len(list)) :
           Calls'[h] = [at |-> at, task |-> list[n + Len(list) + 1 - h]]
  BY DEF GetsTasks, Below
<1>3. ASSUME NEW h \in (n + 1)..(n + Len(list))
      PROVE  Calls'[h].at = at
  <2>1. PICK task : task = list[n + Len(list) + 1 - h]
    OBVIOUS
  <2>2. Calls'[h] = [at |-> at, task |-> task]
    BY <1>2, <2>1
  <2> QED BY <2>2
<1>4. \A h \in 1..Height' : \/ h \in 1..(n - 1) /\ Calls'[h] = Calls[h]
                            \/ h = n /\ Calls'[h].at = frame
                            \/ h > n /\ h <= Height' /\ Calls'[h].at = at
  BY <1>1, <1>2, <1>3
<1>5. ~Idle'
  BY <1>1
<1>6. CASE Idle /\ n = 1 /\ frame = "aborted" /\ at = "abort"
  BY <1>2, <1>4, <1>5, <1>6 DEF ShapeInv, FlushPlaces
<1>7. CASE /\ n = Height /\ n > 1 /\ frame = "counted"
           /\ \/ at = "abort" /\ Calls[1].at = "aborted"
              \/ at = "abortSoft" /\ Calls[1].at = "perform"
  <2>1. \A h \in 1..(n - 1) : /\ h \in 1..Height /\ h # Height
                              /\ Calls[h].at # "render"
    BY <1>1, <1>7 DEF Renders
  <2>2. \A h \in 1..(n - 1) : Calls[h].at \notin FlushPlaces \cup {"ready", "finished"}
    BY <2>1 DEF ShapeInv
  <2>3. Calls'[1] = Calls[1] /\ ~Idle
    BY <1>1, <1>2, <1>7
  <2>4. ASSUME NEW h \in 1..Height'
        PROVE  /\ h > 1 => Calls'[h].at \notin {"perform", "aborted"}
               /\ Calls'[h].at \notin FlushPlaces \cup {"ready", "finished", "render"}
               /\ Calls'[h].at \in {"finished", "abortSoft"} => Calls'[1].at = "perform"
               /\ Calls'[h].at = "abort" => Calls'[1].at = "aborted"
    BY <1>4, <1>7, <2>1, <2>2, <2>3 DEF ShapeInv, FlushPlaces
  <2>5. Calls'[1].at \in {"perform", "aborted"} \cup FlushPlaces
    BY <2>3 DEF ShapeInv
  <2> QED BY <2>4, <2>5 DEF ShapeInv
<1> QED BY <1>6, <1>7

-----------------------------------------------------------------------------
LEMMA RequestIs ==
  ASSUME FizzTypes
  PROVE  /\ pageRequest.status \in {"open", "closing", "closed"}
         /\ pageRequest.flowing \in BOOLEAN /\ pageRequest.scheduled \in BOOLEAN
         /\ pageRequest.allPendingTasks \in Int /\ pageRequest.pendingRootTasks \in Int
         /\ pageRequest.root \in SegmentNames \cup {Nil}
         /\ pageRequest.abortable \in Seq(TaskNames)
         /\ pageRequest.pinged \in Seq(TaskNames)
         /\ pageRequest.clientRendered \in Seq(Boundaries)
         /\ pageRequest.completed \in Seq(Boundaries)
         /\ pageRequest.partial \in Seq(Boundaries)
BY DEF FizzTypes, RequestRecords

\* A step that renders nothing: no task, segment or boundary is created.
Quiet ==
  /\ page' = page /\ tasks' = tasks
  /\ DOMAIN segments' = DOMAIN segments /\ DOMAIN boundaries' = DOMAIN boundaries
  /\ \A s \in DOMAIN segments :
       segments'[s].status = "pending" => segments[s].status = "pending"
  /\ Renders = {} /\ Renders' = {}

LEMMA LiveShrinks ==
  ASSUME NamesInv, Quiet
  PROVE  Live' \subseteq Live
BY DEF NamesInv, Quiet, Live

LEMMA QuietKeeps ==
  ASSUME FizzInv, Quiet
  PROVE  RenderInv' /\ (\E R : OpenedInv(R))'
<1>1. Live' \subseteq Live
  BY LiveShrinks DEF FizzInv
<1>2. RenderInv'
  BY DEF Quiet, RenderInv
<1>3. PICK R : OpenedInv(R)
  BY DEF FizzInv
<1>4. OpenedInv(R)'
  BY <1>1, <1>3 DEF Quiet, Bodies, OpenedInv, Engaged
<1> QED BY <1>2, <1>4

LEMMA QuietNames ==
  ASSUME NamesInv, Quiet,
         \A b \in DOMAIN boundaries : \A i \in DOMAIN boundaries'[b].completedSegments :
           boundaries'[b].completedSegments[i] \in DOMAIN segments,
         \A i \in DOMAIN pageRequest'.partial : pageRequest'.partial[i] \in DOMAIN boundaries,
         \A i \in DOMAIN pageRequest'.completed :
           pageRequest'.completed[i] \in DOMAIN boundaries
  PROVE  NamesInv'
BY DEF NamesInv, Quiet

\* The bottom of the stack stays.
LEMMA BottomStays ==
  ASSUME stack \in Seq(Frames), Height > 1, ~Idle', Calls'[1] = Calls[1]
  PROVE  ~Idle /\ (Performing' <=> Performing) /\ NextPinged' = NextPinged
<1>1. ~Idle
  BY TopIs
<1> QED BY <1>1 DEF Performing, NextPinged

LEMMA PingKept ==
  ASSUME PingInv, Live' \subseteq Live, Renders = {}, DOMAIN tasks' = DOMAIN tasks,
         suspended' = suspended, pageRequest'.pinged = pageRequest.pinged,
         pageRequest'.scheduled = pageRequest.scheduled,
         pageRequest'.status = "open" => pageRequest.status = "open",
         Performing' <=> Performing, NextPinged' = NextPinged
  PROVE  PingInv'
BY DEF PingInv

\* Counting
LEMMA OwedIsFinite ==
  ASSUME stack \in Seq(Frames)
  PROVE  IsFiniteSet(Owed) /\ Cardinality(Owed) \in Nat
<1>1. Height \in Nat
  BY TopIs
<1>2. IsFiniteSet(1..Height)
  BY <1>1, FS_Interval
<1>3. Owed \subseteq 1..Height
  BY DEF Owed
<1>4. IsFiniteSet(Owed)
  BY <1>2, <1>3, FS_Subset
<1> QED BY <1>4, FS_CardinalityType

LEMMA CountSame ==
  ASSUME CountInv, Live' = Live, Owed' = Owed,
         pageRequest'.allPendingTasks = pageRequest.allPendingTasks
  PROVE  CountInv'
BY DEF CountInv

LEMMA CountCreated ==
  ASSUME CountInv, stack \in Seq(Frames), NEW t, t \notin Live, Live' = Live \cup {t},
         Owed' = Owed, pageRequest'.allPendingTasks = pageRequest.allPendingTasks + 1
  PROVE  CountInv'
<1>1. IsFiniteSet(Live') /\ Cardinality(Live') = Cardinality(Live) + 1
  BY FS_AddElement DEF CountInv
<1>2. Cardinality(Live) \in Nat /\ Cardinality(Owed) \in Nat
  BY OwedIsFinite, FS_CardinalityType DEF CountInv
<1>3. pageRequest.allPendingTasks = Cardinality(Live) + Cardinality(Owed)
  BY DEF CountInv
<1>4. pageRequest'.allPendingTasks = Cardinality(Live') + Cardinality(Owed')
  BY <1>1, <1>2, <1>3
<1> QED BY <1>1, <1>4 DEF CountInv

LEMMA CountOwed ==
  ASSUME CountInv, stack \in Seq(Frames), NEW t \in Live, Live' = Live \ {t},
         NEW h, h \notin Owed, Owed' = Owed \cup {h},
         pageRequest'.allPendingTasks = pageRequest.allPendingTasks
  PROVE  CountInv'
<1>1. IsFiniteSet(Live') /\ Cardinality(Live') = Cardinality(Live) - 1
  BY FS_RemoveElement DEF CountInv
<1>2. Cardinality(Owed') = Cardinality(Owed) + 1
  BY FS_AddElement, OwedIsFinite
<1>3. Cardinality(Live) \in Nat /\ Cardinality(Owed) \in Nat
  BY OwedIsFinite, FS_CardinalityType DEF CountInv
<1>4. pageRequest.allPendingTasks = Cardinality(Live) + Cardinality(Owed)
  BY DEF CountInv
<1>5. pageRequest'.allPendingTasks = Cardinality(Live') + Cardinality(Owed')
  BY <1>1, <1>2, <1>3, <1>4
<1> QED BY <1>1, <1>5 DEF CountInv

LEMMA CountEnded ==
  ASSUME CountInv, stack \in Seq(Frames), NEW t \in Live, Live' = Live \ {t},
         Owed' = Owed, pageRequest'.allPendingTasks = pageRequest.allPendingTasks - 1
  PROVE  CountInv'
<1>1. IsFiniteSet(Live') /\ Cardinality(Live') = Cardinality(Live) - 1
  BY FS_RemoveElement DEF CountInv
<1>2. Cardinality(Live) \in Nat /\ Cardinality(Owed) \in Nat
  BY OwedIsFinite, FS_CardinalityType DEF CountInv
<1>3. pageRequest.allPendingTasks = Cardinality(Live) + Cardinality(Owed)
  BY DEF CountInv
<1>4. pageRequest'.allPendingTasks = Cardinality(Live') + Cardinality(Owed')
  BY <1>1, <1>2, <1>3
<1> QED BY <1>1, <1>4 DEF CountInv

LEMMA CountPaid ==
  ASSUME CountInv, stack \in Seq(Frames), Live' = Live,
         NEW h \in Owed, Owed' = Owed \ {h},
         pageRequest'.allPendingTasks = pageRequest.allPendingTasks - 1
  PROVE  CountInv'
<1>1. Cardinality(Owed') = Cardinality(Owed) - 1
  BY FS_RemoveElement, OwedIsFinite
<1>2. Cardinality(Live) \in Nat /\ Cardinality(Owed) \in Nat
  BY OwedIsFinite, FS_CardinalityType DEF CountInv
<1>3. pageRequest.allPendingTasks = Cardinality(Live) + Cardinality(Owed)
  BY DEF CountInv
<1>4. pageRequest'.allPendingTasks = Cardinality(Live') + Cardinality(Owed')
  BY <1>1, <1>2, <1>3
<1> QED BY <1>4 DEF CountInv

\* No task is added to what is or is to be aborted.
AbortsLess ==
  /\ Aborting' \subseteq Aborting /\ \A h \in Aborting' : Calls'[h] = Calls[h]
  /\ DOMAIN boundaries' = DOMAIN boundaries /\ tasks' = tasks
  /\ \A b \in DOMAIN boundaries :
       /\ OneEach(boundaries'[b].fallbackTasks)
       /\ \A i \in DOMAIN boundaries'[b].fallbackTasks :
            \E j \in DOMAIN boundaries[b].fallbackTasks :
              boundaries[b].fallbackTasks[j] = boundaries'[b].fallbackTasks[i]
  /\ \A t \in Live \ Live' :
       /\ \A h \in Aborting' : Calls'[h].task # t
       /\ \A b \in DOMAIN boundaries : \A i \in DOMAIN boundaries'[b].fallbackTasks :
            boundaries'[b].fallbackTasks[i] # t
AbortableLess ==
  Idle' \/ Calls'[1].at # "aborted" =>
    /\ OneEach(pageRequest'.abortable)
    /\ pageRequest'.abortable = <<>> \/ Idle \/ Calls[1].at # "aborted"
    /\ \A i \in DOMAIN pageRequest'.abortable :
         \E j \in DOMAIN pageRequest.abortable :
           pageRequest.abortable[j] = pageRequest'.abortable[i]
    /\ \A t \in Live \ Live' : \A i \in DOMAIN pageRequest'.abortable :
         pageRequest'.abortable[i] # t

LEMMA AbortKept ==
  ASSUME AbortInv, AbortsLess, AbortableLess
  PROVE  AbortInv'
<1>1. \A h \in Aborting' :
        /\ Calls'[h].task \in Live'
        /\ Calls'[h].at = "abortSoft" => tasks'[Calls'[h].task].abortSet # Nil
        /\ \A g \in Aborting' : Calls'[g].task = Calls'[h].task => g = h
  BY DEF AbortInv, AbortsLess
<1>2. ASSUME NEW b \in DOMAIN boundaries'
      PROVE  /\ OneEach(boundaries'[b].fallbackTasks)
             /\ \A i \in DOMAIN boundaries'[b].fallbackTasks :
                  /\ boundaries'[b].fallbackTasks[i] \in Live'
                  /\ tasks'[boundaries'[b].fallbackTasks[i]].abortSet = b
                  /\ \A h \in Aborting' : Calls'[h].task # boundaries'[b].fallbackTasks[i]
  <2>1. b \in DOMAIN boundaries /\ OneEach(boundaries'[b].fallbackTasks)
    BY DEF AbortsLess
  <2>2. ASSUME NEW i \in DOMAIN boundaries'[b].fallbackTasks
        PROVE  /\ boundaries'[b].fallbackTasks[i] \in Live'
               /\ tasks'[boundaries'[b].fallbackTasks[i]].abortSet = b
               /\ \A h \in Aborting' : Calls'[h].task # boundaries'[b].fallbackTasks[i]
    BY <2>1 DEF AbortsLess, AbortInv
  <2> QED BY <2>1, <2>2
<1>3. ASSUME Idle' \/ Calls'[1].at # "aborted"
      PROVE  /\ OneEach(pageRequest'.abortable)
             /\ \A i \in DOMAIN pageRequest'.abortable :
                  /\ pageRequest'.abortable[i] \in Live'
                  /\ tasks'[pageRequest'.abortable[i]].abortSet = Nil
  BY <1>3 DEF AbortInv, AbortsLess, AbortableLess
<1> QED BY <1>1, <1>2, <1>3 DEF AbortInv

-----------------------------------------------------------------------------
(* The steps that render nothing and end no task                             *)

LEMMA StillKeeps ==
  ASSUME FizzInv, UNCHANGED <<page, segments, boundaries, tasks>>,
         pageRequest'.partial = pageRequest.partial,
         pageRequest'.completed = pageRequest.completed,
         Renders = {}, Renders' = {},
         Aborting' \subseteq Aborting, \A h \in Aborting' : Calls'[h] = Calls[h],
         pageRequest'.abortable = <<>> \/
           /\ pageRequest'.abortable = pageRequest.abortable
           /\ Idle' \/ Calls'[1].at # "aborted" => Idle \/ Calls[1].at # "aborted"
  PROVE  NamesInv' /\ RenderInv' /\ AbortInv' /\ (\E R : OpenedInv(R))' /\ Live' = Live
<1>1. Quiet
  BY DEF Quiet
<1>2. Live' = Live
  BY DEF Live
<1>3. NamesInv'
  BY DEF FizzInv, NamesInv
<1>4. AbortsLess
  BY <1>2 DEF AbortsLess, FizzInv, AbortInv
<1>5. AbortableLess
  BY <1>2 DEF AbortableLess, FizzInv, AbortInv, OneEach
<1> QED BY <1>1, <1>2, <1>3, <1>4, <1>5, QuietKeeps, AbortKept DEF FizzInv

LEMMA PingTaskKeeps ==
  ASSUME FizzInv, NEW task \in suspended, PingTask(task)
  PROVE  FizzInv'
<1> USE DEF FizzInv
<1>1. /\ Idle /\ suspended' = suspended \ {task}
      /\ pageRequest' = [pageRequest EXCEPT !.pinged = Append(@, task),
                                            !.scheduled = @ \/ pageRequest.pinged = <<>>]
      /\ UNCHANGED <<page, segments, boundaries, tasks, stack, client, delays>>
  BY DEF PingTask
<1>2. task \in DOMAIN tasks /\ task \in TaskNames
  BY DEF FizzTypes, NamesInv
<1>3. /\ pageRequest' \in RequestRecords
      /\ pageRequest'.pinged = Append(pageRequest.pinged, task)
      /\ pageRequest'.scheduled = (pageRequest.scheduled \/ pageRequest.pinged = <<>>)
      /\ pageRequest'.status = pageRequest.status
      /\ pageRequest'.flowing = pageRequest.flowing
      /\ pageRequest'.allPendingTasks = pageRequest.allPendingTasks
      /\ pageRequest'.abortable = pageRequest.abortable
      /\ pageRequest'.partial = pageRequest.partial
      /\ pageRequest'.completed = pageRequest.completed
  BY <1>1, <1>2, RequestIs, AppendProperties DEF FizzTypes, RequestRecords
<1>4. /\ Height = 0 /\ Renders = {} /\ Owed = {} /\ Aborting = {}
      /\ Idle' /\ Height' = 0 /\ Renders' = {} /\ Owed' = {} /\ Aborting' = {}
  BY <1>1, AfterIdle DEF FizzTypes, Idle, Height, Renders, Owed, Aborting, Calls
<1>5. FizzTypes'
  BY <1>1, <1>3 DEF FizzTypes
<1>6. NamesInv' /\ RenderInv' /\ AbortInv' /\ (\E R : OpenedInv(R))' /\ Live' = Live
  BY <1>1, <1>3, <1>4, StillKeeps
<1>7. ShapeInv'
  BY <1>1, <1>4 DEF ShapeInv
<1>8. PingInv'
  <2>1. /\ pageRequest.pinged \in Seq(TaskNames)
        /\ DOMAIN pageRequest'.pinged = 1..(Len(pageRequest.pinged) + 1)
        /\ Len(pageRequest'.pinged) = Len(pageRequest.pinged) + 1
        /\ \A i \in 1..Len(pageRequest.pinged) :
             pageRequest'.pinged[i] = pageRequest.pinged[i]
        /\ pageRequest'.pinged[Len(pageRequest.pinged) + 1] = task
        /\ DOMAIN pageRequest.pinged = 1..Len(pageRequest.pinged)
        /\ Len(pageRequest.pinged) \in Nat
    BY <1>3 DEF FizzTypes, RequestRecords
  <2>2. ~Performing /\ ~Performing' /\ NextPinged = 1 /\ NextPinged' = 1
    BY <1>1, <1>4 DEF Performing, NextPinged
  <2>3. NextPinged' <= Len(pageRequest'.pinged) + 1
    BY <2>1, <2>2
  <2>4. \A i \in DOMAIN pageRequest'.pinged : pageRequest'.pinged[i] \in DOMAIN tasks'
    BY <1>1, <1>2, <2>1 DEF PingInv
  <2>5. ASSUME NEW t \in Live'
        PROVE  \/ t \in suspended'
               \/ \E i \in DOMAIN pageRequest'.pinged :
                    i >= NextPinged' /\ pageRequest'.pinged[i] = t
    <3>1. CASE t = task
      BY <2>1, <2>2, <3>1
    <3>2. CASE t # task /\ t \in suspended
      BY <1>1, <3>2
    <3>3. CASE t \notin suspended
      BY <1>4, <1>6, <2>1, <2>2, <2>5, <3>3 DEF PingInv
    <3> QED BY <3>1, <3>2, <3>3
  <2>6. pageRequest'.status = "open" => pageRequest'.scheduled
    BY <1>3, <2>2 DEF PingInv
  <2> QED BY <2>3, <2>4, <2>5, <2>6 DEF PingInv
<1>9. CountInv'
  BY <1>3, <1>4, <1>6, CountSame
<1>10. PlaceInv'
  BY <1>4 DEF PlaceInv
<1>11. DoneInv'
  BY <1>1, <1>3, <1>6 DEF DoneInv
<1> QED BY <1>5, <1>6, <1>7, <1>8, <1>9, <1>10, <1>11

LEMMA PerformTasksKeeps ==
  ASSUME FizzInv, PerformTasks
  PROVE  FizzInv'
<1> USE DEF FizzInv
<1>1. /\ Idle /\ pageRequest.scheduled
      /\ pageRequest' = [pageRequest EXCEPT !.scheduled = FALSE]
      /\ stack' = IF pageRequest.status = "closed" THEN <<>>
                  ELSE <<[at |-> "perform", next |-> 1]>>
      /\ UNCHANGED <<page, segments, boundaries, tasks, suspended, client, delays>>
  BY DEF PerformTasks
<1>2. /\ pageRequest' \in RequestRecords
      /\ pageRequest'.pinged = pageRequest.pinged
      /\ pageRequest'.scheduled = FALSE
      /\ pageRequest'.status = pageRequest.status
      /\ pageRequest'.flowing = pageRequest.flowing
      /\ pageRequest'.allPendingTasks = pageRequest.allPendingTasks
      /\ pageRequest'.abortable = pageRequest.abortable
      /\ pageRequest'.partial = pageRequest.partial
      /\ pageRequest'.completed = pageRequest.completed
  BY <1>1 DEF FizzTypes, RequestRecords
<1>3. Height = 0 /\ Renders = {} /\ Owed = {} /\ Aborting = {}
  BY <1>1, AfterIdle DEF FizzTypes
<1>4. ~Performing /\ NextPinged = 1
  BY <1>1 DEF Performing, NextPinged
<1>5. CASE pageRequest.status = "closed"
  <2>1. stack' = <<>> /\ stack' \in Seq(Frames)
    BY <1>1, <1>5
  <2>2. Idle' /\ Renders' = {} /\ Owed' = {} /\ Aborting' = {} /\ Height' = 0
    BY <2>1 DEF Idle, Height, Renders, Owed, Aborting
  <2>3. FizzTypes'
    BY <1>1, <1>2, <2>1 DEF FizzTypes
  <2>4. NamesInv' /\ RenderInv' /\ AbortInv' /\ (\E R : OpenedInv(R))' /\ Live' = Live
    BY <1>1, <1>2, <1>3, <2>2, StillKeeps
  <2>5. ShapeInv'
    BY <2>2 DEF ShapeInv
  <2>6. PingInv'
    BY <1>1, <1>2, <1>3, <1>4, <1>5, <2>2, <2>4 DEF Performing, NextPinged, PingInv
  <2>7. CountInv'
    BY <1>2, <1>3, <2>2, <2>4, CountSame
  <2>8. PlaceInv' /\ DoneInv'
    BY <1>2, <1>5, <2>2 DEF PlaceInv, DoneInv
  <2> QED BY <2>3, <2>4, <2>5, <2>6, <2>7, <2>8
<1>6. CASE pageRequest.status # "closed"
  <2>1. PICK f \in Frames : f = [at |-> "perform", next |-> 1]
    <3>1. [at |-> "perform", next |-> 1] \in PerformFrames
      BY DEF PerformFrames
    <3> QED BY <3>1 DEF Frames
  <2>2. stack' = <<f>> /\ f.at = "perform" /\ f.next = 1
    BY <1>1, <1>6, <2>1
  <2>3. Height' = 1 /\ Calls'[1] = f /\ stack' \in Seq(Frames)
    BY <1>1, <2>2, StackStarts
  <2>4. Renders' = {} /\ Owed' = {} /\ Aborting' = {} /\ ~Idle' /\ Top' = f
    BY <1>1, <2>2, <2>3, AfterStarts DEF FizzTypes
  <2>5. FizzTypes'
    BY <1>1, <1>2, <2>3 DEF FizzTypes
  <2>6. NamesInv' /\ RenderInv' /\ AbortInv' /\ (\E R : OpenedInv(R))' /\ Live' = Live
    BY <1>1, <1>2, <1>3, <2>4, StillKeeps
  <2>7. ShapeInv'
    BY <2>2, <2>3, ShapeStarts
  <2>8. PingInv'
    <3>1. Performing' /\ NextPinged' = 1
      BY <2>2, <2>3, <2>4 DEF Performing, NextPinged
    <3> QED BY <1>1, <1>2, <1>3, <1>4, <2>6, <3>1 DEF PingInv
  <2>9. CountInv'
    BY <1>2, <1>3, <2>4, <2>6, CountSame
  <2>10. PlaceInv' /\ DoneInv'
    BY <1>1, <1>2, <2>2, <2>4 DEF PlaceInv, DoneInv
  <2> QED BY <2>5, <2>6, <2>7, <2>8, <2>9, <2>10
<1> QED BY <1>5, <1>6

LEMMA NothingRenders ==
  ASSUME FizzInv, ~Idle, Top.at # "render"
  PROVE  Renders = {}
<1>1. Height \in 1..Height /\ Top = Calls[Height] /\ Height \in Nat
  BY TopIs DEF FizzInv, FizzTypes
<1>2. ASSUME NEW h \in Renders
      PROVE  FALSE
  BY <1>1 DEF FizzInv, ShapeInv, Renders
<1> QED BY <1>2

LEMMA AtBottom ==
  ASSUME FizzInv, ~Idle, Top.at \in {"perform", "aborted"}
  PROVE  /\ Height = 1 /\ Calls[1] = Top
         /\ Renders = {} /\ Owed = {} /\ Aborting = {}
<1>1. Height \in 1..Height /\ Top = Calls[Height] /\ Height \in Nat
  BY TopIs DEF FizzInv, FizzTypes
<1>2. Height = 1
  BY <1>1 DEF FizzInv, ShapeInv
<1>3. 1..Height = {1}
  BY <1>2
<1>4. Calls[1] = Top
  BY <1>1, <1>2
<1> QED BY <1>2, <1>3, <1>4 DEF Renders, Owed, Aborting

LEMMA OverBottom ==
  ASSUME FizzInv, ~Idle,
         Top.at \in {"render", "ready", "counted", "finished", "abort", "abortSoft"}
  PROVE  Height > 1
<1>1. Height \in 1..Height /\ Top = Calls[Height] /\ Height \in Nat
  BY TopIs DEF FizzInv, FizzTypes
<1>2. Height # 1
  BY <1>1 DEF FizzInv, ShapeInv, FlushPlaces
<1> QED BY <1>1, <1>2

LEMMA StackMaybe ==
  ASSUME stack \in Seq(Frames), ~Idle, NEW place \in {"ready"} \cup FlushPlaces,
         NEW is \in BOOLEAN, stack' = (IF is THEN Frame(place) ELSE <<>>) \o Tail(stack)
  PROVE  /\ stack' \in Seq(Frames) /\ [at |-> place] \in Frames
         /\ is => Becomes([at |-> place])
         /\ ~is => Leaves
<1>1. PICK f \in Frames : f = [at |-> place]
  BY DEF Frames, PlainFrames
<1>2. CASE is
  BY <1>1, <1>2, StackBecomes DEF Frame
<1>3. CASE ~is
  BY <1>1, <1>3, StackLeaves DEF Idle, Leave
<1> QED BY <1>2, <1>3

LEMMA EndPerformTasksKeeps ==
  ASSUME FizzInv, EndPerformTasks
  PROVE  FizzInv'
<1> USE DEF FizzInv
<1>1. /\ ~Idle /\ Top.at = "perform" /\ Top.next > Len(pageRequest.pinged)
      /\ pageRequest' = [pageRequest EXCEPT !.pinged = <<>>]
      /\ stack' = (IF pageRequest.flowing THEN Frame("root") ELSE <<>>) \o Tail(stack)
      /\ UNCHANGED <<page, segments, boundaries, tasks, suspended, client, delays>>
  BY DEF EndPerformTasks, IsAt
<1>2. /\ pageRequest' \in RequestRecords
      /\ pageRequest'.pinged = <<>>
      /\ pageRequest'.scheduled = pageRequest.scheduled
      /\ pageRequest'.status = pageRequest.status
      /\ pageRequest'.flowing = pageRequest.flowing
      /\ pageRequest'.allPendingTasks = pageRequest.allPendingTasks
      /\ pageRequest'.abortable = pageRequest.abortable
      /\ pageRequest'.partial = pageRequest.partial
      /\ pageRequest'.completed = pageRequest.completed
  <2>0. <<>> \in Seq(TaskNames)
    OBVIOUS
  <2>1. PICK none \in Seq(TaskNames) : none = <<>>
    BY <2>0
  <2>2. pageRequest' = [pageRequest EXCEPT !.pinged = none]
    BY <1>1, <2>1
  <2> QED BY <2>1, <2>2 DEF FizzTypes, RequestRecords
<1>3. /\ Height = 1 /\ Calls[1] = Top /\ Performing /\ NextPinged = Top.next
      /\ Renders = {} /\ Owed = {} /\ Aborting = {}
  BY <1>1, AtBottom DEF Performing, NextPinged
<1>4. pageRequest.flowing \in BOOLEAN /\ pageRequest.pinged \in Seq(TaskNames)
  BY RequestIs
<1>5. /\ stack' \in Seq(Frames) /\ [at |-> "root"] \in Frames
      /\ pageRequest.flowing => Becomes([at |-> "root"])
      /\ ~pageRequest.flowing => Leaves
  BY <1>1, <1>4, StackMaybe DEF FizzTypes, FlushPlaces
<1>6. FizzTypes'
  BY <1>1, <1>2, <1>5 DEF FizzTypes
<1>7. /\ Renders' = {} /\ Owed' = {} /\ Aborting' = {} /\ ~Performing' /\ ShapeInv'
      /\ Idle' <=> ~pageRequest.flowing
      /\ ~Idle' => Top' = [at |-> "root"]
  <2>1. CASE pageRequest.flowing
    BY <1>1, <1>3, <1>5, <2>1, AfterBecomes, ShapeStarts DEF FizzTypes, Becomes,
       FlushPlaces, Performing
  <2>2. CASE ~pageRequest.flowing
    BY <1>1, <1>3, <1>5, <2>2, AfterLeaves, ShapeLeaves DEF FizzTypes, Performing
  <2> QED BY <2>1, <2>2
<1>8. Idle \/ Calls[1].at # "aborted"
  BY <1>1, <1>3
<1>9. NamesInv' /\ RenderInv' /\ AbortInv' /\ (\E R : OpenedInv(R))' /\ Live' = Live
  BY <1>1, <1>2, <1>3, <1>7, <1>8, StillKeeps
<1>10. PingInv'
  <2>1. NextPinged' = 1 /\ Len(pageRequest'.pinged) = 0 /\ DOMAIN pageRequest'.pinged = {}
    BY <1>2, <1>7 DEF NextPinged
  <2>2. \A t \in Live : t \in suspended
    <3> SUFFICES ASSUME NEW t \in Live
                 PROVE  t \in suspended
      OBVIOUS
    <3>1. \/ t \in suspended
          \/ \E i \in DOMAIN pageRequest.pinged :
               i >= NextPinged /\ pageRequest.pinged[i] = t
      BY <1>3 DEF PingInv
    <3>2. DOMAIN pageRequest.pinged = 1..Len(pageRequest.pinged)
      BY <1>4
    <3>3. Top.next \in Int /\ Len(pageRequest.pinged) \in Int
      <4>1. Top \in PerformFrames
        BY <1>1, TopIs DEF FizzTypes, Frames, PlainFrames, TaskFrames, RenderFrames, FlushPlaces
      <4> QED BY <1>4, <4>1 DEF PerformFrames
    <3> QED BY <1>1, <1>3, <3>1, <3>2, <3>3
  <2> QED BY <1>1, <1>2, <1>9, <2>1, <2>2 DEF PingInv
<1>11. CountInv'
  BY <1>2, <1>3, <1>7, <1>9, CountSame
<1>12. PlaceInv' /\ DoneInv'
  BY <1>1, <1>2, <1>7, <1>9 DEF PlaceInv, DoneInv
<1> QED BY <1>6, <1>7, <1>9, <1>10, <1>11, <1>12

LEMMA EndAbortKeeps ==
  ASSUME FizzInv, EndAbort
  PROVE  FizzInv'
<1> USE DEF FizzInv
<1>1. /\ ~Idle /\ Top.at = "aborted"
      /\ pageRequest' = [pageRequest EXCEPT !.abortable = <<>>]
      /\ stack' = (IF pageRequest.flowing THEN Frame("root") ELSE <<>>) \o Tail(stack)
      /\ UNCHANGED <<page, segments, boundaries, tasks, suspended, client, delays>>
  BY DEF EndAbort, IsAt
<1>2. /\ pageRequest' \in RequestRecords
      /\ pageRequest'.pinged = pageRequest.pinged
      /\ pageRequest'.scheduled = pageRequest.scheduled
      /\ pageRequest'.status = pageRequest.status
      /\ pageRequest'.flowing = pageRequest.flowing
      /\ pageRequest'.allPendingTasks = pageRequest.allPendingTasks
      /\ pageRequest'.abortable = <<>>
      /\ pageRequest'.partial = pageRequest.partial
      /\ pageRequest'.completed = pageRequest.completed
  <2>0. <<>> \in Seq(TaskNames)
    OBVIOUS
  <2>1. PICK none \in Seq(TaskNames) : none = <<>>
    BY <2>0
  <2>2. pageRequest' = [pageRequest EXCEPT !.abortable = none]
    BY <1>1, <2>1
  <2> QED BY <2>1, <2>2 DEF FizzTypes, RequestRecords
<1>3. /\ Height = 1 /\ Calls[1] = Top /\ ~Performing /\ NextPinged = 1
      /\ Renders = {} /\ Owed = {} /\ Aborting = {}
  BY <1>1, AtBottom DEF Performing, NextPinged
<1>4. pageRequest.flowing \in BOOLEAN
  BY RequestIs
<1>5. /\ stack' \in Seq(Frames) /\ [at |-> "root"] \in Frames
      /\ pageRequest.flowing => Becomes([at |-> "root"])
      /\ ~pageRequest.flowing => Leaves
  BY <1>1, <1>4, StackMaybe DEF FizzTypes, FlushPlaces
<1>6. FizzTypes'
  BY <1>1, <1>2, <1>5 DEF FizzTypes
<1>7. /\ Renders' = {} /\ Owed' = {} /\ Aborting' = {} /\ ~Performing' /\ ShapeInv'
      /\ NextPinged' = 1
      /\ Idle' <=> ~pageRequest.flowing
      /\ ~Idle' => Top' = [at |-> "root"]
  <2>1. CASE pageRequest.flowing
    BY <1>1, <1>3, <1>5, <2>1, AfterBecomes, ShapeStarts DEF FizzTypes, Becomes,
       FlushPlaces, Performing, NextPinged
  <2>2. CASE ~pageRequest.flowing
    BY <1>1, <1>3, <1>5, <2>2, AfterLeaves, ShapeLeaves DEF FizzTypes, Performing,
       NextPinged
  <2> QED BY <2>1, <2>2
<1>8. NamesInv' /\ RenderInv' /\ AbortInv' /\ (\E R : OpenedInv(R))' /\ Live' = Live
  BY <1>1, <1>2, <1>3, <1>7, StillKeeps
<1>9. PingInv'
  BY <1>1, <1>2, <1>3, <1>7, <1>8, PingKept
<1>10. CountInv'
  BY <1>2, <1>3, <1>7, <1>8, CountSame
<1>11. PlaceInv' /\ DoneInv'
  BY <1>1, <1>2, <1>7, <1>8 DEF PlaceInv, DoneInv
<1> QED BY <1>6, <1>7, <1>8, <1>9, <1>10, <1>11

\* Some frames are only markers: nothing is said of the tasks below them.
LightStep ==
  /\ ShapeInv' /\ Renders = {} /\ Renders' = {} /\ Owed' = Owed /\ Aborting' = Aborting
  /\ \A h \in Aborting : Calls'[h] = Calls[h]
  /\ (Performing' <=> Performing) /\ NextPinged' = NextPinged
  /\ Idle' \/ Calls'[1].at # "aborted" => Idle \/ Calls[1].at # "aborted"

LEMMA LightLeaves ==
  ASSUME FizzInv, ~Idle, Top.at \in FlushPlaces \cup {"ready"}, Leaves, stack' \in Seq(Frames)
  PROVE  LightStep /\ (Idle' <=> Height = 1)
<1>1. /\ Height \in 1..Height /\ Top = Calls[Height] /\ Height \in Nat
      /\ stack \in Seq(Frames) /\ Renders = {}
  BY TopIs, NothingRenders DEF FizzInv, FizzTypes, FlushPlaces
<1>2. /\ Renders' = Renders \ {Height} /\ Owed' = Owed \ {Height}
      /\ Aborting' = Aborting \ {Height}
      /\ Idle' <=> Height = 1
      /\ Height > 1 => Calls'[1] = Calls[1]
  BY <1>1, AfterLeaves
<1>3. Height \notin Owed /\ Height \notin Aborting
  BY <1>1 DEF Owed, Aborting, FlushPlaces
<1>4. \A h \in Aborting : Calls'[h] = Calls[h]
  <2> TAKE h \in Aborting
  <2>1. h \in 1..(Height - 1)
    BY <1>1, <1>3 DEF Aborting
  <2> QED BY <2>1 DEF Leaves, Below
<1>5. ShapeInv'
  BY <1>1, ShapeLeaves DEF FizzInv
<1>6. CASE Height = 1
  BY <1>1, <1>2, <1>3, <1>4, <1>5, <1>6 DEF FlushPlaces, Performing, NextPinged, LightStep
<1>7. CASE Height # 1
  BY <1>1, <1>2, <1>3, <1>4, <1>5, <1>7, BottomStays DEF LightStep
<1> QED BY <1>6, <1>7

LEMMA LightBecomes ==
  ASSUME FizzInv, ~Idle, Top.at \in FlushPlaces \cup {"ready"}, stack' \in Seq(Frames),
         NEW f \in Frames, f.at \in FlushPlaces, Becomes(f)
  PROVE  LightStep /\ ~Idle' /\ Top' = f
<1>1. /\ Height \in 1..Height /\ Top = Calls[Height] /\ Height \in Nat
      /\ stack \in Seq(Frames) /\ Renders = {}
  BY TopIs, NothingRenders DEF FizzInv, FizzTypes, FlushPlaces
<1>2. f.at \notin {"render", "counted", "finished", "abort", "abortSoft", "perform", "aborted"}
  BY DEF FlushPlaces
<1>3. /\ Renders' = Renders \ {Height} /\ Owed' = Owed \ {Height}
      /\ Aborting' = Aborting \ {Height}
      /\ ~Idle' /\ Top' = f
      /\ Height > 1 => Calls'[1] = Calls[1]
  BY <1>1, <1>2, AfterBecomes
<1>4. Height \notin Owed /\ Height \notin Aborting
  BY <1>1 DEF Owed, Aborting, FlushPlaces
<1>5. \A h \in Aborting : Calls'[h] = Calls[h]
  <2> TAKE h \in Aborting
  <2>1. h \in 1..(Height - 1)
    BY <1>1, <1>4 DEF Aborting
  <2> QED BY <2>1 DEF Becomes, Below
<1>6. CASE Height = 1
  BY <1>1, <1>2, <1>3, <1>4, <1>5, <1>6, ShapeStarts DEF Becomes, FlushPlaces, Performing,
     NextPinged, LightStep
<1>7. CASE Height # 1
  <2>1. Height > 1
    BY <1>1, <1>7
  <2>2. (Performing' <=> Performing) /\ NextPinged' = NextPinged
    BY <1>1, <1>3, <2>1, BottomStays
  <2>3. ShapeInv'
    BY <1>1, <1>2, <2>1, ShapeBecomes DEF FizzInv
  <2> QED BY <1>1, <1>3, <1>4, <1>5, <2>1, <2>2, <2>3 DEF LightStep
<1> QED BY <1>6, <1>7

LEMMA LightKeeps ==
  ASSUME FizzInv, LightStep, UNCHANGED <<page, segments, boundaries, tasks, suspended>>,
         pageRequest'.partial = pageRequest.partial,
         pageRequest'.completed = pageRequest.completed,
         pageRequest'.abortable = pageRequest.abortable,
         pageRequest'.pinged = pageRequest.pinged,
         pageRequest'.scheduled = pageRequest.scheduled,
         pageRequest'.allPendingTasks = pageRequest.allPendingTasks,
         pageRequest'.status = "open" => pageRequest.status = "open"
  PROVE  /\ NamesInv' /\ RenderInv' /\ AbortInv' /\ (\E R : OpenedInv(R))' /\ Live' = Live
         /\ ShapeInv' /\ PingInv' /\ CountInv'
<1>1. NamesInv' /\ RenderInv' /\ AbortInv' /\ (\E R : OpenedInv(R))' /\ Live' = Live
  BY StillKeeps DEF LightStep
<1>2. PingInv'
  BY <1>1, PingKept DEF LightStep, FizzInv
<1>3. CountInv'
  BY <1>1, CountSame DEF LightStep, FizzInv
<1> QED BY <1>1, <1>2, <1>3 DEF LightStep

LEMMA PlaceLeaves ==
  ASSUME FizzInv, ~Idle, Leaves, stack' \in Seq(Frames)
  PROVE  PlaceInv'
<1>1. /\ Height \in Nat /\ Height' = Height - 1
      /\ \A h \in 1..(Height - 1) : Calls'[h] = Calls[h]
      /\ ~Idle' => Height' \in 1..Height' /\ Top' = Calls'[Height']
  BY TopIs, TopIsNext DEF FizzInv, FizzTypes, Leaves, Below
<1>2. ASSUME ~Idle'
      PROVE  Top'.at \notin FlushPlaces \cup {"finished"}
  BY <1>1, <1>2 DEF FizzInv, ShapeInv
<1> QED BY <1>2 DEF PlaceInv, FlushPlaces

LEMMA FlushNextQueueKeeps ==
  ASSUME FizzInv, FlushNextQueue
  PROVE  FizzInv'
<1> USE DEF FizzInv
<1>1. PICK place \in {"clientRendered", "completed", "partial"} :
        /\ ~Idle /\ Top.at = place /\ pageRequest[place] = <<>>
        /\ stack' = Frame(Following[place]) \o Tail(stack)
        /\ UNCHANGED <<page, pageRequest, segments, boundaries, tasks, suspended, client,
                       delays>>
  BY DEF FlushNextQueue, IsAt, Following
<1>2. PICK next \in {"completed", "partial", "flushed"} : next = Following[place]
  BY DEF Following
<1>3. PICK f \in Frames : f = [at |-> next]
  BY DEF Frames, PlainFrames, FlushPlaces
<1>4. stack' = <<f>> \o Tail(stack)
  BY <1>1, <1>2, <1>3 DEF Frame
<1>5. Becomes(f) /\ stack' \in Seq(Frames)
  BY <1>1, <1>4, StackBecomes DEF FizzTypes
<1>6. Top.at \in FlushPlaces /\ f.at \in FlushPlaces
  BY <1>1, <1>3 DEF FlushPlaces
<1>7. LightStep /\ ~Idle' /\ Top' = f
  BY <1>1, <1>5, <1>6, LightBecomes
<1>8. FizzTypes'
  BY <1>1, <1>5 DEF FizzTypes
<1>9. /\ NamesInv' /\ RenderInv' /\ AbortInv' /\ (\E R : OpenedInv(R))' /\ Live' = Live
      /\ ShapeInv' /\ PingInv' /\ CountInv'
  BY <1>1, <1>7, LightKeeps
<1>10. PlaceInv'
  BY <1>1, <1>2, <1>3, <1>7 DEF PlaceInv, Following
<1>11. DoneInv'
  BY <1>1, <1>7, <1>9 DEF DoneInv
<1> QED BY <1>8, <1>9, <1>10, <1>11

LEMMA EndFlushKeeps ==
  ASSUME FizzInv, EndFlush
  PROVE  FizzInv'
<1> USE DEF FizzInv
<1>1. /\ ~Idle /\ Top.at = "flushed" /\ Leave
      /\ client' = IF /\ pageRequest.allPendingTasks = 0
                      /\ pageRequest.pinged = <<>>
                      /\ pageRequest.clientRendered = <<>>
                      /\ pageRequest.completed = <<>>
                   THEN [client EXCEPT !.end = IF @ = "none" THEN "done" ELSE @] ELSE client
      /\ UNCHANGED <<page, pageRequest, segments, boundaries, tasks, suspended, delays>>
  BY DEF EndFlush, IsAt
<1>2. Leaves /\ stack' \in Seq(Frames)
  BY <1>1, StackLeaves DEF FizzTypes
<1>3. LightStep /\ (Idle' <=> Height = 1)
  BY <1>1, <1>2, LightLeaves DEF FlushPlaces
<1>4. /\ IsClient(client)'
      /\ client'.end = client.end \/ client'.end = "done"
      /\ /\ pageRequest.allPendingTasks = 0 /\ pageRequest.pinged = <<>>
         /\ pageRequest.clientRendered = <<>> /\ pageRequest.completed = <<>>
         /\ client.end \in {"none", "done"}
         => client'.end = "done"
  BY <1>1 DEF FizzTypes, IsClient
<1>5. FizzTypes'
  BY <1>1, <1>2, <1>4 DEF FizzTypes
<1>6. /\ NamesInv' /\ RenderInv' /\ AbortInv' /\ (\E R : OpenedInv(R))' /\ Live' = Live
      /\ ShapeInv' /\ PingInv' /\ CountInv'
  BY <1>1, <1>3, LightKeeps
<1>7. PlaceInv'
  BY <1>1, <1>2, PlaceLeaves
<1>8. DoneInv'
  <2> SUFFICES ASSUME pageRequest.status = "open", Idle', pageRequest.flowing, Live = {},
                      ~pageRequest.scheduled
               PROVE  client'.end = "done"
    BY <1>1, <1>4, <1>6 DEF DoneInv
  <2>1. pageRequest.clientRendered = <<>> /\ pageRequest.completed = <<>>
    BY <1>1 DEF PlaceInv
  <2>2. Height = 1 /\ 1..Height = {1} /\ Calls[1] = Top
    BY <1>1, <1>3, TopIs DEF FizzTypes
  <2>3. Owed = {} /\ ~Performing
    BY <1>1, <2>2 DEF Owed, Performing
  <2>4. pageRequest.allPendingTasks = 0
    BY <2>3, FS_EmptySet DEF CountInv
  <2>5. pageRequest.pinged = <<>>
    BY <2>3 DEF PingInv
  <2> QED BY <1>4, <2>1, <2>4, <2>5 DEF DoneInv
<1> QED BY <1>5, <1>6, <1>7, <1>8

\* startFlowing
LEMMA FlowIs ==
  ASSUME FizzTypes, NEW then, Flow(then)
  PROVE  /\ pageRequest' \in RequestRecords
         /\ pageRequest'.pinged = pageRequest.pinged
         /\ pageRequest'.scheduled = pageRequest.scheduled
         /\ pageRequest'.allPendingTasks = pageRequest.allPendingTasks
         /\ pageRequest'.abortable = pageRequest.abortable
         /\ pageRequest'.partial = pageRequest.partial
         /\ pageRequest'.completed = pageRequest.completed
         /\ pageRequest'.status = "open" <=> pageRequest.status = "open"
         /\ pageRequest'.status = "open" => client'.end = client.end
         /\ IsClient(client)'
         /\ \E is \in BOOLEAN : /\ stack' = (IF is THEN Frame("root") ELSE <<>>) \o then
                                /\ is <=> ~pageRequest.flowing /\ pageRequest.status = "open"
<1>1. PICK flowing \in BOOLEAN : flowing = (pageRequest.flowing \/ pageRequest.status = "open")
  OBVIOUS
<1>2. PICK status \in {"open", "closed"} :
        status = IF pageRequest.status = "closing" THEN "closed" ELSE pageRequest.status
  BY RequestIs
<1>3. pageRequest' = [pageRequest EXCEPT !.flowing = flowing, !.status = status]
  BY <1>1, <1>2 DEF Flow
<1>4. /\ pageRequest' \in RequestRecords
      /\ pageRequest'.pinged = pageRequest.pinged
      /\ pageRequest'.scheduled = pageRequest.scheduled
      /\ pageRequest'.allPendingTasks = pageRequest.allPendingTasks
      /\ pageRequest'.abortable = pageRequest.abortable
      /\ pageRequest'.partial = pageRequest.partial
      /\ pageRequest'.completed = pageRequest.completed
      /\ pageRequest'.status = status
  BY <1>3 DEF FizzTypes, RequestRecords
<1>5. IsClient(client)' /\ (pageRequest'.status = "open" => client'.end = client.end)
  BY <1>2, <1>4 DEF Flow, FizzTypes, IsClient
<1>6. PICK is \in BOOLEAN : is = (~pageRequest.flowing /\ pageRequest.status = "open")
  OBVIOUS
<1>7. stack' = (IF is THEN Frame("root") ELSE <<>>) \o then
  BY <1>6 DEF Flow
<1> QED BY <1>2, <1>4, <1>5, <1>6, <1>7

LEMMA ReadyKeeps ==
  ASSUME FizzInv, Ready
  PROVE  FizzInv'
<1> USE DEF FizzInv
<1>1. /\ ~Idle /\ Top.at = "ready"
      /\ UNCHANGED <<page, segments, boundaries, tasks, suspended, delays>>
  BY DEF Ready, IsAt
<1>2. Height > 1
  BY <1>1, OverBottom
<1>3. CASE Flow(Tail(stack))
  <2>1. PICK is \in BOOLEAN : stack' = (IF is THEN Frame("root") ELSE <<>>) \o Tail(stack)
    BY <1>3, FlowIs
  <2>2. /\ stack' \in Seq(Frames) /\ [at |-> "root"] \in Frames
        /\ is => Becomes([at |-> "root"])
        /\ ~is => Leaves
    BY <1>1, <2>1, StackMaybe DEF FizzTypes, FlushPlaces
  <2>3. LightStep /\ ~Idle' /\ PlaceInv'
    <3>1. CASE is
      BY <1>1, <2>2, <3>1, LightBecomes DEF FlushPlaces, PlaceInv
    <3>2. CASE ~is
      BY <1>1, <1>2, <2>2, <3>2, LightLeaves, PlaceLeaves
    <3> QED BY <3>1, <3>2
  <2>4. FizzTypes'
    BY <1>1, <1>3, <2>2, FlowIs DEF FizzTypes
  <2>5. /\ NamesInv' /\ RenderInv' /\ AbortInv' /\ (\E R : OpenedInv(R))' /\ Live' = Live
        /\ ShapeInv' /\ PingInv' /\ CountInv'
    BY <1>1, <1>3, <2>3, FlowIs, LightKeeps
  <2>6. DoneInv'
    BY <1>3, <2>3, FlowIs DEF DoneInv
  <2> QED BY <2>3, <2>4, <2>5, <2>6
<1>4. CASE Leave /\ UNCHANGED <<pageRequest, client>>
  BY <1>1, <1>2, <1>4, StackLeaves, LightLeaves, PlaceLeaves, LightKeeps DEF FizzTypes,
     DoneInv
<1> QED BY <1>3, <1>4 DEF Ready

LEMMA StartStreamingKeeps ==
  ASSUME FizzInv, StartStreaming
  PROVE  FizzInv'
<1> USE DEF FizzInv
<1>1. /\ Idle /\ ~pageRequest.flowing /\ Flow(<<>>)
      /\ UNCHANGED <<page, segments, boundaries, tasks, suspended, delays>>
  BY DEF StartStreaming
<1>2. PICK is \in BOOLEAN : /\ stack' = (IF is THEN Frame("root") ELSE <<>>) \o <<>>
                            /\ is <=> ~pageRequest.flowing /\ pageRequest.status = "open"
  BY <1>1, FlowIs
<1>3. /\ Height = 0 /\ Renders = {} /\ Owed = {} /\ Aborting = {}
      /\ ~Performing /\ NextPinged = 1
  BY <1>1, AfterIdle DEF FizzTypes, Performing, NextPinged
<1>4. PICK f \in Frames : f = [at |-> "root"]
  BY DEF Frames, PlainFrames, FlushPlaces
<1>5. /\ stack' \in Seq(Frames) /\ ShapeInv'
      /\ Renders' = {} /\ Owed' = {} /\ Aborting' = {} /\ ~Performing' /\ NextPinged' = 1
      /\ Idle' <=> ~is
      /\ PlaceInv'
  <2>1. CASE is
    <3>1. stack' = <<f>>
      BY <1>2, <1>4, <2>1 DEF Frame
    <3>2. Height' = 1 /\ Calls'[1] = f /\ stack' \in Seq(Frames)
      BY <1>1, <3>1, StackStarts
    <3>3. Renders' = {} /\ Owed' = {} /\ Aborting' = {} /\ ~Idle' /\ Top' = f
      BY <1>1, <1>4, <3>2, AfterStarts DEF FizzTypes, FlushPlaces
    <3>4. ShapeInv'
      BY <1>4, <3>2, ShapeStarts DEF FlushPlaces
    <3>5. ~Performing' /\ NextPinged' = 1
      BY <1>4, <3>2 DEF Performing, NextPinged
    <3>6. PlaceInv'
      BY <1>4, <3>3 DEF PlaceInv
    <3> QED BY <2>1, <3>2, <3>3, <3>4, <3>5, <3>6
  <2>2. CASE ~is
    <3>1. stack' = <<>> /\ stack' \in Seq(Frames)
      BY <1>2, <2>2
    <3>2. Idle' /\ Renders' = {} /\ Owed' = {} /\ Aborting' = {} /\ Height' = 0
      BY <3>1 DEF Idle, Height, Renders, Owed, Aborting
    <3>3. ~Performing' /\ NextPinged' = 1 /\ PlaceInv' /\ ShapeInv'
      BY <3>2 DEF Performing, NextPinged, PlaceInv, ShapeInv
    <3> QED BY <2>2, <3>1, <3>2, <3>3
  <2> QED BY <2>1, <2>2
<1>6. FizzTypes'
  BY <1>1, <1>5, FlowIs DEF FizzTypes
<1>7. LightStep
  BY <1>1, <1>3, <1>5 DEF LightStep
<1>8. /\ NamesInv' /\ RenderInv' /\ AbortInv' /\ (\E R : OpenedInv(R))' /\ Live' = Live
      /\ ShapeInv' /\ PingInv' /\ CountInv'
  BY <1>1, <1>7, FlowIs, LightKeeps
<1>9. DoneInv'
  BY <1>1, <1>2, <1>5, FlowIs DEF DoneInv
<1> QED BY <1>5, <1>6, <1>8, <1>9

\* The end of a job that is owed: a mark of it is on the stack.
LEMMA TaskCountedKeeps ==
  ASSUME FizzInv, TaskCounted
  PROVE  FizzInv'
<1> USE DEF FizzInv
<1>1. /\ ~Idle /\ Top.at = "counted"
      /\ pageRequest' = [pageRequest EXCEPT !.allPendingTasks = @ - 1]
      /\ stack' = (IF pageRequest.allPendingTasks = 1 THEN Frame("ready") ELSE <<>>)
                    \o Tail(stack)
      /\ UNCHANGED <<page, segments, boundaries, tasks, suspended, client, delays>>
  BY DEF TaskCounted, IsAt
<1>2. /\ pageRequest' \in RequestRecords
      /\ pageRequest'.pinged = pageRequest.pinged
      /\ pageRequest'.scheduled = pageRequest.scheduled
      /\ pageRequest'.status = pageRequest.status
      /\ pageRequest'.allPendingTasks = pageRequest.allPendingTasks - 1
      /\ pageRequest'.abortable = pageRequest.abortable
      /\ pageRequest'.partial = pageRequest.partial
      /\ pageRequest'.completed = pageRequest.completed
  <2>1. PICK n \in Int : n = pageRequest.allPendingTasks - 1
    BY RequestIs
  <2>2. pageRequest' = [pageRequest EXCEPT !.allPendingTasks = n]
    BY <1>1, <2>1
  <2> QED BY <2>1, <2>2 DEF FizzTypes, RequestRecords
<1>3. PICK is \in BOOLEAN : is = (pageRequest.allPendingTasks = 1)
  OBVIOUS
<1>4. stack' = (IF is THEN Frame("ready") ELSE <<>>) \o Tail(stack)
  BY <1>1, <1>3
<1>5. /\ stack' \in Seq(Frames) /\ [at |-> "ready"] \in Frames
      /\ is => Becomes([at |-> "ready"])
      /\ ~is => Leaves
  BY <1>1, <1>4, StackMaybe DEF FizzTypes
<1>6. /\ Height \in 1..Height /\ Top = Calls[Height] /\ Height \in Nat /\ Height > 1
      /\ Renders = {}
  BY <1>1, TopIs, OverBottom, NothingRenders DEF FizzTypes
<1>7. Height \in Owed /\ Height \notin Aborting
  BY <1>1, <1>6 DEF Owed, Aborting
<1>8. /\ Renders' = {} /\ Owed' = Owed \ {Height} /\ Aborting' = Aborting
      /\ ~Idle' /\ Calls'[1] = Calls[1] /\ ShapeInv' /\ PlaceInv'
      /\ \A h \in 1..(Height - 1) : Calls'[h] = Calls[h]
  <2>1. CASE is
    <3>1. /\ Renders' = {} /\ Owed' = Owed \ {Height} /\ Aborting' = Aborting
          /\ ~Idle' /\ Calls'[1] = Calls[1] /\ Top' = [at |-> "ready"]
      BY <1>1, <1>5, <1>6, <1>7, <2>1, AfterBecomes DEF FizzTypes
    <3>2. ShapeInv'
      BY <1>5, <1>6, <2>1, ShapeBecomes DEF FizzTypes
    <3>3. PlaceInv'
      BY <3>1 DEF PlaceInv
    <3> QED BY <1>5, <2>1, <3>1, <3>2, <3>3 DEF Becomes, Below
  <2>2. CASE ~is
    <3>1. /\ Renders' = {} /\ Owed' = Owed \ {Height} /\ Aborting' = Aborting
          /\ ~Idle' /\ Calls'[1] = Calls[1]
      <4>1. /\ Renders' = Renders \ {Height} /\ Owed' = Owed \ {Height}
            /\ Aborting' = Aborting \ {Height}
            /\ Idle' <=> Height = 1
            /\ Height > 1 => Calls'[1] = Calls[1]
        BY <1>1, <1>5, <2>2, AfterLeaves DEF FizzTypes
      <4> QED BY <1>6, <1>7, <4>1
    <3>2. ShapeInv' /\ PlaceInv'
      BY <1>1, <1>5, <2>2, ShapeLeaves, PlaceLeaves DEF FizzTypes
    <3> QED BY <1>5, <2>2, <3>1, <3>2 DEF Leaves, Below
  <2> QED BY <2>1, <2>2
<1>9. \A h \in Aborting : Calls'[h] = Calls[h]
  BY <1>6, <1>7, <1>8 DEF Aborting
<1>10. FizzTypes'
  BY <1>1, <1>2, <1>5 DEF FizzTypes
<1>11. NamesInv' /\ RenderInv' /\ AbortInv' /\ (\E R : OpenedInv(R))' /\ Live' = Live
  BY <1>1, <1>2, <1>6, <1>8, <1>9, StillKeeps
<1>12. (Performing' <=> Performing) /\ NextPinged' = NextPinged
  BY <1>6, <1>8, BottomStays DEF FizzTypes
<1>13. PingInv'
  BY <1>1, <1>2, <1>6, <1>11, <1>12, PingKept
<1>14. CountInv'
  BY <1>2, <1>7, <1>8, <1>11, CountPaid DEF FizzTypes
<1>15. DoneInv'
  BY <1>1, <1>2, <1>8 DEF DoneInv
<1> QED BY <1>8, <1>10, <1>11, <1>13, <1>14, <1>15

LEMMA OneAndOne ==
  ASSUME NEW S, NEW a \in Seq(S), NEW z \in Seq(S), NEW both \in Seq(S),
         Len(a) = 1, Len(z) = 1, Len(both) = 2, both[1] = a[1], both[2] = z[1]
  PROVE  a \o z = both
<1>1. /\ a \o z \in Seq(S) /\ Len(a \o z) = 1 + 1
      /\ \A i \in 1..(1 + 1) : (a \o z)[i] = IF i <= 1 THEN a[i] ELSE z[i - 1]
  BY ConcatProperties
<1>2. PICK c \in Seq(S) : c = a \o z /\ Len(c) = 2 /\ c[1] = a[1] /\ c[2] = z[1]
  <2>1. PICK c \in Seq(S) : c = a \o z
    BY <1>1
  <2>2. Len(c) = 2 /\ \A i \in 1..2 : c[i] = IF i <= 1 THEN a[i] ELSE z[i - 1]
    BY <1>1, <2>1
  <2>3. c[1] = a[1] /\ c[2] = z[1]
    BY <2>2
  <2> QED BY <2>1, <2>2, <2>3
<1>3. \A i \in 1..2 : i = 1 \/ i = 2
  OBVIOUS
<1>4. c = both
  BY <1>2, <1>3, SeqEqual
<1> QED BY <1>2, <1>4

LEMMA TwoFrames ==
  ASSUME NEW S, NEW f \in S, NEW g \in S
  PROVE  <<g>> \o <<f>> = <<g, f>>
<1>1. /\ <<g>> \in Seq(S) /\ <<f>> \in Seq(S) /\ Len(<<g>>) = 1 /\ Len(<<f>>) = 1
      /\ <<g>>[1] = g /\ <<f>>[1] = f
      /\ <<g, f>> \in Seq(S) /\ Len(<<g, f>>) = 2 /\ <<g, f>>[1] = g /\ <<g, f>>[2] = f
  OBVIOUS
<1>2. PICK a \in Seq(S), z \in Seq(S), both \in Seq(S) :
        a = <<g>> /\ z = <<f>> /\ both = <<g, f>>
  BY <1>1
<1>3. Len(a) = 1 /\ Len(z) = 1 /\ Len(both) = 2 /\ both[1] = a[1] /\ both[2] = z[1]
  BY <1>1, <1>2
<1>4. a \o z = both
  BY <1>3, OneAndOne
<1> QED BY <1>2, <1>4

LEMMA TaskOfTop ==
  ASSUME FizzInv, ~Idle, Top.at \in {"finished", "abort", "abortSoft"}
  PROVE  Top \in TaskFrames /\ Top.task \in TaskNames
<1>1. Top \in Frames
  BY TopIs DEF FizzInv, FizzTypes
<1>2. Top \in TaskFrames
  BY <1>1 DEF Frames, PlainFrames, PerformFrames, RenderFrames, FlushPlaces
<1> QED BY <1>2 DEF TaskFrames

LEMMA FinishedRootTaskKeeps ==
  ASSUME FizzInv, FinishedRootTask
  PROVE  FizzInv'
<1> USE DEF FizzInv
<1>1. /\ ~Idle /\ Top.at = "finished"
      /\ UNCHANGED <<page, segments, boundaries, tasks, suspended, client, delays>>
  BY DEF FinishedRootTask, IsAt
<1>2. /\ pageRequest' \in RequestRecords
      /\ pageRequest'.pinged = pageRequest.pinged
      /\ pageRequest'.scheduled = pageRequest.scheduled
      /\ pageRequest'.status = pageRequest.status
      /\ pageRequest'.allPendingTasks = pageRequest.allPendingTasks
      /\ pageRequest'.abortable = pageRequest.abortable
      /\ pageRequest'.partial = pageRequest.partial
      /\ pageRequest'.completed = pageRequest.completed
  <2>1. PICK n \in Int : n = pageRequest.pendingRootTasks - 1
    BY RequestIs
  <2>2. PICK root \in SegmentNames \cup {Nil} :
          root = IF segments[Top.task].parentFlushed THEN Top.task ELSE pageRequest.root
    BY <1>1, TaskOfTop, NamesDiffer, RequestIs
  <2>3. pageRequest' = [pageRequest EXCEPT !.root = root, !.pendingRootTasks = n]
    BY <2>1, <2>2 DEF FinishedRootTask
  <2> QED BY <2>1, <2>2, <2>3 DEF FizzTypes, RequestRecords
<1>3. /\ Height \in 1..Height /\ Top = Calls[Height] /\ Height \in Nat /\ Height > 1
      /\ Renders = {}
  BY <1>1, TopIs, OverBottom, NothingRenders DEF FizzTypes
<1>4. Height \in Owed /\ Height \notin Aborting
  BY <1>1, <1>3 DEF Owed, Aborting
<1>5. PICK f \in Frames, g \in Frames : f = [at |-> "counted"] /\ g = [at |-> "ready"]
  BY DEF Frames, PlainFrames
<1>6. /\ Renders' = {} /\ Owed' = Owed /\ Aborting' = Aborting
      /\ ~Idle' /\ Calls'[1] = Calls[1] /\ ShapeInv' /\ PlaceInv' /\ stack' \in Seq(Frames)
      /\ \A h \in 1..(Height - 1) : Calls'[h] = Calls[h]
  <2>1. CASE pageRequest.pendingRootTasks = 1
    <3>1. stack' = <<g, f>> \o Tail(stack)
      BY <1>5, <2>1, TwoFrames DEF FinishedRootTask, Frame
    <3>2. BecomesUnder(f, g) /\ stack' \in Seq(Frames)
      BY <1>1, <3>1, StackBecomesUnder DEF FizzTypes
    <3>3. /\ Renders' = (Renders \ {Height}) /\ Owed' = (Owed \ {Height}) \cup {Height}
          /\ Aborting' = Aborting \ {Height}
          /\ ~Idle' /\ Top' = g /\ (Height > 1 => Calls'[1] = Calls[1])
      BY <1>1, <1>5, <3>2, AfterBecomesUnder DEF FizzTypes
    <3>4. ShapeInv'
      BY <1>1, <1>3, <1>5, <3>2, ShapeBecomesUnder DEF FizzTypes
    <3>5. PlaceInv'
      BY <1>5, <3>3 DEF PlaceInv
    <3> QED BY <1>3, <1>4, <3>2, <3>3, <3>4, <3>5 DEF BecomesUnder, Below
  <2>2. CASE pageRequest.pendingRootTasks # 1
    <3>1. stack' = <<f>> \o Tail(stack)
      BY <1>5, <2>2 DEF FinishedRootTask, Frame
    <3>2. Becomes(f) /\ stack' \in Seq(Frames)
      BY <1>1, <3>1, StackBecomes DEF FizzTypes
    <3>3. /\ Renders' = (Renders \ {Height}) /\ Owed' = (Owed \ {Height}) \cup {Height}
          /\ Aborting' = Aborting \ {Height}
          /\ ~Idle' /\ Top' = f /\ (Height > 1 => Calls'[1] = Calls[1])
      BY <1>1, <1>5, <3>2, AfterBecomes DEF FizzTypes
    <3>4. ShapeInv'
      BY <1>1, <1>3, <1>5, <3>2, ShapeBecomes DEF FizzTypes
    <3>5. PlaceInv'
      BY <1>5, <3>3 DEF PlaceInv
    <3> QED BY <1>3, <1>4, <3>2, <3>3, <3>4, <3>5 DEF Becomes, Below
  <2> QED BY <2>1, <2>2
<1>7. \A h \in Aborting : Calls'[h] = Calls[h]
  BY <1>3, <1>4, <1>6 DEF Aborting
<1>8. FizzTypes'
  BY <1>1, <1>2, <1>6 DEF FizzTypes
<1>9. NamesInv' /\ RenderInv' /\ AbortInv' /\ (\E R : OpenedInv(R))' /\ Live' = Live
  BY <1>1, <1>2, <1>3, <1>6, <1>7, StillKeeps
<1>10. (Performing' <=> Performing) /\ NextPinged' = NextPinged
  BY <1>3, <1>6, BottomStays DEF FizzTypes
<1>11. PingInv'
  BY <1>1, <1>2, <1>3, <1>9, <1>10, PingKept
<1>12. CountInv'
  BY <1>2, <1>6, <1>9, CountSame
<1>13. DoneInv'
  BY <1>1, <1>2, <1>6 DEF DoneInv
<1> QED BY <1>6, <1>8, <1>9, <1>11, <1>12, <1>13

-----------------------------------------------------------------------------
(* Aborting                                                                  *)

LEMMA AbortTakes ==
  ASSUME AbortInv, NEW n \in Nat \ {0}, NEW frame, NEW at \in {"abort", "abortSoft"},
         NEW list \in Seq(TaskNames), GetsTasks(n, frame, at, list),
         Aborting' = (Aborting \ {n}) \cup ((n + 1)..(n + Len(list))),
         Aborting \ {n} \subseteq 1..(n - 1),
         tasks' = tasks, DOMAIN boundaries' = DOMAIN boundaries, OneEach(list),
         \A i \in DOMAIN list :
           /\ list[i] \in Live'
           /\ at = "abortSoft" => tasks[list[i]].abortSet # Nil
           /\ \A h \in Aborting \ {n} : Calls[h].task # list[i],
         \A h \in Aborting \ {n} : Calls[h].task \in Live',
         \A b \in DOMAIN boundaries :
           \/ boundaries'[b].fallbackTasks = <<>>
           \/ /\ boundaries'[b].fallbackTasks = boundaries[b].fallbackTasks
              /\ \A i \in DOMAIN boundaries[b].fallbackTasks :
                   /\ boundaries[b].fallbackTasks[i] \in Live'
                   /\ \A j \in DOMAIN list : list[j] # boundaries[b].fallbackTasks[i],
         Idle' \/ Calls'[1].at # "aborted" =>
           /\ Idle \/ Calls[1].at # "aborted"
           /\ pageRequest'.abortable = pageRequest.abortable
           /\ \A i \in DOMAIN pageRequest.abortable : pageRequest.abortable[i] \in Live'
  PROVE  AbortInv'
<1>1. Len(list) \in Nat /\ DOMAIN list = 1..Len(list)
  OBVIOUS
<1>2. \A h \in Aborting \ {n} : h < n /\ Calls'[h] = Calls[h]
  BY DEF GetsTasks, Below
<1>3. ASSUME NEW h \in (n + 1)..(n + Len(list))
      PROVE  \E i \in DOMAIN list : /\ i = n + Len(list) + 1 - h
                                    /\ Calls'[h] = [at |-> at, task |-> list[i]]
  <2>1. PICK i : i = n + Len(list) + 1 - h
    OBVIOUS
  <2>2. i \in 1..Len(list)
    BY <1>1, <2>1
  <2> QED BY <1>1, <2>1, <2>2 DEF GetsTasks
<1>4. ASSUME NEW h \in Aborting'
      PROVE  /\ Calls'[h].task \in Live'
             /\ Calls'[h].at = "abortSoft" => tasks'[Calls'[h].task].abortSet # Nil
             /\ \A b \in DOMAIN boundaries' :
                  \A i \in DOMAIN boundaries'[b].fallbackTasks :
                    Calls'[h].task # boundaries'[b].fallbackTasks[i]
  <2>1. CASE h \in Aborting \ {n}
    <3>1. /\ Calls'[h] = Calls[h] /\ Calls[h].task \in Live'
          /\ Calls[h].at = "abortSoft" => tasks[Calls[h].task].abortSet # Nil
      BY <1>2, <2>1 DEF AbortInv
    <3>2. ASSUME NEW b \in DOMAIN boundaries, NEW i \in DOMAIN boundaries'[b].fallbackTasks
          PROVE  Calls[h].task # boundaries'[b].fallbackTasks[i]
      BY <2>1 DEF AbortInv
    <3> QED BY <3>1, <3>2
  <2>2. CASE h \in (n + 1)..(n + Len(list))
    <3>1. PICK i \in DOMAIN list : Calls'[h] = [at |-> at, task |-> list[i]]
      BY <1>3, <2>2
    <3>2. Calls'[h].at = at /\ Calls'[h].task = list[i]
      BY <3>1
    <3> QED BY <3>2
  <2> QED BY <2>1, <2>2
<1>5. ASSUME NEW h \in Aborting', NEW g \in Aborting', Calls'[g].task = Calls'[h].task
      PROVE  g = h
  <2>1. CASE h \in Aborting \ {n} /\ g \in Aborting \ {n}
    BY <1>2, <1>5, <2>1 DEF AbortInv
  <2>2. CASE h \in Aborting \ {n} /\ g \in (n + 1)..(n + Len(list))
    <3>1. PICK i \in DOMAIN list : Calls'[g] = [at |-> at, task |-> list[i]]
      BY <1>3, <2>2
    <3>2. Calls'[g].task = list[i]
      BY <3>1
    <3> QED BY <1>2, <1>5, <2>2, <3>2
  <2>3. CASE g \in Aborting \ {n} /\ h \in (n + 1)..(n + Len(list))
    <3>1. PICK i \in DOMAIN list : Calls'[h] = [at |-> at, task |-> list[i]]
      BY <1>3, <2>3
    <3>2. Calls'[h].task = list[i]
      BY <3>1
    <3> QED BY <1>2, <1>5, <2>3, <3>2
  <2>4. CASE h \in (n + 1)..(n + Len(list)) /\ g \in (n + 1)..(n + Len(list))
    <3>1. PICK i \in DOMAIN list : /\ i = n + Len(list) + 1 - h
                                   /\ Calls'[h] = [at |-> at, task |-> list[i]]
      BY <1>3, <2>4
    <3>2. PICK j \in DOMAIN list : /\ j = n + Len(list) + 1 - g
                                   /\ Calls'[g] = [at |-> at, task |-> list[j]]
      BY <1>3, <2>4
    <3>3. Calls'[h].task = list[i] /\ Calls'[g].task = list[j]
      BY <3>1, <3>2
    <3>4. i = j
      BY <1>5, <3>3 DEF OneEach
    <3> QED BY <1>1, <2>4, <3>1, <3>2, <3>4
  <2> QED BY <2>1, <2>2, <2>3, <2>4
<1>6. ASSUME NEW b \in DOMAIN boundaries'
      PROVE  /\ OneEach(boundaries'[b].fallbackTasks)
             /\ \A i \in DOMAIN boundaries'[b].fallbackTasks :
                  /\ boundaries'[b].fallbackTasks[i] \in Live'
                  /\ tasks'[boundaries'[b].fallbackTasks[i]].abortSet = b
  BY DEF AbortInv, OneEach
<1>7. ASSUME Idle' \/ Calls'[1].at # "aborted"
      PROVE  /\ OneEach(pageRequest'.abortable)
             /\ \A i \in DOMAIN pageRequest'.abortable :
                  /\ pageRequest'.abortable[i] \in Live'
                  /\ tasks'[pageRequest'.abortable[i]].abortSet = Nil
  BY <1>7 DEF AbortInv
<1> QED BY <1>4, <1>5, <1>6, <1>7 DEF AbortInv

LEMMA TopOfTasks ==
  ASSUME stack' \in Seq(Frames), NEW n \in Nat \ {0},
         NEW frame \in {"counted", "aborted"}, NEW at \in {"abort", "abortSoft"},
         NEW list \in Seq(TaskNames), GetsTasks(n, frame, at, list)
  PROVE  ~Idle' /\ Top'.at \in {frame, at}
<1>1. Len(list) \in Nat
  OBVIOUS
<1>2. Height' = n + Len(list) /\ Height' \in Nat \ {0}
  BY <1>1 DEF GetsTasks
<1>3. ~Idle' /\ Top' = Calls'[Height']
  BY <1>2, TopIsNext
<1>4. CASE Height' = n
  BY <1>3, <1>4 DEF GetsTasks
<1>5. CASE Height' # n
  <2>1. Height' \in (n + 1)..(n + Len(list))
    BY <1>1, <1>2, <1>5
  <2>2. Calls'[Height'] = [at |-> at, task |-> list[n + Len(list) + 1 - Height']]
    BY <2>1 DEF GetsTasks
  <2> QED BY <1>3, <2>2
<1> QED BY <1>4, <1>5

LEMMA AbortKeeps ==
  ASSUME FizzInv, Abort
  PROVE  FizzInv'
<1> USE DEF FizzInv
<1>1. /\ Idle /\ stack' = EachTask("abort", pageRequest.abortable) \o Frame("aborted")
      /\ UNCHANGED <<page, pageRequest, segments, boundaries, tasks, suspended, client, delays>>
  BY DEF Abort
<1>2. pageRequest.abortable \in Seq(TaskNames)
  BY RequestIs
<1>2b. PICK list \in Seq(TaskNames) : list = pageRequest.abortable
  BY <1>2
<1>2c. PICK n \in Nat \ {0}, frame \in {"counted", "aborted"}, at \in {"abort", "abortSoft"} :
        n = 1 /\ frame = "aborted" /\ at = "abort"
  OBVIOUS
<1>3. GetsTasks(n, frame, at, list) /\ stack' \in Seq(Frames)
  BY <1>1, <1>2b, <1>2c, StackStartsTasks
<1>4. /\ Height = 0 /\ Renders = {} /\ Owed = {} /\ Aborting = {}
      /\ ~Performing /\ NextPinged = 1
  BY <1>1, AfterIdle DEF FizzTypes, Performing, NextPinged
<1>5. /\ Renders' = Renders \ {n} /\ Owed' = Owed \ {n}
      /\ Aborting' = (Aborting \ {n}) \cup ((n + 1)..(n + Len(list)))
      /\ ~Idle' /\ Calls'[1] = [at |-> "aborted"]
  BY <1>1, <1>2c, <1>3, AfterGetsTasks DEF FizzTypes
<1>6. Renders' = {} /\ Owed' = {} /\ ~Performing' /\ NextPinged' = 1
  BY <1>4, <1>5 DEF Performing, NextPinged
<1>7. Quiet /\ Live' = Live
  BY <1>1, <1>4, <1>6 DEF Quiet, Live
<1>8. RenderInv' /\ (\E R : OpenedInv(R))'
  BY <1>7, QuietKeeps
<1>9. FizzTypes' /\ NamesInv'
  BY <1>1, <1>3 DEF FizzTypes, NamesInv
<1>10. ShapeInv'
  BY <1>1, <1>2b, <1>2c, <1>3, <1>4, ShapeGetsTasks DEF FizzTypes
<1>11. PingInv'
  BY <1>1, <1>4, <1>6, <1>7, PingKept
<1>12. CountInv'
  BY <1>1, <1>4, <1>6, <1>7, CountSame
<1>13. AbortInv'
  <2>1. /\ OneEach(list)
        /\ \A i \in DOMAIN list :
             /\ list[i] \in Live
             /\ tasks[list[i]].abortSet = Nil
    BY <1>1, <1>2b DEF AbortInv
  <2>2. \A b \in DOMAIN boundaries : b # Nil
    BY FizzAssumption DEF NamesInv
  <2>3. \A b \in DOMAIN boundaries : \A i \in DOMAIN boundaries[b].fallbackTasks :
          /\ boundaries[b].fallbackTasks[i] \in Live
          /\ tasks[boundaries[b].fallbackTasks[i]].abortSet = b
    BY DEF AbortInv
  <2>4. \A b \in DOMAIN boundaries : \A i \in DOMAIN boundaries[b].fallbackTasks :
          \A j \in DOMAIN list :
            list[j] # boundaries[b].fallbackTasks[i]
    BY <2>1, <2>2, <2>3
  <2>5. Calls'[1].at = "aborted"
    BY <1>5
  <2>6. /\ Aborting \ {n} \subseteq 1..(n - 1)
        /\ \A h \in Aborting \ {n} : Calls[h].task \in Live'
        /\ at # "abortSoft" /\ tasks' = tasks /\ DOMAIN boundaries' = DOMAIN boundaries
    BY <1>1, <1>2c, <1>4
  <2>7. \A i \in DOMAIN list :
          /\ list[i] \in Live'
          /\ at = "abortSoft" => tasks[list[i]].abortSet # Nil
          /\ \A h \in Aborting \ {n} : Calls[h].task # list[i]
    BY <1>4, <1>7, <2>1, <2>6
  <2>8. \A b \in DOMAIN boundaries :
          /\ boundaries'[b].fallbackTasks = boundaries[b].fallbackTasks
          /\ \A i \in DOMAIN boundaries[b].fallbackTasks :
               /\ boundaries[b].fallbackTasks[i] \in Live'
               /\ \A j \in DOMAIN list : list[j] # boundaries[b].fallbackTasks[i]
    BY <1>1, <1>7, <2>3, <2>4
  <2>9. /\ n \in Nat \ {0} /\ at \in {"abort", "abortSoft"} /\ list \in Seq(TaskNames)
        /\ GetsTasks(n, frame, at, list)
        /\ Aborting' = (Aborting \ {n}) \cup ((n + 1)..(n + Len(list)))
    BY <1>2b, <1>2c, <1>3, <1>5
  <2>10. Idle' \/ Calls'[1].at # "aborted" =>
           /\ Idle \/ Calls[1].at # "aborted"
           /\ pageRequest'.abortable = pageRequest.abortable
           /\ \A i \in DOMAIN pageRequest.abortable : pageRequest.abortable[i] \in Live'
    BY <1>5, <2>5
  <2>11. \A b \in DOMAIN boundaries :
           \/ boundaries'[b].fallbackTasks = <<>>
           \/ /\ boundaries'[b].fallbackTasks = boundaries[b].fallbackTasks
              /\ \A i \in DOMAIN boundaries[b].fallbackTasks :
                   /\ boundaries[b].fallbackTasks[i] \in Live'
                   /\ \A j \in DOMAIN list : list[j] # boundaries[b].fallbackTasks[i]
    BY <2>8
  <2>12. OneEach(list)
    BY <2>1
  <2> QED BY ZenonT(60), <2>6, <2>7, <2>9, <2>10, <2>11, <2>12, AbortTakes
<1>14. PlaceInv'
  BY <1>2c, <1>3, TopOfTasks DEF PlaceInv
<1>15. DoneInv'
  BY <1>1, <1>5 DEF DoneInv
<1> QED BY <1>8, <1>9, <1>10, <1>11, <1>12, <1>13, <1>14, <1>15

\* A task ends: its segment is not pending any more.
LEMMA SegmentGets ==
  ASSUME FizzInv, NEW t \in DOMAIN tasks, NEW how \in Statuses, how # "pending",
         segments' = [segments EXCEPT ![t].status = how]
  PROVE  /\ DOMAIN segments' = DOMAIN segments
         /\ segments' \in [DOMAIN segments' -> SegmentRecords]
         /\ \A s \in DOMAIN segments : segments'[s].status = "pending" =>
              segments[s].status = "pending"
         /\ tasks' = tasks => Live' = Live \ {t}
<1>1. t \in DOMAIN segments /\ DOMAIN segments' = DOMAIN segments
  BY DEF FizzInv, NamesInv
<1>2. segments \in [DOMAIN segments -> SegmentRecords]
  BY DEF FizzInv, FizzTypes
<1>3. segments'[t].status = how /\ segments'[t] \in SegmentRecords
  BY <1>1, <1>2 DEF SegmentRecords
<1>4. \A s \in DOMAIN segments : s # t => segments'[s] = segments[s]
  OBVIOUS
<1>5. segments' \in [DOMAIN segments' -> SegmentRecords]
  BY <1>1, <1>2, <1>3, <1>4
<1>6. tasks' = tasks => Live' = Live \ {t}
  BY <1>1, <1>3, <1>4 DEF FizzInv, NamesInv, Live
<1> QED BY <1>1, <1>3, <1>4, <1>5, <1>6

LEMMA AbortRootTaskKeeps ==
  ASSUME FizzInv, AbortRootTask
  PROVE  FizzInv'
<1> USE DEF FizzInv
<1>1. /\ ~Idle /\ Top.at = "abort"
      /\ segments' = [segments EXCEPT ![Top.task].status = "aborted"]
      /\ pageRequest' = [pageRequest EXCEPT !.allPendingTasks = @ - 1, !.status = "closed"]
      /\ client' = Ended(client, "aborted")
      /\ Leave
      /\ UNCHANGED <<page, boundaries, tasks, suspended, delays>>
  BY DEF AbortRootTask, IsAt
<1>2. /\ pageRequest' \in RequestRecords
      /\ pageRequest'.pinged = pageRequest.pinged
      /\ pageRequest'.scheduled = pageRequest.scheduled
      /\ pageRequest'.status = "closed"
      /\ pageRequest'.allPendingTasks = pageRequest.allPendingTasks - 1
      /\ pageRequest'.partial = pageRequest.partial
      /\ pageRequest'.completed = pageRequest.completed
  <2>1. PICK n \in Int : n = pageRequest.allPendingTasks - 1
    BY RequestIs
  <2>2. pageRequest' = [pageRequest EXCEPT !.allPendingTasks = n, !.status = "closed"]
    BY <1>1, <2>1
  <2> QED BY <2>1, <2>2 DEF FizzTypes, RequestRecords
<1>3. /\ Height \in 1..Height /\ Top = Calls[Height] /\ Height \in Nat /\ Height > 1
      /\ Renders = {}
  BY <1>1, TopIs, OverBottom, NothingRenders DEF FizzTypes
<1>4. Height \notin Owed /\ Height \in Aborting /\ Calls[1].at = "aborted"
  BY <1>1, <1>3 DEF Owed, Aborting, ShapeInv
<1>5. PICK t \in Live : t = Top.task
  BY <1>3, <1>4 DEF AbortInv
<1>6. t \in DOMAIN tasks /\ segments' = [segments EXCEPT ![t].status = "aborted"]
  BY <1>1, <1>5 DEF Live
<1>7. /\ DOMAIN segments' = DOMAIN segments
      /\ segments' \in [DOMAIN segments' -> SegmentRecords]
      /\ \A s \in DOMAIN segments : segments'[s].status = "pending" =>
           segments[s].status = "pending"
      /\ Live' = Live \ {t}
  BY <1>1, <1>6, SegmentGets DEF Statuses
<1>8. Leaves /\ stack' \in Seq(Frames)
  BY <1>1, StackLeaves DEF FizzTypes
<1>9. /\ Renders' = {} /\ Owed' = Owed /\ Aborting' = Aborting \ {Height}
      /\ ~Idle' /\ Calls'[1] = Calls[1]
  BY <1>1, <1>3, <1>4, <1>8, AfterLeaves DEF FizzTypes
<1>10. Quiet
  BY <1>1, <1>3, <1>7, <1>9 DEF Quiet
<1>11. RenderInv' /\ (\E R : OpenedInv(R))'
  BY <1>10, QuietKeeps
<1>12. IsClient(client)'
  BY <1>1 DEF FizzTypes, IsClient, Ended
<1>13. FizzTypes'
  BY <1>1, <1>2, <1>7, <1>8, <1>12 DEF FizzTypes
<1>14. NamesInv'
  BY <1>1, <1>2, <1>10, QuietNames DEF NamesInv
<1>15. ShapeInv' /\ PlaceInv'
  BY <1>1, <1>8, ShapeLeaves, PlaceLeaves DEF FizzTypes
<1>16. PingInv'
  BY <1>1, <1>2, <1>3, <1>7, <1>9, BottomStays, PingKept DEF FizzTypes
<1>17. CountInv'
  BY <1>2, <1>7, <1>9, CountEnded DEF FizzTypes
<1>18. AbortInv'
  <2>1. \A h \in Aborting' : Calls'[h] = Calls[h] /\ h \in Aborting /\ h # Height
    BY <1>3, <1>8, <1>9 DEF Aborting, Leaves, Below
  <2>2. ASSUME NEW h \in Aborting'
        PROVE  Calls'[h].task # t
    <3>1. \A g \in Aborting : Calls[g].task = Calls[Height].task => g = Height
      BY <1>4 DEF AbortInv
    <3> QED BY <1>3, <1>5, <2>1, <3>1
  <2>3. \A b \in DOMAIN boundaries : \A i \in DOMAIN boundaries[b].fallbackTasks :
          boundaries[b].fallbackTasks[i] # t
    BY <1>3, <1>4, <1>5 DEF AbortInv
  <2>4. AbortsLess
    BY <1>1, <1>7, <1>9, <2>1, <2>2, <2>3 DEF AbortsLess, AbortInv
  <2>5. AbortableLess
    BY <1>4, <1>9 DEF AbortableLess
  <2> QED BY <2>4, <2>5, AbortKept
<1>19. DoneInv'
  BY <1>2 DEF DoneInv
<1> QED BY <1>11, <1>13, <1>14, <1>15, <1>16, <1>17, <1>18, <1>19

LEMMA AbortTaskSoftKeeps ==
  ASSUME FizzInv, AbortTaskSoft
  PROVE  FizzInv'
<1> USE DEF FizzInv
<1>1. /\ ~Idle /\ Top.at = "abortSoft"
      /\ segments' = [segments EXCEPT ![Top.task].status = "aborted"]
      /\ stack' = TaskFrame("finished", Top.task) \o Tail(stack)
      /\ UNCHANGED <<page, pageRequest, boundaries, tasks, suspended, client, delays>>
  BY DEF AbortTaskSoft, IsAt
<1>3. /\ Height \in 1..Height /\ Top = Calls[Height] /\ Height \in Nat /\ Height > 1
      /\ Renders = {}
  BY <1>1, TopIs, OverBottom, NothingRenders DEF FizzTypes
<1>4. Height \notin Owed /\ Height \in Aborting /\ Calls[1].at = "perform"
  BY <1>1, <1>3 DEF Owed, Aborting, ShapeInv
<1>5. PICK t \in Live : t = Top.task
  BY <1>3, <1>4 DEF AbortInv
<1>6. t \in DOMAIN tasks /\ segments' = [segments EXCEPT ![t].status = "aborted"]
      /\ t \in TaskNames /\ tasks[t].abortSet # Nil
  BY <1>1, <1>3, <1>4, <1>5 DEF Live, NamesInv, AbortInv
<1>7. /\ DOMAIN segments' = DOMAIN segments
      /\ segments' \in [DOMAIN segments' -> SegmentRecords]
      /\ \A s \in DOMAIN segments : segments'[s].status = "pending" =>
           segments[s].status = "pending"
      /\ Live' = Live \ {t}
  BY <1>1, <1>6, SegmentGets DEF Statuses
<1>8. PICK f \in Frames : f = [at |-> "finished", task |-> t]
  BY <1>6 DEF Frames, TaskFrames
<1>9. stack' = <<f>> \o Tail(stack)
  BY <1>1, <1>5, <1>8 DEF TaskFrame
<1>10. Becomes(f) /\ stack' \in Seq(Frames)
  BY <1>1, <1>9, StackBecomes DEF FizzTypes
<1>11. f.at = "finished"
  BY <1>8
<1>12. /\ Renders' = {} /\ Owed' = Owed \cup {Height} /\ Aborting' = Aborting \ {Height}
       /\ ~Idle' /\ Calls'[1] = Calls[1] /\ Top' = f
  BY <1>1, <1>3, <1>4, <1>10, <1>11, AfterBecomes DEF FizzTypes
<1>13. Quiet
  BY <1>1, <1>3, <1>7, <1>12 DEF Quiet
<1>14. RenderInv' /\ (\E R : OpenedInv(R))'
  BY <1>13, QuietKeeps
<1>15. FizzTypes'
  BY <1>1, <1>7, <1>10 DEF FizzTypes
<1>16. NamesInv'
  BY <1>1, <1>13, QuietNames DEF NamesInv
<1>17. ShapeInv'
  BY <1>3, <1>4, <1>10, <1>11, ShapeBecomes DEF FizzTypes
<1>18. PlaceInv' /\ DoneInv'
  BY <1>1, <1>6, <1>8, <1>12 DEF PlaceInv, DoneInv
<1>19. PingInv'
  BY <1>1, <1>3, <1>7, <1>12, BottomStays, PingKept DEF FizzTypes
<1>20. CountInv'
  BY <1>1, <1>4, <1>7, <1>12, CountOwed DEF FizzTypes
<1>21. AbortInv'
  <2>1. \A h \in Aborting' : Calls'[h] = Calls[h] /\ h \in Aborting /\ h # Height
    BY <1>3, <1>10, <1>12 DEF Aborting, Becomes, Below
  <2>2. ASSUME NEW h \in Aborting'
        PROVE  Calls'[h].task # t
    <3>1. \A g \in Aborting : Calls[g].task = Calls[Height].task => g = Height
      BY <1>4 DEF AbortInv
    <3> QED BY <1>3, <1>5, <2>1, <3>1
  <2>3. \A b \in DOMAIN boundaries : \A i \in DOMAIN boundaries[b].fallbackTasks :
          boundaries[b].fallbackTasks[i] # t
    BY <1>3, <1>4, <1>5 DEF AbortInv
  <2>4. AbortsLess
    BY <1>1, <1>7, <1>12, <2>1, <2>2, <2>3 DEF AbortsLess, AbortInv
  <2>5. AbortableLess
    BY <1>1, <1>4, <1>6, <1>7, <1>12 DEF AbortableLess, AbortInv
  <2> QED BY <2>4, <2>5, AbortKept
<1> QED BY <1>14, <1>15, <1>16, <1>17, <1>18, <1>19, <1>20, <1>21

\* A boundary that is given up may be put into the queue of those for the client.
LEMMA ForcedIs ==
  ASSUME FizzTypes, NEW b \in Boundaries, NEW bs, NEW req, req = Forced(pageRequest, b, bs)
  PROVE  /\ req \in RequestRecords
         /\ req.pinged = pageRequest.pinged
         /\ req.scheduled = pageRequest.scheduled
         /\ req.status = pageRequest.status
         /\ req.flowing = pageRequest.flowing
         /\ req.allPendingTasks = pageRequest.allPendingTasks
         /\ req.abortable = pageRequest.abortable
         /\ req.partial = pageRequest.partial
         /\ req.completed = pageRequest.completed
<1>1. CASE req = pageRequest
  BY <1>1 DEF FizzTypes
<1>2. CASE req = [pageRequest EXCEPT !.clientRendered = Append(@, b)]
  <2>1. PICK queue \in Seq(Boundaries) : queue = Append(pageRequest.clientRendered, b)
    BY RequestIs, AppendProperties
  <2>2. req = [pageRequest EXCEPT !.clientRendered = queue]
    BY <1>2, <2>1
  <2> QED BY <2>1, <2>2 DEF FizzTypes, RequestRecords
<1> QED BY <1>1, <1>2 DEF Forced

LEMMA AbortTaskKeeps ==
  ASSUME FizzInv, AbortTask
  PROVE  FizzInv'
<1> USE DEF FizzInv
<1>1. /\ ~Idle /\ Top.at = "abort"
      /\ segments' = [segments EXCEPT ![Top.task].status = "aborted"]
      /\ UNCHANGED <<page, tasks, suspended, client, delays>>
  BY DEF AbortTask, IsAt
<1>2. /\ Height \in 1..Height /\ Top = Calls[Height] /\ Height \in Nat /\ Height > 1
      /\ Renders = {} /\ stack \in Seq(Frames)
  BY <1>1, TopIs, OverBottom, NothingRenders DEF FizzTypes
<1>3. Height \notin Owed /\ Height \in Aborting /\ Calls[1].at = "aborted"
  BY <1>1, <1>2 DEF Owed, Aborting, ShapeInv
<1>4. PICK t \in Live : t = Top.task
  BY <1>2, <1>3 DEF AbortInv
<1>5. /\ t \in DOMAIN tasks /\ segments' = [segments EXCEPT ![t].status = "aborted"]
  BY <1>1, <1>4 DEF Live
<1>6. /\ DOMAIN segments' = DOMAIN segments
      /\ segments' \in [DOMAIN segments' -> SegmentRecords]
      /\ \A s \in DOMAIN segments : segments'[s].status = "pending" =>
           segments[s].status = "pending"
      /\ Live' = Live \ {t}
  BY <1>1, <1>5, SegmentGets DEF Statuses
<1>7. PICK b \in DOMAIN boundaries : b = tasks[t].boundary
  BY <1>4, <1>5 DEF AbortTask, NamesInv
<1>8. /\ pageRequest' = Forced(pageRequest, b, boundaries)
      /\ boundaries' = [boundaries EXCEPT ![b].pendingTasks = @ - 1,
                                          ![b].forceClientRender = TRUE,
                                          ![b].fallbackTasks = <<>>]
      /\ stack' = EachTask("abort", boundaries[b].fallbackTasks)
                    \o Frame("counted") \o Tail(stack)
  BY <1>4, <1>7 DEF AbortTask
<1>9. boundaries[b] \in BoundaryRecords /\ b \in Boundaries
  BY <1>7 DEF FizzTypes, NamesInv
<1>10. /\ DOMAIN boundaries' = DOMAIN boundaries
       /\ boundaries' \in [DOMAIN boundaries' -> BoundaryRecords]
       /\ \A d \in DOMAIN boundaries :
            /\ boundaries'[d].completedSegments = boundaries[d].completedSegments
            /\ d # b => boundaries'[d] = boundaries[d]
       /\ boundaries'[b].fallbackTasks = <<>>
  <2>1. PICK n \in Int : n = boundaries[b].pendingTasks - 1
    BY <1>9 DEF BoundaryRecords
  <2>2. <<>> \in Seq(TaskNames)
    OBVIOUS
  <2>3. PICK none \in Seq(TaskNames) : none = <<>>
    BY <2>2
  <2>4. PICK old \in BoundaryRecords : old = boundaries[b]
    BY <1>9
  <2>8. PICK record : record = [old EXCEPT !.pendingTasks = n, !.forceClientRender = TRUE,
                                           !.fallbackTasks = none]
    OBVIOUS
  <2>7. /\ record \in BoundaryRecords /\ record.fallbackTasks = none
        /\ record.completedSegments = boundaries[b].completedSegments
    BY <2>1, <2>3, <2>4, <2>8 DEF BoundaryRecords
  <2>5. boundaries' = [boundaries EXCEPT ![b] = record]
    BY <1>7, <1>8, <2>1, <2>3, <2>4, <2>8
  <2>6. boundaries \in [DOMAIN boundaries -> BoundaryRecords]
    BY DEF FizzTypes
  <2> QED BY <1>7, <2>3, <2>7, <2>5, <2>6
<1>11. PICK list \in Seq(TaskNames) : list = boundaries[b].fallbackTasks
  BY <1>9 DEF BoundaryRecords
<1>12. PICK n \in Nat \ {0}, frame \in {"counted", "aborted"}, at \in {"abort", "abortSoft"} :
         n = Height /\ frame = "counted" /\ at = "abort"
  BY <1>2
<1>13. GetsTasks(n, frame, at, list) /\ stack' \in Seq(Frames)
  BY <1>1, <1>2, <1>8, <1>11, <1>12, StackGetsTasks
<1>14. /\ Renders' = {} /\ Owed' = Owed \cup {Height}
       /\ Aborting' = (Aborting \ {n}) \cup ((n + 1)..(n + Len(list)))
       /\ ~Idle' /\ Calls'[1] = Calls[1] /\ Top'.at \in {"counted", "abort"}
  BY <1>2, <1>3, <1>11, <1>12, <1>13, AfterGetsTasks, TopOfTasks
<1>15. Quiet
  BY <1>1, <1>2, <1>6, <1>10, <1>14 DEF Quiet
<1>16. RenderInv' /\ (\E R : OpenedInv(R))'
  BY <1>15, QuietKeeps
<1>17. /\ pageRequest' \in RequestRecords
       /\ pageRequest'.pinged = pageRequest.pinged
       /\ pageRequest'.scheduled = pageRequest.scheduled
       /\ pageRequest'.status = pageRequest.status
       /\ pageRequest'.allPendingTasks = pageRequest.allPendingTasks
       /\ pageRequest'.partial = pageRequest.partial
       /\ pageRequest'.completed = pageRequest.completed
  BY <1>8, <1>9, ForcedIs
<1>18. FizzTypes'
  BY <1>1, <1>6, <1>10, <1>13, <1>17 DEF FizzTypes
<1>19. NamesInv'
  BY <1>10, <1>15, <1>17, QuietNames DEF NamesInv
<1>20. ShapeInv'
  BY <1>2, <1>3, <1>11, <1>12, <1>13, ShapeGetsTasks
<1>21. PlaceInv' /\ DoneInv'
  BY <1>1, <1>14, <1>17 DEF PlaceInv, DoneInv
<1>22. PingInv'
  BY <1>1, <1>2, <1>6, <1>14, <1>17, BottomStays, PingKept
<1>23. CountInv'
  BY <1>2, <1>3, <1>6, <1>14, <1>17, CountOwed
<1>24. AbortInv'
  <2>1. /\ OneEach(list)
        /\ \A i \in DOMAIN list :
             /\ list[i] \in Live /\ tasks[list[i]].abortSet = b
             /\ \A h \in Aborting : Calls[h].task # list[i]
    BY <1>7, <1>11 DEF AbortInv
  <2>2. \A g \in Aborting : g # Height => Calls[g].task # t /\ Calls[g].task \in Live
    BY <1>2, <1>3, <1>4 DEF AbortInv
  <2>3. Aborting \ {n} \subseteq 1..(n - 1)
    BY <1>2, <1>12 DEF Aborting
  <2>4. \A h \in Aborting \ {n} : Calls[h].task \in Live'
    BY <1>6, <1>12, <2>2
  <2>5. \A i \in DOMAIN list :
          /\ list[i] \in Live'
          /\ at = "abortSoft" => tasks[list[i]].abortSet # Nil
          /\ \A h \in Aborting \ {n} : Calls[h].task # list[i]
    BY <1>2, <1>3, <1>4, <1>6, <1>12, <2>1
  <2>6. ASSUME NEW d \in DOMAIN boundaries
        PROVE  \/ boundaries'[d].fallbackTasks = <<>>
               \/ /\ boundaries'[d].fallbackTasks = boundaries[d].fallbackTasks
                  /\ \A i \in DOMAIN boundaries[d].fallbackTasks :
                       /\ boundaries[d].fallbackTasks[i] \in Live'
                       /\ \A j \in DOMAIN list : list[j] # boundaries[d].fallbackTasks[i]
    <3>1. CASE d = b
      BY <1>10, <3>1
    <3>2. CASE d # b
      BY <1>2, <1>3, <1>4, <1>6, <1>10, <2>1, <3>2 DEF AbortInv
    <3> QED BY <3>1, <3>2
  <2>7. /\ n \in Nat \ {0} /\ at \in {"abort", "abortSoft"} /\ list \in Seq(TaskNames)
        /\ GetsTasks(n, frame, at, list)
        /\ Aborting' = (Aborting \ {n}) \cup ((n + 1)..(n + Len(list)))
        /\ tasks' = tasks /\ DOMAIN boundaries' = DOMAIN boundaries
    BY <1>1, <1>10, <1>11, <1>12, <1>13, <1>14
  <2>8. Idle' \/ Calls'[1].at # "aborted" =>
          /\ Idle \/ Calls[1].at # "aborted"
          /\ pageRequest'.abortable = pageRequest.abortable
          /\ \A i \in DOMAIN pageRequest.abortable : pageRequest.abortable[i] \in Live'
    BY <1>3, <1>14
  <2>9. OneEach(list)
    BY <2>1
  <2> QED BY ZenonT(60), <2>3, <2>4, <2>5, <2>6, <2>7, <2>8, <2>9, AbortTakes
<1> QED BY <1>16, <1>18, <1>19, <1>20, <1>21, <1>22, <1>23, <1>24

\* Completed segments are put into the queue of their boundary: segments of the
\* table, and no segment changes its status.
LEMMA QueuedIs ==
  ASSUME NEW segs, NEW bs, NEW b, NEW s, NEW q, q = QueueCompleted(b, s, segs, bs),
         segs \in [DOMAIN segs -> SegmentRecords], IsFiniteSet(DOMAIN segs),
         DOMAIN segs \subseteq SegmentNames, s \in DOMAIN segs,
         bs \in [DOMAIN bs -> BoundaryRecords], b \in DOMAIN bs
  PROVE  /\ q[1] \in [DOMAIN segs -> SegmentRecords]
         /\ \A x \in DOMAIN segs : q[1][x].status = segs[x].status
         /\ DOMAIN q[2] = DOMAIN bs /\ q[2] \in [DOMAIN bs -> BoundaryRecords]
         /\ \A d \in DOMAIN bs :
              /\ q[2][d].pendingTasks = bs[d].pendingTasks
              /\ q[2][d].forceClientRender = bs[d].forceClientRender
              /\ q[2][d].fallbackTasks = bs[d].fallbackTasks
              /\ q[2][d].parentFlushed = bs[d].parentFlushed
              /\ \A i \in DOMAIN q[2][d].completedSegments :
                   \/ q[2][d].completedSegments[i] \in DOMAIN segs
                   \/ \E j \in DOMAIN bs[d].completedSegments :
                        bs[d].completedSegments[j] = q[2][d].completedSegments[i]
<1> DEFINE D == DOMAIN segs
<1> HIDE DEF D
<1>1. /\ DOMAIN segs = D /\ segs \in [D -> SegmentRecords] /\ IsFiniteSet(D)
      /\ D \subseteq SegmentNames /\ s \in D
  BY DEF D
<1> DEFINE inner == CHOOSE inner : inner = [x \in DOMAIN segs |-> {x} \cup
             UNION {IF segs[c].status = "completed" THEN inner[c] ELSE {c} :
                      c \in StandsFor(segs, x)}]
<1>15. PICK in : in = inner[s]
  OBVIOUS
<1>16. PICK moved : moved = in \ {s}
  OBVIOUS
<1>17. PICK queued : queued = {x \in DOMAIN segs : /\ x \in in
                                                   /\ StandsFor(segs, x) = {}
                                                   /\ x = s \/ segs[x].status = "completed"}
  OBVIOUS
<1>2. /\ queued \subseteq D
      /\ q[1] = [x \in DOMAIN segs |-> IF x \in moved
                   THEN [segs[x] EXCEPT !.id = segs[s].id, !.parentFlushed = TRUE] ELSE segs[x]]
      /\ q[2] = [bs EXCEPT ![b].completedSegments = @ \o SetToSeq(queued)]
  BY <1>1, <1>15, <1>16, <1>17 DEF QueueCompleted
<1> HIDE DEF inner
<1>3. /\ q[1] \in [D -> SegmentRecords]
      /\ \A x \in D : q[1][x].status = segs[x].status
  <2>1. ASSUME NEW x \in D
        PROVE  q[1][x] \in SegmentRecords /\ q[1][x].status = segs[x].status
    <3>1. PICK id \in SegmentNames \cup {Nil} : id = segs[s].id
      BY <1>1 DEF SegmentRecords
    <3>2. PICK old \in SegmentRecords : old = segs[x]
      BY <1>1
    <3>3. q[1][x] = old \/ q[1][x] = [old EXCEPT !.id = id, !.parentFlushed = TRUE]
      BY <1>1, <1>2, <3>1, <3>2
    <3>4. PICK new : new = [old EXCEPT !.id = id, !.parentFlushed = TRUE]
      OBVIOUS
    <3>5. new \in SegmentRecords /\ new.status = old.status
      BY <3>1, <3>2, <3>4 DEF SegmentRecords
    <3> QED BY <3>2, <3>3, <3>4, <3>5
  <2>2. q[1] = [x \in D |-> q[1][x]]
    BY <1>1, <1>2
  <2> QED BY <2>1, <2>2
<1>4. PICK list \in Seq(D) : list = SetToSeq(queued)
  BY <1>1, <1>2, FS_Subset, SetToSeqIs, SeqMonotonic
<1>5. bs[b] \in BoundaryRecords
  OBVIOUS
<1>6. PICK old \in BoundaryRecords : old = bs[b]
  BY <1>5
<1>7. PICK before \in Seq(SegmentNames) : before = old.completedSegments
  BY <1>6 DEF BoundaryRecords
<1>8. PICK after \in Seq(SegmentNames) :
        /\ after = before \o list
        /\ \A i \in DOMAIN after :
             after[i] \in D \/ \E j \in DOMAIN before : before[j] = after[i]
  <2>1. list \in Seq(SegmentNames) /\ before \in Seq(SegmentNames) /\ list \in Seq(D)
    BY <1>1, <1>4, <1>7, SeqMonotonic
  <2>2. /\ before \o list \in Seq(SegmentNames)
        /\ Len(before \o list) = Len(before) + Len(list)
        /\ \A i \in 1..(Len(before) + Len(list)) :
             (before \o list)[i] = IF i <= Len(before) THEN before[i] ELSE list[i - Len(before)]
    BY <2>1, ConcatProperties
  <2>3. PICK after \in Seq(SegmentNames) : after = before \o list
    BY <2>2
  <2>4. /\ Len(before) \in Nat /\ DOMAIN before = 1..Len(before)
        /\ Len(list) \in Nat /\ \A i \in 1..Len(list) : list[i] \in D
        /\ DOMAIN after = 1..(Len(before) + Len(list))
        /\ \A i \in 1..(Len(before) + Len(list)) :
             after[i] = IF i <= Len(before) THEN before[i] ELSE list[i - Len(before)]
    BY <2>1, <2>2, <2>3
  <2>5. ASSUME NEW i \in DOMAIN after
        PROVE  after[i] \in D \/ \E j \in DOMAIN before : before[j] = after[i]
    <3>1. CASE i <= Len(before)
      BY <2>4, <3>1
    <3>2. CASE ~(i <= Len(before))
      <4>1. i - Len(before) \in 1..Len(list) /\ after[i] = list[i - Len(before)]
        BY ONLY <2>4, <3>2, i \in DOMAIN after
      <4> QED BY <2>4, <4>1, Zenon
    <3> QED BY <3>1, <3>2
  <2> QED BY <2>3, <2>5
<1>9. PICK new : new = [old EXCEPT !.completedSegments = after]
  OBVIOUS
<1>10. /\ new \in BoundaryRecords /\ new.completedSegments = after
       /\ new.pendingTasks = old.pendingTasks
       /\ new.forceClientRender = old.forceClientRender
       /\ new.fallbackTasks = old.fallbackTasks /\ new.parentFlushed = old.parentFlushed
  BY <1>6, <1>8, <1>9 DEF BoundaryRecords
<1>11. q[2] = [bs EXCEPT ![b] = new]
  BY <1>2, <1>4, <1>6, <1>7, <1>8, <1>9
<1>12. /\ DOMAIN q[2] = DOMAIN bs /\ q[2][b] = new
       /\ \A d \in DOMAIN bs : d # b => q[2][d] = bs[d]
  BY <1>11
<1>13. q[2] \in [DOMAIN bs -> BoundaryRecords]
  BY <1>10, <1>11
<1>14. ASSUME NEW d \in DOMAIN bs
       PROVE  /\ q[2][d].pendingTasks = bs[d].pendingTasks
              /\ q[2][d].forceClientRender = bs[d].forceClientRender
              /\ q[2][d].fallbackTasks = bs[d].fallbackTasks
              /\ q[2][d].parentFlushed = bs[d].parentFlushed
              /\ \A i \in DOMAIN q[2][d].completedSegments :
                   \/ q[2][d].completedSegments[i] \in D
                   \/ \E j \in DOMAIN bs[d].completedSegments :
                        bs[d].completedSegments[j] = q[2][d].completedSegments[i]
  <2>1. CASE d = b
    <3>1. q[2][d] = new /\ bs[d] = old
      BY <1>6, <1>12, <2>1
    <3>2. q[2][d].completedSegments = after /\ bs[d].completedSegments = before
      BY <1>7, <1>10, <3>1
    <3> QED BY ZenonT(60), <1>8, <1>10, <3>1, <3>2
  <2>2. CASE d # b
    BY <1>12, <2>2
  <2> QED BY <2>1, <2>2
<1> QED BY <1>1, <1>3, <1>12, <1>13, <1>14

\* A list of boundaries gets one more.
LEMMA QueueGets ==
  ASSUME FizzTypes, NEW b \in Boundaries, NEW req,
         \/ req = [pageRequest EXCEPT !.completed = Append(@, b)]
         \/ req = [pageRequest EXCEPT !.partial = Append(@, b)]
         \/ req = pageRequest
  PROVE  /\ req \in RequestRecords
         /\ req.pinged = pageRequest.pinged
         /\ req.scheduled = pageRequest.scheduled
         /\ req.status = pageRequest.status
         /\ req.allPendingTasks = pageRequest.allPendingTasks
         /\ req.abortable = pageRequest.abortable
         /\ \A i \in DOMAIN req.partial :
              \/ req.partial[i] = b
              \/ \E j \in DOMAIN pageRequest.partial : pageRequest.partial[j] = req.partial[i]
         /\ \A i \in DOMAIN req.completed :
              \/ req.completed[i] = b
              \/ \E j \in DOMAIN pageRequest.completed :
                   pageRequest.completed[j] = req.completed[i]
<1>1. CASE req = pageRequest
  BY <1>1 DEF FizzTypes
<1>2. CASE req = [pageRequest EXCEPT !.completed = Append(@, b)]
  <2>1. PICK before \in Seq(Boundaries) : before = pageRequest.completed
    BY RequestIs
  <2>2. PICK queue \in Seq(Boundaries) :
          /\ queue = Append(before, b)
          /\ \A i \in DOMAIN queue :
               queue[i] = b \/ \E j \in DOMAIN before : before[j] = queue[i]
    <3>1. /\ Append(before, b) \in Seq(Boundaries)
          /\ Len(Append(before, b)) = Len(before) + 1
          /\ \A i \in 1..Len(before) : Append(before, b)[i] = before[i]
          /\ Append(before, b)[Len(before) + 1] = b
      BY <2>1, AppendProperties
    <3>2. PICK queue \in Seq(Boundaries) : queue = Append(before, b)
      BY <3>1
    <3>3. DOMAIN queue = 1..(Len(before) + 1) /\ Len(before) \in Nat
          /\ DOMAIN before = 1..Len(before)
      BY <2>1, <3>1, <3>2
    <3> QED BY <3>1, <3>2, <3>3
  <2>3. req = [pageRequest EXCEPT !.completed = queue]
    BY <1>2, <2>1, <2>2
  <2>4. /\ req \in RequestRecords
        /\ req.pinged = pageRequest.pinged
        /\ req.scheduled = pageRequest.scheduled
        /\ req.status = pageRequest.status
        /\ req.allPendingTasks = pageRequest.allPendingTasks
        /\ req.abortable = pageRequest.abortable
        /\ req.completed = queue /\ req.partial = pageRequest.partial
    BY <2>2, <2>3 DEF FizzTypes, RequestRecords
  <2> QED BY <2>1, <2>2, <2>4
<1>3. CASE req = [pageRequest EXCEPT !.partial = Append(@, b)]
  <2>1. PICK before \in Seq(Boundaries) : before = pageRequest.partial
    BY RequestIs
  <2>2. PICK queue \in Seq(Boundaries) :
          /\ queue = Append(before, b)
          /\ \A i \in DOMAIN queue :
               queue[i] = b \/ \E j \in DOMAIN before : before[j] = queue[i]
    <3>1. /\ Append(before, b) \in Seq(Boundaries)
          /\ Len(Append(before, b)) = Len(before) + 1
          /\ \A i \in 1..Len(before) : Append(before, b)[i] = before[i]
          /\ Append(before, b)[Len(before) + 1] = b
      BY <2>1, AppendProperties
    <3>2. PICK queue \in Seq(Boundaries) : queue = Append(before, b)
      BY <3>1
    <3>3. DOMAIN queue = 1..(Len(before) + 1) /\ Len(before) \in Nat
          /\ DOMAIN before = 1..Len(before)
      BY <2>1, <3>1, <3>2
    <3> QED BY <3>1, <3>2, <3>3
  <2>3. req = [pageRequest EXCEPT !.partial = queue]
    BY <1>3, <2>1, <2>2
  <2>4. /\ req \in RequestRecords
        /\ req.pinged = pageRequest.pinged
        /\ req.scheduled = pageRequest.scheduled
        /\ req.status = pageRequest.status
        /\ req.allPendingTasks = pageRequest.allPendingTasks
        /\ req.abortable = pageRequest.abortable
        /\ req.partial = queue /\ req.completed = pageRequest.completed
    BY <2>2, <2>3 DEF FizzTypes, RequestRecords
  <2> QED BY <2>1, <2>2, <2>4
<1> QED BY <1>1, <1>2, <1>3

LEMMA FinishedTaskKeeps ==
  ASSUME FizzInv, FinishedTask
  PROVE  FizzInv'
<1> USE DEF FizzInv
<1>1. /\ ~Idle /\ Top.at = "finished"
      /\ UNCHANGED <<page, tasks, suspended, client, delays>>
  BY DEF FinishedTask, IsAt
<1>2. /\ Height \in 1..Height /\ Top = Calls[Height] /\ Height \in Nat /\ Height > 1
      /\ Renders = {} /\ stack \in Seq(Frames)
  BY <1>1, TopIs, OverBottom, NothingRenders DEF FizzTypes
<1>3. Height \in Owed /\ Height \notin Aborting /\ Calls[1].at = "perform"
  BY <1>1, <1>2 DEF Owed, Aborting, ShapeInv
<1>4. PICK t \in DOMAIN tasks : t = Top.task
  BY <1>1 DEF PlaceInv
<1>5. PICK b \in DOMAIN boundaries : b = tasks[t].boundary
  BY <1>4 DEF FinishedTask, NamesInv
<1>6. /\ b \in Boundaries /\ boundaries[b] \in BoundaryRecords /\ t \in DOMAIN segments
      /\ segments \in [DOMAIN segments -> SegmentRecords] /\ segments[t] \in SegmentRecords
      /\ boundaries \in [DOMAIN boundaries -> BoundaryRecords]
      /\ IsFiniteSet(DOMAIN segments) /\ DOMAIN segments \subseteq SegmentNames
  BY <1>4, <1>5 DEF FizzTypes, NamesInv
<1>7. PICK less : less = [boundaries EXCEPT ![b].pendingTasks = @ - 1]
  OBVIOUS
<1>8. PICK isQueued \in BOOLEAN :
        isQueued = (segments[t].parentFlushed /\ segments[t].status = "completed")
  OBVIOUS
<1>9. PICK queued : queued = IF isQueued THEN QueueCompleted(b, t, segments, less)
                             ELSE <<segments, less>>
  OBVIOUS
<1>10. IF boundaries[b].forceClientRender
       THEN /\ boundaries' = less
            /\ stack' = Frame("counted") \o Tail(stack)
            /\ UNCHANGED <<pageRequest, segments>>
       ELSE IF less[b].pendingTasks = 0 THEN LastOfBoundary(b, queued)
       ELSE OneOfBoundary(b, queued, isQueued)
  BY <1>4, <1>5, <1>7, <1>8, <1>9 DEF FinishedTask, LastOfBoundary, OneOfBoundary
<1>11. /\ DOMAIN less = DOMAIN boundaries /\ less \in [DOMAIN less -> BoundaryRecords]
       /\ \A d \in DOMAIN boundaries :
            /\ less[d].fallbackTasks = boundaries[d].fallbackTasks
            /\ less[d].completedSegments = boundaries[d].completedSegments
  <2>1. PICK n \in Int : n = boundaries[b].pendingTasks - 1
    BY <1>6 DEF BoundaryRecords
  <2>2. PICK old \in BoundaryRecords : old = boundaries[b]
    BY <1>6
  <2>3. PICK record : record = [old EXCEPT !.pendingTasks = n]
    OBVIOUS
  <2>4. /\ record \in BoundaryRecords /\ record.fallbackTasks = old.fallbackTasks
        /\ record.completedSegments = old.completedSegments
    BY <2>1, <2>2, <2>3 DEF BoundaryRecords
  <2>5. less = [boundaries EXCEPT ![b] = record]
    BY <1>5, <1>7, <2>1, <2>2, <2>3
  <2> QED BY <1>5, <1>6, <2>2, <2>4, <2>5
<1>12. /\ queued[1] \in [DOMAIN segments -> SegmentRecords]
       /\ \A x \in DOMAIN segments : queued[1][x].status = segments[x].status
       /\ DOMAIN queued[2] = DOMAIN boundaries
       /\ queued[2] \in [DOMAIN boundaries -> BoundaryRecords]
       /\ \A d \in DOMAIN boundaries :
            /\ queued[2][d].fallbackTasks = boundaries[d].fallbackTasks
            /\ \A i \in DOMAIN queued[2][d].completedSegments :
                 queued[2][d].completedSegments[i] \in DOMAIN segments
  <2>1. \A d \in DOMAIN boundaries : \A i \in DOMAIN less[d].completedSegments :
          less[d].completedSegments[i] \in DOMAIN segments
    BY <1>11 DEF NamesInv
  <2>2. CASE isQueued
    <3>1. queued = QueueCompleted(b, t, segments, less)
      BY <1>9, <2>2
    <3>2. /\ queued[1] \in [DOMAIN segments -> SegmentRecords]
          /\ \A x \in DOMAIN segments : queued[1][x].status = segments[x].status
          /\ DOMAIN queued[2] = DOMAIN less
          /\ queued[2] \in [DOMAIN less -> BoundaryRecords]
          /\ \A d \in DOMAIN less :
               /\ queued[2][d].fallbackTasks = less[d].fallbackTasks
               /\ \A i \in DOMAIN queued[2][d].completedSegments :
                    \/ queued[2][d].completedSegments[i] \in DOMAIN segments
                    \/ \E j \in DOMAIN less[d].completedSegments :
                         less[d].completedSegments[j] = queued[2][d].completedSegments[i]
      <4>1. b \in DOMAIN less /\ less \in [DOMAIN less -> BoundaryRecords]
        BY <1>5, <1>11
      <4>2. PICK segs : segs = segments
        OBVIOUS
      <4>3. /\ IsFiniteSet(DOMAIN segs) /\ DOMAIN segs \subseteq SegmentNames
            /\ segs \in [DOMAIN segs -> SegmentRecords] /\ t \in DOMAIN segs
            /\ queued = QueueCompleted(b, t, segs, less)
        BY <1>6, <3>1, <4>2
      <4> QED BY SMTT(30), <4>1, <4>2, <4>3, QueuedIs
    <3> QED BY <1>11, <2>1, <3>2
  <2>3. CASE ~isQueued
    BY <1>6, <1>9, <1>11, <2>1, <2>3
  <2> QED BY <2>2, <2>3
<1>13. PICK frame \in Frames : frame = [at |-> "counted"]
  BY DEF Frames, PlainFrames
<1>14. /\ segments' \in [DOMAIN segments' -> SegmentRecords]
       /\ DOMAIN segments' = DOMAIN segments
       /\ \A x \in DOMAIN segments : segments'[x].status = segments[x].status
       /\ boundaries' \in [DOMAIN boundaries' -> BoundaryRecords]
       /\ DOMAIN boundaries' = DOMAIN boundaries
       /\ \A d \in DOMAIN boundaries :
            /\ boundaries'[d].fallbackTasks \in {<<>>, boundaries[d].fallbackTasks}
            /\ \A i \in DOMAIN boundaries'[d].completedSegments :
                 boundaries'[d].completedSegments[i] \in DOMAIN segments
       /\ pageRequest' \in RequestRecords
       /\ pageRequest'.pinged = pageRequest.pinged
       /\ pageRequest'.scheduled = pageRequest.scheduled
       /\ pageRequest'.status = pageRequest.status
       /\ pageRequest'.allPendingTasks = pageRequest.allPendingTasks
       /\ pageRequest'.abortable = pageRequest.abortable
       /\ \A i \in DOMAIN pageRequest'.partial : pageRequest'.partial[i] \in DOMAIN boundaries
       /\ \A i \in DOMAIN pageRequest'.completed :
            pageRequest'.completed[i] \in DOMAIN boundaries
  <2>0. /\ \A i \in DOMAIN pageRequest.partial : pageRequest.partial[i] \in DOMAIN boundaries
        /\ \A i \in DOMAIN pageRequest.completed :
             pageRequest.completed[i] \in DOMAIN boundaries
    BY DEF NamesInv
  <2>1. CASE boundaries[b].forceClientRender
    BY <1>6, <1>10, <1>11, <2>0, <2>1 DEF NamesInv, FizzTypes
  <2>2. CASE ~boundaries[b].forceClientRender /\ less[b].pendingTasks = 0
    <3>1. /\ segments' = queued[1]
          /\ boundaries' = [queued[2] EXCEPT ![b].fallbackTasks = <<>>]
          /\ pageRequest' = IF boundaries[b].parentFlushed
                THEN [pageRequest EXCEPT !.completed = Append(@, b)] ELSE pageRequest
      BY <1>10, <2>2 DEF LastOfBoundary
    <3>2. <<>> \in Seq(TaskNames)
      OBVIOUS
    <3>3. PICK none \in Seq(TaskNames) : none = <<>>
      BY <3>2
    <3>4. PICK old \in BoundaryRecords : old = queued[2][b]
      BY <1>5, <1>12
    <3>5. PICK record : record = [old EXCEPT !.fallbackTasks = none]
      OBVIOUS
    <3>6. /\ record \in BoundaryRecords /\ record.fallbackTasks = none
          /\ record.completedSegments = old.completedSegments
      BY <3>3, <3>4, <3>5 DEF BoundaryRecords
    <3>7. boundaries' = [queued[2] EXCEPT ![b] = record]
      BY <1>5, <1>12, <3>1, <3>3, <3>4, <3>5
    <3>8. /\ DOMAIN boundaries' = DOMAIN boundaries /\ boundaries'[b] = record
          /\ boundaries' \in [DOMAIN boundaries -> BoundaryRecords]
          /\ \A d \in DOMAIN boundaries : d # b => boundaries'[d] = queued[2][d]
      BY <1>5, <1>12, <3>6, <3>7
    <3>9. ASSUME NEW d \in DOMAIN boundaries
          PROVE  /\ boundaries'[d].fallbackTasks \in {<<>>, boundaries[d].fallbackTasks}
                 /\ \A i \in DOMAIN boundaries'[d].completedSegments :
                      boundaries'[d].completedSegments[i] \in DOMAIN segments
      BY <1>5, <1>12, <3>3, <3>4, <3>6, <3>8
    <3>10. /\ pageRequest' \in RequestRecords
           /\ pageRequest'.pinged = pageRequest.pinged
           /\ pageRequest'.scheduled = pageRequest.scheduled
           /\ pageRequest'.status = pageRequest.status
           /\ pageRequest'.allPendingTasks = pageRequest.allPendingTasks
           /\ pageRequest'.abortable = pageRequest.abortable
           /\ \A i \in DOMAIN pageRequest'.partial :
                \/ pageRequest'.partial[i] = b
                \/ \E j \in DOMAIN pageRequest.partial :
                     pageRequest.partial[j] = pageRequest'.partial[i]
           /\ \A i \in DOMAIN pageRequest'.completed :
                \/ pageRequest'.completed[i] = b
                \/ \E j \in DOMAIN pageRequest.completed :
                     pageRequest.completed[j] = pageRequest'.completed[i]
      BY <1>6, <3>1, QueueGets
    <3>11. /\ segments' \in [DOMAIN segments' -> SegmentRecords]
           /\ DOMAIN segments' = DOMAIN segments
           /\ \A x \in DOMAIN segments : segments'[x].status = segments[x].status
      BY <1>12, <3>1
    <3>12. /\ \A i \in DOMAIN pageRequest'.partial :
                pageRequest'.partial[i] \in DOMAIN boundaries
           /\ \A i \in DOMAIN pageRequest'.completed :
                pageRequest'.completed[i] \in DOMAIN boundaries
      BY <1>5, <2>0, <3>10
    <3> QED BY <3>8, <3>9, <3>10, <3>11, <3>12
  <2>3. CASE ~boundaries[b].forceClientRender /\ less[b].pendingTasks # 0
    BY <1>5, <1>6, <1>10, <1>12, <2>0, <2>3, QueueGets DEF OneOfBoundary
  <2> QED BY <2>1, <2>2, <2>3
<1>15. Live' = Live
  BY <1>1, <1>14 DEF Live, NamesInv
<1>16. /\ stack' \in Seq(Frames) /\ ShapeInv' /\ ~Idle' /\ Calls'[1] = Calls[1]
       /\ Renders' = {} /\ Owed' = Owed /\ PlaceInv' /\ AbortInv'
  <2>1. CASE ~boundaries[b].forceClientRender /\ less[b].pendingTasks = 0
    <3>1. PICK list \in Seq(TaskNames) : list = boundaries[b].fallbackTasks
      BY <1>6 DEF BoundaryRecords
    <3>2. stack' = EachTask("abortSoft", list) \o Frame("counted") \o Tail(stack)
      BY <1>10, <2>1, <3>1 DEF LastOfBoundary
    <3>3. PICK n \in Nat \ {0}, fr \in {"counted", "aborted"}, at \in {"abort", "abortSoft"} :
            n = Height /\ fr = "counted" /\ at = "abortSoft"
      BY <1>2
    <3>4. GetsTasks(n, fr, at, list) /\ stack' \in Seq(Frames)
      BY <1>1, <1>2, <3>1, <3>2, <3>3, StackGetsTasks
    <3>5. /\ Renders' = {} /\ Owed' = Owed
          /\ Aborting' = (Aborting \ {n}) \cup ((n + 1)..(n + Len(list)))
          /\ ~Idle' /\ Calls'[1] = Calls[1] /\ Top'.at \in {"counted", "abortSoft"}
      <4>1. n = Height \/ (Idle /\ n = 1)
        BY <3>3
      <4>2. /\ Renders' = Renders \ {n}
            /\ Owed' = (Owed \ {n}) \cup (IF fr = "counted" THEN {n} ELSE {})
            /\ Aborting' = (Aborting \ {n}) \cup ((n + 1)..(n + Len(list)))
            /\ ~Idle' /\ (n > 1 => Calls'[1] = Calls[1])
        BY <1>2, <3>1, <3>3, <3>4, <4>1, AfterGetsTasks
      <4>3. Top'.at \in {fr, at}
        BY <3>1, <3>3, <3>4, TopOfTasks
      <4> QED BY <1>2, <1>3, <3>3, <4>2, <4>3
    <3>6. ShapeInv'
      BY <1>2, <1>3, <3>1, <3>3, <3>4, ShapeGetsTasks
    <3>7. PlaceInv'
      BY <3>5 DEF PlaceInv
    <3>8. AbortInv'
      <4>0. b # Nil
        BY <1>6, FizzAssumption
      <4>1. /\ OneEach(list)
            /\ \A i \in DOMAIN list :
                 /\ list[i] \in Live /\ tasks[list[i]].abortSet = b
                 /\ \A h \in Aborting : Calls[h].task # list[i]
        BY <1>5, <3>1 DEF AbortInv
      <4>2. Aborting \ {n} = Aborting /\ Aborting \subseteq 1..(n - 1)
        BY <1>2, <1>3, <3>3 DEF Aborting
      <4>3. \A h \in Aborting \ {n} : Calls[h].task \in Live'
        BY <1>15 DEF AbortInv
      <4>4. \A i \in DOMAIN list :
              /\ list[i] \in Live'
              /\ at = "abortSoft" => tasks[list[i]].abortSet # Nil
              /\ \A h \in Aborting \ {n} : Calls[h].task # list[i]
        BY <1>15, <4>0, <4>1
      <4>5. /\ boundaries'[b].fallbackTasks = <<>>
            /\ \A d \in DOMAIN boundaries : d # b =>
                 boundaries'[d].fallbackTasks = boundaries[d].fallbackTasks
        BY <1>5, <1>10, <1>12, <2>1 DEF LastOfBoundary, BoundaryRecords
      <4>6. ASSUME NEW d \in DOMAIN boundaries
            PROVE  \/ boundaries'[d].fallbackTasks = <<>>
                   \/ /\ boundaries'[d].fallbackTasks = boundaries[d].fallbackTasks
                      /\ \A i \in DOMAIN boundaries[d].fallbackTasks :
                           /\ boundaries[d].fallbackTasks[i] \in Live'
                           /\ \A j \in DOMAIN list : list[j] # boundaries[d].fallbackTasks[i]
        <5>1. CASE d = b
          BY <4>5, <5>1
        <5>2. CASE d # b
          BY <1>15, <4>1, <4>5, <5>2 DEF AbortInv
        <5> QED BY <5>1, <5>2
      <4>7. /\ n \in Nat \ {0} /\ at \in {"abort", "abortSoft"} /\ list \in Seq(TaskNames)
            /\ GetsTasks(n, fr, at, list)
            /\ Aborting' = (Aborting \ {n}) \cup ((n + 1)..(n + Len(list)))
            /\ tasks' = tasks /\ DOMAIN boundaries' = DOMAIN boundaries
        BY <1>1, <1>14, <3>1, <3>3, <3>4, <3>5
      <4>8. Idle' \/ Calls'[1].at # "aborted" =>
              /\ Idle \/ Calls[1].at # "aborted"
              /\ pageRequest'.abortable = pageRequest.abortable
              /\ \A i \in DOMAIN pageRequest.abortable : pageRequest.abortable[i] \in Live'
        BY <1>3, <1>14, <1>15 DEF AbortInv
      <4>9. OneEach(list)
        BY <4>1
      <4>10. Aborting \ {n} \subseteq 1..(n - 1)
        BY <4>2
      <4> QED BY <4>3, <4>4, <4>6, <4>7, <4>8, <4>9, <4>10, AbortTakes
    <3> QED BY <3>4, <3>5, <3>6, <3>7, <3>8
  <2>2. CASE boundaries[b].forceClientRender \/ less[b].pendingTasks # 0
    <3>1. stack' = <<frame>> \o Tail(stack)
      BY <1>10, <1>13, <2>2 DEF OneOfBoundary, Frame
    <3>2. Becomes(frame) /\ stack' \in Seq(Frames)
      BY <1>1, <1>2, <3>1, StackBecomes
    <3>3. /\ Renders' = (Renders \ {Height}) /\ Owed' = (Owed \ {Height}) \cup {Height}
          /\ Aborting' = Aborting \ {Height}
          /\ ~Idle' /\ Top' = frame /\ (Height > 1 => Calls'[1] = Calls[1])
      BY <1>1, <1>2, <1>13, <3>2, AfterBecomes
    <3>4. ShapeInv'
      BY <1>2, <1>13, <3>2, ShapeBecomes
    <3>5. PlaceInv'
      BY <1>13, <3>3 DEF PlaceInv
    <3>6. Aborting' = Aborting /\ \A h \in Aborting' : Calls'[h] = Calls[h]
      BY <1>2, <1>3, <3>2, <3>3 DEF Aborting, Becomes, Below
    <3>7. \A d \in DOMAIN boundaries :
            boundaries'[d].fallbackTasks = boundaries[d].fallbackTasks
      BY <1>10, <1>11, <1>12, <2>2 DEF OneOfBoundary
    <3>8. AbortsLess
      BY <1>1, <1>14, <1>15, <3>6, <3>7 DEF AbortsLess, AbortInv
    <3>9. AbortableLess
      BY <1>3, <1>14, <1>15 DEF AbortableLess, AbortInv
    <3>10. AbortInv'
      BY <3>8, <3>9, AbortKept
    <3> QED BY <1>2, <1>3, <3>2, <3>3, <3>4, <3>5, <3>10
  <2> QED BY <2>1, <2>2
<1>17. Quiet
  BY <1>1, <1>2, <1>14, <1>16 DEF Quiet
<1>18. RenderInv' /\ (\E R : OpenedInv(R))'
  BY <1>17, QuietKeeps
<1>19. FizzTypes'
  BY <1>1, <1>14, <1>16 DEF FizzTypes
<1>20. NamesInv'
  BY <1>14, <1>17, QuietNames
<1>21. PingInv'
  BY <1>1, <1>2, <1>14, <1>15, <1>16, BottomStays, PingKept
<1>22. CountInv'
  BY <1>14, <1>15, <1>16, CountSame
<1>23. DoneInv'
  BY <1>1, <1>14, <1>16 DEF DoneInv
<1> QED BY <1>16, <1>18, <1>19, <1>20, <1>21, <1>22, <1>23

-----------------------------------------------------------------------------
(* Flushing                                                                  *)

\* Induction, for a set of numbers.
LEMMA LeastElement ==
  ASSUME NEW S, S \subseteq Nat, S # {}
  PROVE  \E n \in S : \A m \in S : n <= m
<1>1. PICK n \in S : \A m \in S : ~(<<m, n>> \in OpToRel(<, Nat))
  BY NatLessThanWellFounded, WFMin
<1>2. \A m \in S : ~(m < n)
  BY <1>1 DEF OpToRel
<1>3. \A m \in S : n <= m
  BY <1>2
<1> QED BY <1>3

LEMMA UpToFrom ==
  ASSUME NEW N \in Nat, NEW Z, 0 \in Z, \A n \in 0..N : n \in Z /\ n < N => n + 1 \in Z
  PROVE  \A n \in 0..N : n \in Z
<1> DEFINE Rest == {n \in 0..N : n \notin Z}
<1>1. SUFFICES ASSUME Rest # {}
               PROVE  FALSE
  OBVIOUS
<1>2. PICK n \in Rest : \A k \in Rest : n <= k
  <2>1. Rest \subseteq Nat
    OBVIOUS
  <2> HIDE DEF Rest
  <2> QED BY <1>1, <2>1, LeastElement
<1>3. n # 0 /\ n - 1 \in 0..N /\ n - 1 \notin Rest /\ n - 1 < N
  BY <1>2
<1>4. (n - 1) + 1 \in Z
  BY <1>3
<1> QED BY <1>2, <1>4

\* What is written, and what a flush hands from one write to the next
Written(f) ==
  /\ f = [segments |-> f.segments, boundaries |-> f.boundaries, client |-> f.client,
          partial |-> f.partial]
  /\ DOMAIN f.segments = DOMAIN segments
  /\ f.segments \in [DOMAIN segments -> SegmentRecords]
  /\ \A s \in DOMAIN segments :
       f.segments[s].status = "pending" <=> segments[s].status = "pending"
  /\ DOMAIN f.boundaries = DOMAIN boundaries
  /\ f.boundaries \in [DOMAIN boundaries -> BoundaryRecords]
  /\ \A b \in DOMAIN boundaries :
       /\ f.boundaries[b].fallbackTasks = boundaries[b].fallbackTasks
       /\ \A i \in DOMAIN f.boundaries[b].completedSegments :
            f.boundaries[b].completedSegments[i] \in DOMAIN segments
  /\ f.partial \in Seq(Boundaries)
  /\ \A i \in DOMAIN f.partial : f.partial[i] \in DOMAIN boundaries
  /\ IsClient(f.client) /\ f.client.end = client.end
Flushes(f) == Written(f) /\ (f.partial = <<>> => pageRequest.partial = <<>>)

LEMMA FlushedFlushes ==
  ASSUME FizzInv
  PROVE  Flushes(Flushed)
<1>1. PICK f : f = Flushed
  OBVIOUS
<1>2. /\ f.segments = segments /\ f.boundaries = boundaries /\ f.client = client
      /\ f.partial = pageRequest.partial
      /\ f = [segments |-> segments, boundaries |-> boundaries, client |-> client,
              partial |-> pageRequest.partial]
  BY <1>1 DEF Flushed
<1>3. IsClient(client)
  BY DEF FizzInv, FizzTypes
<1>4. IsClient(f.client)
  BY <1>2, <1>3
<1>5. /\ segments \in [DOMAIN segments -> SegmentRecords]
      /\ boundaries \in [DOMAIN boundaries -> BoundaryRecords]
      /\ pageRequest.partial \in Seq(Boundaries)
      /\ \A i \in DOMAIN pageRequest.partial : pageRequest.partial[i] \in DOMAIN boundaries
      /\ \A b \in DOMAIN boundaries :
           \A i \in DOMAIN boundaries[b].completedSegments :
             boundaries[b].completedSegments[i] \in DOMAIN segments
  BY RequestIs DEF FizzInv, FizzTypes, NamesInv
<1>6. Flushes(f)
  BY <1>2, <1>4, <1>5 DEF Flushes, Written
<1> QED BY <1>1, <1>6

LEMMA FlushSegmentFlushes ==
  ASSUME FizzInv, NEW f, Flushes(f), NEW s, NEW g, g = FlushSegment(f, s)
  PROVE  Flushes(g)
<1>1. /\ IsFiniteSet(DOMAIN boundaries) /\ DOMAIN boundaries \subseteq Boundaries
      /\ DOMAIN segments \subseteq SegmentNames
      /\ \A b \in DOMAIN boundaries : Content(b) \in SegmentNames
  BY NamesDiffer DEF FizzInv, NamesInv
<1>2. PICK reached : reached = Reached(f, s)
  OBVIOUS
<1>3. PICK written : written = {x \in reached : f.segments[x].status = "completed"}
  OBVIOUS
<1>4. PICK pending : pending = {x \in reached : f.segments[x].status = "pending"}
  OBVIOUS
<1>5. PICK met : met = {b \in DOMAIN f.boundaries :
                          \E x \in written : Fallback(b) \in ToSet(f.segments[x].children)}
  OBVIOUS
<1>6. PICK loading : loading = {b \in met : IsLoading(f, b)}
  OBVIOUS
<1>7. PICK kept : kept = {b \in loading : f.boundaries[b].completedSegments # <<>>}
  OBVIOUS
<1>8. PICK segs : segs = [x \in DOMAIN f.segments |->
        IF x \notin reached THEN f.segments[x]
        ELSE IF x \in pending
        THEN [f.segments[x] EXCEPT !.parentFlushed = TRUE, !.id = x]
        ELSE [f.segments[x] EXCEPT !.parentFlushed = TRUE, !.status = "flushed"]]
  OBVIOUS
<1>9. PICK bs : bs = [b \in DOMAIN f.boundaries |->
        IF b \notin met THEN f.boundaries[b]
        ELSE [f.boundaries[b] EXCEPT !.parentFlushed = TRUE,
                !.rootSegmentID = IF b \in loading THEN Content(b) ELSE @]]
  OBVIOUS
<1>10. PICK queue : queue = f.partial \o SetToSeq(kept)
  OBVIOUS
<1>11. PICK shown : shown = [b \in Boundaries |-> IF b \in met THEN How(f, b)
                                                  ELSE f.client.shown[b]]
  OBVIOUS
<1>12. PICK failed : failed = (\/ f.client.failed \/ reached # written \cup pending
                               \/ \E b \in met : IsInlined(f, b) /\ ~IsWhole(f, b))
  OBVIOUS
<1>13. PICK c : c = [f.client EXCEPT !.shown = shown, !.referred = @ \cup pending,
                                     !.failed = failed]
  OBVIOUS
<1>14. g = [segments |-> segs, boundaries |-> bs, partial |-> queue, client |-> c]
  BY <1>2, <1>3, <1>4, <1>5, <1>6, <1>7, <1>8, <1>9, <1>10, <1>11, <1>12, <1>13
     DEF FlushSegment
<1>15. /\ g.segments = segs /\ g.boundaries = bs /\ g.client = c /\ g.partial = queue
       /\ g = [segments |-> g.segments, boundaries |-> g.boundaries, client |-> g.client,
               partial |-> g.partial]
  BY <1>14
<1>16. /\ DOMAIN f.segments = DOMAIN segments
       /\ f.segments \in [DOMAIN segments -> SegmentRecords]
       /\ \A x \in DOMAIN segments :
            f.segments[x].status = "pending" <=> segments[x].status = "pending"
       /\ DOMAIN f.boundaries = DOMAIN boundaries
       /\ f.boundaries \in [DOMAIN boundaries -> BoundaryRecords]
       /\ \A b \in DOMAIN boundaries :
            /\ f.boundaries[b].fallbackTasks = boundaries[b].fallbackTasks
            /\ \A i \in DOMAIN f.boundaries[b].completedSegments :
                 f.boundaries[b].completedSegments[i] \in DOMAIN segments
       /\ f.partial \in Seq(Boundaries)
       /\ \A i \in DOMAIN f.partial : f.partial[i] \in DOMAIN boundaries
       /\ IsClient(f.client) /\ f.client.end = client.end
       /\ f.partial = <<>> => pageRequest.partial = <<>>
  BY DEF Flushes, Written
<1>17. /\ DOMAIN segs = DOMAIN segments /\ segs \in [DOMAIN segments -> SegmentRecords]
       /\ \A x \in DOMAIN segments :
            segs[x].status = "pending" <=> segments[x].status = "pending"
  <2>1. DOMAIN segs = DOMAIN segments /\ segs = [x \in DOMAIN segments |-> segs[x]]
    BY <1>8, <1>16
  <2>2. ASSUME NEW x \in DOMAIN segments
        PROVE  /\ segs[x] \in SegmentRecords
               /\ segs[x].status = "pending" <=> segments[x].status = "pending"
    <3>1. PICK old \in SegmentRecords : old = f.segments[x]
      BY <1>16
    <3>2. x \in SegmentNames
      BY <1>1
    <3>3. CASE x \notin reached
      BY <1>8, <1>16, <3>1, <3>3
    <3>4. CASE x \in reached /\ x \in pending
      BY <1>8, <1>16, <3>1, <3>2, <3>4 DEF SegmentRecords
    <3>5. CASE x \in reached /\ x \notin pending
      BY <1>4, <1>8, <1>16, <3>1, <3>5 DEF SegmentRecords, Statuses
    <3> QED BY <3>3, <3>4, <3>5
  <2>3. \A x \in DOMAIN segments : segs[x] \in SegmentRecords
    BY <2>2
  <2>4. segs \in [DOMAIN segments -> SegmentRecords]
    BY <2>1, <2>3
  <2> QED BY <2>1, <2>2, <2>4
<1>18. /\ DOMAIN bs = DOMAIN boundaries /\ bs \in [DOMAIN boundaries -> BoundaryRecords]
       /\ \A b \in DOMAIN boundaries :
            /\ bs[b].fallbackTasks = boundaries[b].fallbackTasks
            /\ bs[b].completedSegments = f.boundaries[b].completedSegments
  <2>1. DOMAIN bs = DOMAIN boundaries /\ bs = [b \in DOMAIN boundaries |-> bs[b]]
    BY <1>9, <1>16
  <2>2. ASSUME NEW b \in DOMAIN boundaries
        PROVE  /\ bs[b] \in BoundaryRecords
               /\ bs[b].fallbackTasks = f.boundaries[b].fallbackTasks
               /\ bs[b].completedSegments = f.boundaries[b].completedSegments
    <3>1. PICK old \in BoundaryRecords : old = f.boundaries[b]
      BY <1>16
    <3>2. CASE b \notin met
      BY <1>9, <1>16, <3>1, <3>2
    <3>3. CASE b \in met
      BY <1>1, <1>9, <1>16, <3>1, <3>3 DEF BoundaryRecords
    <3> QED BY <3>2, <3>3
  <2>3. \A b \in DOMAIN boundaries : bs[b] \in BoundaryRecords
    BY <2>2
  <2>4. bs \in [DOMAIN boundaries -> BoundaryRecords]
    BY <2>1, <2>3
  <2> QED BY <1>16, <2>1, <2>2, <2>4
<1>19. /\ queue \in Seq(Boundaries)
       /\ \A i \in DOMAIN queue : queue[i] \in DOMAIN boundaries
       /\ queue = <<>> => pageRequest.partial = <<>>
  <2>1. kept \subseteq DOMAIN boundaries
    BY <1>5, <1>6, <1>7, <1>16
  <2>2. IsFiniteSet(kept)
    BY <1>1, <2>1, FS_Subset
  <2>3. SetToSeq(kept) \in Seq(kept)
    BY <2>2, SetToSeqIs
  <2>4. PICK list \in Seq(kept) : list = SetToSeq(kept)
    BY <2>3
  <2>5. list \in Seq(DOMAIN boundaries) /\ list \in Seq(Boundaries)
    BY <1>1, <2>1, <2>4, SeqMonotonic
  <2>6. PICK before \in Seq(Boundaries) : before = f.partial
    BY <1>16
  <2>7. /\ before \o list \in Seq(Boundaries)
        /\ Len(before \o list) = Len(before) + Len(list)
        /\ \A i \in 1..(Len(before) + Len(list)) :
             (before \o list)[i] = IF i <= Len(before) THEN before[i] ELSE list[i - Len(before)]
    BY <2>5, <2>6, ConcatProperties
  <2>8. PICK q \in Seq(Boundaries) : q = before \o list
    BY <2>7
  <2>9. /\ Len(before) \in Nat /\ DOMAIN before = 1..Len(before)
        /\ Len(list) \in Nat /\ \A i \in 1..Len(list) : list[i] \in DOMAIN boundaries
        /\ DOMAIN q = 1..(Len(before) + Len(list))
        /\ \A i \in 1..(Len(before) + Len(list)) :
             q[i] = IF i <= Len(before) THEN before[i] ELSE list[i - Len(before)]
    BY <2>5, <2>6, <2>7, <2>8
  <2>10. ASSUME NEW i \in DOMAIN q
         PROVE  q[i] \in DOMAIN boundaries
    <3>1. CASE i <= Len(before)
      BY <1>16, <2>6, <2>9, <3>1
    <3>2. CASE ~(i <= Len(before))
      BY <2>9, <3>2
    <3> QED BY <3>1, <3>2
  <2>11. q = <<>> => before = <<>>
    BY <2>6, <2>8, <2>9
  <2> QED BY <1>10, <1>16, <2>4, <2>6, <2>8, <2>10, <2>11
<1>20. IsClient(c) /\ c.end = client.end
  BY <1>11, <1>13, <1>16 DEF IsClient, How, ShownStates
<1>21. \A b \in DOMAIN boundaries : \A i \in DOMAIN bs[b].completedSegments :
         bs[b].completedSegments[i] \in DOMAIN segments
  BY <1>16, <1>18
<1> QED BY <1>15, <1>17, <1>18, <1>19, <1>20, <1>21 DEF Flushes, Written

\* The client after an id was written
LEMMA FlushPartiallyCompletedSegmentFlushes ==
  ASSUME FizzInv, NEW f, Flushes(f), NEW b \in DOMAIN boundaries, NEW s \in DOMAIN segments,
         NEW g, g = FlushPartiallyCompletedSegment(f, b, s)
  PROVE  Flushes(g)
<1>1. CASE f.segments[s].status = "flushed"
  <2>1. g = f
    BY <1>1 DEF FlushPartiallyCompletedSegment
  <2> QED BY <2>1
<1>2. CASE f.segments[s].status # "flushed"
  <2>1. PICK segs, bs, c, queue :
          /\ segs = f.segments /\ bs = f.boundaries /\ c = f.client /\ queue = f.partial
          /\ f = [segments |-> segs, boundaries |-> bs, client |-> c, partial |-> queue]
    BY DEF Flushes, Written
  <2>2. /\ DOMAIN segs = DOMAIN segments
        /\ segs \in [DOMAIN segments -> SegmentRecords]
        /\ \A x \in DOMAIN segments :
             segs[x].status = "pending" <=> segments[x].status = "pending"
        /\ DOMAIN bs = DOMAIN boundaries
        /\ bs \in [DOMAIN boundaries -> BoundaryRecords]
        /\ \A d \in DOMAIN boundaries :
             /\ bs[d].fallbackTasks = boundaries[d].fallbackTasks
             /\ \A i \in DOMAIN bs[d].completedSegments :
                  bs[d].completedSegments[i] \in DOMAIN segments
        /\ queue \in Seq(Boundaries)
        /\ \A i \in DOMAIN queue : queue[i] \in DOMAIN boundaries
        /\ IsClient(c) /\ c.end = client.end
        /\ queue = <<>> => pageRequest.partial = <<>>
    BY <2>1 DEF Flushes, Written
  <2>3. PICK id : id = IF segs[s].id = Nil THEN bs[b].rootSegmentID ELSE segs[s].id
    OBVIOUS
  <2>4. id \in SegmentNames \cup {Nil}
    BY <2>2, <2>3 DEF SegmentRecords, BoundaryRecords
  <2>5. PICK old \in SegmentRecords : old = segs[s]
    BY <2>2
  <2>6. PICK segment : segment = [old EXCEPT !.id = id]
    OBVIOUS
  <2>7. segment \in SegmentRecords /\ segment.status = old.status
    BY <2>4, <2>5, <2>6 DEF SegmentRecords
  <2>8. PICK segs1 : segs1 = [segs EXCEPT ![s] = segment]
    OBVIOUS
  <2>9. /\ DOMAIN segs1 = DOMAIN segments
        /\ segs1 \in [DOMAIN segments -> SegmentRecords]
        /\ \A x \in DOMAIN segments :
             segs1[x].status = "pending" <=> segments[x].status = "pending"
    BY <2>2, <2>5, <2>7, <2>8
  <2>10. PICK shown, told, referred, sent, failed, end :
           c = [shown |-> shown, told |-> told, referred |-> referred, sent |-> sent,
                failed |-> failed, end |-> end]
    BY <2>2 DEF IsClient
  <2>11. PICK sent1, failed1 : sent1 = Append(sent, id) /\ failed1 = (failed \/ id = Nil)
    OBVIOUS
  <2>12. PICK c1 : c1 = [shown |-> shown, told |-> told, referred |-> referred,
                         sent |-> sent1, failed |-> failed1, end |-> end]
    OBVIOUS
  <2>13. IsClient(c1) /\ c1.end = client.end
    BY <2>2, <2>10, <2>12 DEF IsClient
  <2>14. PICK h : h = [segments |-> segs1, boundaries |-> bs, client |-> c1, partial |-> queue]
    OBVIOUS
  <2>15. h = [f EXCEPT !.segments[s].id = id, !.client.sent = Append(@, id),
                       !.client.failed = @ \/ id = Nil]
    <3>1. [segs EXCEPT ![s].id = id] = segs1
      BY <2>5, <2>6, <2>8
    <3>2. c.sent = sent /\ c.failed = failed
      BY <2>10
    <3>3. PICK c2 : c2 = [c EXCEPT !.sent = sent1, !.failed = failed1]
      OBVIOUS
    <3>4. c2 = [shown |-> shown, told |-> told, referred |-> referred, sent |-> sent1,
                failed |-> failed1, end |-> end]
      BY <2>10, <3>3
    <3>5. c2 = c1
      BY <2>12, <3>4
    <3>6. PICK sg : sg = [segs EXCEPT ![s].id = id]
      OBVIOUS
    <3>7. PICK f1 : f1 = [f EXCEPT !.segments = sg, !.client = c2]
      OBVIOUS
    <3>8. f1 = [segments |-> sg, boundaries |-> bs, client |-> c2, partial |-> queue]
      BY <2>1, <3>7
    <3>9. c2 = [c EXCEPT !.sent = Append(@, id), !.failed = @ \/ id = Nil]
      BY <2>11, <3>2, <3>3
    <3>10. f1 = [f EXCEPT !.segments[s].id = id, !.client.sent = Append(@, id),
                          !.client.failed = @ \/ id = Nil]
      BY <2>1, <3>6, <3>7, <3>9
    <3> QED BY <2>14, <3>1, <3>5, <3>6, <3>8, <3>10
  <2>16. g = FlushSegment(h, s)
    BY <1>2, <2>1, <2>3, <2>15 DEF FlushPartiallyCompletedSegment
  <2>17. Flushes(h)
    BY <2>2, <2>9, <2>13, <2>14 DEF Flushes, Written
  <2> QED BY <2>16, <2>17, FlushSegmentFlushes
<1> QED BY <1>1, <1>2

LEMMA ToldFlushes ==
  ASSUME FizzInv, NEW f, Flushes(f), NEW b \in Boundaries, NEW how \in ShownStates,
         NEW g, g = Told(f, b, how)
  PROVE  Flushes(g)
<1>1. PICK segs, bs, c, queue :
        /\ segs = f.segments /\ bs = f.boundaries /\ c = f.client /\ queue = f.partial
        /\ f = [segments |-> segs, boundaries |-> bs, client |-> c, partial |-> queue]
  BY DEF Flushes, Written
<1>2. IsClient(c) /\ c.end = client.end
  BY <1>1 DEF Flushes, Written
<1>3. PICK shown, told, referred, sent, failed, end :
        c = [shown |-> shown, told |-> told, referred |-> referred, sent |-> sent,
             failed |-> failed, end |-> end]
  BY <1>2 DEF IsClient
<1>4. c.shown = shown /\ c.told = told /\ c.end = end
  BY <1>3
<1>5. shown \in [Boundaries -> ShownStates] /\ told \in [Boundaries -> Nat]
  BY <1>2, <1>4 DEF IsClient
<1>6. PICK shown1, told1 : /\ shown1 = [shown EXCEPT ![b] = how]
                           /\ told1 = [told EXCEPT ![b] = @ + 1]
  OBVIOUS
<1>7. shown1 \in [Boundaries -> ShownStates] /\ told1 \in [Boundaries -> Nat]
  BY <1>5, <1>6
<1>8. PICK c1 : c1 = [shown |-> shown1, told |-> told1, referred |-> referred,
                      sent |-> sent, failed |-> failed, end |-> end]
  OBVIOUS
<1>9. /\ c1.shown = shown1 /\ c1.told = told1 /\ c1.end = end /\ c1.sent = sent
      /\ c1.referred = referred /\ c1.failed = failed
  BY <1>8
<1>10. IsClient(c1) /\ c1.end = client.end
  BY <1>2, <1>4, <1>7, <1>8, <1>9 DEF IsClient
<1>11. g = [segments |-> segs, boundaries |-> bs, client |-> c1, partial |-> queue]
  <2>1. PICK c2 : c2 = [c EXCEPT !.shown = shown1, !.told = told1]
    OBVIOUS
  <2>2. c2 = [shown |-> shown1, told |-> told1, referred |-> referred, sent |-> sent,
              failed |-> failed, end |-> end]
    BY <1>3, <2>1
  <2>3. c2 = c1
    BY <1>8, <2>2
  <2>4. PICK f1 : f1 = [f EXCEPT !.client = c2]
    OBVIOUS
  <2>5. f1 = [segments |-> segs, boundaries |-> bs, client |-> c2, partial |-> queue]
    BY <1>1, <2>4
  <2>6. c2 = [c EXCEPT !.shown[b] = how, !.told[b] = @ + 1]
    BY <1>4, <1>6, <2>1
  <2>8. PICK c3 : c3 = [c EXCEPT !.shown[b] = how]
    OBVIOUS
  <2>9. PICK f3 : f3 = [f EXCEPT !.client = c3]
    OBVIOUS
  <2>10. f3 = [segments |-> segs, boundaries |-> bs, client |-> c3, partial |-> queue]
    BY <1>1, <2>9
  <2>11. f3 = [f EXCEPT !.client.shown[b] = how]
    BY <1>1, <2>8, <2>9
  <2>12. g = [f3 EXCEPT !.client.told[b] = @ + 1]
    BY <2>11 DEF Told
  <2>13. PICK c4 : c4 = [c3 EXCEPT !.told[b] = @ + 1]
    OBVIOUS
  <2>14. c4 = c2
    BY <2>6, <2>8, <2>13
  <2>15. g = [segments |-> segs, boundaries |-> bs, client |-> c4, partial |-> queue]
    BY <2>10, <2>12, <2>13
  <2>16. g = f1
    BY <2>5, <2>14, <2>15
  <2> QED BY <2>3, <2>5, <2>16
<1>12. /\ g.segments = segs /\ g.boundaries = bs /\ g.client = c1 /\ g.partial = queue
       /\ g = [segments |-> g.segments, boundaries |-> g.boundaries, client |-> g.client,
               partial |-> g.partial]
  BY <1>11
<1> QED BY <1>1, <1>10, <1>12 DEF Flushes, Written
\* One write after another
Writes(f, n, start, b, list) ==
  /\ f[0] = start
  /\ \A k \in 1..n : f[k] = FlushPartiallyCompletedSegment(f[k - 1], b, list[k])

LEMMA WritesExist ==
  ASSUME NEW N \in Nat, NEW start, NEW b, NEW list
  PROVE  \E f : Writes(f, N, start, b, list)
<1> DEFINE Z == {n \in 0..N : \E f : Writes(f, n, start, b, list)}
<1>1. 0 \in Z
  <2>1. PICK f : f = [k \in {0} |-> start]
    OBVIOUS
  <2>2. f[0] = start
    BY <2>1
  <2>3. Writes(f, 0, start, b, list)
    BY <2>2 DEF Writes
  <2> QED BY <2>3
<1>2. ASSUME NEW n \in 0..N, n \in Z, n < N
      PROVE  n + 1 \in Z
  <2>1. PICK f : Writes(f, n, start, b, list)
    BY <1>2
  <2>2. PICK last : last = FlushPartiallyCompletedSegment(f[n], b, list[n + 1])
    OBVIOUS
  <2>3. PICK g : g = [k \in 0..(n + 1) |-> IF k = n + 1 THEN last ELSE f[k]]
    OBVIOUS
  <2>4. g[n + 1] = last /\ \A k \in 0..n : g[k] = f[k]
    BY <2>3
  <2>5. \A k \in 1..(n + 1) : g[k] = FlushPartiallyCompletedSegment(g[k - 1], b, list[k])
    <3> TAKE k \in 1..(n + 1)
    <3>1. CASE k = n + 1
      BY <2>2, <2>4, <3>1
    <3>2. CASE k # n + 1
      BY <2>1, <2>4, <3>2 DEF Writes
    <3> QED BY <3>1, <3>2
  <2>6. g[0] = start
    BY <2>1, <2>4 DEF Writes
  <2>7. Writes(g, n + 1, start, b, list)
    BY <2>5, <2>6 DEF Writes
  <2>8. n + 1 \in 0..N
    BY <1>2
  <2> QED BY <2>7, <2>8
<1>3. \A n \in 0..N : n \in Z
  <2> HIDE DEF Z
  <2> QED BY <1>1, <1>2, UpToFrom
<1>4. N \in Z
  BY <1>3
<1> QED BY <1>4

LEMMA FlushEachIs ==
  ASSUME NEW b, NEW start, NEW list, NEW n, n = Len(list), n \in Nat
  PROVE  \E f : Writes(f, n, start, b, list) /\ FlushEach(b, list, start) = f[n]
<1> DEFINE Next(f) == [k \in 0..Len(list) |-> IF k = 0 THEN start
                          ELSE FlushPartiallyCompletedSegment(f[k - 1], b, list[k])]
           run == CHOOSE f : f = Next(f)
<1>1. PICK g : Writes(g, n, start, b, list)
  BY WritesExist
<1>2. PICK h : h = [k \in 0..n |-> g[k]]
  OBVIOUS
<1>3. \A k \in 0..n : h[k] = IF k = 0 THEN start
                             ELSE FlushPartiallyCompletedSegment(h[k - 1], b, list[k])
  <2> TAKE k \in 0..n
  <2>1. h[k] = g[k]
    BY <1>2
  <2>2. CASE k = 0
    BY <1>1, <2>1, <2>2 DEF Writes
  <2>3. CASE k # 0
    BY <1>1, <1>2, <2>1, <2>3 DEF Writes
  <2> QED BY <2>2, <2>3
<1>4. h = [k \in 0..n |-> IF k = 0 THEN start
                          ELSE FlushPartiallyCompletedSegment(h[k - 1], b, list[k])]
  BY <1>2, <1>3
<1>5. h = Next(h)
  BY <1>4
<1>6. run = Next(run)
  <2> HIDE DEF Next
  <2> QED BY <1>5
<1>7. FlushEach(b, list, start) = run[Len(list)]
  BY DEF FlushEach
<1>8. PICK f : f = run
  OBVIOUS
<1> HIDE DEF run
<1>9. f = [k \in 0..n |-> IF k = 0 THEN start
                          ELSE FlushPartiallyCompletedSegment(f[k - 1], b, list[k])]
  BY <1>6, <1>8
<1>10. \A k \in 0..n : f[k] = IF k = 0 THEN start
                              ELSE FlushPartiallyCompletedSegment(f[k - 1], b, list[k])
  BY <1>9
<1>11. /\ f[0] = start
       /\ \A k \in 1..n : f[k] = FlushPartiallyCompletedSegment(f[k - 1], b, list[k])
  BY <1>10
<1>12. Writes(f, n, start, b, list)
  BY <1>11 DEF Writes
<1> QED BY <1>7, <1>8, <1>12

LEMMA FlushSegmentsFlushes ==
  ASSUME FizzInv, NEW b \in DOMAIN boundaries,
         NEW n \in 0..Len(boundaries[b].completedSegments), NEW g, g = FlushSegments(b, n)
  PROVE  Flushes(g)
<1>1. PICK list \in Seq(SegmentNames) : list = boundaries[b].completedSegments
  BY DEF FizzInv, FizzTypes, BoundaryRecords
<1>2. n \in Nat /\ Len(list) \in Nat /\ n <= Len(list) /\ \A k \in 1..n : k \in DOMAIN list
  BY <1>1
<1>3. \A i \in DOMAIN list : list[i] \in DOMAIN segments
  BY <1>1 DEF FizzInv, NamesInv
<1>4. PICK f0 : f0 = Flushed
  OBVIOUS
<1>5. Flushes(f0) /\ f0.boundaries = boundaries
  BY <1>4, FlushedFlushes DEF Flushed
<1>6. PICK rest \in Seq(SegmentNames) : rest = SubSeq(list, n + 1, Len(list))
  <2>1. n + 1 \in Int /\ Len(list) \in Int
    BY <1>2
  <2>2. \A i \in (n + 1)..Len(list) : list[i] \in SegmentNames
    BY <1>1, <1>2
  <2>3. SubSeq(list, n + 1, Len(list)) \in Seq(SegmentNames)
    BY <2>1, <2>2, SubSeqProperties
  <2> QED BY <2>3
<1>7. \A i \in DOMAIN rest : rest[i] \in DOMAIN segments
  BY <1>1, <1>2, <1>3, <1>6
<1>8. PICK segs, bs, c, queue :
        /\ segs = f0.segments /\ bs = f0.boundaries /\ c = f0.client /\ queue = f0.partial
        /\ f0 = [segments |-> segs, boundaries |-> bs, client |-> c, partial |-> queue]
  BY <1>5 DEF Flushes, Written
<1>9. /\ DOMAIN bs = DOMAIN boundaries /\ bs \in [DOMAIN boundaries -> BoundaryRecords]
      /\ bs = boundaries
  BY <1>5, <1>8 DEF Flushes, Written
<1>10. PICK old \in BoundaryRecords : old = bs[b]
  BY <1>9
<1>11. PICK record : record = [old EXCEPT !.completedSegments = rest]
  OBVIOUS
<1>12. /\ record \in BoundaryRecords /\ record.fallbackTasks = old.fallbackTasks
       /\ record.completedSegments = rest
  BY <1>6, <1>10, <1>11 DEF BoundaryRecords
<1>13. PICK bs1 : bs1 = [bs EXCEPT ![b] = record]
  OBVIOUS
<1>14. PICK start : start = [segments |-> segs, boundaries |-> bs1, client |-> c,
                             partial |-> queue]
  OBVIOUS
<1>15. start = [f0 EXCEPT !.boundaries[b].completedSegments = SubSeq(@, n + 1, Len(@))]
  <2>1. old.completedSegments = list
    BY <1>1, <1>9, <1>10
  <2>2. bs1 = [bs EXCEPT ![b].completedSegments = rest]
    BY <1>9, <1>10, <1>11, <1>13
  <2>3. PICK f1 : f1 = [f0 EXCEPT !.boundaries = bs1]
    OBVIOUS
  <2>4. f1 = start
    BY <1>8, <1>14, <2>3
  <2>5. f1 = [f0 EXCEPT !.boundaries[b].completedSegments = rest]
    BY <1>8, <2>2, <2>3
  <2>6. f0.boundaries[b].completedSegments = list
    BY <1>8, <1>10, <2>1
  <2> QED BY <1>6, <2>4, <2>5, <2>6
<1>16. Flushes(start)
  <2>1. /\ start.segments = segs /\ start.boundaries = bs1 /\ start.client = c
        /\ start.partial = queue
        /\ start = [segments |-> start.segments, boundaries |-> start.boundaries,
                    client |-> start.client, partial |-> start.partial]
    BY <1>14
  <2>2. /\ DOMAIN bs1 = DOMAIN boundaries /\ bs1 \in [DOMAIN boundaries -> BoundaryRecords]
        /\ \A d \in DOMAIN boundaries : bs1[d] = IF d = b THEN record ELSE bs[d]
    BY <1>9, <1>12, <1>13
  <2>3. \A d \in DOMAIN boundaries :
          /\ bs[d].fallbackTasks = boundaries[d].fallbackTasks
          /\ \A i \in DOMAIN bs[d].completedSegments :
               bs[d].completedSegments[i] \in DOMAIN segments
    BY <1>5, <1>8 DEF Flushes, Written
  <2>4. ASSUME NEW d \in DOMAIN boundaries
        PROVE  /\ bs1[d].fallbackTasks = boundaries[d].fallbackTasks
               /\ \A i \in DOMAIN bs1[d].completedSegments :
                    bs1[d].completedSegments[i] \in DOMAIN segments
    BY <1>7, <1>10, <1>12, <2>2, <2>3
  <2> QED BY <1>5, <1>8, <2>1, <2>2, <2>4 DEF Flushes, Written
<1>17. PICK first : first = SubSeq(list, 1, n)
  OBVIOUS
<1>18. Len(first) = n /\ \A k \in 1..n : first[k] \in DOMAIN segments
  BY <1>1, <1>2, <1>3, <1>17, SubSeqProperties
<1>19. PICK f : Writes(f, n, start, b, first) /\ FlushEach(b, first, start) = f[n]
  BY <1>2, <1>18, FlushEachIs
<1>20. g = f[n]
  BY <1>1, <1>4, <1>15, <1>17, <1>19 DEF FlushSegments, FirstCompleted
<1>21. \A k \in 0..n : k \in {m \in 0..n : Flushes(f[m])}
  <2>1. 0 \in {m \in 0..n : Flushes(f[m])}
    BY <1>2, <1>16, <1>19 DEF Writes
  <2>2. \A k \in 0..n : k \in {m \in 0..n : Flushes(f[m])} /\ k < n
          => k + 1 \in {m \in 0..n : Flushes(f[m])}
    BY <1>2, <1>18, <1>19, FlushPartiallyCompletedSegmentFlushes DEF Writes
  <2> QED BY <1>2, <2>1, <2>2, UpToFrom
<1>22. n \in 0..n
  BY <1>2
<1> QED BY <1>20, <1>21, <1>22
\* The request of a flush: what it does not touch
FlushesRequest(req) ==
  /\ req \in RequestRecords
  /\ req.pinged = pageRequest.pinged /\ req.scheduled = pageRequest.scheduled
  /\ req.status = pageRequest.status
  /\ req.allPendingTasks = pageRequest.allPendingTasks
  /\ req.abortable = pageRequest.abortable
  /\ \A i \in DOMAIN req.partial : req.partial[i] \in DOMAIN boundaries
  /\ \A i \in DOMAIN req.completed : req.completed[i] \in DOMAIN boundaries

LEMMA FlushingKeeps ==
  ASSUME FizzInv, ~Idle, Top.at \in FlushPlaces, NEW f, Written(f),
         NEW req, FlushesRequest(req), NEW isFull \in BOOLEAN,
         NEW place \in {"clientRendered", "completed", "partial"},
         place # "clientRendered" => req.clientRendered = <<>>,
         place = "partial" => req.completed = <<>>,
         Flushing(f, req, isFull, place)
  PROVE  FizzInv'
<1> USE DEF FizzInv
<1>1. /\ segments' = f.segments /\ boundaries' = f.boundaries
      /\ UNCHANGED <<page, tasks, suspended>>
      /\ f.client.failed => /\ pageRequest' = Fatal(req)
                            /\ client' = Ended(f.client, "error") /\ Leave
      /\ ~f.client.failed =>
           /\ pageRequest' = [req EXCEPT !.partial = f.partial, !.flowing = ~isFull]
           /\ client' = f.client
           /\ stack' = Frame(IF isFull THEN "flushed" ELSE place) \o Tail(stack)
  BY DEF Flushing
<1>2. /\ DOMAIN segments' = DOMAIN segments
      /\ segments' \in [DOMAIN segments' -> SegmentRecords]
      /\ \A s \in DOMAIN segments :
           segments'[s].status = "pending" <=> segments[s].status = "pending"
      /\ DOMAIN boundaries' = DOMAIN boundaries
      /\ boundaries' \in [DOMAIN boundaries' -> BoundaryRecords]
      /\ \A b \in DOMAIN boundaries :
           /\ boundaries'[b].fallbackTasks = boundaries[b].fallbackTasks
           /\ \A i \in DOMAIN boundaries'[b].completedSegments :
                boundaries'[b].completedSegments[i] \in DOMAIN segments
      /\ f.partial \in Seq(Boundaries)
      /\ \A i \in DOMAIN f.partial : f.partial[i] \in DOMAIN boundaries
      /\ IsClient(f.client) /\ f.client.end = client.end
  BY <1>1 DEF Written
<1>3. Live' = Live
  BY <1>1, <1>2 DEF Live, NamesInv
<1>4. /\ pageRequest' \in RequestRecords
      /\ pageRequest'.pinged = pageRequest.pinged
      /\ pageRequest'.scheduled = pageRequest.scheduled
      /\ pageRequest'.allPendingTasks = pageRequest.allPendingTasks
      /\ pageRequest'.abortable = pageRequest.abortable
      /\ pageRequest'.status = "open" => pageRequest.status = "open"
      /\ \A i \in DOMAIN pageRequest'.partial : pageRequest'.partial[i] \in DOMAIN boundaries
      /\ \A i \in DOMAIN pageRequest'.completed :
           pageRequest'.completed[i] \in DOMAIN boundaries
      /\ f.client.failed => pageRequest'.status # "open"
      /\ ~f.client.failed => /\ pageRequest'.clientRendered = req.clientRendered
                             /\ pageRequest'.completed = req.completed
                             /\ pageRequest'.flowing = ~isFull
                             /\ pageRequest'.status = pageRequest.status
  <2>1. PICK old \in RequestRecords : old = req
    BY DEF FlushesRequest
  <2>2. /\ old.pinged = pageRequest.pinged /\ old.scheduled = pageRequest.scheduled
        /\ old.status = pageRequest.status
        /\ old.allPendingTasks = pageRequest.allPendingTasks
        /\ old.abortable = pageRequest.abortable
        /\ \A i \in DOMAIN old.partial : old.partial[i] \in DOMAIN boundaries
        /\ \A i \in DOMAIN old.completed : old.completed[i] \in DOMAIN boundaries
    BY <2>1 DEF FlushesRequest
  <2>3. CASE f.client.failed
    BY <1>1, <2>1, <2>2, <2>3 DEF Fatal, RequestRecords
  <2>4. CASE ~f.client.failed
    BY <1>1, <1>2, <2>1, <2>2, <2>4 DEF RequestRecords
  <2> QED BY <2>3, <2>4
<1>5. PICK next \in Frames : next = [at |-> IF isFull THEN "flushed" ELSE place]
  BY DEF Frames, PlainFrames, FlushPlaces
<1>6. next.at \in FlushPlaces /\ next.at = IF isFull THEN "flushed" ELSE place
  BY <1>5 DEF FlushPlaces
<1>7. /\ f.client.failed => Leaves /\ stack' \in Seq(Frames)
      /\ ~f.client.failed => Becomes(next) /\ stack' \in Seq(Frames)
  <2>1. CASE f.client.failed
    BY <1>1, <2>1, StackLeaves DEF FizzTypes
  <2>2. CASE ~f.client.failed
    BY <1>1, <1>5, <2>2, StackBecomes DEF Frame, FizzTypes
  <2> QED BY <2>1, <2>2
<1>8. LightStep /\ (~f.client.failed => ~Idle' /\ Top' = next)
  BY <1>6, <1>7, LightLeaves, LightBecomes
<1>9. IsClient(client)' /\ (~f.client.failed => client'.end = client.end)
  <2>1. CASE f.client.failed
    BY <1>1, <1>2, <2>1 DEF Ended, IsClient
  <2>2. CASE ~f.client.failed
    BY <1>1, <1>2, <2>2 DEF IsClient
  <2> QED BY <2>1, <2>2
<1>10. Quiet
  BY <1>1, <1>2, <1>8 DEF Quiet, LightStep
<1>11. RenderInv' /\ (\E R : OpenedInv(R))'
  BY <1>10, QuietKeeps
<1>12. NamesInv'
  BY <1>2, <1>4, <1>10, QuietNames
<1>13. PingInv'
  BY <1>1, <1>3, <1>4, <1>8, PingKept DEF LightStep
<1>14. CountInv'
  BY <1>3, <1>4, <1>8, CountSame DEF LightStep
<1>15. AbortInv'
  BY <1>1, <1>2, <1>3, <1>4, <1>8, AbortKept DEF AbortsLess, LightStep, AbortInv,
     AbortableLess
<1>16. FizzTypes'
  BY <1>1, <1>2, <1>4, <1>7, <1>9 DEF FizzTypes
<1>17. PlaceInv'
  <2>1. CASE f.client.failed
    BY <1>7, <2>1, PlaceLeaves
  <2>2. CASE ~f.client.failed
    BY <1>4, <1>6, <1>8, <2>2 DEF PlaceInv
  <2> QED BY <2>1, <2>2
<1>18. DoneInv'
  BY <1>4, <1>8, <1>9 DEF DoneInv
<1> QED BY <1>8, <1>11, <1>12, <1>13, <1>14, <1>15, <1>16, <1>17, <1>18 DEF LightStep
LEMMA FlushRootKeeps ==
  ASSUME FizzInv, FlushRoot
  PROVE  FizzInv'
<1> USE DEF FizzInv
<1>1. ~Idle /\ Top.at = "root" /\ Top.at \in FlushPlaces
  BY DEF FlushRoot, IsAt, FlushPlaces
<1>2. PICK f0 : f0 = Flushed
  OBVIOUS
<1>3. Flushes(f0)
  BY <1>2, FlushedFlushes
<1>4. /\ \A i \in DOMAIN pageRequest.partial : pageRequest.partial[i] \in DOMAIN boundaries
      /\ \A i \in DOMAIN pageRequest.completed : pageRequest.completed[i] \in DOMAIN boundaries
      /\ pageRequest \in RequestRecords
  BY DEF NamesInv, FizzTypes
<1>5. CASE pageRequest.root # Nil /\ pageRequest.pendingRootTasks = 0
  <2>1. PICK root : root = pageRequest.root
    OBVIOUS
  <2>2. PICK f : f = FlushSegment(f0, root)
    OBVIOUS
  <2>3. PICK req : req = [pageRequest EXCEPT !.root = Nil]
    OBVIOUS
  <2>4. Flushing(f, req, FALSE, "clientRendered")
    BY <1>2, <1>5, <2>1, <2>2, <2>3 DEF FlushRoot, Flushing, Fatal
  <2>5. Flushes(f)
    BY <1>3, <2>2, FlushSegmentFlushes
  <2>6. FlushesRequest(req)
    BY <1>4, <2>3 DEF RequestRecords, FlushesRequest
  <2> QED BY <1>1, <2>4, <2>5, <2>6, FlushingKeeps DEF Flushes
<1>6. CASE ~(pageRequest.root # Nil /\ pageRequest.pendingRootTasks = 0)
  BY <1>1, <1>2, <1>3, <1>4, <1>6, FlushingKeeps DEF FlushRoot, Flushing, Fatal,
     FlushesRequest, Flushes
<1> QED BY <1>5, <1>6

LEMMA FlushClientRenderedBoundaryKeeps ==
  ASSUME FizzInv, NEW isFull \in BOOLEAN, FlushClientRenderedBoundary(isFull)
  PROVE  FizzInv'
<1> USE DEF FizzInv
<1>1. /\ ~Idle /\ Top.at = "clientRendered" /\ Top.at \in FlushPlaces
      /\ pageRequest.clientRendered # <<>>
  BY DEF FlushClientRenderedBoundary, IsAt, FlushPlaces
<1>2. PICK f0 : f0 = Flushed
  OBVIOUS
<1>3. Flushes(f0)
  BY <1>2, FlushedFlushes
<1>4. /\ \A i \in DOMAIN pageRequest.partial : pageRequest.partial[i] \in DOMAIN boundaries
      /\ \A i \in DOMAIN pageRequest.completed : pageRequest.completed[i] \in DOMAIN boundaries
      /\ pageRequest \in RequestRecords
  BY DEF NamesInv, FizzTypes
<1>5. PICK list \in Seq(Boundaries) : list = pageRequest.clientRendered
  BY RequestIs
<1>6. PICK b \in Boundaries : b = Head(list)
  BY <1>1, <1>5
<1>7. PICK rest \in Seq(Boundaries) : rest = Tail(list)
  BY <1>1, <1>5, HeadTailProperties
<1>8. PICK f : f = Told(f0, b, "client")
  OBVIOUS
<1>9. PICK req : req = [pageRequest EXCEPT !.clientRendered = rest]
  OBVIOUS
<1>10. Flushing(f, req, isFull, "clientRendered")
  BY <1>2, <1>5, <1>6, <1>7, <1>8, <1>9
     DEF FlushClientRenderedBoundary, Flushing, Fatal, Told
<1>11. Flushes(f)
  BY <1>3, <1>8, ToldFlushes DEF ShownStates
<1>12. FlushesRequest(req)
  BY <1>4, <1>9 DEF RequestRecords, FlushesRequest
<1> QED BY <1>1, <1>10, <1>11, <1>12, FlushingKeeps DEF Flushes

LEMMA FlushCompletedBoundaryKeeps ==
  ASSUME FizzInv, NEW isFull \in BOOLEAN, FlushCompletedBoundary(isFull)
  PROVE  FizzInv'
<1> USE DEF FizzInv
<1>1. /\ ~Idle /\ Top.at = "completed" /\ Top.at \in FlushPlaces
      /\ pageRequest.completed # <<>>
  BY DEF FlushCompletedBoundary, IsAt, FlushPlaces
<1>2. /\ \A i \in DOMAIN pageRequest.partial : pageRequest.partial[i] \in DOMAIN boundaries
      /\ \A i \in DOMAIN pageRequest.completed : pageRequest.completed[i] \in DOMAIN boundaries
      /\ pageRequest \in RequestRecords /\ DOMAIN boundaries \subseteq Boundaries
  BY DEF NamesInv, FizzTypes
<1>3. PICK list \in Seq(Boundaries) : list = pageRequest.completed
  BY RequestIs
<1>4. PICK b \in DOMAIN boundaries : b = Head(list)
  BY <1>1, <1>2, <1>3
<1>5. PICK rest \in Seq(Boundaries) : rest = Tail(list)
  BY <1>1, <1>3, HeadTailProperties
<1>6. PICK queue \in Seq(SegmentNames) : queue = boundaries[b].completedSegments
  BY DEF FizzTypes, BoundaryRecords
<1>7. PICK n : n = Len(queue)
  OBVIOUS
<1>8. n \in 0..Len(boundaries[b].completedSegments)
  BY <1>6, <1>7
<1>9. PICK f1 : f1 = FlushSegments(b, n)
  OBVIOUS
<1>10. Flushes(f1)
  BY <1>8, <1>9, FlushSegmentsFlushes
<1>11. PICK f : f = Told(f1, b, "complete")
  OBVIOUS
<1>12. PICK req : req = [pageRequest EXCEPT !.completed = rest]
  OBVIOUS
<1>13. Flushing(f, req, isFull, "completed")
  <2>1. /\ Head(pageRequest.completed) = b /\ Tail(pageRequest.completed) = rest
        /\ Len(boundaries[b].completedSegments) = n
    BY Zenon, <1>3, <1>4, <1>5, <1>6, <1>7
  <2>2. Flushing(Told(FlushSegments(b, n), b, "complete"),
                 [pageRequest EXCEPT !.completed = rest], isFull, "completed")
    BY Zenon, <2>1 DEF FlushCompletedBoundary
  <2> QED BY Zenon, <1>9, <1>11, <1>12, <2>2
<1>14. Flushes(f)
  BY <1>2, <1>10, <1>11, ToldFlushes DEF ShownStates
<1>15. FlushesRequest(req) /\ req.clientRendered = <<>>
  <2>1. /\ req \in RequestRecords
        /\ req.pinged = pageRequest.pinged /\ req.scheduled = pageRequest.scheduled
        /\ req.status = pageRequest.status
        /\ req.allPendingTasks = pageRequest.allPendingTasks
        /\ req.abortable = pageRequest.abortable
        /\ req.partial = pageRequest.partial /\ req.completed = rest
        /\ req.clientRendered = pageRequest.clientRendered
    BY <1>2, <1>5, <1>12 DEF RequestRecords
  <2>2. \A i \in DOMAIN rest : rest[i] \in DOMAIN boundaries
    BY <1>1, <1>2, <1>3, <1>5
  <2>3. pageRequest.clientRendered = <<>>
    BY <1>1 DEF PlaceInv
  <2> QED BY <1>2, <2>1, <2>2, <2>3 DEF FlushesRequest
<1> QED BY <1>1, <1>13, <1>14, <1>15, FlushingKeeps DEF Flushes

LEMMA FlushPartialBoundaryKeeps ==
  ASSUME FizzInv, NEW isFull \in BOOLEAN, FlushPartialBoundary(isFull)
  PROVE  FizzInv'
<1> USE DEF FizzInv
<1>1. /\ ~Idle /\ Top.at = "partial" /\ Top.at \in FlushPlaces
      /\ pageRequest.partial # <<>>
  BY DEF FlushPartialBoundary, IsAt, FlushPlaces
<1>2. /\ \A i \in DOMAIN pageRequest.partial : pageRequest.partial[i] \in DOMAIN boundaries
      /\ \A i \in DOMAIN pageRequest.completed : pageRequest.completed[i] \in DOMAIN boundaries
      /\ pageRequest \in RequestRecords /\ DOMAIN boundaries \subseteq Boundaries
  BY DEF NamesInv, FizzTypes
<1>3. PICK list \in Seq(Boundaries) : list = pageRequest.partial
  BY RequestIs
<1>4. PICK b \in DOMAIN boundaries : b = Head(list)
  BY <1>1, <1>2, <1>3
<1>5. PICK queue \in Seq(SegmentNames) : queue = boundaries[b].completedSegments
  BY DEF FizzTypes, BoundaryRecords
<1>6. Len(queue) \in Nat
  BY <1>5
<1>7. PICK n \in IF isFull THEN 1..Len(queue) ELSE {Len(queue)} :
        Flushing([FlushSegments(b, n) EXCEPT !.partial = Tail(@)], pageRequest, isFull,
                 "partial")
  <2>1. Head(pageRequest.partial) = b
    BY <1>3, <1>4
  <2>2. PICK n \in IF isFull THEN 1..Len(boundaries[b].completedSegments)
                            ELSE {Len(boundaries[b].completedSegments)} :
          Flushing([FlushSegments(b, n) EXCEPT !.partial = Tail(@)], pageRequest, isFull,
                   "partial")
    BY Zenon, <2>1 DEF FlushPartialBoundary
  <2>3. n \in IF isFull THEN 1..Len(queue) ELSE {Len(queue)}
    BY Zenon, <1>5, <2>2
  <2> QED BY Zenon, <2>2, <2>3
<1>8. n \in 0..Len(boundaries[b].completedSegments)
  BY <1>5, <1>6, <1>7
<1>9. PICK f1 : f1 = FlushSegments(b, n)
  OBVIOUS
<1>10. Flushes(f1)
  BY <1>8, <1>9, FlushSegmentsFlushes
<1>11. PICK f : f = [f1 EXCEPT !.partial = Tail(@)]
  OBVIOUS
<1>12. PICK req : req = pageRequest
  OBVIOUS
<1>13. Flushing(f, req, isFull, "partial")
  BY <1>7, <1>9, <1>11, <1>12 DEF Flushing, Fatal
<1>14. PICK segs, bs, c, queued :
         /\ segs = f1.segments /\ bs = f1.boundaries /\ c = f1.client /\ queued = f1.partial
         /\ f1 = [segments |-> segs, boundaries |-> bs, client |-> c, partial |-> queued]
  BY <1>10 DEF Flushes, Written
<1>15. PICK rest : rest = Tail(queued)
  OBVIOUS
<1>16. /\ rest \in Seq(Boundaries) /\ \A i \in DOMAIN rest : rest[i] \in DOMAIN boundaries
       /\ queued \in Seq(Boundaries)
  BY <1>1, <1>10, <1>14, <1>15, HeadTailProperties DEF Flushes, Written
<1>17. f = [segments |-> segs, boundaries |-> bs, client |-> c, partial |-> rest]
  BY <1>11, <1>14, <1>15
<1>18. Written(f)
  BY <1>10, <1>14, <1>16, <1>17 DEF Flushes, Written
<1>19. FlushesRequest(req) /\ req.clientRendered = <<>> /\ req.completed = <<>>
  BY <1>1, <1>2, <1>12 DEF PlaceInv, FlushesRequest
<1> QED BY <1>1, <1>13, <1>18, <1>19, FlushingKeeps
-----------------------------------------------------------------------------
(* Rendering                                                                 *)

LEMMA RenderTop ==
  ASSUME FizzInv, IsAt("render")
  PROVE  /\ ~Idle /\ Height \in Nat /\ Height > 1 /\ Height \in Renders
         /\ Top = Calls[Height] /\ Top \in RenderFrames /\ Renders = 2..Height
         /\ Owed = {} /\ Aborting = {} /\ Calls[1].at = "perform" /\ Performing
         /\ Top.task \in DOMAIN tasks /\ Top.task \in Live
         /\ Top.segment \in DOMAIN segments /\ segments[Top.segment].status = "pending"
         /\ Top.boundary \in DOMAIN boundaries \cup {Nil}
         /\ Top.of = Nil <=> Height = 2
         /\ Height = 2 => Top.segment = Top.task /\ Top.boundary = tasks[Top.task].boundary
         /\ \A h \in Renders : Calls[h] \in RenderFrames /\ Calls[h].task = Top.task
<1> USE DEF FizzInv
<1>1. /\ ~Idle /\ Top.at = "render" /\ Height \in Nat /\ Height \in 1..Height
      /\ Top = Calls[Height] /\ Calls \in [1..Height -> Frames]
  BY TopIs DEF FizzTypes, IsAt
<1>2. /\ Height > 1 /\ Calls[1].at = "perform" /\ \A h \in 2..Height : Calls[h].at = "render"
      /\ Height \in Renders
  BY <1>1 DEF ShapeInv, Renders
<1>3. Renders = 2..Height
  BY <1>1, <1>2 DEF Renders
<1>4. Owed = {} /\ Aborting = {} /\ Performing
  BY <1>1, <1>2 DEF Owed, Aborting, Performing
<1>5. \A h \in Renders : Calls[h] \in RenderFrames
  <2>1. \A f \in Frames : f.at = "render" => f \in RenderFrames
    BY DEF Frames, PlainFrames, TaskFrames, PerformFrames, RenderFrames, FlushPlaces
  <2> QED BY <1>1, <2>1 DEF Renders
<1>6. \A h \in Renders : Calls[h].task = Calls[2].task
  BY DEF RenderInv
<1>7. \A h \in Renders : Calls[h].task = Top.task
  BY <1>1, <1>2, <1>6
<1>8. 2 \in Renders
  BY <1>1, <1>2, <1>3
<1>9. /\ Top.task \in DOMAIN tasks
      /\ Top.of = Nil <=> Height = 2
      /\ Height = 2 => Top.segment = Top.task /\ Top.boundary = tasks[Top.task].boundary
      /\ segments[Top.segment].status = "pending"
  BY <1>1, <1>2 DEF RenderInv
<1>10. Top.task \in Live
  BY <1>7, <1>8, <1>9 DEF RenderInv, Live
<1>11. /\ Top.segment \in DOMAIN segments
       /\ Top.boundary \in DOMAIN boundaries \cup {Nil}
  <2>1. CASE Height = 2
    BY <1>9, <2>1 DEF NamesInv
  <2>2. CASE Height # 2
    BY <1>1, <1>2, <2>2 DEF RenderInv, NamesInv
  <2> QED BY <2>1, <2>2
<1> QED BY <1>1, <1>2, <1>3, <1>4, <1>5, <1>7, <1>9, <1>10, <1>11

\* A task goes on being rendered.
StaysOn(t) ==
  (\E h \in Renders : Calls[h].task = t) => (\E h \in Renders' : Calls'[h].task = t)

LEMMA PingRenders ==
  ASSUME FizzInv, Performing, Performing', NextPinged' = NextPinged,
         pageRequest'.status = "open" => pageRequest.status = "open",
         suspended \subseteq suspended', DOMAIN tasks \subseteq DOMAIN tasks',
         pageRequest'.pinged \in Seq(TaskNames),
         Len(pageRequest.pinged) <= Len(pageRequest'.pinged),
         \A i \in DOMAIN pageRequest.pinged : pageRequest'.pinged[i] = pageRequest.pinged[i],
         \A i \in DOMAIN pageRequest'.pinged :
           i > Len(pageRequest.pinged) => pageRequest'.pinged[i] \in DOMAIN tasks',
         \A t \in Live' :
           \/ t \in Live /\ StaysOn(t)
           \/ t \in suspended'
           \/ \E i \in DOMAIN pageRequest'.pinged :
                i > Len(pageRequest.pinged) /\ pageRequest'.pinged[i] = t
  PROVE  PingInv'
<1> USE DEF FizzInv
<1>1. PICK list \in Seq(TaskNames) : list = pageRequest.pinged
  BY RequestIs
<1>2. PICK list1 \in Seq(TaskNames) : list1 = pageRequest'.pinged
  OBVIOUS
<1>3. /\ Len(list) \in Nat /\ Len(list1) \in Nat /\ Len(list) <= Len(list1)
      /\ DOMAIN list = 1..Len(list) /\ DOMAIN list1 = 1..Len(list1)
      /\ \A i \in DOMAIN list : i \in DOMAIN list1 /\ list1[i] = list[i]
  BY <1>1, <1>2
<1>4. PICK next : next = NextPinged
  OBVIOUS
<1>5. /\ next \in Nat /\ next <= Len(list) + 1
      /\ \A i \in DOMAIN list : list[i] \in DOMAIN tasks
      /\ \A t \in Live : \/ t \in suspended
                         \/ \E i \in DOMAIN list : i >= next /\ list[i] = t
                         \/ \E h \in Renders : Calls[h].task = t
  <2>1. next \in Nat
    <3>1. ~Idle /\ Calls[1] \in Frames /\ Calls[1].at = "perform"
      BY SMTT(30), TopIs DEF Performing, FizzTypes
    <3>2. Calls[1].next \in Nat
      BY <3>1 DEF Frames, PlainFrames, TaskFrames, PerformFrames, RenderFrames, FlushPlaces
    <3> QED BY <1>4, <3>2 DEF NextPinged
  <2> QED BY <1>1, <1>4, <2>1 DEF PingInv
<1>6. \A i \in DOMAIN list1 : list1[i] \in DOMAIN tasks'
  <2> TAKE i \in DOMAIN list1
  <2>1. CASE i > Len(list)
    BY <1>1, <1>2, <2>1
  <2>2. CASE ~(i > Len(list))
    BY <1>3, <1>5, <2>2
  <2> QED BY <2>1, <2>2
<1>7. \A t \in Live' : \/ t \in suspended'
                       \/ \E i \in DOMAIN list1 : i >= next /\ list1[i] = t
                       \/ \E h \in Renders' : Calls'[h].task = t
  <2> TAKE t \in Live'
  <2>1. CASE t \in Live /\ StaysOn(t)
    BY <1>3, <1>5, <2>1 DEF StaysOn
  <2>2. CASE \E i \in DOMAIN list1 : i > Len(list) /\ list1[i] = t
    BY <1>3, <1>5, <2>2
  <2> QED BY <1>1, <1>2, <2>1, <2>2
<1> QED BY <1>2, <1>3, <1>4, <1>5, <1>6, <1>7 DEF PingInv

\* The frames that are left are of the same boundaries, and none is new.
LEMMA RenderLess ==
  ASSUME FizzInv, Renders' \subseteq Renders, Renders' # {} => 2 \in Renders',
         \A h \in Renders' :
           /\ Calls'[h].task = Calls[h].task /\ Calls'[h].of = Calls[h].of
           /\ Calls'[h].segment = Calls[h].segment /\ Calls'[h].boundary = Calls[h].boundary
           /\ segments'[Calls[h].segment].status = "pending"
           /\ h # 2 => /\ Fallback(Calls[h].of) \notin DOMAIN tasks'
                       /\ segments'[Fallback(Calls[h].of)].status = "pending",
         DOMAIN boundaries \subseteq DOMAIN boundaries',
         DOMAIN tasks \subseteq DOMAIN tasks',
         \A t \in DOMAIN tasks : tasks'[t].boundary = tasks[t].boundary
  PROVE  RenderInv'
<1>1. \A h \in Renders' : /\ h \in Renders
                          /\ Calls'[h].task = Calls'[2].task
                          /\ Calls[h].task \in DOMAIN tasks
  BY DEF RenderInv, FizzInv
<1>2. ASSUME NEW h \in Renders'
      PROVE  /\ Calls'[h].task = Calls'[2].task
             /\ Calls'[h].task \in DOMAIN tasks'
             /\ Calls'[h].of = Nil <=> h = 2
             /\ h = 2 => /\ Calls'[h].segment = Calls'[h].task
                         /\ Calls'[h].boundary = tasks'[Calls'[h].task].boundary
             /\ h # 2 => /\ Calls'[h].segment = Content(Calls'[h].of)
                         /\ Calls'[h].boundary = Calls'[h].of
                         /\ Calls'[h].of \in DOMAIN boundaries'
                         /\ Fallback(Calls'[h].of) \notin DOMAIN tasks'
                         /\ segments'[Fallback(Calls'[h].of)].status = "pending"
             /\ segments'[Calls'[h].segment].status = "pending"
             /\ \A g \in Renders' : Calls'[g].of = Calls'[h].of => g = h
  BY <1>1, <1>2 DEF RenderInv, FizzInv
<1> QED BY <1>2 DEF RenderInv
\* What is left to render is less.
RestsLess ==
  /\ Renders' \subseteq Renders
  /\ \A h \in Renders' : Calls'[h].task = Calls[h].task
  /\ \A h \in Renders' \ {Height} : Calls'[h].rest = Calls[h].rest
  /\ Height \in Renders' =>
       \A i \in DOMAIN Calls'[Height].rest :
         /\ i \in Int /\ i + 1 \in DOMAIN Calls[Height].rest
         /\ Calls'[Height].rest[i] = Calls[Height].rest[i + 1]

LEMMA OpenedLess ==
  ASSUME NEW R, OpenedInv(R), RestsLess, page' = page, DOMAIN boundaries' = DOMAIN boundaries,
         DOMAIN tasks \subseteq DOMAIN tasks',
         \A c \in PageComponents : Own(c) \in DOMAIN tasks' =>
           \/ Own(c) \in DOMAIN tasks
           \/ /\ \E h \in Renders : \E i \in DOMAIN Calls[h].rest : Calls[h].rest[i] = c
              /\ \A h \in Renders' : \A i \in DOMAIN Calls'[h].rest : Calls'[h].rest[i] # c,
         \A t \in R : t \in Live' => t \in Live /\ StaysOn(t)
  PROVE  OpenedInv(R)'
<1> DEFINE At(h, i) == IF h = Height THEN i + 1 ELSE i
<1>1. \A h \in Renders' : \A i \in DOMAIN Calls'[h].rest :
        At(h, i) \in DOMAIN Calls[h].rest /\ Calls'[h].rest[i] = Calls[h].rest[At(h, i)]
  BY DEF RestsLess
<1>2. \A h \in Renders' : \A i, j \in DOMAIN Calls'[h].rest : At(h, i) = At(h, j) => i = j
  BY DEF RestsLess
<1> HIDE DEF At
<1>3. Renders' \subseteq Renders /\ \A h \in Renders' : Calls'[h].task = Calls[h].task
  BY DEF RestsLess
<1>4. \A h, g \in Renders' : \A i \in DOMAIN Calls'[h].rest, j \in DOMAIN Calls'[g].rest :
        Calls'[h].rest[i] = Calls'[g].rest[j] =>
          Calls'[h].rest[i] = Text \/ (h = g /\ i = j)
  BY <1>1, <1>2, <1>3 DEF OpenedInv
<1>5. \A h \in Renders' : \A i \in DOMAIN Calls'[h].rest :
        /\ Calls'[h].rest[i] \in PageComponents =>
             /\ Own(Calls'[h].rest[i]) \notin R
             /\ Own(Calls'[h].rest[i]) \in DOMAIN tasks' =>
                  Calls'[h].task = Own(Calls'[h].rest[i])
        /\ Calls'[h].rest[i] \notin DOMAIN boundaries'
  BY <1>1, <1>3 DEF OpenedInv
<1>6. Bodies' = Bodies
  BY DEF Bodies, Body
<1>7. \A x : Engaged(x, R)' => Engaged(x, R)
  BY <1>1, <1>3 DEF Engaged
<1>8. \A x \in PageItems \ {Text} : Engaged(x, R)' =>
        \A s \in SegmentNames : \A i \in DOMAIN Bodies'[s] : Bodies'[s][i] = x => s \in R
  BY <1>6, <1>7 DEF OpenedInv
<1> QED BY <1>3, <1>4, <1>5, <1>8 DEF OpenedInv, StaysOn
\* The frame at the top gets another rest.
GoesOn(f) ==
  /\ stack' \in Seq(Frames) /\ ShapeInv' /\ PlaceInv' /\ ~Idle'
  /\ Renders' = Renders /\ Owed' = {} /\ Aborting' = {}
  /\ Calls'[1] = Calls[1] /\ Performing' /\ NextPinged' = NextPinged
  /\ \A h \in Renders \ {Height} : Calls'[h] = Calls[h]
  /\ Calls'[Height] = f

LEMMA RestIs ==
  ASSUME FizzInv, IsAt("render"), Top.rest # <<>>, NEW items \in Seq(PageItems)
  PROVE  \E f \in RenderFrames :
           /\ f = [Top EXCEPT !.rest = items \o Tail(@)]
           /\ f.at = "render" /\ f.task = Top.task /\ f.of = Top.of
           /\ f.segment = Top.segment /\ f.boundary = Top.boundary
           /\ DOMAIN Top.rest = 1..Len(Top.rest) /\ Len(Top.rest) \in Nat
           /\ Top.rest[1] = Head(Top.rest) /\ 1 \in DOMAIN Top.rest
           /\ Len(items) \in Nat /\ DOMAIN f.rest = 1..(Len(items) + Len(Top.rest) - 1)
           /\ \A i \in DOMAIN f.rest :
                f.rest[i] = IF i <= Len(items) THEN items[i] ELSE Top.rest[i - Len(items) + 1]
<1>1. PICK top \in RenderFrames : top = Top
  BY RenderTop
<1>2. PICK rest \in Seq(PageItems) : rest = top.rest /\ rest # <<>>
  BY <1>1 DEF RenderFrames
<1>3. PICK tail : tail = Tail(rest)
  OBVIOUS
<1>4. /\ tail \in Seq(PageItems) /\ Len(tail) = Len(rest) - 1
      /\ \A i \in 1..Len(tail) : tail[i] = rest[i + 1]
      /\ Len(rest) \in Nat /\ Len(rest) # 0 /\ DOMAIN rest = 1..Len(rest)
      /\ rest[1] = Head(rest)
  BY <1>2, <1>3, HeadTailProperties
<1>5. PICK new : new = items \o tail
  OBVIOUS
<1>6. /\ new \in Seq(PageItems) /\ Len(new) = Len(items) + Len(tail)
      /\ \A i \in 1..(Len(items) + Len(tail)) :
           new[i] = IF i <= Len(items) THEN items[i] ELSE tail[i - Len(items)]
  BY <1>4, <1>5, ConcatProperties
<1>7. Len(items) \in Nat /\ DOMAIN new = 1..(Len(items) + Len(rest) - 1)
  BY <1>4, <1>6
<1>8. \A i \in DOMAIN new :
        new[i] = IF i <= Len(items) THEN items[i] ELSE rest[i - Len(items) + 1]
  <2> TAKE i \in DOMAIN new
  <2>1. i \in 1..(Len(items) + Len(tail))
    BY <1>4, <1>7
  <2>2. CASE i <= Len(items)
    BY <1>6, <2>1, <2>2
  <2>3. CASE ~(i <= Len(items))
    <3>1. i - Len(items) \in 1..Len(tail)
      BY <1>4, <1>7, <2>1, <2>3
    <3> QED BY <1>4, <1>6, <2>1, <2>3, <3>1
  <2> QED BY <2>2, <2>3
<1>9. PICK f : f = [top EXCEPT !.rest = new]
  OBVIOUS
<1>10. /\ f \in RenderFrames /\ f.at = "render" /\ f.task = top.task /\ f.of = top.of
       /\ f.segment = top.segment /\ f.boundary = top.boundary /\ f.rest = new
  BY <1>1, <1>6, <1>9 DEF RenderFrames
<1>11. f = [Top EXCEPT !.rest = items \o Tail(@)]
  BY <1>1, <1>2, <1>3, <1>5, <1>9
<1>12. 1 \in DOMAIN rest
  BY <1>4
<1> QED BY ZenonT(60), <1>1, <1>2, <1>4, <1>7, <1>8, <1>10, <1>11, <1>12

LEMMA RenderGoesOn ==
  ASSUME FizzInv, IsAt("render"), NEW f \in RenderFrames, stack' = <<f>> \o Tail(stack)
  PROVE  GoesOn(f)
<1> USE DEF FizzInv
<1>1. /\ ~Idle /\ Height \in Nat /\ Height > 1 /\ Height \in Renders /\ Renders = 2..Height
      /\ Owed = {} /\ Aborting = {} /\ Performing /\ stack \in Seq(Frames)
  BY RenderTop DEF FizzTypes
<1>2. f \in Frames /\ f.at = "render"
  BY DEF Frames, RenderFrames
<1>3. Becomes(f) /\ stack' \in Seq(Frames)
  BY <1>1, <1>2, StackBecomes
<1>4. /\ Renders' = (Renders \ {Height}) \cup (IF f.at = "render" THEN {Height} ELSE {})
      /\ Owed' = (Owed \ {Height})
                   \cup (IF f.at \in {"counted", "finished"} THEN {Height} ELSE {})
      /\ Aborting' = (Aborting \ {Height})
                       \cup (IF f.at \in {"abort", "abortSoft"} THEN {Height} ELSE {})
      /\ ~Idle' /\ Top' = f /\ Calls'[1] = Calls[1]
  BY <1>1, <1>2, <1>3, AfterBecomes
<1>5. ShapeInv'
  BY <1>1, <1>2, <1>3, ShapeBecomes
<1>6. PlaceInv'
  BY <1>2, <1>4 DEF PlaceInv
<1>7. Performing' /\ NextPinged' = NextPinged
  BY <1>1, <1>4, BottomStays
<1>8. Calls'[Height] = f /\ \A h \in Renders \ {Height} : Calls'[h] = Calls[h]
  BY <1>1, <1>3 DEF Becomes, Below
<1>9. Renders' = Renders /\ Owed' = {} /\ Aborting' = {}
  BY <1>1, <1>2, <1>4
<1> QED BY <1>3, <1>4, <1>5, <1>6, <1>7, <1>8, <1>9 DEF GoesOn

\* The frame at the top is left.
GoesUp ==
  /\ stack' \in Seq(Frames) /\ ShapeInv' /\ PlaceInv' /\ ~Idle'
  /\ Renders' = Renders \ {Height} /\ Owed' = {} /\ Aborting' = {}
  /\ Calls'[1] = Calls[1] /\ Performing' /\ NextPinged' = NextPinged
  /\ \A h \in Renders' : Calls'[h] = Calls[h]
  /\ Renders' # {} => 2 \in Renders'
  /\ Height > 2 => 2 \in Renders'
  /\ RestsLess

LEMMA RenderGoesUp ==
  ASSUME FizzInv, IsAt("render"), Leave
  PROVE  GoesUp
<1> USE DEF FizzInv
<1>1. /\ ~Idle /\ Height \in Nat /\ Height > 1 /\ Height \in Renders /\ Renders = 2..Height
      /\ Owed = {} /\ Aborting = {} /\ Performing /\ stack \in Seq(Frames)
  BY RenderTop DEF FizzTypes
<1>2. Leaves /\ stack' \in Seq(Frames)
  BY <1>1, StackLeaves
<1>3. /\ Renders' = Renders \ {Height} /\ Owed' = Owed \ {Height}
      /\ Aborting' = Aborting \ {Height}
      /\ Idle' <=> Height = 1
      /\ Calls'[1] = Calls[1]
  BY <1>1, <1>2, AfterLeaves
<1>4. ShapeInv' /\ PlaceInv' /\ ~Idle'
  BY <1>1, <1>2, <1>3, ShapeLeaves, PlaceLeaves
<1>5. Performing' /\ NextPinged' = NextPinged
  BY <1>1, <1>3, <1>4, BottomStays
<1>6. \A h \in Renders' : Calls'[h] = Calls[h]
  BY <1>1, <1>2, <1>3 DEF Leaves, Below
<1>7. (Renders' # {} => 2 \in Renders') /\ (Height > 2 => 2 \in Renders')
  BY <1>1, <1>3
<1>8. RestsLess
  BY <1>3, <1>6 DEF RestsLess
<1> QED BY <1>1, <1>2, <1>3, <1>4, <1>5, <1>6, <1>7, <1>8 DEF GoesUp
\* A step of the rendering that ends no more than the frame at the top
StaysIn ==
  /\ stack' \in Seq(Frames) /\ ShapeInv' /\ PlaceInv' /\ ~Idle'
  /\ Owed' = Owed /\ Aborting = {} /\ Aborting' = {} /\ Calls'[1] = Calls[1]
  /\ Performing /\ Performing' /\ NextPinged' = NextPinged
  /\ Renders' \subseteq Renders /\ (Renders' # {} => 2 \in Renders')
  /\ \A h \in Renders' :
       /\ Calls'[h].task = Calls[h].task /\ Calls'[h].of = Calls[h].of
       /\ Calls'[h].segment = Calls[h].segment /\ Calls'[h].boundary = Calls[h].boundary

LEMMA GoesOnStaysIn ==
  ASSUME FizzInv, IsAt("render"), NEW f \in RenderFrames, GoesOn(f),
         f.task = Top.task, f.of = Top.of, f.segment = Top.segment, f.boundary = Top.boundary
  PROVE  StaysIn /\ \A t : StaysOn(t)
<1>1. /\ Height \in Nat /\ Height > 1 /\ Height \in Renders /\ Renders = 2..Height
      /\ Top = Calls[Height] /\ Owed = {} /\ Aborting = {} /\ Performing
  BY RenderTop
<1>2. /\ Renders' = Renders
      /\ \A h \in Renders : /\ Calls'[h].task = Calls[h].task /\ Calls'[h].of = Calls[h].of
                            /\ Calls'[h].segment = Calls[h].segment
                            /\ Calls'[h].boundary = Calls[h].boundary
  BY <1>1 DEF GoesOn
<1>3. StaysIn
  BY <1>1, <1>2 DEF GoesOn, StaysIn
<1>4. \A t : StaysOn(t)
  BY <1>2 DEF StaysOn
<1> QED BY <1>3, <1>4

LEMMA GoesUpStaysIn ==
  ASSUME FizzInv, IsAt("render"), GoesUp
  PROVE  StaysIn /\ (Height > 2 => \A t : StaysOn(t)) /\ \A t : t # Top.task => StaysOn(t)
<1>1. /\ Height \in Nat /\ Height > 1 /\ Height \in Renders /\ Renders = 2..Height
      /\ Top = Calls[Height] /\ Owed = {} /\ Aborting = {} /\ Performing
      /\ \A h \in Renders : Calls[h].task = Top.task
  BY RenderTop
<1>2. StaysIn
  BY <1>1 DEF GoesUp, StaysIn
<1>3. Height > 2 => \A t : StaysOn(t)
  BY <1>1 DEF StaysOn, GoesUp
<1>4. \A t : t # Top.task => StaysOn(t)
  BY <1>1 DEF StaysOn
<1> QED BY <1>2, <1>3, <1>4

LEMMA NamesSame ==
  ASSUME NamesInv, page' = page, tasks' = tasks, DOMAIN segments' = DOMAIN segments,
         DOMAIN boundaries' = DOMAIN boundaries,
         \A b \in DOMAIN boundaries : \A i \in DOMAIN boundaries'[b].completedSegments :
           boundaries'[b].completedSegments[i] \in DOMAIN segments,
         pageRequest'.partial = pageRequest.partial,
         pageRequest'.completed = pageRequest.completed
  PROVE  NamesInv'
<1>1. \A i \in DOMAIN pageRequest'.partial : pageRequest'.partial[i] \in DOMAIN boundaries'
  BY DEF NamesInv
<1>2. \A i \in DOMAIN pageRequest'.completed : pageRequest'.completed[i] \in DOMAIN boundaries'
  BY DEF NamesInv
<1> QED BY <1>1, <1>2 DEF NamesInv

LEMMA StillRenders ==
  ASSUME FizzInv, UNCHANGED <<page, tasks, boundaries, pageRequest>>, StaysIn,
         client'.end = client.end,
         DOMAIN segments' = DOMAIN segments, suspended \subseteq suspended',
         \A s \in DOMAIN segments : segments'[s].status = segments[s].status,
         \A t \in Live : StaysOn(t) \/ t \in suspended'
  PROVE  /\ NamesInv' /\ ShapeInv' /\ RenderInv' /\ PingInv' /\ CountInv' /\ AbortInv'
         /\ PlaceInv' /\ DoneInv' /\ Live' = Live
<1> USE DEF FizzInv
<1>1. Live' = Live
  BY DEF Live, NamesInv
<1>2. NamesInv'
  BY NamesSame DEF NamesInv
<1>3. RenderInv'
  <2>1. ASSUME NEW h \in Renders'
        PROVE  /\ segments'[Calls[h].segment].status = "pending"
               /\ h # 2 => /\ Fallback(Calls[h].of) \notin DOMAIN tasks'
                           /\ segments'[Fallback(Calls[h].of)].status = "pending"
    <3>1. h \in Renders
      BY DEF StaysIn
    <3>2. Calls[h].segment \in DOMAIN segments
      <4>1. CASE h = 2
        BY <3>1, <4>1 DEF RenderInv, NamesInv
      <4>2. CASE h # 2
        BY <3>1, <4>2 DEF RenderInv, NamesInv
      <4> QED BY <4>1, <4>2
    <3>3. h # 2 => Fallback(Calls[h].of) \in DOMAIN segments
      BY <3>1 DEF RenderInv, NamesInv
    <3> QED BY <3>1, <3>2, <3>3 DEF RenderInv
  <2> QED BY <2>1, RenderLess DEF StaysIn
<1>4. PingInv'
  BY <1>1, RequestIs, PingRenders DEF StaysIn
<1>5. CountInv'
  BY <1>1, CountSame DEF StaysIn
<1>6. AbortInv'
  <2>1. AbortsLess
    BY <1>1 DEF AbortsLess, StaysIn, AbortInv
  <2>2. AbortableLess
    BY <1>1 DEF StaysIn, Performing, AbortableLess, AbortInv
  <2> QED BY <2>1, <2>2, AbortKept
<1>7. DoneInv'
  BY DEF StaysIn, DoneInv
<1> QED BY <1>1, <1>2, <1>3, <1>4, <1>5, <1>6, <1>7 DEF StaysIn

LEMMA RenderTextKeeps ==
  ASSUME FizzInv, RenderText
  PROVE  FizzInv'
<1> USE DEF FizzInv
<1>1. /\ IsAt("render") /\ Top.rest # <<>>
      /\ segments' = [segments EXCEPT ![Top.segment].hasChunks = TRUE]
      /\ UNCHANGED <<page, pageRequest, boundaries, tasks, suspended, client, delays>>
  BY DEF RenderText, Rendering
<1>2. PICK items \in Seq(PageItems) : items = <<>>
  <2>1. <<>> \in Seq(PageItems)
    OBVIOUS
  <2> QED BY <2>1
<1>3. Len(items) = 0
  BY <1>2
<1>4. PICK f \in RenderFrames :
        /\ f = [Top EXCEPT !.rest = items \o Tail(@)]
        /\ f.at = "render" /\ f.task = Top.task /\ f.of = Top.of
        /\ f.segment = Top.segment /\ f.boundary = Top.boundary
        /\ DOMAIN Top.rest = 1..Len(Top.rest) /\ Len(Top.rest) \in Nat
        /\ Top.rest[1] = Head(Top.rest) /\ 1 \in DOMAIN Top.rest
        /\ Len(items) \in Nat /\ DOMAIN f.rest = 1..(Len(items) + Len(Top.rest) - 1)
        /\ \A i \in DOMAIN f.rest :
             f.rest[i] = IF i <= Len(items) THEN items[i] ELSE Top.rest[i - Len(items) + 1]
  BY <1>1, RestIs
<1>5. stack' = <<f>> \o Tail(stack)
  BY <1>2, <1>4 DEF RenderText, GoOnWith
<1>6. GoesOn(f)
  BY <1>1, <1>5, RenderGoesOn
<1>7. StaysIn /\ \A t : StaysOn(t)
  BY <1>1, <1>4, <1>6, GoesOnStaysIn
<1>8. PICK s \in DOMAIN segments : s = Top.segment
  BY <1>1, RenderTop
<1>9. /\ DOMAIN segments' = DOMAIN segments
      /\ segments' \in [DOMAIN segments' -> SegmentRecords]
      /\ \A x \in DOMAIN segments : segments'[x].status = segments[x].status
  BY ZenonT(60), <1>1, <1>8 DEF FizzTypes, SegmentRecords
<1>10. /\ NamesInv' /\ ShapeInv' /\ RenderInv' /\ PingInv' /\ CountInv' /\ AbortInv'
       /\ PlaceInv' /\ DoneInv' /\ Live' = Live
  BY <1>1, <1>7, <1>9, StillRenders
<1>11. FizzTypes'
  BY <1>1, <1>7, <1>9 DEF FizzTypes, StaysIn, IsClient
<1>12. RestsLess
  <2>1. /\ Height \in Renders /\ Top = Calls[Height]
        /\ \A h \in Renders : Calls[h].task = Top.task
    BY <1>1, RenderTop
  <2>2. \A i \in DOMAIN f.rest :
          /\ i \in Int /\ i + 1 \in DOMAIN Top.rest /\ f.rest[i] = Top.rest[i + 1]
    BY <1>3, <1>4
  <2> QED BY <1>4, <1>6, <2>1, <2>2 DEF RestsLess, GoesOn
<1>13. PICK R : OpenedInv(R)
  OBVIOUS
<1>14. OpenedInv(R)'
  BY <1>1, <1>7, <1>10, <1>12, <1>13, OpenedLess
<1> QED BY <1>10, <1>11, <1>14

LEMMA SuspendsAgainKeeps ==
  ASSUME FizzInv, NEW c \in PageComponents, SuspendsAgain(c)
  PROVE  FizzInv'
<1> USE DEF FizzInv
<1>1. /\ IsAt("render") /\ Top.rest # <<>> /\ Head(Top.rest) = c /\ Top.task = Own(c)
      /\ suspended' = suspended \cup {Top.task} /\ Leave
      /\ UNCHANGED <<page, pageRequest, segments, boundaries, tasks, client>>
  BY DEF SuspendsAgain, Rendering
<1>2. /\ Height \in Renders /\ Top = Calls[Height] /\ Top.task \in DOMAIN tasks
      /\ \A h \in Renders : Calls[h].task = Top.task
  BY <1>1, RenderTop
<1>3. GoesUp
  BY <1>1, RenderGoesUp
<1>4. StaysIn /\ \A t : t # Top.task => StaysOn(t)
  BY <1>1, <1>3, GoesUpStaysIn
<1>5. /\ NamesInv' /\ ShapeInv' /\ RenderInv' /\ PingInv' /\ CountInv' /\ AbortInv'
      /\ PlaceInv' /\ DoneInv' /\ Live' = Live
  BY <1>1, <1>4, StillRenders
<1>6. FizzTypes'
  BY <1>1, <1>2, <1>4 DEF FizzTypes, StaysIn, IsClient
<1>7. PICK R : OpenedInv(R)
  OBVIOUS
<1>8. Own(c) \notin R
  <2>1. PICK rest \in Seq(PageItems) : rest = Top.rest
    BY <1>1, RenderTop DEF RenderFrames
  <2>2. 1 \in DOMAIN rest /\ rest[1] = c
    BY <1>1, <2>1
  <2> QED BY <1>2, <1>7, <2>1, <2>2 DEF OpenedInv
<1>9. \A t \in R : t \in Live' => t \in Live /\ StaysOn(t)
  BY <1>1, <1>4, <1>5, <1>8
<1>10. OpenedInv(R)'
  BY <1>1, <1>3, <1>7, <1>9, OpenedLess DEF GoesUp
<1> QED BY <1>5, <1>6, <1>10
\* The body of s is opened in frame k: its items are the first n of what is to be
\* rendered there.  What is left of the rest was there before, `shift` further on.
\* The items of `met` were met: they are not left.
Opens(s, k, n, shift, met) ==
  /\ k \in Renders'
  /\ \A h \in Renders' : h # k => h \in Renders /\ Calls'[h].task = Calls[h].task
  /\ k \in Renders => Calls'[k].task = Calls[k].task
  /\ \A h \in Renders' : \A i \in DOMAIN Calls'[h].rest :
       /\ i \in Int
       /\ \/ /\ h = k /\ i <= n /\ i \in DOMAIN Bodies[s]
             /\ Calls'[h].rest[i] = Bodies[s][i]
          \/ /\ ~(h = k /\ i <= n) /\ h \in Renders /\ shift[h] \in Int
             /\ i + shift[h] \in DOMAIN Calls[h].rest
             /\ Calls'[h].rest[i] = Calls[h].rest[i + shift[h]]
             /\ Calls'[h].rest[i] \notin met

LEMMA OpenedMore ==
  ASSUME NEW R, OpenedInv(R), NEW s \in SegmentNames, s \notin R, NEW k, NEW n, NEW shift,
         NEW met, Opens(s, k, n, shift, met), page \in Pages, page' = page,
         DOMAIN tasks' = DOMAIN tasks, DOMAIN boundaries \subseteq Boundaries,
         DOMAIN boundaries \subseteq DOMAIN boundaries',
         DOMAIN boundaries' \subseteq DOMAIN boundaries \cup met,
         met \subseteq PageItems \ {Text}, \A x \in met : Engaged(x, R),
         \A c \in PageComponents : s = Own(c) => c \in met,
         s \in Live' => \E h \in Renders' : Calls'[h].task = s,
         \A b \in Boundaries : /\ s = Content(b) => b \in DOMAIN boundaries'
                               /\ s = Fallback(b) => s \in DOMAIN tasks,
         \A t \in R : t \in Live' => t \in Live /\ StaysOn(t)
  PROVE  (\E Q : OpenedInv(Q))'
<1> DEFINE IsNew(h, i) == h = k /\ i <= n
<1>1. \A h \in Renders' : \A i \in DOMAIN Calls'[h].rest :
        /\ i \in Int
        /\ IsNew(h, i) => /\ h = k /\ i \in DOMAIN Bodies[s]
                          /\ Calls'[h].rest[i] = Bodies[s][i]
        /\ ~IsNew(h, i) => /\ h \in Renders /\ shift[h] \in Int
                           /\ i + shift[h] \in DOMAIN Calls[h].rest
                           /\ Calls'[h].rest[i] = Calls[h].rest[i + shift[h]]
                           /\ Calls'[h].rest[i] \notin met
  BY DEF Opens
<1> HIDE DEF IsNew
<1>2. \A h \in Renders' : h \in Renders => Calls'[h].task = Calls[h].task
  BY DEF Opens
<1>3. Bodies' = Bodies
  BY DEF Bodies, Body
<1>4. /\ \A r \in SegmentNames : Bodies[r] = Body(page, r)
      /\ \A r \in SegmentNames : Bodies[r] \in Seq(PageItems)
  BY BodyIs DEF Bodies
<1>5. \A r \in SegmentNames : \A i \in DOMAIN Bodies[s], j \in DOMAIN Bodies[r] :
        Bodies[s][i] = Bodies[r][j] /\ Bodies[s][i] # Text => s = r /\ i = j
  BY OncePerPage DEF Bodies
<1>6. \A x : (\E i \in DOMAIN Bodies[s] : Bodies[s][i] = x) /\ x # Text => ~Engaged(x, R)
  BY <1>4 DEF OpenedInv
<1>7. \A x : (\E h \in Renders : \E i \in DOMAIN Calls[h].rest : Calls[h].rest[i] = x)
             => Engaged(x, R)
  BY DEF Engaged
<1>8. \A h, g \in Renders' : \A i \in DOMAIN Calls'[h].rest, j \in DOMAIN Calls'[g].rest :
        Calls'[h].rest[i] = Calls'[g].rest[j] =>
          Calls'[h].rest[i] = Text \/ (h = g /\ i = j)
  <2> SUFFICES ASSUME NEW h \in Renders', NEW g \in Renders',
                      NEW i \in DOMAIN Calls'[h].rest, NEW j \in DOMAIN Calls'[g].rest,
                      NEW x, x = Calls'[h].rest[i], x = Calls'[g].rest[j], x # Text
               PROVE  h = g /\ i = j
    OBVIOUS
  <2>1. CASE IsNew(h, i) /\ IsNew(g, j)
    <3>1. /\ h = k /\ i \in DOMAIN Bodies[s] /\ Bodies[s][i] = x
          /\ g = k /\ j \in DOMAIN Bodies[s] /\ Bodies[s][j] = x
      BY <1>1, <2>1
    <3> QED BY <1>5, <3>1
  <2>2. CASE IsNew(h, i) /\ ~IsNew(g, j)
    <3>1. /\ i \in DOMAIN Bodies[s] /\ Bodies[s][i] = x
          /\ g \in Renders /\ j + shift[g] \in DOMAIN Calls[g].rest
          /\ Calls[g].rest[j + shift[g]] = x
      BY <1>1, <2>2
    <3> QED BY <1>6, <1>7, <3>1
  <2>3. CASE ~IsNew(h, i) /\ IsNew(g, j)
    <3>1. /\ j \in DOMAIN Bodies[s] /\ Bodies[s][j] = x
          /\ h \in Renders /\ i + shift[h] \in DOMAIN Calls[h].rest
          /\ Calls[h].rest[i + shift[h]] = x
      BY <1>1, <2>3
    <3> QED BY <1>6, <1>7, <3>1
  <2>4. CASE ~IsNew(h, i) /\ ~IsNew(g, j)
    <3>1. /\ h \in Renders /\ i + shift[h] \in DOMAIN Calls[h].rest
          /\ Calls[h].rest[i + shift[h]] = x
          /\ g \in Renders /\ j + shift[g] \in DOMAIN Calls[g].rest
          /\ Calls[g].rest[j + shift[g]] = x
          /\ i \in Int /\ j \in Int /\ shift[h] \in Int /\ shift[g] \in Int
      BY <1>1, <2>4
    <3>2. h = g /\ i + shift[h] = j + shift[g]
      BY <3>1 DEF OpenedInv
    <3> QED BY <3>1, <3>2
  <2> QED BY <2>1, <2>2, <2>3, <2>4
<1>9. PICK Q : Q = R \cup {s}
  OBVIOUS
<1>10. \A h \in Renders' : \A i \in DOMAIN Calls'[h].rest :
         /\ Calls'[h].rest[i] \in PageComponents =>
              /\ Own(Calls'[h].rest[i]) \notin Q
              /\ Own(Calls'[h].rest[i]) \in DOMAIN tasks' =>
                   Calls'[h].task = Own(Calls'[h].rest[i])
         /\ Calls'[h].rest[i] \notin DOMAIN boundaries'
  <2> SUFFICES ASSUME NEW h \in Renders', NEW i \in DOMAIN Calls'[h].rest,
                      NEW x, x = Calls'[h].rest[i]
               PROVE  /\ x \in PageComponents =>
                           /\ Own(x) \notin Q
                           /\ Own(x) \in DOMAIN tasks => Calls'[h].task = Own(x)
                      /\ x \notin DOMAIN boundaries'
    OBVIOUS
  <2>1. CASE IsNew(h, i)
    <3>1. \E j \in DOMAIN Bodies[s] : Bodies[s][j] = x
      BY <1>1, <2>1
    <3>2. x # Text => ~Engaged(x, R)
      BY <1>6, <3>1
    <3>3. x # Text => x \notin met
      BY <3>2
    <3>4. x = Text => x \notin PageComponents /\ x \notin met /\ x \notin DOMAIN boundaries
      BY FizzAssumption
    <3> QED BY <1>9, <3>2, <3>3, <3>4 DEF Engaged
  <2>2. CASE ~IsNew(h, i)
    BY <1>1, <1>2, <1>9, <2>2 DEF OpenedInv
  <2> QED BY <2>1, <2>2
<1>11. \A x \in PageItems \ {Text} : Engaged(x, Q)' =>
         \A r \in SegmentNames : \A i \in DOMAIN Bodies'[r] : Bodies'[r][i] = x => r \in Q
  <2> SUFFICES ASSUME NEW x \in PageItems \ {Text}, Engaged(x, Q)', NEW r \in SegmentNames,
                      NEW j \in DOMAIN Bodies[r], Bodies[r][j] = x
               PROVE  r \in Q
    BY <1>3
  <2>1. CASE Engaged(x, R)
    BY <1>9, <2>1 DEF OpenedInv
  <2>2. ASSUME NEW h \in Renders', NEW i \in DOMAIN Calls'[h].rest, Calls'[h].rest[i] = x
        PROVE  r \in Q
    <3>1. CASE IsNew(h, i)
      BY <1>1, <1>5, <1>9, <2>2, <3>1
    <3>2. CASE ~IsNew(h, i)
      BY <1>1, <1>7, <2>1, <2>2, <3>2
    <3> QED BY <3>1, <3>2
  <2>3. CASE x \in PageComponents /\ (Own(x) \in DOMAIN tasks' \/ Own(x) \in Q)
    BY <1>9, <2>1, <2>3 DEF Engaged
  <2>4. CASE x \in DOMAIN boundaries'
    BY <2>1, <2>4 DEF Engaged
  <2> QED BY <2>2, <2>3, <2>4 DEF Engaged
<1>12. \A t \in Q : t \in Live' => \E h \in Renders' : Calls'[h].task = t
  BY <1>9 DEF OpenedInv, StaysOn
<1>13. \A b \in Boundaries : /\ Content(b) \in Q => b \in DOMAIN boundaries'
                             /\ Fallback(b) \in Q => Fallback(b) \in DOMAIN tasks'
  BY <1>9 DEF OpenedInv
<1>14. OpenedInv(Q)'
  BY <1>8, <1>10, <1>11, <1>12, <1>13 DEF OpenedInv
<1> QED BY <1>14
LEMMA ComponentRendersKeeps ==
  ASSUME FizzInv, NEW c \in PageComponents, ComponentRenders(c)
  PROVE  FizzInv'
<1> USE DEF FizzInv
<1>1. /\ IsAt("render") /\ Top.rest # <<>> /\ Head(Top.rest) = c
      /\ UNCHANGED <<page, pageRequest, segments, boundaries, tasks, suspended, client, delays>>
  BY DEF ComponentRenders, Rendering
<1>2. PICK s \in SegmentNames : s = Own(c)
  BY NamesDiffer
<1>3. PICK items \in Seq(PageItems) : items = Body(page, s)
  BY <1>2, BodyIs DEF FizzTypes
<1>4. PICK f \in RenderFrames :
        /\ f = [Top EXCEPT !.rest = items \o Tail(@)]
        /\ f.at = "render" /\ f.task = Top.task /\ f.of = Top.of
        /\ f.segment = Top.segment /\ f.boundary = Top.boundary
        /\ DOMAIN Top.rest = 1..Len(Top.rest) /\ Len(Top.rest) \in Nat
        /\ Top.rest[1] = Head(Top.rest) /\ 1 \in DOMAIN Top.rest
        /\ Len(items) \in Nat /\ DOMAIN f.rest = 1..(Len(items) + Len(Top.rest) - 1)
        /\ \A i \in DOMAIN f.rest :
             f.rest[i] = IF i <= Len(items) THEN items[i] ELSE Top.rest[i - Len(items) + 1]
  BY <1>1, RestIs
<1>5. stack' = <<f>> \o Tail(stack)
  BY <1>2, <1>3, <1>4 DEF ComponentRenders, GoOnWith
<1>6. GoesOn(f)
  BY <1>1, <1>5, RenderGoesOn
<1>7. StaysIn /\ \A t : StaysOn(t)
  BY <1>1, <1>4, <1>6, GoesOnStaysIn
<1>8. /\ NamesInv' /\ ShapeInv' /\ RenderInv' /\ PingInv' /\ CountInv' /\ AbortInv'
      /\ PlaceInv' /\ DoneInv' /\ Live' = Live
  BY <1>1, <1>7, StillRenders
<1>9. FizzTypes'
  BY <1>1, <1>7 DEF FizzTypes, StaysIn, IsClient
<1>10. /\ Height \in Renders /\ Top = Calls[Height]
       /\ \A h \in Renders : Calls[h] \in RenderFrames
  BY <1>1, RenderTop
<1>11. PICK R : OpenedInv(R)
  OBVIOUS
<1>12. PICK n : n = Len(items)
  OBVIOUS
<1>13. PICK shift : shift = [h \in Renders |-> IF h = Height THEN 1 - n ELSE 0]
  OBVIOUS
<1>14. PICK met : met = {c}
  OBVIOUS
<1>15. Opens(s, Height, n, shift, met)
  <2>1. n \in Nat /\ Bodies[s] = items /\ DOMAIN items = 1..n
    BY <1>3, <1>12 DEF Bodies
  <2>2. ASSUME NEW h \in Renders', NEW i \in DOMAIN Calls'[h].rest
        PROVE  /\ i \in Int
               /\ \/ /\ h = Height /\ i <= n /\ i \in DOMAIN Bodies[s]
                     /\ Calls'[h].rest[i] = Bodies[s][i]
                  \/ /\ ~(h = Height /\ i <= n) /\ h \in Renders /\ shift[h] \in Int
                     /\ i + shift[h] \in DOMAIN Calls[h].rest
                     /\ Calls'[h].rest[i] = Calls[h].rest[i + shift[h]]
                     /\ Calls'[h].rest[i] \notin met
    <3>1. h \in Renders
      BY <1>6 DEF GoesOn
    <3>2. CASE h = Height
      <4>1. /\ i \in 1..(n + Len(Top.rest) - 1)
            /\ Calls'[h].rest[i] = IF i <= n THEN items[i] ELSE Top.rest[i - n + 1]
        BY <1>4, <1>6, <1>12, <3>2 DEF GoesOn
      <4>2. CASE i <= n
        BY <2>1, <3>2, <4>1, <4>2
      <4>3. CASE ~(i <= n)
        <5>1. /\ i - n + 1 \in 2..Len(Top.rest) /\ i + shift[h] = i - n + 1 /\ shift[h] \in Int
              /\ i - n + 1 # 1
          BY <1>4, <1>10, <1>13, <2>1, <3>2, <4>1, <4>3
        <5>2. i + shift[h] \in DOMAIN Calls[h].rest /\ 1 \in DOMAIN Calls[h].rest
          BY <1>4, <1>10, <3>2, <5>1
        <5>3. Calls[h].rest[1] = c /\ c # Text
          BY <1>1, <1>4, <1>10, <3>2, FizzAssumption
        <5>4. Calls[h].rest[i + shift[h]] # c
          BY <1>11, <3>1, <5>1, <5>2, <5>3 DEF OpenedInv
        <5> QED BY <1>10, <1>14, <3>1, <3>2, <4>1, <4>3, <5>1, <5>2, <5>4
      <4> QED BY <4>2, <4>3
    <3>3. CASE h # Height
      <4>1. Calls'[h] = Calls[h] /\ shift[h] = 0
        BY <1>6, <1>13, <3>1, <3>3 DEF GoesOn
      <4>2. i \in Int
        BY <1>10, <3>1, <4>1 DEF RenderFrames
      <4>3. Calls[h].rest[i] # c
        <5>1. Calls[Height].rest[1] = c /\ 1 \in DOMAIN Calls[Height].rest /\ c # Text
          BY <1>1, <1>4, <1>10, FizzAssumption
        <5> QED BY <1>10, <1>11, <3>1, <3>3, <4>1, <5>1 DEF OpenedInv
      <4> QED BY <1>14, <3>1, <3>3, <4>1, <4>2, <4>3
    <3> QED BY <3>2, <3>3
  <2>3. /\ Height \in Renders'
        /\ \A h \in Renders' : h # Height => h \in Renders /\ Calls'[h].task = Calls[h].task
        /\ Height \in Renders => Calls'[Height].task = Calls[Height].task
    BY <1>4, <1>6, <1>10 DEF GoesOn
  <2> QED BY <2>2, <2>3 DEF Opens
<1>16. /\ 1 \in DOMAIN Calls[Height].rest /\ Calls[Height].rest[1] = c
  BY <1>1, <1>4, <1>10
<1>17. s \notin R /\ (s \in DOMAIN tasks => Calls[Height].task = s)
  BY <1>2, <1>10, <1>11, <1>16 DEF OpenedInv
<1>18. Engaged(c, R)
  BY <1>10, <1>16 DEF Engaged
<1>19. /\ met \subseteq PageItems \ {Text} /\ \A x \in met : Engaged(x, R)
       /\ \A d \in PageComponents : s = Own(d) => d \in met
       /\ \A b \in Boundaries : s # Content(b) /\ s # Fallback(b)
  BY <1>2, <1>14, <1>18, NamesDiffer, FizzAssumption DEF PageItems
<1>20. s \in Live' => \E h \in Renders' : Calls'[h].task = s
  BY <1>4, <1>6, <1>8, <1>10, <1>17 DEF Live, GoesOn
<1>21. /\ page \in Pages /\ page' = page /\ DOMAIN tasks' = DOMAIN tasks
       /\ DOMAIN boundaries \subseteq Boundaries
       /\ DOMAIN boundaries \subseteq DOMAIN boundaries'
       /\ DOMAIN boundaries' \subseteq DOMAIN boundaries \cup met
       /\ \A t \in R : t \in Live' => t \in Live /\ StaysOn(t)
  BY <1>1, <1>7, <1>8 DEF FizzTypes, NamesInv
<1>22. \A b \in Boundaries : /\ s = Content(b) => b \in DOMAIN boundaries'
                             /\ s = Fallback(b) => s \in DOMAIN tasks
  BY <1>19
<1>23. (\E Q : OpenedInv(Q))'
  BY <1>11, <1>15, <1>17, <1>19, <1>20, <1>21, <1>22, OpenedMore
<1> QED BY <1>8, <1>9, <1>23
\* What a task renders: its component, or the body of its segment
LEMMA NodeIs ==
  ASSUME page \in Pages, NEW task \in TaskNames, NEW rest, rest = NodeOf(task)
  PROVE  /\ rest \in Seq(PageItems)
         /\ \/ \E c \in PageComponents : task = Own(c) /\ Len(rest) = 1 /\ rest[1] = c
            \/ (\A c \in PageComponents : task # Own(c)) /\ rest = Body(page, task)
<1>1. CASE task \in {Own(c) : c \in PageComponents}
  BY <1>1, NamesDiffer DEF PageItems, NodeOf
<1>2. CASE task \notin {Own(c) : c \in PageComponents}
  BY <1>2, NamesDiffer, BodyIs DEF NodeOf
<1> QED BY <1>1, <1>2

\* A task is retried: the first frame of its rendering is put over that of performWork.
LEMMA TaskOpens ==
  ASSUME FizzInv, page' = page, UNCHANGED <<segments, boundaries, tasks>>, Renders = {},
         NEW task \in Live, NEW g \in RenderFrames, g.task = task, g.rest = NodeOf(task),
         Renders' = {2}, Calls'[2] = g
  PROVE  (\E R : OpenedInv(R))'
<1> USE DEF FizzInv
<1>1. PICK R : OpenedInv(R)
  OBVIOUS
<1>2. Live' = Live
  BY DEF Live
<1>3. \A t \in R : t \notin Live
  BY <1>1 DEF OpenedInv
<1>4. task \in DOMAIN tasks /\ task \in TaskNames /\ page \in Pages
  BY DEF Live, NamesInv, FizzTypes
<1>5. PICK rest \in Seq(PageItems) :
        /\ rest = g.rest
        /\ \/ \E c \in PageComponents : task = Own(c) /\ Len(rest) = 1 /\ rest[1] = c
           \/ (\A c \in PageComponents : task # Own(c)) /\ rest = Body(page, task)
  BY <1>4, NodeIs DEF RenderFrames
<1>6. Len(rest) \in Nat /\ DOMAIN rest = 1..Len(rest)
  BY <1>5
<1>7. Bodies' = Bodies
  BY DEF Bodies, Body
<1>8. CASE \E c \in PageComponents : task = Own(c) /\ Len(rest) = 1 /\ rest[1] = c
  <2>1. PICK c \in PageComponents : task = Own(c) /\ Len(rest) = 1 /\ rest[1] = c
    BY <1>8
  <2>2. \A i \in DOMAIN rest : i = 1 /\ rest[i] = c
    BY <1>6, <2>1
  <2>3. \A h \in Renders' : h = 2 /\ Calls'[h].rest = rest /\ Calls'[h].task = task
    BY <1>5
  <2>4. \A h, k \in Renders' : \A i \in DOMAIN Calls'[h].rest, j \in DOMAIN Calls'[k].rest :
          Calls'[h].rest[i] = Calls'[k].rest[j] =>
            Calls'[h].rest[i] = Text \/ (h = k /\ i = j)
    BY <2>2, <2>3
  <2>5. \A h \in Renders' : \A i \in DOMAIN Calls'[h].rest :
          /\ Calls'[h].rest[i] \in PageComponents =>
               /\ Own(Calls'[h].rest[i]) \notin R
               /\ Own(Calls'[h].rest[i]) \in DOMAIN tasks' =>
                    Calls'[h].task = Own(Calls'[h].rest[i])
          /\ Calls'[h].rest[i] \notin DOMAIN boundaries'
    BY <1>3, <2>1, <2>2, <2>3, NamesDiffer DEF NamesInv
  <2>6. \A x \in PageItems \ {Text} : Engaged(x, R)' => Engaged(x, R)
    BY <1>4, <2>1, <2>2, <2>3 DEF Engaged
  <2>7. \A x \in PageItems \ {Text} : Engaged(x, R)' =>
          \A s \in SegmentNames : \A i \in DOMAIN Bodies'[s] : Bodies'[s][i] = x => s \in R
    BY <1>1, <1>7, <2>6 DEF OpenedInv
  <2>8. /\ \A t \in R : t \in Live' => \E h \in Renders' : Calls'[h].task = t
        /\ \A b \in Boundaries : /\ Content(b) \in R => b \in DOMAIN boundaries'
                                 /\ Fallback(b) \in R => Fallback(b) \in DOMAIN tasks'
    BY <1>1, <1>2, <1>3 DEF OpenedInv
  <2>9. OpenedInv(R)'
    BY <2>4, <2>5, <2>7, <2>8 DEF OpenedInv
  <2> QED BY <2>9
<1>9. CASE (\A c \in PageComponents : task # Own(c)) /\ rest = Body(page, task)
  <2>1. task \in SegmentNames /\ task \notin R /\ \A b \in Boundaries : task # Content(b)
    BY <1>3, <1>4, NamesDiffer
  <2>2. Bodies[task] = rest
    BY <1>9, <2>1 DEF Bodies
  <2>3. PICK n : n = Len(rest)
    OBVIOUS
  <2>4. PICK shift : shift = 0
    OBVIOUS
  <2>5. PICK met : met = {}
    OBVIOUS
  <2>6. Opens(task, 2, n, shift, met)
    BY <1>5, <1>6, <2>2, <2>3 DEF Opens
  <2>7. /\ DOMAIN tasks' = DOMAIN tasks /\ DOMAIN boundaries \subseteq Boundaries
        /\ DOMAIN boundaries \subseteq DOMAIN boundaries'
        /\ DOMAIN boundaries' \subseteq DOMAIN boundaries \cup met
        /\ met \subseteq PageItems \ {Text} /\ \A x \in met : Engaged(x, R)
        /\ \A c \in PageComponents : task = Own(c) => c \in met
    BY <1>9, <2>5 DEF NamesInv
  <2>8. /\ task \in Live' => \E h \in Renders' : Calls'[h].task = task
        /\ \A b \in Boundaries : /\ task = Content(b) => b \in DOMAIN boundaries'
                                 /\ task = Fallback(b) => task \in DOMAIN tasks
        /\ \A t \in R : t \in Live' => t \in Live /\ StaysOn(t)
    BY <1>2, <1>3, <1>4, <2>1
  <2> QED BY <1>1, <1>4, <2>1, <2>6, <2>7, <2>8, OpenedMore
<1> QED BY <1>5, <1>8, <1>9

LEMMA RetryTaskKeeps ==
  ASSUME FizzInv, RetryTask
  PROVE  FizzInv'
<1> USE DEF FizzInv
<1>1. /\ ~Idle /\ Top.at = "perform" /\ Top.next <= Len(pageRequest.pinged)
      /\ UNCHANGED <<page, pageRequest, segments, boundaries, tasks, suspended, client, delays>>
  BY DEF RetryTask, IsAt
<1>2. /\ Height = 1 /\ Calls[1] = Top /\ Performing /\ NextPinged = Top.next
      /\ Renders = {} /\ Owed = {} /\ Aborting = {}
  BY <1>1, AtBottom DEF Performing, NextPinged
<1>3. PICK list \in Seq(TaskNames) : list = pageRequest.pinged
  BY RequestIs
<1>4. Top \in PerformFrames
  BY <1>1, TopIs DEF FizzTypes, Frames, PlainFrames, TaskFrames, RenderFrames, FlushPlaces
<1>5. PICK n \in Nat \ {0} : n = Top.next
  BY <1>4 DEF PerformFrames
<1>6. Len(list) \in Nat /\ n \in DOMAIN list /\ DOMAIN list = 1..Len(list)
  BY <1>1, <1>3, <1>5
<1>7. PICK task : task = pageRequest.pinged[n]
  OBVIOUS
<1>8. task \in DOMAIN tasks /\ task \in TaskNames /\ task \in DOMAIN segments
  BY <1>3, <1>6, <1>7 DEF PingInv, NamesInv
<1>9. PICK f \in Frames : f = [Top EXCEPT !.next = @ + 1] /\ f.at = "perform" /\ f.next = n + 1
  <2>1. n + 1 \in Nat \ {0}
    BY <1>5
  <2>2. PICK m \in Nat \ {0} : m = n + 1
    BY <2>1
  <2>3. [Top EXCEPT !.next = @ + 1] = [Top EXCEPT !.next = m]
    BY <1>5, <2>2
  <2>4. PICK f : f = [Top EXCEPT !.next = m]
    OBVIOUS
  <2>5. f \in PerformFrames /\ f.at = "perform" /\ f.next = m
    BY <1>4, <2>2, <2>4 DEF PerformFrames
  <2> QED BY <2>2, <2>3, <2>4, <2>5 DEF Frames
<1>10. stack' = (IF segments[task].status = "pending"
                 THEN RenderFrame(task, Nil, NodeOf(task), task, tasks[task].boundary)
                 ELSE <<>>) \o <<f>> \o Tail(stack)
  BY <1>5, <1>7, <1>9 DEF RetryTask
<1>11. stack \in Seq(Frames)
  BY DEF FizzTypes
<1>12. CASE segments[task].status # "pending"
  <2>1. stack' = <<f>> \o Tail(stack)
    BY <1>10, <1>12
  <2>2. Becomes(f) /\ stack' \in Seq(Frames)
    BY <1>1, <1>11, <2>1, StackBecomes
  <2>3. /\ Renders' = {} /\ Owed' = {} /\ Aborting' = {} /\ ~Idle' /\ Top' = f
    BY <1>1, <1>2, <1>9, <1>11, <2>2, AfterBecomes
  <2>4. Height' = 1 /\ Calls'[1] = f
    BY <1>2, <2>2 DEF Becomes
  <2>5. ShapeInv'
    BY <1>9, <2>2, <2>4, ShapeStarts
  <2>6. Performing' /\ NextPinged' = n + 1
    BY <1>9, <2>3, <2>4 DEF Performing, NextPinged
  <2>7. Idle \/ Calls[1].at # "aborted"
    BY <1>1, <1>2
  <2>8. NamesInv' /\ RenderInv' /\ AbortInv' /\ (\E R : OpenedInv(R))' /\ Live' = Live
    BY <1>1, <1>2, <2>3, <2>7, StillKeeps
  <2>9. PingInv'
    <3>1. task \notin Live
      BY <1>12 DEF Live
    <3>2. n + 1 <= Len(pageRequest'.pinged) + 1
      BY <1>1, <1>3, <1>5, <1>6
    <3>3. \A t \in Live : \/ t \in suspended
                          \/ \E i \in DOMAIN pageRequest.pinged :
                               i >= n + 1 /\ pageRequest.pinged[i] = t
      BY <1>2, <1>3, <1>5, <1>6, <1>7, <3>1 DEF PingInv
    <3> QED BY <1>1, <2>3, <2>6, <2>8, <3>2, <3>3 DEF PingInv
  <2>10. CountInv'
    BY <1>1, <1>2, <2>3, <2>8, CountSame
  <2>11. PlaceInv' /\ DoneInv'
    BY <1>1, <1>9, <2>3, <2>8 DEF PlaceInv, DoneInv
  <2>12. FizzTypes'
    BY <1>1, <2>2 DEF FizzTypes, IsClient
  <2> QED BY <2>5, <2>8, <2>9, <2>10, <2>11, <2>12
<1>13. CASE segments[task].status = "pending"
  <2>1. PICK rest \in Seq(PageItems) : rest = NodeOf(task)
    BY <1>8, NodeIs DEF FizzTypes
  <2>2. PICK boundary \in MaybeBoundary : boundary = tasks[task].boundary
    BY <1>8 DEF NamesInv, MaybeBoundary
  <2>3. task \in SegmentNames /\ Nil \in MaybeBoundary
    BY <1>8, NamesDiffer DEF MaybeBoundary
  <2>4. PICK g \in RenderFrames :
          g = [at |-> "render", task |-> task, of |-> Nil, rest |-> rest,
               segment |-> task, boundary |-> boundary]
    BY <1>8, <2>1, <2>2, <2>3 DEF RenderFrames
  <2>5. g \in Frames /\ g.at = "render" /\ g.task = task /\ g.of = Nil /\ g.rest = NodeOf(task)
        /\ g.segment = task /\ g.boundary = tasks[task].boundary
    BY <2>1, <2>2, <2>4 DEF Frames
  <2>6. stack' = <<g, f>> \o Tail(stack)
    BY <1>10, <1>13, <2>1, <2>2, <2>4, <2>5, TwoFrames DEF RenderFrame
  <2>7. BecomesUnder(f, g) /\ stack' \in Seq(Frames)
    BY <1>1, <1>11, <2>5, <2>6, StackBecomesUnder
  <2>8. /\ Renders' = {2} /\ Owed' = {} /\ Aborting' = {} /\ ~Idle' /\ Top' = g
    <3>1. f.at \notin {"abort", "abortSoft", "finished", "render", "counted"}
      BY <1>9
    <3>2. /\ Renders' = (Renders \ {Height}) \cup {} \cup {Height + 1}
          /\ Owed' = (Owed \ {Height}) \cup {} /\ Aborting' = Aborting \ {Height}
          /\ ~Idle' /\ Top' = g
      BY <1>1, <1>11, <2>5, <2>7, <3>1, AfterBecomesUnder
    <3>3. Height + 1 = 2
      BY <1>2
    <3> QED BY <1>2, <3>2, <3>3
  <2>9. Height' = 2 /\ Calls'[1] = f /\ Calls'[2] = g
    BY <1>2, <2>7 DEF BecomesUnder
  <2>10. ShapeInv'
    BY <1>1, <1>2, <1>9, <1>11, <2>5, <2>7, ShapeBecomesUnder
  <2>11. Performing' /\ NextPinged' = n + 1
    BY <1>9, <2>8, <2>9 DEF Performing, NextPinged
  <2>12. Live' = Live /\ task \in Live
    BY <1>1, <1>8, <1>13 DEF Live
  <2>13. RenderInv'
    BY <1>1, <1>8, <1>13, <2>5, <2>8, <2>9 DEF RenderInv
  <2>14. PingInv'
    <3>2. n + 1 <= Len(pageRequest'.pinged) + 1
      BY <1>1, <1>3, <1>5, <1>6
    <3>3. \A t \in Live : \/ t \in suspended
                          \/ \E i \in DOMAIN pageRequest.pinged :
                               i >= n + 1 /\ pageRequest.pinged[i] = t
                          \/ t = task
      BY <1>2, <1>3, <1>5, <1>6, <1>7 DEF PingInv
    <3>4. \E h \in Renders' : Calls'[h].task = task
      BY <2>5, <2>8, <2>9
    <3> QED BY <1>1, <2>11, <2>12, <3>2, <3>3, <3>4 DEF PingInv
  <2>15. CountInv'
    BY <1>1, <1>2, <2>8, <2>12, CountSame
  <2>16. AbortInv'
    <3>1. AbortsLess
      BY <1>1, <1>2, <2>8, <2>12 DEF AbortsLess, AbortInv
    <3>2. AbortableLess
      BY <1>1, <1>2, <2>12 DEF AbortableLess, AbortInv
    <3> QED BY <3>1, <3>2, AbortKept
  <2>17. NamesInv'
    BY <1>1, NamesSame DEF NamesInv
  <2>18. PlaceInv' /\ DoneInv'
    BY <1>1, <2>5, <2>8 DEF PlaceInv, DoneInv
  <2>19. FizzTypes'
    BY <1>1, <2>7 DEF FizzTypes, IsClient
  <2>20. (\E R : OpenedInv(R))'
    BY <1>1, <1>2, <2>5, <2>8, <2>9, <2>12, TaskOpens
  <2> QED BY <2>10, <2>13, <2>14, <2>15, <2>16, <2>17, <2>18, <2>19, <2>20
<1> QED BY <1>12, <1>13
\* What comes after the item that is rendered
LEMMA NextRest ==
  ASSUME FizzInv, IsAt("render"), Top.rest # <<>>
  PROVE  /\ \E f \in RenderFrames :
              /\ f = [Top EXCEPT !.rest = Tail(@)] /\ f = [Top EXCEPT !.rest = <<>> \o Tail(@)]
              /\ f.at = "render" /\ f.task = Top.task /\ f.of = Top.of
              /\ f.segment = Top.segment /\ f.boundary = Top.boundary
              /\ \A i \in DOMAIN f.rest : /\ i \in Int /\ i + 1 \in DOMAIN Top.rest /\ i + 1 # 1
                                          /\ f.rest[i] = Top.rest[i + 1]
         /\ 1 \in DOMAIN Top.rest /\ Top.rest[1] = Head(Top.rest)
<1>1. <<>> \in Seq(PageItems)
  OBVIOUS
<1>2. PICK items \in Seq(PageItems) : items = <<>>
  BY <1>1
<1>3. PICK f \in RenderFrames :
        /\ f = [Top EXCEPT !.rest = items \o Tail(@)]
        /\ f.at = "render" /\ f.task = Top.task /\ f.of = Top.of
        /\ f.segment = Top.segment /\ f.boundary = Top.boundary
        /\ DOMAIN Top.rest = 1..Len(Top.rest) /\ Len(Top.rest) \in Nat
        /\ Top.rest[1] = Head(Top.rest) /\ 1 \in DOMAIN Top.rest
        /\ Len(items) \in Nat /\ DOMAIN f.rest = 1..(Len(items) + Len(Top.rest) - 1)
        /\ \A i \in DOMAIN f.rest :
             f.rest[i] = IF i <= Len(items) THEN items[i] ELSE Top.rest[i - Len(items) + 1]
  BY RestIs
<1>4. Len(items) = 0
  BY <1>2
<1>5. ASSUME NEW i \in DOMAIN f.rest
      PROVE  /\ i \in Int /\ i + 1 \in DOMAIN Top.rest /\ i + 1 # 1
             /\ f.rest[i] = Top.rest[i + 1]
  BY <1>3, <1>4
<1>6. PICK rest \in Seq(PageItems) : rest = Top.rest
  BY RenderTop DEF RenderFrames
<1>7. <<>> \o Tail(Top.rest) = Tail(Top.rest)
  BY <1>6, HeadTailProperties
<1>8. f = [Top EXCEPT !.rest = Tail(@)] /\ f = [Top EXCEPT !.rest = <<>> \o Tail(@)]
  BY <1>2, <1>3, <1>7
<1> QED BY <1>3, <1>5, <1>8

\* The item at the top of what is rendered is in no other place of what is left.
LEMMA HeadIsOnce ==
  ASSUME FizzInv, IsAt("render"), Top.rest # <<>>, NEW x, x = Head(Top.rest), x # Text,
         NEW R, OpenedInv(R)
  PROVE  /\ x \in PageItems /\ Engaged(x, R) /\ x \notin DOMAIN boundaries
         /\ x \in PageComponents => /\ Own(x) \notin R
                                    /\ Own(x) \in DOMAIN tasks => Top.task = Own(x)
         /\ \A h \in Renders : \A i \in DOMAIN Calls[h].rest :
              Calls[h].rest[i] = x => h = Height /\ i = 1
<1>1. /\ Height \in Renders /\ Top = Calls[Height] /\ Top \in RenderFrames
  BY RenderTop
<1>2. PICK rest \in Seq(PageItems) : rest = Calls[Height].rest
  BY <1>1 DEF RenderFrames
<1>3. 1 \in DOMAIN rest /\ rest[1] = x /\ rest[1] \in PageItems
  BY <1>1, <1>2
<1> QED BY <1>1, <1>2, <1>3 DEF OpenedInv, Engaged

LEMMA NewOnesAre ==
  /\ \A p \in BOOLEAN : NewSegment(p) \in SegmentRecords /\ NewSegment(p).status = "pending"
  /\ NewBoundary \in BoundaryRecords
  /\ NewBoundary.completedSegments = <<>> /\ NewBoundary.fallbackTasks = <<>>
<1>1. <<>> \in Seq(SegmentNames) /\ <<>> \in Seq(TaskNames) /\ "pending" \in Statuses
  BY DEF Statuses
<1>2. PICK none \in Seq(SegmentNames) : none = <<>>
  BY <1>1
<1>3. PICK never \in Seq(TaskNames) : never = <<>>
  BY <1>1
<1>4. \A p \in BOOLEAN : /\ NewSegment(p) \in SegmentRecords
                         /\ NewSegment(p).status = "pending"
  BY <1>1, <1>2 DEF NewSegment, SegmentRecords
<1>5. /\ NewBoundary \in BoundaryRecords
      /\ NewBoundary.completedSegments = <<>> /\ NewBoundary.fallbackTasks = <<>>
  BY <1>2, <1>3 DEF NewBoundary, BoundaryRecords
<1> QED BY <1>4, <1>5

\* A segment s gets a child.
LEMMA ChildIs ==
  ASSUME FizzInv, NEW s \in DOMAIN segments, NEW x \in SegmentNames,
         NEW segs, segs = [segments EXCEPT ![s].children = Append(@, x)]
  PROVE  /\ DOMAIN segs = DOMAIN segments /\ segs \in [DOMAIN segs -> SegmentRecords]
         /\ \A t \in DOMAIN segments : segs[t].status = segments[t].status
<1> USE DEF FizzInv
<1>1. segments \in [DOMAIN segments -> SegmentRecords]
  BY DEF FizzTypes
<1>2. PICK old \in SegmentRecords : old = segments[s]
  BY <1>1
<1>3. PICK children \in Seq(SegmentNames) : children = Append(old.children, x)
  <2>1. old.children \in Seq(SegmentNames)
    BY DEF SegmentRecords
  <2>2. PICK before \in Seq(SegmentNames) : before = old.children
    BY <2>1
  <2>3. Append(before, x) \in Seq(SegmentNames)
    OBVIOUS
  <2> QED BY <2>2, <2>3
<1>4. PICK new : new = [old EXCEPT !.children = children]
  OBVIOUS
<1>5. new \in SegmentRecords /\ new.status = old.status
  BY <1>3, <1>4 DEF SegmentRecords
<1>6. segs = [segments EXCEPT ![s] = new]
  BY <1>1, <1>2, <1>3, <1>4
<1> QED BY <1>1, <1>2, <1>5, <1>6

LEMMA BeginBoundaryKeeps ==
  ASSUME FizzInv, NEW b \in Boundaries, BeginBoundary(b)
  PROVE  FizzInv'
<1> USE DEF FizzInv
<1>1. /\ IsAt("render") /\ Top.rest # <<>> /\ Head(Top.rest) = b
      /\ UNCHANGED <<page, pageRequest, tasks, suspended, client, delays>>
  BY DEF BeginBoundary, Rendering
<1>2. /\ ~Idle /\ Height \in Nat /\ Height > 1 /\ Height \in Renders
      /\ Top = Calls[Height] /\ Renders = 2..Height
      /\ Owed = {} /\ Aborting = {} /\ Calls[1].at = "perform" /\ Performing
      /\ Top.task \in DOMAIN tasks /\ Top.segment \in DOMAIN segments
      /\ \A h \in Renders : Calls[h] \in RenderFrames /\ Calls[h].task = Top.task
  BY <1>1, RenderTop
<1>3. PICK f \in RenderFrames :
        /\ f = [Top EXCEPT !.rest = Tail(@)]
        /\ f.at = "render" /\ f.task = Top.task /\ f.of = Top.of
        /\ f.segment = Top.segment /\ f.boundary = Top.boundary
        /\ \A i \in DOMAIN f.rest : /\ i \in Int /\ i + 1 \in DOMAIN Top.rest /\ i + 1 # 1
                                    /\ f.rest[i] = Top.rest[i + 1]
  BY <1>1, NextRest
<1>4. PICK c, l : c = Content(b) /\ l = Fallback(b)
  OBVIOUS
<1>5. /\ c \in SegmentNames /\ l \in SegmentNames /\ b # Nil /\ c # l /\ b # Text
      /\ c \notin TaskNames /\ \A d \in PageComponents : c # Own(d) /\ l # Own(d)
      /\ \A d \in Boundaries : d # b => /\ Content(d) # c /\ Content(d) # l
                                        /\ Fallback(d) # c /\ Fallback(d) # l
  BY <1>4, NamesDiffer
<1>6. PICK items \in Seq(PageItems) : items = Body(page, c)
  BY <1>5, BodyIs DEF FizzTypes
<1>7. PICK g \in RenderFrames :
        g = [at |-> "render", task |-> Top.task, of |-> b, rest |-> items,
             segment |-> c, boundary |-> b]
  BY <1>2, <1>5 DEF NamesInv, MaybeBoundary, RenderFrames
<1>8. /\ g \in Frames /\ f \in Frames /\ g.at = "render" /\ g.task = Top.task /\ g.of = b
      /\ g.rest = items /\ g.segment = c /\ g.boundary = b
  BY <1>7 DEF Frames
<1>9. stack' = <<g, f>> \o Tail(stack)
  BY <1>3, <1>4, <1>6, <1>7, <1>8, TwoFrames DEF RenderFrame, BeginBoundary
<1>10. stack \in Seq(Frames)
  BY DEF FizzTypes
<1>11. BecomesUnder(f, g) /\ stack' \in Seq(Frames)
  BY <1>2, <1>8, <1>9, <1>10, StackBecomesUnder
<1>12. /\ Renders' = Renders \cup {Height + 1} /\ Owed' = {} /\ Aborting' = {}
       /\ ~Idle' /\ Top' = g /\ Calls'[1] = Calls[1]
  <2>1. /\ Renders' = (Renders \ {Height}) \cup {Height} \cup {Height + 1}
        /\ Owed' = (Owed \ {Height}) \cup {} /\ Aborting' = Aborting \ {Height}
        /\ ~Idle' /\ Top' = g /\ (Height > 1 => Calls'[1] = Calls[1])
    BY <1>2, <1>3, <1>8, <1>10, <1>11, AfterBecomesUnder
  <2> QED BY <1>2, <2>1
<1>13. /\ Calls'[Height] = f /\ Calls'[Height + 1] = g
       /\ \A h \in Renders \ {Height} : Calls'[h] = Calls[h]
  BY <1>2, <1>11 DEF BecomesUnder, Below
<1>14. /\ \A h \in Renders : /\ Calls'[h].task = Calls[h].task /\ Calls'[h].of = Calls[h].of
                             /\ Calls'[h].segment = Calls[h].segment
                             /\ Calls'[h].boundary = Calls[h].boundary
       /\ Height + 1 \notin Renders /\ Height + 1 # 2 /\ 2 \in Renders
  <2>1. Height + 1 \notin Renders /\ Height + 1 # 2 /\ 2 \in Renders
    BY <1>2
  <2>2. ASSUME NEW h \in Renders
        PROVE  /\ Calls'[h].task = Calls[h].task /\ Calls'[h].of = Calls[h].of
               /\ Calls'[h].segment = Calls[h].segment
               /\ Calls'[h].boundary = Calls[h].boundary
    BY <1>2, <1>3, <1>13
  <2> QED BY <2>1, <2>2
<1>15. ShapeInv'
  BY <1>2, <1>3, <1>8, <1>10, <1>11, ShapeBecomesUnder
<1>16. Performing' /\ NextPinged' = NextPinged
  BY <1>2, <1>12 DEF Performing, NextPinged
<1>17. \A t : StaysOn(t)
  BY <1>12, <1>14 DEF StaysOn
<1>18. PICK R : OpenedInv(R)
  OBVIOUS
<1>19. /\ b \in PageItems /\ Engaged(b, R) /\ b \notin DOMAIN boundaries
       /\ \A h \in Renders : \A i \in DOMAIN Calls[h].rest :
            Calls[h].rest[i] = b => h = Height /\ i = 1
  BY <1>1, <1>5, <1>18, HeadIsOnce
<1>20. c \notin DOMAIN segments /\ l \notin DOMAIN segments /\ c \notin R
  BY <1>4, <1>18, <1>19 DEF NamesInv, OpenedInv
<1>21. /\ DOMAIN segments' = DOMAIN segments \cup {c, l}
       /\ segments' \in [DOMAIN segments' -> SegmentRecords]
       /\ \A s \in DOMAIN segments : segments'[s].status = segments[s].status
       /\ segments'[c].status = "pending" /\ segments'[l].status = "pending"
  <2>1. PICK one : one = [segments EXCEPT ![Top.segment].children = Append(@, l)]
    OBVIOUS
  <2>2. PICK two : two = SetAt(one, c, NewSegment(TRUE))
    OBVIOUS
  <2>3. segments' = SetAt(two, l, NewSegment(FALSE))
    BY <1>4, <2>1, <2>2 DEF BeginBoundary
  <2>4. /\ DOMAIN one = DOMAIN segments /\ one \in [DOMAIN one -> SegmentRecords]
        /\ \A t \in DOMAIN segments : one[t].status = segments[t].status
    <3>1. PICK place \in DOMAIN segments : place = Top.segment
      BY <1>2
    <3>2. one = [segments EXCEPT ![place].children = Append(@, l)]
      BY <2>1, <3>1
    <3>3. l \in SegmentNames
      BY <1>5
    <3> QED BY ZenonT(60), <3>2, <3>3, ChildIs
  <2>5. PICK new \in SegmentRecords : new = NewSegment(TRUE) /\ new.status = "pending"
    BY NewOnesAre
  <2>6. PICK other \in SegmentRecords : other = NewSegment(FALSE) /\ other.status = "pending"
    BY NewOnesAre
  <2>7. /\ DOMAIN two = DOMAIN one \cup {c} /\ two[c] = new
        /\ \A y \in DOMAIN one : y # c => two[y] = one[y]
        /\ two \in [DOMAIN two -> SegmentRecords]
    BY <2>2, <2>4, <2>5 DEF SetAt
  <2>8. /\ DOMAIN segments' = DOMAIN two \cup {l} /\ segments'[l] = other
        /\ \A y \in DOMAIN two : y # l => segments'[y] = two[y]
        /\ segments' \in [DOMAIN segments' -> SegmentRecords]
    BY <2>3, <2>6, <2>7 DEF SetAt
  <2> QED BY <1>5, <1>20, <2>4, <2>5, <2>6, <2>7, <2>8
<1>22. /\ DOMAIN boundaries' = DOMAIN boundaries \cup {b}
       /\ boundaries' \in [DOMAIN boundaries' -> BoundaryRecords]
       /\ \A d \in DOMAIN boundaries : boundaries'[d] = boundaries[d]
       /\ boundaries'[b].completedSegments = <<>> /\ boundaries'[b].fallbackTasks = <<>>
  BY <1>19, NewOnesAre DEF BeginBoundary, FizzTypes, SetAt
<1>23. FizzTypes'
  BY <1>1, <1>11, <1>21, <1>22 DEF FizzTypes, IsClient
<1>24. Live' = Live
  BY <1>1, <1>21 DEF NamesInv, Live
<1>25. NamesInv'
  <2>1. /\ DOMAIN segments' \subseteq SegmentNames /\ DOMAIN boundaries' \subseteq Boundaries
    BY <1>5, <1>21, <1>22 DEF NamesInv
  <2>2. IsFiniteSet(DOMAIN segments')
    <3>1. IsFiniteSet(DOMAIN segments \cup {c})
      BY FS_AddElement DEF NamesInv
    <3>2. IsFiniteSet((DOMAIN segments \cup {c}) \cup {l})
      BY <3>1, FS_AddElement
    <3>3. DOMAIN segments' = (DOMAIN segments \cup {c}) \cup {l}
      BY <1>21
    <3> QED BY <3>2, <3>3
  <2>3. IsFiniteSet(DOMAIN boundaries')
    BY <1>22, FS_AddElement DEF NamesInv
  <2>4. DOMAIN tasks' \subseteq TaskNames \cap DOMAIN segments' /\ RootTask \in DOMAIN tasks'
    BY <1>1, <1>21 DEF NamesInv
  <2>5. \A d \in Boundaries : /\ Content(d) \in DOMAIN segments' <=> d \in DOMAIN boundaries'
                              /\ Fallback(d) \in DOMAIN segments' <=> d \in DOMAIN boundaries'
    BY <1>4, <1>5, <1>21, <1>22 DEF NamesInv
  <2>6. \A d \in PageComponents : Own(d) \in DOMAIN segments' => Own(d) \in DOMAIN tasks'
    BY <1>1, <1>5, <1>21 DEF NamesInv
  <2>7. \A t \in DOMAIN tasks' : /\ tasks'[t].boundary \in DOMAIN boundaries' \cup {Nil}
                                 /\ tasks'[t].abortSet \in DOMAIN boundaries' \cup {Nil}
    BY <1>1, <1>22 DEF NamesInv
  <2>8. ASSUME NEW d \in DOMAIN boundaries', NEW i \in DOMAIN boundaries'[d].completedSegments
        PROVE  boundaries'[d].completedSegments[i] \in DOMAIN segments'
    BY <1>21, <1>22 DEF NamesInv
  <2>9. /\ \A i \in DOMAIN pageRequest'.partial : pageRequest'.partial[i] \in DOMAIN boundaries'
        /\ \A i \in DOMAIN pageRequest'.completed :
             pageRequest'.completed[i] \in DOMAIN boundaries'
    BY <1>1, <1>22 DEF NamesInv
  <2> QED BY <2>1, <2>2, <2>3, <2>4, <2>5, <2>6, <2>7, <2>8, <2>9 DEF NamesInv
<1>26. RenderInv'
  <2>1. DOMAIN tasks \subseteq DOMAIN segments /\ l \notin DOMAIN tasks
    BY <1>20 DEF NamesInv
  <2>2. ASSUME NEW h \in Renders
        PROVE  /\ Calls[h].segment \in DOMAIN segments
               /\ Calls[h].of # b
               /\ h # 2 => Fallback(Calls[h].of) \in DOMAIN segments
    <3>1. CASE h = 2
      BY <1>5, <2>1, <3>1 DEF RenderInv
    <3>2. CASE h # 2
      BY <1>19, <3>2 DEF RenderInv, NamesInv
    <3> QED BY <3>1, <3>2
  <2>3. ASSUME NEW h \in Renders'
        PROVE  /\ Calls'[h].task = Calls'[2].task
               /\ Calls'[h].task \in DOMAIN tasks'
               /\ Calls'[h].of = Nil <=> h = 2
               /\ h = 2 => /\ Calls'[h].segment = Calls'[h].task
                           /\ Calls'[h].boundary = tasks'[Calls'[h].task].boundary
               /\ h # 2 => /\ Calls'[h].segment = Content(Calls'[h].of)
                           /\ Calls'[h].boundary = Calls'[h].of
                           /\ Calls'[h].of \in DOMAIN boundaries'
                           /\ Fallback(Calls'[h].of) \notin DOMAIN tasks'
                           /\ segments'[Fallback(Calls'[h].of)].status = "pending"
               /\ segments'[Calls'[h].segment].status = "pending"
               /\ \A k \in Renders' : Calls'[k].of = Calls'[h].of => k = h
    <3>1. CASE h \in Renders
      BY <1>1, <1>8, <1>12, <1>13, <1>14, <1>21, <1>22, <2>2, <3>1 DEF RenderInv
    <3>2. CASE h \notin Renders
      <4>1. h = Height + 1 /\ Calls'[h] = g
        BY <1>12, <1>13, <3>2
      <4>2. Calls'[2].task = Top.task
        BY <1>2, <1>14
      <4>3. \A k \in Renders' : Calls'[k].of = b => k = h
        BY <1>12, <1>14, <2>2, <4>1
      <4> QED BY <1>1, <1>2, <1>4, <1>5, <1>8, <1>14, <1>21, <1>22, <2>1, <4>1, <4>2, <4>3
    <3> QED BY <3>1, <3>2
  <2> QED BY <2>3 DEF RenderInv
<1>27. PingInv'
  BY <1>1, <1>2, <1>16, <1>17, <1>24, RequestIs, PingRenders
<1>28. CountInv'
  BY <1>1, <1>2, <1>12, <1>24, CountSame
<1>29. AbortInv'
  <2>1. \A d \in DOMAIN boundaries' :
          /\ OneEach(boundaries'[d].fallbackTasks)
          /\ \A i \in DOMAIN boundaries'[d].fallbackTasks :
               /\ boundaries'[d].fallbackTasks[i] \in Live'
               /\ tasks'[boundaries'[d].fallbackTasks[i]].abortSet = d
    <3> SUFFICES ASSUME NEW d \in DOMAIN boundaries'
                 PROVE  /\ OneEach(boundaries'[d].fallbackTasks)
                        /\ \A i \in DOMAIN boundaries'[d].fallbackTasks :
                             /\ boundaries'[d].fallbackTasks[i] \in Live'
                             /\ tasks'[boundaries'[d].fallbackTasks[i]].abortSet = d
      OBVIOUS
    <3>1. CASE d = b
      BY <1>22, <3>1 DEF OneEach
    <3>2. CASE d # b
      BY <1>1, <1>22, <1>24, <3>2 DEF AbortInv
    <3> QED BY <3>1, <3>2
  <2>2. ~Idle /\ Calls[1].at # "aborted"
    BY <1>2
  <2>3. /\ OneEach(pageRequest'.abortable)
        /\ \A i \in DOMAIN pageRequest'.abortable :
             /\ pageRequest'.abortable[i] \in Live'
             /\ tasks'[pageRequest'.abortable[i]].abortSet = Nil
    BY <1>1, <1>24, <2>2 DEF AbortInv
  <2> QED BY <1>12, <2>1, <2>3 DEF AbortInv
<1>30. PlaceInv' /\ DoneInv'
  BY <1>1, <1>8, <1>12 DEF PlaceInv, DoneInv
<1>31. PICK n : n = Len(items)
  OBVIOUS
<1>32. PICK shift : shift = [h \in Renders |-> IF h = Height THEN 1 ELSE 0]
  OBVIOUS
<1>33. PICK met : met = {b}
  OBVIOUS
<1>34. Opens(c, Height + 1, n, shift, met)
  <2>1. Bodies[c] = items /\ \A i \in DOMAIN items : i \in Int /\ i <= n
    BY <1>5, <1>6, <1>31 DEF Bodies
  <2>2. ASSUME NEW h \in Renders', NEW i \in DOMAIN Calls'[h].rest
        PROVE  /\ i \in Int
               /\ \/ /\ h = Height + 1 /\ i <= n /\ i \in DOMAIN Bodies[c]
                     /\ Calls'[h].rest[i] = Bodies[c][i]
                  \/ /\ ~(h = Height + 1 /\ i <= n) /\ h \in Renders /\ shift[h] \in Int
                     /\ i + shift[h] \in DOMAIN Calls[h].rest
                     /\ Calls'[h].rest[i] = Calls[h].rest[i + shift[h]]
                     /\ Calls'[h].rest[i] \notin met
    <3>1. CASE h = Height + 1
      BY <1>8, <1>13, <2>1, <3>1
    <3>2. CASE h = Height
      <4>1. /\ i \in Int /\ i + 1 \in DOMAIN Calls[Height].rest /\ i + 1 # 1
            /\ Calls'[h].rest[i] = Calls[Height].rest[i + 1]
        BY <1>2, <1>3, <1>13, <3>2
      <4>2. shift[h] = 1 /\ ~(h = Height + 1)
        BY <1>2, <1>32, <3>2
      <4>3. Calls[Height].rest[i + 1] # b
        BY <1>2, <1>19, <4>1
      <4> QED BY <1>2, <1>33, <3>2, <4>1, <4>2, <4>3
    <3>3. CASE h # Height + 1 /\ h # Height
      <4>1. h \in Renders /\ Calls'[h] = Calls[h] /\ shift[h] = 0
        BY <1>12, <1>13, <1>32, <3>3
      <4>2. i \in Int
        BY <1>2, <4>1 DEF RenderFrames
      <4>3. i + shift[h] = i
        BY <4>1, <4>2
      <4>4. Calls[h].rest[i] # b
        BY <1>19, <3>3, <4>1
      <4> QED BY <1>33, <3>3, <4>1, <4>2, <4>3, <4>4
    <3> QED BY <3>1, <3>2, <3>3
  <2>3. /\ Height + 1 \in Renders'
        /\ \A h \in Renders' : h # Height + 1 => h \in Renders /\ Calls'[h].task = Calls[h].task
        /\ Height + 1 \in Renders => Calls'[Height + 1].task = Calls[Height + 1].task
    BY <1>12, <1>14
  <2> QED BY <2>2, <2>3 DEF Opens
<1>35. /\ page \in Pages /\ page' = page /\ DOMAIN tasks' = DOMAIN tasks
       /\ DOMAIN boundaries \subseteq Boundaries
       /\ DOMAIN boundaries \subseteq DOMAIN boundaries'
       /\ DOMAIN boundaries' \subseteq DOMAIN boundaries \cup met
       /\ met \subseteq PageItems \ {Text} /\ \A x \in met : Engaged(x, R)
       /\ \A d \in PageComponents : c = Own(d) => d \in met
  BY <1>1, <1>5, <1>19, <1>22, <1>33 DEF FizzTypes, NamesInv
<1>36. /\ c \in Live' => \E h \in Renders' : Calls'[h].task = c
       /\ \A d \in Boundaries : /\ c = Content(d) => d \in DOMAIN boundaries'
                                /\ c = Fallback(d) => c \in DOMAIN tasks
       /\ \A t \in R : t \in Live' => t \in Live /\ StaysOn(t)
  BY <1>4, <1>5, <1>17, <1>22, <1>24 DEF Live, NamesInv
<1>37. (\E Q : OpenedInv(Q))'
  BY <1>5, <1>18, <1>20, <1>34, <1>35, <1>36, OpenedMore
<1> QED BY <1>15, <1>23, <1>25, <1>26, <1>27, <1>28, <1>29, <1>30, <1>37
-----------------------------------------------------------------------------
(* Tasks are created                                                         *)

LEMMA CreateTaskIs ==
  ASSUME NEW task \in TaskNames, NEW bs, bs \in [DOMAIN bs -> BoundaryRecords],
         NEW boundary \in DOMAIN bs \cup {Nil}, NEW abortSet \in DOMAIN bs \cup {Nil},
         CreateTask(task, boundary, abortSet, bs), DOMAIN bs \subseteq Boundaries,
         tasks \in [DOMAIN tasks -> TaskRecords]
  PROVE  /\ DOMAIN boundaries' = DOMAIN bs
         /\ boundaries' \in [DOMAIN boundaries' -> BoundaryRecords]
         /\ \A d \in DOMAIN bs :
              /\ boundaries'[d].completedSegments = bs[d].completedSegments
              /\ boundaries'[d].fallbackTasks =
                   IF d = abortSet THEN Append(bs[d].fallbackTasks, task)
                   ELSE bs[d].fallbackTasks
         /\ DOMAIN tasks' = DOMAIN tasks \cup {task}
         /\ tasks' \in [DOMAIN tasks' -> TaskRecords]
         /\ tasks'[task].boundary = boundary /\ tasks'[task].abortSet = abortSet
         /\ \A t \in DOMAIN tasks : t # task => tasks'[t] = tasks[t]
<1>1. PICK counted : counted = IF boundary = Nil THEN bs
                               ELSE [bs EXCEPT ![boundary].pendingTasks = @ + 1]
  OBVIOUS
<1>2. /\ tasks' = SetAt(tasks, task, [boundary |-> boundary, abortSet |-> abortSet])
      /\ boundaries' = IF abortSet = Nil THEN counted
                       ELSE [counted EXCEPT ![abortSet].fallbackTasks = Append(@, task)]
  BY <1>1 DEF CreateTask
<1>3. Nil \notin DOMAIN bs
  BY FizzAssumption
<1>4. /\ DOMAIN counted = DOMAIN bs /\ counted \in [DOMAIN counted -> BoundaryRecords]
      /\ \A d \in DOMAIN bs : /\ counted[d].completedSegments = bs[d].completedSegments
                              /\ counted[d].fallbackTasks = bs[d].fallbackTasks
  <2>1. CASE boundary = Nil
    BY <1>1, <2>1
  <2>2. CASE boundary # Nil
    <3>1. PICK old \in BoundaryRecords : old = bs[boundary]
      BY <2>2
    <3>2. PICK n \in Int : n = old.pendingTasks + 1
      BY DEF BoundaryRecords
    <3>3. PICK new : new = [old EXCEPT !.pendingTasks = n]
      OBVIOUS
    <3>4. /\ new \in BoundaryRecords /\ new.completedSegments = old.completedSegments
          /\ new.fallbackTasks = old.fallbackTasks
      BY <3>3 DEF BoundaryRecords
    <3>5. counted = [bs EXCEPT ![boundary] = new]
      BY <1>1, <2>2, <3>1, <3>2, <3>3
    <3> QED BY <2>2, <3>1, <3>4, <3>5
  <2> QED BY <2>1, <2>2
<1>5. /\ DOMAIN boundaries' = DOMAIN bs
      /\ boundaries' \in [DOMAIN boundaries' -> BoundaryRecords]
      /\ \A d \in DOMAIN bs :
           /\ boundaries'[d].completedSegments = bs[d].completedSegments
           /\ boundaries'[d].fallbackTasks =
                IF d = abortSet THEN Append(bs[d].fallbackTasks, task) ELSE bs[d].fallbackTasks
  <2>1. CASE abortSet = Nil
    BY <1>2, <1>3, <1>4, <2>1
  <2>2. CASE abortSet # Nil
    <3>1. PICK old \in BoundaryRecords : old = counted[abortSet]
      BY <1>4, <2>2
    <3>2. PICK list \in Seq(TaskNames) : list = old.fallbackTasks
      BY DEF BoundaryRecords
    <3>3. PICK more \in Seq(TaskNames) : more = Append(list, task)
      BY AppendProperties
    <3>4. PICK new : new = [old EXCEPT !.fallbackTasks = more]
      OBVIOUS
    <3>5. /\ new \in BoundaryRecords /\ new.completedSegments = old.completedSegments
          /\ new.fallbackTasks = more
      BY <3>4 DEF BoundaryRecords
    <3>6. boundaries' = [counted EXCEPT ![abortSet] = new]
      BY <1>2, <2>2, <3>1, <3>2, <3>3, <3>4
    <3> QED BY <1>4, <2>2, <3>1, <3>2, <3>3, <3>5, <3>6
  <2> QED BY <2>1, <2>2
<1>6. PICK new : new = [boundary |-> boundary, abortSet |-> abortSet]
  OBVIOUS
<1>7. new \in TaskRecords /\ new.boundary = boundary /\ new.abortSet = abortSet
  BY <1>6 DEF TaskRecords, MaybeBoundary
<1>8. tasks' = SetAt(tasks, task, new)
  BY <1>2, <1>6
<1>9. /\ DOMAIN tasks' = DOMAIN tasks \cup {task} /\ tasks'[task] = new
      /\ tasks' \in [DOMAIN tasks' -> TaskRecords]
      /\ \A t \in DOMAIN tasks : t # task => tasks'[t] = tasks[t]
  BY <1>7, <1>8 DEF SetAt
<1> QED BY <1>5, <1>7, <1>9

LEMMA CountingIs ==
  ASSUME FizzTypes, NEW task \in TaskNames, NEW boundary, NEW abortSet,
         NEW req, req = Counting(task, boundary, abortSet)
  PROVE  /\ req \in RequestRecords
         /\ req.pinged = pageRequest.pinged
         /\ req.scheduled = pageRequest.scheduled
         /\ req.status = pageRequest.status
         /\ req.allPendingTasks = pageRequest.allPendingTasks + 1
         /\ req.abortable = IF abortSet = Nil THEN Append(pageRequest.abortable, task)
                            ELSE pageRequest.abortable
         /\ req.partial = pageRequest.partial
         /\ req.completed = pageRequest.completed
<1>1. PICK all \in Int : all = pageRequest.allPendingTasks + 1
  BY RequestIs
<1>2. PICK root \in Int : root = IF boundary = Nil THEN pageRequest.pendingRootTasks + 1
                                 ELSE pageRequest.pendingRootTasks
  BY RequestIs
<1>3. PICK before \in Seq(TaskNames) : before = pageRequest.abortable
  BY RequestIs
<1>4. PICK list \in Seq(TaskNames) :
        list = IF abortSet = Nil THEN Append(before, task) ELSE before
  BY AppendProperties
<1>5. req = [pageRequest EXCEPT !.allPendingTasks = all, !.pendingRootTasks = root,
                                !.abortable = list]
  BY <1>1, <1>2, <1>3, <1>4 DEF Counting
<1> QED BY <1>1, <1>2, <1>3, <1>4, <1>5 DEF FizzTypes, RequestRecords

LEMMA OneMore ==
  ASSUME NEW S, NEW list \in Seq(S), OneEach(list), NEW t \in S,
         \A i \in DOMAIN list : list[i] # t, NEW more, more = Append(list, t)
  PROVE  /\ OneEach(more)
         /\ \A i \in DOMAIN more : more[i] = t \/ \E j \in DOMAIN list : list[j] = more[i]
<1>1. Len(list) \in Nat /\ DOMAIN list = 1..Len(list)
  OBVIOUS
<1>2. /\ DOMAIN more = 1..(Len(list) + 1) /\ more[Len(list) + 1] = t
      /\ \A i \in 1..Len(list) : more[i] = list[i]
  BY AppendProperties
<1>3. \A i \in DOMAIN more : i = Len(list) + 1 \/ i \in DOMAIN list
  BY <1>1, <1>2
<1> QED BY <1>1, <1>2, <1>3 DEF OneEach

LEMMA AbortCreated ==
  ASSUME FizzInv, Aborting' = {}, Performing, NEW task \in TaskNames, task \notin Live,
         Live' = Live \cup {task}, DOMAIN boundaries' = DOMAIN boundaries,
         NEW abortSet \in DOMAIN boundaries \cup {Nil}, tasks'[task].abortSet = abortSet,
         \A t \in DOMAIN tasks : t # task => tasks'[t] = tasks[t],
         \A d \in DOMAIN boundaries : boundaries'[d].fallbackTasks =
           IF d = abortSet THEN Append(boundaries[d].fallbackTasks, task)
           ELSE boundaries[d].fallbackTasks,
         pageRequest'.abortable = IF abortSet = Nil THEN Append(pageRequest.abortable, task)
                                  ELSE pageRequest.abortable
  PROVE  AbortInv'
<1> USE DEF FizzInv
<1>1. Nil \notin DOMAIN boundaries
  BY FizzAssumption DEF NamesInv
<1>2. task \in Live' /\ Live \subseteq Live' /\ Live \subseteq DOMAIN tasks
  BY DEF Live
<1>3. ASSUME NEW d \in DOMAIN boundaries
      PROVE  /\ OneEach(boundaries'[d].fallbackTasks)
             /\ \A i \in DOMAIN boundaries'[d].fallbackTasks :
                  /\ boundaries'[d].fallbackTasks[i] \in Live'
                  /\ tasks'[boundaries'[d].fallbackTasks[i]].abortSet = d
  <2>1. PICK list \in Seq(TaskNames) : list = boundaries[d].fallbackTasks
    BY DEF FizzTypes, BoundaryRecords
  <2>2. /\ OneEach(list)
        /\ \A i \in DOMAIN list : list[i] \in Live /\ tasks[list[i]].abortSet = d
    BY <2>1 DEF AbortInv
  <2>3. \A i \in DOMAIN list : list[i] # task
    BY <2>2
  <2>4. CASE d = abortSet
    <3>1. PICK more : more = Append(list, task)
      OBVIOUS
    <3>2. /\ OneEach(more)
          /\ \A i \in DOMAIN more : more[i] = task \/ \E j \in DOMAIN list : list[j] = more[i]
      BY <2>2, <2>3, <3>1, OneMore DEF OneEach
    <3>3. boundaries'[d].fallbackTasks = more
      BY <2>1, <2>4, <3>1
    <3>4. \A i \in DOMAIN more : more[i] \in Live' /\ tasks'[more[i]].abortSet = d
      BY <1>2, <2>2, <2>4, <3>2
    <3> QED BY <3>2, <3>3, <3>4
  <2>5. CASE d # abortSet
    BY <1>2, <2>1, <2>2, <2>5
  <2> QED BY <2>4, <2>5
<1>4. ~Idle /\ Calls[1].at # "aborted"
  BY DEF Performing
<1>5. /\ OneEach(pageRequest'.abortable)
      /\ \A i \in DOMAIN pageRequest'.abortable :
           /\ pageRequest'.abortable[i] \in Live'
           /\ tasks'[pageRequest'.abortable[i]].abortSet = Nil
  <2>1. PICK list \in Seq(TaskNames) : list = pageRequest.abortable
    BY RequestIs
  <2>2. /\ OneEach(list)
        /\ \A i \in DOMAIN list : list[i] \in Live /\ tasks[list[i]].abortSet = Nil
    BY <1>4, <2>1 DEF AbortInv
  <2>3. \A i \in DOMAIN list : list[i] # task
    BY <2>2
  <2>4. CASE abortSet = Nil
    BY <1>2, <2>1, <2>2, <2>3, <2>4, OneMore DEF OneEach
  <2>5. CASE abortSet # Nil
    BY <1>2, <2>1, <2>2, <2>5
  <2> QED BY <2>4, <2>5
<1> QED BY <1>3, <1>5 DEF AbortInv

LEMMA NamesCreated ==
  ASSUME FizzInv, page' = page, NEW task \in TaskNames,
         DOMAIN tasks' = DOMAIN tasks \cup {task},
         \A t \in DOMAIN tasks : t # task => tasks'[t] = tasks[t],
         tasks'[task].boundary \in DOMAIN boundaries \cup {Nil},
         tasks'[task].abortSet \in DOMAIN boundaries \cup {Nil},
         DOMAIN segments' = DOMAIN segments \cup {task},
         task \in DOMAIN segments \/ \E c \in PageComponents : task = Own(c),
         DOMAIN boundaries' = DOMAIN boundaries,
         \A b \in DOMAIN boundaries : \A i \in DOMAIN boundaries'[b].completedSegments :
           boundaries'[b].completedSegments[i] \in DOMAIN segments,
         pageRequest'.partial = pageRequest.partial,
         pageRequest'.completed = pageRequest.completed
  PROVE  NamesInv'
<1> USE DEF FizzInv
<1>1. DOMAIN segments' \subseteq SegmentNames
  BY NamesDiffer DEF NamesInv
<1>2. IsFiniteSet(DOMAIN segments')
  BY FS_AddElement DEF NamesInv
<1>3. DOMAIN tasks' \subseteq TaskNames \cap DOMAIN segments' /\ RootTask \in DOMAIN tasks'
  BY DEF NamesInv
<1>4. \A b \in Boundaries : /\ Content(b) \in DOMAIN segments' <=> b \in DOMAIN boundaries'
                            /\ Fallback(b) \in DOMAIN segments' <=> b \in DOMAIN boundaries'
  BY NamesDiffer DEF NamesInv
<1>5. \A c \in PageComponents : Own(c) \in DOMAIN segments' => Own(c) \in DOMAIN tasks'
  BY DEF NamesInv
<1>6. \A t \in DOMAIN tasks' : /\ tasks'[t].boundary \in DOMAIN boundaries' \cup {Nil}
                               /\ tasks'[t].abortSet \in DOMAIN boundaries' \cup {Nil}
  BY DEF NamesInv
<1>7. DOMAIN boundaries' \subseteq Boundaries /\ IsFiniteSet(DOMAIN boundaries')
  BY DEF NamesInv
<1>8. /\ \A b \in DOMAIN boundaries' :
           \A i \in DOMAIN boundaries'[b].completedSegments :
             boundaries'[b].completedSegments[i] \in DOMAIN segments'
      /\ \A i \in DOMAIN pageRequest'.partial : pageRequest'.partial[i] \in DOMAIN boundaries'
      /\ \A i \in DOMAIN pageRequest'.completed :
           pageRequest'.completed[i] \in DOMAIN boundaries'
  BY DEF NamesInv
<1> QED BY <1>1, <1>2, <1>3, <1>4, <1>5, <1>6, <1>7, <1>8 DEF NamesInv

\* What is being rendered is in the table of segments.
LEMMA RenderPlaces ==
  ASSUME FizzInv, NEW h \in Renders
  PROVE  /\ Calls[h].segment \in DOMAIN segments
         /\ Calls[h].segment \in TaskNames => Calls[h].segment = Calls[h].task
         /\ h # 2 => /\ Calls[h].of \in DOMAIN boundaries
                     /\ Fallback(Calls[h].of) \in DOMAIN segments
<1> USE DEF FizzInv
<1>1. CASE h = 2
  BY <1>1 DEF RenderInv, NamesInv
<1>2. CASE h # 2
  BY <1>2, NamesDiffer DEF RenderInv, NamesInv
<1> QED BY <1>1, <1>2
LEMMA SpawnNewSuspendedTaskKeeps ==
  ASSUME FizzInv, NEW c \in PageComponents, SpawnNewSuspendedTask(c)
  PROVE  FizzInv'
<1> USE DEF FizzInv
<1>1. /\ IsAt("render") /\ Top.rest # <<>> /\ Head(Top.rest) = c /\ Top.task # Own(c)
      /\ suspended' = suspended \cup {Own(c)} /\ UNCHANGED <<page, client, delays>>
  BY DEF SpawnNewSuspendedTask, Rendering
<1>2. /\ ~Idle /\ Height \in Renders /\ Top = Calls[Height] /\ Owed = {} /\ Performing
      /\ Top.task \in DOMAIN tasks /\ Top.segment \in DOMAIN segments
      /\ Top.boundary \in DOMAIN boundaries \cup {Nil}
      /\ \A h \in Renders : Calls[h].task = Top.task
  BY <1>1, RenderTop
<1>3. PICK f \in RenderFrames :
        /\ f = [Top EXCEPT !.rest = <<>> \o Tail(@)]
        /\ f.at = "render" /\ f.task = Top.task /\ f.of = Top.of
        /\ f.segment = Top.segment /\ f.boundary = Top.boundary
        /\ \A i \in DOMAIN f.rest : /\ i \in Int /\ i + 1 \in DOMAIN Top.rest /\ i + 1 # 1
                                    /\ f.rest[i] = Top.rest[i + 1]
  BY <1>1, NextRest
<1>4. GoesOn(f)
  BY <1>1, <1>3, RenderGoesOn DEF SpawnNewSuspendedTask, GoOnWith
<1>5. StaysIn /\ \A t : StaysOn(t)
  BY <1>1, <1>3, <1>4, GoesOnStaysIn
<1>6. PICK R : OpenedInv(R)
  OBVIOUS
<1>7. c # Text
  BY FizzAssumption
<1>8. /\ c \in PageItems /\ Engaged(c, R) /\ Own(c) \notin R
      /\ Own(c) \in DOMAIN tasks => Top.task = Own(c)
      /\ \A h \in Renders : \A i \in DOMAIN Calls[h].rest :
           Calls[h].rest[i] = c => h = Height /\ i = 1
  BY <1>1, <1>6, <1>7, HeadIsOnce
<1>9. PICK task \in TaskNames : task = Own(c)
  BY NamesDiffer
<1>10. task \notin DOMAIN tasks /\ task \notin DOMAIN segments
  BY <1>1, <1>8, <1>9 DEF NamesInv
<1>11. PICK boundary \in DOMAIN boundaries \cup {Nil} : boundary = Top.boundary
  BY <1>2
<1>12. PICK abortSet \in DOMAIN boundaries \cup {Nil} : abortSet = tasks[Top.task].abortSet
  BY <1>2 DEF NamesInv
<1>13. /\ DOMAIN boundaries' = DOMAIN boundaries
       /\ boundaries' \in [DOMAIN boundaries' -> BoundaryRecords]
       /\ \A d \in DOMAIN boundaries :
            /\ boundaries'[d].completedSegments = boundaries[d].completedSegments
            /\ boundaries'[d].fallbackTasks =
                 IF d = abortSet THEN Append(boundaries[d].fallbackTasks, task)
                 ELSE boundaries[d].fallbackTasks
       /\ DOMAIN tasks' = DOMAIN tasks \cup {task}
       /\ tasks' \in [DOMAIN tasks' -> TaskRecords]
       /\ tasks'[task].boundary = boundary /\ tasks'[task].abortSet = abortSet
       /\ \A t \in DOMAIN tasks : t # task => tasks'[t] = tasks[t]
  <2>1. PICK bs : bs = boundaries
    OBVIOUS
  <2>2. CreateTask(task, boundary, abortSet, bs)
    BY <1>9, <1>11, <1>12, <2>1 DEF SpawnNewSuspendedTask, CreateTask
  <2>3. /\ bs \in [DOMAIN bs -> BoundaryRecords] /\ DOMAIN bs \subseteq Boundaries
        /\ boundary \in DOMAIN bs \cup {Nil} /\ abortSet \in DOMAIN bs \cup {Nil}
        /\ tasks \in [DOMAIN tasks -> TaskRecords]
    BY <2>1 DEF FizzTypes, NamesInv
  <2>4. /\ DOMAIN boundaries' = DOMAIN bs
        /\ boundaries' \in [DOMAIN boundaries' -> BoundaryRecords]
        /\ \A d \in DOMAIN bs :
             /\ boundaries'[d].completedSegments = bs[d].completedSegments
             /\ boundaries'[d].fallbackTasks =
                  IF d = abortSet THEN Append(bs[d].fallbackTasks, task)
                  ELSE bs[d].fallbackTasks
        /\ DOMAIN tasks' = DOMAIN tasks \cup {task}
        /\ tasks' \in [DOMAIN tasks' -> TaskRecords]
        /\ tasks'[task].boundary = boundary /\ tasks'[task].abortSet = abortSet
        /\ \A t \in DOMAIN tasks : t # task => tasks'[t] = tasks[t]
    BY <2>2, <2>3, CreateTaskIs
  <2> QED BY <2>1, <2>4
<1>14. /\ pageRequest' \in RequestRecords
       /\ pageRequest'.pinged = pageRequest.pinged
       /\ pageRequest'.status = pageRequest.status
       /\ pageRequest'.allPendingTasks = pageRequest.allPendingTasks + 1
       /\ pageRequest'.abortable = IF abortSet = Nil THEN Append(pageRequest.abortable, task)
                                   ELSE pageRequest.abortable
       /\ pageRequest'.partial = pageRequest.partial
       /\ pageRequest'.completed = pageRequest.completed
  <2>1. PICK req : req = Counting(task, boundary, abortSet)
    OBVIOUS
  <2>2. pageRequest' = req
    BY <1>9, <1>11, <1>12, <2>1 DEF SpawnNewSuspendedTask, Counting
  <2>3. /\ req \in RequestRecords
        /\ req.pinged = pageRequest.pinged
        /\ req.status = pageRequest.status
        /\ req.allPendingTasks = pageRequest.allPendingTasks + 1
        /\ req.abortable = IF abortSet = Nil THEN Append(pageRequest.abortable, task)
                           ELSE pageRequest.abortable
        /\ req.partial = pageRequest.partial
        /\ req.completed = pageRequest.completed
    BY <2>1, CountingIs
  <2> QED BY <2>2, <2>3
<1>15. /\ DOMAIN segments' = DOMAIN segments \cup {task}
       /\ segments' \in [DOMAIN segments' -> SegmentRecords]
       /\ \A s \in DOMAIN segments : segments'[s].status = segments[s].status
       /\ segments'[task].status = "pending"
  <2>1. PICK one : one = [segments EXCEPT ![Top.segment].children = Append(@, task)]
    OBVIOUS
  <2>2. segments' = SetAt(one, task, NewSegment(FALSE))
    BY <1>9, <2>1 DEF SpawnNewSuspendedTask
  <2>3. /\ DOMAIN one = DOMAIN segments /\ one \in [DOMAIN one -> SegmentRecords]
        /\ \A t \in DOMAIN segments : one[t].status = segments[t].status
    <3>1. PICK place \in DOMAIN segments : place = Top.segment
      BY <1>2
    <3>2. one = [segments EXCEPT ![place].children = Append(@, task)]
      BY <2>1, <3>1
    <3>3. task \in SegmentNames
      BY NamesDiffer
    <3> QED BY ZenonT(60), <3>2, <3>3, ChildIs
  <2>4. PICK new \in SegmentRecords : new = NewSegment(FALSE) /\ new.status = "pending"
    BY NewOnesAre
  <2>5. /\ DOMAIN segments' = DOMAIN one \cup {task} /\ segments'[task] = new
        /\ \A y \in DOMAIN one : y # task => segments'[y] = one[y]
        /\ segments' \in [DOMAIN segments' -> SegmentRecords]
    BY <2>2, <2>3, <2>4 DEF SetAt
  <2> QED BY <1>10, <2>3, <2>4, <2>5
<1>16. FizzTypes'
  BY <1>1, <1>5, <1>9, <1>13, <1>14, <1>15 DEF FizzTypes, StaysIn, IsClient
<1>17. Live' = Live \cup {task} /\ task \notin Live
  BY <1>10, <1>13, <1>15 DEF NamesInv, Live
<1>18. NamesInv'
  <2>1. \A b \in DOMAIN boundaries : \A i \in DOMAIN boundaries'[b].completedSegments :
          boundaries'[b].completedSegments[i] \in DOMAIN segments
    BY <1>13 DEF NamesInv
  <2> QED BY <1>1, <1>9, <1>13, <1>14, <1>15, <2>1, NamesCreated
<1>19. RenderInv'
  <2>1. ASSUME NEW h \in Renders'
        PROVE  /\ segments'[Calls[h].segment].status = "pending"
               /\ h # 2 => /\ Fallback(Calls[h].of) \notin DOMAIN tasks'
                           /\ segments'[Fallback(Calls[h].of)].status = "pending"
    BY <1>5, <1>10, <1>13, <1>15, RenderPlaces DEF StaysIn, RenderInv
  <2>2. \A t \in DOMAIN tasks : tasks'[t].boundary = tasks[t].boundary
    BY <1>10, <1>13
  <2> QED BY <1>5, <1>13, <2>1, <2>2, RenderLess DEF StaysIn
<1>20. PingInv'
  <2>1. PICK list \in Seq(TaskNames) : list = pageRequest.pinged
    BY RequestIs
  <2>2. \A i \in DOMAIN list : ~(i > Len(list))
    BY <2>1
  <2>3. /\ pageRequest'.pinged \in Seq(TaskNames)
        /\ Len(pageRequest.pinged) <= Len(pageRequest'.pinged)
        /\ \A i \in DOMAIN pageRequest.pinged : pageRequest'.pinged[i] = pageRequest.pinged[i]
        /\ \A i \in DOMAIN pageRequest'.pinged : ~(i > Len(pageRequest.pinged))
        /\ DOMAIN tasks \subseteq DOMAIN tasks' /\ suspended \subseteq suspended'
        /\ pageRequest'.status = "open" => pageRequest.status = "open"
    BY <1>1, <1>13, <1>14, <2>1, <2>2
  <2>4. \A t \in Live' : (t \in Live /\ StaysOn(t)) \/ t \in suspended'
    BY <1>1, <1>5, <1>9, <1>17
  <2> QED BY <1>2, <1>5, <2>3, <2>4, PingRenders DEF StaysIn
<1>21. CountInv'
  BY <1>5, <1>14, <1>17, CountCreated DEF StaysIn, FizzTypes
<1>22. AbortInv'
  BY <1>2, <1>5, <1>13, <1>14, <1>17, AbortCreated DEF StaysIn
<1>23. PlaceInv' /\ ShapeInv' /\ DoneInv'
  BY <1>1, <1>5, <1>14 DEF StaysIn, DoneInv
<1>24. RestsLess
  BY <1>2, <1>3, <1>4 DEF RestsLess, GoesOn
<1>25. \A h \in Renders' : \A i \in DOMAIN Calls'[h].rest : Calls'[h].rest[i] # c
  <2> SUFFICES ASSUME NEW h \in Renders', NEW i \in DOMAIN Calls'[h].rest,
                      Calls'[h].rest[i] = c
               PROVE  FALSE
    OBVIOUS
  <2>1. h \in Renders
    BY <1>4 DEF GoesOn
  <2>2. CASE h = Height
    <3>1. i \in DOMAIN f.rest /\ f.rest[i] = c
      BY <1>4, <2>2 DEF GoesOn
    <3> QED BY <1>2, <1>3, <1>8, <3>1
  <2>3. CASE h # Height
    BY <1>4, <1>8, <2>1, <2>3 DEF GoesOn
  <2> QED BY <2>2, <2>3
<1>26. \A d \in PageComponents : Own(d) \in DOMAIN tasks' =>
         \/ Own(d) \in DOMAIN tasks
         \/ /\ \E h \in Renders : \E i \in DOMAIN Calls[h].rest : Calls[h].rest[i] = d
            /\ \A h \in Renders' : \A i \in DOMAIN Calls'[h].rest : Calls'[h].rest[i] # d
  BY <1>1, <1>2, <1>9, <1>13, <1>25, NamesDiffer, NextRest
<1>27. \A t \in R : t \in Live' => t \in Live /\ StaysOn(t)
  BY <1>5, <1>8, <1>9, <1>17
<1>28. OpenedInv(R)'
  BY <1>1, <1>6, <1>13, <1>24, <1>26, <1>27, OpenedLess
<1> QED BY <1>16, <1>18, <1>19, <1>20, <1>21, <1>22, <1>23, <1>28
-----------------------------------------------------------------------------
(* The content of a boundary ends                                            *)

LEMMA ParentIs ==
  ASSUME stack \in Seq(Frames), Height > 2
  PROVE  Head(Tail(stack)) = Calls[Height - 1]
<1>1. PICK st \in Seq(Frames) : st = stack
  OBVIOUS
<1>2. Len(st) \in Nat /\ Len(st) > 2 /\ st # <<>> /\ Height = Len(st)
  BY <1>1 DEF Height
<1>3. PICK rest \in Seq(Frames) : rest = Tail(st)
  BY <1>2, HeadTailProperties
<1>4. Len(rest) = Len(st) - 1 /\ \A i \in 1..Len(rest) : rest[i] = st[i + 1]
  BY <1>2, <1>3, HeadTailProperties
<1>5. rest # <<>> /\ 1 \in 1..Len(rest)
  BY <1>2, <1>4
<1>6. Head(rest) = st[2]
  BY <1>4, <1>5
<1>7. Len(st) - 1 \in 1..Len(st) /\ Len(st) + 1 - (Len(st) - 1) = 2
  BY <1>2
<1>8. Calls[Len(st) - 1] = st[2]
  BY <1>1, <1>7 DEF Calls
<1> QED BY <1>1, <1>2, <1>3, <1>6, <1>8

\* The frame at the top renders the content of b.
InContent(b) ==
  /\ Height > 2 /\ b = Top.of /\ b \in DOMAIN boundaries
  /\ Fallback(b) \notin DOMAIN tasks /\ Fallback(b) \in DOMAIN segments
  /\ segments[Fallback(b)].status = "pending"
  /\ \A h \in Renders \ {Height} :
       /\ Calls[h].segment \in DOMAIN segments \ {Content(b)}
       /\ h # 2 => /\ Calls[h].of # b
                   /\ Fallback(Calls[h].of) \in DOMAIN segments \ {Content(b), Fallback(b)}

LEMMA ContentIs ==
  ASSUME FizzInv, IsAt("render"), Top.of # Nil
  PROVE  \E b \in Boundaries : InContent(b)
<1> USE DEF FizzInv
<1>1. /\ Height \in Nat /\ Height > 1 /\ Height \in Renders /\ Top = Calls[Height]
      /\ Top.of = Nil <=> Height = 2
  BY RenderTop
<1>2. Height > 2
  BY <1>1
<1>3. PICK b : b = Top.of
  OBVIOUS
<1>4. /\ b \in DOMAIN boundaries /\ b \in Boundaries /\ Fallback(b) \notin DOMAIN tasks
      /\ segments[Fallback(b)].status = "pending" /\ Fallback(b) \in DOMAIN segments
  BY <1>1, <1>2, <1>3 DEF RenderInv, NamesInv
<1>5. ASSUME NEW h \in Renders \ {Height}
      PROVE  /\ Calls[h].segment \in DOMAIN segments \ {Content(b)}
             /\ h # 2 => /\ Calls[h].of # b
                         /\ Fallback(Calls[h].of) \in
                              DOMAIN segments \ {Content(b), Fallback(b)}
  <2>1. Calls[h].of # b
    BY <1>1, <1>3 DEF RenderInv
  <2>2. /\ Calls[h].segment \in DOMAIN segments
        /\ h # 2 => /\ Calls[h].of \in DOMAIN boundaries
                    /\ Fallback(Calls[h].of) \in DOMAIN segments
    BY RenderPlaces
  <2>3. CASE h = 2
    BY <1>4, <2>2, <2>3, NamesDiffer DEF RenderInv, NamesInv
  <2>4. CASE h # 2
    BY <1>4, <2>1, <2>2, <2>4, NamesDiffer DEF NamesInv, RenderInv
  <2> QED BY <2>3, <2>4
<1> QED BY <1>2, <1>3, <1>4, <1>5 DEF InContent

\* What the end of the content does to the segments and the boundaries
ContentEnds(b, bs) ==
  /\ Leave /\ page' = page /\ suspended' = suspended /\ client' = client
  /\ DOMAIN segments' = DOMAIN segments
  /\ segments' \in [DOMAIN segments' -> SegmentRecords]
  /\ \A s \in DOMAIN segments : s # Content(b) => segments'[s].status = segments[s].status
  /\ DOMAIN bs = DOMAIN boundaries /\ bs \in [DOMAIN bs -> BoundaryRecords]
  /\ \A d \in DOMAIN bs :
       /\ bs[d].fallbackTasks = boundaries[d].fallbackTasks
       /\ \A i \in DOMAIN bs[d].completedSegments :
            bs[d].completedSegments[i] \in DOMAIN segments

LEMMA ContentLeaves ==
  ASSUME FizzInv, IsAt("render"), Top.of # Nil, NEW b \in Boundaries, InContent(b),
         NEW bs, ContentEnds(b, bs)
  PROVE  /\ GoesUp /\ StaysIn /\ \A t : StaysOn(t)
         /\ \A t \in DOMAIN tasks : /\ t \in DOMAIN segments
                                    /\ segments'[t].status = segments[t].status
         /\ \A h \in Renders' :
              /\ segments'[Calls[h].segment].status = "pending"
              /\ h # 2 => /\ Calls[h].of \in DOMAIN boundaries /\ Calls[h].of # b
                          /\ Fallback(Calls[h].of) \notin DOMAIN tasks
                          /\ segments'[Fallback(Calls[h].of)].status = "pending"
         /\ segments'[Fallback(b)].status = "pending"
<1> USE DEF FizzInv
<1>1. GoesUp
  BY RenderGoesUp DEF ContentEnds
<1>2. StaysIn /\ \A t : StaysOn(t)
  BY <1>1, GoesUpStaysIn DEF InContent
<1>3. \A t \in DOMAIN tasks : t \in DOMAIN segments /\ segments'[t].status = segments[t].status
  BY NamesDiffer DEF NamesInv, ContentEnds
<1>4. ASSUME NEW h \in Renders'
      PROVE  /\ segments'[Calls[h].segment].status = "pending"
             /\ h # 2 => /\ Calls[h].of \in DOMAIN boundaries /\ Calls[h].of # b
                         /\ Fallback(Calls[h].of) \notin DOMAIN tasks
                         /\ segments'[Fallback(Calls[h].of)].status = "pending"
  BY <1>1 DEF GoesUp, InContent, RenderInv, ContentEnds
<1>5. segments'[Fallback(b)].status = "pending"
  BY NamesDiffer DEF InContent, ContentEnds
<1> QED BY <1>1, <1>2, <1>3, <1>4, <1>5

\* Nothing is suspended in it: the fallback is not needed.
LEMMA WithoutFallbackKeeps ==
  ASSUME FizzInv, IsAt("render"), Top.of # Nil, NEW b \in Boundaries, InContent(b),
         NEW bs, ContentEnds(b, bs), boundaries' = bs, UNCHANGED <<pageRequest, tasks>>
  PROVE  FizzInv'
<1> USE DEF FizzInv
<1>1. /\ GoesUp /\ StaysIn /\ \A t : StaysOn(t)
      /\ \A t \in DOMAIN tasks : /\ t \in DOMAIN segments
                                 /\ segments'[t].status = segments[t].status
      /\ \A h \in Renders' :
           /\ segments'[Calls[h].segment].status = "pending"
           /\ h # 2 => /\ Fallback(Calls[h].of) \notin DOMAIN tasks
                       /\ segments'[Fallback(Calls[h].of)].status = "pending"
  BY ContentLeaves
<1>2. /\ page' = page /\ suspended' = suspended /\ client' = client
      /\ DOMAIN segments' = DOMAIN segments
      /\ segments' \in [DOMAIN segments' -> SegmentRecords]
      /\ DOMAIN boundaries' = DOMAIN boundaries
      /\ boundaries' \in [DOMAIN boundaries' -> BoundaryRecords]
      /\ \A d \in DOMAIN boundaries :
           /\ boundaries'[d].fallbackTasks = boundaries[d].fallbackTasks
           /\ \A i \in DOMAIN boundaries'[d].completedSegments :
                boundaries'[d].completedSegments[i] \in DOMAIN segments
  BY DEF ContentEnds
<1>3. Live' = Live
  BY <1>1, <1>2 DEF Live
<1>4. FizzTypes'
  BY <1>1, <1>2 DEF FizzTypes, StaysIn, IsClient
<1>5. NamesInv'
  BY <1>2, NamesSame
<1>6. RenderInv'
  BY <1>1, <1>2, RenderLess DEF StaysIn
<1>7. PingInv'
  BY <1>1, <1>2, <1>3, RequestIs, PingRenders DEF StaysIn
<1>8. CountInv'
  BY <1>1, <1>3, CountSame DEF StaysIn
<1>9. AbortInv'
  <2>1. AbortsLess
    BY <1>1, <1>2, <1>3 DEF AbortsLess, StaysIn, AbortInv
  <2>2. AbortableLess
    BY <1>1, <1>3 DEF StaysIn, Performing, AbortableLess, AbortInv
  <2> QED BY <2>1, <2>2, AbortKept
<1>10. PICK R : OpenedInv(R)
  OBVIOUS
<1>11. OpenedInv(R)'
  BY <1>1, <1>2, <1>3, <1>10, OpenedLess DEF GoesUp
<1>12. PlaceInv' /\ ShapeInv' /\ DoneInv'
  BY <1>1, <1>2 DEF StaysIn, DoneInv
<1> QED BY <1>4, <1>5, <1>6, <1>7, <1>8, <1>9, <1>11, <1>12

LEMMA SpawnFallbackKeeps ==
  ASSUME FizzInv, IsAt("render"), Top.of # Nil, NEW b \in Boundaries, InContent(b),
         NEW bs, ContentEnds(b, bs), SpawnFallback(b, bs)
  PROVE  FizzInv'
<1> USE DEF FizzInv
<1>1. /\ GoesUp /\ StaysIn /\ \A t : StaysOn(t)
      /\ \A t \in DOMAIN tasks : /\ t \in DOMAIN segments
                                 /\ segments'[t].status = segments[t].status
      /\ \A h \in Renders' :
           /\ segments'[Calls[h].segment].status = "pending"
           /\ h # 2 => /\ Calls[h].of \in DOMAIN boundaries /\ Calls[h].of # b
                       /\ Fallback(Calls[h].of) \notin DOMAIN tasks
                       /\ segments'[Fallback(Calls[h].of)].status = "pending"
      /\ segments'[Fallback(b)].status = "pending"
  BY ContentLeaves
<1>2. /\ page' = page /\ suspended' = suspended /\ client' = client
      /\ DOMAIN segments' = DOMAIN segments
      /\ segments' \in [DOMAIN segments' -> SegmentRecords]
      /\ DOMAIN bs = DOMAIN boundaries
      /\ bs \in [DOMAIN bs -> BoundaryRecords]
      /\ \A d \in DOMAIN bs :
           /\ bs[d].fallbackTasks = boundaries[d].fallbackTasks
           /\ \A i \in DOMAIN bs[d].completedSegments :
                bs[d].completedSegments[i] \in DOMAIN segments
  BY DEF ContentEnds
<1>3. PICK task \in TaskNames : task = Fallback(b)
  BY NamesDiffer
<1>4. /\ task \notin DOMAIN tasks /\ task \in DOMAIN segments /\ b \in DOMAIN boundaries
      /\ \A c \in PageComponents : task # Own(c)
  BY <1>3, NamesDiffer DEF InContent
<1>5. PICK parent \in DOMAIN boundaries \cup {Nil} : parent = Head(Tail(stack)).boundary
  <2>1. Height \in Nat /\ Height > 2 /\ Renders = 2..Height
    BY RenderTop DEF InContent
  <2>2. PICK h \in Renders : h = Height - 1
    BY <2>1
  <2>3. Head(Tail(stack)) = Calls[h]
    BY <2>1, <2>2, ParentIs DEF FizzTypes
  <2>4. Calls[h].boundary \in DOMAIN boundaries \cup {Nil}
    BY DEF RenderInv, NamesInv
  <2> QED BY <2>3, <2>4
<1>6. /\ DOMAIN boundaries' = DOMAIN boundaries
      /\ boundaries' \in [DOMAIN boundaries' -> BoundaryRecords]
      /\ \A d \in DOMAIN boundaries :
           /\ boundaries'[d].completedSegments = bs[d].completedSegments
           /\ boundaries'[d].fallbackTasks =
                IF d = b THEN Append(boundaries[d].fallbackTasks, task)
                ELSE boundaries[d].fallbackTasks
      /\ DOMAIN tasks' = DOMAIN tasks \cup {task}
      /\ tasks' \in [DOMAIN tasks' -> TaskRecords]
      /\ tasks'[task].boundary = parent /\ tasks'[task].abortSet = b
      /\ \A t \in DOMAIN tasks : t # task => tasks'[t] = tasks[t]
  <2>1. CreateTask(task, parent, b, bs)
    BY <1>3, <1>5 DEF SpawnFallback, CreateTask
  <2>2. /\ DOMAIN bs \subseteq Boundaries
        /\ parent \in DOMAIN bs \cup {Nil} /\ b \in DOMAIN bs \cup {Nil}
        /\ tasks \in [DOMAIN tasks -> TaskRecords]
    BY <1>2, <1>4 DEF FizzTypes, NamesInv
  <2>3. /\ DOMAIN boundaries' = DOMAIN bs
        /\ boundaries' \in [DOMAIN boundaries' -> BoundaryRecords]
        /\ \A d \in DOMAIN bs :
             /\ boundaries'[d].completedSegments = bs[d].completedSegments
             /\ boundaries'[d].fallbackTasks =
                  IF d = b THEN Append(bs[d].fallbackTasks, task) ELSE bs[d].fallbackTasks
        /\ DOMAIN tasks' = DOMAIN tasks \cup {task}
        /\ tasks' \in [DOMAIN tasks' -> TaskRecords]
        /\ tasks'[task].boundary = parent /\ tasks'[task].abortSet = b
        /\ \A t \in DOMAIN tasks : t # task => tasks'[t] = tasks[t]
    BY <1>2, <2>1, <2>2, CreateTaskIs
  <2> QED BY <1>2, <2>3
<1>7. PICK list \in Seq(TaskNames) : list = pageRequest.pinged
  BY RequestIs
<1>8. PICK more \in Seq(TaskNames) : more = Append(list, task)
  BY AppendProperties
<1>9. /\ Len(more) = Len(list) + 1 /\ more[Len(list) + 1] = task
      /\ \A i \in DOMAIN list : more[i] = list[i]
      /\ Len(list) \in Nat /\ DOMAIN more = 1..(Len(list) + 1) /\ DOMAIN list = 1..Len(list)
  BY <1>8, AppendProperties
<1>10. b # Nil
  BY FizzAssumption
<1>11. /\ pageRequest' \in RequestRecords
       /\ pageRequest'.pinged = more
       /\ pageRequest'.status = pageRequest.status
       /\ pageRequest'.allPendingTasks = pageRequest.allPendingTasks + 1
       /\ pageRequest'.abortable = pageRequest.abortable
       /\ pageRequest'.partial = pageRequest.partial
       /\ pageRequest'.completed = pageRequest.completed
  <2>1. PICK req : req = Counting(task, parent, b)
    OBVIOUS
  <2>2. /\ req \in RequestRecords
        /\ req.pinged = pageRequest.pinged
        /\ req.status = pageRequest.status
        /\ req.allPendingTasks = pageRequest.allPendingTasks + 1
        /\ req.abortable = IF b = Nil THEN Append(pageRequest.abortable, task)
                           ELSE pageRequest.abortable
        /\ req.partial = pageRequest.partial
        /\ req.completed = pageRequest.completed
    BY <2>1, CountingIs
  <2>3. pageRequest' = [req EXCEPT !.pinged = Append(@, task)]
    BY <1>3, <1>5, <2>1 DEF SpawnFallback, Counting
  <2>4. pageRequest' = [req EXCEPT !.pinged = more]
    BY <1>7, <1>8, <2>2, <2>3
  <2> QED BY <1>10, <2>2, <2>4 DEF RequestRecords
<1>12. Live' = Live \cup {task} /\ task \notin Live
  BY <1>1, <1>2, <1>3, <1>4, <1>6 DEF Live
<1>13. FizzTypes'
  BY <1>1, <1>2, <1>6, <1>11 DEF FizzTypes, StaysIn, IsClient
<1>14. NamesInv'
  <2>1. \A d \in DOMAIN boundaries : \A i \in DOMAIN boundaries'[d].completedSegments :
          boundaries'[d].completedSegments[i] \in DOMAIN segments
    BY <1>2, <1>6
  <2>2. DOMAIN segments' = DOMAIN segments \cup {task}
    BY <1>2, <1>4
  <2>3. /\ tasks'[task].boundary \in DOMAIN boundaries \cup {Nil}
        /\ tasks'[task].abortSet \in DOMAIN boundaries \cup {Nil}
    BY <1>4, <1>6
  <2> QED BY <1>2, <1>4, <1>6, <1>11, <2>1, <2>2, <2>3, NamesCreated
<1>15. RenderInv'
  <2>1. \A h \in Renders' : h # 2 => Fallback(Calls[h].of) \notin DOMAIN tasks'
    BY <1>1, <1>3, <1>6, NamesDiffer DEF NamesInv
  <2>2. /\ DOMAIN boundaries \subseteq DOMAIN boundaries'
        /\ DOMAIN tasks \subseteq DOMAIN tasks'
        /\ \A t \in DOMAIN tasks : tasks'[t].boundary = tasks[t].boundary
    BY <1>4, <1>6
  <2> QED BY <1>1, <2>1, <2>2, RenderLess DEF StaysIn
<1>16. PingInv'
  <2>1. /\ pageRequest'.pinged \in Seq(TaskNames)
        /\ Len(pageRequest.pinged) <= Len(pageRequest'.pinged)
        /\ \A i \in DOMAIN pageRequest.pinged : pageRequest'.pinged[i] = pageRequest.pinged[i]
        /\ DOMAIN tasks \subseteq DOMAIN tasks' /\ suspended \subseteq suspended'
        /\ pageRequest'.status = "open" => pageRequest.status = "open"
    BY <1>2, <1>6, <1>7, <1>9, <1>11
  <2>2. \A i \in DOMAIN pageRequest'.pinged :
          i > Len(pageRequest.pinged) => pageRequest'.pinged[i] \in DOMAIN tasks'
    BY <1>6, <1>7, <1>9, <1>11
  <2>3. \E i \in DOMAIN pageRequest'.pinged :
          i > Len(pageRequest.pinged) /\ pageRequest'.pinged[i] = task
    BY <1>7, <1>9, <1>11
  <2> QED BY <1>1, <1>12, <2>1, <2>2, <2>3, PingRenders DEF StaysIn
<1>17. CountInv'
  BY <1>1, <1>11, <1>12, CountCreated DEF StaysIn, FizzTypes
<1>18. AbortInv'
  BY <1>1, <1>4, <1>6, <1>10, <1>11, <1>12, AbortCreated DEF StaysIn
<1>19. PICK R : OpenedInv(R)
  OBVIOUS
<1>20. OpenedInv(R)'
  <2>1. \A c \in PageComponents : Own(c) \in DOMAIN tasks' => Own(c) \in DOMAIN tasks
    BY <1>4, <1>6
  <2>2. task \notin R
    BY <1>3, <1>4, <1>19 DEF OpenedInv
  <2>3. \A t \in R : t \in Live' => t \in Live /\ StaysOn(t)
    BY <1>1, <1>12, <2>2
  <2>4. DOMAIN tasks \subseteq DOMAIN tasks' /\ RestsLess
    BY <1>1, <1>6 DEF GoesUp
  <2> QED BY <1>2, <1>6, <1>19, <2>1, <2>3, <2>4, OpenedLess
<1>21. PlaceInv' /\ ShapeInv' /\ DoneInv'
  BY <1>1, <1>2, <1>11 DEF StaysIn, DoneInv
<1> QED BY <1>13, <1>14, <1>15, <1>16, <1>17, <1>18, <1>20, <1>21
LEMMA ContentThrowsKeeps ==
  ASSUME FizzInv, NEW c \in PageComponents, ContentThrows(c)
  PROVE  FizzInv'
<1> USE DEF FizzInv
<1>1. /\ IsAt("render") /\ Top.of # Nil /\ Leave
      /\ segments' = [segments EXCEPT ![Content(Top.of)].status = "errored"]
      /\ SpawnFallback(Top.of, [boundaries EXCEPT ![Top.of].forceClientRender = TRUE])
      /\ UNCHANGED <<page, suspended, client, delays>>
  BY DEF ContentThrows, Rendering
<1>2. PICK b \in Boundaries : InContent(b)
  BY <1>1, ContentIs
<1>3. b = Top.of /\ b \in DOMAIN boundaries
  BY <1>2 DEF InContent
<1>4. PICK bs : bs = [boundaries EXCEPT ![b].forceClientRender = TRUE]
  OBVIOUS
<1>5. PICK s \in DOMAIN segments : s = Content(b)
  BY <1>3 DEF NamesInv
<1>6. /\ DOMAIN segments' = DOMAIN segments
      /\ segments' \in [DOMAIN segments' -> SegmentRecords]
      /\ \A x \in DOMAIN segments : x # s => segments'[x].status = segments[x].status
  BY ZenonT(60), <1>1, <1>3, <1>5 DEF FizzTypes, SegmentRecords, Statuses
<1>7. /\ DOMAIN bs = DOMAIN boundaries /\ bs \in [DOMAIN bs -> BoundaryRecords]
      /\ \A d \in DOMAIN bs :
           /\ bs[d].fallbackTasks = boundaries[d].fallbackTasks
           /\ bs[d].completedSegments = boundaries[d].completedSegments
  <2>1. PICK old \in BoundaryRecords : old = boundaries[b]
    BY <1>3 DEF FizzTypes
  <2>2. PICK record : record = [old EXCEPT !.forceClientRender = TRUE]
    OBVIOUS
  <2>3. /\ record \in BoundaryRecords /\ record.fallbackTasks = old.fallbackTasks
        /\ record.completedSegments = old.completedSegments
    BY <2>1, <2>2 DEF BoundaryRecords
  <2>4. bs = [boundaries EXCEPT ![b] = record]
    BY <1>4, <2>1, <2>2
  <2> QED BY <1>3, <2>1, <2>3, <2>4 DEF FizzTypes
<1>8. ContentEnds(b, bs)
  BY <1>1, <1>5, <1>6, <1>7 DEF ContentEnds, NamesInv
<1>9. SpawnFallback(b, bs)
  BY Zenon, <1>1, <1>3, <1>4
<1> QED BY <1>1, <1>2, <1>8, <1>9, SpawnFallbackKeeps

LEMMA EndContentKeeps ==
  ASSUME FizzInv, EndContent
  PROVE  FizzInv'
<1> USE DEF FizzInv
<1>1. /\ IsAt("render") /\ Top.of # Nil /\ Leave
      /\ UNCHANGED <<page, suspended, client, delays>>
  BY DEF EndContent
<1>2. PICK b \in Boundaries : InContent(b)
  BY <1>1, ContentIs
<1>3. b = Top.of /\ b \in DOMAIN boundaries
  BY <1>2 DEF InContent
<1>4. PICK s \in DOMAIN segments : s = Content(b)
  BY <1>3 DEF NamesInv
<1>5. PICK done : done = [segments EXCEPT ![s].status = "completed"]
  OBVIOUS
<1>6. /\ DOMAIN done = DOMAIN segments /\ done \in [DOMAIN done -> SegmentRecords]
      /\ \A x \in DOMAIN segments : x # s => done[x].status = segments[x].status
  <2>1. PICK old \in SegmentRecords : old = segments[s]
    BY <1>4 DEF FizzTypes
  <2>2. PICK record : record = [old EXCEPT !.status = "completed"]
    OBVIOUS
  <2>3. record \in SegmentRecords
    BY <2>1, <2>2 DEF SegmentRecords, Statuses
  <2>4. done = [segments EXCEPT ![s] = record]
    BY <1>4, <1>5, <2>1, <2>2
  <2> QED BY <1>4, <2>3, <2>4 DEF FizzTypes
<1>7. PICK bs : bs = boundaries
  OBVIOUS
<1>8. PICK q : q = QueueCompleted(b, s, done, bs)
  OBVIOUS
<1>9. /\ q[1] \in [DOMAIN done -> SegmentRecords]
      /\ \A x \in DOMAIN done : q[1][x].status = done[x].status
      /\ DOMAIN q[2] = DOMAIN bs /\ q[2] \in [DOMAIN bs -> BoundaryRecords]
      /\ \A d \in DOMAIN bs :
           /\ q[2][d].fallbackTasks = bs[d].fallbackTasks
           /\ \A i \in DOMAIN q[2][d].completedSegments :
                \/ q[2][d].completedSegments[i] \in DOMAIN done
                \/ \E j \in DOMAIN bs[d].completedSegments :
                     bs[d].completedSegments[j] = q[2][d].completedSegments[i]
  <2>1. /\ done \in [DOMAIN done -> SegmentRecords] /\ IsFiniteSet(DOMAIN done)
        /\ DOMAIN done \subseteq SegmentNames /\ s \in DOMAIN done
        /\ bs \in [DOMAIN bs -> BoundaryRecords] /\ b \in DOMAIN bs
    BY <1>3, <1>6, <1>7 DEF FizzTypes, NamesInv
  <2> QED BY SMTT(30), <1>8, <2>1, QueuedIs
<1>10. /\ segments' = q[1]
       /\ IF q[2][b].pendingTasks = 0
          THEN boundaries' = q[2] /\ UNCHANGED <<pageRequest, tasks>>
          ELSE SpawnFallback(b, q[2])
  <2>1. q = QueueCompleted(Top.of, Content(Top.of),
              [segments EXCEPT ![Content(Top.of)].status = "completed"], boundaries)
    BY <1>3, <1>4, <1>5, <1>7, <1>8
  <2> QED BY <1>3, <2>1 DEF EndContent, SpawnFallback, CreateTask
<1>11. PICK after : after = q[2]
  OBVIOUS
<1>12. ContentEnds(b, after)
  BY <1>1, <1>4, <1>6, <1>7, <1>9, <1>10, <1>11 DEF NamesInv, ContentEnds
<1>13. CASE q[2][b].pendingTasks = 0
  BY <1>1, <1>2, <1>10, <1>11, <1>12, <1>13, WithoutFallbackKeeps
<1>14. CASE q[2][b].pendingTasks # 0
  BY <1>1, <1>2, <1>10, <1>11, <1>12, <1>14, SpawnFallbackKeeps DEF SpawnFallback,
     CreateTask
<1> QED BY <1>13, <1>14
-----------------------------------------------------------------------------
(* A task ends                                                               *)

\* The task leaves the set of those to abort that it is in.
LEMMA LeaveAbortSetIs ==
  ASSUME FizzInv, Performing, NEW task \in DOMAIN tasks,
         NEW req \in RequestRecords, req.abortable = pageRequest.abortable,
         NEW bs, DOMAIN bs = DOMAIN boundaries, bs \in [DOMAIN bs -> BoundaryRecords],
         \A d \in DOMAIN bs : bs[d].fallbackTasks = boundaries[d].fallbackTasks,
         LeaveAbortSet(task, req, bs)
  PROVE  /\ pageRequest' \in RequestRecords
         /\ pageRequest'.pinged = req.pinged /\ pageRequest'.scheduled = req.scheduled
         /\ pageRequest'.status = req.status
         /\ pageRequest'.allPendingTasks = req.allPendingTasks
         /\ pageRequest'.partial = req.partial /\ pageRequest'.completed = req.completed
         /\ OneEach(pageRequest'.abortable)
         /\ \A i \in DOMAIN pageRequest'.abortable :
              /\ pageRequest'.abortable[i] # task
              /\ \E j \in DOMAIN pageRequest.abortable :
                   pageRequest.abortable[j] = pageRequest'.abortable[i]
         /\ DOMAIN boundaries' = DOMAIN boundaries
         /\ boundaries' \in [DOMAIN boundaries' -> BoundaryRecords]
         /\ \A d \in DOMAIN boundaries :
              /\ boundaries'[d].completedSegments = bs[d].completedSegments
              /\ OneEach(boundaries'[d].fallbackTasks)
              /\ \A i \in DOMAIN boundaries'[d].fallbackTasks :
                   /\ boundaries'[d].fallbackTasks[i] # task
                   /\ \E j \in DOMAIN boundaries[d].fallbackTasks :
                        boundaries[d].fallbackTasks[j] = boundaries'[d].fallbackTasks[i]
<1> USE DEF FizzInv
<1>1. PICK abortSet \in DOMAIN boundaries \cup {Nil} : abortSet = tasks[task].abortSet
  BY DEF NamesInv
<1>2. PICK list \in Seq(TaskNames) : list = pageRequest.abortable
  BY RequestIs
<1>3. ~Idle /\ Calls[1].at # "aborted"
  BY DEF Performing
<1>4. OneEach(list) /\ \A i \in DOMAIN list : tasks[list[i]].abortSet = Nil
  BY <1>2, <1>3 DEF AbortInv
<1>5. ASSUME NEW d \in DOMAIN boundaries
      PROVE  \E l \in Seq(TaskNames) :
               /\ l = boundaries[d].fallbackTasks /\ OneEach(l)
               /\ \A i \in DOMAIN l : tasks[l[i]].abortSet = d
  BY DEF FizzTypes, BoundaryRecords, AbortInv
<1>6. Nil \notin DOMAIN boundaries
  BY FizzAssumption DEF NamesInv
<1>7. CASE abortSet = Nil
  <2>1. pageRequest' = [req EXCEPT !.abortable = RemoveFirst(@, task)] /\ boundaries' = bs
    BY <1>1, <1>7 DEF LeaveAbortSet
  <2>2. PICK rest : rest = RemoveFirst(list, task)
    OBVIOUS
  <2>3. /\ rest \in Seq(TaskNames) /\ OneEach(rest)
        /\ \A i \in DOMAIN rest : rest[i] # task /\ \E j \in DOMAIN list : list[j] = rest[i]
    BY <1>4, <2>2, RemoveFirstIs DEF OneEach
  <2>4. pageRequest' = [req EXCEPT !.abortable = rest]
    BY <1>2, <2>1, <2>2
  <2>5. /\ pageRequest' \in RequestRecords
        /\ pageRequest'.pinged = req.pinged /\ pageRequest'.scheduled = req.scheduled
        /\ pageRequest'.status = req.status
        /\ pageRequest'.allPendingTasks = req.allPendingTasks
        /\ pageRequest'.partial = req.partial /\ pageRequest'.completed = req.completed
        /\ pageRequest'.abortable = rest
    BY <2>3, <2>4 DEF RequestRecords
  <2>6. ASSUME NEW d \in DOMAIN boundaries
        PROVE  /\ boundaries'[d].completedSegments = bs[d].completedSegments
               /\ OneEach(boundaries'[d].fallbackTasks)
               /\ \A i \in DOMAIN boundaries'[d].fallbackTasks :
                    /\ boundaries'[d].fallbackTasks[i] # task
                    /\ \E j \in DOMAIN boundaries[d].fallbackTasks :
                         boundaries[d].fallbackTasks[j] = boundaries'[d].fallbackTasks[i]
    <3>1. PICK l \in Seq(TaskNames) :
            /\ l = boundaries[d].fallbackTasks /\ OneEach(l)
            /\ \A i \in DOMAIN l : tasks[l[i]].abortSet = d
      BY <1>5
    <3>2. \A i \in DOMAIN l : l[i] # task
      BY <1>1, <1>6, <1>7, <3>1
    <3>3. boundaries'[d] = bs[d] /\ boundaries'[d].fallbackTasks = l
      BY <2>1, <3>1
    <3> QED BY <3>1, <3>2, <3>3
  <2> QED BY <1>2, <2>1, <2>3, <2>5, <2>6
<1>8. CASE abortSet # Nil
  <2>1. /\ pageRequest' = req
        /\ boundaries' = [bs EXCEPT ![abortSet].fallbackTasks = RemoveFirst(@, task)]
    BY <1>1, <1>8 DEF LeaveAbortSet
  <2>2. \A i \in DOMAIN list : list[i] # task
    BY <1>1, <1>4, <1>8
  <2>3. PICK old \in BoundaryRecords : old = bs[abortSet]
    BY <1>8
  <2>4. PICK l \in Seq(TaskNames) : l = boundaries[abortSet].fallbackTasks /\ OneEach(l)
    BY <1>5, <1>8
  <2>5. PICK rest : rest = RemoveFirst(l, task)
    OBVIOUS
  <2>6. /\ rest \in Seq(TaskNames) /\ OneEach(rest)
        /\ \A i \in DOMAIN rest : rest[i] # task /\ \E j \in DOMAIN l : l[j] = rest[i]
    BY <2>4, <2>5, RemoveFirstIs DEF OneEach
  <2>7. PICK new : new = [old EXCEPT !.fallbackTasks = rest]
    OBVIOUS
  <2>8. /\ new \in BoundaryRecords /\ new.completedSegments = old.completedSegments
        /\ new.fallbackTasks = rest
    BY <2>3, <2>6, <2>7 DEF BoundaryRecords
  <2>9. old.fallbackTasks = l
    BY <1>8, <2>3, <2>4
  <2>10. boundaries' = [bs EXCEPT ![abortSet] = new]
    BY <2>1, <2>3, <2>5, <2>7, <2>9
  <2>11. /\ DOMAIN boundaries' = DOMAIN boundaries
         /\ boundaries' \in [DOMAIN boundaries' -> BoundaryRecords]
         /\ boundaries'[abortSet] = new
         /\ \A d \in DOMAIN boundaries : d # abortSet => boundaries'[d] = bs[d]
    BY <1>8, <2>8, <2>10
  <2>12. ASSUME NEW d \in DOMAIN boundaries
         PROVE  /\ boundaries'[d].completedSegments = bs[d].completedSegments
                /\ OneEach(boundaries'[d].fallbackTasks)
                /\ \A i \in DOMAIN boundaries'[d].fallbackTasks :
                     /\ boundaries'[d].fallbackTasks[i] # task
                     /\ \E j \in DOMAIN boundaries[d].fallbackTasks :
                          boundaries[d].fallbackTasks[j] = boundaries'[d].fallbackTasks[i]
    <3>1. CASE d = abortSet
      BY <2>3, <2>4, <2>6, <2>8, <2>11, <3>1
    <3>2. CASE d # abortSet
      <4>1. PICK m \in Seq(TaskNames) :
              /\ m = boundaries[d].fallbackTasks /\ OneEach(m)
              /\ \A i \in DOMAIN m : tasks[m[i]].abortSet = d
        BY <1>5
      <4>2. \A i \in DOMAIN m : m[i] # task
        BY <1>1, <3>2, <4>1
      <4>3. boundaries'[d] = bs[d] /\ boundaries'[d].fallbackTasks = m
        BY <2>11, <3>2, <4>1
      <4> QED BY <4>1, <4>2, <4>3
    <3> QED BY <3>1, <3>2
  <2>13. /\ pageRequest' \in RequestRecords /\ pageRequest'.abortable = list
         /\ OneEach(list) /\ \A i \in DOMAIN list : list[i] # task
    BY <1>2, <1>4, <2>1, <2>2
  <2> QED BY <1>2, <2>1, <2>11, <2>12, <2>13
<1> QED BY <1>7, <1>8

LEMMA TaskEnds ==
  ASSUME FizzInv, IsAt("render"), Top.of = Nil, NEW how \in Statuses, how # "pending",
         segments' = [segments EXCEPT ![Top.segment].status = how],
         NEW f \in Frames, stack' = <<f>> \o Tail(stack),
         f.at = "counted" \/ (f.at = "finished" /\ f.task = Top.task),
         NEW req \in RequestRecords,
         req.pinged = pageRequest.pinged, req.allPendingTasks = pageRequest.allPendingTasks,
         req.abortable = pageRequest.abortable, req.partial = pageRequest.partial,
         req.completed = pageRequest.completed,
         req.status = "open" => pageRequest.status = "open" /\ client'.end = client.end,
         NEW bs, DOMAIN bs = DOMAIN boundaries, bs \in [DOMAIN bs -> BoundaryRecords],
         \A d \in DOMAIN bs : /\ bs[d].fallbackTasks = boundaries[d].fallbackTasks
                              /\ bs[d].completedSegments = boundaries[d].completedSegments,
         LeaveAbortSet(Top.task, req, bs),
         UNCHANGED <<page, tasks, suspended>>, IsClient(client)'
  PROVE  FizzInv'
<1> USE DEF FizzInv
<1>1. /\ ~Idle /\ Height \in Nat /\ Height = 2 /\ Renders = 2..Height
      /\ Top = Calls[Height] /\ Owed = {} /\ Aborting = {} /\ Performing
      /\ Calls[1].at = "perform" /\ Top.task \in DOMAIN tasks /\ Top.task \in Live
      /\ Top.segment = Top.task
      /\ \A h \in Renders : Calls[h].task = Top.task
  BY RenderTop
<1>2. PICK task \in DOMAIN tasks : task = Top.task /\ task \in Live
  BY <1>1
<1>3. stack \in Seq(Frames)
  BY DEF FizzTypes
<1>4. Becomes(f) /\ stack' \in Seq(Frames)
  BY <1>1, <1>3, StackBecomes
<1>5. Renders = {2} /\ Height > 1 /\ Renders \subseteq {Height}
  BY <1>1
<1>6. /\ Renders' = {} /\ Owed' = Owed \cup {Height} /\ Aborting' = {}
      /\ ~Idle' /\ Top' = f /\ Calls'[1] = Calls[1]
  BY <1>1, <1>3, <1>4, <1>5, AfterBecomes
<1>7. ShapeInv'
  BY <1>1, <1>3, <1>4, <1>5, ShapeBecomes
<1>8. Performing' /\ NextPinged' = NextPinged
  BY <1>1, <1>6 DEF Performing, NextPinged
<1>9. /\ DOMAIN segments' = DOMAIN segments
      /\ segments' \in [DOMAIN segments' -> SegmentRecords]
      /\ Live' = Live \ {task}
  BY <1>1, <1>2, SegmentGets
<1>10. LeaveAbortSet(task, req, bs)
  BY <1>2 DEF LeaveAbortSet
<1>11. /\ pageRequest' \in RequestRecords
       /\ pageRequest'.pinged = req.pinged /\ pageRequest'.scheduled = req.scheduled
       /\ pageRequest'.status = req.status
       /\ pageRequest'.allPendingTasks = req.allPendingTasks
       /\ pageRequest'.partial = req.partial /\ pageRequest'.completed = req.completed
       /\ OneEach(pageRequest'.abortable)
       /\ \A i \in DOMAIN pageRequest'.abortable :
            /\ pageRequest'.abortable[i] # task
            /\ \E j \in DOMAIN pageRequest.abortable :
                 pageRequest.abortable[j] = pageRequest'.abortable[i]
       /\ DOMAIN boundaries' = DOMAIN boundaries
       /\ boundaries' \in [DOMAIN boundaries' -> BoundaryRecords]
       /\ \A d \in DOMAIN boundaries :
            /\ boundaries'[d].completedSegments = bs[d].completedSegments
            /\ OneEach(boundaries'[d].fallbackTasks)
            /\ \A i \in DOMAIN boundaries'[d].fallbackTasks :
                 /\ boundaries'[d].fallbackTasks[i] # task
                 /\ \E j \in DOMAIN boundaries[d].fallbackTasks :
                      boundaries[d].fallbackTasks[j] = boundaries'[d].fallbackTasks[i]
  BY <1>1, <1>10, LeaveAbortSetIs
<1>12. FizzTypes'
  BY <1>4, <1>9, <1>11 DEF FizzTypes
<1>13. NamesInv'
  BY <1>9, <1>11, NamesSame DEF NamesInv
<1>14. RenderInv'
  BY <1>6 DEF RenderInv
<1>15. \A t \in Live' : t \in Live /\ StaysOn(t)
  BY <1>1, <1>2, <1>9 DEF StaysOn
<1>16. PingInv'
  BY <1>1, <1>8, <1>11, <1>15, RequestIs, PingRenders
<1>17. CountInv'
  BY <1>1, <1>2, <1>3, <1>6, <1>9, <1>11, CountOwed
<1>18. AbortInv'
  <2>1. Live \ Live' \subseteq {task}
    BY <1>9
  <2>2. AbortsLess
    BY <1>6, <1>11, <2>1 DEF AbortsLess
  <2>3. AbortableLess
    BY <1>1, <1>11, <2>1 DEF AbortableLess
  <2> QED BY <2>2, <2>3, AbortKept
<1>19. PlaceInv'
  BY <1>2, <1>6 DEF PlaceInv
<1>20. DoneInv'
  BY <1>6, <1>11 DEF DoneInv
<1>21. PICK R : OpenedInv(R)
  OBVIOUS
<1>22. OpenedInv(R)'
  BY <1>6, <1>11, <1>15, <1>21, OpenedLess DEF RestsLess
<1> QED BY <1>7, <1>12, <1>13, <1>14, <1>16, <1>17, <1>18, <1>19, <1>20, <1>22

LEMMA TaskCompletesKeeps ==
  ASSUME FizzInv, TaskCompletes
  PROVE  FizzInv'
<1> USE DEF FizzInv
<1>1. /\ IsAt("render") /\ Top.of = Nil
      /\ segments' = [segments EXCEPT ![Top.segment].status = "completed"]
      /\ LeaveAbortSet(Top.task, pageRequest, boundaries)
      /\ stack' = TaskFrame("finished", Top.task) \o Tail(stack)
      /\ UNCHANGED <<page, tasks, suspended, client, delays>>
  BY DEF TaskCompletes
<1>2. Top.task \in TaskNames
  BY <1>1, RenderTop DEF NamesInv
<1>3. PICK f \in Frames : f = [at |-> "finished", task |-> Top.task]
  BY <1>2 DEF Frames, TaskFrames
<1>4. /\ stack' = <<f>> \o Tail(stack) /\ f.at = "finished" /\ f.task = Top.task
      /\ "completed" \in Statuses
  BY <1>1, <1>3 DEF TaskFrame, Statuses
<1>5. PICK req \in RequestRecords : req = pageRequest
  BY DEF FizzTypes
<1>6. PICK bs : bs = boundaries
  OBVIOUS
<1>7. LeaveAbortSet(Top.task, req, bs)
  BY <1>1, <1>5, <1>6 DEF LeaveAbortSet
<1>8. bs \in [DOMAIN bs -> BoundaryRecords] /\ IsClient(client)'
  BY <1>1, <1>6 DEF FizzTypes, IsClient
<1> QED BY <1>1, <1>4, <1>5, <1>6, <1>7, <1>8, TaskEnds

LEMMA TaskThrowsKeeps ==
  ASSUME FizzInv, NEW c \in PageComponents, TaskThrows(c)
  PROVE  FizzInv'
<1> USE DEF FizzInv
<1>1. /\ IsAt("render") /\ Top.of = Nil
      /\ segments' = [segments EXCEPT ![Top.segment].status = "errored"]
      /\ stack' = Frame("counted") \o Tail(stack)
      /\ UNCHANGED <<page, tasks, suspended, delays>>
  BY DEF TaskThrows, Rendering
<1>2. PICK f \in Frames : f = [at |-> "counted"]
  BY DEF Frames, PlainFrames
<1>3. stack' = <<f>> \o Tail(stack) /\ f.at = "counted" /\ "errored" \in Statuses
  BY <1>1, <1>2 DEF Frame, Statuses
<1>4. CASE Top.boundary = Nil
  <2>1. /\ LeaveAbortSet(Top.task, Fatal(pageRequest), boundaries)
        /\ client' = Ended(client, "error")
    BY <1>4 DEF TaskThrows
  <2>2. PICK status \in {"closed", "closing"} :
          status = IF pageRequest.flowing THEN "closed" ELSE "closing"
    OBVIOUS
  <2>3. PICK req : req = [pageRequest EXCEPT !.status = status]
    OBVIOUS
  <2>4. /\ req \in RequestRecords
        /\ req.pinged = pageRequest.pinged /\ req.allPendingTasks = pageRequest.allPendingTasks
        /\ req.abortable = pageRequest.abortable /\ req.partial = pageRequest.partial
        /\ req.completed = pageRequest.completed /\ req.status # "open"
    BY <2>2, <2>3 DEF FizzTypes, RequestRecords
  <2>5. req = Fatal(pageRequest)
    BY <2>2, <2>3 DEF Fatal
  <2>6. PICK bs : bs = boundaries
    OBVIOUS
  <2>7. LeaveAbortSet(Top.task, req, bs)
    BY <2>1, <2>5, <2>6 DEF LeaveAbortSet
  <2>8. bs \in [DOMAIN bs -> BoundaryRecords] /\ IsClient(client)'
    BY <2>1, <2>6 DEF FizzTypes, IsClient, Ended
  <2> QED BY <1>1, <1>3, <2>4, <2>6, <2>7, <2>8, TaskEnds
<1>5. CASE Top.boundary # Nil
  <2>1. PICK b \in DOMAIN boundaries : b = Top.boundary
    BY <1>1, <1>5, RenderTop
  <2>2. /\ LeaveAbortSet(Top.task, Forced(pageRequest, b, boundaries),
             [boundaries EXCEPT ![b].pendingTasks = @ - 1, ![b].forceClientRender = TRUE])
        /\ client' = client
    BY <1>5, <2>1 DEF TaskThrows, LeaveAbortSet, Forced
  <2>3. PICK req : req = Forced(pageRequest, b, boundaries)
    OBVIOUS
  <2>4. /\ req \in RequestRecords
        /\ req.pinged = pageRequest.pinged /\ req.allPendingTasks = pageRequest.allPendingTasks
        /\ req.abortable = pageRequest.abortable /\ req.partial = pageRequest.partial
        /\ req.completed = pageRequest.completed /\ req.status = pageRequest.status
    BY <2>3, ForcedIs DEF NamesInv
  <2>5. PICK bs : bs = [boundaries EXCEPT ![b].pendingTasks = @ - 1,
                                          ![b].forceClientRender = TRUE]
    OBVIOUS
  <2>6. /\ DOMAIN bs = DOMAIN boundaries /\ bs \in [DOMAIN bs -> BoundaryRecords]
        /\ \A d \in DOMAIN bs :
             /\ bs[d].fallbackTasks = boundaries[d].fallbackTasks
             /\ bs[d].completedSegments = boundaries[d].completedSegments
    <3>1. PICK old \in BoundaryRecords : old = boundaries[b]
      BY DEF FizzTypes
    <3>2. PICK n \in Int : n = old.pendingTasks - 1
      BY DEF BoundaryRecords
    <3>3. PICK record : record = [old EXCEPT !.pendingTasks = n, !.forceClientRender = TRUE]
      OBVIOUS
    <3>4. /\ record \in BoundaryRecords /\ record.fallbackTasks = old.fallbackTasks
          /\ record.completedSegments = old.completedSegments
      BY <3>3 DEF BoundaryRecords
    <3>5. bs = [boundaries EXCEPT ![b] = record]
      BY <2>5, <3>1, <3>2, <3>3
    <3> QED BY <3>1, <3>4, <3>5 DEF FizzTypes
  <2>7. LeaveAbortSet(Top.task, req, bs)
    BY <2>2, <2>3, <2>5
  <2>8. IsClient(client)'
    BY <2>2 DEF FizzTypes, IsClient
  <2> QED BY <1>1, <1>3, <2>2, <2>4, <2>6, <2>7, <2>8, TaskEnds
<1> QED BY <1>4, <1>5
-----------------------------------------------------------------------------
(* The theorems                                                              *)

LEMMA FizzStarts ==
  ASSUME FizzInit
  PROVE  FizzInv
<1>1. /\ page \in Pages /\ segments = [s \in {RootTask} |-> NewSegment(TRUE)]
      /\ boundaries = <<>> /\ stack = <<>> /\ suspended = {}
      /\ tasks = [task \in {RootTask} |-> [boundary |-> Nil, abortSet |-> Nil]]
  BY DEF FizzInit
<1>2. RootTask \in TaskNames /\ RootTask \in SegmentNames
  BY NamesDiffer
<1>3. PICK one \in Seq(TaskNames) : one = <<RootTask>>
  <2>1. <<RootTask>> \in Seq(TaskNames)
    BY <1>2
  <2> QED BY <2>1
<1>4. one[1] = RootTask /\ DOMAIN one = {1} /\ Len(one) = 1
  BY <1>3
<1>5. PICK none : none = <<>>
  OBVIOUS
<1>6. /\ none \in Seq(Boundaries) /\ none \in Seq(TaskNames) /\ none \in Seq(Frames)
      /\ DOMAIN none = {} /\ Len(none) = 0
  BY <1>5
<1>7. pageRequest = [status |-> "open", flowing |-> FALSE, scheduled |-> TRUE,
        allPendingTasks |-> 1, pendingRootTasks |-> 1, root |-> Nil,
        abortable |-> one, pinged |-> one,
        clientRendered |-> none, completed |-> none, partial |-> none]
  BY <1>3, <1>5 DEF FizzInit
<1>8. /\ pageRequest \in RequestRecords
      /\ pageRequest.status = "open" /\ pageRequest.flowing = FALSE
      /\ pageRequest.scheduled = TRUE /\ pageRequest.allPendingTasks = 1
      /\ pageRequest.abortable = one /\ pageRequest.pinged = one
      /\ pageRequest.completed = none /\ pageRequest.partial = none
  BY <1>6, <1>7 DEF RequestRecords
<1>9. /\ DOMAIN segments = {RootTask} /\ segments[RootTask].status = "pending"
      /\ segments \in [DOMAIN segments -> SegmentRecords]
  BY <1>1, NewOnesAre
<1>10. /\ DOMAIN tasks = {RootTask} /\ tasks \in [DOMAIN tasks -> TaskRecords]
       /\ tasks[RootTask].boundary = Nil /\ tasks[RootTask].abortSet = Nil
  BY <1>1 DEF TaskRecords, MaybeBoundary
<1>11. DOMAIN boundaries = {} /\ boundaries \in [DOMAIN boundaries -> BoundaryRecords]
  BY <1>1
<1>12. stack \in Seq(Frames) /\ Idle
  BY <1>1, <1>5, <1>6 DEF Idle
<1>13. Height = 0 /\ Renders = {} /\ Owed = {} /\ Aborting = {} /\ ~Performing
  BY <1>12, AfterIdle DEF Performing
<1>14. IsClient(client) /\ client.end = "none"
  <2>1. PICK shown \in [Boundaries -> ShownStates] : shown = [b \in Boundaries |-> "unwritten"]
    BY DEF ShownStates
  <2>2. PICK told \in [Boundaries -> Nat] : told = [b \in Boundaries |-> 0]
    OBVIOUS
  <2>3. client = [shown |-> shown, told |-> told, referred |-> {}, sent |-> none,
                  failed |-> FALSE, end |-> "none"]
    BY <1>5, <2>1, <2>2 DEF FizzInit
  <2> QED BY <2>1, <2>2, <2>3 DEF IsClient
<1>15. Live = {RootTask}
  BY <1>9, <1>10 DEF Live
<1>16. FizzTypes
  BY <1>1, <1>8, <1>9, <1>10, <1>11, <1>12, <1>14 DEF FizzTypes
<1>17. NamesInv
  <2>1. IsFiniteSet({RootTask}) /\ IsFiniteSet({})
    BY FS_EmptySet, FS_Singleton
  <2>2. /\ \A b \in Boundaries : Content(b) # RootTask /\ Fallback(b) # RootTask
        /\ \A c \in PageComponents : Own(c) # RootTask
    BY NamesDiffer
  <2> QED BY <1>2, <1>6, <1>8, <1>9, <1>10, <1>11, <2>1, <2>2 DEF NamesInv
<1>18. ShapeInv
  BY <1>12, <1>13 DEF ShapeInv
<1>19. RenderInv
  BY <1>13 DEF RenderInv
<1>20. PingInv
  BY <1>4, <1>8, <1>10, <1>13, <1>15 DEF PingInv, NextPinged
<1>21. CountInv
  <2>1. IsFiniteSet({RootTask}) /\ Cardinality({RootTask}) = 1 /\ Cardinality({}) = 0
    BY FS_EmptySet, FS_Singleton
  <2> QED BY <1>8, <1>13, <1>15, <2>1 DEF CountInv
<1>22. AbortInv
  BY <1>4, <1>8, <1>10, <1>11, <1>13, <1>15 DEF AbortInv, OneEach
<1>23. PlaceInv /\ DoneInv
  BY <1>8, <1>12, <1>14 DEF PlaceInv, DoneInv
<1>24. OpenedInv({})
  BY <1>10, <1>11, <1>13, NamesDiffer DEF Engaged, OpenedInv
<1> QED BY <1>16, <1>17, <1>18, <1>19, <1>20, <1>21, <1>22, <1>23, <1>24 DEF FizzInv

LEMMA FizzStutters ==
  ASSUME FizzInv, UNCHANGED fizzVars
  PROVE  FizzInv'
<1>1. /\ page' = page /\ pageRequest' = pageRequest /\ segments' = segments
      /\ boundaries' = boundaries /\ tasks' = tasks /\ stack' = stack
      /\ suspended' = suspended /\ client' = client
  BY DEF fizzVars
<1>2. /\ Height' = Height /\ Calls' = Calls /\ (Idle' <=> Idle) /\ Top' = Top
  BY <1>1 DEF Height, Calls, Idle, Top
<1>3. /\ Renders' = Renders /\ Owed' = Owed /\ Aborting' = Aborting /\ Live' = Live
      /\ (Performing' <=> Performing) /\ NextPinged' = NextPinged /\ Bodies' = Bodies
  BY <1>1, <1>2 DEF Renders, Owed, Aborting, Live, Performing, NextPinged, Bodies, Body
<1>4. FizzTypes' /\ NamesInv'
  BY <1>1 DEF FizzInv, FizzTypes, NamesInv, IsClient
<1>5. ShapeInv' /\ RenderInv'
  BY <1>1, <1>2, <1>3 DEF FizzInv, ShapeInv, RenderInv
<1>6. PingInv' /\ CountInv'
  BY <1>1, <1>2, <1>3 DEF FizzInv, PingInv, CountInv
<1>7. AbortInv'
  BY <1>1, <1>2, <1>3 DEF FizzInv, AbortInv
<1>8. PlaceInv' /\ DoneInv'
  BY <1>1, <1>2, <1>3 DEF FizzInv, PlaceInv, DoneInv
<1>9. PICK R : OpenedInv(R)
  BY DEF FizzInv
<1>10. \A x : Engaged(x, R)' <=> Engaged(x, R)
  BY <1>1, <1>2, <1>3 DEF Engaged
<1>11. OpenedInv(R)'
  BY <1>1, <1>2, <1>3, <1>9, <1>10 DEF OpenedInv
<1> QED BY <1>4, <1>5, <1>6, <1>7, <1>8, <1>11 DEF FizzInv

LEMMA FizzSteps ==
  ASSUME FizzInv, FizzNext
  PROVE  FizzInv'
<1>1. CASE \E task \in suspended : PingTask(task)
  BY <1>1, PingTaskKeeps
<1>2. CASE PerformTasks \/ RetryTask \/ EndPerformTasks
  BY <1>2, PerformTasksKeeps, RetryTaskKeeps, EndPerformTasksKeeps
<1>3. CASE Render
  <2>1. CASE RenderText \/ EndContent \/ TaskCompletes
    BY <2>1, RenderTextKeeps, EndContentKeeps, TaskCompletesKeeps
  <2>2. CASE \E b \in Boundaries : BeginBoundary(b)
    BY <2>2, BeginBoundaryKeeps
  <2>3. ASSUME NEW c \in PageComponents,
               \/ ComponentRenders(c) \/ SuspendsAgain(c) \/ SpawnNewSuspendedTask(c)
               \/ ContentThrows(c) \/ TaskThrows(c)
        PROVE  FizzInv'
    BY <2>3, ComponentRendersKeeps, SuspendsAgainKeeps, SpawnNewSuspendedTaskKeeps,
       ContentThrowsKeeps, TaskThrowsKeeps
  <2> QED BY <1>3, <2>1, <2>2, <2>3 DEF Render
<1>4. CASE Finish
  BY <1>4, FinishedRootTaskKeeps, FinishedTaskKeeps, AbortTaskSoftKeeps, ReadyKeeps,
     TaskCountedKeeps DEF Finish
<1>5. CASE Flush
  <2>1. CASE FlushRoot \/ FlushNextQueue \/ EndFlush
    BY <2>1, FlushRootKeeps, FlushNextQueueKeeps, EndFlushKeeps
  <2>2. ASSUME NEW isFull \in MayBeFull,
               \/ FlushClientRenderedBoundary(isFull) \/ FlushCompletedBoundary(isFull)
               \/ FlushPartialBoundary(isFull)
        PROVE  FizzInv'
    BY <2>2, FlushClientRenderedBoundaryKeeps, FlushCompletedBoundaryKeeps,
       FlushPartialBoundaryKeeps DEF MayBeFull
  <2> QED BY <1>5, <2>1, <2>2 DEF Flush
<1>6. CASE StartStreaming \/ Abort \/ AbortRootTask \/ AbortTask \/ EndAbort
  BY <1>6, StartStreamingKeeps, AbortKeeps, AbortRootTaskKeeps, AbortTaskKeeps, EndAbortKeeps
<1> QED BY <1>1, <1>2, <1>3, <1>4, <1>5, <1>6 DEF FizzNext

\* The tables of segments, boundaries and tasks agree with the stack, and the counts
\* of a request with its tasks, whatever is rendered, suspended, aborted or flushed.
THEOREM FizzInvariant == FizzSpec => []FizzInv
<1>1. FizzInit => FizzInv
  BY FizzStarts
<1>2. FizzInv /\ [FizzNext]_fizzVars => FizzInv'
  BY FizzSteps, FizzStutters
<1> QED BY <1>1, <1>2, PTL DEF FizzSpec

\* A request that has not failed is never stuck: each task that is left is pinged by
\* a promise or will be retried, and a stream that has all it takes is ended.
THEOREM NeverStalls == FizzSpec => []NothingStalls
<1>1. FizzInv => NothingStalls
  <2> SUFFICES ASSUME FizzInv, Idle, pageRequest.status = "open"
               PROVE  /\ Live \subseteq suspended \cup ToSet(pageRequest.pinged)
                      /\ pageRequest.pinged # <<>> => pageRequest.scheduled
                      /\ Live = {} /\ pageRequest.flowing =>
                           pageRequest.scheduled \/ client.end = "done"
    BY DEF NothingStalls
  <2> USE DEF FizzInv
  <2>1. Renders = {} /\ ~Performing
    BY AfterIdle DEF FizzTypes, Performing
  <2>2. \A t \in Live : t \in suspended \/ t \in ToSet(pageRequest.pinged)
    BY <2>1 DEF PingInv, ToSet
  <2>3. pageRequest.pinged # <<>> => pageRequest.scheduled
    BY <2>1 DEF PingInv
  <2>4. Live = {} /\ pageRequest.flowing => pageRequest.scheduled \/ client.end = "done"
    BY DEF DoneInv
  <2> QED BY <2>2, <2>3, <2>4
<1> QED BY <1>1, FizzInvariant, PTL
=============================================================================
