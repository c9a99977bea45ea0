---------------------------- MODULE HookEffects ----------------------------
(***************************************************************************)
(* The effects of one function component (useInsertionEffect,              *)
(* useLayoutEffect and useEffect, one of each) inside a Suspense boundary: *)
(* pushed by ReactFiberHooks while it renders, run by ReactFiberCommitWork *)
(* in the mutation, layout and passive phases, and switched off and on     *)
(* with the boundary.                                                      *)
(*                                                                         *)
(* An effect object hangs both in its hook, where the next render reads    *)
(* it, and in the fiber's updateQueue, which the commit runs; bailoutHooks *)
(* leaves the two with different objects.  Every create returns a destroy; *)
(* the n-th create of a kind and its destroy are the number n.             *)
(***************************************************************************)
EXTENDS Integers, Sequences

CONSTANTS
  Deps,        \* values of the dependency array, or of the props if there is none
  MaxCreates   \* bound: creates of each kind in a behaviour

EffectKinds == {"insertion", "layout", "passive"}

VARIABLES
  always,    \* the effects have no dependency array
  fiber,     \* the component on screen, <<>> if it is not mounted
  hidden,    \* the boundary shows its fallback
  work,      \* the finished tree that is to be committed, <<>> if none
  passive,   \* rootWithPendingPassiveEffects: <<>>, or what its effects are
  created,   \* history: the deps of each create
  live,      \* history: the creates whose destroy was not called
  faults,    \* history: kinds destroyed twice, or created before the destroy
  leaked,    \* history: insertion effects of components deleted while hidden
  split      \* history: layout effects were switched while hook and queue differ

effectVars == <<always, fiber, hidden, work, passive, created, live, faults, leaked, split>>

\* fiber.updateQueue, the effects in memoizedState and whether they are the same
\* objects, and whether the last render of the component was committed (flags)
Fiber(queue, hooks, aliased, flagged) ==
  [queue |-> queue, hooks |-> hooks, aliased |-> aliased, flagged |-> flagged]

HookEffects(f) == IF f.aliased THEN f.queue ELSE f.hooks

-----------------------------------------------------------------------------
(* Rendering.                                                                *)

\* mountEffectImpl
MountedEffects(deps) == [k \in EffectKinds |-> [has |-> TRUE, destroy |-> 0, deps |-> deps]]

\* Mutant: unchanged dependencies lose the destroy function.
UpdatedForgetting(f, deps) ==
  [k \in EffectKinds |->
     LET prev == HookEffects(f)[k]
     IN  [has |-> always \/ prev.deps # deps,
          destroy |-> IF always \/ prev.deps # deps THEN prev.destroy ELSE 0,
          deps |-> deps]]

\* updateEffectImpl: destroy is copied from the previous effect.
UpdatedEffects(f, deps) ==
  [k \in EffectKinds |->
     LET prev == HookEffects(f)[k]
     IN  [has |-> always \/ prev.deps # deps, destroy |-> prev.destroy, deps |-> deps]]

\* Each render starts after flushPassiveEffects, and may replace one that is
\* dropped.
CanRender == passive = <<>>

NotShowing(next, willHide) ==
  /\ work' = [fiber |-> next, hidden |-> willHide]
  /\ UNCHANGED <<always, fiber, hidden, passive, created, live, faults, leaked, split>>

RenderMount(deps) ==
  /\ CanRender /\ fiber = <<>>
  /\ NotShowing(Fiber(MountedEffects(deps), <<>>, TRUE, TRUE), FALSE)

\* The component renders; if the boundary is hidden this is a successful retry.
RenderUpdate(deps) ==
  /\ CanRender /\ fiber # <<>>
  /\ NotShowing(Fiber(UpdatedEffects(fiber, deps), <<>>, TRUE, TRUE), FALSE)

\* The component renders the same and bailoutHooks puts the old queue back.
RenderAndBailOut ==
  /\ CanRender /\ fiber # <<>>
  /\ \E deps \in Deps :
       /\ \A k \in EffectKinds : HookEffects(fiber)[k].deps = deps
       /\ NotShowing(Fiber(fiber.queue, UpdatedEffects(fiber, deps), FALSE, FALSE), FALSE)

\* The component is not rendered.
RenderElsewhere ==
  /\ CanRender /\ fiber # <<>>
  /\ NotShowing([fiber EXCEPT !.flagged = FALSE], FALSE)

\* Something in the boundary suspends: the children on screen are kept.
RenderSuspended ==
  /\ CanRender /\ fiber # <<>>
  /\ NotShowing([fiber EXCEPT !.flagged = FALSE], TRUE)

\* The component or its boundary is deleted.
RenderDeleted ==
  /\ CanRender /\ fiber # <<>>
  /\ NotShowing(<<>>, FALSE)

-----------------------------------------------------------------------------
(* Running effects.  A run is the queue it walks and the history so far.     *)

\* safelyCallDestroy
CallDestroy(run, k) ==
  LET destroy == run.queue[k].destroy
  IN  IF destroy = 0 THEN run
      ELSE [run EXCEPT !.queue[k].destroy = 0,
                       !.live[k] = @ \ {destroy},
                       !.faults = IF destroy \in run.live[k] THEN @ ELSE @ \cup {k}]

CallCreate(run, k) ==
  LET id == Len(run.created[k]) + 1
  IN  [run EXCEPT !.queue[k].destroy = id,
                  !.created[k] = Append(@, run.queue[k].deps),
                  !.live[k] = @ \cup {id},
                  !.faults = IF run.live[k] = {} THEN @ ELSE @ \cup {k}]

\* commitHookEffectListUnmount and commitHookEffectListMount of one kind, with
\* HookHasEffect or without (all)
ListUnmount(run, k, all) ==
  IF all \/ run.queue[k].has THEN CallDestroy(run, k) ELSE run
ListMount(run, k, all) ==
  IF all \/ run.queue[k].has THEN CallCreate(run, k) ELSE run

RunOf(queue) == [queue |-> queue, created |-> created, live |-> live, faults |-> faults]

\* Mutant: the effects of a boundary that reappears are not created again.
LayoutPhaseOfFlagged(run, flagged) ==
  IF flagged THEN ListMount(run, "layout", FALSE) ELSE run

\* commitLayoutEffects: a boundary that reappears creates all its layout effects,
\* and then its components' own are skipped.
LayoutPhase(run, flagged) ==
  IF hidden THEN ListMount(run, "layout", TRUE)
  ELSE IF flagged THEN ListMount(run, "layout", FALSE) ELSE run

\* commitMutationEffectsOnFiber, then the layout phase
CommittedRun ==
  LET start == RunOf(work.fiber.queue)
      inserted == ListMount(ListUnmount(start, "insertion", FALSE), "insertion", FALSE)
      mutated == IF work.fiber.flagged THEN ListUnmount(inserted, "layout", FALSE)
                 ELSE start
  IN  IF work.hidden
      THEN IF hidden THEN start ELSE ListUnmount(start, "layout", TRUE)
      ELSE LayoutPhase(mutated, work.fiber.flagged)

\* commitDeletionEffectsOnFiber: nothing is destroyed inside a hidden boundary.
DeletionRun ==
  LET start == RunOf(fiber.queue)
  IN  IF hidden THEN start ELSE CallDestroy(CallDestroy(start, "insertion"), "layout")

Record(run) ==
  /\ created' = run.created
  /\ live' = run.live
  /\ faults' = run.faults

CommitEffects ==
  /\ work # <<>> /\ passive = <<>> /\ work.fiber # <<>>
  /\ \A k \in EffectKinds : Len(created[k]) < MaxCreates
  /\ Record(CommittedRun)
  /\ fiber' = [work.fiber EXCEPT !.queue = CommittedRun.queue]
  /\ hidden' = work.hidden
  /\ passive' = IF work.fiber.flagged THEN [deleted |-> FALSE] ELSE <<>>
  /\ split' = (split \/ (~work.fiber.aliased /\ work.hidden # hidden))
  /\ work' = <<>>
  /\ UNCHANGED <<always, leaked>>

CommitDeletion ==
  /\ work # <<>> /\ passive = <<>> /\ work.fiber = <<>>
  /\ created' = DeletionRun.created
  /\ live' = IF hidden THEN [DeletionRun.live EXCEPT !["insertion"] = {}] ELSE DeletionRun.live
  /\ faults' = DeletionRun.faults
  /\ leaked' = IF hidden THEN leaked \cup live["insertion"] ELSE leaked
  /\ fiber' = <<>>
  /\ hidden' = FALSE
  /\ passive' = [deleted |-> TRUE, queue |-> fiber.queue]
  /\ work' = <<>>
  /\ UNCHANGED <<always, split>>

\* flushPassiveEffects: commitPassiveUnmountEffects, then commitPassiveMountEffects
FlushPassiveEffects ==
  /\ passive # <<>>
  /\ passive' = <<>>
  /\ IF passive.deleted
     THEN /\ Record(ListUnmount(RunOf(passive.queue), "passive", TRUE))
          /\ UNCHANGED fiber
     ELSE LET run == ListMount(ListUnmount(RunOf(fiber.queue), "passive", FALSE),
                               "passive", FALSE)
          IN  /\ Record(run)
              /\ fiber' = [fiber EXCEPT !.queue = run.queue]
  /\ UNCHANGED <<always, hidden, work, leaked, split>>

EffectsInit ==
  /\ always \in BOOLEAN
  /\ fiber = <<>> /\ work = <<>> /\ passive = <<>>
  /\ hidden = FALSE
  /\ created = [k \in EffectKinds |-> <<>>]
  /\ live = [k \in EffectKinds |-> {}]
  /\ faults = {} /\ leaked = {} /\ split = FALSE

EffectsNext ==
  \/ \E deps \in Deps : RenderMount(deps) \/ RenderUpdate(deps)
  \/ RenderAndBailOut
  \/ RenderElsewhere
  \/ RenderSuspended
  \/ RenderDeleted
  \/ CommitEffects
  \/ CommitDeletion
  \/ FlushPassiveEffects

EffectsSpec == EffectsInit /\ [][EffectsNext]_effectVars

-----------------------------------------------------------------------------
(* Properties.                                                               *)

\* Creates and destroys of an effect alternate: no destroy runs twice and none is
\* missed before the next create.  The exception is that of LayoutIsDestroyedFirst.
EffectsAlternate == ~split => faults = {}

IsOn(k) == fiber # <<>> /\ (k = "layout" => ~hidden)

\* Between commits exactly the effects of what is on screen are on, created with
\* the deps of its last render, and a deleted component leaves none behind but
\* those of HiddenIsUnmounted.
EffectsMatchScreen ==
  passive = <<>> /\ ~split =>
    \A k \in EffectKinds :
      IF IsOn(k)
      THEN \E id \in live[k] :
             live[k] = {id} /\ created[k][id] = HookEffects(fiber)[k].deps
      ELSE live[k] = {}

\* ReactFiberCommitWork.old.js:807: "At this point layout effects have already been
\* destroyed (during mutation phase)" when the create functions are called.
LayoutIsDestroyedFirst == "layout" \notin faults

\* ReactFiberCommitWork.old.js:2072: of a component that is deleted while hidden "we
\* already unmounted it", so that none of its effects is left on.  Insertion effects
\* are: no run checks this.
HiddenIsUnmounted == leaked = {}
=============================================================================
