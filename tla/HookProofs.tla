----------------------------- MODULE HookProofs -----------------------------
(***************************************************************************)
(* What is proved of the parts that keep something outside their fiber in  *)
(* step with it: effects, subscriptions to external stores, the events     *)
(* that wait for hydration, and the cache that components read from.       *)
(***************************************************************************)
EXTENDS HookEffects, ExternalStore, EventReplay, ResourceCache, SequencesExt,
        WellFoundedInduction, SequenceTheorems, TLAPS

-----------------------------------------------------------------------------
(***************************************************************************)
(* Effects are created and destroyed in turn, and those that are on are    *)
(* the ones of what is on screen, for any dependencies and any number of   *)
(* renders.                                                                *)
(*                                                                         *)
(* Whether a destroy function is called twice depends on where it is kept: *)
(* EffectsIInv says of each effect object on screen, of what a render has  *)
(* made of it, and of what the passive effects that are still to be        *)
(* flushed will find in it, whether its destroy is that of the create that *)
(* is on.                                                                  *)
(***************************************************************************)

-----------------------------------------------------------------------------
(* The inductive invariant of effects                                        *)

Effect == [has : BOOLEAN, destroy : Nat, deps : Deps]
Effects == [EffectKinds -> Effect]

FiberRecord == [queue : Effects, hooks : Effects \cup {<<>>},
                aliased : BOOLEAN, flagged : BOOLEAN]

\* The hooks have the destroys and dependencies of the queue, though bailoutHooks
\* left the two with different objects.
HooksAgree(f) ==
  /\ f.flagged => f.aliased
  /\ ~f.aliased =>
       /\ f.hooks \in Effects
       /\ \A k \in EffectKinds : /\ f.hooks[k].destroy = f.queue[k].destroy
                                 /\ f.hooks[k].deps = f.queue[k].deps

GoodFiber(f) == f \in FiberRecord /\ HooksAgree(f)

\* What is on of kind k, when `on` is live[k] and `made` is created[k]: the create whose
\* destroy the effect e holds and that had its dependencies,
Current(e, on, made) ==
  on = {e.destroy} /\ e.destroy \in DOMAIN made /\ made[e.destroy] = e.deps
\* nothing,
Off(e, on) == on = {} /\ e.destroy = 0
\* or whatever the destroy of e says.
Held(e, on) == on = (IF e.destroy = 0 THEN {} ELSE {e.destroy})

\* Effects with HookHasEffect are those that wait to be run.
Pending(e, on, made) == Held(e, on) /\ (~e.has => Current(e, on, made))

EffectsTypeOK ==
  /\ created \in [EffectKinds -> Seq(Deps)]
  /\ live \in [EffectKinds -> SUBSET Nat]
  /\ faults = {}
  /\ hidden \in BOOLEAN

ScreenInv ==
  fiber # <<>> =>
    /\ GoodFiber(fiber)
    /\ \A k \in EffectKinds :
         IF k = "passive" /\ passive # <<>>
         THEN Pending(fiber.queue[k], live[k], created[k])
         ELSE IF k = "layout" /\ hidden
         THEN Off(fiber.queue[k], live[k])
         ELSE Current(fiber.queue[k], live[k], created[k])

EmptyInv ==
  fiber = <<>> =>
    /\ ~hidden
    /\ live["insertion"] = {} /\ live["layout"] = {}
    /\ IF passive = <<>> THEN live["passive"] = {}
       ELSE passive.queue \in Effects /\ Held(passive.queue["passive"], live["passive"])

EffectsPassiveInv ==
  passive # <<>> =>
    /\ work = <<>>
    /\ passive.deleted = (fiber = <<>>)
    /\ ~passive.deleted => fiber.aliased

\* What a render made of the fiber f on screen
Carries(f, w) ==
  /\ GoodFiber(w)
  /\ \A k \in EffectKinds :
       /\ w.queue[k].destroy = f.queue[k].destroy
       /\ (w.flagged /\ w.queue[k].has) \/ w.queue[k].deps = f.queue[k].deps

WorkInv ==
  work # <<>> =>
    /\ work.hidden \in BOOLEAN
    /\ work.hidden => ~work.fiber.flagged
    /\ work.fiber = <<>> => fiber # <<>> /\ ~work.hidden
    /\ work.fiber # <<>> =>
         IF fiber = <<>>
         THEN ~work.hidden /\ \E deps \in Deps :
                 work.fiber = Fiber(MountedEffects(deps), <<>>, TRUE, TRUE)
         ELSE Carries(fiber, work.fiber)

\* Nothing is said once layout effects were switched while hook and queue differ.
EffectsIInv ==
  ~split => EffectsTypeOK /\ ScreenInv /\ EmptyInv /\ EffectsPassiveInv /\ WorkInv

-----------------------------------------------------------------------------
(* What running effects does.  A run that meets effects which hold what is   *)
(* on creates and destroys them in turn.                                     *)

Run == [queue : Effects, created : [EffectKinds -> Seq(Deps)],
        live : [EffectKinds -> SUBSET Nat], faults : {{}}]

IsOff(run, k) == Off(run.queue[k], run.live[k])
IsCurrent(run, k) == Current(run.queue[k], run.live[k], run.created[k])
IsHeld(run, k) == Held(run.queue[k], run.live[k])

\* r is the run after effects of kind k were run: those of other kinds are as before,
\* those of k have still their dependencies.
Ran(run, r, k) ==
  /\ r \in Run
  /\ r.queue[k].has = run.queue[k].has /\ r.queue[k].deps = run.queue[k].deps
  /\ \A j \in EffectKinds \ {k} :
       /\ r.queue[j] = run.queue[j]
       /\ r.created[j] = run.created[j]
       /\ r.live[j] = run.live[j]

LEMMA CurrentIsHeld ==
  ASSUME NEW run \in Run, NEW k \in EffectKinds, IsCurrent(run, k)
  PROVE  IsHeld(run, k)
<1>1. run.created[k] \in Seq(Deps) /\ run.queue[k] \in Effect
  BY DEF Run, Effects
<1>2. run.queue[k].destroy \in 1..Len(run.created[k])
  BY <1>1 DEF IsCurrent, Current
<1>3. run.queue[k].destroy # 0
  BY <1>1, <1>2
<1> QED BY <1>3 DEF IsCurrent, Current, IsHeld, Held

LEMMA OffIsHeld ==
  ASSUME NEW run \in Run, NEW k \in EffectKinds, IsOff(run, k)
  PROVE  IsHeld(run, k)
<1> QED BY DEF IsOff, Off, IsHeld, Held

LEMMA CallDestroyDestroys ==
  ASSUME NEW run \in Run, NEW k \in EffectKinds, IsHeld(run, k)
  PROVE  Ran(run, CallDestroy(run, k), k) /\ IsOff(CallDestroy(run, k), k)
<1> DEFINE destroy == run.queue[k].destroy
           r == [run EXCEPT !.queue[k].destroy = 0,
                            !.live[k] = @ \ {destroy},
                            !.faults = IF destroy \in run.live[k] THEN @ ELSE @ \cup {k}]
<1>1. /\ run.queue \in Effects /\ run.queue[k] \in Effect
      /\ run.live \in [EffectKinds -> SUBSET Nat] /\ run.faults = {}
      /\ run.created \in [EffectKinds -> Seq(Deps)]
  BY DEF Run, Effects
<1>2. CASE destroy = 0
  <2>1. CallDestroy(run, k) = run
    BY <1>2 DEF CallDestroy
  <2> QED BY <1>2, <2>1 DEF Ran, IsOff, Off, IsHeld, Held
<1>3. CASE destroy # 0
  <2>1. CallDestroy(run, k) = r
    BY <1>3 DEF CallDestroy
  <2>2. run.live[k] = {destroy}
    BY <1>3 DEF IsHeld, Held
  <2>3. /\ r.queue = [run.queue EXCEPT ![k].destroy = 0]
        /\ r.live = [run.live EXCEPT ![k] = {}]
        /\ r.created = run.created
        /\ r.faults = {}
    BY <2>2, <1>1 DEF Run
  <2>4. r \in [queue : {r.queue}, created : {r.created}, live : {r.live}, faults : {{}}]
    BY <2>3 DEF Run
  <2>5. r.queue[k] = [run.queue[k] EXCEPT !.destroy = 0] /\ r.live[k] = {}
    BY <2>3, <1>1 DEF Effects
  <2>6. \A j \in EffectKinds \ {k} :
          /\ r.queue[j] = run.queue[j]
          /\ r.created[j] = run.created[j]
          /\ r.live[j] = run.live[j]
    BY <2>3, <1>1 DEF Effects
  <2>7. r.queue[k] \in Effect /\ r.queue[k].destroy = 0
        /\ r.queue[k].has = run.queue[k].has /\ r.queue[k].deps = run.queue[k].deps
    BY <2>5, <1>1 DEF Effect
  <2>8. r.queue \in Effects /\ r.live \in [EffectKinds -> SUBSET Nat]
    BY <2>3, <2>5, <2>6, <2>7, <1>1 DEF Effects
  <2> HIDE DEF r
  <2>9. r \in Run
    BY <2>3, <2>4, <2>8, <1>1 DEF Run
  <2> QED BY <2>1, <2>5, <2>6, <2>7, <2>9 DEF Ran, IsOff, Off
<1> QED BY <1>2, <1>3

LEMMA CallCreateCreates ==
  ASSUME NEW run \in Run, NEW k \in EffectKinds, IsOff(run, k)
  PROVE  Ran(run, CallCreate(run, k), k) /\ IsCurrent(CallCreate(run, k), k)
<1> DEFINE id == Len(run.created[k]) + 1
           r == CallCreate(run, k)
<1>1. /\ run.queue \in Effects /\ run.queue[k] \in Effect
      /\ run.live \in [EffectKinds -> SUBSET Nat] /\ run.faults = {}
      /\ run.created \in [EffectKinds -> Seq(Deps)] /\ run.created[k] \in Seq(Deps)
      /\ run.live[k] = {} /\ run.queue[k].deps \in Deps
  BY DEF Run, Effects, Effect, IsOff, Off
<1>2. id \in Nat \ {0}
  BY <1>1
<1>3. /\ r.queue = [run.queue EXCEPT ![k].destroy = id]
      /\ r.live = [run.live EXCEPT ![k] = {id}]
      /\ r.created = [run.created EXCEPT ![k] = Append(@, run.queue[k].deps)]
      /\ r.faults = {}
      /\ r \in [queue : {r.queue}, created : {r.created}, live : {r.live}, faults : {{}}]
  BY <1>1 DEF CallCreate, Run
<1> HIDE DEF r, id
<1>4. /\ r.queue[k] = [run.queue[k] EXCEPT !.destroy = id] /\ r.live[k] = {id}
      /\ r.created[k] = Append(run.created[k], run.queue[k].deps)
  BY <1>3, <1>1 DEF Effects
<1>5. \A j \in EffectKinds \ {k} :
        /\ r.queue[j] = run.queue[j]
        /\ r.created[j] = run.created[j]
        /\ r.live[j] = run.live[j]
  BY <1>3, <1>1 DEF Effects
<1>6. r.queue[k] \in Effect /\ r.queue[k].destroy = id
      /\ r.queue[k].has = run.queue[k].has /\ r.queue[k].deps = run.queue[k].deps
  BY <1>2, <1>4, <1>1 DEF Effect
<1>7. /\ r.created[k] \in Seq(Deps)
      /\ id \in DOMAIN r.created[k] /\ r.created[k][id] = run.queue[k].deps
  BY <1>2, <1>4, <1>1 DEF id
<1>8. /\ r.queue \in Effects /\ r.live \in [EffectKinds -> SUBSET Nat]
      /\ r.created \in [EffectKinds -> Seq(Deps)]
  BY <1>1, <1>2, <1>3, <1>4, <1>5, <1>6, <1>7 DEF Effects
<1>9. r \in Run
  BY <1>3, <1>8 DEF Run
<1>10. Current(r.queue[k], r.live[k], r.created[k])
  BY <1>4, <1>6, <1>7 DEF Current
<1> QED BY <1>5, <1>6, <1>9, <1>10 DEF r, Ran, IsCurrent

\* Of effects that wait to be run, the old ones are destroyed before new ones are
\* created; those that do not wait were current.
IsPending(run, k) == IsHeld(run, k) /\ (~run.queue[k].has => IsCurrent(run, k))

LEMMA RanIsHeld ==
  ASSUME NEW run, NEW r, NEW k \in EffectKinds, Ran(run, r, k), NEW j \in EffectKinds, j # k
  PROVE  /\ r.queue[j] = run.queue[j]
         /\ IsHeld(r, j) <=> IsHeld(run, j)
         /\ IsOff(r, j) <=> IsOff(run, j)
         /\ IsCurrent(r, j) <=> IsCurrent(run, j)
         /\ IsPending(r, j) <=> IsPending(run, j)
<1>1. /\ r.queue[j] = run.queue[j]
      /\ r.created[j] = run.created[j]
      /\ r.live[j] = run.live[j]
  BY DEF Ran
<1> QED BY <1>1 DEF IsHeld, IsOff, IsCurrent, IsPending

LEMMA UnmountedAndMounted ==
  ASSUME NEW run \in Run, NEW k \in EffectKinds, IsPending(run, k),
         NEW r, r = ListMount(ListUnmount(run, k, FALSE), k, FALSE)
  PROVE  Ran(run, r, k) /\ IsCurrent(r, k)
<1>1. CASE run.queue[k].has
  <2> DEFINE u == CallDestroy(run, k)
  <2>1. Ran(run, u, k) /\ IsOff(u, k) /\ IsHeld(run, k)
    BY CallDestroyDestroys DEF IsPending
  <2>2. u \in Run /\ u.queue[k].has
    BY <1>1, <2>1 DEF Ran
  <2>3. r = CallCreate(u, k)
    BY <1>1, <2>2 DEF ListMount, ListUnmount
  <2> HIDE DEF u
  <2>4. Ran(u, r, k) /\ IsCurrent(r, k)
    BY <2>1, <2>2, <2>3, CallCreateCreates
  <2> QED BY <2>1, <2>4 DEF Ran
<1>2. CASE ~run.queue[k].has
  <2>1. r = run
    BY <1>2 DEF ListMount, ListUnmount
  <2> QED BY <1>2, <2>1 DEF Ran, IsPending
<1> QED BY <1>1, <1>2

-----------------------------------------------------------------------------
(* Commits                                                                   *)

\* What a commit needs of the effects of work.fiber, and what it leaves
Ready(run) ==
  \A k \in EffectKinds :
    IF k = "layout" /\ hidden THEN IsOff(run, k)
    ELSE /\ IsHeld(run, k)
         /\ ~(work.fiber.flagged /\ run.queue[k].has) => IsCurrent(run, k)

Done(run) ==
  /\ run \in Run
  /\ \A k \in EffectKinds : run.queue[k].deps = work.fiber.queue[k].deps
  /\ IsCurrent(run, "insertion")
  /\ IF work.hidden THEN IsOff(run, "layout") ELSE IsCurrent(run, "layout")
  /\ IF work.fiber.flagged THEN IsPending(run, "passive") ELSE IsCurrent(run, "passive")

LEMMA StartIsReady ==
  ASSUME EffectsIInv, ~split, work # <<>>, work.fiber # <<>>, passive = <<>>
  PROVE  /\ GoodFiber(work.fiber)
         /\ RunOf(work.fiber.queue) \in Run
         /\ Ready(RunOf(work.fiber.queue))
<1> DEFINE run == RunOf(work.fiber.queue)
<1>1. CASE fiber = <<>>
  <2>1. PICK deps \in Deps : work.fiber = Fiber(MountedEffects(deps), <<>>, TRUE, TRUE)
    BY <1>1 DEF EffectsIInv, WorkInv
  <2>2. /\ work.fiber.queue = MountedEffects(deps) /\ work.fiber.flagged /\ work.fiber.aliased
        /\ work.fiber \in FiberRecord
    <3>1. MountedEffects(deps) \in Effects
      BY DEF MountedEffects, Effects, Effect
    <3> QED BY <2>1, <3>1 DEF Fiber, FiberRecord
  <2>3. run \in Run
    BY <2>2 DEF RunOf, Run, EffectsIInv, EffectsTypeOK, FiberRecord
  <2>4. \A k \in EffectKinds : run.live[k] = {} /\ run.queue[k].has /\ run.queue[k].destroy = 0
    BY <1>1, <2>2 DEF RunOf, MountedEffects, EffectKinds, EffectsIInv, EmptyInv
  <2> QED BY <2>2, <2>3, <2>4 DEF GoodFiber, HooksAgree, Ready, IsOff, Off, IsHeld, Held
<1>2. CASE fiber # <<>>
  <2>1. GoodFiber(fiber) /\ Carries(fiber, work.fiber)
    BY <1>2 DEF EffectsIInv, WorkInv, ScreenInv
  <2>2. run \in Run /\ RunOf(fiber.queue) \in Run
    BY <2>1 DEF Carries, GoodFiber, RunOf, Run, EffectsIInv, EffectsTypeOK, FiberRecord
  <2>3. ASSUME NEW k \in EffectKinds, ~(k = "layout" /\ hidden)
        PROVE  /\ IsHeld(run, k)
               /\ ~(work.fiber.flagged /\ run.queue[k].has) => IsCurrent(run, k)
    <3>1. IsCurrent(RunOf(fiber.queue), k)
      BY <1>2, <2>3 DEF EffectsIInv, ScreenInv, RunOf, IsCurrent
    <3>2. IsHeld(RunOf(fiber.queue), k)
      BY <2>2, <3>1, CurrentIsHeld
    <3>3. /\ work.fiber.queue[k].destroy = fiber.queue[k].destroy
          /\ ~(work.fiber.flagged /\ work.fiber.queue[k].has) =>
               work.fiber.queue[k].deps = fiber.queue[k].deps
      BY <2>1 DEF Carries
    <3> QED BY <3>1, <3>2, <3>3 DEF RunOf, IsCurrent, Current, IsHeld, Held
  <2>4. ASSUME NEW k \in EffectKinds, k = "layout" /\ hidden
        PROVE  IsOff(run, k)
    BY <1>2, <2>1, <2>4 DEF EffectsIInv, ScreenInv, Carries, RunOf, IsOff, Off
  <2> QED BY <2>1, <2>2, <2>3, <2>4 DEF Ready, Carries
<1> QED BY <1>1, <1>2

LEMMA CommitIsDone ==
  ASSUME EffectsIInv, ~split, work # <<>>, work.fiber # <<>>, passive = <<>>
  PROVE  Done(CommittedRun)
<1> DEFINE start == RunOf(work.fiber.queue)
           inserted == ListMount(ListUnmount(start, "insertion", FALSE), "insertion", FALSE)
           mutated == ListUnmount(inserted, "layout", FALSE)
<1>1. GoodFiber(work.fiber) /\ start \in Run /\ Ready(start)
      /\ start.queue = work.fiber.queue
  BY StartIsReady DEF RunOf
<1>2. {"insertion", "layout", "passive"} = EffectKinds
  BY DEF EffectKinds
<1>3. CASE work.hidden
  <2>1. ~work.fiber.flagged
    BY <1>3 DEF EffectsIInv, WorkInv
  <2>2. IsCurrent(start, "insertion") /\ IsCurrent(start, "passive")
    BY <1>1, <1>2, <2>1 DEF Ready
  <2>3. CASE hidden
    <3>1. CommittedRun = start
      BY <1>3, <2>3 DEF CommittedRun
    <3>2. IsOff(start, "layout")
      BY <1>1, <1>2, <2>3 DEF Ready
    <3> QED BY <1>1, <1>3, <2>1, <2>2, <3>1, <3>2 DEF Done
  <2>4. CASE ~hidden
    <3> DEFINE r == CallDestroy(start, "layout")
    <3>1. CommittedRun = r
      BY <1>3, <2>4 DEF CommittedRun, ListUnmount
    <3>2. IsHeld(start, "layout")
      BY <1>1, <1>2, <2>4 DEF Ready
    <3>3. Ran(start, r, "layout") /\ IsOff(r, "layout")
      BY <1>1, <1>2, <3>2, CallDestroyDestroys
    <3> HIDE DEF r, start
    <3>4. IsCurrent(r, "insertion") /\ IsCurrent(r, "passive")
      BY <1>2, <2>2, <3>3, RanIsHeld
    <3>5. \A k \in EffectKinds : r.queue[k].deps = work.fiber.queue[k].deps
      BY <1>1, <3>3 DEF Ran
    <3> QED BY <1>3, <2>1, <3>1, <3>3, <3>4, <3>5 DEF Done, Ran
  <2> QED BY <2>3, <2>4
<1>4. CASE ~work.hidden /\ work.fiber.flagged
  <2> DEFINE r == LayoutPhase(mutated, TRUE)
  <2>1. CommittedRun = r
    BY <1>4 DEF CommittedRun
  <2>2. /\ IsPending(start, "insertion") /\ IsPending(start, "passive")
        /\ IF hidden THEN IsOff(start, "layout") ELSE IsPending(start, "layout")
    BY <1>1, <1>2, <1>4 DEF Ready, IsPending
  <2>3. Ran(start, inserted, "insertion") /\ IsCurrent(inserted, "insertion")
    BY <1>1, <1>2, <2>2, UnmountedAndMounted
  <2> HIDE DEF start, inserted
  <2>4. /\ IsPending(inserted, "passive")
        /\ IF hidden THEN IsOff(inserted, "layout") ELSE IsPending(inserted, "layout")
    BY <1>2, <2>2, <2>3, RanIsHeld
  <2>5. inserted \in Run
    BY <2>3 DEF Ran
  <2>6. Ran(inserted, r, "layout") /\ IsCurrent(r, "layout")
    <3>1. CASE ~hidden
      <4>1. r = ListMount(mutated, "layout", FALSE)
        BY <3>1 DEF LayoutPhase
      <4> QED BY <1>2, <2>4, <2>5, <3>1, <4>1, UnmountedAndMounted
    <3>2. CASE hidden
      <4>1. Ran(inserted, mutated, "layout") /\ IsOff(mutated, "layout")
        <5>1. CASE inserted.queue["layout"].has
          BY <1>2, <2>4, <2>5, <3>2, <5>1, OffIsHeld, CallDestroyDestroys DEF ListUnmount
        <5>2. CASE ~inserted.queue["layout"].has
          BY <2>4, <2>5, <3>2, <5>2 DEF ListUnmount, Ran
        <5> QED BY <5>1, <5>2
      <4>2. r = CallCreate(mutated, "layout")
        BY <3>2 DEF LayoutPhase, ListMount
      <4> HIDE DEF mutated, r
      <4>3. mutated \in Run
        BY <4>1 DEF Ran
      <4>4. Ran(mutated, r, "layout") /\ IsCurrent(r, "layout")
        BY <1>2, <4>1, <4>2, <4>3, CallCreateCreates
      <4> QED BY <4>1, <4>4 DEF Ran
    <3> QED BY <3>1, <3>2
  <2> HIDE DEF r
  <2>7. IsCurrent(r, "insertion") /\ IsPending(r, "passive")
    BY <1>2, <2>3, <2>4, <2>6, RanIsHeld
  <2>8. \A k \in EffectKinds : r.queue[k].deps = work.fiber.queue[k].deps
    BY <1>1, <2>3, <2>6 DEF Ran
  <2> QED BY <1>4, <2>1, <2>6, <2>7, <2>8 DEF Done, Ran
<1>5. CASE ~work.hidden /\ ~work.fiber.flagged
  <2>1. IsCurrent(start, "insertion") /\ IsCurrent(start, "passive")
        /\ IF hidden THEN IsOff(start, "layout") ELSE IsCurrent(start, "layout")
    BY <1>1, <1>2, <1>5 DEF Ready
  <2>2. CASE ~hidden
    <3>1. CommittedRun = start
      BY <1>5, <2>2 DEF CommittedRun, LayoutPhase
    <3> QED BY <1>1, <1>5, <2>1, <2>2, <3>1 DEF Done
  <2>3. CASE hidden
    <3> DEFINE r == CallCreate(start, "layout")
    <3>1. CommittedRun = r
      BY <1>5, <2>3 DEF CommittedRun, LayoutPhase, ListMount
    <3> HIDE DEF start
    <3>2. Ran(start, r, "layout") /\ IsCurrent(r, "layout")
      BY <1>1, <1>2, <2>1, <2>3, CallCreateCreates
    <3> HIDE DEF r
    <3>3. IsCurrent(r, "insertion") /\ IsCurrent(r, "passive")
      BY <1>2, <2>1, <3>2, RanIsHeld
    <3>4. \A k \in EffectKinds : r.queue[k].deps = work.fiber.queue[k].deps
      BY <1>1, <3>2 DEF Ran
    <3> QED BY <1>5, <3>1, <3>2, <3>3, <3>4 DEF Done, Ran
  <2> QED BY <2>2, <2>3
<1> QED BY <1>3, <1>4, <1>5 DEF EffectsIInv, WorkInv

\* A fiber, or what is pending of it, is not null.
LEMMA FiberIsNotNull == \A f \in FiberRecord : f # <<>>
<1>1. \A f \in FiberRecord : "queue" \in DOMAIN f
  BY DEF FiberRecord
<1>2. "queue" \notin DOMAIN <<>>
  OBVIOUS
<1> QED BY <1>1, <1>2

LEMMA PassiveIsNotNull ==
  /\ [deleted |-> FALSE] # <<>>
  /\ \A queue : [deleted |-> TRUE, queue |-> queue] # <<>>
<1>1. /\ "deleted" \in DOMAIN [deleted |-> FALSE]
      /\ \A queue : "deleted" \in DOMAIN [deleted |-> TRUE, queue |-> queue]
      /\ "deleted" \notin DOMAIN <<>>
  OBVIOUS
<1> QED BY <1>1

LEMMA EffectsCommitPreserves ==
  ASSUME EffectsIInv, CommitEffects
  PROVE  EffectsIInv'
<1> SUFFICES ASSUME ~split'
             PROVE  (EffectsTypeOK /\ ScreenInv /\ EmptyInv /\ EffectsPassiveInv /\ WorkInv)'
  BY DEF EffectsIInv
<1> DEFINE run == CommittedRun
           f == [work.fiber EXCEPT !.queue = run.queue]
<1>1. /\ ~split /\ work # <<>> /\ work.fiber # <<>> /\ passive = <<>>
      /\ ~work.fiber.aliased => work.hidden = hidden
      /\ created' = run.created /\ live' = run.live /\ faults' = run.faults
      /\ fiber' = f /\ hidden' = work.hidden /\ work' = <<>>
      /\ passive' = IF work.fiber.flagged THEN [deleted |-> FALSE] ELSE <<>>
  BY DEF CommitEffects, Record
<1>2. Done(run) /\ GoodFiber(work.fiber)
  BY <1>1, CommitIsDone, StartIsReady
<1>3. run.queue \in Effects /\ run \in Run
  BY <1>2 DEF Done, Run
<1>4. ~work.fiber.aliased => run.queue = work.fiber.queue
  <2> SUFFICES ASSUME ~work.fiber.aliased PROVE run = RunOf(work.fiber.queue)
    BY DEF RunOf
  <2>1. ~work.fiber.flagged /\ work.hidden = hidden
    BY <1>1, <1>2 DEF GoodFiber, HooksAgree
  <2> QED BY <2>1 DEF CommittedRun, LayoutPhase
<1> HIDE DEF run
<1>5. /\ f \in FiberRecord /\ f.queue = run.queue
      /\ f.hooks = work.fiber.hooks /\ f.aliased = work.fiber.aliased
      /\ f.flagged = work.fiber.flagged
  BY <1>2, <1>3 DEF GoodFiber, FiberRecord
<1>6. GoodFiber(f) /\ f # <<>>
  BY <1>2, <1>4, <1>5, FiberIsNotNull DEF GoodFiber, HooksAgree
<1>7. EffectsTypeOK'
  <2>1. work.hidden \in BOOLEAN
    BY <1>1 DEF EffectsIInv, WorkInv
  <2> QED BY <1>1, <1>3, <2>1 DEF EffectsTypeOK, Run
<1> HIDE DEF f
<1>8. (passive' # <<>>) <=> f.flagged
  BY <1>1, <1>5, PassiveIsNotNull
<1>9. ScreenInv'
  <2> SUFFICES ASSUME NEW k \in EffectKinds
               PROVE  IF k = "passive" /\ f.flagged
                      THEN Pending(f.queue[k], run.live[k], run.created[k])
                      ELSE IF k = "layout" /\ work.hidden
                      THEN Off(f.queue[k], run.live[k])
                      ELSE Current(f.queue[k], run.live[k], run.created[k])
    BY <1>1, <1>6, <1>8 DEF ScreenInv
  <2> QED
    BY <1>2, <1>5
    DEF Done, EffectKinds, IsPending, IsOff, IsCurrent, IsHeld, Pending
<1>10. EmptyInv' /\ WorkInv'
  BY <1>1, <1>6 DEF EmptyInv, WorkInv
<1>11. EffectsPassiveInv'
  BY <1>1, <1>5, <1>6, <1>8 DEF EffectsPassiveInv, GoodFiber, HooksAgree
<1> QED BY <1>7, <1>9, <1>10, <1>11

-----------------------------------------------------------------------------
(* Deletions.  The effects on screen are destroyed through the queue.        *)

LEMMA CommitDeletionPreserves ==
  ASSUME EffectsIInv, CommitDeletion
  PROVE  EffectsIInv'
<1> SUFFICES ASSUME ~split'
             PROVE  (EffectsTypeOK /\ ScreenInv /\ EmptyInv /\ EffectsPassiveInv /\ WorkInv)'
  BY DEF EffectsIInv
<1> DEFINE start == RunOf(fiber.queue)
           inserted == CallDestroy(start, "insertion")
           run == DeletionRun
<1>1. /\ ~split /\ work # <<>> /\ work.fiber = <<>> /\ passive = <<>> /\ fiber # <<>>
      /\ created' = run.created /\ faults' = run.faults
      /\ live' = IF hidden THEN [run.live EXCEPT !["insertion"] = {}] ELSE run.live
      /\ fiber' = <<>> /\ hidden' = FALSE /\ work' = <<>>
      /\ passive' = [deleted |-> TRUE, queue |-> fiber.queue]
  BY DEF CommitDeletion, EffectsIInv, WorkInv
<1>2. {"insertion", "layout", "passive"} = EffectKinds
  BY DEF EffectKinds
<1>3. GoodFiber(fiber) /\ start \in Run /\ start.queue = fiber.queue
  BY <1>1 DEF EffectsIInv, ScreenInv, EffectsTypeOK, GoodFiber, FiberRecord, RunOf, Run
<1>4. \A k \in EffectKinds :
        IF k = "layout" /\ hidden THEN IsOff(start, k) ELSE IsCurrent(start, k)
  BY <1>1 DEF EffectsIInv, ScreenInv, RunOf, IsOff, IsCurrent
<1>5. /\ run \in Run
      /\ IF hidden THEN run = start ELSE run.live["insertion"] = {}
      /\ run.live["layout"] = {}
      /\ Held(fiber.queue["passive"], run.live["passive"])
  <2>1. IsHeld(start, "passive")
    BY <1>2, <1>3, <1>4, CurrentIsHeld
  <2>2. CASE hidden
    BY <1>2, <1>3, <1>4, <2>1, <2>2 DEF DeletionRun, IsOff, Off, IsHeld
  <2>3. CASE ~hidden
    <3>1. Ran(start, inserted, "insertion") /\ IsOff(inserted, "insertion")
      BY <1>2, <1>3, <1>4, <2>3, CurrentIsHeld, CallDestroyDestroys
    <3>2. run = CallDestroy(inserted, "layout")
      BY <2>3 DEF DeletionRun
    <3> HIDE DEF inserted, start, run
    <3>3. inserted \in Run
      BY <3>1 DEF Ran
    <3>4. IsCurrent(inserted, "layout") /\ IsHeld(inserted, "passive")
      BY <1>2, <1>4, <2>1, <2>3, <3>1, RanIsHeld
    <3>5. Ran(inserted, run, "layout") /\ IsOff(run, "layout")
      BY <1>2, <3>2, <3>3, <3>4, CurrentIsHeld, CallDestroyDestroys
    <3>6. IsOff(run, "insertion") /\ IsHeld(run, "passive")
          /\ run.queue["passive"] = start.queue["passive"]
      BY <1>2, <3>1, <3>4, <3>5, RanIsHeld
    <3> QED BY <1>3, <2>3, <3>5, <3>6 DEF Ran, IsOff, Off, IsHeld
  <2> QED BY <2>2, <2>3
<1> HIDE DEF run, start
<1>6. /\ run.live \in [EffectKinds -> SUBSET Nat] /\ run.faults = {}
      /\ run.created \in [EffectKinds -> Seq(Deps)]
  BY <1>5 DEF Run
<1>7. EffectsTypeOK'
  BY <1>1, <1>6 DEF EffectsTypeOK
<1>8. live'["insertion"] = {} /\ live'["layout"] = {} /\ live'["passive"] = run.live["passive"]
  BY <1>1, <1>2, <1>5, <1>6
<1>9. passive' # <<>> /\ passive'.queue = fiber.queue /\ passive'.deleted
  BY <1>1, PassiveIsNotNull
<1>10. EmptyInv'
  BY <1>1, <1>3, <1>5, <1>8, <1>9 DEF EmptyInv, GoodFiber, FiberRecord
<1> QED BY <1>1, <1>7, <1>9, <1>10 DEF ScreenInv, EffectsPassiveInv, WorkInv

-----------------------------------------------------------------------------
(* Passive effects                                                           *)

LEMMA FlushPreserves ==
  ASSUME EffectsIInv, FlushPassiveEffects
  PROVE  EffectsIInv'
<1> SUFFICES ASSUME ~split'
             PROVE  (EffectsTypeOK /\ ScreenInv /\ EmptyInv /\ EffectsPassiveInv /\ WorkInv)'
  BY DEF EffectsIInv
<1>1. /\ ~split /\ passive # <<>> /\ passive' = <<>> /\ work = <<>>
      /\ UNCHANGED <<always, hidden, work, leaked, split>>
      /\ passive.deleted = (fiber = <<>>)
      /\ ~passive.deleted => fiber.aliased
  BY DEF FlushPassiveEffects, EffectsIInv, EffectsPassiveInv
<1>2. {"insertion", "layout", "passive"} = EffectKinds
  BY DEF EffectKinds
<1>3. EffectsPassiveInv' /\ WorkInv'
  BY <1>1 DEF EffectsPassiveInv, WorkInv
<1>4. CASE passive.deleted
  <2> DEFINE start == RunOf(passive.queue)
             run == CallDestroy(start, "passive")
  <2>1. /\ created' = run.created /\ live' = run.live /\ faults' = run.faults
        /\ fiber' = fiber /\ fiber = <<>>
    BY <1>1, <1>4 DEF FlushPassiveEffects, Record, ListUnmount
  <2>2. start \in Run /\ IsHeld(start, "passive")
        /\ start.live["insertion"] = {} /\ start.live["layout"] = {}
        /\ ~hidden /\ hidden \in BOOLEAN
    BY <1>1, <2>1 DEF EffectsIInv, EffectsTypeOK, EmptyInv, RunOf, Run, IsHeld
  <2> HIDE DEF start
  <2>3. Ran(start, run, "passive") /\ IsOff(run, "passive")
    BY <1>2, <2>2, CallDestroyDestroys
  <2> HIDE DEF run
  <2>4. /\ run.live["insertion"] = {} /\ run.live["layout"] = {} /\ run.live["passive"] = {}
        /\ run \in Run
    BY <1>2, <2>2, <2>3 DEF Ran, IsOff, Off
  <2>5. EffectsTypeOK'
    BY <1>1, <2>1, <2>2, <2>4 DEF EffectsTypeOK, Run
  <2> QED BY <1>1, <1>3, <2>1, <2>2, <2>4, <2>5 DEF ScreenInv, EmptyInv
<1>5. CASE ~passive.deleted
  <2> DEFINE start == RunOf(fiber.queue)
             run == ListMount(ListUnmount(start, "passive", FALSE), "passive", FALSE)
             f == [fiber EXCEPT !.queue = run.queue]
  <2>1. /\ created' = run.created /\ live' = run.live /\ faults' = run.faults
        /\ fiber' = f /\ fiber # <<>> /\ fiber.aliased
    BY <1>1, <1>5 DEF FlushPassiveEffects, Record
  <2>2. GoodFiber(fiber) /\ start \in Run /\ IsPending(start, "passive")
        /\ \A k \in EffectKinds \ {"passive"} :
             IF k = "layout" /\ hidden THEN IsOff(start, k) ELSE IsCurrent(start, k)
    <3>1. GoodFiber(fiber) /\ start \in Run
      BY <1>1, <2>1
      DEF EffectsIInv, EffectsTypeOK, ScreenInv, GoodFiber, FiberRecord, RunOf, Run
    <3>2. \A k \in EffectKinds :
            IF k = "passive" THEN Pending(fiber.queue[k], live[k], created[k])
            ELSE IF k = "layout" /\ hidden THEN Off(fiber.queue[k], live[k])
            ELSE Current(fiber.queue[k], live[k], created[k])
      BY <1>1, <2>1 DEF EffectsIInv, ScreenInv
    <3>3. \A k \in EffectKinds \ {"passive"} :
             IF k = "layout" /\ hidden THEN IsOff(start, k) ELSE IsCurrent(start, k)
      BY <3>2 DEF RunOf, IsOff, IsCurrent
    <3>4. Pending(fiber.queue["passive"], live["passive"], created["passive"])
      BY <1>2, <3>2
    <3> QED BY <3>1, <3>3, <3>4 DEF RunOf, IsPending, Pending, IsHeld, IsCurrent
  <2>3. Ran(start, run, "passive") /\ IsCurrent(run, "passive")
    BY <1>2, <2>2, UnmountedAndMounted
  <2> HIDE DEF start, run
  <2>4. \A k \in EffectKinds :
          IF k = "layout" /\ hidden THEN IsOff(run, k) ELSE IsCurrent(run, k)
    BY <1>2, <2>2, <2>3, RanIsHeld
  <2>5. run \in Run /\ run.queue \in Effects
    BY <2>3 DEF Ran, Run
  <2>6. GoodFiber(f) /\ f.queue = run.queue
    BY <2>1, <2>2, <2>5 DEF GoodFiber, HooksAgree, FiberRecord
  <2>7. f # <<>>
    BY <2>6, FiberIsNotNull DEF GoodFiber
  <2>8. EffectsTypeOK'
    BY <1>1, <2>1, <2>5 DEF EffectsTypeOK, Run, EffectsIInv
  <2> HIDE DEF f
  <2>9. ScreenInv'
    BY <1>1, <2>1, <2>4, <2>6 DEF ScreenInv, IsOff, IsCurrent
  <2> QED BY <1>3, <2>1, <2>7, <2>8, <2>9 DEF EmptyInv
<1> QED BY <1>4, <1>5

-----------------------------------------------------------------------------
(* Renders.  Each copies the destroys of the effects it may replace.         *)

LEMMA UpdatedCarries ==
  ASSUME NEW f, GoodFiber(f), NEW deps \in Deps, always \in BOOLEAN
  PROVE  /\ UpdatedEffects(f, deps) \in Effects
         /\ \A k \in EffectKinds :
              /\ UpdatedEffects(f, deps)[k].destroy = f.queue[k].destroy
              /\ UpdatedEffects(f, deps)[k].deps = deps
              /\ UpdatedEffects(f, deps)[k].has \/ f.queue[k].deps = deps
<1>1. \A k \in EffectKinds :
        /\ HookEffects(f)[k].destroy = f.queue[k].destroy
        /\ HookEffects(f)[k].deps = f.queue[k].deps
        /\ f.queue[k].destroy \in Nat
  BY DEF GoodFiber, HooksAgree, HookEffects, FiberRecord, Effects, Effect
<1> QED BY <1>1 DEF UpdatedEffects, Effects, Effect

\* Each render that has a fiber on screen leaves one that carries its effects.
LEMMA EffectsRenderPreserves ==
  ASSUME EffectsIInv, CanRender, NEW next, NEW willHide \in BOOLEAN, NotShowing(next, willHide),
         willHide => next # <<>> /\ ~next.flagged,
         next = <<>> => fiber # <<>>,
         ~split /\ next # <<>> =>
           IF fiber = <<>>
           THEN ~willHide /\ \E deps \in Deps :
                   next = Fiber(MountedEffects(deps), <<>>, TRUE, TRUE)
           ELSE Carries(fiber, next)
  PROVE  EffectsIInv'
<1> SUFFICES ASSUME ~split'
             PROVE  (EffectsTypeOK /\ ScreenInv /\ EmptyInv /\ EffectsPassiveInv /\ WorkInv)'
  BY DEF EffectsIInv
<1>1. /\ ~split /\ passive = <<>>
      /\ work' = [fiber |-> next, hidden |-> willHide]
      /\ UNCHANGED <<always, fiber, hidden, passive, created, live, faults, leaked, split>>
  BY DEF NotShowing, CanRender
<1>2. EffectsTypeOK' /\ ScreenInv' /\ EmptyInv' /\ EffectsPassiveInv'
  BY <1>1 DEF EffectsIInv, EffectsTypeOK, ScreenInv, EmptyInv, EffectsPassiveInv
<1>3. WorkInv'
  BY <1>1 DEF WorkInv, Carries
<1> QED BY <1>2, <1>3

LEMMA RenderMountPreserves ==
  ASSUME EffectsIInv, NEW deps \in Deps, RenderMount(deps)
  PROVE  EffectsIInv'
<1>1. Fiber(MountedEffects(deps), <<>>, TRUE, TRUE) # <<>>
  <2>1. "queue" \in DOMAIN Fiber(MountedEffects(deps), <<>>, TRUE, TRUE)
    BY DEF Fiber
  <2>2. "queue" \notin DOMAIN <<>>
    OBVIOUS
  <2> QED BY <2>1, <2>2
<1> QED BY <1>1, EffectsRenderPreserves DEF RenderMount

LEMMA RenderUpdatePreserves ==
  ASSUME EffectsIInv, always \in BOOLEAN, NEW deps \in Deps, RenderUpdate(deps)
  PROVE  EffectsIInv'
<1> DEFINE next == Fiber(UpdatedEffects(fiber, deps), <<>>, TRUE, TRUE)
<1>1. /\ next.queue = UpdatedEffects(fiber, deps) /\ next.aliased /\ next.flagged
      /\ "queue" \in DOMAIN next /\ "queue" \notin DOMAIN <<>>
      /\ UpdatedEffects(fiber, deps) \in Effects => next \in FiberRecord
  BY DEF Fiber, FiberRecord
<1>2. next # <<>>
  BY <1>1
<1>3. ASSUME ~split PROVE Carries(fiber, next)
  <2>1. GoodFiber(fiber)
    BY <1>3 DEF EffectsIInv, ScreenInv, RenderUpdate
  <2> HIDE DEF next
  <2> QED BY <1>1, <2>1, UpdatedCarries DEF Carries, GoodFiber, HooksAgree
<1>4. CanRender /\ fiber # <<>> /\ NotShowing(next, FALSE)
  BY DEF RenderUpdate
<1> HIDE DEF next
<1> QED BY <1>2, <1>3, <1>4, EffectsRenderPreserves

LEMMA RenderAndBailOutPreserves ==
  ASSUME EffectsIInv, always \in BOOLEAN, RenderAndBailOut
  PROVE  EffectsIInv'
<1>1. PICK deps \in Deps :
        /\ \A k \in EffectKinds : HookEffects(fiber)[k].deps = deps
        /\ NotShowing(Fiber(fiber.queue, UpdatedEffects(fiber, deps), FALSE, FALSE), FALSE)
  BY DEF RenderAndBailOut
<1> DEFINE next == Fiber(fiber.queue, UpdatedEffects(fiber, deps), FALSE, FALSE)
<1>2. /\ next.queue = fiber.queue /\ next.hooks = UpdatedEffects(fiber, deps)
      /\ ~next.aliased /\ ~next.flagged
      /\ "queue" \in DOMAIN next /\ "queue" \notin DOMAIN <<>>
      /\ fiber.queue \in Effects /\ UpdatedEffects(fiber, deps) \in Effects
           => next \in FiberRecord
  BY DEF Fiber, FiberRecord
<1>3. next # <<>>
  BY <1>2
<1>4. ASSUME ~split PROVE Carries(fiber, next)
  <2>1. GoodFiber(fiber) /\ fiber.queue \in Effects
    BY <1>4 DEF EffectsIInv, ScreenInv, RenderAndBailOut, GoodFiber, FiberRecord
  <2>2. \A k \in EffectKinds : fiber.queue[k].deps = deps
    BY <1>1, <2>1 DEF GoodFiber, HooksAgree, HookEffects
  <2> HIDE DEF next
  <2> QED BY <1>2, <2>1, <2>2, UpdatedCarries DEF Carries, GoodFiber, HooksAgree
<1>5. CanRender /\ fiber # <<>> /\ NotShowing(next, FALSE)
  BY <1>1 DEF RenderAndBailOut
<1> HIDE DEF next
<1> QED BY <1>3, <1>4, <1>5, EffectsRenderPreserves

\* RenderElsewhere and RenderSuspended
LEMMA RenderOthersPreserves ==
  ASSUME EffectsIInv, CanRender, fiber # <<>>, NEW willHide \in BOOLEAN,
         NotShowing([fiber EXCEPT !.flagged = FALSE], willHide)
  PROVE  EffectsIInv'
<1> DEFINE next == [fiber EXCEPT !.flagged = FALSE]
<1>1. CASE ~split
  <2>1. GoodFiber(fiber)
    BY <1>1 DEF EffectsIInv, ScreenInv
  <2>2. /\ next \in FiberRecord /\ ~next.flagged
        /\ next.queue = fiber.queue /\ next.hooks = fiber.hooks /\ next.aliased = fiber.aliased
    BY <2>1 DEF GoodFiber, FiberRecord
  <2> HIDE DEF next
  <2>3. Carries(fiber, next) /\ next # <<>>
    BY <2>1, <2>2, FiberIsNotNull DEF Carries, GoodFiber, HooksAgree
  <2> QED BY <2>2, <2>3, EffectsRenderPreserves DEF next
<1>2. CASE split
  BY <1>2 DEF NotShowing, EffectsIInv
<1> QED BY <1>1, <1>2

LEMMA RenderDeletedPreserves ==
  ASSUME EffectsIInv, RenderDeleted
  PROVE  EffectsIInv'
<1> QED BY EffectsRenderPreserves DEF RenderDeleted

-----------------------------------------------------------------------------
(* Theorems                                                                  *)

LEMMA EffectsInitEstablishes == EffectsInit => EffectsIInv /\ always \in BOOLEAN
<1> SUFFICES ASSUME EffectsInit PROVE EffectsIInv
  BY DEF EffectsInit
<1>1. EffectsTypeOK
  <2>1. <<>> \in Seq(Deps) /\ {} \in SUBSET Nat
    OBVIOUS
  <2> QED BY <2>1 DEF EffectsInit, EffectsTypeOK
<1> QED
  BY <1>1
  DEF EffectsInit, EffectsIInv, ScreenInv, EmptyInv, EffectsPassiveInv, WorkInv, EffectKinds

LEMMA EffectsNextPreserves ==
  EffectsIInv /\ always \in BOOLEAN /\ [EffectsNext]_effectVars
    => EffectsIInv' /\ (always \in BOOLEAN)'
<1> SUFFICES ASSUME EffectsIInv, always \in BOOLEAN, [EffectsNext]_effectVars
             PROVE  EffectsIInv' /\ (always \in BOOLEAN)'
  OBVIOUS
<1>1. always' = always
  <2>1. CASE UNCHANGED effectVars
    BY <2>1 DEF effectVars
  <2>2. CASE EffectsNext
    BY <2>2 DEF EffectsNext, RenderMount, RenderUpdate, RenderAndBailOut, RenderElsewhere,
                RenderSuspended, RenderDeleted, NotShowing, CommitEffects, CommitDeletion,
                FlushPassiveEffects
  <2> QED BY <2>1, <2>2
<1>2. ASSUME UNCHANGED effectVars PROVE EffectsIInv'
  <2>1. UNCHANGED <<fiber, hidden, work, passive, created, live, faults, split>>
    BY <1>2 DEF effectVars
  <2>2. EffectsTypeOK' = EffectsTypeOK /\ ScreenInv' = ScreenInv /\ EmptyInv' = EmptyInv
    BY <2>1 DEF EffectsTypeOK, ScreenInv, EmptyInv
  <2>3. EffectsPassiveInv' = EffectsPassiveInv /\ WorkInv' = WorkInv
    BY <2>1 DEF EffectsPassiveInv, WorkInv, Carries
  <2> QED BY <2>1, <2>2, <2>3 DEF EffectsIInv
<1>3. EffectsNext => EffectsIInv'
  BY RenderMountPreserves, RenderUpdatePreserves, RenderAndBailOutPreserves,
     RenderOthersPreserves, RenderDeletedPreserves, EffectsCommitPreserves,
     CommitDeletionPreserves, FlushPreserves
  DEF EffectsNext, RenderElsewhere, RenderSuspended
<1> QED BY <1>1, <1>2, <1>3

LEMMA EffectsInvariance == EffectsSpec => []EffectsIInv
<1> QED BY EffectsInitEstablishes, EffectsNextPreserves, PTL DEF EffectsSpec

\* Unless layout effects are switched while hook and queue hold different objects
\* (bailoutHooks), no destroy function is called twice and no create without the
\* destroy of the one before, through any renders, commits and deletions
\* (commitHookEffectListUnmount and commitHookEffectListMount).
THEOREM EffectsTakeTurns == EffectsSpec => []EffectsAlternate
<1>1. EffectsIInv => EffectsAlternate
  BY DEF EffectsIInv, EffectsTypeOK, EffectsAlternate
<1> QED BY EffectsInvariance, <1>1, PTL

\* Whenever no passive effects wait, the effects that are on are those of the component on
\* screen, created with the dependencies of its last render, and none is on
\* of a component that was deleted.
THEOREM EffectsFollowScreen == EffectsSpec => []EffectsMatchScreen
<1>1. EffectsIInv => EffectsMatchScreen
  <2> SUFFICES ASSUME EffectsIInv, passive = <<>>, ~split, NEW k \in EffectKinds
               PROVE  IF IsOn(k)
                      THEN \E id \in live[k] :
                             live[k] = {id} /\ created[k][id] = HookEffects(fiber)[k].deps
                      ELSE live[k] = {}
    BY DEF EffectsMatchScreen
  <2>1. CASE fiber = <<>>
    BY <2>1 DEF EffectsIInv, EmptyInv, IsOn, EffectKinds
  <2>2. CASE fiber # <<>>
    <3>1. HookEffects(fiber)[k].deps = fiber.queue[k].deps
      BY <2>2 DEF EffectsIInv, ScreenInv, GoodFiber, HooksAgree, HookEffects
    <3> QED BY <2>2, <3>1 DEF EffectsIInv, ScreenInv, IsOn, Current, Off
  <2> QED BY <2>1, <2>2
<1> QED BY EffectsInvariance, <1>1, PTL

-----------------------------------------------------------------------------
(***************************************************************************)
(* No component is left showing an old state of the store, whenever and    *)
(* however often it changes, and no concurrent render that is committed at *)
(* once shows one, for any components, stores and getSnapshot functions.   *)
(***************************************************************************)

-----------------------------------------------------------------------------
(* The inductive invariant of external stores                                *)

\* What a render made of c is a change that effects follow up, or none at all.
Sound(c, outcome) ==
  outcome.kind = "render" =>
    /\ outcome.check <=> outcome.update
    /\ outcome.subscribe \/ c \in Mounted
    /\ outcome.subscribe => outcome.update
    /\ ~outcome.update => /\ outcome.get = inst[c].get
                          /\ outcome.snapshot = shown[c].snapshot

\* The components that effects are still to subscribe, and to compare again
ToSubscribe == IF effects = Nothing THEN {} ELSE effects.subscribe
ToCompare == IF effects = Nothing THEN {} ELSE effects.update

\* c will notice when the store moves away from what it shows, and has noticed.
Follows(c) ==
  /\ inst[c] = [value |-> shown[c].snapshot, get |-> shown[c].get]
  /\ c \in sync \/ shown[c].snapshot = Snapshot(shown[c].get)

MountedFollow ==
  \A c \in Mounted : /\ c \in ToSubscribe \/ c \in listening
                     /\ c \in ToCompare \/ Follows(c)

StorePassiveInv ==
  effects # Nothing =>
    /\ render = Nothing
    /\ effects.subscribe \subseteq effects.update
    /\ ~effects.mounting => effects.unsubscribe \cap Mounted \subseteq effects.subscribe

StoreRenderInv ==
  render # Nothing =>
    /\ Components \subseteq render.left \cup DOMAIN render.outcomes
    /\ render.finished => render.left = {}
    /\ \A c \in DOMAIN render.outcomes : Sound(c, render.outcomes[c])

\* The shapes of the records
StoreTypeOK ==
  /\ DOMAIN shown = Components
  /\ DOMAIN inst = Components
  /\ inst = [c \in Components |-> inst[c]]
  /\ render # Nothing =>
       render = [outcomes |-> render.outcomes, left |-> render.left,
                 finished |-> render.finished, delayed |-> render.delayed]
  /\ effects # Nothing =>
       effects = [mounting |-> effects.mounting, unsubscribe |-> effects.unsubscribe,
                  subscribe |-> effects.subscribe, update |-> effects.update]

StoreIInv == StoreTypeOK /\ StorePassiveInv /\ StoreRenderInv /\ MountedFollow

-----------------------------------------------------------------------------
(* Renders and commits                                                       *)

LEMMA OutcomesAreSound ==
  ASSUME NEW c \in Components, NEW outcome \in Outcomes(c, FALSE)
  PROVE  /\ Sound(c, outcome)
         /\ outcome.kind = "render" => outcome.snapshot = Snapshot(outcome.get)
  BY DEF Outcomes, Sound, MountStore, UpdateStore, NotRendered, Deleted

LEMMA AgainIsSound ==
  ASSUME NEW c \in Components, NEW outcome
  PROVE  /\ Sound(c, Again(c, outcome))
         /\ Again(c, outcome).kind = outcome.kind
         /\ outcome.kind = "render" =>
              Again(c, outcome).snapshot = Snapshot(Again(c, outcome).get)
  BY DEF Again, Sound, MountStore, UpdateStore

\* A commit leaves to effects what it changes.
LEMMA StoreCommitPreserves ==
  ASSUME StoreIInv, effects = Nothing, NEW outcomes,
         \A c \in Components : Sound(c, outcomes[c]),
         \A c \in Components \cap sync :
           /\ outcomes[c].kind \in {"render", "delete"}
           /\ outcomes[c].kind = "render" =>
                outcomes[c].snapshot = Snapshot(outcomes[c].get),
         CommitOutcomes(outcomes),
         UNCHANGED <<store, listening>>
  PROVE  StoreIInv'
<1> DEFINE rendered == {c \in Components : outcomes[c].kind = "render"}
           deleted == {c \in Components : outcomes[c].kind = "delete"}
<1>1. /\ DOMAIN shown' = Components /\ DOMAIN inst' = Components
      /\ inst' = [c \in Components |-> inst'[c]]
      /\ render' = Nothing
  BY DEF CommitOutcomes
<1>2. /\ effects' # Nothing
      /\ effects' = [mounting |-> FALSE,
                     unsubscribe |-> deleted \cup
                        {c \in rendered \cap Mounted : outcomes[c].subscribe},
                     subscribe |-> {c \in rendered : outcomes[c].subscribe},
                     update |-> {c \in rendered : outcomes[c].update}]
  BY DEF CommitOutcomes, Nothing
<1>3. ASSUME NEW c \in Components
      PROVE  /\ c \in rendered =>
                  shown'[c] = [snapshot |-> outcomes[c].snapshot, get |-> outcomes[c].get]
             /\ c \in deleted => c \notin Mounted'
             /\ c \notin rendered \cup deleted => shown'[c] = shown[c]
             /\ inst'[c] = IF c \in rendered \ Mounted
                           THEN [value |-> outcomes[c].snapshot, get |-> outcomes[c].get]
                           ELSE inst[c]
  BY DEF CommitOutcomes, Mounted
<1>4. ASSUME NEW c \in Mounted'
      PROVE  /\ c \in ToSubscribe' \/ c \in listening'
             /\ c \in ToCompare' \/ Follows(c)'
  <2>1. c \in Components /\ c \notin deleted
    BY <1>3 DEF Mounted
  <2>2. c \in Mounted => /\ c \in listening /\ Follows(c)
    BY <2>1 DEF StoreIInv, MountedFollow, ToSubscribe, ToCompare
  <2>3. /\ c \in ToSubscribe' <=> c \in rendered /\ outcomes[c].subscribe
        /\ c \in ToCompare' <=> c \in rendered /\ outcomes[c].update
    BY <1>2 DEF ToSubscribe, ToCompare
  <2>4. CASE c \in rendered /\ outcomes[c].update
    BY <2>1, <2>2, <2>3, <2>4 DEF Sound
  <2>5. CASE c \in rendered /\ ~outcomes[c].update
    <3>1. /\ c \in Mounted /\ ~outcomes[c].subscribe
          /\ outcomes[c].get = inst[c].get
          /\ outcomes[c].snapshot = shown[c].snapshot
      BY <2>1, <2>5 DEF Sound
    <3>2. inst[c] = [value |-> shown[c].snapshot, get |-> shown[c].get]
      BY <2>2, <3>1 DEF Follows
    <3>3. outcomes[c].get = shown[c].get
      BY <3>1, <3>2
    <3>4. /\ shown'[c] = [snapshot |-> shown[c].snapshot, get |-> shown[c].get]
          /\ inst'[c] = inst[c]
      BY <1>3, <2>1, <2>5, <3>1, <3>3
    <3>5. shown[c].snapshot = Snapshot(shown[c].get)
      BY <2>1, <2>2, <2>5, <3>1, <3>3 DEF Follows
    <3>6. Follows(c)'
      BY <3>2, <3>4, <3>5 DEF Follows, Snapshot
    <3> QED BY <2>2, <3>1, <3>6
  <2>6. CASE c \notin rendered
    <3>1. c \in Mounted /\ shown'[c] = shown[c] /\ inst'[c] = inst[c]
      BY <1>3, <2>1, <2>6 DEF Mounted
    <3>2. c \notin sync
      BY <2>1, <2>6
    <3> QED BY <2>2, <3>1, <3>2 DEF Follows, Snapshot
  <2> QED BY <2>4, <2>5, <2>6
<1>5. StorePassiveInv'
  BY <1>1, <1>2, <1>3 DEF StorePassiveInv, Sound, Mounted
<1> QED BY <1>1, <1>2, <1>4, <1>5 DEF StoreIInv, StoreTypeOK, StoreRenderInv, MountedFollow

-----------------------------------------------------------------------------
(* The actions                                                               *)

\* What StartConcurrentRender and the slices leave alone
LEMMA StoreRenderPreserves ==
  ASSUME StoreIInv, UNCHANGED <<store, shown, inst, listening, sync, effects>>,
         effects = Nothing,
         render' = [outcomes |-> render'.outcomes, left |-> render'.left,
                    finished |-> render'.finished, delayed |-> render'.delayed],
         Components \subseteq render'.left \cup DOMAIN render'.outcomes,
         render'.finished => render'.left = {},
         \A c \in DOMAIN render'.outcomes : Sound(c, render'.outcomes[c])
  PROVE  StoreIInv'
<1>1. StoreRenderInv'
  BY DEF StoreRenderInv, Sound, Mounted
<1>2. MountedFollow'
  BY DEF StoreIInv, MountedFollow, Mounted, Follows, ToSubscribe, ToCompare, Snapshot
<1>3. StoreTypeOK' /\ StorePassiveInv'
  BY DEF StoreIInv, StoreTypeOK, StorePassiveInv
<1> QED BY <1>1, <1>2, <1>3 DEF StoreIInv

LEMMA StoreChangePreserves ==
  ASSUME StoreIInv, NEW v \in Values, StoreChange(v)
  PROVE  StoreIInv'
<1> USE DEF StoreChange
<1>1. StoreTypeOK' /\ StorePassiveInv'
  BY DEF StoreIInv, StoreTypeOK, StorePassiveInv, Mounted, Nothing
<1>2. StoreRenderInv'
  BY DEF StoreIInv, StoreTypeOK, StoreRenderInv, Sound, Mounted, Nothing
<1>3. ASSUME NEW c \in Mounted'
      PROVE  /\ c \in ToSubscribe' \/ c \in listening'
             /\ c \in ToCompare' \/ Follows(c)'
  <2>1. c \in Mounted /\ ToSubscribe' = ToSubscribe /\ ToCompare' = ToCompare
    BY DEF Mounted, ToSubscribe, ToCompare
  <2>2. CASE c \in ToCompare
    BY <2>1, <2>2 DEF StoreIInv, MountedFollow
  <2>3. CASE c \notin ToCompare
    <3>1. c \in listening /\ Follows(c)
      BY <2>1, <2>3 DEF StoreIInv, MountedFollow, StorePassiveInv, ToSubscribe, ToCompare
    <3>2. c \in sync' \/ GetSnapshot[shown[c].get][v] = shown[c].snapshot
      BY <2>1, <3>1 DEF Follows, SnapshotChanged
    <3> QED BY <2>1, <3>1, <3>2 DEF Follows, Snapshot
  <2> QED BY <2>2, <2>3
<1> QED BY <1>1, <1>2, <1>3 DEF StoreIInv, MountedFollow

LEMMA SyncRenderPreserves ==
  ASSUME StoreIInv, SyncRender
  PROVE  StoreIInv'
<1>1. PICK outcomes \in [Components -> UNION {Outcomes(c, FALSE) : c \in Components}] :
        /\ \A c \in Components : outcomes[c] \in Outcomes(c, c \in sync)
        /\ CommitOutcomes(outcomes)
  BY DEF SyncRender
<1>2. ASSUME NEW c \in Components
      PROVE  /\ outcomes[c] \in Outcomes(c, FALSE)
             /\ c \in sync => outcomes[c].kind \in {"render", "delete"}
  <2>1. outcomes[c] \in Outcomes(c, c \in sync)
    BY <1>1
  <2> QED BY <2>1 DEF Outcomes, MountStore, UpdateStore, Deleted
<1>3. \A c \in Components :
        /\ Sound(c, outcomes[c])
        /\ outcomes[c].kind = "render" => outcomes[c].snapshot = Snapshot(outcomes[c].get)
  BY <1>2, OutcomesAreSound
<1> QED BY <1>1, <1>2, <1>3, StoreCommitPreserves DEF SyncRender

LEMMA StartConcurrentRenderPreserves ==
  ASSUME StoreIInv, StartConcurrentRender
  PROVE  StoreIInv'
  BY StoreRenderPreserves DEF StartConcurrentRender

LEMMA RenderConcurrentlyPreserves ==
  ASSUME StoreIInv, NEW c \in Components, RenderConcurrently(c)
  PROVE  StoreIInv'
<1>1. PICK outcome \in Outcomes(c, FALSE) :
        render' = [render EXCEPT !.left = @ \ {c},
                     !.outcomes = [d \in {c} \cup DOMAIN @ |->
                                     IF d = c THEN outcome ELSE @[d]]]
  BY DEF RenderConcurrently
<1>2. Sound(c, outcome)
  BY OutcomesAreSound
<1>3. /\ render # Nothing /\ effects = Nothing
      /\ UNCHANGED <<store, shown, inst, listening, sync, effects>>
      /\ c \in render.left
  BY DEF RenderConcurrently, StoreIInv, StorePassiveInv
<1>4. render' = [outcomes |-> [d \in {c} \cup DOMAIN render.outcomes |->
                                 IF d = c THEN outcome ELSE render.outcomes[d]],
                 left |-> render.left \ {c},
                 finished |-> render.finished, delayed |-> render.delayed]
  BY <1>1, <1>3 DEF StoreIInv, StoreTypeOK
<1>5. /\ Components \subseteq render'.left \cup DOMAIN render'.outcomes
      /\ render'.finished => render'.left = {}
      /\ \A d \in DOMAIN render'.outcomes : Sound(d, render'.outcomes[d])
  BY <1>2, <1>3, <1>4 DEF StoreIInv, StoreRenderInv
<1> QED BY <1>3, <1>4, <1>5, StoreRenderPreserves

\* What FinishConcurrentRender commits, now or later
LEMMA FinishedIsSound ==
  ASSUME StoreIInv, FinishConcurrentRender
  PROVE  \A c \in Components : Sound(c, ConsistentOutcomes(render.outcomes)[c])
<1>1. \A c \in Components : Sound(c, render.outcomes[c])
  BY DEF StoreIInv, StoreRenderInv, FinishConcurrentRender
<1>2. CASE IsConsistent(render.outcomes)
  BY <1>1, <1>2 DEF ConsistentOutcomes
<1>3. CASE ~IsConsistent(render.outcomes)
  BY <1>3, AgainIsSound DEF ConsistentOutcomes
<1> QED BY <1>2, <1>3

LEMMA FinishConcurrentRenderPreserves ==
  ASSUME StoreIInv, FinishConcurrentRender
  PROVE  StoreIInv'
<1> DEFINE outcomes == ConsistentOutcomes(render.outcomes)
<1>1. /\ sync = {} /\ effects = Nothing /\ render # Nothing /\ render.left = {}
      /\ Components \subseteq DOMAIN render.outcomes
  BY DEF FinishConcurrentRender, StoreIInv, StorePassiveInv, StoreRenderInv
<1>2. \A c \in Components : Sound(c, outcomes[c])
  BY FinishedIsSound
<1>3. CASE CommitOutcomes(outcomes) /\ UNCHANGED <<store, changes, listening>>
  BY <1>1, <1>2, <1>3, StoreCommitPreserves
<1>4. CASE /\ render' = [render EXCEPT !.finished = TRUE,
                                       !.outcomes = ConsistentOutcomes(@)]
           /\ UNCHANGED <<store, changes, shown, inst, listening, sync, effects>>
  <2>1. render' = [outcomes |-> outcomes, left |-> render.left, finished |-> TRUE,
                   delayed |-> render.delayed]
    BY <1>1, <1>4 DEF StoreIInv, StoreTypeOK
  <2>2. /\ Components \subseteq DOMAIN outcomes
        /\ \A c \in DOMAIN outcomes : Sound(c, outcomes[c])
    <3>1. CASE IsConsistent(render.outcomes)
      BY <1>1, <3>1 DEF ConsistentOutcomes, StoreIInv, StoreRenderInv
    <3>2. CASE ~IsConsistent(render.outcomes)
      BY <1>2, <3>2 DEF ConsistentOutcomes
    <3> QED BY <3>1, <3>2
  <2> QED BY <1>1, <1>4, <2>1, <2>2, StoreRenderPreserves
<1> QED BY <1>3, <1>4 DEF FinishConcurrentRender

LEMMA CommitLaterPreserves ==
  ASSUME StoreIInv, CommitLater
  PROVE  StoreIInv'
<1>1. \A c \in Components : Sound(c, render.outcomes[c])
  BY DEF CommitLater, StoreIInv, StoreRenderInv
<1>2. sync = {} /\ effects = Nothing
  BY DEF CommitLater, StoreIInv, StorePassiveInv
<1> QED BY <1>1, <1>2, StoreCommitPreserves DEF CommitLater

LEMMA EffectsAreSomething ==
  ASSUME NEW m, NEW u, NEW s, NEW c
  PROVE  [mounting |-> m, unsubscribe |-> u, subscribe |-> s, update |-> c] # Nothing
  BY DEF Nothing

LEMMA FlushUnmountEffectsPreserves ==
  ASSUME StoreIInv, FlushUnmountEffects
  PROVE  StoreIInv'
<1> USE DEF FlushUnmountEffects
<1>1. /\ Mounted' = Mounted /\ render = Nothing
      /\ effects.subscribe \subseteq effects.update
  BY DEF Mounted, StoreIInv, StorePassiveInv
<1>2. /\ ToSubscribe' = ToSubscribe /\ ToCompare' = ToCompare
      /\ StorePassiveInv' /\ StoreTypeOK'
  <2>1. CASE effects.subscribe \cup effects.update = {}
    BY <1>1, <2>1 DEF StoreIInv, StoreTypeOK, StorePassiveInv, ToSubscribe, ToCompare
  <2>2. CASE effects.subscribe \cup effects.update # {}
    <3>1. effects' = [mounting |-> TRUE, unsubscribe |-> effects.unsubscribe,
                      subscribe |-> effects.subscribe, update |-> effects.update]
      BY <2>2 DEF StoreIInv, StoreTypeOK
    <3>2. effects' # Nothing
      BY <3>1, EffectsAreSomething
    <3>3. /\ effects'.mounting = TRUE /\ effects'.unsubscribe = effects.unsubscribe
          /\ effects'.subscribe = effects.subscribe /\ effects'.update = effects.update
      BY <3>1
    <3>4. ToSubscribe' = ToSubscribe /\ ToCompare' = ToCompare
      BY <3>2, <3>3 DEF ToSubscribe, ToCompare
    <3>5. StorePassiveInv'
      BY <1>1, <3>3 DEF StorePassiveInv
    <3>6. StoreTypeOK'
      BY <1>1, <3>1, <3>3 DEF StoreIInv, StoreTypeOK
    <3> QED BY <3>4, <3>5, <3>6
  <2> QED BY <2>1, <2>2
<1>3. ASSUME NEW c \in Mounted
      PROVE  /\ c \in ToSubscribe \/ c \in listening'
             /\ c \in ToCompare \/ Follows(c)'
  BY DEF StoreIInv, MountedFollow, StorePassiveInv, ToSubscribe, ToCompare, Follows, Snapshot
<1>4. StoreRenderInv'
  BY DEF StoreIInv, StoreRenderInv, StorePassiveInv
<1> QED BY <1>1, <1>2, <1>3, <1>4 DEF StoreIInv, MountedFollow

LEMMA FlushMountEffectsPreserves ==
  ASSUME StoreIInv, NEW c \in Components, FlushMountEffects(c)
  PROVE  StoreIInv'
<1> USE DEF FlushMountEffects
<1>1. /\ Mounted' = Mounted /\ render = Nothing /\ StoreRenderInv'
      /\ effects # Nothing /\ effects.mounting /\ render' = Nothing
      /\ effects.subscribe \subseteq effects.update
  BY DEF Mounted, StoreIInv, StorePassiveInv, StoreRenderInv
<1>2. /\ ToSubscribe' = ToSubscribe \ {c} /\ ToCompare' = ToCompare \ {c}
      /\ StorePassiveInv'
      /\ effects' # Nothing =>
           effects' = [mounting |-> effects'.mounting, unsubscribe |-> effects'.unsubscribe,
                       subscribe |-> effects'.subscribe, update |-> effects'.update]
  <2>1. CASE effects.subscribe \cup effects.update = {c}
    <3>1. effects.subscribe \subseteq {c} /\ effects.update \subseteq {c}
      BY <2>1
    <3> QED BY <1>1, <2>1, <3>1 DEF StorePassiveInv, ToSubscribe, ToCompare
  <2>2. CASE effects.subscribe \cup effects.update # {c}
    <3>1. effects' = [mounting |-> effects.mounting, unsubscribe |-> effects.unsubscribe,
                      subscribe |-> effects.subscribe \ {c},
                      update |-> effects.update \ {c}]
      BY <2>2 DEF StoreIInv, StoreTypeOK
    <3> HIDE DEF FlushMountEffects
    <3>2. effects' # Nothing
      BY <3>1, EffectsAreSomething
    <3>3. /\ effects'.mounting = effects.mounting
          /\ effects'.unsubscribe = effects.unsubscribe
          /\ effects'.subscribe = effects.subscribe \ {c}
          /\ effects'.update = effects.update \ {c}
      BY <3>1
    <3>4. ToSubscribe' = ToSubscribe \ {c} /\ ToCompare' = ToCompare \ {c}
      BY <1>1, <3>2, <3>3 DEF ToSubscribe, ToCompare
    <3>5. StorePassiveInv'
      BY <1>1, <3>3 DEF StorePassiveInv
    <3> QED BY <3>1, <3>3, <3>4, <3>5
  <2> QED BY <2>1, <2>2
<1>3. StoreTypeOK'
  BY <1>1, <1>2 DEF StoreIInv, StoreTypeOK, UpdateStoreInstance
<1>4. ASSUME NEW d \in Mounted
      PROVE  /\ d \in ToSubscribe \ {c} \/ d \in listening'
             /\ d \in ToCompare \ {c} \/ Follows(d)'
  <2>1. d \in ToSubscribe \/ d \in listening
    BY DEF StoreIInv, MountedFollow
  <2>2. CASE d = c /\ c \in effects.update
    BY <2>1, <2>2 DEF StoreIInv, StoreTypeOK, ToSubscribe, UpdateStoreInstance, Follows,
                      SnapshotChanged, Snapshot, Mounted
  <2>3. CASE ~(d = c /\ c \in effects.update)
    BY <2>1, <2>3 DEF StoreIInv, StoreTypeOK, ToSubscribe, ToCompare, StorePassiveInv,
                      MountedFollow, UpdateStoreInstance, Follows, Snapshot, Mounted
  <2> QED BY <2>2, <2>3
<1> QED BY <1>1, <1>2, <1>3, <1>4 DEF StoreIInv, MountedFollow

-----------------------------------------------------------------------------
(* Theorems                                                                  *)

LEMMA StoreInitEstablishes == StoreInit => StoreIInv
  BY DEF StoreInit, StoreIInv, StoreTypeOK, StorePassiveInv, StoreRenderInv, MountedFollow,
         Mounted

LEMMA StoreNextPreserves == StoreIInv /\ [StoreNext]_storeVars => StoreIInv'
<1> SUFFICES ASSUME StoreIInv, [StoreNext]_storeVars PROVE StoreIInv'
  OBVIOUS
<1>1. CASE StoreNext
  BY <1>1, StoreChangePreserves, SyncRenderPreserves, StartConcurrentRenderPreserves,
     RenderConcurrentlyPreserves, FinishConcurrentRenderPreserves, CommitLaterPreserves,
     FlushUnmountEffectsPreserves, FlushMountEffectsPreserves DEF StoreNext
<1>2. CASE UNCHANGED storeVars
  <2>1. StoreTypeOK' /\ StorePassiveInv'
    BY <1>2 DEF storeVars, StoreIInv, StoreTypeOK, StorePassiveInv, Mounted
  <2>2. StoreRenderInv' /\ MountedFollow'
    BY <1>2 DEF storeVars, StoreIInv, StoreRenderInv, MountedFollow, Sound, Mounted, Follows,
                ToSubscribe, ToCompare, Snapshot
  <2> QED BY <2>1, <2>2 DEF StoreIInv
<1> QED BY <1>1, <1>2

LEMMA StoreInvariance == StoreSpec => []StoreIInv
<1> QED BY StoreInitEstablishes, StoreNextPreserves, PTL DEF StoreSpec

\* Whatever store there is and however its snapshots are read: when no update and
\* no effect is pending, every component shows what the store says
\* (updateStoreInstance, subscribeToStore and handleStoreChange together).
THEOREM NobodyStaysStale == StoreSpec => []StaleIsRepaired
<1>1. StoreIInv => StaleIsRepaired
  BY DEF StoreIInv, MountedFollow, Follows, ToCompare, StaleIsRepaired, ShowsStore
<1> QED BY StoreInvariance, <1>1, PTL

LEMMA FinishDoesNotTear ==
  ASSUME StoreIInv, FinishConcurrentRender, shown' # shown
  PROVE  ShowsStore'
<1> DEFINE outcomes == ConsistentOutcomes(render.outcomes)
<1>1. /\ CommitOutcomes(outcomes) /\ store' = store /\ sync = {} /\ effects = Nothing
      /\ \A c \in Components : Sound(c, outcomes[c])
  BY FinishedIsSound DEF FinishConcurrentRender, StoreIInv, StorePassiveInv
<1>2. SUFFICES ASSUME NEW c \in Mounted'
               PROVE  shown'[c].snapshot = Snapshot(shown'[c].get)
  BY <1>1 DEF ShowsStore, Snapshot
<1>3. c \in Components /\ outcomes[c].kind # "delete"
  BY <1>1 DEF Mounted, CommitOutcomes
<1>4. CASE outcomes[c].kind = "render"
  <2>1. /\ shown'[c].snapshot = outcomes[c].snapshot
        /\ shown'[c].get = outcomes[c].get
    BY <1>1, <1>3, <1>4 DEF CommitOutcomes
  <2>2. outcomes[c].snapshot = Snapshot(outcomes[c].get)
    <3>1. CASE ~IsConsistent(render.outcomes)
      BY <1>3, <1>4, <3>1, AgainIsSound DEF ConsistentOutcomes
    <3>2. CASE IsConsistent(render.outcomes) /\ outcomes[c].check
      BY <1>3, <1>4, <3>2 DEF ConsistentOutcomes, IsConsistent
    <3>3. CASE ~outcomes[c].check
      <4>1. /\ c \in Mounted /\ outcomes[c].get = inst[c].get
            /\ outcomes[c].snapshot = shown[c].snapshot
        BY <1>1, <1>3, <1>4, <3>3 DEF Sound
      <4>2. Follows(c) /\ c \notin sync
        BY <1>1, <4>1 DEF StoreIInv, MountedFollow, ToCompare
      <4>3. inst[c].get = shown[c].get /\ shown[c].snapshot = Snapshot(shown[c].get)
        BY <4>2 DEF Follows
      <4> QED BY <4>1, <4>3
    <3> QED BY <3>1, <3>2, <3>3
  <2> QED BY <2>1, <2>2
<1>5. CASE outcomes[c].kind # "render"
  <2>1. shown'[c] = shown[c] /\ c \in Mounted
    BY <1>1, <1>2, <1>3, <1>5 DEF CommitOutcomes, Mounted
  <2> QED BY <1>1, <2>1 DEF StoreIInv, MountedFollow, ToCompare, Follows
<1> QED BY <1>4, <1>5

\* A concurrent render that is committed at once shows one state of the store, the
\* present one (isRenderConsistentWithExternalStores, and the effects that an
\* earlier render left).
THEOREM NothingTears == StoreSpec => NoTearing
<1>1. StoreIInv /\ [StoreNext]_storeVars
        => [FinishConcurrentRender /\ shown' # shown => ShowsStore']_storeVars
  BY FinishDoesNotTear
<1> QED BY StoreInvariance, <1>1, PTL DEF StoreSpec, NoTearing

-----------------------------------------------------------------------------
(***************************************************************************)
(* No event that came before hydration is blocked for ever by a boundary   *)
(* that has been hydrated or cleared, however boundaries nest.             *)
(***************************************************************************)

-----------------------------------------------------------------------------
(* The inductive invariant                                                   *)

Blocker == Instances \cup {Null}
Event == [target : Targets, blockedOn : Blocker]
Entry == [target : Targets, blockedOn : Blocker, priority : Priorities]

TypeOK ==
  /\ state \in [Instances -> {"dehydrated", "hydrated", "cleared", "removed"}]
  /\ queuedEvents \in [DOMAIN queuedEvents -> Event]
  /\ DOMAIN queuedEvents \subseteq EventKinds
  /\ hasScheduledReplayAttempt \in BOOLEAN
  /\ queuedExplicitHydrationTargets \in Seq(Entry)
  /\ events \in Nat

IInv == TypeOK /\ BlockedIsRetried

Waits(st, i) == st[i] \in {"dehydrated", "removed"}

EventsWait(st, qd, scheduled) ==
  \A k \in DOMAIN qd :
    IF qd[k].blockedOn = Null THEN scheduled ELSE Waits(st, qd[k].blockedOn)

EntriesWait(st, queue) ==
  \A j \in DOMAIN queue : queue[j].blockedOn # Null => Waits(st, queue[j].blockedOn)

LEMMA BlockedIsRetriedIs ==
  BlockedIsRetried <=>
    /\ EventsWait(state, queuedEvents, hasScheduledReplayAttempt)
    /\ EntriesWait(state, queuedExplicitHydrationTargets)
  BY DEF BlockedIsRetried, EventsWait, EntriesWait, Waits

-----------------------------------------------------------------------------
(* What blocks a target, and the targets at the head of the queue            *)

LEMMA LeastPlace ==
  ASSUME NEW S, S \subseteq Nat, S # {}
  PROVE  \E n \in S : \A m \in S : n <= m
<1>1. PICK n \in S : \A m \in S : ~(<<m, n>> \in OpToRel(<, Nat))
  BY NatLessThanWellFounded, WFMin
<1>2. \A m \in S : ~(m < n)
  BY <1>1 DEF OpToRel
<1>3. \A m \in S : n <= m
  BY <1>2
<1> QED BY <1>3

LEMMA FindBlockingFinds ==
  ASSUME NEW st, NEW target \in Targets
  PROVE  /\ FindBlocking(st, target) \in Blocker
         /\ FindBlocking(st, target) # Null =>
              Waits(st, FindBlocking(st, target))
<1> DEFINE path == Path[target]
           blocking == {n \in DOMAIN path : st[path[n]] = "dehydrated"}
           start == CHOOSE n \in blocking : \A m \in blocking : n <= m
<1> SUFFICES ASSUME FindBlocking(st, target) # Null
             PROVE  /\ FindBlocking(st, target) \in Instances
                    /\ Waits(st, FindBlocking(st, target))
  BY DEF Blocker
<1>1. blocking # {} /\ FindBlocking(st, target) = path[start]
  BY DEF FindBlocking
<1>2. path \in Seq(Instances) /\ blocking \subseteq Nat
  BY PathAssumption
<1>3. \E n \in blocking : \A m \in blocking : n <= m
  <2> HIDE DEF blocking
  <2> QED BY <1>1, <1>2, LeastPlace
<1>4. start \in blocking
  <2> HIDE DEF blocking
  <2> QED BY <1>3
<1>5. path[start] \in Instances /\ st[path[start]] = "dehydrated"
  <2>1. start \in DOMAIN path /\ st[path[start]] = "dehydrated"
    BY <1>4
  <2> HIDE DEF start
  <2> QED BY <1>2, <2>1
<1> QED BY <1>1, <1>5 DEF Waits

LEMMA AdvancedWait ==
  ASSUME NEW st, NEW queue \in Seq(Entry), EntriesWait(st, queue)
  PROVE  /\ Advanced(queue, st) \in Seq(Entry)
         /\ EntriesWait(st, Advanced(queue, st))
<1> DEFINE waits == {j \in DOMAIN queue :
              queue[j].blockedOn # Null \/ FindBlocking(st, queue[j].target) # Null}
           start == CHOOSE j \in waits : \A k \in waits : j <= k
           rest == SubSeq(queue, start, Len(queue))
           head == [rest[1] EXCEPT !.blockedOn =
                      IF @ # Null THEN @ ELSE FindBlocking(st, queue[start].target)]
<1>1. CASE waits = {}
  <2>1. Advanced(queue, st) = <<>> /\ <<>> \in Seq(Entry)
    BY <1>1 DEF Advanced
  <2> QED BY <2>1 DEF EntriesWait
<1>2. CASE waits # {}
  <2>1. start \in waits
    <3>1. waits \subseteq Nat
      OBVIOUS
    <3> HIDE DEF waits
    <3> QED BY <1>2, <3>1, LeastPlace
  <2>2. start \in 1..Len(queue)
    BY <2>1
  <2>3. /\ rest \in Seq(Entry)
        /\ Len(rest) = Len(queue) - start + 1
        /\ \A j \in 1..Len(rest) : rest[j] = queue[start + j - 1]
    <3> HIDE DEF start
    <3> QED BY <2>2, SubSeqProperties
  <2>4. Len(rest) \in Nat /\ 1 \in 1..Len(rest) /\ rest[1] = queue[start]
    <3> HIDE DEF start
    <3> QED BY <2>2, <2>3
  <2>5. Advanced(queue, st) = [rest EXCEPT ![1] = head]
    <3>1. Advanced(queue, st) =
            [rest EXCEPT ![1].blockedOn =
               IF @ # Null THEN @ ELSE FindBlocking(st, queue[start].target)]
      BY <1>2 DEF Advanced
    <3> HIDE DEF rest, start
    <3> QED BY <3>1
  <2>6. /\ head \in Entry
        /\ head.blockedOn # Null => Waits(st, head.blockedOn)
    <3>1. /\ queue[start] \in Entry /\ rest[1] \in Entry
          /\ queue[start].blockedOn # Null => Waits(st, queue[start].blockedOn)
      BY <2>1, <2>4 DEF EntriesWait
    <3>2. /\ FindBlocking(st, queue[start].target) \in Blocker
          /\ FindBlocking(st, queue[start].target) # Null =>
               Waits(st, FindBlocking(st, queue[start].target))
      BY <3>1, FindBlockingFinds DEF Entry
    <3> HIDE DEF rest, start
    <3> QED BY <2>4, <3>1, <3>2 DEF Entry
  <2>7. \A j \in 1..Len(rest) : rest[j].blockedOn # Null => Waits(st, rest[j].blockedOn)
    <3>1. \A j \in 1..Len(rest) : start + j - 1 \in 1..Len(queue)
      <4> HIDE DEF start, rest
      <4> QED BY <2>2, <2>3
    <3> HIDE DEF start, rest
    <3> QED BY <2>3, <3>1 DEF EntriesWait
  <2> HIDE DEF rest, head, start
  <2>8. [rest EXCEPT ![1] = head] \in Seq(Entry)
    BY <2>3, <2>4, <2>6
  <2>9. EntriesWait(st, [rest EXCEPT ![1] = head])
    BY <2>3, <2>4, <2>6, <2>7 DEF EntriesWait
  <2> QED BY <2>5, <2>8, <2>9
<1> QED BY <1>1, <1>2

-----------------------------------------------------------------------------
(* The actions                                                               *)

LEMMA ClearedWait ==
  ASSUME IInv, NEW kind \in EventKinds
  PROVE  /\ Cleared(kind) \in [DOMAIN Cleared(kind) -> Event]
         /\ DOMAIN Cleared(kind) \subseteq EventKinds
         /\ EventsWait(state, Cleared(kind), hasScheduledReplayAttempt)
<1>1. /\ DOMAIN Cleared(kind) = DOMAIN queuedEvents \ {kind}
      /\ \A k \in DOMAIN queuedEvents \ {kind} : Cleared(kind)[k] = queuedEvents[k]
      /\ Cleared(kind) = [k \in DOMAIN queuedEvents \ {kind} |-> queuedEvents[k]]
  BY DEF Cleared, Restrict
<1>2. EventsWait(state, queuedEvents, hasScheduledReplayAttempt)
  BY BlockedIsRetriedIs DEF IInv
<1> QED BY <1>1, <1>2 DEF IInv, TypeOK, EventsWait

LEMMA ContinuousEventPreserves ==
  ASSUME IInv, NEW kind \in EventKinds, NEW target \in Targets,
         ContinuousEvent(kind, target)
  PROVE  IInv'
<1> DEFINE blockedOn == FindBlocking(state, target)
           event == [target |-> target, blockedOn |-> blockedOn]
<1>1. /\ UNCHANGED <<state, hasScheduledReplayAttempt, queuedExplicitHydrationTargets>>
      /\ events' \in Nat
  BY DEF ContinuousEvent, IInv, TypeOK
<1>2. /\ EventsWait(state, queuedEvents, hasScheduledReplayAttempt)
      /\ EntriesWait(state, queuedExplicitHydrationTargets)
  BY BlockedIsRetriedIs DEF IInv
<1>3. /\ queuedEvents' \in [DOMAIN queuedEvents' -> Event]
      /\ DOMAIN queuedEvents' \subseteq EventKinds
      /\ EventsWait(state, queuedEvents', hasScheduledReplayAttempt)
  <2>1. CASE blockedOn = Null
    <3>1. queuedEvents' = Cleared(kind)
      BY <2>1 DEF ContinuousEvent
    <3> QED BY <3>1, ClearedWait
  <2>2. CASE blockedOn # Null
    <3>1. queuedEvents' = [k \in {kind} \cup DOMAIN queuedEvents |->
                       IF k = kind THEN event ELSE queuedEvents[k]]
      BY <2>2 DEF ContinuousEvent
    <3>2. event \in Event /\ Waits(state, blockedOn)
      BY <2>2, FindBlockingFinds DEF Event
    <3> HIDE DEF event, blockedOn
    <3>3. event.blockedOn = blockedOn
      BY DEF event
    <3> QED BY <1>2, <2>2, <3>1, <3>2, <3>3 DEF EventsWait, IInv, TypeOK
  <2> QED BY <2>1, <2>2
<1> QED BY <1>1, <1>2, <1>3, BlockedIsRetriedIs DEF IInv, TypeOK, BlockedIsRetried, EventsWait, EntriesWait, Waits

LEMMA EndingEventPreserves ==
  ASSUME IInv, NEW kind \in EventKinds, EndingEvent(kind)
  PROVE  IInv'
<1>1. /\ queuedEvents' = Cleared(kind)
      /\ UNCHANGED <<state, hasScheduledReplayAttempt, queuedExplicitHydrationTargets, events>>
  BY DEF EndingEvent
<1>2. EntriesWait(state, queuedExplicitHydrationTargets)
  BY BlockedIsRetriedIs DEF IInv
<1> QED BY <1>1, <1>2, ClearedWait
    DEF IInv, TypeOK, BlockedIsRetried, EventsWait, EntriesWait, Waits

LEMMA ReplayUnblockedEventsPreserves ==
  ASSUME IInv, ReplayUnblockedEvents
  PROVE  IInv'
<1> DEFINE unblocked == {k \in DOMAIN queuedEvents : queuedEvents[k].blockedOn = Null}
           replayed == {k \in unblocked : FindBlocking(state, queuedEvents[k].target) = Null}
<1>1. /\ queuedEvents' = [k \in DOMAIN queuedEvents \ replayed |->
                      IF k \in unblocked THEN BlockedAgain(queuedEvents[k]) ELSE queuedEvents[k]]
      /\ hasScheduledReplayAttempt' = FALSE
      /\ UNCHANGED <<state, queuedExplicitHydrationTargets, events>>
  BY DEF ReplayUnblockedEvents
<1>2. /\ EventsWait(state, queuedEvents, hasScheduledReplayAttempt)
      /\ EntriesWait(state, queuedExplicitHydrationTargets)
  BY BlockedIsRetriedIs DEF IInv
<1>3. ASSUME NEW k \in DOMAIN queuedEvents \ replayed
      PROVE  /\ queuedEvents'[k] \in Event
             /\ queuedEvents'[k].blockedOn # Null
             /\ Waits(state, queuedEvents'[k].blockedOn)
  <2>1. queuedEvents[k] \in Event
    BY DEF IInv, TypeOK
  <2>2. CASE k \in unblocked
    <3> DEFINE blockedOn == FindBlocking(state, queuedEvents[k].target)
    <3>1. blockedOn # Null /\ blockedOn \in Blocker /\ Waits(state, blockedOn)
      BY <2>1, <2>2, FindBlockingFinds DEF Event
    <3>2. queuedEvents'[k] = [queuedEvents[k] EXCEPT !.blockedOn = blockedOn]
      BY <1>1, <2>2 DEF BlockedAgain
    <3> HIDE DEF blockedOn
    <3> QED BY <2>1, <3>1, <3>2 DEF Event
  <2>3. CASE k \notin unblocked
    <3>1. queuedEvents'[k] = queuedEvents[k] /\ queuedEvents[k].blockedOn # Null
      BY <1>1, <2>3
    <3> QED BY <1>2, <2>1, <3>1 DEF EventsWait
  <2> QED BY <2>2, <2>3
<1>4. DOMAIN queuedEvents' = DOMAIN queuedEvents \ replayed
  BY <1>1
<1>5. queuedEvents' \in [DOMAIN queuedEvents' -> Event] /\ DOMAIN queuedEvents' \subseteq EventKinds
  <2>1. queuedEvents' = [k \in DOMAIN queuedEvents' |-> queuedEvents'[k]]
    BY <1>1
  <2> HIDE DEF replayed
  <2> QED BY <1>3, <1>4, <2>1 DEF IInv, TypeOK
<1>6. EventsWait(state, queuedEvents', FALSE)
  BY <1>3, <1>4 DEF EventsWait
<1> HIDE DEF replayed
<1> QED BY <1>1, <1>2, <1>5, <1>6
    DEF IInv, TypeOK, BlockedIsRetried, EventsWait, EntriesWait, Waits

LEMMA QueueExplicitHydrationTargetPreserves ==
  ASSUME IInv, NEW target \in Targets, NEW priority \in Priorities,
         QueueExplicitHydrationTarget(target, priority)
  PROVE  IInv'
<1> DEFINE queue == queuedExplicitHydrationTargets
           stops == {j \in DOMAIN queue :
                       ~IsHigherEventPriority(priority, queue[j].priority)}
           place == IF stops = {} THEN Len(queue) + 1
                    ELSE CHOOSE j \in stops : \A k \in stops : j <= k
           entry == [target |-> target, priority |-> priority,
                     blockedOn |-> IF place = 1 THEN FindBlocking(state, target) ELSE Null]
<1>1. /\ queue' = InsertAt(queue, place, entry)
      /\ UNCHANGED <<state, queuedEvents, hasScheduledReplayAttempt>>
      /\ events' \in Nat
  BY DEF QueueExplicitHydrationTarget, IInv, TypeOK
<1>2. /\ EventsWait(state, queuedEvents, hasScheduledReplayAttempt)
      /\ EntriesWait(state, queue)
      /\ queue \in Seq(Entry)
  BY BlockedIsRetriedIs DEF IInv, TypeOK
<1>3. place \in 1..(Len(queue) + 1)
  <2>1. CASE stops = {}
    BY <1>2, <2>1
  <2>2. CASE stops # {}
    <3>1. stops \subseteq 1..Len(queue)
      BY <1>2
    <3>2. \E j \in stops : \A k \in stops : j <= k
      <4>1. stops \subseteq Nat
        BY <1>2, <3>1
      <4> HIDE DEF stops
      <4> QED BY <2>2, <4>1, LeastPlace
    <3>3. place \in stops
      <4> HIDE DEF stops
      <4> QED BY <2>2, <3>2
    <3> HIDE DEF stops, place
    <3> QED BY <1>2, <3>1, <3>3
  <2> QED BY <2>1, <2>2
<1>4. entry \in Entry /\ (entry.blockedOn # Null => Waits(state, entry.blockedOn))
  <2> HIDE DEF place
  <2> QED BY FindBlockingFinds DEF Entry, Blocker
<1> HIDE DEF place, entry
<1>5. /\ queue' \in Seq(Entry)
      /\ EntriesWait(state, queue')
  <2> DEFINE before == SubSeq(queue, 1, place - 1)
             after == SubSeq(queue, place, Len(queue))
  <2>1. queue' = before \o <<entry>> \o after
    BY <1>1 DEF InsertAt
  <2>2. /\ before \in Seq(Entry) /\ Len(before) \in Nat
        /\ \A j \in 1..Len(before) : before[j] = queue[j] /\ j \in 1..Len(queue)
    BY <1>2, <1>3, SubSeqProperties
  <2>3. /\ after \in Seq(Entry) /\ Len(after) \in Nat
        /\ \A j \in 1..Len(after) : /\ after[j] = queue[place + j - 1]
                                     /\ place + j - 1 \in 1..Len(queue)
    BY <1>2, <1>3, SubSeqProperties
  <2>4. /\ EntriesWait(state, before) /\ EntriesWait(state, after)
    <3> HIDE DEF before, after
    <3>1. DOMAIN before = 1..Len(before) /\ DOMAIN after = 1..Len(after)
      BY <2>2, <2>3
    <3>2. \A j \in 1..Len(queue) : queue[j].blockedOn # Null => Waits(state, queue[j].blockedOn)
      BY <1>2 DEF EntriesWait
    <3>3. EntriesWait(state, before)
      BY <2>2, <3>1, <3>2 DEF EntriesWait
    <3>4. EntriesWait(state, after)
      BY <2>3, <3>1, <3>2 DEF EntriesWait
    <3> QED BY <3>3, <3>4
  <2> HIDE DEF before, after
  <2> QED BY <1>4, <2>1, <2>2, <2>3, <2>4 DEF EntriesWait
<1> QED BY <1>1, <1>2, <1>5
    DEF IInv, TypeOK, BlockedIsRetried, EventsWait, EntriesWait, Waits

\* A commit that tells what was blocked on i that it is not any more: nobody else
\* waits for i, and the instances are the same otherwise.
LEMMA RetryPreserves ==
  ASSUME IInv, NEW i \in Instances, NEW s \in {"hydrated", "cleared"},
         state' = [state EXCEPT ![i] = s], RetryIfBlockedOn(i, state'), UNCHANGED events
  PROVE  IInv'
<1> DEFINE queue == queuedExplicitHydrationTargets
           kinds == {k \in DOMAIN queuedEvents : queuedEvents[k].blockedOn = i}
           told == [j \in DOMAIN queue |->
                      IF queue[j].blockedOn = i THEN [queue[j] EXCEPT !.blockedOn = Null]
                      ELSE queue[j]]
<1>1. /\ EventsWait(state, queuedEvents, hasScheduledReplayAttempt)
      /\ EntriesWait(state, queue)
      /\ queue \in Seq(Entry) /\ queuedEvents \in [DOMAIN queuedEvents -> Event]
  BY BlockedIsRetriedIs DEF IInv, TypeOK
<1>2. \A j \in Blocker \ {i} : j # Null /\ Waits(state, j) => Waits(state', j)
  BY DEF IInv, TypeOK, Waits, Blocker
<1>3. /\ queuedEvents' = [k \in DOMAIN queuedEvents |->
                      IF k \in kinds THEN [queuedEvents[k] EXCEPT !.blockedOn = Null] ELSE queuedEvents[k]]
      /\ hasScheduledReplayAttempt' = (hasScheduledReplayAttempt \/ kinds # {})
      /\ queue' = Advanced(told, state')
  BY DEF RetryIfBlockedOn
<1>4. \A k \in DOMAIN queuedEvents :
        /\ queuedEvents'[k] \in Event
        /\ queuedEvents'[k].blockedOn = IF k \in kinds THEN Null ELSE queuedEvents[k].blockedOn
  BY <1>1, <1>3 DEF Event, Blocker
<1>5. /\ queuedEvents' \in [DOMAIN queuedEvents' -> Event] /\ DOMAIN queuedEvents' = DOMAIN queuedEvents
      /\ hasScheduledReplayAttempt' \in BOOLEAN
  <2>1. queuedEvents' = [k \in DOMAIN queuedEvents |-> queuedEvents'[k]]
    BY <1>3
  <2> QED BY <1>3, <1>4, <2>1 DEF IInv, TypeOK
<1>6. EventsWait(state', queuedEvents', hasScheduledReplayAttempt')
  BY <1>1, <1>2, <1>3, <1>4, <1>5 DEF EventsWait, Event
<1>7. told \in Seq(Entry) /\ EntriesWait(state', told)
  <2>1. ASSUME NEW j \in DOMAIN queue
        PROVE  /\ queue[j] \in Entry /\ told[j] \in Entry
               /\ told[j].blockedOn = IF queue[j].blockedOn = i THEN Null
                                      ELSE queue[j].blockedOn
    <3>1. queue[j] \in Entry
      BY <1>1
    <3>2. told[j] = IF queue[j].blockedOn = i THEN [queue[j] EXCEPT !.blockedOn = Null]
                    ELSE queue[j]
      OBVIOUS
    <3> HIDE DEF told
    <3> QED BY <3>1, <3>2 DEF Entry, Blocker
  <2>2. /\ DOMAIN told = DOMAIN queue /\ DOMAIN queue = 1..Len(queue)
        /\ Len(queue) \in Nat
    BY <1>1
  <2>3. told = [j \in 1..Len(queue) |-> told[j]]
    BY <1>1
  <2> HIDE DEF told
  <2>4. told \in Seq(Entry)
    <3>1. told \in [1..Len(queue) -> Entry]
      BY <2>1, <2>2, <2>3
    <3> QED BY <2>2, <3>1, SeqDef
  <2>5. ASSUME NEW j \in DOMAIN told, told[j].blockedOn # Null
        PROVE  Waits(state', told[j].blockedOn)
    <3>1. /\ queue[j].blockedOn # i /\ queue[j].blockedOn # Null
          /\ told[j].blockedOn = queue[j].blockedOn /\ queue[j] \in Entry
      BY <2>1, <2>2, <2>5
    <3>2. Waits(state, queue[j].blockedOn)
      BY <1>1, <2>2, <3>1 DEF EntriesWait
    <3> QED BY <1>2, <3>1, <3>2 DEF Entry
  <2> QED BY <2>4, <2>5 DEF EntriesWait
<1> HIDE DEF told
<1>8. queue' \in Seq(Entry) /\ EntriesWait(state', queue')
  BY <1>3, <1>7, AdvancedWait
<1>9. state' \in [Instances -> {"dehydrated", "hydrated", "cleared", "removed"}]
  BY DEF IInv, TypeOK
<1> QED BY <1>5, <1>6, <1>8, <1>9
    DEF IInv, TypeOK, BlockedIsRetried, EventsWait, EntriesWait, Waits

LEMMA RemoveHostNodePreserves ==
  ASSUME IInv, NEW i \in Instances, RemoveHostNode(i)
  PROVE  IInv'
<1>1. /\ state' = [j \in Instances |-> IF j = i \/ i \in Outside(j) THEN "removed" ELSE state[j]]
      /\ UNCHANGED <<queuedEvents, hasScheduledReplayAttempt, queuedExplicitHydrationTargets, events>>
  BY DEF RemoveHostNode
<1>2. \A j \in Instances : Waits(state, j) => Waits(state', j)
  BY <1>1 DEF Waits
<1>3. /\ \A k \in DOMAIN queuedEvents : queuedEvents[k].blockedOn \in Blocker
      /\ \A j \in DOMAIN queuedExplicitHydrationTargets :
           queuedExplicitHydrationTargets[j].blockedOn \in Blocker
  <2>1. \A k \in DOMAIN queuedEvents : queuedEvents[k] \in Event
    BY DEF IInv, TypeOK
  <2>2. \A j \in DOMAIN queuedExplicitHydrationTargets :
          queuedExplicitHydrationTargets[j] \in Entry
    BY DEF IInv, TypeOK
  <2> QED BY <2>1, <2>2 DEF Event, Entry
<1>4. /\ EventsWait(state, queuedEvents, hasScheduledReplayAttempt)
      /\ EntriesWait(state, queuedExplicitHydrationTargets)
  BY BlockedIsRetriedIs DEF IInv
<1>5. /\ EventsWait(state', queuedEvents', hasScheduledReplayAttempt')
      /\ EntriesWait(state', queuedExplicitHydrationTargets')
  BY <1>1, <1>2, <1>3, <1>4 DEF EventsWait, EntriesWait, Blocker
<1>6. TypeOK'
  BY <1>1 DEF IInv, TypeOK
<1> QED BY <1>5, <1>6 DEF IInv, BlockedIsRetried, EventsWait, EntriesWait, Waits

-----------------------------------------------------------------------------
(* Theorems                                                                  *)

LEMMA InitEstablishes == ReplayInit => IInv
<1> SUFFICES ASSUME ReplayInit PROVE IInv
  OBVIOUS
<1>1. /\ DOMAIN queuedEvents = {} /\ queuedEvents \in [DOMAIN queuedEvents -> Event]
      /\ queuedExplicitHydrationTargets \in Seq(Entry)
      /\ DOMAIN queuedExplicitHydrationTargets = {}
  BY DEF ReplayInit
<1> QED BY <1>1 DEF ReplayInit, IInv, TypeOK, BlockedIsRetried

LEMMA NextPreserves == IInv /\ [ReplayNext]_replayVars => IInv'
<1> SUFFICES ASSUME IInv, [ReplayNext]_replayVars PROVE IInv'
  OBVIOUS
<1>1. ASSUME NEW i \in Instances, Hydrate(i) PROVE IInv'
  BY <1>1, RetryPreserves DEF Hydrate
<1>2. ASSUME NEW i \in Instances, ClearSuspenseBoundary(i) PROVE IInv'
  BY <1>2, RetryPreserves DEF ClearSuspenseBoundary
<1>3. CASE UNCHANGED replayVars
  BY <1>3 DEF replayVars, IInv, TypeOK, BlockedIsRetried
<1> QED
  BY <1>1, <1>2, <1>3, ContinuousEventPreserves, QueueExplicitHydrationTargetPreserves,
     EndingEventPreserves, ReplayUnblockedEventsPreserves, RemoveHostNodePreserves DEF ReplayNext

LEMMA Invariance == ReplaySpec => []IInv
<1> QED BY InitEstablishes, NextPreserves, PTL DEF ReplaySpec

\* Wherever boundaries nest and in whatever order they are hydrated, cleared or deleted:
\* what an event or an explicit target is recorded to wait for will still retry it
\* (retryIfBlockedOn), or its replay is scheduled (replayUnblockedEvents).
THEOREM NothingIsBlockedForever == ReplaySpec => []BlockedIsRetried
<1>1. IInv => BlockedIsRetried
  BY DEF IInv
<1> QED BY Invariance, <1>1, PTL

-----------------------------------------------------------------------------
(***************************************************************************)
(* The cache of react-cache implements a cache that forgets what was read  *)
(* longest ago, for any resources, keys and limits.                        *)
(*                                                                         *)
(* The invariant names the order of the entries, which the code has only   *)
(* in its links: some sequence q of inputs without repetition is what the  *)
(* list goes around, in both directions (Ring), what `size` counts, what   *)
(* starts at `first`, and what the maps of the resources hold (IsCache).   *)
(* Each operation is then shown to make of a cache that holds q one that   *)
(* holds what the abstract operation makes of q.                           *)
(***************************************************************************)

-----------------------------------------------------------------------------
(* Induction, over sets of numbers *)

LEMMA InductiveSet ==
  ASSUME NEW Z, 0 \in Z, \A n \in Nat : n \in Z => n + 1 \in Z
  PROVE  \A n \in Nat : n \in Z
<1> DEFINE Missing == {n \in Nat : n \notin Z}
<1>1. SUFFICES ASSUME Missing # {}
               PROVE  FALSE
  OBVIOUS
<1>2. PICK n \in Missing : \A m \in Missing : ~(<<m, n>> \in OpToRel(<, Nat))
  BY <1>1, NatLessThanWellFounded, WFMin
<1>3. \A m \in Missing : ~(m < n)
  BY <1>2 DEF OpToRel
<1>n. n \in Nat /\ n \notin Z
  OBVIOUS
<1> HIDE DEF Missing
<1>4. n # 0
  BY <1>n
<1>5. n - 1 \in Nat /\ n - 1 < n /\ (n - 1) + 1 = n
  BY <1>n, <1>4
<1>6. n - 1 \notin Missing
  BY <1>3, <1>5
<1>7. n - 1 \in Z
  BY <1>5, <1>6 DEF Missing
<1> QED BY <1>n, <1>5, <1>7

LEMMA UpToFrom ==
  ASSUME NEW M \in Nat, NEW Z, 0 \in Z, \A n \in 0..M : n \in Z /\ n < M => n + 1 \in Z
  PROVE  \A n \in 0..M : n \in Z
<1> DEFINE Y == {n \in Nat : n <= M => n \in Z}
<1>1. 0 \in Y
  OBVIOUS
<1>2. \A n \in Nat : n \in Y => n + 1 \in Y
  OBVIOUS
<1>3. \A n \in Nat : n \in Y
  <2> HIDE DEF Y
  <2> QED BY <1>1, <1>2, InductiveSet
<1> QED BY <1>3

-----------------------------------------------------------------------------
(* The list of the cache as a ring                                           *)

Distinct(q) == \A i, j \in DOMAIN q : q[i] = q[j] => i = j

\* The place that comes after i
Following(q, i) == IF i = Len(q) THEN 1 ELSE i + 1

\* The entries of q are linked into a ring in both directions.
Ring(l, q) ==
  \A i \in DOMAIN q :
    /\ l[q[i]].next = q[Following(q, i)]
    /\ l[q[Following(q, i)]].previous = q[i]

Nodes == [previous : Inputs, next : Inputs, status : {"pending", "settled"}]

\* r is q without place k, x before q is r.
Without(r, q, k) ==
  /\ Len(r) = Len(q) - 1
  /\ \A j \in DOMAIN r : r[j] = IF j < k THEN q[j] ELSE q[j + 1]

Before(r, x, q) ==
  /\ Len(r) = Len(q) + 1
  /\ \A j \in DOMAIN r : r[j] = IF j = 1 THEN x ELSE q[j - 1]

LEMMA SequenceIs ==
  ASSUME NEW I, NEW q \in Seq(I)
  PROVE  /\ Len(q) \in Nat /\ DOMAIN q = 1..Len(q) /\ q \in [1..Len(q) -> I]
         /\ q # <<>> <=> Len(q) # 0
         /\ \A i \in 1..Len(q) : q[i] \in I /\ q[i] \in ToSet(q)
         /\ ToSet(q) \subseteq I
<1>1. Len(q) \in Nat /\ DOMAIN q = 1..Len(q) /\ q \in [1..Len(q) -> I]
  BY LenProperties
<1>2. q # <<>> <=> Len(q) # 0
  BY EmptySeq
<1>3. \A i \in 1..Len(q) : q[i] \in I /\ q[i] \in ToSet(q)
  BY <1>1 DEF ToSet
<1>4. ToSet(q) \subseteq I
  BY <1>1 DEF ToSet
<1> QED BY <1>1, <1>2, <1>3, <1>4

\* m is l with n linked behind p.
IsLinked(m, l, p, n, D) ==
  /\ m \in [D -> Nodes]
  /\ \A i \in D : /\ m[i].next = IF i = p THEN n ELSE l[i].next
                  /\ m[i].previous = IF i = n THEN p ELSE l[i].previous
                  /\ m[i].status = l[i].status

LEMMA Linked ==
  ASSUME NEW D, NEW l \in [D -> Nodes], NEW p \in D, NEW n \in D,
         p \in Inputs, n \in Inputs
  PROVE  IsLinked(Link(l, p, n), l, p, n, D)
<1> DEFINE m == [l EXCEPT ![p].next = n]
<1>1. m \in [D -> Nodes]
  BY DEF Nodes
<1>2. \A i \in D : /\ m[i].next = IF i = p THEN n ELSE l[i].next
                   /\ m[i].previous = l[i].previous /\ m[i].status = l[i].status
  BY DEF Nodes
<1>3. Link(l, p, n) = [m EXCEPT ![n].previous = p]
  BY DEF Link
<1> HIDE DEF m
<1>4. [m EXCEPT ![n].previous = p] \in [D -> Nodes]
  BY <1>1 DEF Nodes
<1>5. \A i \in D : /\ [m EXCEPT ![n].previous = p][i].next = m[i].next
                   /\ [m EXCEPT ![n].previous = p][i].previous
                        = IF i = n THEN p ELSE m[i].previous
                   /\ [m EXCEPT ![n].previous = p][i].status = m[i].status
  BY <1>1 DEF Nodes
<1> QED BY <1>2, <1>3, <1>4, <1>5 DEF IsLinked

\* An entry that is taken out leaves a ring.
LEMMA Unlinked ==
  ASSUME NEW D, D \subseteq Inputs, NEW l \in [D -> Nodes], NEW q \in Seq(D),
         Distinct(q), Ring(l, q),
         NEW k \in 1..Len(q), Len(q) > 1, NEW r \in Seq(D), Without(r, q, k)
  PROVE  /\ Ring(Link(l, l[q[k]].previous, l[q[k]].next), r)
         /\ Link(l, l[q[k]].previous, l[q[k]].next) \in [D -> Nodes]
         /\ \A i \in D :
              Link(l, l[q[k]].previous, l[q[k]].next)[i].status = l[i].status
<1>0. PICK n : n = Len(q)
  OBVIOUS
<1> DEFINE m == Link(l, l[q[k]].previous, l[q[k]].next)
<1>1. n \in Nat /\ n > 1 /\ DOMAIN q = 1..n /\ DOMAIN r = 1..(n - 1) /\ Len(r) = n - 1
      /\ k \in 1..n
  BY <1>0, SequenceIs DEF Without
<1>f. (\A i : Following(q, i) = IF i = n THEN 1 ELSE i + 1)
      /\ \A i : Following(r, i) = IF i = n - 1 THEN 1 ELSE i + 1
  BY <1>0, <1>1 DEF Following
<1>a. PICK p, s : p = (IF k = 1 THEN n ELSE k - 1) /\ s = Following(q, k)
  OBVIOUS
<1>2. p \in 1..n /\ s \in 1..n /\ Following(q, p) = k
  BY <1>1, <1>f, <1>a
<1>3. l[q[k]].previous = q[p] /\ l[q[k]].next = q[s]
  BY <1>1, <1>2, <1>a DEF Ring
<1>4. /\ q[p] \in D /\ q[s] \in D /\ q[p] \in Inputs /\ q[s] \in Inputs
      /\ \A i \in 1..n : q[i] \in D
  BY <1>0, <1>2, SequenceIs
<1>g. IsLinked(m, l, q[p], q[s], D)
  <2>1. m = Link(l, q[p], q[s])
    BY <1>3
  <2>2. IsLinked(Link(l, q[p], q[s]), l, q[p], q[s], D)
    BY <1>4, Linked
  <2> QED BY <2>1, <2>2
<1> HIDE DEF m
<1>5. \A i \in 1..n :
        /\ m[q[i]].next = IF q[i] = q[p] THEN q[s] ELSE l[q[i]].next
        /\ m[q[i]].previous = IF q[i] = q[s] THEN q[p] ELSE l[q[i]].previous
  BY <1>4, <1>g DEF IsLinked
<1>6. \A i \in 1..n :
        /\ m[q[i]].next = IF i = p THEN q[s] ELSE l[q[i]].next
        /\ m[q[i]].previous = IF i = s THEN q[p] ELSE l[q[i]].previous
  BY <1>1, <1>2, <1>5 DEF Distinct
<1>h. m \in [D -> Nodes] /\ \A i \in D : m[i].status = l[i].status
  BY <1>g DEF IsLinked
<1>7. SUFFICES ASSUME NEW j \in 1..(n - 1)
               PROVE  /\ m[r[j]].next = r[Following(r, j)]
                      /\ m[r[Following(r, j)]].previous = r[j]
  BY <1>1, <1>h DEF Ring, m
<1>b. PICK g : g = Following(r, j)
  OBVIOUS
<1>c. PICK a, b : a = (IF j < k THEN j ELSE j + 1) /\ b = (IF g < k THEN g ELSE g + 1)
  OBVIOUS
<1>d. k \in Nat /\ j \in Nat /\ 1 <= j /\ j <= n - 1 /\ 1 <= k /\ k <= n
  BY <1>1
<1>e. g = (IF j = n - 1 THEN 1 ELSE j + 1) /\ s = (IF k = n THEN 1 ELSE k + 1)
  BY <1>b, <1>f, <1>a
<1>8. g \in 1..(n - 1) /\ a \in 1..n /\ b \in 1..n /\ a # k /\ b # k
  BY <1>1, <1>c, <1>d, <1>e
<1>9. r[j] = q[a] /\ r[g] = q[b]
  BY <1>1, <1>8, <1>c DEF Without
<1>10. IF a = p THEN b = s ELSE b = Following(q, a) /\ b # s
  <2>1. Following(q, a) = IF a = n THEN 1 ELSE a + 1
    BY <1>f
  <2> QED BY <1>1, <1>a, <1>c, <1>d, <1>e, <2>1
<1>11. l[q[a]].next = q[Following(q, a)] /\ l[q[Following(q, a)]].previous = q[a]
  BY <1>1, <1>8 DEF Ring
<1>12. m[q[a]].next = q[b] /\ m[q[b]].previous = q[a]
  BY <1>6, <1>8, <1>10, <1>11
<1> QED BY <1>9, <1>12, <1>b

\* An entry that is appended to the head makes a ring.
LEMMA Appended ==
  ASSUME NEW D, D \subseteq Inputs, NEW l \in [D -> Nodes], NEW q \in Seq(D),
         Distinct(q), Ring(l, q),
         Len(q) > 0, NEW x \in D, x \notin ToSet(q), NEW r \in Seq(D), Before(r, x, q)
  PROVE  /\ Ring(Link(Link(l, l[q[1]].previous, x), x, q[1]), r)
         /\ Link(Link(l, l[q[1]].previous, x), x, q[1]) \in [D -> Nodes]
         /\ \A i \in D :
              Link(Link(l, l[q[1]].previous, x), x, q[1])[i].status = l[i].status
<1>0. PICK n : n = Len(q)
  OBVIOUS
<1> DEFINE m == Link(l, l[q[1]].previous, x)
           o == Link(m, x, q[1])
<1>1. n \in Nat /\ n > 0 /\ DOMAIN q = 1..n /\ DOMAIN r = 1..(n + 1) /\ Len(r) = n + 1
  BY <1>0, SequenceIs DEF Before
<1>f. (\A i : Following(q, i) = IF i = n THEN 1 ELSE i + 1)
      /\ \A i : Following(r, i) = IF i = n + 1 THEN 1 ELSE i + 1
  BY <1>0, <1>1 DEF Following
<1>2. \A i \in 1..n : q[i] \in D /\ q[i] # x
  BY <1>0, SequenceIs
<1>3. 1 \in 1..n /\ n \in 1..n /\ Following(q, n) = 1
  BY <1>1, <1>f
<1>4. l[q[1]].previous = q[n] /\ q[1] \in D /\ q[n] \in D
      /\ x \in Inputs /\ q[1] \in Inputs /\ q[n] \in Inputs
  BY <1>1, <1>2, <1>3 DEF Ring
<1>5. /\ m \in [D -> Nodes]
      /\ \A i \in D : /\ m[i].next = IF i = q[n] THEN x ELSE l[i].next
                      /\ m[i].previous = IF i = x THEN q[n] ELSE l[i].previous
                      /\ m[i].status = l[i].status
  <2>1. IsLinked(Link(l, q[n], x), l, q[n], x, D)
    BY <1>4, Linked
  <2> QED BY <1>4, <2>1 DEF IsLinked
<1>6. /\ o \in [D -> Nodes]
      /\ \A i \in D : /\ o[i].next = IF i = x THEN q[1] ELSE m[i].next
                      /\ o[i].previous = IF i = q[1] THEN x ELSE m[i].previous
                      /\ o[i].status = m[i].status
  <2> HIDE DEF m
  <2>1. m \in [D -> Nodes] /\ x \in D /\ q[1] \in D /\ x \in Inputs /\ q[1] \in Inputs
    BY <1>4, <1>5
  <2>2. IsLinked(Link(m, x, q[1]), m, x, q[1], D)
    BY <2>1, Linked
  <2> QED BY <2>2 DEF IsLinked
<1> HIDE DEF m, o
<1>7. o[x].next = q[1] /\ o[x].previous = q[n]
  BY <1>2, <1>3, <1>5, <1>6
<1>8. o[q[1]].previous = x /\ o[q[n]].next = x
  BY <1>2, <1>3, <1>4, <1>5, <1>6
<1>9. ASSUME NEW i \in 1..n, i < n
      PROVE  o[q[i]].next = q[i + 1] /\ o[q[i + 1]].previous = q[i]
  <2>1. i + 1 \in 1..n /\ i + 1 # 1 /\ i # n /\ Following(q, i) = i + 1
    BY <1>1, <1>9, <1>f
  <2>2. q[i] # q[n] /\ q[i + 1] # q[1]
    BY <1>1, <1>3, <2>1 DEF Distinct
  <2>3. l[q[i]].next = q[i + 1] /\ l[q[i + 1]].previous = q[i]
    BY <1>1, <2>1 DEF Ring
  <2>4. q[i] \in D /\ q[i] # x /\ q[i + 1] \in D /\ q[i + 1] # x
    BY <1>2, <2>1
  <2> QED BY <1>5, <1>6, <2>2, <2>3, <2>4
<1>10. r[1] = x /\ \A i \in 1..n : r[i + 1] = q[i]
  <2>1. \A j \in 1..(n + 1) : r[j] = IF j = 1 THEN x ELSE q[j - 1]
    BY <1>1 DEF Before
  <2>2. 1 \in 1..(n + 1) /\ \A i \in 1..n : i + 1 \in 1..(n + 1) /\ i + 1 # 1 /\ (i + 1) - 1 = i
    BY <1>1
  <2> QED BY <2>1, <2>2
<1>11. Ring(o, r)
  <2>1. SUFFICES ASSUME NEW j \in 1..(n + 1)
                 PROVE  /\ o[r[j]].next = r[Following(r, j)]
                        /\ o[r[Following(r, j)]].previous = r[j]
    BY <1>1 DEF Ring
  <2>2. CASE j = 1
    <3>1. Following(r, j) = 2 /\ r[2] = q[1]
      <4>1. 1 + 1 = 2 /\ 1 \in 1..n
        BY <1>1
      <4> QED BY <1>1, <1>f, <1>10, <2>2, <4>1
    <3> QED BY <1>7, <1>8, <1>10, <2>2, <3>1
  <2>3. CASE j = n + 1
    <3>1. Following(r, j) = 1 /\ r[j] = q[n]
      BY <1>1, <1>f, <1>3, <1>10, <2>3
    <3> QED BY <1>7, <1>8, <1>10, <3>1
  <2>4. CASE j # 1 /\ j # n + 1
    <3>1. PICK i \in 1..n : i < n /\ j = i + 1 /\ Following(r, j) = (i + 1) + 1
      <4>1. /\ j - 1 \in 1..n /\ j - 1 < n /\ j = (j - 1) + 1
            /\ Following(r, j) = ((j - 1) + 1) + 1
        BY <1>1, <1>f, <2>4
      <4> QED BY <4>1
    <3>2. i + 1 \in 1..n
      BY <1>1, <3>1
    <3>3. r[i + 1] = q[i] /\ r[(i + 1) + 1] = q[i + 1]
      BY <1>10, <3>2
    <3> QED BY <1>9, <3>1, <3>3
  <2> QED BY <2>2, <2>3, <2>4
<1> QED BY <1>5, <1>6, <1>11 DEF m, o

-----------------------------------------------------------------------------
(* The state of the cache                                                    *)

CachedIn(es, input) ==
  Resource(input) \in DOMAIN es /\ Key(input) \in es[Resource(input)]

\* The list l from f, its size n and the maps es hold the inputs of q.
IsCache(l, f, n, es, q) ==
  /\ q \in Seq(Inputs) /\ Distinct(q)
  /\ n = Len(q) /\ f = IF q = <<>> THEN NoEntry ELSE q[1]
  /\ l \in [ToSet(q) -> Nodes] /\ Ring(l, q)
  /\ es \in [DOMAIN es -> SUBSET Keys]
  /\ \A i \in Inputs : CachedIn(es, i) <=> i \in ToSet(q)

CacheIInv ==
  /\ \E q : IsCache(list, first, size, entries, q)
  /\ LIMIT \in Limits /\ cleanUpIsScheduled \in BOOLEAN

\* deleteEntry removes an input from the maps, and no other.
LEMMA EntryDeleted ==
  ASSUME NEW es, es \in [DOMAIN es -> SUBSET Keys], NEW x \in Inputs, CachedIn(es, x)
  PROVE  /\ DeleteEntry(es, x) \in [DOMAIN DeleteEntry(es, x) -> SUBSET Keys]
         /\ \A i \in Inputs : CachedIn(DeleteEntry(es, x), i) <=> CachedIn(es, i) /\ i # x
<1> DEFINE d == DeleteEntry(es, x)
           left == es[Resource(x)] \ {Key(x)}
<1>1. \A i \in Inputs : i = x <=> Resource(i) = Resource(x) /\ Key(i) = Key(x)
  BY DEF Inputs, Resource, Key
<1>2. Resource(x) \in DOMAIN es /\ Key(x) \in es[Resource(x)]
  BY DEF CachedIn
<1>3. CASE left # {}
  <2>1. d = [es EXCEPT ![Resource(x)] = left]
    BY <1>3 DEF DeleteEntry
  <2>2. /\ DOMAIN d = DOMAIN es
        /\ \A r \in DOMAIN es : d[r] = IF r = Resource(x) THEN left ELSE es[r]
    BY <2>1
  <2>3. d \in [DOMAIN d -> SUBSET Keys]
    BY <2>1, <1>2
  <2> HIDE DEF d
  <2>4. \A i \in Inputs : CachedIn(d, i) <=> CachedIn(es, i) /\ i # x
    BY <1>1, <1>2, <2>2 DEF CachedIn
  <2> QED BY <2>3, <2>4 DEF d
<1>4. CASE left = {}
  <2>1. d = [r \in DOMAIN es \ {Resource(x)} |-> es[r]]
    <3>1. d = Restrict(es, DOMAIN es \ {Resource(x)})
      BY <1>4 DEF DeleteEntry
    <3> QED BY <3>1 DEF Restrict
  <2>2. DOMAIN d = DOMAIN es \ {Resource(x)} /\ \A r \in DOMAIN d : d[r] = es[r]
    BY <2>1
  <2>3. d \in [DOMAIN d -> SUBSET Keys]
    BY <2>1
  <2> HIDE DEF d
  <2>4. \A i \in Inputs : Resource(i) = Resource(x) /\ CachedIn(es, i) => i = x
    BY <1>1, <1>4 DEF CachedIn
  <2>5. \A i \in Inputs : CachedIn(d, i) <=> CachedIn(es, i) /\ i # x
    BY <1>1, <2>2, <2>4 DEF CachedIn
  <2> QED BY <2>3, <2>5 DEF d
<1> QED BY <1>3, <1>4

\* Who goes along the list reads it in its order.
LEMMA WalkIs ==
  ASSUME NEW l, NEW f, NEW n, NEW es, NEW q, IsCache(l, f, n, es, q)
  PROVE  q = LET walk[k \in 1..n] == IF k = 1 THEN f ELSE l[walk[k - 1]].next
             IN  [k \in 1..n |-> walk[k]]
<1> DEFINE Next(w) == [k \in 1..n |-> IF k = 1 THEN f ELSE l[w[k - 1]].next]
           walk == CHOOSE w : w = Next(w)
<1>1. n \in Nat /\ DOMAIN q = 1..n /\ q \in [1..n -> Inputs] /\ n = Len(q)
  BY SequenceIs DEF IsCache
<1>2. \A k \in 1..n : q[k] = IF k = 1 THEN f ELSE l[q[k - 1]].next
  <2> TAKE k \in 1..n
  <2>1. CASE k = 1
    BY <1>1, <2>1, EmptySeq DEF IsCache
  <2>2. CASE k # 1
    <3>1. k - 1 \in 1..n /\ k - 1 # n /\ (k - 1) + 1 = k
      BY <1>1, <2>2
    <3>2. Following(q, k - 1) = k
      BY <1>1, <3>1 DEF Following
    <3> QED BY <1>1, <2>2, <3>1, <3>2 DEF IsCache, Ring
  <2> QED BY <2>1, <2>2
<1>3. q = Next(q)
  BY <1>1, <1>2
<1>4. walk = Next(walk)
  <2> HIDE DEF Next
  <2> QED BY <1>3
<1>5. \A k \in 1..n : walk[k] = IF k = 1 THEN f ELSE l[walk[k - 1]].next
  <2> HIDE DEF walk
  <2> QED BY <1>4
<1> HIDE DEF walk
<1> DEFINE Z == {k \in 0..n : k # 0 => walk[k] = q[k]}
<1>6. 0 \in Z
  BY <1>1
<1>7. ASSUME NEW k \in 0..n, k \in Z, k < n
      PROVE  k + 1 \in Z
  <2>1. k + 1 \in 1..n /\ k + 1 \in 0..n /\ (k + 1) - 1 = k
    BY <1>1, <1>7
  <2>2. k # 0 => k + 1 # 1
    BY <1>1
  <2> QED BY <1>2, <1>5, <1>7, <2>1, <2>2
<1>8. \A k \in 0..n : k \in Z
  <2> HIDE DEF Z
  <2> QED BY <1>1, <1>6, <1>7, UpToFrom
<1>9. \A k \in 1..n : walk[k] = q[k]
  BY <1>1, <1>8
<1>10. q = [k \in 1..n |-> walk[k]]
  BY <1>1, <1>9
<1> QED BY <1>10 DEF walk

LEMMA RecencyIs ==
  ASSUME NEW q, IsCache(list, first, size, entries, q)
  PROVE  Recency = q /\ Results = [i \in ToSet(q) |-> list[i].status]
<1>1. Recency = q
  BY WalkIs DEF Recency
<1>2. {input \in Inputs : IsCached(input)} = ToSet(q)
  <2>1. \A i \in Inputs : IsCached(i) <=> i \in ToSet(q)
    BY DEF IsCache, CachedIn, IsCached
  <2>2. ToSet(q) \subseteq Inputs
    BY SequenceIs DEF IsCache
  <2> QED BY <2>1, <2>2
<1> QED BY <1>1, <1>2 DEF Results

LEMMA RecencyNext ==
  ASSUME NEW q, IsCache(list', first', size', entries', q)
  PROVE  Recency' = q /\ Results' = [i \in ToSet(q) |-> list'[i].status]
<1>1. Recency' = q
  BY WalkIs DEF Recency
<1>2. {input \in Inputs : IsCached(input)'} = ToSet(q)
  <2>1. \A i \in Inputs : IsCached(i)' <=> i \in ToSet(q)
    BY DEF IsCache, CachedIn, IsCached
  <2>2. ToSet(q) \subseteq Inputs
    BY SequenceIs DEF IsCache
  <2> QED BY <2>1, <2>2
<1> QED BY <1>1, <1>2 DEF Results

-----------------------------------------------------------------------------
(* Sequences to which an input is added, and from which one is taken         *)

LEMMA PushedFront ==
  ASSUME NEW D, NEW q \in Seq(D), Distinct(q), NEW x \in D, x \notin ToSet(q)
  PROVE  /\ <<x>> \o q \in Seq(D) /\ Before(<<x>> \o q, x, q) /\ Distinct(<<x>> \o q)
         /\ ToSet(<<x>> \o q) = {x} \cup ToSet(q)
<1>1. PICK n : n = Len(q)
  OBVIOUS
<1>2. n \in Nat /\ DOMAIN q = 1..n /\ \A i \in 1..n : q[i] \in ToSet(q)
  BY <1>1, SequenceIs
<1>3. PICK r : r = <<x>> \o q
  OBVIOUS
<1>4. /\ r \in Seq(D) /\ Len(r) = n + 1
      /\ \A j \in 1..(n + 1) : r[j] = IF j = 1 THEN x ELSE q[j - 1]
  <2>1. <<x>> \in Seq(D) /\ Len(<<x>>) = 1 /\ <<x>>[1] = x
    OBVIOUS
  <2>2. r \in Seq(D) /\ Len(r) = 1 + n
    BY <1>1, <1>3, <2>1, ConcatProperties
  <2>3. \A j \in 1..(1 + n) : r[j] = IF j <= 1 THEN <<x>>[j] ELSE q[j - 1]
    BY <1>1, <1>3, <2>1, ConcatProperties
  <2> QED BY <1>2, <2>1, <2>2, <2>3
<1>5. DOMAIN r = 1..(n + 1)
  BY <1>4, LenProperties
<1>6. Before(r, x, q)
  BY <1>1, <1>4, <1>5 DEF Before
<1>7. Distinct(r)
  <2>1. \A j \in 1..(n + 1) : j # 1 => j - 1 \in 1..n /\ r[j] = q[j - 1] /\ r[j] # x
    BY <1>2, <1>4
  <2>2. SUFFICES ASSUME NEW i \in 1..(n + 1), NEW j \in 1..(n + 1), r[i] = r[j]
                 PROVE  i = j
    BY <1>5 DEF Distinct
  <2>3. CASE i = 1 \/ j = 1
    BY <1>2, <1>4, <2>1, <2>2, <2>3
  <2>4. CASE i # 1 /\ j # 1
    <3>1. i - 1 = j - 1
      BY <1>2, <2>1, <2>2, <2>4 DEF Distinct
    <3> QED BY <1>2, <3>1
  <2> QED BY <2>3, <2>4
<1>8. ToSet(r) = {x} \cup ToSet(q)
  <2>1. ToSet(r) = {r[j] : j \in 1..(n + 1)} /\ ToSet(q) = {q[i] : i \in 1..n}
    BY <1>2, <1>5 DEF ToSet
  <2>2. ASSUME NEW j \in 1..(n + 1)
        PROVE  r[j] \in {x} \cup ToSet(q)
    <3>1. j = 1 \/ j - 1 \in 1..n
      BY <1>2
    <3> QED BY <1>2, <1>4, <3>1
  <2>3. ASSUME NEW i \in 1..n
        PROVE  q[i] \in ToSet(r)
    <3>1. i + 1 \in 1..(n + 1) /\ i + 1 # 1 /\ (i + 1) - 1 = i
      BY <1>2
    <3>2. r[i + 1] = q[i]
      BY <1>4, <3>1
    <3> QED BY <2>1, <3>1, <3>2
  <2>4. x \in ToSet(r)
    <3>1. 1 \in 1..(n + 1)
      BY <1>2
    <3> QED BY <1>4, <2>1, <3>1
  <2> QED BY <2>1, <2>2, <2>3, <2>4
<1> QED BY <1>3, <1>4, <1>6, <1>7, <1>8

LEMMA WithoutOne ==
  ASSUME NEW D, NEW q \in Seq(D), Distinct(q), NEW k \in 1..Len(q), NEW r,
         r \in [1..(Len(q) - 1) -> D], Without(r, q, k)
  PROVE  r \in Seq(D) /\ Distinct(r) /\ ToSet(r) = ToSet(q) \ {q[k]}
<1>1. PICK n : n = Len(q)
  OBVIOUS
<1>2. n \in Nat /\ DOMAIN q = 1..n /\ k \in 1..n
  BY <1>1, SequenceIs
<1>3. DOMAIN r = 1..(n - 1) /\ \A j \in 1..(n - 1) : r[j] = IF j < k THEN q[j] ELSE q[j + 1]
  BY <1>1 DEF Without
<1>4. r \in Seq(D)
  <2>1. n - 1 \in Nat
    BY <1>2
  <2> QED BY <1>1, <2>1
<1>5. Distinct(r)
  <2>1. SUFFICES ASSUME NEW i \in 1..(n - 1), NEW j \in 1..(n - 1), r[i] = r[j]
                 PROVE  i = j
    BY <1>3 DEF Distinct
  <2>2. PICK a, b : a = (IF i < k THEN i ELSE i + 1) /\ b = (IF j < k THEN j ELSE j + 1)
    OBVIOUS
  <2>3. a \in 1..n /\ b \in 1..n /\ (a = b => i = j)
    BY <1>2, <2>2
  <2>4. q[a] = q[b]
    BY <1>3, <2>1, <2>2
  <2> QED BY <1>2, <2>3, <2>4 DEF Distinct
<1>6. ToSet(r) = {r[j] : j \in 1..(n - 1)} /\ ToSet(q) = {q[i] : i \in 1..n}
  BY <1>2, <1>3 DEF ToSet
<1>7. ASSUME NEW j \in 1..(n - 1)
      PROVE  r[j] \in ToSet(q) \ {q[k]}
  <2>1. PICK a : a = (IF j < k THEN j ELSE j + 1)
    OBVIOUS
  <2>2. a \in 1..n /\ a # k
    BY <1>2, <2>1
  <2>3. r[j] = q[a]
    BY <1>3, <2>1
  <2> QED BY <1>2, <1>6, <2>2, <2>3 DEF Distinct
<1>8. ASSUME NEW i \in 1..n, q[i] # q[k]
      PROVE  q[i] \in ToSet(r)
  <2>1. PICK j : j = (IF i < k THEN i ELSE i - 1)
    OBVIOUS
  <2>2. i # k
    BY <1>8
  <2>3. j \in 1..(n - 1) /\ i = IF j < k THEN j ELSE j + 1
    BY <1>2, <2>1, <2>2
  <2>4. r[j] = q[i]
    BY <1>3, <2>3
  <2> QED BY <1>6, <2>3, <2>4
<1> QED BY <1>4, <1>5, <1>6, <1>7, <1>8

LEMMA RemovedAt ==
  ASSUME NEW D, NEW q \in Seq(D), NEW k \in 1..Len(q)
  PROVE  /\ RemoveAt(q, k) \in [1..(Len(q) - 1) -> D] /\ Without(RemoveAt(q, k), q, k)
         /\ RemoveAt(q, k) \in Seq(D)
<1>1. PICK n : n = Len(q)
  OBVIOUS
<1>2. n \in Nat /\ k \in 1..n /\ n - 1 \in Nat
  BY <1>1, SequenceIs
<1>3. PICK A, B : A = SubSeq(q, 1, k - 1) /\ B = SubSeq(q, k + 1, n)
  OBVIOUS
<1>4. A \in Seq(D) /\ Len(A) = k - 1 /\ \A i \in 1..(k - 1) : A[i] = q[i]
  BY <1>1, <1>2, <1>3, SubSeqProperties
<1>5. B \in Seq(D) /\ Len(B) = n - k /\ \A i \in 1..(n - k) : B[i] = q[k + i]
  <2>1. B \in Seq(D) /\ Len(B) = IF k + 1 <= n THEN n - (k + 1) + 1 ELSE 0
    BY <1>1, <1>2, <1>3, SubSeqProperties
  <2>2. Len(B) = n - k
    BY <1>2, <2>1
  <2>3. \A i \in 1..(n - k) : B[i] = q[(k + 1) + i - 1]
    BY <1>1, <1>2, <1>3, SubSeqProperties
  <2>4. \A i \in 1..(n - k) : (k + 1) + i - 1 = k + i
    BY <1>2
  <2> QED BY <2>1, <2>2, <2>3, <2>4
<1>6. PICK r : r = A \o B
  OBVIOUS
<1>7. RemoveAt(q, k) = r
  BY <1>1, <1>3, <1>6 DEF RemoveAt
<1>8. r \in Seq(D) /\ Len(r) = n - 1
  <2>1. r \in Seq(D) /\ Len(r) = Len(A) + Len(B)
    BY <1>4, <1>5, <1>6, ConcatProperties
  <2>2. (k - 1) + (n - k) = n - 1
    BY <1>2
  <2> QED BY <1>4, <1>5, <2>1, <2>2
<1>9. DOMAIN r = 1..(n - 1) /\ r \in [1..(n - 1) -> D]
  BY <1>8, LenProperties
<1>10. \A j \in 1..(n - 1) : r[j] = IF j < k THEN q[j] ELSE q[j + 1]
  <2> TAKE j \in 1..(n - 1)
  <2>1. r[j] = IF j <= Len(A) THEN A[j] ELSE B[j - Len(A)]
    <3>1. j \in 1..(Len(A) + Len(B))
      BY <1>2, <1>4, <1>5
    <3> QED BY <1>4, <1>5, <1>6, <3>1, ConcatProperties
  <2>2. CASE j < k
    <3>1. j \in 1..(k - 1) /\ j <= Len(A)
      BY <1>2, <1>4, <2>2
    <3> QED BY <1>4, <2>1, <2>2, <3>1
  <2>3. CASE ~(j < k)
    <3>1. ~(j <= Len(A)) /\ j - Len(A) = j - (k - 1) /\ j - (k - 1) \in 1..(n - k)
          /\ k + (j - (k - 1)) = j + 1
      BY <1>2, <1>4, <2>3
    <3> QED BY <1>5, <2>1, <2>3, <3>1
  <2> QED BY <2>2, <2>3
<1> QED BY <1>1, <1>7, <1>8, <1>9, <1>10 DEF Without

-----------------------------------------------------------------------------
(* Reading                                                                   *)

LEMMA CacheFacts ==
  ASSUME NEW l, NEW f, NEW n, NEW es, NEW q, IsCache(l, f, n, es, q)
  PROVE  /\ q \in Seq(ToSet(q)) /\ ToSet(q) \subseteq Inputs /\ DOMAIN l = ToSet(q)
         /\ n = Len(q) /\ n \in Nat /\ DOMAIN q = 1..n /\ Distinct(q) /\ Ring(l, q)
         /\ l \in [ToSet(q) -> Nodes]
         /\ \A i \in 1..n : q[i] \in ToSet(q)
         /\ q # <<>> <=> n # 0
         /\ f = NoEntry <=> q = <<>>
         /\ f = NoEntry \/ (f = q[1] /\ 1 \in 1..n)
         /\ \A i \in Inputs : CachedIn(es, i) <=> i \in ToSet(q)
<1>1. q \in Seq(Inputs) /\ Len(q) = n
  BY DEF IsCache
<1>2. n \in Nat /\ DOMAIN q = 1..n /\ q \in [1..n -> Inputs] /\ (q # <<>> <=> n # 0)
      /\ (\A i \in 1..n : q[i] \in Inputs /\ q[i] \in ToSet(q)) /\ ToSet(q) \subseteq Inputs
  BY <1>1, SequenceIs
<1>3. q \in Seq(ToSet(q))
  <2>1. q \in [1..n -> ToSet(q)]
    BY <1>2
  <2> QED BY <1>2, <2>1
<1>4. (f = NoEntry <=> q = <<>>) /\ (f = NoEntry \/ (f = q[1] /\ 1 \in 1..n))
  <2>a. f = IF q = <<>> THEN NoEntry ELSE q[1]
    BY DEF IsCache
  <2>1. CASE q = <<>>
    BY <2>1, <2>a
  <2>2. CASE q # <<>>
    <3>1. 1 \in 1..n
      BY <1>2, <2>2
    <3>2. q[1] # NoEntry
      BY <1>2, <3>1, CacheAssumption
    <3> QED BY <2>2, <2>a, <3>1, <3>2
  <2> QED BY <2>1, <2>2
<1> QED BY <1>1, <1>2, <1>3, <1>4 DEF IsCache

\* A read of an input that is not cached puts it before the others.
LEMMA FetchKeeps ==
  ASSUME NEW x \in Inputs, Fetch(x), NEW q, IsCache(list, first, size, entries, q)
  PROVE  /\ IsCache(list', first', size', entries', <<x>> \o q)
         /\ x \notin ToSet(q) /\ ToSet(<<x>> \o q) = {x} \cup ToSet(q)
         /\ list'[x].status = "pending"
         /\ \A i \in ToSet(q) : list'[i].status = list[i].status
<1>1. PICK n, D, r, entry, l :
        /\ n = Len(q) /\ D = {x} \cup ToSet(q) /\ r = <<x>> \o q
        /\ entry = [previous |-> x, next |-> x, status |-> "pending"]
        /\ l = [i \in DOMAIN list \cup {x} |-> IF i = x THEN entry ELSE list[i]]
  OBVIOUS
<1>2. x \notin ToSet(q)
  BY CacheFacts DEF Fetch, IsCached, CachedIn
<1>3. D \subseteq Inputs /\ x \in D /\ q \in Seq(D) /\ Distinct(q) /\ n \in Nat
  <2>1. q \in Seq(ToSet(q)) /\ ToSet(q) \subseteq Inputs
    BY CacheFacts
  <2>2. Seq(ToSet(q)) \subseteq Seq(D)
    <3>1. \A S, T : S \subseteq T => Seq(S) \subseteq Seq(T)
      OBVIOUS
    <3>2. ToSet(q) \subseteq D
      BY <1>1
    <3> QED BY <3>1, <3>2
  <2>3. Distinct(q) /\ n \in Nat
    BY <1>1, CacheFacts
  <2> QED BY <1>1, <2>1, <2>2, <2>3
<1>4. r \in Seq(D) /\ Before(r, x, q) /\ Distinct(r) /\ ToSet(r) = D
  BY <1>1, <1>2, <1>3, PushedFront
<1>5. entry \in Nodes /\ entry.status = "pending" /\ entry.next = x /\ entry.previous = x
  BY <1>1 DEF Nodes
<1>6. DOMAIN list = ToSet(q) /\ \A i \in ToSet(q) : list[i] \in Nodes
  <2>1. list \in [ToSet(q) -> Nodes]
    BY CacheFacts
  <2> QED BY <2>1
<1>7. l \in [D -> Nodes] /\ l[x] = entry /\ \A i \in ToSet(q) : l[i] = list[i]
  BY <1>1, <1>2, <1>5, <1>6
<1>8. list' \in [D -> Nodes] /\ Ring(list', r) /\ \A i \in D : list'[i].status = l[i].status
  <2>1. CASE first = NoEntry
    <3>1. q = <<>> /\ n = 0
      BY <1>1, <2>1, CacheFacts
    <3>2. list' = [i \in {x} |-> entry] /\ D = {x}
      BY <1>1, <2>1, <3>1 DEF Fetch, ToSet
    <3>3. list'[x] = entry /\ list' \in [D -> Nodes]
      BY <1>5, <3>2
    <3>4. Len(r) = 1 /\ DOMAIN r = 1..1 /\ r[1] = x
      <4>1. Len(r) = n + 1 /\ \A j \in DOMAIN r : r[j] = IF j = 1 THEN x ELSE q[j - 1]
        BY <1>1, <1>4 DEF Before
      <4>2. DOMAIN r = 1..Len(r)
        BY <1>4, LenProperties
      <4> QED BY <3>1, <4>1, <4>2
    <3>5. Ring(list', r)
      BY <1>5, <3>3, <3>4 DEF Ring, Following
    <3> QED BY <1>7, <3>2, <3>3, <3>5
  <2>2. CASE first # NoEntry
    <3>1. first = q[1] /\ Len(q) > 0
      BY <1>1, <2>2, CacheFacts
    <3>2. list' = AppendToHead(l, x)
      BY <1>1, <2>2 DEF Fetch
    <3>3. list' = Link(Link(l, l[q[1]].previous, x), x, q[1])
      BY <3>1, <3>2 DEF AppendToHead
    <3>4. Ring(l, q)
      <4>1. Ring(list, q) /\ DOMAIN q = 1..n /\ \A i \in 1..n : q[i] \in ToSet(q)
        BY <1>1, CacheFacts
      <4>2. \A i \in 1..n : Following(q, i) \in 1..n
        BY <1>1, <1>3 DEF Following
      <4> QED BY <1>7, <4>1, <4>2 DEF Ring
    <3> QED BY <1>2, <1>3, <1>4, <1>7, <3>1, <3>3, <3>4, Appended
  <2> QED BY <2>1, <2>2
<1>9. /\ entries' \in [DOMAIN entries' -> SUBSET Keys]
      /\ \A i \in Inputs : CachedIn(entries', i) <=> CachedIn(entries, i) \/ i = x
  <2>1. PICK es : es = entries' /\ es = [k \in DOMAIN entries \cup {Resource(x)} |->
                      (IF k \in DOMAIN entries THEN entries[k] ELSE {})
                        \cup (IF k = Resource(x) THEN {Key(x)} ELSE {})]
    BY DEF Fetch
  <2>2. entries \in [DOMAIN entries -> SUBSET Keys]
    BY DEF IsCache
  <2>3. Key(x) \in Keys
    BY DEF Inputs, Key
  <2>4. es \in [DOMAIN es -> SUBSET Keys]
    BY <2>1, <2>2, <2>3
  <2>5. \A i \in Inputs : i = x <=> Resource(i) = Resource(x) /\ Key(i) = Key(x)
    BY DEF Inputs, Resource, Key
  <2>6. \A i \in Inputs : CachedIn(es, i) <=> CachedIn(entries, i) \/ i = x
    BY <2>1, <2>5 DEF CachedIn
  <2> QED BY <2>1, <2>4, <2>6
<1>10. \A i \in Inputs : CachedIn(entries', i) <=> i \in ToSet(r)
  <2>1. \A i \in Inputs : CachedIn(entries, i) <=> i \in ToSet(q)
    BY CacheFacts
  <2> QED BY <1>1, <1>4, <1>9, <2>1
<1>11. r \in Seq(Inputs) /\ size' = Len(r) /\ first' = x /\ r # <<>> /\ r[1] = x
  <2>1. Len(r) = n + 1 /\ \A j \in DOMAIN r : r[j] = IF j = 1 THEN x ELSE q[j - 1]
    BY <1>1, <1>4 DEF Before
  <2>2. r # <<>> /\ 1 \in DOMAIN r
    BY <1>3, <1>4, <2>1, LenProperties
  <2>3. size = n
    BY <1>1, CacheFacts
  <2>4. r \in Seq(Inputs)
    <3>1. \A S, T : S \subseteq T => Seq(S) \subseteq Seq(T)
      OBVIOUS
    <3> QED BY <1>3, <1>4, <3>1
  <2> QED BY <2>1, <2>2, <2>3, <2>4 DEF Fetch
<1>12. IsCache(list', first', size', entries', r)
  BY <1>4, <1>8, <1>9, <1>10, <1>11 DEF IsCache
<1>13. list'[x].status = "pending" /\ \A i \in ToSet(q) : list'[i].status = list[i].status
  <2>1. \A i \in ToSet(q) : i \in D
    BY <1>1
  <2> QED BY <1>3, <1>5, <1>7, <1>8, <2>1
<1> QED BY <1>1, <1>2, <1>4, <1>12, <1>13

\* A read of one that is cached takes it from its place and puts it before the others.
LEMMA AccessKeeps ==
  ASSUME NEW x \in Inputs, Access(x), NEW q, IsCache(list, first, size, entries, q)
  PROVE  \E k \in DOMAIN q :
           /\ q[k] = x
           /\ IsCache(list', first', size', entries', <<x>> \o RemoveAt(q, k))
           /\ ToSet(<<x>> \o RemoveAt(q, k)) = ToSet(q)
           /\ \A i \in ToSet(q) : list'[i].status = list[i].status
<1>1. PICK n, D : n = Len(q) /\ D = ToSet(q)
  OBVIOUS
<1>2. /\ D \subseteq Inputs /\ q \in Seq(D) /\ Distinct(q) /\ n \in Nat /\ DOMAIN q = 1..n
      /\ size = n /\ list \in [D -> Nodes] /\ Ring(list, q)
      /\ \A i \in 1..n : q[i] \in D
  BY <1>1, CacheFacts
<1>3. x \in D
  BY <1>1, CacheFacts DEF Access, IsCached, CachedIn
<1>4. PICK k \in 1..n : q[k] = x
  BY <1>1, <1>2, <1>3 DEF ToSet
<1>5. first = q[1] /\ 1 \in 1..n
  <2>1. q # <<>>
    BY <1>1, <1>4, CacheFacts
  <2> QED BY <1>1, <2>1, CacheFacts
<1>6. PICK m, r : m = RemoveAt(q, k) /\ r = <<x>> \o m
  OBVIOUS
<1>7. /\ m \in [1..(n - 1) -> D] /\ Without(m, q, k)
      /\ m \in Seq(D) /\ Distinct(m) /\ ToSet(m) = D \ {x}
  <2>1. m \in [1..(n - 1) -> D] /\ Without(m, q, k)
    BY <1>1, <1>2, <1>6, RemovedAt
  <2> QED BY <1>1, <1>2, <1>4, <2>1, WithoutOne
<1>8. r \in Seq(D) /\ Before(r, x, m) /\ Distinct(r) /\ ToSet(r) = D
  <2>1. x \notin ToSet(m)
    BY <1>7
  <2>2. /\ <<x>> \o m \in Seq(D) /\ Before(<<x>> \o m, x, m) /\ Distinct(<<x>> \o m)
        /\ ToSet(<<x>> \o m) = {x} \cup ToSet(m)
    BY <1>3, <1>7, <2>1, PushedFront
  <2>3. {x} \cup (D \ {x}) = D
    BY <1>3
  <2> QED BY <1>6, <1>7, <2>2, <2>3
<1>9. Len(m) = n - 1 /\ Len(r) = n /\ DOMAIN r = 1..n /\ r[1] = x
  <2>1. Len(m) = n - 1 /\ Len(r) = Len(m) + 1
    BY <1>1, <1>7, <1>8 DEF Without, Before
  <2>2. Len(r) = n
    BY <1>2, <2>1
  <2>3. DOMAIN r = 1..n
    BY <1>8, <2>2, LenProperties
  <2> QED BY <1>5, <1>8, <2>1, <2>2, <2>3 DEF Before
<1>10. list' \in [D -> Nodes] /\ Ring(list', r) /\ \A i \in D : list'[i].status = list[i].status
  <2>1. CASE k = 1
    <3>1. \A j \in 1..n : r[j] = q[j]
      <4> TAKE j \in 1..n
      <4>1. CASE j = 1
        BY <1>4, <1>9, <2>1, <4>1
      <4>2. CASE j # 1
        <5>1. j - 1 \in 1..(n - 1) /\ ~(j - 1 < k) /\ (j - 1) + 1 = j
          BY <1>2, <2>1, <4>2
        <5>2. r[j] = m[j - 1]
          BY <1>8, <1>9, <4>2 DEF Before
        <5>3. m[j - 1] = q[(j - 1) + 1]
          BY <1>7, <5>1 DEF Without
        <5> QED BY <5>1, <5>2, <5>3
      <4> QED BY <4>1, <4>2
    <3>2. Ring(list, r)
      <4>1. \A i \in 1..n : Following(r, i) = Following(q, i) /\ Following(q, i) \in 1..n
        BY <1>1, <1>2, <1>9 DEF Following
      <4> QED BY <1>2, <1>9, <3>1, <4>1 DEF Ring
    <3>3. list' = list
      BY <1>4, <1>5, <2>1 DEF Access
    <3> QED BY <1>2, <3>2, <3>3
  <2>2. CASE k # 1
    <3>1. PICK l : l = Link(list, list[x].previous, list[x].next)
      OBVIOUS
    <3>2. Len(q) > 1
      BY <1>1, <1>2, <2>2
    <3>3. Ring(l, m) /\ l \in [D -> Nodes] /\ \A i \in D : l[i].status = list[i].status
      BY <1>1, <1>2, <1>4, <1>7, <3>1, <3>2, Unlinked
    <3>4. first # x
      BY <1>2, <1>4, <1>5, <2>2 DEF Distinct
    <3>5. list' = AppendToHead(l, x)
      BY <3>1, <3>4 DEF Access, MovedToHead
    <3>6. Len(m) > 0 /\ m[1] = q[1]
      <4>1. n > 1 /\ 1 < k /\ 1 \in 1..(n - 1)
        BY <1>2, <2>2
      <4>2. n - 1 > 0
        BY <1>2, <4>1
      <4> QED BY <1>7, <1>9, <4>1, <4>2 DEF Without
    <3>7. list' = Link(Link(l, l[m[1]].previous, x), x, m[1])
      BY <1>5, <3>5, <3>6 DEF AppendToHead
    <3>8. x \notin ToSet(m)
      BY <1>7
    <3>9. /\ Ring(Link(Link(l, l[m[1]].previous, x), x, m[1]), r)
          /\ Link(Link(l, l[m[1]].previous, x), x, m[1]) \in [D -> Nodes]
          /\ \A i \in D :
               Link(Link(l, l[m[1]].previous, x), x, m[1])[i].status = l[i].status
      <4>1. /\ D \subseteq Inputs /\ l \in [D -> Nodes] /\ m \in Seq(D) /\ Distinct(m)
            /\ Ring(l, m) /\ Len(m) > 0 /\ x \in D /\ r \in Seq(D) /\ Before(r, x, m)
        BY <1>2, <1>3, <1>7, <1>8, <3>3, <3>6
      <4> QED BY <3>8, <4>1, Appended
    <3> QED BY <3>3, <3>7, <3>9
  <2> QED BY <2>1, <2>2
<1>11. IsCache(list', first', size', entries', r)
  <2>1. first' = x /\ size' = n /\ entries' = entries
    BY <1>2 DEF Access
  <2>2. r \in Seq(Inputs) /\ r # <<>>
    <3>1. \A S, T : S \subseteq T => Seq(S) \subseteq Seq(T)
      OBVIOUS
    <3>2. 1 \in DOMAIN r
      BY <1>5, <1>9
    <3> QED BY <1>2, <1>8, <3>1, <3>2
  <2>3. /\ entries \in [DOMAIN entries -> SUBSET Keys]
        /\ \A i \in Inputs : CachedIn(entries, i) <=> i \in D
    BY <1>1 DEF IsCache
  <2> QED BY <1>8, <1>9, <1>10, <2>1, <2>2, <2>3 DEF IsCache
<1> QED BY <1>1, <1>2, <1>4, <1>6, <1>8, <1>10, <1>11

-----------------------------------------------------------------------------
(* Cleaning up                                                               *)

\* Between two turns of the loop, q being left
LoopAt(c, q) ==
  /\ IsCache(c.list, c.first, c.size, c.entries, q)
  /\ c.last = IF q = <<>> THEN NoEntry ELSE q[Len(q)]

\* A turn stops at the target size or deletes the entry that was read longest ago.
LEMMA TurnDeletes ==
  ASSUME NEW c, NEW q, LoopAt(c, q), NEW t \in Int
  PROVE  IF Len(q) <= t \/ q = <<>> THEN DeleteLast(c, t) = c
         ELSE /\ LoopAt(DeleteLast(c, t), SubSeq(q, 1, Len(q) - 1))
              /\ \A i \in ToSet(SubSeq(q, 1, Len(q) - 1)) :
                   DeleteLast(c, t).list[i].status = c.list[i].status
<1>1. PICK n, D, l, r, d :
        /\ n = Len(q) /\ D = ToSet(q) /\ l = c.list /\ r = SubSeq(q, 1, Len(q) - 1)
        /\ d = DeleteLast(c, t)
  OBVIOUS
<1>2. IsCache(l, c.first, c.size, c.entries, q)
  BY <1>1 DEF LoopAt
<1>3. /\ D \subseteq Inputs /\ q \in Seq(D) /\ Distinct(q) /\ n \in Nat /\ DOMAIN q = 1..n
      /\ c.size = n /\ l \in [D -> Nodes] /\ Ring(l, q)
      /\ (\A i \in 1..n : q[i] \in D) /\ (q # <<>> <=> n # 0)
      /\ c.first = NoEntry \/ (c.first = q[1] /\ 1 \in 1..n)
      /\ c.first = NoEntry <=> q = <<>>
  BY <1>1, <1>2, CacheFacts
<1>4. c.last = NoEntry <=> q = <<>>
  <2>1. q # <<>> => q[n] \in Inputs
    BY <1>3
  <2> QED BY <1>1, <2>1, CacheAssumption DEF LoopAt
<1>5. CASE Len(q) <= t \/ q = <<>>
  BY <1>1, <1>3, <1>4, <1>5 DEF DeleteLast
<1>6. CASE ~(Len(q) <= t \/ q = <<>>)
  <2>1. PICK x : x = q[n]
    OBVIOUS
  <2>2. n # 0 /\ n \in 1..n /\ x \in D /\ c.last = x /\ c.first = q[1] /\ 1 \in 1..n
    BY <1>1, <1>3, <1>6, <2>1 DEF LoopAt
  <2>3. ~(c.size <= t \/ c.last = NoEntry)
    BY <1>1, <1>3, <1>4, <1>6
  <2>4. PICK linked :
          linked = IF x = c.first THEN l ELSE Link(l, l[x].previous, c.first)
    OBVIOUS
  <2>5. /\ d.list = Restrict(linked, DOMAIN l \ {x})
        /\ d.first = IF x = c.first THEN NoEntry ELSE c.first
        /\ d.size = c.size - 1
        /\ d.entries = DeleteEntry(c.entries, x)
        /\ d.last = IF x = c.first THEN NoEntry ELSE l[x].previous
    BY <1>1, <2>2, <2>3, <2>4 DEF DeleteLast
  <2>6. r \in [1..(n - 1) -> D] /\ Without(r, q, n)
    <3>1. \A i \in 1..(n - 1) : q[i] \in D
      BY <1>3
    <3>2. 1 \in Int /\ n - 1 \in Int /\ (1 <= n - 1 => (n - 1) - 1 + 1 = n - 1)
          /\ (n - 1) - 1 + 1 = n - 1
      BY <1>3
    <3>3. r \in Seq(D) /\ Len(r) = (IF 1 <= n - 1 THEN (n - 1) - 1 + 1 ELSE 0)
          /\ \A i \in 1..((n - 1) - 1 + 1) : r[i] = q[1 + i - 1]
      BY <1>1, <3>1, <3>2, SubSeqProperties
    <3>4. Len(r) = n - 1
      BY <1>3, <2>2, <3>3
    <3>5. DOMAIN r = 1..(n - 1) /\ r \in [1..(n - 1) -> D]
      BY <3>3, <3>4, LenProperties
    <3>6. \A i \in 1..(n - 1) : r[i] = q[i] /\ i < n
      <4> TAKE i \in 1..(n - 1)
      <4>1. 1 + i - 1 = i /\ i < n
        BY <1>3
      <4> QED BY <3>2, <3>3, <4>1
    <3> QED BY <1>1, <3>4, <3>5, <3>6 DEF Without
  <2>7. r \in Seq(D) /\ Distinct(r) /\ ToSet(r) = D \ {x}
    <3>1. n \in 1..Len(q) /\ r \in [1..(Len(q) - 1) -> D]
      BY <1>1, <2>2, <2>6
    <3>2. r \in Seq(D) /\ Distinct(r) /\ ToSet(r) = ToSet(q) \ {q[n]}
      BY <1>3, <2>6, <3>1, WithoutOne
    <3> QED BY <1>1, <2>1, <3>2
  <2>8. Len(r) = n - 1 /\ DOMAIN r = 1..(n - 1) /\ \A i \in 1..(n - 1) : r[i] = q[i]
    <3>1. \A i \in 1..(n - 1) : i < n
      BY <1>3
    <3> QED BY <1>1, <2>6, <3>1 DEF Without
  <2>9. x = c.first <=> n = 1
    BY <1>3, <2>1, <2>2 DEF Distinct
  <2>10. r = <<>> <=> n = 1
    <3>1. n - 1 \in Nat /\ (n - 1 = 0 <=> n = 1)
      BY <1>3, <2>2
    <3>2. r = <<>> <=> Len(r) = 0
      BY <2>7, EmptySeq
    <3> QED BY <2>8, <3>1, <3>2
  <2>11. n # 1 => /\ n > 1 /\ n - 1 \in 1..n /\ l[x].previous = q[n - 1] /\ l[x].next = q[1]
    <3>1. HAVE n # 1
    <3>2. n > 1 /\ n - 1 \in 1..n /\ n - 1 # n /\ (n - 1) + 1 = n
      BY <1>3, <2>2, <3>1
    <3>3. Following(q, n - 1) = n /\ Following(q, n) = 1
      BY <1>1, <3>2 DEF Following
    <3> QED BY <1>3, <2>1, <2>2, <3>2, <3>3 DEF Ring
  <2>12. /\ Ring(linked, r) /\ linked \in [D -> Nodes]
         /\ \A i \in D : linked[i].status = l[i].status
    <3>1. CASE n = 1
      <4>1. linked = l /\ DOMAIN r = {}
        BY <2>4, <2>8, <2>9, <3>1
      <4> QED BY <1>3, <4>1 DEF Ring
    <3>2. CASE n # 1
      <4>1. linked = Link(l, l[q[n]].previous, l[q[n]].next)
        BY <2>1, <2>2, <2>4, <2>9, <2>11, <3>2
      <4>2. Len(q) > 1 /\ n \in 1..Len(q)
        BY <1>1, <2>2, <2>11, <3>2
      <4> QED BY <1>3, <2>6, <2>7, <4>1, <4>2, Unlinked
    <3> QED BY <3>1, <3>2
  <2>13. d.list = [i \in D \ {x} |-> linked[i]]
    <3>1. DOMAIN l = D
      BY <1>3
    <3> QED BY <2>5, <3>1 DEF Restrict
  <2>14. d.list \in [ToSet(r) -> Nodes] /\ \A i \in ToSet(r) : d.list[i] = linked[i]
    BY <2>7, <2>12, <2>13
  <2>15. Ring(d.list, r)
    <3>1. \A i \in DOMAIN r : r[i] \in ToSet(r) /\ Following(r, i) \in DOMAIN r
      <4>1. \A i \in 1..(n - 1) : Following(r, i) \in 1..(n - 1)
        BY <1>3, <2>8 DEF Following
      <4> QED BY <2>8, <4>1 DEF ToSet
    <3> QED BY <2>12, <2>14, <3>1 DEF Ring
  <2>16. /\ d.entries \in [DOMAIN d.entries -> SUBSET Keys]
         /\ \A i \in Inputs : CachedIn(d.entries, i) <=> i \in ToSet(r)
    <3>1. c.entries \in [DOMAIN c.entries -> SUBSET Keys]
      BY <1>2 DEF IsCache
    <3>2. \A i \in Inputs : CachedIn(c.entries, i) <=> i \in D
      BY <1>1, <1>2, CacheFacts
    <3>3. x \in Inputs /\ CachedIn(c.entries, x)
      BY <1>3, <2>2, <3>2
    <3>4. /\ d.entries \in [DOMAIN d.entries -> SUBSET Keys]
          /\ \A i \in Inputs : CachedIn(d.entries, i) <=> CachedIn(c.entries, i) /\ i # x
      BY <2>5, <3>1, <3>3, EntryDeleted
    <3> QED BY <2>7, <3>2, <3>4
  <2>17. d.size = Len(r) /\ d.first = IF r = <<>> THEN NoEntry ELSE r[1]
    <3>1. CASE n = 1
      BY <1>3, <2>5, <2>8, <2>9, <2>10, <3>1
    <3>2. CASE n # 1
      <4>1. 1 \in 1..(n - 1)
        BY <1>3, <2>11, <3>2
      <4> QED BY <1>3, <2>2, <2>5, <2>8, <2>9, <2>10, <3>2, <4>1
    <3> QED BY <3>1, <3>2
  <2>18. d.last = IF r = <<>> THEN NoEntry ELSE r[Len(r)]
    <3>1. CASE n = 1
      BY <2>5, <2>9, <2>10, <3>1
    <3>2. CASE n # 1
      <4>1. n - 1 \in 1..(n - 1)
        BY <1>3, <2>11, <3>2
      <4> QED BY <2>5, <2>8, <2>9, <2>10, <2>11, <3>2, <4>1
    <3> QED BY <3>1, <3>2
  <2>19. r \in Seq(Inputs)
    <3>1. \A S, T : S \subseteq T => Seq(S) \subseteq Seq(T)
      OBVIOUS
    <3> QED BY <1>3, <2>7, <3>1
  <2>20. LoopAt(d, r)
    BY <2>7, <2>14, <2>15, <2>16, <2>17, <2>18, <2>19 DEF LoopAt, IsCache
  <2>21. \A i \in ToSet(r) : d.list[i].status = l[i].status
    BY <2>7, <2>12, <2>14
  <2> QED BY <1>1, <1>6, <2>20, <2>21
<1> QED BY <1>5, <1>6


LEMMA FrontIs ==
  ASSUME NEW I, NEW q \in Seq(I), NEW k \in 0..Len(q)
  PROVE  /\ SubSeq(q, 1, k) \in Seq(I) /\ Len(SubSeq(q, 1, k)) = k
         /\ \A i \in 1..k : SubSeq(q, 1, k)[i] = q[i]
<1>1. k \in Int /\ 1 \in Int /\ (\A i \in 1..k : q[i] \in I) /\ (k - 1) + 1 = k
  BY SequenceIs
<1>2. /\ SubSeq(q, 1, k) \in Seq(I)
      /\ Len(SubSeq(q, 1, k)) = IF 1 <= k THEN (k - 1) + 1 ELSE 0
      /\ \A i \in 1..((k - 1) + 1) : SubSeq(q, 1, k)[i] = q[1 + i - 1]
  BY <1>1, SubSeqProperties
<1>3. Len(SubSeq(q, 1, k)) = k
  BY <1>1, <1>2
<1>4. \A i \in 1..k : 1 + i - 1 = i
  BY <1>1
<1> QED BY <1>1, <1>2, <1>3, <1>4

LEMMA FrontOfFront ==
  ASSUME NEW I, NEW q \in Seq(I), NEW k \in 1..Len(q)
  PROVE  SubSeq(SubSeq(q, 1, k), 1, Len(SubSeq(q, 1, k)) - 1) = SubSeq(q, 1, k - 1)
<1>0. Len(q) \in Nat /\ k \in 0..Len(q) /\ k - 1 \in 0..Len(q) /\ k - 1 \in 0..k
      /\ k \in Nat /\ k - 1 \in Nat
  BY SequenceIs
<1>1. PICK r, s : r = SubSeq(q, 1, k) /\ s = SubSeq(q, 1, k - 1)
  OBVIOUS
<1>2. r \in Seq(I) /\ Len(r) = k /\ \A i \in 1..k : r[i] = q[i]
  BY <1>0, <1>1, FrontIs
<1>3. s \in Seq(I) /\ Len(s) = k - 1 /\ \A i \in 1..(k - 1) : s[i] = q[i]
  BY <1>0, <1>1, FrontIs
<1>4. PICK p : p = SubSeq(r, 1, k - 1)
  OBVIOUS
<1>5. p \in Seq(I) /\ Len(p) = k - 1 /\ \A i \in 1..(k - 1) : p[i] = r[i]
  <2>1. k - 1 \in 0..Len(r)
    BY <1>0, <1>2
  <2> QED BY <1>2, <1>4, <2>1, FrontIs
<1>6. p = s
  <2>1. \A i \in 1..(k - 1) : p[i] = s[i]
    <3>1. \A i \in 1..(k - 1) : i \in 1..k
      BY <1>0
    <3> QED BY <1>2, <1>3, <1>5, <3>1
  <2>2. p \in [1..(k - 1) -> I] /\ s \in [1..(k - 1) -> I]
    BY <1>3, <1>5, LenProperties
  <2> QED BY <2>1, <2>2
<1> QED BY <1>1, <1>2, <1>4, <1>6

\* The turns of the loop, one after the other
Turns(f, n, c, t) ==
  /\ f = [k \in 0..n |-> f[k]] /\ f[0] = c
  /\ \A k \in 1..n : f[k] = DeleteLast(f[k - 1], t)

LEMMA TurnsExist ==
  ASSUME NEW M \in Nat, NEW c, NEW t
  PROVE  \E f : Turns(f, M, c, t)
<1> DEFINE Z == {n \in 0..M : \E f : Turns(f, n, c, t)}
<1>1. 0 \in Z
  <2>1. PICK f : f = [k \in 0..0 |-> c]
    OBVIOUS
  <2>2. Turns(f, 0, c, t)
    BY <2>1 DEF Turns
  <2> QED BY <2>2
<1>2. ASSUME NEW n \in 0..M, n \in Z, n < M
      PROVE  n + 1 \in Z
  <2>1. PICK f : Turns(f, n, c, t)
    BY <1>2
  <2>2. PICK g : g = [k \in 0..(n + 1) |-> IF k = n + 1 THEN DeleteLast(f[n], t) ELSE f[k]]
    OBVIOUS
  <2>3. \A k \in 1..(n + 1) : g[k] = DeleteLast(g[k - 1], t)
    <3> TAKE k \in 1..(n + 1)
    <3>0. k \in 0..(n + 1) /\ k - 1 \in 0..(n + 1) /\ k - 1 # n + 1
      BY <1>2
    <3>1. g[k - 1] = f[k - 1]
      BY <2>2, <3>0
    <3>2. CASE k = n + 1
      <4>1. k - 1 = n
        BY <1>2, <3>2
      <4>2. g[k] = DeleteLast(f[n], t)
        BY <2>2, <3>0, <3>2
      <4> QED BY <3>1, <4>1, <4>2
    <3>3. CASE k # n + 1
      <4>1. k \in 1..n
        BY <3>3
      <4>2. f[k] = DeleteLast(f[k - 1], t)
        BY <2>1, <4>1 DEF Turns
      <4>3. g[k] = f[k]
        BY <2>2, <3>0, <3>3
      <4> QED BY <3>1, <4>2, <4>3
    <3> QED BY <3>2, <3>3
  <2>4. g = [k \in 0..(n + 1) |-> g[k]] /\ g[0] = c
    <3>1. 0 \in 0..(n + 1) /\ 0 # n + 1
      BY <1>2
    <3> QED BY <2>1, <2>2, <3>1 DEF Turns
  <2>5. Turns(g, n + 1, c, t)
    BY <2>3, <2>4 DEF Turns
  <2>6. n + 1 \in 0..M
    BY <1>2
  <2> QED BY <2>5, <2>6
<1>3. \A n \in 0..M : n \in Z
  <2> HIDE DEF Z
  <2> QED BY <1>1, <1>2, UpToFrom
<1>4. M \in 0..M
  OBVIOUS
<1> QED BY <1>3, <1>4

\* The recursive function of the loop has the values its definition says.
LEMMA LoopTurns ==
  ASSUME NEW c, NEW t, c.size \in Nat
  PROVE  \E f : /\ Turns(f, c.size, c, t)
                /\ DeleteLeastRecentlyUsedEntries(c, t) = f[c.size]
<1> DEFINE Step(f) == [n \in 0..c.size |-> IF n = 0 THEN c ELSE DeleteLast(f[n - 1], t)]
           After == CHOOSE f : f = Step(f)
<1>1. PICK g : Turns(g, c.size, c, t)
  BY TurnsExist
<1>2. g = Step(g)
  <2>1. DOMAIN g = 0..c.size /\ g[0] = c
    BY <1>1 DEF Turns
  <2>2. \A n \in 0..c.size : n # 0 => n \in 1..c.size
    OBVIOUS
  <2>3. \A n \in 0..c.size : g[n] = IF n = 0 THEN c ELSE DeleteLast(g[n - 1], t)
    BY <1>1, <2>1, <2>2 DEF Turns
  <2>4. g = [n \in 0..c.size |-> g[n]]
    BY <1>1 DEF Turns
  <2> QED BY <2>3, <2>4
<1>3. After = Step(After)
  <2> HIDE DEF Step
  <2> QED BY <1>2
<1>4. DeleteLeastRecentlyUsedEntries(c, t) = After[c.size]
  BY DEF DeleteLeastRecentlyUsedEntries
<1> HIDE DEF After
<1>5. After = [n \in 0..c.size |-> After[n]]
      /\ \A n \in 0..c.size : After[n] = IF n = 0 THEN c ELSE DeleteLast(After[n - 1], t)
  BY <1>3
<1>6. Turns(After, c.size, c, t)
  <2>1. 0 \in 0..c.size /\ \A n \in 1..c.size : n \in 0..c.size /\ n # 0
    OBVIOUS
  <2> QED BY <1>5, <2>1 DEF Turns
<1> QED BY <1>4, <1>6

\* The loop keeps what was read last, as much of it as the target size allows.
LEMMA LoopKeeps ==
  ASSUME NEW c, NEW q, LoopAt(c, q), NEW t \in Int, NEW keep,
         keep = IF t < 0 THEN 0 ELSE IF t < Len(q) THEN t ELSE Len(q)
  PROVE  /\ LoopAt(DeleteLeastRecentlyUsedEntries(c, t), SubSeq(q, 1, keep))
         /\ \A i \in ToSet(SubSeq(q, 1, keep)) :
              DeleteLeastRecentlyUsedEntries(c, t).list[i].status = c.list[i].status
<1>1. PICK M : M = Len(q)
  OBVIOUS
<1>2. M \in Nat /\ c.size = M /\ q \in Seq(Inputs) /\ keep \in 0..M
  <2>1. IsCache(c.list, c.first, c.size, c.entries, q)
    BY DEF LoopAt
  <2>2. c.size = M /\ q \in Seq(Inputs)
    BY <1>1, <2>1 DEF IsCache
  <2>3. M \in Nat
    BY <1>1, <2>2, SequenceIs
  <2> QED BY <1>1, <2>2, <2>3
<1>3. PICK f : Turns(f, M, c, t) /\ DeleteLeastRecentlyUsedEntries(c, t) = f[M]
  BY <1>2, LoopTurns
<1> DEFINE Left(n) == IF M - n > keep THEN M - n ELSE keep
           Kept(n) == SubSeq(q, 1, Left(n))
           SameStatus(n) == \A i \in ToSet(Kept(n)) : f[n].list[i].status = c.list[i].status
           Z == {n \in 0..M : LoopAt(f[n], Kept(n)) /\ SameStatus(n)}
<1>4. 0 \in Z
  <2>1. Left(0) = M /\ 0 \in 0..M
    BY <1>2
  <2>2. Kept(0) = q
    BY <1>1, <1>2, <2>1, SubSeqFull
  <2>3. f[0] = c
    BY <1>3 DEF Turns
  <2> QED BY <2>1, <2>2, <2>3
<1>5. ASSUME NEW n \in 0..M, n \in Z, n < M
      PROVE  n + 1 \in Z
  <2>1. n + 1 \in 0..M /\ n + 1 \in 1..M /\ (n + 1) - 1 = n
    BY <1>2, <1>5
  <2>2. f[n + 1] = DeleteLast(f[n], t)
    BY <1>3, <2>1 DEF Turns
  <2>3. PICK r : r = Kept(n)
    OBVIOUS
  <2>4. Left(n) \in 1..M
    BY <1>2, <1>5
  <2>5. LoopAt(f[n], r) /\ \A i \in ToSet(r) : f[n].list[i].status = c.list[i].status
    BY <1>5, <2>3
  <2>6. Len(r) = Left(n) /\ r # <<>>
    <3>1. Left(n) \in 0..Len(q)
      BY <1>1, <2>4
    <3>2. r \in Seq(Inputs) /\ Len(r) = Left(n)
      BY <1>2, <2>3, <3>1, FrontIs
    <3> QED BY <2>4, <3>2, EmptySeq
  <2>7. IF Len(r) <= t \/ r = <<>> THEN DeleteLast(f[n], t) = f[n]
        ELSE /\ LoopAt(DeleteLast(f[n], t), SubSeq(r, 1, Len(r) - 1))
             /\ \A i \in ToSet(SubSeq(r, 1, Len(r) - 1)) :
                  DeleteLast(f[n], t).list[i].status = f[n].list[i].status
    BY <2>5, TurnDeletes
  <2>8. CASE Left(n) <= t
    <3>1. f[n + 1] = f[n]
      BY <2>2, <2>6, <2>7, <2>8
    <3>2. Left(n + 1) = Left(n)
      BY <1>1, <1>2, <1>5, <2>8
    <3>3. Kept(n + 1) = r
      BY <2>3, <3>2
    <3> QED BY <2>1, <2>5, <3>1, <3>3
  <2>9. CASE ~(Left(n) <= t)
    <3>1. Left(n + 1) = Left(n) - 1
      BY <1>1, <1>2, <1>5, <2>9
    <3>2. PICK s : s = SubSeq(r, 1, Len(r) - 1)
      OBVIOUS
    <3>3. s = SubSeq(q, 1, Left(n) - 1)
      <4>1. Left(n) \in 1..Len(q)
        BY <1>1, <2>4
      <4> HIDE DEF Left
      <4> QED BY <1>2, <2>3, <3>2, <4>1, FrontOfFront
    <3>4. Kept(n + 1) = s
      BY <3>1, <3>3
    <3>5. /\ LoopAt(f[n + 1], s)
          /\ \A i \in ToSet(s) : f[n + 1].list[i].status = f[n].list[i].status
      BY <2>2, <2>6, <2>7, <2>9, <3>2
    <3>6. ToSet(s) \subseteq ToSet(r)
      <4>1. Left(n) \in 0..Len(q) /\ Left(n) - 1 \in 0..Len(q) /\ Left(n) - 1 \in Nat
        BY <1>1, <1>2, <2>4
      <4>2. PICK k : k = Left(n)
        OBVIOUS
      <4> HIDE DEF Left, Kept, SameStatus, Z
      <4>3. r \in Seq(Inputs) /\ Len(r) = k /\ \A i \in 1..k : r[i] = q[i]
        BY <1>2, <2>3, <4>1, <4>2, FrontIs DEF Kept
      <4>4. s \in Seq(Inputs) /\ Len(s) = k - 1 /\ \A i \in 1..(k - 1) : s[i] = q[i]
        BY <1>2, <3>3, <4>1, <4>2, FrontIs
      <4>5. DOMAIN r = 1..k /\ DOMAIN s = 1..(k - 1)
        BY <4>3, <4>4, LenProperties
      <4>6. k \in Nat /\ \A i \in 1..(k - 1) : i \in 1..k
        BY <4>1, <4>2
      <4> QED BY <4>3, <4>4, <4>5, <4>6 DEF ToSet
    <3>7. \A i \in ToSet(s) : f[n + 1].list[i].status = c.list[i].status
      BY <2>5, <3>5, <3>6
    <3> QED BY <2>1, <3>4, <3>5, <3>7
  <2> QED BY <2>8, <2>9
<1>6. \A n \in 0..M : n \in Z
  <2> HIDE DEF Z
  <2> QED BY <1>2, <1>4, <1>5, UpToFrom
<1>7. M \in Z
  <2> HIDE DEF Z
  <2> QED BY <1>2, <1>6
<1>8. Left(M) = keep
  BY <1>2
<1>9. Kept(M) = SubSeq(q, 1, keep)
  BY <1>8
<1> QED BY <1>3, <1>7, <1>9

-----------------------------------------------------------------------------
(* Every step keeps the invariant and is a step of the cache of bounded size *)

LEMMA InitIs ==
  ASSUME CacheInit
  PROVE  CacheIInv /\ Cache!Init
<1>1. ToSet(<<>>) = {} /\ <<>> \in Seq(Inputs) /\ Len(<<>>) = 0 /\ DOMAIN <<>> = {}
  BY DEF ToSet
<1>2. \A S : <<>> \in [{} -> S]
  OBVIOUS
<1>3. \A i : ~CachedIn(<<>>, i)
  BY <1>1 DEF CachedIn
<1>4. IsCache(<<>>, NoEntry, 0, <<>>, <<>>)
  BY <1>1, <1>2, <1>3 DEF IsCache, Distinct, Ring
<1>5. IsCache(list, first, size, entries, <<>>)
  BY <1>4 DEF CacheInit
<1>6. Recency = <<>> /\ Results = [i \in ToSet(<<>>) |-> list[i].status]
  BY <1>5, RecencyIs
<1>7. Results = <<>>
  BY <1>1, <1>6
<1> QED BY <1>5, <1>6, <1>7 DEF CacheInit, CacheIInv, Cache!Init

LEMMA SameOperators ==
  /\ \A s : Cache!ToSet(s) = ToSet(s)
  /\ \A s, i : Cache!RemoveAt(s, i) = RemoveAt(s, i)
BY DEF ToSet, RemoveAt, Cache!ToSet, Cache!RemoveAt

LEMMA FetchReads ==
  ASSUME NEW x \in Inputs, Fetch(x), cleanUpIsScheduled \in BOOLEAN,
         NEW q, IsCache(list, first, size, entries, q)
  PROVE  (\E r : IsCache(list', first', size', entries', r)) /\ Cache!Read(x)
<1>1. PICK r : r = <<x>> \o q
  OBVIOUS
<1>2. /\ IsCache(list', first', size', entries', r)
      /\ x \notin ToSet(q) /\ ToSet(r) = {x} \cup ToSet(q)
      /\ list'[x].status = "pending"
      /\ \A i \in ToSet(q) : list'[i].status = list[i].status
  BY <1>1, FetchKeeps
<1>3. Recency = q /\ Results = [i \in ToSet(q) |-> list[i].status]
  BY RecencyIs
<1>4. Recency' = r /\ Results' = [i \in ToSet(r) |-> list'[i].status]
  BY <1>2, RecencyNext
<1>5. Results' = [i \in DOMAIN Results \cup {x} |->
                    IF i \in DOMAIN Results THEN Results[i] ELSE "pending"]
  <2>1. ToSet(r) = DOMAIN Results \cup {x}
    BY <1>2, <1>3
  <2>2. \A i \in ToSet(r) :
          list'[i].status = IF i \in DOMAIN Results THEN Results[i] ELSE "pending"
    BY <1>2, <1>3
  <2> QED BY <1>4, <2>1, <2>2
<1>6. cleanUpIsScheduled' = cleanUpIsScheduled /\ LIMIT' = LIMIT
  BY DEF Fetch
<1>7. x \notin DOMAIN Results
  BY <1>2, <1>3
<1>8. cleanUpIsScheduled' = (cleanUpIsScheduled
                               \/ (x \in DOMAIN Results /\ Len(Recency) > LIMIT))
  BY <1>6, <1>7, Zenon
<1>9. x \notin ToSet(Recency) /\ Recency' = <<x>> \o Recency
  BY <1>1, <1>2, <1>3, <1>4
<1>10. Cache!Read(x)
  BY <1>5, <1>6, <1>8, <1>9, SameOperators, Zenon DEF Cache!Read
<1> QED BY <1>2, <1>10

\* A fetch that throws leaves every entry as it was.
LEMMA FetchThrowsKeeps ==
  ASSUME NEW x \in Inputs, FetchThrows(x), NEW q, IsCache(list, first, size, entries, q)
  PROVE  IsCache(list', first', size', entries', q) /\ UNCHANGED <<Recency, Results>>
<1>1. /\ DOMAIN entries' = DOMAIN entries \cup {Resource(x)}
      /\ \A r \in DOMAIN entries' :
           entries'[r] = IF r \in DOMAIN entries THEN entries[r] ELSE {}
      /\ entries' = [r \in DOMAIN entries' |-> entries'[r]]
      /\ UNCHANGED <<list, first, size>>
  BY DEF FetchThrows
<1>2. \A r \in DOMAIN entries' : entries'[r] \in SUBSET Keys
  BY <1>1 DEF IsCache
<1>3. entries' \in [DOMAIN entries' -> SUBSET Keys]
  BY <1>1, <1>2
<1>4. \A i \in Inputs : CachedIn(entries', i) <=> CachedIn(entries, i)
  BY <1>1 DEF CachedIn
<1>5. IsCache(list', first', size', entries', q)
  BY <1>1, <1>3, <1>4 DEF IsCache
<1>6. Recency = q /\ Results = [i \in ToSet(q) |-> list[i].status]
  BY RecencyIs
<1>7. Recency' = q /\ Results' = [i \in ToSet(q) |-> list'[i].status]
  BY <1>5, RecencyNext
<1> QED BY <1>1, <1>5, <1>6, <1>7

LEMMA AccessReads ==
  ASSUME NEW x \in Inputs, Access(x), NEW q, IsCache(list, first, size, entries, q)
  PROVE  (\E r : IsCache(list', first', size', entries', r)) /\ Cache!Read(x)
<1>1. PICK k \in DOMAIN q :
        /\ q[k] = x
        /\ IsCache(list', first', size', entries', <<x>> \o RemoveAt(q, k))
        /\ ToSet(<<x>> \o RemoveAt(q, k)) = ToSet(q)
        /\ \A i \in ToSet(q) : list'[i].status = list[i].status
  BY AccessKeeps
<1>2. PICK r : r = <<x>> \o RemoveAt(q, k)
  OBVIOUS
<1>3. Recency = q /\ Results = [i \in ToSet(q) |-> list[i].status]
  BY RecencyIs
<1>4. Recency' = r /\ Results' = [i \in ToSet(r) |-> list'[i].status]
  BY <1>1, <1>2, RecencyNext
<1>5. x \in ToSet(q)
  BY <1>1 DEF ToSet
<1>6. Results' = [i \in DOMAIN Results \cup {x} |->
                    IF i \in DOMAIN Results THEN Results[i] ELSE "pending"]
  <2>1. ToSet(r) = DOMAIN Results \cup {x} /\ DOMAIN Results = ToSet(q)
    BY <1>1, <1>2, <1>3, <1>5
  <2>2. \A i \in ToSet(r) :
          list'[i].status = IF i \in DOMAIN Results THEN Results[i] ELSE "pending"
    BY <1>1, <1>2, <1>3
  <2> QED BY <1>4, <2>1, <2>2
<1>7. /\ cleanUpIsScheduled' = (cleanUpIsScheduled \/ size > LIMIT)
      /\ LIMIT' = LIMIT /\ size = Len(q)
  BY DEF Access, ScheduleCleanUp, IsCache
<1>8. x \in DOMAIN Results /\ Len(Recency) = size
  BY <1>3, <1>5, <1>7
<1>9. cleanUpIsScheduled' = (cleanUpIsScheduled
                               \/ (x \in DOMAIN Results /\ Len(Recency) > LIMIT))
  BY <1>7, <1>8, Zenon
<1>10. \E i \in DOMAIN Recency :
         Recency[i] = x /\ Recency' = <<x>> \o RemoveAt(Recency, i)
  BY <1>1, <1>2, <1>3, <1>4
<1>11. Cache!Read(x)
  BY <1>6, <1>7, <1>9, <1>10, SameOperators, Zenon DEF Cache!Read
<1> QED BY <1>1, <1>11

LEMMA SettleSettles ==
  ASSUME NEW x \in Inputs, Settle(x), NEW q, IsCache(list, first, size, entries, q)
  PROVE  (\E r : IsCache(list', first', size', entries', r)) /\ Cache!Settle(x)
<1>1. /\ list \in [ToSet(q) -> Nodes] /\ Ring(list, q) /\ x \in ToSet(q)
      /\ list' = [list EXCEPT ![x].status = "settled"]
      /\ UNCHANGED <<first, size, LIMIT, cleanUpIsScheduled, entries>>
  BY CacheFacts DEF Settle
<1>2. list' \in [ToSet(q) -> Nodes]
  BY <1>1 DEF Nodes
<1>3. \A i \in ToSet(q) :
        /\ list'[i].next = list[i].next /\ list'[i].previous = list[i].previous
        /\ list'[i].status = IF i = x THEN "settled" ELSE list[i].status
  BY <1>1 DEF Nodes
<1>4. Ring(list', q)
  <2>1. \A i \in DOMAIN q : q[i] \in ToSet(q) /\ q[Following(q, i)] \in ToSet(q)
    <3>1. PICK n : /\ n = Len(q) /\ n \in Nat /\ DOMAIN q = 1..n
                   /\ \A i \in 1..n : q[i] \in ToSet(q)
      BY CacheFacts
    <3>2. \A i \in 1..n : Following(q, i) \in 1..n
      BY <3>1 DEF Following
    <3> QED BY <3>1, <3>2
  <2> QED BY <1>1, <1>3, <2>1 DEF Ring
<1>5. IsCache(list', first', size', entries', q)
  BY <1>1, <1>2, <1>4 DEF IsCache
<1>6. Recency = q /\ Results = [i \in ToSet(q) |-> list[i].status]
  BY RecencyIs
<1>7. Recency' = q /\ Results' = [i \in ToSet(q) |-> list'[i].status]
  BY <1>5, RecencyNext
<1>8. Results' = [Results EXCEPT ![x] = "settled"] /\ x \in DOMAIN Results
  BY <1>1, <1>3, <1>6, <1>7
<1>9. Cache!Settle(x)
  BY <1>1, <1>6, <1>7, <1>8 DEF Cache!Settle
<1> QED BY <1>5, <1>9

LEMMA SetLimitSets ==
  ASSUME NEW limit \in Limits, SetLimit(limit),
         NEW q, IsCache(list, first, size, entries, q)
  PROVE  (\E r : IsCache(list', first', size', entries', r)) /\ Cache!SetLimit(limit)
<1>1. /\ LIMIT' = limit /\ cleanUpIsScheduled' = (cleanUpIsScheduled \/ size > limit)
      /\ UNCHANGED <<list, first, size, entries>>
  BY DEF SetLimit, ScheduleCleanUp
<1>2. IsCache(list', first', size', entries', q)
  BY <1>1
<1>3. Recency = q /\ Results = [i \in ToSet(q) |-> list[i].status] /\ size = Len(q)
  BY RecencyIs DEF IsCache
<1>4. Recency' = q /\ Results' = [i \in ToSet(q) |-> list'[i].status]
  BY <1>2, RecencyNext
<1>5. UNCHANGED <<Recency, Results>>
  BY <1>1, <1>3, <1>4
<1>6. cleanUpIsScheduled' = (cleanUpIsScheduled \/ Len(Recency) > limit)
  BY <1>1, <1>3, Zenon
<1>7. Cache!SetLimit(limit)
  BY <1>1, <1>5, <1>6, Zenon DEF Cache!SetLimit
<1> QED BY <1>2, <1>7

LEMMA CleanUpForgets ==
  ASSUME CleanUp, LIMIT \in Int, NEW q, IsCache(list, first, size, entries, q)
  PROVE  (\E r : IsCache(list', first', size', entries', r)) /\ Cache!CleanUp
<1>1. PICK n, last, c, after, keep, r :
        /\ n = Len(q) /\ last = (IF first = NoEntry THEN NoEntry ELSE list[first].previous)
        /\ c = [list |-> list, first |-> first, size |-> size, entries |-> entries,
                last |-> last]
        /\ after = DeleteLeastRecentlyUsedEntries(c, LIMIT)
        /\ keep = (IF LIMIT < 0 THEN 0 ELSE IF LIMIT < Len(q) THEN LIMIT ELSE Len(q))
        /\ r = SubSeq(q, 1, keep)
  OBVIOUS
<1>2. /\ list' = after.list /\ first' = after.first
      /\ size' = after.size /\ entries' = after.entries
      /\ cleanUpIsScheduled /\ cleanUpIsScheduled' = FALSE /\ LIMIT' = LIMIT
  BY <1>1 DEF CleanUp
<1>3. n \in Nat /\ DOMAIN q = 1..n /\ Ring(list, q) /\ q \in Seq(Inputs)
      /\ (first = NoEntry <=> q = <<>>) /\ (q # <<>> <=> n # 0)
      /\ (first = NoEntry \/ (first = q[1] /\ 1 \in 1..n))
  BY <1>1, CacheFacts DEF IsCache
<1>4. LoopAt(c, q)
  <2>1. last = IF q = <<>> THEN NoEntry ELSE q[Len(q)]
    <3>1. CASE q = <<>>
      BY <1>1, <1>3, <3>1
    <3>2. CASE q # <<>>
      <4>1. n \in 1..n /\ Following(q, n) = 1
        BY <1>1, <1>3, <3>2 DEF Following
      <4>2. list[q[1]].previous = q[n]
        BY <1>3, <4>1 DEF Ring
      <4> QED BY <1>1, <1>3, <3>2, <4>2
    <3> QED BY <3>1, <3>2
  <2> QED BY <1>1, <2>1 DEF LoopAt
<1>5. LoopAt(after, r) /\ \A i \in ToSet(r) : after.list[i].status = c.list[i].status
  BY <1>1, <1>4, LoopKeeps
<1>6. IsCache(list', first', size', entries', r)
  BY <1>2, <1>5 DEF LoopAt
<1>7. Recency = q /\ Results = [i \in ToSet(q) |-> list[i].status]
  BY RecencyIs
<1>8. Recency' = r /\ Results' = [i \in ToSet(r) |-> list'[i].status]
  BY <1>6, RecencyNext
<1>9. r = Cache!Prefix(LIMIT)
  <2>1. Cache!Prefix(LIMIT) = SubSeq(q, 1, IF LIMIT < n THEN LIMIT ELSE n)
    BY <1>1, <1>7 DEF Cache!Prefix
  <2>2. CASE LIMIT < 0
    <3>1. r = <<>>
      <4>1. keep = 0 /\ 0 < 1
        BY <1>1, <2>2
      <4>2. SubSeq(q, 1, 0) = <<>>
        BY SubSeqEmpty
      <4> QED BY <1>1, <4>1, <4>2
    <3>2. Cache!Prefix(LIMIT) = SubSeq(q, 1, LIMIT)
      BY <1>3, <2>1, <2>2
    <3>3. SubSeq(q, 1, LIMIT) = <<>>
      BY <2>2, SubSeqEmpty
    <3> QED BY <3>1, <3>2, <3>3
  <2>3. CASE ~(LIMIT < 0)
    BY <1>1, <2>1, <2>3
  <2> QED BY <2>2, <2>3
<1>10. ToSet(r) \subseteq ToSet(q)
  <2>1. keep \in 0..Len(q)
    BY <1>1, <1>3
  <2>2. r \in Seq(Inputs) /\ Len(r) = keep /\ \A i \in 1..keep : r[i] = q[i]
    BY <1>1, <1>3, <2>1, FrontIs
  <2>3. DOMAIN r = 1..keep /\ \A i \in 1..keep : i \in 1..n
    BY <1>1, <1>3, <2>1, <2>2, LenProperties
  <2> QED BY <1>3, <2>2, <2>3 DEF ToSet
<1>11. Results' = [i \in ToSet(Cache!Prefix(LIMIT)) |-> Results[i]]
  <2>1. \A i \in ToSet(r) : list'[i].status = Results[i]
    BY <1>1, <1>2, <1>5, <1>7, <1>10
  <2> QED BY <1>8, <1>9, <2>1
<1>12. Cache!CleanUp
  BY <1>2, <1>8, <1>9, <1>11, SameOperators, Zenon DEF Cache!CleanUp
<1> QED BY <1>6, <1>12

LEMMA StepImplements ==
  ASSUME CacheIInv, [CacheNext]_cacheVars
  PROVE  CacheIInv' /\ [Cache!Next]_Cache!vars
<1>1. PICK q : IsCache(list, first, size, entries, q)
  BY DEF CacheIInv
<1>2. LIMIT \in Int /\ LIMIT \in Limits /\ cleanUpIsScheduled \in BOOLEAN
  BY CacheAssumption DEF CacheIInv
<1>3. ASSUME NEW x \in Inputs, Fetch(x)
      PROVE  CacheIInv' /\ [Cache!Next]_Cache!vars
  <2>1. (\E r : IsCache(list', first', size', entries', r)) /\ Cache!Read(x)
    BY <1>1, <1>2, <1>3, FetchReads
  <2>2. LIMIT' \in Limits /\ cleanUpIsScheduled' \in BOOLEAN
    BY <1>2, <1>3 DEF Fetch
  <2> QED BY <2>1, <2>2 DEF CacheIInv, Cache!Next
<1>4. ASSUME NEW x \in Inputs, Access(x)
      PROVE  CacheIInv' /\ [Cache!Next]_Cache!vars
  <2>1. (\E r : IsCache(list', first', size', entries', r)) /\ Cache!Read(x)
    BY <1>1, <1>4, AccessReads
  <2>2. LIMIT' \in Limits /\ cleanUpIsScheduled' \in BOOLEAN
    BY <1>2, <1>4 DEF Access, ScheduleCleanUp
  <2> QED BY <2>1, <2>2 DEF CacheIInv, Cache!Next
<1>5. ASSUME NEW x \in Inputs, Settle(x)
      PROVE  CacheIInv' /\ [Cache!Next]_Cache!vars
  <2>1. (\E r : IsCache(list', first', size', entries', r)) /\ Cache!Settle(x)
    BY <1>1, <1>5, SettleSettles
  <2>2. LIMIT' \in Limits /\ cleanUpIsScheduled' \in BOOLEAN
    BY <1>2, <1>5 DEF Settle
  <2> QED BY <2>1, <2>2 DEF CacheIInv, Cache!Next
<1>6. ASSUME NEW limit \in Limits, SetLimit(limit)
      PROVE  CacheIInv' /\ [Cache!Next]_Cache!vars
  <2>1. (\E r : IsCache(list', first', size', entries', r)) /\ Cache!SetLimit(limit)
    BY <1>1, <1>6, SetLimitSets
  <2>2. LIMIT' \in Limits /\ cleanUpIsScheduled' \in BOOLEAN
    BY <1>2, <1>6 DEF SetLimit, ScheduleCleanUp
  <2> QED BY <2>1, <2>2 DEF CacheIInv, Cache!Next
<1>7. ASSUME CleanUp
      PROVE  CacheIInv' /\ [Cache!Next]_Cache!vars
  <2>1. (\E r : IsCache(list', first', size', entries', r)) /\ Cache!CleanUp
    BY <1>1, <1>2, <1>7, CleanUpForgets
  <2>2. LIMIT' \in Limits /\ cleanUpIsScheduled' \in BOOLEAN
    BY <1>2, <1>7 DEF CleanUp
  <2> QED BY <2>1, <2>2 DEF CacheIInv, Cache!Next
<1>8. ASSUME UNCHANGED cacheVars
      PROVE  CacheIInv' /\ [Cache!Next]_Cache!vars
  <2>1. IsCache(list', first', size', entries', q)
    BY <1>1, <1>8 DEF cacheVars
  <2>2. Recency = q /\ Results = [i \in ToSet(q) |-> list[i].status]
    BY <1>1, RecencyIs
  <2>3. Recency' = q /\ Results' = [i \in ToSet(q) |-> list'[i].status]
    BY <2>1, RecencyNext
  <2>4. LIMIT' = LIMIT /\ cleanUpIsScheduled' = cleanUpIsScheduled /\ list' = list
    BY <1>8 DEF cacheVars
  <2> QED BY <1>2, <2>1, <2>2, <2>3, <2>4 DEF CacheIInv, Cache!vars
<1>9. ASSUME NEW x \in Inputs, FetchThrows(x)
      PROVE  CacheIInv' /\ [Cache!Next]_Cache!vars
  <2>1. IsCache(list', first', size', entries', q) /\ UNCHANGED <<Recency, Results>>
    BY <1>1, <1>9, FetchThrowsKeeps
  <2>2. UNCHANGED <<LIMIT, cleanUpIsScheduled>>
    BY <1>9 DEF FetchThrows
  <2> QED BY <1>2, <2>1, <2>2 DEF CacheIInv, Cache!vars
<1> QED BY <1>3, <1>4, <1>5, <1>6, <1>7, <1>8, <1>9 DEF CacheNext

\* The list of the cache is a ring, in both directions, of exactly the entries that
\* the maps of the resources hold, each once, starting at the one read last, and
\* `size` counts them (LRU.js).
THEOREM CacheInvariance == CacheSpec => []CacheIInv
<1>1. CacheInit => CacheIInv
  BY InitIs
<1>2. CacheIInv /\ [CacheNext]_cacheVars => CacheIInv'
  BY StepImplements
<1> QED BY <1>1, <1>2, PTL DEF CacheSpec

\* The list, its size and the maps implement a cache of bounded size: every read moves
\* its input to the front, and a clean-up forgets those read longest ago and no more
\* of them than the limit asks for.
THEOREM CacheImplementation == CacheSpec => CacheImplementsRecency
<1>1. CacheInit => Cache!Init
  BY InitIs
<1>2. CacheIInv /\ [CacheNext]_cacheVars => [Cache!Next]_Cache!vars
  BY StepImplements
<1> QED BY <1>1, <1>2, CacheInvariance, PTL DEF CacheSpec, CacheImplementsRecency, Cache!Spec
====
