--------------------------- MODULE ExternalStore ---------------------------
(***************************************************************************)
(* useSyncExternalStore: components of one root read a store that changes  *)
(* behind React's back, between the slices of a concurrent render, between *)
(* render and commit, and between commit and the passive effects that      *)
(* subscribe them.                                                         *)
(*                                                                         *)
(* The store calls its listeners at each change.  What else is rendered,   *)
(* mounted and deleted along with the components is chosen freely.         *)
(***************************************************************************)
EXTENDS Integers, FiniteSets

CONSTANTS
  Components,
  Values,       \* states of the store
  Getters,      \* the getSnapshot functions components may pass
  GetSnapshot,  \* GetSnapshot[g][v]: what getter g returns for state v
  MaxChanges    \* bound: changes of the store in a behaviour

VARIABLES
  store,
  changes,    \* bound: how often the store has changed
  shown,    \* per component <<>>, or [snapshot, get] of its hook on screen
  inst,       \* per component hook.queue: [value, get]
  listening,  \* the components subscribed to the store
  sync,       \* the components with an update of SyncLane
  render,     \* the concurrent render in progress or finished, <<>> if none
  effects     \* the passive effects not yet flushed, <<>> if none

storeVars == <<store, changes, shown, inst, listening, sync, render, effects>>

Nothing == <<>>
Mounted == {c \in Components : shown[c] # Nothing}

Snapshot(get) == GetSnapshot[get][store]

-----------------------------------------------------------------------------
(* The store                                                                 *)

\* checkIfSnapshotChanged, for the state v of the store
SnapshotChanged(instance, v) == GetSnapshot[instance.get][v] # instance.value

\* Each listener's handleStoreChange; forceStoreRerender finds no root for a
\* component that is deleted.
StoreChange(v) ==
  /\ changes < MaxChanges
  /\ v # store
  /\ store' = v
  /\ changes' = changes + 1
  /\ sync' = sync \cup {c \in listening \cap Mounted : SnapshotChanged(inst[c], v)}
  /\ render' = IF render # Nothing /\ render.finished
               THEN [render EXCEPT !.delayed = TRUE] ELSE render
  /\ UNCHANGED <<shown, inst, listening, effects>>

-----------------------------------------------------------------------------
(* What a render makes of a component.                                       *)

NotRendered == [kind |-> "bailout"]
Deleted     == [kind |-> "delete"]

\* mountSyncExternalStore, and pushStoreConsistencyCheck of a concurrent render
MountStore(get) ==
  [kind |-> "render", snapshot |-> Snapshot(get), get |-> get,
   subscribe |-> TRUE, update |-> TRUE, check |-> TRUE]

\* Mutant: no effect checks the snapshot again if only getSnapshot changed.
UpdateStoreIgnoringGetter(c, get, resubscribe) ==
  LET changed == resubscribe \/ Snapshot(get) # shown[c].snapshot
  IN  [kind |-> "render", snapshot |-> Snapshot(get), get |-> get,
       subscribe |-> resubscribe, update |-> changed, check |-> changed]

\* updateSyncExternalStore
UpdateStore(c, get, resubscribe) ==
  LET changed == \/ inst[c].get # get
                 \/ Snapshot(get) # shown[c].snapshot
                 \/ resubscribe
  IN  [kind |-> "render", snapshot |-> Snapshot(get), get |-> get,
       subscribe |-> resubscribe, update |-> changed, check |-> changed]

\* What may become of c; must: it has an update of the lanes rendered.
Outcomes(c, must) ==
  LET renders == IF c \in Mounted
                 THEN {UpdateStore(c, get, again) : get \in Getters, again \in BOOLEAN}
                 ELSE {MountStore(get) : get \in Getters}
      others == IF must THEN {} ELSE {NotRendered}
  IN  renders \cup others \cup (IF c \in Mounted THEN {Deleted} ELSE {})

\* The same component rendered again, now
Again(c, outcome) ==
  IF outcome.kind # "render" THEN outcome
  ELSE IF c \in Mounted THEN UpdateStore(c, outcome.get, outcome.subscribe)
  ELSE MountStore(outcome.get)

\* commitRoot: the passive effects of the outcomes are left to be flushed.
CommitOutcomes(outcomes) ==
  LET rendered == {c \in Components : outcomes[c].kind = "render"}
      deleted == {c \in Components : outcomes[c].kind = "delete"}
  IN  /\ shown' = [c \in Components |->
                       IF c \in rendered
                       THEN [snapshot |-> outcomes[c].snapshot, get |-> outcomes[c].get]
                       ELSE IF c \in deleted THEN Nothing ELSE shown[c]]
      /\ inst' = [c \in Components |->
                    IF c \in rendered \ Mounted
                    THEN [value |-> outcomes[c].snapshot, get |-> outcomes[c].get]
                    ELSE inst[c]]
      /\ effects' = [mounting |-> FALSE,
                     unsubscribe |-> deleted \cup
                        {c \in rendered \cap Mounted : outcomes[c].subscribe},
                     subscribe |-> {c \in rendered : outcomes[c].subscribe},
                     update |-> {c \in rendered : outcomes[c].update}]
      /\ sync' = sync \ (rendered \cup deleted)
      /\ render' = Nothing

-----------------------------------------------------------------------------
(* Renders.  Each starts after flushPassiveEffects.                          *)

\* performSyncWorkOnRoot: nothing comes between render and commit; a concurrent
\* render is dropped.
SyncRender ==
  /\ sync # {} /\ effects = Nothing
  /\ \E outcomes \in [Components -> UNION {Outcomes(c, FALSE) : c \in Components}] :
       /\ \A c \in Components : outcomes[c] \in Outcomes(c, c \in sync)
       /\ CommitOutcomes(outcomes)
  /\ UNCHANGED <<store, changes, listening>>

StartConcurrentRender ==
  /\ sync = {} /\ effects = Nothing /\ render = Nothing
  /\ render' = [outcomes |-> <<>>, left |-> Components, finished |-> FALSE,
                delayed |-> FALSE]
  /\ UNCHANGED <<store, changes, shown, inst, listening, sync, effects>>

\* One component, in a slice of its own.  SyncLane comes first.
RenderConcurrently(c) ==
  /\ sync = {} /\ render # Nothing
  /\ c \in render.left
  /\ \E outcome \in Outcomes(c, FALSE) :
       render' = [render EXCEPT !.left = @ \ {c},
                    !.outcomes = [d \in {c} \cup DOMAIN @ |->
                                    IF d = c THEN outcome ELSE @[d]]]
  /\ UNCHANGED <<store, changes, shown, inst, listening, sync, effects>>

\* isRenderConsistentWithExternalStores
IsConsistent(outcomes) ==
  \A c \in Components :
    outcomes[c].kind = "render" /\ outcomes[c].check =>
      Snapshot(outcomes[c].get) = outcomes[c].snapshot

\* Mutant: an inconsistent render is committed as it is.
ConsistentOutcomesUnchecked(outcomes) == outcomes

\* An inconsistent tree is rendered again synchronously.
ConsistentOutcomes(outcomes) ==
  IF IsConsistent(outcomes) THEN outcomes
  ELSE [c \in Components |-> Again(c, outcomes[c])]

\* The end of performConcurrentWorkOnRoot: the tree is committed at once, or later
\* if it waits for data or a throttle.
FinishConcurrentRender ==
  /\ sync = {} /\ render # Nothing /\ ~render.finished
  /\ render.left = {}
  /\ \/ /\ CommitOutcomes(ConsistentOutcomes(render.outcomes))
        /\ UNCHANGED <<store, changes, listening>>
     \/ /\ render' = [render EXCEPT !.finished = TRUE,
                                    !.outcomes = ConsistentOutcomes(@)]
        /\ UNCHANGED <<store, changes, shown, inst, listening, sync, effects>>

CommitLater ==
  /\ sync = {} /\ render # Nothing /\ render.finished
  /\ CommitOutcomes(render.outcomes)
  /\ UNCHANGED <<store, changes, listening>>

-----------------------------------------------------------------------------
(* flushPassiveEffects: all unsubscribes, then the mount effects component   *)
(* by component; effects of other components may change the store between.   *)

FlushUnmountEffects ==
  /\ effects # Nothing /\ ~effects.mounting
  /\ listening' = listening \ effects.unsubscribe
  /\ effects' = IF effects.subscribe \cup effects.update = {} THEN Nothing
                ELSE [effects EXCEPT !.mounting = TRUE]
  /\ UNCHANGED <<store, changes, shown, inst, sync, render>>

\* updateStoreInstance
UpdateStoreInstance(c) ==
  /\ inst' = [inst EXCEPT ![c] = [value |-> shown[c].snapshot, get |-> shown[c].get]]
  /\ sync' = IF SnapshotChanged(inst'[c], store) THEN sync \cup {c} ELSE sync

\* subscribeToStore, then updateStoreInstance of one component
FlushMountEffects(c) ==
  /\ effects # Nothing /\ effects.mounting
  /\ c \in effects.subscribe \cup effects.update
  /\ listening' = IF c \in effects.subscribe THEN listening \cup {c} ELSE listening
  /\ IF c \in effects.update THEN UpdateStoreInstance(c) ELSE UNCHANGED <<inst, sync>>
  /\ effects' = IF effects.subscribe \cup effects.update = {c} THEN Nothing
                ELSE [effects EXCEPT !.subscribe = @ \ {c}, !.update = @ \ {c}]
  /\ UNCHANGED <<store, changes, shown, render>>

StoreInit ==
  /\ store \in Values
  /\ changes = 0
  /\ shown = [c \in Components |-> Nothing]
  /\ inst = [c \in Components |-> Nothing]
  /\ listening = {}
  /\ sync = {}
  /\ render = Nothing
  /\ effects = Nothing

StoreNext ==
  \/ \E v \in Values : StoreChange(v)
  \/ SyncRender
  \/ StartConcurrentRender
  \/ \E c \in Components : RenderConcurrently(c)
  \/ FinishConcurrentRender
  \/ CommitLater
  \/ FlushUnmountEffects
  \/ \E c \in Components : FlushMountEffects(c)

StoreSpec == StoreInit /\ [][StoreNext]_storeVars

-----------------------------------------------------------------------------
(* Properties.                                                               *)

\* What every component shows is what its getSnapshot returns now.
ShowsStore == \A c \in Mounted : shown[c].snapshot = Snapshot(shown[c].get)

\* A component that missed a change of the store, wherever it happened, is never
\* left that way: an update or an effect that will find out is always pending.
StaleIsRepaired == sync = {} /\ effects = Nothing => ShowsStore

\* A concurrent render whose commit was not delayed never shows two states of the
\* store, or an old one, though the store changed while it was in progress.
NoTearing == [][FinishConcurrentRender /\ shown' # shown => ShowsStore']_storeVars
=============================================================================
