--------------------------- MODULE MCRootScheduler ---------------------------
(* Constant values for the runs of RootScheduler. *)
EXTENDS RootScheduler

CONSTANTS A, B   \* roots

\* Next for a single root, whose commits never find passive effects to flush
\* first: the render before has flushed them, and a delayed commit of the same
\* root is cancelled by the next render.
OneRootNext ==
  \/ \E r \in Root, lane \in UpdateLanes :
       \/ Update(r, lane)
       \/ LayoutEffectUpdate(r, lane)
       \/ PassiveEffectUpdate(r, lane)
  \/ FlushSync
  \/ Microtask
  \/ \E t \in tasks : RunTask(t)
  \/ RunFlushTask
  \/ RunPassiveTask
  \/ \E r \in Root : RunCommitTimer(r)
  \/ \E l \in listeners : PingSuspendedRoot(l)
  \/ \E r \in Root, lane \in Lanes : RetryTimedOutBoundary(r, lane)
  \/ PerformConcurrentWork
  \/ PerformSyncWork
  \/ \E r \in Root : RenderPhaseUpdate(r)
  \/ ComponentSuspends
  \/ ShellSuspends
  \/ ComponentThrows
  \/ RenderYields
  \/ \E status \in Statuses :
       CompleteConcurrentRender(status) \/ CompleteSyncRender(status)
  \/ EndConcurrentWork
  \/ ReturnContinuation
  \/ EndSyncWork
  \/ CommitRoot
  \/ CommitEnds
  \/ CommitFlushesOwnEffects
  \/ CommitFlushesSyncCallbacks
  \/ PassiveEffectsEnd
  \/ FlushSyncCallbacks

OneRootSpec == Init /\ [][OneRootNext]_vars /\ Fairness
=============================================================================
