----------------------------- MODULE EventReplay -----------------------------
(***************************************************************************)
(* Events that reach the DOM before it is hydrated.  A continuous event    *)
(* whose target is inside a dehydrated boundary is queued, the last one of *)
(* each kind, and replayed when what it is blocked on is hydrated or gone; *)
(* nodes that the user asked to hydrate first wait beside them.            *)
(*                                                                         *)
(* A discrete event is not queued: it tries to hydrate on the spot, which  *)
(* are steps of Hydrate.  A handler is assumed not to commit anything      *)
(* while events are replayed.                                              *)
(***************************************************************************)
EXTENDS Integers, Sequences, SequencesExt

CONSTANTS
  Path,        \* target -> the container and boundaries around it, from outside
  Container,
  EventKinds,       \* kinds of continuous events that have a place of their own
  Priorities,  \* of events, numbers: 0 is none, else the lower is the higher
  MaxEvents,   \* bound: events and targets to hydrate
  Null

VARIABLES
  state,     \* instance -> "dehydrated", "hydrated", "cleared" (by
             \* clearSuspenseBoundary) or "removed" (within a host node)
  queuedEvents,    \* kind of event that is queued -> [target, blockedOn]
  hasScheduledReplayAttempt,
  queuedExplicitHydrationTargets,   \* [target, blockedOn, priority]
  events     \* history: counts what MaxEvents bounds

replayVars == <<state, queuedEvents, hasScheduledReplayAttempt, queuedExplicitHydrationTargets, events>>

Targets == DOMAIN Path
Instances == UNION {ToSet(Path[t]) : t \in Targets}

\* What surrounds a target is a sequence.
ASSUME PathAssumption == \A t \in Targets : Path[t] \in Seq(Instances)

Outside(i) ==
  UNION {{Path[t][n] : n \in {n \in DOMAIN Path[t] : i \in ToSet(SubSeq(Path[t], n + 1, Len(Path[t])))}}
           : t \in Targets}

IsConnected(target) ==
  \A i \in ToSet(Path[target]) : state[i] \in {"dehydrated", "hydrated"}

\* findInstanceBlockingEvent, and its double in attemptExplicitHydrationTarget,
\* when the instances are `st`
FindBlocking(st, target) ==
  LET blocking == {n \in DOMAIN Path[target] : st[Path[target][n]] = "dehydrated"}
      gone == {n \in DOMAIN Path[target] : st[Path[target][n]] \in {"cleared", "removed"}}
  IN IF blocking = {} \/ gone # {} THEN Null
     ELSE Path[target][CHOOSE n \in blocking : \A m \in blocking : n <= m]

-----------------------------------------------------------------------------
(* Events                                                                    *)

\* clearIfContinuousEvent
Cleared(kind) == Restrict(queuedEvents, DOMAIN queuedEvents \ {kind})

\* dispatchEvent of an event that can be queued: queueIfContinuousEvent, or
\* clearIfContinuousEvent when it is not blocked
ContinuousEvent(kind, target) ==
  LET blockedOn == FindBlocking(state, target)
  IN /\ events < MaxEvents
     /\ IsConnected(target)
     /\ queuedEvents' = IF blockedOn = Null THEN Cleared(kind)
                  ELSE [k \in DOMAIN queuedEvents \cup {kind} |->
                          IF k = kind THEN [target |-> target, blockedOn |-> blockedOn]
                          ELSE queuedEvents[k]]
     /\ events' = events + 1
     /\ UNCHANGED <<state, hasScheduledReplayAttempt, queuedExplicitHydrationTargets>>

\* dispatchEvent of the event that ends what a kind began: clearIfContinuousEvent
EndingEvent(kind) ==
  /\ kind \in DOMAIN queuedEvents
  /\ queuedEvents' = Cleared(kind)
  /\ UNCHANGED <<state, hasScheduledReplayAttempt, queuedExplicitHydrationTargets, events>>

\* Mutant: an event that is blocked again is left as it is.
BlockedAgainForgotten(event) == event

BlockedAgain(event) == [event EXCEPT !.blockedOn = FindBlocking(state, event.target)]

\* replayUnblockedEvents, when the Scheduler calls it, with
\* attemptReplayContinuousQueuedEvent of each event that is not blocked
ReplayUnblockedEvents ==
  LET unblocked == {k \in DOMAIN queuedEvents : queuedEvents[k].blockedOn = Null}
      replayed == {k \in unblocked : FindBlocking(state, queuedEvents[k].target) = Null}
  IN /\ hasScheduledReplayAttempt
     /\ hasScheduledReplayAttempt' = FALSE
     /\ queuedEvents' = [k \in DOMAIN queuedEvents \ replayed |->
          IF k \in unblocked THEN BlockedAgain(queuedEvents[k]) ELSE queuedEvents[k]]
     /\ UNCHANGED <<state, queuedExplicitHydrationTargets, events>>

\* No priority, which an update has outside of events, is not higher than any.
IsHigherEventPriority(a, b) == a # 0 /\ a < b

\* queueExplicitHydrationTarget: behind those of lower priority, and tried at once
\* if that is the first place
QueueExplicitHydrationTarget(target, priority) ==
  LET queue == queuedExplicitHydrationTargets
      stops == {j \in DOMAIN queue : ~IsHigherEventPriority(priority, queue[j].priority)}
      place == IF stops = {} THEN Len(queue) + 1
               ELSE CHOOSE j \in stops : \A k \in stops : j <= k
      entry == [target |-> target, priority |-> priority,
                blockedOn |-> IF place = 1 THEN FindBlocking(state, target) ELSE Null]
  IN /\ events < MaxEvents
     /\ events' = events + 1
     /\ queuedExplicitHydrationTargets' = InsertAt(queue, place, entry)
     /\ UNCHANGED <<state, queuedEvents, hasScheduledReplayAttempt>>

-----------------------------------------------------------------------------
(* Commits                                                                   *)

\* The targets left after those at the head that are not blocked any more
Advanced(queue, st) ==
  LET waits == {j \in DOMAIN queue :
                  queue[j].blockedOn # Null \/ FindBlocking(st, queue[j].target) # Null}
      first == CHOOSE j \in waits : \A k \in waits : j <= k
  IN IF waits = {} THEN <<>>
     ELSE [SubSeq(queue, first, Len(queue)) EXCEPT
             ![1].blockedOn = IF @ # Null THEN @ ELSE FindBlocking(st, queue[first].target)]

\* retryIfBlockedOn(unblocked), the instances being `st` now
RetryIfBlockedOn(unblocked, st) ==
  LET queue == queuedExplicitHydrationTargets
      unblockedKinds == {k \in DOMAIN queuedEvents : queuedEvents[k].blockedOn = unblocked}
  IN /\ queuedEvents' = [k \in DOMAIN queuedEvents |->
          IF k \in unblockedKinds THEN [queuedEvents[k] EXCEPT !.blockedOn = Null] ELSE queuedEvents[k]]
     /\ hasScheduledReplayAttempt' = (hasScheduledReplayAttempt \/ unblockedKinds # {})
     /\ queuedExplicitHydrationTargets' =
          Advanced([j \in DOMAIN queue |->
                      IF queue[j].blockedOn = unblocked THEN [queue[j] EXCEPT !.blockedOn = Null]
                      ELSE queue[j]], st)

\* commitHydratedContainer and commitHydratedSuspenseInstance
Hydrate(i) ==
  /\ state[i] = "dehydrated"
  /\ \A o \in Outside(i) : state[o] = "hydrated"
  /\ state' = [state EXCEPT ![i] = "hydrated"]
  /\ RetryIfBlockedOn(i, state')
  /\ UNCHANGED events

\* clearSuspenseBoundary of a boundary that is deleted or rendered by the client.
\* That of a container also retries what is blocked on the container: nothing is.
ClearSuspenseBoundary(i) ==
  /\ i # Container
  /\ state[i] = "dehydrated"
  /\ \A o \in Outside(i) : state[o] = "hydrated"
  /\ state' = [state EXCEPT ![i] = "cleared"]
  /\ RetryIfBlockedOn(i, state')
  /\ UNCHANGED events

\* commitDeletionEffectsOnFiber of a host node around a boundary: dehydrated
\* boundaries in it go with the node, and nobody is told.
RemoveHostNode(i) ==
  /\ i # Container
  /\ \A o \in Outside(i) \cup {i} : state[o] \in {"dehydrated", "hydrated"}
  /\ \A o \in Outside(i) : state[o] = "hydrated"
  /\ state' = [j \in Instances |-> IF j = i \/ i \in Outside(j) THEN "removed" ELSE state[j]]
  /\ UNCHANGED <<queuedEvents, hasScheduledReplayAttempt, queuedExplicitHydrationTargets, events>>

ReplayInit ==
  /\ state = [i \in Instances |-> "dehydrated"]
  /\ queuedEvents = <<>>
  /\ hasScheduledReplayAttempt = FALSE
  /\ queuedExplicitHydrationTargets = <<>>
  /\ events = 0

ReplayNext ==
  \/ \E target \in Targets :
       \/ \E kind \in EventKinds : ContinuousEvent(kind, target)
       \/ \E priority \in Priorities : QueueExplicitHydrationTarget(target, priority)
  \/ \E kind \in EventKinds : EndingEvent(kind)
  \/ ReplayUnblockedEvents
  \/ \E i \in Instances : Hydrate(i) \/ ClearSuspenseBoundary(i) \/ RemoveHostNode(i)

ReplaySpec == ReplayInit /\ [][ReplayNext]_replayVars

-----------------------------------------------------------------------------
\* Nothing is blocked for ever: a queued event that is not blocked has a replay
\* coming, and what blocks an event or a target is still to be hydrated or
\* cleared, which will retry it; but for a boundary removed within a host node.
BlockedIsRetried ==
  LET Waits(i) == state[i] \in {"dehydrated", "removed"}
  IN /\ \A k \in DOMAIN queuedEvents :
          IF queuedEvents[k].blockedOn = Null THEN hasScheduledReplayAttempt
          ELSE Waits(queuedEvents[k].blockedOn)
     /\ \A j \in DOMAIN queuedExplicitHydrationTargets :
          queuedExplicitHydrationTargets[j].blockedOn # Null =>
            Waits(queuedExplicitHydrationTargets[j].blockedOn)
=============================================================================
