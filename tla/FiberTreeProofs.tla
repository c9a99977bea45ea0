--------------------------- MODULE FiberTreeProofs ---------------------------
(***************************************************************************)
(* No update is forgotten in the tree of fibers, whatever its size: the    *)
(* lanes on screen lead to every queued update, and a finished render has  *)
(* processed all it was asked for.                                         *)
(*                                                                         *)
(* On screen, every consumer shows the value of its provider, in any tree  *)
(* and wherever a render is interrupted: a provider with another value     *)
(* makes the render go down to all consumers below it (ContextInv).        *)
(***************************************************************************)
EXTENDS FiberTree, TLAPS

-----------------------------------------------------------------------------
(* The inductive invariant                                                   *)

AllLanes(f) == queued[f] \cup interleaved[f]

\* The lanes that f keeps when the render is committed
Remaining(f) ==
  IF f \in processed THEN (queued[f] \ renderLanes) \cup interleaved[f] ELSE AllLanes(f)

Due(f) == queued[f] \cap renderLanes # {}

\* The render has reached a connected part of the tree and finishes it from below.
RenderShape ==
  /\ \A f \in Position : \A a \in Ancestors[f] :
       /\ stage[a] \in {"none", "cloned"} => stage[f] = "none"
       /\ stage[a] = "done" => stage[f] \in {"none", "done"}
  /\ \A f \in processed : stage[f] \in {"begun", "done"}

\* A work in progress keeps the lanes of its own updates, of those below it
\* while it waits to be begun, and of what is left below it when it is done.
LanesAreKept ==
  /\ \A f \in Position : stage[f] # "none" => Remaining(f) \subseteq alternate[f].lanes
  /\ \A f \in Position : \A a \in Ancestors[f] :
       /\ stage[a] = "cloned" => AllLanes(f) \subseteq alternate[a].childLanes
       /\ stage[a] = "done" => Remaining(f) \subseteq alternate[a].childLanes

\* The render goes down to every update of its lanes and processes it.
WorkIsReached ==
  /\ \A f \in Position : stage[f] \in {"begun", "done"} /\ Due(f) => f \in processed
  /\ \A f \in Position : \A a \in Ancestors[f] : Due(f) =>
       /\ stage[a] = "begun" =>
            \A c \in Children(a) : c = f \/ c \in Ancestors[f] => stage[c] # "none"
       /\ stage[a] = "done" => f \in processed

IInv == TypeOK /\ UpdatesReachRoot /\ RenderShape /\ LanesAreKept /\ WorkIsReached

-----------------------------------------------------------------------------
(* The tree                                                                  *)

LEMMA ChildOfPosition ==
  ASSUME NEW f \in Position, NEW c \in Children(f)
  PROVE  /\ c \in Position /\ c # f /\ Ancestors[c] = Ancestors[f] \cup {f}
         /\ c \notin Ancestors[f]
<1>1. c \in Position /\ c # Root /\ Return[c] = f
  BY DEF Children
<1>2. Ancestors[c] = Ancestors[f] \cup {f} /\ c \notin Ancestors[c]
  BY <1>1, TreeAssumption
<1> QED BY <1>1, <1>2

LEMMA ChildOnPath ==
  ASSUME NEW f \in Position, NEW a \in Ancestors[f]
  PROVE  /\ a \in Position /\ a # f
         /\ f \in Children(a) \/ \E c \in Children(a) : c \in Ancestors[f]
<1>1. a \in Position /\ a # f
  BY TreeAssumption
<1>2. f # Root
  BY TreeAssumption
<1>3. Return[f] = a \/ \E c \in Position \ {Root} : Return[c] = a /\ c \in Ancestors[f]
  BY TreeAssumption
<1> QED BY <1>1, <1>2, <1>3 DEF Children

-----------------------------------------------------------------------------
(* Fields of fibers                                                          *)

Fibers == [Position -> FiberRecord]

LEMMA MarkedPathFacts ==
  ASSUME NEW fibers \in Fibers, NEW f \in Position, NEW lane \in Lanes
  PROVE  /\ MarkedPath(fibers, f, lane) \in Fibers
         /\ lane \in MarkedPath(fibers, f, lane)[f].lanes
         /\ \A a \in Ancestors[f] : lane \in MarkedPath(fibers, f, lane)[a].childLanes
         /\ \A g \in Position :
              /\ fibers[g].lanes \subseteq MarkedPath(fibers, f, lane)[g].lanes
              /\ fibers[g].childLanes \subseteq MarkedPath(fibers, f, lane)[g].childLanes
<1> DEFINE M == MarkedPath(fibers, f, lane)
<1>1. \A g \in Position : fibers[g] \in FiberRecord
  BY DEF Fibers
<1>2. ASSUME NEW g \in Position
      PROVE  /\ M[g] \in FiberRecord
             /\ fibers[g].lanes \subseteq M[g].lanes
             /\ fibers[g].childLanes \subseteq M[g].childLanes
             /\ g = f => lane \in M[g].lanes
             /\ g # f /\ g \in Ancestors[f] => lane \in M[g].childLanes
  BY <1>1 DEF MarkedPath, FiberRecord
<1>3. M \in Fibers
  BY <1>2 DEF MarkedPath, Fibers
<1>4. \A a \in Ancestors[f] : a \in Position /\ a # f
  BY ChildOnPath
<1> QED BY <1>2, <1>3, <1>4

LEMMA PropagatedFacts ==
  ASSUME NEW fibers \in Fibers, renderLanes \in SUBSET Lanes
  PROVE  /\ Propagated(fibers) \in Fibers
         /\ \A g \in Position :
              /\ fibers[g].lanes \subseteq Propagated(fibers)[g].lanes
              /\ fibers[g].childLanes \subseteq Propagated(fibers)[g].childLanes
<1> DEFINE M == Propagated(fibers)
<1>1. \A g \in Position : fibers[g] \in FiberRecord
  BY DEF Fibers
<1>2. ASSUME NEW g \in Position
      PROVE  /\ M[g] \in FiberRecord
             /\ fibers[g].lanes \subseteq M[g].lanes
             /\ fibers[g].childLanes \subseteq M[g].childLanes
  BY <1>1 DEF Propagated, FiberRecord
<1>3. M \in Fibers
  BY <1>2 DEF Propagated, Fibers
<1> QED BY <1>2, <1>3

LEMMA ProcessQueueFacts ==
  ASSUME TypeOK, NEW f \in Position
  PROVE  /\ ProcessQueue(f) \in Fibers
         /\ ProcessQueue(f)[f].lanes = (queued[f] \ renderLanes) \cup interleaved[f]
         /\ ProcessQueue(f)[f].childLanes = alternate[f].childLanes
         /\ \A g \in Position \ {f} : ProcessQueue(f)[g] = alternate[g]
<1>1. alternate \in Fibers /\ alternate[f] \in FiberRecord
  BY DEF TypeOK, Fibers
<1>2. Read(f) \in 0..MaxValues
  BY BoundsAssumption DEF TypeOK, Read, FiberRecord
<1>3. queued[f] \subseteq Lanes /\ interleaved[f] \subseteq Lanes
  BY DEF TypeOK
<1> HIDE DEF Read
<1> DEFINE new == [alternate[f] EXCEPT !.lanes = (queued[f] \ renderLanes) \cup interleaved[f],
                                       !.seen = Read(f)]
<1>4. ProcessQueue(f) = [alternate EXCEPT ![f] = new]
  BY <1>1 DEF ProcessQueue, Fibers, FiberRecord
<1>5. new \in FiberRecord /\ new.lanes = (queued[f] \ renderLanes) \cup interleaved[f]
        /\ new.childLanes = alternate[f].childLanes
  BY <1>1, <1>2, <1>3 DEF FiberRecord
<1> HIDE DEF new
<1> QED BY <1>1, <1>4, <1>5 DEF Fibers

LEMMA CloneFacts ==
  ASSUME NEW onScreen \in Fibers, NEW fibers \in Fibers, NEW f \in Position
  PROVE  /\ CloneChildrenFrom(onScreen, fibers, f) \in Fibers
         /\ \A c \in Children(f) : CloneChildrenFrom(onScreen, fibers, f)[c] = onScreen[c]
         /\ \A g \in Position \ Children(f) : CloneChildrenFrom(onScreen, fibers, f)[g] = fibers[g]
<1> QED BY DEF CloneChildrenFrom, Fibers, Children

-----------------------------------------------------------------------------
(* beginWork                                                                 *)

Grows(fibers, new, f) ==
  /\ fibers[f].lanes \subseteq new[f].lanes
  /\ fibers[f].childLanes \subseteq new[f].childLanes

\* What all ways to begin f have in common
BeginStep(f) ==
  /\ stage[f] = "cloned"
  /\ processed' \in {processed, processed \cup {f}}
  /\ Due(f) => f \in processed'
  /\ UNCHANGED <<queued, interleaved, renderLanes, pendingLanes>>
  /\ \A g \in Position : Grows(current, current', g)
  /\ Remaining(f)' \subseteq alternate'[f].lanes
  /\ \/ /\ stage' = ChildrenCloned(f)
        /\ \A c \in Children(f) : Grows(current, alternate', c)
        /\ \A g \in Position \ Children(f) :
             /\ alternate[g].childLanes \subseteq alternate'[g].childLanes
             /\ g # f => alternate[g].lanes \subseteq alternate'[g].lanes
     \/ /\ stage' = [stage EXCEPT ![f] = "begun"]
        /\ alternate[f].childLanes \cap renderLanes = {}
        /\ \A g \in Position :
             /\ alternate[g].childLanes \subseteq alternate'[g].childLanes
             /\ g # f => alternate[g].lanes \subseteq alternate'[g].lanes

\* fibers is alternate, or alternate with the queue of f processed.
LEMMA BailOutFacts ==
  ASSUME TypeOK, NEW f \in Position, NEW fibers \in Fibers, BailOut(fibers, f),
         \A g \in Position \ {f} : fibers[g] = alternate[g],
         fibers[f].childLanes = alternate[f].childLanes
  PROVE  /\ alternate' \in Fibers
         /\ alternate'[f].lanes = fibers[f].lanes
         /\ \/ /\ stage' = ChildrenCloned(f)
               /\ \A c \in Children(f) : alternate'[c] = current[c]
               /\ \A g \in Position \ Children(f) :
                    /\ alternate[g].childLanes \subseteq alternate'[g].childLanes
                    /\ g # f => alternate[g].lanes \subseteq alternate'[g].lanes
            \/ /\ stage' = [stage EXCEPT ![f] = "begun"]
               /\ alternate[f].childLanes \cap renderLanes = {}
               /\ \A g \in Position :
                    /\ alternate[g].childLanes \subseteq alternate'[g].childLanes
                    /\ g # f => alternate[g].lanes \subseteq alternate'[g].lanes
<1>1. current \in Fibers
  BY DEF TypeOK, Fibers
<1>2. f \notin Children(f)
  BY ChildOfPosition
<1>3. CASE fibers[f].childLanes \cap renderLanes = {}
  BY <1>3 DEF BailOut
<1>4. CASE fibers[f].childLanes \cap renderLanes # {}
  <2> DEFINE new == CloneChildrenFrom(current, fibers, f)
  <2>1. alternate' = new /\ stage' = ChildrenCloned(f)
    BY <1>4 DEF BailOut, CloneChildren
  <2>2. /\ new \in Fibers
        /\ \A c \in Children(f) : new[c] = current[c]
        /\ \A g \in Position \ Children(f) : new[g] = fibers[g]
    BY <1>1, CloneFacts
  <2> HIDE DEF new
  <2> QED BY <2>1, <2>2, <1>2
<1> QED BY <1>3, <1>4

\* A position that waits to be begun has not been processed, and if nothing of
\* the render's lanes is in its lanes it is not due.
LEMMA ClonedFacts ==
  ASSUME IInv, NEW f \in Position, stage[f] = "cloned"
  PROVE  /\ f \notin processed
         /\ Remaining(f) \subseteq alternate[f].lanes
         /\ \A c \in Children(f) : stage[c] = "none" /\ c \notin processed
         /\ current[f].lanes \cap renderLanes = {} => ~Due(f)
<1>1. f \notin processed
  BY DEF IInv, RenderShape
<1>2. Remaining(f) \subseteq alternate[f].lanes
  BY DEF IInv, LanesAreKept
<1>3. ASSUME NEW c \in Children(f) PROVE stage[c] = "none" /\ c \notin processed
  <2>1. stage[c] = "none"
    BY ChildOfPosition DEF IInv, RenderShape
  <2> QED BY <2>1 DEF IInv, RenderShape
<1>4. queued[f] \subseteq current[f].lanes
  BY DEF IInv, UpdatesReachRoot
<1> QED BY <1>1, <1>2, <1>3, <1>4 DEF Due

LEMMA EarlyBailOutBegins ==
  ASSUME IInv, NEW f \in Position, BeginEarlyBailOut(f)
  PROVE  TypeOK' /\ BeginStep(f)
<1>1. stage[f] = "cloned" /\ current[f].lanes \cap renderLanes = {} /\ BailOut(alternate, f)
      /\ UNCHANGED <<current, newProps, processed, queued, interleaved, renderLanes,
                     pendingLanes, updates>>
  BY DEF BeginEarlyBailOut, HasWork
<1>2. TypeOK /\ alternate \in Fibers
  BY DEF IInv, TypeOK, Fibers
<1>3. alternate' \in Fibers /\ alternate'[f].lanes = alternate[f].lanes
  BY <1>1, <1>2, BailOutFacts
<1>4. stage' = ChildrenCloned(f) \/ stage' = [stage EXCEPT ![f] = "begun"]
  BY <1>1 DEF BailOut
<1>5. TypeOK'
  BY <1>1, <1>2, <1>3, <1>4 DEF TypeOK, Fibers, ChildrenCloned
<1>6. Remaining(f)' = Remaining(f) /\ Due(f)' = Due(f)
  BY <1>1 DEF Remaining, AllLanes, Due
<1>7. Remaining(f)' \subseteq alternate'[f].lanes
  BY <1>1, <1>3, <1>6, ClonedFacts
<1>8. ~Due(f)
  BY <1>1, ClonedFacts
<1>9. /\ \A g \in Position : Grows(current, current', g)
      /\ \A c \in Children(f) : alternate'[c] = current[c] => Grows(current, alternate', c)
  BY <1>1 DEF Grows
<1> QED BY <1>1, <1>2, <1>5, <1>7, <1>8, <1>9, BailOutFacts DEF BeginStep

\* A step that processes the queue of f and leaves its lanes
LEMMA ProcessedKeepsRemaining ==
  ASSUME NEW f \in Position, processed' = processed \cup {f},
         UNCHANGED <<queued, interleaved, renderLanes>>
  PROVE  Remaining(f)' = (queued[f] \ renderLanes) \cup interleaved[f]
<1> QED BY DEF Remaining

LEMMA LateBailOutBegins ==
  ASSUME IInv, NEW f \in Position, stage[f] = "cloned", BailOut(ProcessQueue(f), f),
         processed' = processed \cup {f}, newProps' \in SUBSET Position,
         UNCHANGED <<current, queued, interleaved, renderLanes, pendingLanes, updates>>
  PROVE  TypeOK' /\ BeginStep(f)
<1>1. TypeOK
  BY DEF IInv
<1>2. /\ alternate' \in Fibers
      /\ alternate'[f].lanes = (queued[f] \ renderLanes) \cup interleaved[f]
  BY <1>1, BailOutFacts, ProcessQueueFacts
<1>3. stage' = ChildrenCloned(f) \/ stage' = [stage EXCEPT ![f] = "begun"]
  BY DEF BailOut
<1>4. TypeOK'
  BY <1>1, <1>2, <1>3 DEF TypeOK, Fibers, ChildrenCloned
<1>5. Remaining(f)' \subseteq alternate'[f].lanes
  BY <1>2, ProcessedKeepsRemaining
<1>6. /\ \A g \in Position : Grows(current, current', g)
      /\ \A c \in Children(f) : alternate'[c] = current[c] => Grows(current, alternate', c)
  BY DEF Grows
<1> QED BY <1>1, <1>4, <1>5, <1>6, BailOutFacts, ProcessQueueFacts DEF BeginStep

\* f renders: its children are cloned from onScreen, which is current or has
\* more lanes, the others are those of fibers.
LEMMA RenderBegins ==
  ASSUME IInv, NEW f \in Position, stage[f] = "cloned",
         NEW onScreen \in Fibers, NEW fibers \in Fibers,
         current' = onScreen, \A g \in Position : Grows(current, onScreen, g),
         \A g \in Position : /\ alternate[g].childLanes \subseteq fibers[g].childLanes
                             /\ g # f => alternate[g].lanes \subseteq fibers[g].lanes,
         (queued[f] \ renderLanes) \cup interleaved[f] \subseteq fibers[f].lanes,
         alternate' = CloneChildrenFrom(onScreen, fibers, f),
         stage' = ChildrenCloned(f),
         processed' = processed \cup {f}, newProps' \in SUBSET Position,
         UNCHANGED <<queued, interleaved, renderLanes, pendingLanes, updates>>
  PROVE  TypeOK' /\ BeginStep(f)
<1> DEFINE new == CloneChildrenFrom(onScreen, fibers, f)
<1>1. /\ new \in Fibers
      /\ \A c \in Children(f) : new[c] = onScreen[c]
      /\ \A g \in Position \ Children(f) : new[g] = fibers[g]
  BY CloneFacts
<1>2. TypeOK'
  BY <1>1 DEF IInv, TypeOK, Fibers, ChildrenCloned
<1>3. f \notin Children(f) /\ \A c \in Children(f) : c \in Position
  BY ChildOfPosition
<1>4. Remaining(f)' \subseteq alternate'[f].lanes
  BY <1>1, <1>3, ProcessedKeepsRemaining
<1>5. \A c \in Children(f) : Grows(current, alternate', c)
  BY <1>1, <1>3 DEF Grows
<1> QED BY <1>1, <1>2, <1>4, <1>5 DEF BeginStep

\* Every action that begins f does so in one of these ways.
LEMMA BeginBegins ==
  ASSUME IInv, NEW f \in Position, Begin(f)
  PROVE  TypeOK' /\ BeginStep(f)
<1>1. TypeOK /\ current \in Fibers /\ \A g \in Position : Grows(current, current, g)
  BY DEF IInv, TypeOK, Fibers, Grows
<1>2. CASE BeginEarlyBailOut(f)
  BY <1>2, EarlyBailOutBegins
<1>3. CASE BeginLateBailOut(f)
  <2>1. newProps' \in SUBSET Position
    BY <1>1, <1>3 DEF BeginLateBailOut, TypeOK
  <2> QED BY <1>3, <2>1, LateBailOutBegins DEF BeginLateBailOut
<1>4. ASSUME NEW changed \in SUBSET Position, BeginRender(f, changed)
      PROVE  TypeOK' /\ BeginStep(f)
  <2>1. newProps' \in SUBSET Position
    BY <1>1, <1>4 DEF BeginRender, TypeOK
  <2>2. /\ ProcessQueue(f) \in Fibers
        /\ (queued[f] \ renderLanes) \cup interleaved[f] \subseteq ProcessQueue(f)[f].lanes
        /\ \A g \in Position :
             /\ alternate[g].childLanes \subseteq ProcessQueue(f)[g].childLanes
             /\ g # f => alternate[g].lanes \subseteq ProcessQueue(f)[g].lanes
    BY <1>1, ProcessQueueFacts
  <2>3. /\ stage[f] = "cloned"
        /\ alternate' = CloneChildrenFrom(current, ProcessQueue(f), f)
        /\ stage' = ChildrenCloned(f)
        /\ processed' = processed \cup {f}
        /\ UNCHANGED <<current, queued, interleaved, renderLanes, pendingLanes, updates>>
    BY <1>4 DEF BeginRender, CloneChildren
  <2> QED BY <1>1, <2>1, <2>2, <2>3, RenderBegins
<1> QED BY <1>2, <1>3, <1>4 DEF Begin

LEMMA BeginProviderBegins ==
  ASSUME IInv, BeginProvider
  PROVE  TypeOK' /\ BeginStep(Provider)
<1>1. /\ TypeOK /\ current \in Fibers /\ Provider \in Position
      /\ \A g \in Position : Grows(current, current, g)
  BY BoundsAssumption DEF IInv, TypeOK, Fibers, Grows
<1>2. /\ ProcessQueue(Provider) \in Fibers
      /\ (queued[Provider] \ renderLanes) \cup interleaved[Provider]
           \subseteq ProcessQueue(Provider)[Provider].lanes
      /\ \A g \in Position :
           /\ alternate[g].childLanes \subseteq ProcessQueue(Provider)[g].childLanes
           /\ g # Provider => alternate[g].lanes \subseteq ProcessQueue(Provider)[g].lanes
  BY <1>1, ProcessQueueFacts
<1>3. ASSUME NEW changed \in SUBSET Position, BeginSameValue(changed)
      PROVE  TypeOK' /\ BeginStep(Provider)
  <2>1. /\ stage[Provider] = "cloned"
        /\ newProps' \in SUBSET Position
        /\ processed' = processed \cup {Provider}
        /\ UNCHANGED <<current, queued, interleaved, renderLanes, pendingLanes, updates>>
    BY <1>1, <1>3 DEF BeginSameValue, TypeOK
  <2>2. CASE BailOut(ProcessQueue(Provider), Provider)
    BY <1>1, <2>1, <2>2, LateBailOutBegins
  <2>3. CASE /\ alternate' = CloneChildrenFrom(current, ProcessQueue(Provider), Provider)
             /\ stage' = ChildrenCloned(Provider)
    BY <1>1, <1>2, <2>1, <2>3, RenderBegins
  <2> QED BY <1>3, <2>2, <2>3 DEF BeginSameValue, CloneChildren
<1>4. ASSUME NEW value \in 0..MaxValues, NEW changed \in SUBSET Position,
             BeginNewValue(value, changed)
      PROVE  TypeOK' /\ BeginStep(Provider)
  <2> DEFINE onScreen == Propagated(current)
             read == [ProcessQueue(Provider) EXCEPT ![Provider].seen = value]
             fibers == Propagated(read)
  <2>1. /\ stage[Provider] = "cloned"
        /\ newProps' \in SUBSET Position
        /\ processed' = processed \cup {Provider}
        /\ UNCHANGED <<queued, interleaved, renderLanes, pendingLanes, updates>>
    BY <1>1, <1>4 DEF BeginNewValue, TypeOK
  <2>2. /\ current' = onScreen
        /\ alternate' = CloneChildrenFrom(onScreen, fibers, Provider)
        /\ stage' = ChildrenCloned(Provider)
    BY <1>4 DEF BeginNewValue
  <2>3. /\ read \in Fibers
        /\ \A g \in Position : /\ read[g].lanes = ProcessQueue(Provider)[g].lanes
                               /\ read[g].childLanes = ProcessQueue(Provider)[g].childLanes
    <3> DEFINE old == ProcessQueue(Provider)
    <3>1. old \in [Position -> FiberRecord]
      BY <1>2 DEF Fibers
    <3> HIDE DEF old
    <3>2. /\ [old EXCEPT ![Provider].seen = value] \in [Position -> FiberRecord]
          /\ \A g \in Position :
               /\ [old EXCEPT ![Provider].seen = value][g].lanes = old[g].lanes
               /\ [old EXCEPT ![Provider].seen = value][g].childLanes = old[g].childLanes
      BY <3>1, <1>1 DEF FiberRecord
    <3> QED BY <3>2 DEF Fibers, old
  <2>4. renderLanes \in SUBSET Lanes
    BY <1>1 DEF TypeOK
  <2> HIDE DEF read
  <2>5. /\ onScreen \in Fibers /\ fibers \in Fibers
        /\ \A g \in Position : Grows(current, onScreen, g) /\ Grows(read, fibers, g)
    BY <1>1, <2>3, <2>4, PropagatedFacts DEF Grows
  <2> HIDE DEF onScreen, fibers
  <2>6. /\ (queued[Provider] \ renderLanes) \cup interleaved[Provider]
             \subseteq fibers[Provider].lanes
        /\ \A g \in Position :
             /\ alternate[g].childLanes \subseteq fibers[g].childLanes
             /\ g # Provider => alternate[g].lanes \subseteq fibers[g].lanes
    BY <1>1, <1>2, <2>3, <2>5 DEF Grows
  <2> QED BY <1>1, <2>1, <2>2, <2>5, <2>6, RenderBegins
<1> QED BY <1>3, <1>4 DEF BeginProvider

\* The tree on screen only gains lanes while a position is begun.
LEMMA BeginKeepsUpdatesReachRoot ==
  ASSUME IInv, NEW f \in Position, BeginStep(f)
  PROVE  UpdatesReachRoot'
<1>1. ASSUME NEW g \in Position, NEW lane \in queued'[g] \cup interleaved'[g]
      PROVE  /\ lane \in current'[g].lanes
             /\ \A a \in Ancestors[g] : lane \in current'[a].childLanes
             /\ lane \in pendingLanes'
  <2>1. lane \in queued[g] \cup interleaved[g]
    BY DEF BeginStep
  <2>2. /\ lane \in current[g].lanes
        /\ \A a \in Ancestors[g] : lane \in current[a].childLanes
        /\ lane \in pendingLanes
    BY <2>1 DEF IInv, UpdatesReachRoot
  <2>3. \A a \in Ancestors[g] : a \in Position
    BY ChildOnPath
  <2> QED BY <2>2, <2>3 DEF BeginStep, Grows
<1> QED BY <1>1 DEF UpdatesReachRoot

\* Which positions a step that begins f may change the stage of
LEMMA BegunStages ==
  ASSUME IInv, NEW f \in Position, BeginStep(f)
  PROVE  /\ stage'[f] = "begun"
         /\ \A g \in Position \ {f} :
              \/ stage'[g] = stage[g]
              \/ g \in Children(f) /\ stage[g] = "none" /\ stage'[g] = "cloned"
         /\ stage' = ChildrenCloned(f) => \A c \in Children(f) : stage'[c] = "cloned"
<1>1. \A c \in Children(f) : c \in Position /\ c # f /\ stage[c] = "none"
  BY ChildOfPosition, ClonedFacts DEF BeginStep
<1>2. stage \in [Position -> {"none", "cloned", "begun", "done"}]
  BY DEF IInv, TypeOK
<1> QED BY <1>1, <1>2 DEF BeginStep, ChildrenCloned

LEMMA BeginKeepsRenderShape ==
  ASSUME IInv, NEW f \in Position, BeginStep(f)
  PROVE  RenderShape'
<1>1. ASSUME NEW g \in Position, NEW a \in Ancestors[g]
      PROVE  /\ stage'[a] \in {"none", "cloned"} => stage'[g] = "none"
             /\ stage'[a] = "done" => stage'[g] \in {"none", "done"}
  <2>1. /\ a \in Position
        /\ stage[a] \in {"none", "cloned"} => stage[g] = "none"
        /\ stage[a] = "done" => stage[g] \in {"none", "done"}
    BY ChildOnPath DEF IInv, RenderShape
  <2>2. stage[f] = "cloned"
    BY DEF BeginStep
  <2>3. CASE stage'[g] = stage[g] /\ g # f
    BY <2>1, <2>3, BegunStages
  <2>4. CASE g = f
    BY <2>1, <2>2, <2>4, BegunStages
  <2>5. CASE g \in Children(f) /\ stage'[g] = "cloned"
    <3>1. a = f \/ a \in Ancestors[f]
      BY <2>5, ChildOfPosition
    <3>2. a # f => stage[a] \notin {"none", "cloned", "done"}
      BY <3>1, <2>2 DEF IInv, RenderShape
    <3> QED BY <2>1, <2>5, <3>1, <3>2, BegunStages
  <2> QED BY <2>3, <2>4, <2>5, BegunStages
<1>2. \A g \in processed' : stage'[g] \in {"begun", "done"}
  <2>1. \A g \in processed : g \in Position /\ stage[g] \in {"begun", "done"}
    BY DEF IInv, TypeOK, RenderShape
  <2> QED BY <2>1, BegunStages DEF BeginStep
<1> QED BY <1>1, <1>2 DEF RenderShape

LEMMA BeginKeepsLanes ==
  ASSUME IInv, NEW f \in Position, BeginStep(f)
  PROVE  LanesAreKept'
<1>1. \A g \in Position :
        /\ AllLanes(g)' = AllLanes(g) /\ Remaining(g)' \subseteq Remaining(g)
        /\ Remaining(g) \subseteq AllLanes(g)
  BY DEF BeginStep, AllLanes, Remaining
<1>2. \A g \in Position :
        /\ AllLanes(g) \subseteq current[g].lanes
        /\ \A a \in Ancestors[g] : AllLanes(g) \subseteq current[a].childLanes
  BY DEF IInv, UpdatesReachRoot, AllLanes
<1>3. ASSUME NEW g \in Position, stage'[g] # "none"
      PROVE  Remaining(g)' \subseteq alternate'[g].lanes
  <2>1. CASE g = f
    BY <2>1 DEF BeginStep
  <2>2. CASE g # f /\ stage'[g] = stage[g]
    <3>1. g \notin Children(f)
      BY <1>3, <2>2, ClonedFacts DEF BeginStep
    <3>2. Remaining(g) \subseteq alternate[g].lanes
      BY <1>3, <2>2 DEF IInv, LanesAreKept
    <3>3. alternate[g].lanes \subseteq alternate'[g].lanes
      BY <2>2, <3>1 DEF BeginStep
    <3> QED BY <1>1, <3>2, <3>3
  <2>3. CASE g \in Children(f) /\ stage[g] = "none" /\ stage'[g] = "cloned"
    <3>1. stage' = ChildrenCloned(f)
      <4>1. g # f
        BY <2>3, ChildOfPosition
      <4> QED BY <2>3, <4>1 DEF BeginStep, IInv, TypeOK
    <3>2. Grows(current, alternate', g)
      <4>1. stage' # [stage EXCEPT ![f] = "begun"]
        BY <2>3, ChildOfPosition DEF IInv, TypeOK
      <4> QED BY <2>3, <4>1 DEF BeginStep
    <3> QED BY <1>1, <1>2, <3>2 DEF Grows
  <2> QED BY <2>1, <2>2, <2>3, BegunStages
<1>4. ASSUME NEW g \in Position, NEW a \in Ancestors[g], stage'[a] \in {"cloned", "done"}
      PROVE  /\ stage'[a] = "cloned" => AllLanes(g)' \subseteq alternate'[a].childLanes
             /\ stage'[a] = "done" => Remaining(g)' \subseteq alternate'[a].childLanes
  <2>1. a \in Position /\ a # f
    BY <1>4, ChildOnPath, BegunStages
  <2>2. CASE stage'[a] = stage[a]
    <3>1. a \notin Children(f)
      BY <1>4, <2>2, ClonedFacts DEF BeginStep
    <3>2. alternate[a].childLanes \subseteq alternate'[a].childLanes
      BY <2>1, <3>1 DEF BeginStep
    <3>3. /\ stage[a] = "cloned" => AllLanes(g) \subseteq alternate[a].childLanes
          /\ stage[a] = "done" => Remaining(g) \subseteq alternate[a].childLanes
      BY DEF IInv, LanesAreKept
    <3> QED BY <1>1, <2>2, <3>2, <3>3
  <2>3. CASE a \in Children(f) /\ stage[a] = "none" /\ stage'[a] = "cloned"
    <3>1. stage' # [stage EXCEPT ![f] = "begun"]
      BY <2>1, <2>3 DEF IInv, TypeOK
    <3>2. Grows(current, alternate', a)
      BY <2>3, <3>1 DEF BeginStep
    <3> QED BY <1>1, <1>2, <2>3, <3>2 DEF Grows
  <2> QED BY <2>1, <2>2, <2>3, BegunStages
<1>5. \A g \in Position : \A a \in Ancestors[g] :
        /\ stage'[a] = "cloned" => AllLanes(g)' \subseteq alternate'[a].childLanes
        /\ stage'[a] = "done" => Remaining(g)' \subseteq alternate'[a].childLanes
  BY <1>4
<1> QED BY <1>3, <1>5 DEF LanesAreKept

\* If f bails out without its children, nothing of the render's lanes is below it.
LEMMA BeginKeepsWorkReached ==
  ASSUME IInv, NEW f \in Position, BeginStep(f)
  PROVE  WorkIsReached'
<1>1. \A g \in Position : Due(g)' <=> Due(g)
  BY DEF BeginStep, Due
<1>2. processed \subseteq processed'
  BY DEF BeginStep
<1>3. ASSUME NEW g \in Position, stage'[g] \in {"begun", "done"}, Due(g)
      PROVE  g \in processed'
  <2>1. CASE g = f
    BY <1>3, <2>1 DEF BeginStep
  <2>2. CASE g # f
    <3>1. stage[g] \in {"begun", "done"}
      BY <1>3, <2>2, BegunStages
    <3> QED BY <1>2, <1>3, <3>1 DEF IInv, WorkIsReached
  <2> QED BY <2>1, <2>2
<1>4. ASSUME NEW g \in Position, NEW a \in Ancestors[g], Due(g), stage'[a] = "done"
      PROVE  g \in processed'
  <2>1. stage[a] = "done"
    BY <1>4, ChildOnPath, BegunStages
  <2> QED BY <1>2, <1>4, <2>1 DEF IInv, WorkIsReached
<1>5. ASSUME NEW g \in Position, NEW a \in Ancestors[g], Due(g), stage'[a] = "begun",
             NEW c \in Children(a), c = g \/ c \in Ancestors[g]
      PROVE  stage'[c] # "none"
  <2>1. a \in Position /\ c \in Position
    BY ChildOnPath, ChildOfPosition
  <2>2. CASE a = f
    <3>1. CASE stage' = ChildrenCloned(f)
      BY <2>2, <3>1, BegunStages
    <3>2. CASE alternate[f].childLanes \cap renderLanes = {}
      <4>1. queued[g] \subseteq alternate[f].childLanes
        BY <2>2 DEF BeginStep, IInv, LanesAreKept, AllLanes
      <4> QED BY <1>5, <3>2, <4>1 DEF Due
    <3> QED BY <3>1, <3>2 DEF BeginStep
  <2>3. CASE a # f
    <3>1. stage[a] = "begun"
      BY <1>5, <2>1, <2>3, BegunStages
    <3>2. stage[c] # "none"
      BY <1>5, <3>1 DEF IInv, WorkIsReached
    <3> QED BY <2>1, <3>2, BegunStages
  <2> QED BY <2>2, <2>3
<1>6. \A g \in Position : stage'[g] \in {"begun", "done"} /\ Due(g)' => g \in processed'
  BY <1>1, <1>3
<1>7. \A g \in Position : \A a \in Ancestors[g] : Due(g)' =>
        /\ stage'[a] = "begun" =>
             \A c \in Children(a) : c = g \/ c \in Ancestors[g] => stage'[c] # "none"
        /\ stage'[a] = "done" => g \in processed'
  BY <1>1, <1>4, <1>5
<1> QED BY <1>6, <1>7 DEF WorkIsReached, Children

LEMMA BeginPreserves ==
  ASSUME IInv, NEW f \in Position, TypeOK', BeginStep(f)
  PROVE  IInv'
<1> QED BY BeginKeepsUpdatesReachRoot, BeginKeepsRenderShape, BeginKeepsLanes,
           BeginKeepsWorkReached DEF IInv

-----------------------------------------------------------------------------
(* The other actions                                                         *)

\* Both fibers of the path are marked, so that the update is known whichever
\* of them is on screen after the render in progress.
LEMMA UpdatePreserves ==
  ASSUME IInv, NEW f \in Position, NEW lane \in Lanes, Update(f, lane)
  PROVE  IInv'
<1>1. TypeOK /\ current \in Fibers /\ alternate \in Fibers
  BY DEF IInv, TypeOK, Fibers
<1> DEFINE seen == MarkedPath(current, f, lane)
           wip == MarkedPath(alternate, f, lane)
<1>2. /\ current' = seen /\ alternate' = wip
      /\ interleaved' = [interleaved EXCEPT ![f] = @ \cup {lane}]
      /\ pendingLanes' = pendingLanes \cup {lane}
      /\ UNCHANGED <<stage, newProps, processed, queued, renderLanes>>
      /\ updates < MaxUpdates /\ updates' = updates + 1
  BY DEF Update
<1>3. /\ seen \in Fibers /\ lane \in seen[f].lanes
      /\ \A a \in Ancestors[f] : lane \in seen[a].childLanes
      /\ \A g \in Position : Grows(current, seen, g)
  BY <1>1, MarkedPathFacts DEF Grows
<1>4. /\ wip \in Fibers /\ lane \in wip[f].lanes
      /\ \A a \in Ancestors[f] : lane \in wip[a].childLanes
      /\ \A g \in Position : Grows(alternate, wip, g)
  BY <1>1, MarkedPathFacts DEF Grows
<1> HIDE DEF seen, wip
<1>5. TypeOK'
  <2>1. updates' \in 0..MaxUpdates
    BY <1>1, <1>2, BoundsAssumption DEF TypeOK
  <2>2. /\ interleaved' \in [Position -> SUBSET Lanes]
        /\ pendingLanes' \in SUBSET Lanes
    BY <1>1, <1>2 DEF TypeOK
  <2> QED BY <1>1, <1>2, <1>3, <1>4, <2>1, <2>2 DEF TypeOK, Fibers
<1>6. /\ \A g \in Position : interleaved'[g] = interleaved[g] \/ g = f
      /\ interleaved'[f] = interleaved[f] \cup {lane}
  BY <1>1, <1>2 DEF TypeOK
<1>7. UpdatesReachRoot'
  <2>1. ASSUME NEW g \in Position, NEW l \in queued'[g] \cup interleaved'[g]
        PROVE  /\ l \in current'[g].lanes
               /\ \A a \in Ancestors[g] : l \in current'[a].childLanes
               /\ l \in pendingLanes'
    <3>1. l \in queued[g] \cup interleaved[g] \/ (g = f /\ l = lane)
      BY <1>2, <1>6
    <3>2. CASE l \in queued[g] \cup interleaved[g]
      BY <1>2, <1>3, <3>2, ChildOnPath DEF IInv, UpdatesReachRoot, Grows
    <3>3. CASE g = f /\ l = lane
      BY <1>2, <1>3, <3>3
    <3> QED BY <3>1, <3>2, <3>3
  <2> QED BY <2>1 DEF UpdatesReachRoot
<1>8. \A g \in Position :
        /\ AllLanes(g)' = IF g = f THEN AllLanes(g) \cup {lane} ELSE AllLanes(g)
        /\ Remaining(g)' = IF g = f THEN Remaining(g) \cup {lane} ELSE Remaining(g)
        /\ Due(g)' <=> Due(g)
  BY <1>2, <1>6 DEF AllLanes, Remaining, Due
<1>9. LanesAreKept'
  <2>1. \A g \in Position : stage'[g] # "none" => Remaining(g)' \subseteq alternate'[g].lanes
    BY <1>2, <1>4, <1>8 DEF IInv, LanesAreKept, Grows
  <2>2. ASSUME NEW g \in Position, NEW a \in Ancestors[g]
        PROVE  /\ stage'[a] = "cloned" => AllLanes(g)' \subseteq alternate'[a].childLanes
               /\ stage'[a] = "done" => Remaining(g)' \subseteq alternate'[a].childLanes
    <3>1. /\ stage[a] = "cloned" => AllLanes(g) \subseteq alternate[a].childLanes
          /\ stage[a] = "done" => Remaining(g) \subseteq alternate[a].childLanes
      BY DEF IInv, LanesAreKept
    <3>2. a \in Position /\ alternate[a].childLanes \subseteq wip[a].childLanes
      BY <1>4, ChildOnPath DEF Grows
    <3> QED BY <1>2, <1>4, <1>8, <3>1, <3>2
  <2> QED BY <2>1, <2>2 DEF LanesAreKept
<1>10. RenderShape' /\ WorkIsReached'
  BY <1>2, <1>8 DEF IInv, RenderShape, WorkIsReached, Children
<1> QED BY <1>5, <1>7, <1>9, <1>10 DEF IInv

LEMMA PrepareFreshStackPreserves ==
  ASSUME IInv, NEW lanes \in SUBSET pendingLanes, PrepareFreshStack(lanes)
  PROVE  IInv'
<1>1. TypeOK
  BY DEF IInv
<1>2. /\ renderLanes' = lanes
      /\ queued' = [f \in Position |-> queued[f] \cup interleaved[f]]
      /\ interleaved' = [f \in Position |-> {}]
      /\ alternate' = [alternate EXCEPT ![Root] = current[Root]]
      /\ stage' = [f \in Position |-> IF f = Root THEN "cloned" ELSE "none"]
      /\ newProps' = {} /\ processed' = {}
      /\ UNCHANGED <<current, pendingLanes, updates>>
  BY DEF PrepareFreshStack
<1>3. Root \in Position /\ Ancestors[Root] = {}
  BY TreeAssumption
<1>4. TypeOK'
  BY <1>1, <1>2, <1>3 DEF TypeOK
<1>5. alternate'[Root] = current[Root]
  BY <1>1, <1>2, <1>3 DEF TypeOK
<1>6. \A f \in Position : /\ queued'[f] \cup interleaved'[f] = AllLanes(f)
                          /\ AllLanes(f)' = AllLanes(f) /\ Remaining(f)' = AllLanes(f)
  BY <1>2 DEF AllLanes, Remaining
<1>7. \A f \in Position : \A a \in Ancestors[f] : a \in Position
  BY ChildOnPath
<1>8. UpdatesReachRoot'
  BY <1>2, <1>6 DEF IInv, UpdatesReachRoot, AllLanes
<1>9. RenderShape'
  BY <1>2, <1>3, <1>7 DEF RenderShape
<1>10. LanesAreKept'
  <2>1. \A f \in Position : /\ AllLanes(f) \subseteq current[f].lanes
                            /\ \A a \in Ancestors[f] : AllLanes(f) \subseteq current[a].childLanes
    BY DEF IInv, UpdatesReachRoot, AllLanes
  <2> QED BY <1>2, <1>3, <1>5, <1>6, <1>7, <2>1 DEF LanesAreKept
<1>11. WorkIsReached'
  BY <1>2, <1>3, <1>7 DEF WorkIsReached
<1> QED BY <1>4, <1>8, <1>9, <1>10, <1>11 DEF IInv

\* A child whose stage is "none" keeps the fiber on screen, which knows all lanes
\* below it; the others are done and know what is left.
LEMMA CompleteWorkPreserves ==
  ASSUME IInv, NEW f \in Position, CompleteWork(f)
  PROVE  IInv'
<1>1. TypeOK
  BY DEF IInv
<1>2. /\ stage[f] = "begun"
      /\ \A c \in Children(f) : stage[c] \in {"none", "done"}
      /\ alternate' = [alternate EXCEPT ![f].childLanes = Bubbled(f)]
      /\ stage' = [stage EXCEPT ![f] = "done"]
      /\ UNCHANGED <<current, newProps, processed, queued, interleaved, renderLanes,
                     pendingLanes, updates>>
  BY DEF CompleteWork
<1>3. Bubbled(f) \subseteq Lanes
  <2>1. \A c \in Children(f) : InFinishedTree(c) \in FiberRecord
    BY <1>1, ChildOfPosition DEF TypeOK, InFinishedTree
  <2>2. \A c \in Children(f) : /\ InFinishedTree(c).lanes \subseteq Lanes
                               /\ InFinishedTree(c).childLanes \subseteq Lanes
    BY <2>1 DEF FiberRecord
  <2> QED BY <2>2 DEF Bubbled
<1>4. /\ alternate' \in [Position -> FiberRecord]
      /\ alternate'[f].childLanes = Bubbled(f)
      /\ \A g \in Position : /\ alternate'[g].lanes = alternate[g].lanes
                             /\ g # f => alternate'[g] = alternate[g]
  <2> HIDE DEF Bubbled
  <2> QED BY <1>1, <1>2, <1>3 DEF TypeOK, FiberRecord
<1>5. /\ stage'[f] = "done" /\ stage' \in [Position -> {"none", "cloned", "begun", "done"}]
      /\ \A g \in Position \ {f} : stage'[g] = stage[g]
  BY <1>1, <1>2 DEF TypeOK
<1>6. TypeOK'
  BY <1>1, <1>2, <1>4, <1>5 DEF TypeOK
<1>7. \A g \in Position : /\ AllLanes(g)' = AllLanes(g) /\ Remaining(g)' = Remaining(g)
                          /\ Due(g)' <=> Due(g)
                          /\ Remaining(g) \subseteq AllLanes(g)
  BY <1>2 DEF AllLanes, Remaining, Due
<1>8. UpdatesReachRoot'
  BY <1>2 DEF IInv, UpdatesReachRoot
<1>9. ASSUME NEW g \in Position, f \in Ancestors[g]
      PROVE  \E c \in Children(f) : (c = g \/ c \in Ancestors[g]) /\ stage[c] \in {"none", "done"}
  BY <1>2, <1>9, ChildOnPath
<1>10. RenderShape'
  <2>1. ASSUME NEW g \in Position, NEW a \in Ancestors[g]
        PROVE  /\ stage'[a] \in {"none", "cloned"} => stage'[g] = "none"
               /\ stage'[a] = "done" => stage'[g] \in {"none", "done"}
    <3>1. /\ a \in Position /\ a # g
          /\ stage[a] \in {"none", "cloned"} => stage[g] = "none"
          /\ stage[a] = "done" => stage[g] \in {"none", "done"}
      BY ChildOnPath DEF IInv, RenderShape
    <3>2. CASE a = f
      <4>1. PICK c \in Children(f) :
              (c = g \/ c \in Ancestors[g]) /\ stage[c] \in {"none", "done"}
        BY <1>9, <3>2
      <4>2. stage[g] \in {"none", "done"}
        BY <4>1 DEF IInv, RenderShape
      <4> QED BY <1>5, <3>1, <3>2, <4>2
    <3>3. CASE a # f
      BY <1>2, <1>5, <3>1, <3>3
    <3> QED BY <3>2, <3>3
  <2>2. \A g \in processed' : stage'[g] \in {"begun", "done"}
    BY <1>1, <1>2, <1>5 DEF IInv, RenderShape, TypeOK
  <2> QED BY <2>1, <2>2 DEF RenderShape
<1>11. ASSUME NEW g \in Position, f \in Ancestors[g]
       PROVE  Remaining(g) \subseteq alternate'[f].childLanes
  <2>1. PICK c \in Children(f) :
          (c = g \/ c \in Ancestors[g]) /\ stage[c] \in {"none", "done"}
    BY <1>9, <1>11
  <2>2. c \in Position
    BY ChildOfPosition
  <2>3. Remaining(g) \subseteq InFinishedTree(c).lanes \cup InFinishedTree(c).childLanes
    <3>1. CASE stage[c] = "none"
      BY <1>7, <2>1, <3>1 DEF IInv, UpdatesReachRoot, InFinishedTree, AllLanes
    <3>2. CASE stage[c] = "done"
      BY <2>1, <2>2, <3>2 DEF IInv, LanesAreKept, InFinishedTree
    <3> QED BY <2>1, <3>1, <3>2
  <2> QED BY <1>4, <2>3 DEF Bubbled
<1>12. LanesAreKept'
  <2>1. \A g \in Position : stage'[g] # "none" => Remaining(g)' \subseteq alternate'[g].lanes
    BY <1>2, <1>4, <1>5, <1>7 DEF IInv, LanesAreKept
  <2>2. ASSUME NEW g \in Position, NEW a \in Ancestors[g]
        PROVE  /\ stage'[a] = "cloned" => AllLanes(g)' \subseteq alternate'[a].childLanes
               /\ stage'[a] = "done" => Remaining(g)' \subseteq alternate'[a].childLanes
    <3>1. a \in Position
      BY ChildOnPath
    <3>2. CASE a = f
      BY <1>5, <1>7, <1>11, <3>2
    <3>3. CASE a # f
      BY <1>4, <1>5, <1>7, <3>1, <3>3 DEF IInv, LanesAreKept
    <3> QED BY <3>2, <3>3
  <2> QED BY <2>1, <2>2 DEF LanesAreKept
<1>13. WorkIsReached'
  <2>1. \A g \in Position : stage'[g] \in {"begun", "done"} /\ Due(g)' => g \in processed'
    BY <1>2, <1>5, <1>7 DEF IInv, WorkIsReached
  <2>2. ASSUME NEW g \in Position, NEW a \in Ancestors[g], Due(g)
        PROVE  /\ stage'[a] = "begun" =>
                    \A c \in Children(a) : c = g \/ c \in Ancestors[g] => stage'[c] # "none"
               /\ stage'[a] = "done" => g \in processed'
    <3>1. a \in Position
      BY ChildOnPath
    <3>2. CASE a = f
      <4>1. PICK c \in Children(f) :
              (c = g \/ c \in Ancestors[g]) /\ stage[c] \in {"none", "done"}
        BY <1>9, <3>2
      <4>2. stage[c] = "done"
        BY <1>2, <2>2, <3>2, <4>1 DEF IInv, WorkIsReached
      <4>3. g \in processed
        BY <2>2, <4>1, <4>2 DEF IInv, WorkIsReached
      <4> QED BY <1>2, <1>5, <3>2, <4>3
    <3>3. CASE a # f
      <4>1. stage'[a] = stage[a] /\ \A c \in Children(a) : c \in Position /\
              (stage[c] # "none" => stage'[c] # "none")
        BY <1>5, <3>1, <3>3, ChildOfPosition
      <4> QED BY <1>2, <2>2, <4>1 DEF IInv, WorkIsReached
    <3> QED BY <3>2, <3>3
  <2> QED BY <1>7, <2>1, <2>2 DEF WorkIsReached, Children
<1> QED BY <1>6, <1>8, <1>10, <1>12, <1>13 DEF IInv

\* The lanes that the finished tree has are those that are left.
LEMMA CommitPreserves ==
  ASSUME IInv, Commit
  PROVE  IInv'
<1>1. TypeOK
  BY DEF IInv
<1>2. /\ stage[Root] = "done"
      /\ current' = [f \in Position |-> InFinishedTree(f)]
      /\ alternate' =
           [f \in Position |-> IF stage[f] = "none" THEN alternate[f] ELSE current[f]]
      /\ pendingLanes' = alternate[Root].lanes \cup alternate[Root].childLanes
      /\ queued' =
           [f \in Position |-> IF f \in processed THEN queued[f] \ renderLanes ELSE queued[f]]
      /\ stage' = [f \in Position |-> "none"]
      /\ newProps' = {} /\ processed' = {} /\ renderLanes' = {}
      /\ UNCHANGED <<interleaved, updates>>
  BY DEF Commit
<1>3. \A f \in Position : InFinishedTree(f) \in FiberRecord
  BY <1>1 DEF TypeOK, InFinishedTree
<1>4. Root \in Position
  BY TreeAssumption
<1>5. TypeOK'
  <2>1. pendingLanes' \subseteq Lanes
    BY <1>1, <1>2, <1>4 DEF TypeOK, FiberRecord
  <2>2. current' \in [Position -> FiberRecord] /\ alternate' \in [Position -> FiberRecord]
    <3> HIDE DEF InFinishedTree, FiberRecord
    <3> QED BY <1>1, <1>2, <1>3 DEF TypeOK
  <2>3. queued' \in [Position -> SUBSET Lanes] /\ interleaved' \in [Position -> SUBSET Lanes]
        /\ stage' \in [Position -> {"none", "cloned", "begun", "done"}]
    BY <1>1, <1>2 DEF TypeOK
  <2> QED BY <1>1, <1>2, <2>1, <2>2, <2>3 DEF TypeOK
<1>6. \A f \in Position : stage[f] \in {"none", "done"}
  BY <1>2, TreeAssumption DEF IInv, RenderShape
<1>7. ASSUME NEW f \in Position
      PROVE  /\ queued'[f] \cup interleaved'[f] = Remaining(f)
             /\ Remaining(f) \subseteq AllLanes(f)
             /\ stage[f] = "none" => Remaining(f) = AllLanes(f)
             /\ AllLanes(f) \subseteq current[f].lanes
             /\ \A a \in Ancestors[f] : AllLanes(f) \subseteq current[a].childLanes
  <2>1. stage[f] = "none" => f \notin processed
    BY DEF IInv, RenderShape
  <2> QED BY <1>2, <2>1 DEF Remaining, AllLanes, IInv, UpdatesReachRoot
<1>8. ASSUME NEW f \in Position
      PROVE  /\ Remaining(f) \subseteq current'[f].lanes
             /\ Remaining(f) \subseteq pendingLanes'
  <2>1. Remaining(f) \subseteq current'[f].lanes
    BY <1>2, <1>7 DEF IInv, LanesAreKept, InFinishedTree
  <2>2. Remaining(f) \subseteq alternate[Root].lanes \cup alternate[Root].childLanes
    <3>1. CASE f = Root
      <4>1. stage[f] # "none"
        BY <1>2, <3>1
      <4>2. Remaining(f) \subseteq alternate[f].lanes
        BY <4>1 DEF IInv, LanesAreKept
      <4> QED BY <3>1, <4>2
    <3>2. CASE f # Root
      <4>1. Root \in Ancestors[f]
        BY <3>2, TreeAssumption
      <4>2. Remaining(f) \subseteq alternate[Root].childLanes
        BY <1>2, <4>1 DEF IInv, LanesAreKept
      <4> QED BY <4>2
    <3> QED BY <3>1, <3>2
  <2> QED BY <1>2, <2>1, <2>2
<1>9. ASSUME NEW f \in Position, NEW a \in Ancestors[f]
      PROVE  Remaining(f) \subseteq current'[a].childLanes
  <2>1. a \in Position
    BY ChildOnPath
  <2>2. current'[a] = InFinishedTree(a)
    BY <1>2, <2>1
  <2>3. CASE stage[a] = "none"
    BY <1>7, <2>2, <2>3 DEF InFinishedTree
  <2>4. CASE stage[a] = "done"
    BY <2>2, <2>4 DEF InFinishedTree, IInv, LanesAreKept
  <2> QED BY <1>6, <2>1, <2>3, <2>4
<1>10. UpdatesReachRoot'
  BY <1>7, <1>8, <1>9 DEF UpdatesReachRoot
<1>11. \A f \in Position : \A a \in Ancestors[f] : a \in Position
  BY ChildOnPath
<1>12. RenderShape' /\ LanesAreKept' /\ WorkIsReached'
  BY <1>2, <1>11 DEF RenderShape, LanesAreKept, WorkIsReached
<1> QED BY <1>5, <1>10, <1>12 DEF IInv

-----------------------------------------------------------------------------
LEMMA InitEstablishes == Init => IInv
<1> SUFFICES ASSUME Init PROVE IInv
  OBVIOUS
<1>1. \A f \in Position : \A a \in Ancestors[f] : a \in Position
  BY ChildOnPath
<1>2. TypeOK
  BY BoundsAssumption DEF Init, TypeOK, FiberRecord
<1>3. UpdatesReachRoot
  BY DEF Init, UpdatesReachRoot
<1>4. RenderShape /\ LanesAreKept /\ WorkIsReached
  BY <1>1 DEF Init, RenderShape, LanesAreKept, WorkIsReached
<1> QED BY <1>2, <1>3, <1>4 DEF IInv

LEMMA NextPreserves == IInv /\ [Next]_vars => IInv'
<1> SUFFICES ASSUME IInv, [Next]_vars PROVE IInv'
  OBVIOUS
<1>1. ASSUME NEW f \in Position, NEW lane \in Lanes, Update(f, lane) PROVE IInv'
  BY <1>1, UpdatePreserves
<1>2. ASSUME NEW lanes \in (SUBSET pendingLanes) \ {{}}, PrepareFreshStack(lanes) PROVE IInv'
  BY <1>2, PrepareFreshStackPreserves
<1>3. ASSUME NEW f \in Position, Begin(f) PROVE IInv'
  BY <1>3, BeginBegins, BeginPreserves
<1>4. CASE BeginProvider
  BY <1>4, BeginProviderBegins, BeginPreserves, BoundsAssumption
<1>5. ASSUME NEW f \in Position, CompleteWork(f) PROVE IInv'
  BY <1>5, CompleteWorkPreserves
<1>6. CASE Commit
  BY <1>6, CommitPreserves
<1>7. CASE UNCHANGED vars
  BY <1>7 DEF vars, IInv, TypeOK, UpdatesReachRoot, RenderShape, LanesAreKept,
              WorkIsReached, Remaining, AllLanes, Due
<1> QED BY <1>1, <1>2, <1>3, <1>4, <1>5, <1>6, <1>7 DEF Next

LEMMA Invariance == Spec => []IInv
<1> QED BY InitEstablishes, NextPreserves, PTL DEF Spec

\* Every fiber has lanes, childLanes and a context value at every step.
THEOREM TypeCorrectness == Spec => []TypeOK
<1>1. IInv => TypeOK
  BY DEF IInv
<1> QED BY <1>1, Invariance, PTL

\* markUpdateLaneFromFiberToRoot, bailouts, bubbleProperties and commits, in any
\* tree and any order, leave every queued update known up to the root.
THEOREM UpdatesAreNotLost == Spec => []UpdatesReachRoot
<1>1. IInv => UpdatesReachRoot
  BY DEF IInv
<1> QED BY <1>1, Invariance, PTL

\* A render that is finished has processed every update of its lanes that was
\* queued before it began, in any tree.
THEOREM BatchIsWhole == Spec => []BatchIsRenderedWhole
<1>1. IInv => BatchIsRenderedWhole
  <2> SUFFICES ASSUME IInv, stage[Root] = "done", NEW f \in Position, Due(f)
               PROVE  f \in processed
    BY DEF BatchIsRenderedWhole, Due
  <2>1. CASE f = Root
    BY <2>1 DEF IInv, WorkIsReached
  <2>2. CASE f # Root
    <3>1. Root \in Ancestors[f]
      BY <2>2, TreeAssumption
    <3> QED BY <3>1 DEF IInv, WorkIsReached
  <2> QED BY <2>1, <2>2
<1> QED BY <1>1, Invariance, PTL

-----------------------------------------------------------------------------
(* The context: an inductive invariant on top of IInv                        *)

\* The provider has another value in the render in progress.
ValueChanged ==
  /\ stage[Provider] \in {"begun", "done"}
  /\ alternate[Provider].seen # current[Provider].seen

\* The positions between the provider and c, with the provider
Between(c) == {a \in Ancestors[c] : a = Provider \/ Provider \in Ancestors[a]}

\* What a work in progress has read, once it was begun and before
ValuesAreRead ==
  /\ stage[Provider] = "cloned" => alternate[Provider].seen = current[Provider].seen
  /\ \A c \in Consumers :
       /\ stage[c] = "cloned" => alternate[c].seen = current[c].seen
       /\ stage[c] \in {"begun", "done"} => alternate[c].seen = alternate[Provider].seen

\* The render is to reach c from a, which is above it, and below the provider or
\* the provider.
IsReachedFrom(a, c) ==
  /\ renderLanes \subseteq current[a].childLanes
  /\ stage[a] = "cloned" => renderLanes \subseteq alternate[a].childLanes
  /\ stage[a] = "begun" =>
       \A d \in Children(a) : d = c \/ d \in Ancestors[c] => stage[d] # "none"
  /\ stage[a] = "done" => stage[c] = "done"

\* A new value takes the render down to each consumer, which has lanes to render.
ConsumersAreReached ==
  ValueChanged =>
    \A c \in Consumers : /\ renderLanes \subseteq current[c].lanes
                         /\ \A a \in Between(c) : IsReachedFrom(a, c)

RenderHasLanes == renderLanes = {} => \A f \in Position : stage[f] = "none"

ContextInv == ConsumersAgree /\ ValuesAreRead /\ ConsumersAreReached /\ RenderHasLanes

-----------------------------------------------------------------------------
(* Consumers and their provider                                              *)

LEMMA ConsumerBelowProvider ==
  ASSUME NEW c \in Consumers
  PROVE  /\ c \in Position /\ Provider \in Position /\ Provider \in Ancestors[c]
         /\ c # Provider /\ Provider \in Between(c)
         /\ \A a \in Between(c) : a \in Position /\ a # c
<1>1. c \in Position /\ Provider \in Position /\ Provider \in Ancestors[c]
  BY BoundsAssumption
<1>2. \A a \in Ancestors[c] : a \in Position /\ a # c
  BY <1>1, ChildOnPath
<1> QED BY <1>1, <1>2 DEF Between

\* Going down from a towards c
LEMMA NextBetween ==
  ASSUME NEW c \in Consumers, NEW a \in Between(c)
  PROVE  \E d \in Children(a) : /\ d = c \/ d \in Ancestors[c]
                                /\ d # c => d \in Between(c)
<1>1. a \in Ancestors[c] /\ a \in Position /\ c \in Position
  BY ConsumerBelowProvider DEF Between
<1>2. PICK d \in Children(a) : d = c \/ d \in Ancestors[c]
  BY <1>1, ChildOnPath
<1>3. Provider \in Ancestors[d]
  BY <1>1, ChildOfPosition DEF Between
<1> QED BY <1>2, <1>3 DEF Between

\* Before the provider is begun, no consumer is.
LEMMA ConsumersComeLater ==
  ASSUME RenderShape, NEW c \in Consumers
  PROVE  /\ stage[Provider] \in {"none", "cloned"} => stage[c] = "none"
         /\ stage[Provider] = "done" => stage[c] \in {"none", "done"}
<1> QED BY ConsumerBelowProvider DEF RenderShape

-----------------------------------------------------------------------------
(* The context: beginWork                                                    *)

\* What all ways to begin f have in common: the values of the tree on screen are
\* kept, children that are cloned have theirs, and f, if a consumer, reads the
\* provider or had nothing to render.
ReadStep(f) ==
  /\ \A g \in Position : current'[g].seen = current[g].seen
  /\ \A g \in Position \ {f} :
       alternate'[g].seen =
         IF stage'[g] = stage[g] THEN alternate[g].seen ELSE current[g].seen
  /\ f \in Consumers =>
       \/ alternate'[f].seen = alternate[Provider].seen
       \/ alternate'[f].seen = alternate[f].seen /\ current[f].lanes \cap renderLanes = {}

\* Until the provider is begun the consumers wait, and after that it keeps its value.
LEMMA BeginKeepsValuesRead ==
  ASSUME IInv, ContextInv, NEW f \in Position, BeginStep(f), ReadStep(f)
  PROVE  ConsumersAgree' /\ RenderHasLanes' /\ ValuesAreRead'
<1>1. /\ TypeOK /\ RenderShape /\ Provider \in Position /\ stage[f] = "cloned"
      /\ renderLanes # {}
  BY BoundsAssumption DEF IInv, ContextInv, RenderHasLanes, BeginStep
<1>2. ConsumersAgree'
  BY ConsumerBelowProvider DEF ContextInv, ConsumersAgree, ReadStep
<1>3. RenderHasLanes'
  BY <1>1 DEF BeginStep, RenderHasLanes
<1>4. ASSUME NEW g \in Position, stage'[g] = "cloned",
             stage[g] = "cloned" => alternate[g].seen = current[g].seen
      PROVE  alternate'[g].seen = current'[g].seen
  <2>1. g # f
    BY <1>4, BegunStages
  <2> QED BY <1>4, <2>1 DEF ReadStep
<1>5. ASSUME NEW c \in Consumers, stage'[c] \in {"begun", "done"}
      PROVE  alternate'[c].seen = alternate'[Provider].seen
  <2>1. stage[c] \in {"cloned", "begun", "done"} /\ (c # f => stage'[c] = stage[c])
    BY <1>1, <1>5, ConsumerBelowProvider, BegunStages
  <2>2. stage[Provider] \in {"begun", "done"}
    BY <1>1, <2>1, ConsumersComeLater DEF TypeOK
  <2>3. Provider # f /\ stage'[Provider] = stage[Provider]
    BY <1>1, <2>2, BegunStages, ClonedFacts
  <2>4. alternate'[Provider].seen = alternate[Provider].seen
    BY <1>1, <2>3 DEF ReadStep
  <2>5. CASE c # f
    <3>1. alternate'[c].seen = alternate[c].seen
      BY <2>1, <2>5, ConsumerBelowProvider DEF ReadStep
    <3>2. alternate[c].seen = alternate[Provider].seen
      BY <1>5, <2>1, <2>5 DEF ContextInv, ValuesAreRead
    <3> QED BY <2>4, <3>1, <3>2
  <2>6. CASE c = f /\ alternate'[f].seen = alternate[f].seen
                   /\ current[f].lanes \cap renderLanes = {}
    <3>1. ~ValueChanged
      BY <1>1, <2>6 DEF ContextInv, ConsumersAreReached
    <3>2. alternate[Provider].seen = current[Provider].seen
      BY <2>2, <3>1 DEF ValueChanged
    <3>3. alternate[c].seen = current[c].seen /\ current[c].seen = current[Provider].seen
      BY <1>1, <2>6 DEF ContextInv, ValuesAreRead, ConsumersAgree
    <3> QED BY <2>4, <2>6, <3>2, <3>3
  <2> QED BY <2>4, <2>5, <2>6 DEF ReadStep
<1>6. ValuesAreRead'
  <2>1. stage'[Provider] = "cloned" => alternate'[Provider].seen = current'[Provider].seen
    BY <1>1, <1>4 DEF ContextInv, ValuesAreRead
  <2>2. \A c \in Consumers :
          stage'[c] = "cloned" => alternate'[c].seen = current'[c].seen
    BY <1>4, ConsumerBelowProvider DEF ContextInv, ValuesAreRead
  <2> QED BY <1>5, <2>1, <2>2 DEF ValuesAreRead
<1> QED BY <1>2, <1>3, <1>6

\* A step that does not change the value leaves every consumer within reach.
LEMMA BeginKeepsReached ==
  ASSUME IInv, ContextInv, NEW f \in Position, BeginStep(f), ReadStep(f),
         f = Provider => alternate'[f].seen = alternate[f].seen
  PROVE  ConsumersAreReached'
<1> SUFFICES ASSUME ValueChanged', NEW c \in Consumers
             PROVE  /\ renderLanes' \subseteq current'[c].lanes
                    /\ \A a \in Between(c) : IsReachedFrom(a, c)'
  BY DEF ConsumersAreReached, Between
<1>1. /\ TypeOK /\ Provider \in Position /\ c \in Position
      /\ stage[f] = "cloned" /\ renderLanes # {} /\ renderLanes' = renderLanes
      /\ \A g \in Position : Grows(current, current', g)
  BY ConsumerBelowProvider DEF IInv, ContextInv, RenderHasLanes, BeginStep
<1>2. ValueChanged
  <2>1. CASE f = Provider
    BY <1>1, <2>1 DEF ContextInv, ValuesAreRead, ValueChanged, ReadStep
  <2>2. CASE f # Provider
    BY <1>1, <2>2, BegunStages DEF ValueChanged, ReadStep
  <2> QED BY <2>1, <2>2
<1>3. /\ renderLanes \subseteq current[c].lanes
      /\ \A a \in Between(c) : IsReachedFrom(a, c)
  BY <1>2 DEF ContextInv, ConsumersAreReached
<1>4. ASSUME NEW a \in Between(c)
      PROVE  IsReachedFrom(a, c)'
  <2>1. a \in Position /\ a # c /\ IsReachedFrom(a, c)
    BY <1>3, <1>4, ConsumerBelowProvider
  <2>2. renderLanes' \subseteq current'[a].childLanes
    BY <1>1, <2>1 DEF IsReachedFrom, Grows
  <2>3. ASSUME stage'[a] = "cloned" PROVE renderLanes' \subseteq alternate'[a].childLanes
    <3>1. a # f
      BY <2>3, BegunStages
    <3>2. CASE stage[a] = "cloned"
      <4>1. a \notin Children(f)
        BY <1>1, <3>2, ClonedFacts
      <4>2. alternate[a].childLanes \subseteq alternate'[a].childLanes
        BY <2>1, <4>1 DEF BeginStep
      <4> QED BY <1>1, <2>1, <3>2, <4>2 DEF IsReachedFrom
    <3>3. CASE stage[a] # "cloned"
      <4>1. a \in Children(f) /\ stage' # [stage EXCEPT ![f] = "begun"]
        BY <1>1, <2>1, <2>3, <3>1, <3>3, BegunStages DEF TypeOK
      <4>2. Grows(current, alternate', a)
        BY <4>1 DEF BeginStep
      <4> QED BY <1>1, <2>1, <4>2 DEF IsReachedFrom, Grows
    <3> QED BY <3>2, <3>3
  <2>4. ASSUME stage'[a] = "begun", NEW d \in Children(a), d = c \/ d \in Ancestors[c]
        PROVE  stage'[d] # "none"
    <3>1. CASE a = f
      <4>1. alternate[f].childLanes \cap renderLanes # {}
        BY <1>1, <2>1, <3>1 DEF IsReachedFrom
      <4>2. stage' = ChildrenCloned(f)
        BY <4>1 DEF BeginStep
      <4> QED BY <2>4, <3>1, <4>2, BegunStages
    <3>2. CASE a # f
      <4>1. stage[a] = "begun"
        BY <2>1, <2>4, <3>2, BegunStages
      <4>2. stage[d] # "none"
        BY <2>1, <2>4, <4>1 DEF IsReachedFrom
      <4> QED BY <2>1, <4>2, ChildOfPosition, BegunStages
    <3> QED BY <3>1, <3>2
  <2>5. ASSUME stage'[a] = "done" PROVE stage'[c] = "done"
    <3>1. stage[a] = "done"
      BY <2>1, <2>5, BegunStages
    <3>2. stage[c] = "done" /\ c # f
      BY <1>1, <2>1, <3>1 DEF IsReachedFrom
    <3> QED BY <1>1, <3>2, BegunStages, ClonedFacts
  <2> QED BY <2>2, <2>3, <2>4, <2>5 DEF IsReachedFrom, Children
<1> QED BY <1>1, <1>3, <1>4 DEF Grows

-----------------------------------------------------------------------------
(* What each way to begin a fiber reads                                      *)

LEMMA CloneReads ==
  ASSUME IInv, NEW f \in Position, stage[f] = "cloned",
         NEW onScreen \in Fibers, NEW fibers \in Fibers,
         \A g \in Position : onScreen[g].seen = current[g].seen,
         \A g \in Position \ {f} : fibers[g].seen = alternate[g].seen,
         alternate' = CloneChildrenFrom(onScreen, fibers, f),
         stage' = ChildrenCloned(f)
  PROVE  /\ alternate'[f].seen = fibers[f].seen
         /\ \A g \in Position \ {f} :
              alternate'[g].seen =
                IF stage'[g] = stage[g] THEN alternate[g].seen ELSE current[g].seen
<1>1. f \notin Children(f) /\ \A c \in Children(f) : c \in Position /\ stage[c] = "none"
  BY ChildOfPosition, ClonedFacts
<1>2. \A g \in Position \ {f} :
        stage'[g] = IF g \in Children(f) THEN "cloned" ELSE stage[g]
  BY DEF ChildrenCloned
<1>3. /\ \A c \in Children(f) : alternate'[c] = onScreen[c]
      /\ \A g \in Position \ Children(f) : alternate'[g] = fibers[g]
  BY CloneFacts
<1> QED BY <1>1, <1>2, <1>3

LEMMA BailOutReads ==
  ASSUME IInv, NEW f \in Position, stage[f] = "cloned",
         NEW fibers \in Fibers, BailOut(fibers, f),
         \A g \in Position \ {f} : fibers[g].seen = alternate[g].seen
  PROVE  /\ alternate'[f].seen = fibers[f].seen
         /\ \A g \in Position \ {f} :
              alternate'[g].seen =
                IF stage'[g] = stage[g] THEN alternate[g].seen ELSE current[g].seen
<1>1. current \in Fibers /\ stage \in [Position -> {"none", "cloned", "begun", "done"}]
  BY DEF IInv, TypeOK, Fibers
<1>2. CASE fibers[f].childLanes \cap renderLanes = {}
  BY <1>1, <1>2 DEF BailOut
<1>3. CASE fibers[f].childLanes \cap renderLanes # {}
  BY <1>1, <1>3, CloneReads DEF BailOut, CloneChildren
<1> QED BY <1>2, <1>3

LEMMA ProcessQueueReads ==
  ASSUME TypeOK, NEW f \in Position
  PROVE  /\ ProcessQueue(f) \in Fibers
         /\ ProcessQueue(f)[f].seen = Read(f)
         /\ \A g \in Position \ {f} : ProcessQueue(f)[g] = alternate[g]
<1>1. alternate \in [Position -> FiberRecord]
  BY DEF TypeOK
<1>2. ProcessQueue(f)[f].seen = Read(f)
  <2> HIDE DEF Read
  <2> QED BY <1>1 DEF ProcessQueue, FiberRecord
<1> QED BY <1>2, ProcessQueueFacts

LEMMA BeginReads ==
  ASSUME IInv, NEW f \in Position, Begin(f)
  PROVE  /\ ReadStep(f)
         /\ f = Provider => alternate'[f].seen = alternate[f].seen
<1>1. TypeOK /\ alternate \in Fibers /\ current \in Fibers
  BY DEF IInv, TypeOK, Fibers
<1>2. CASE BeginEarlyBailOut(f)
  BY <1>1, <1>2, BailOutReads DEF BeginEarlyBailOut, HasWork, ReadStep
<1>3. CASE BeginLateBailOut(f)
  <2>1. f \notin Consumers /\ f # Provider
    BY <1>3 DEF BeginLateBailOut
  <2> QED BY <1>1, <1>3, <2>1, BailOutReads, ProcessQueueReads DEF BeginLateBailOut, ReadStep
<1>4. ASSUME NEW changed, BeginRender(f, changed)
      PROVE  ReadStep(f) /\ f # Provider
  <2>1. /\ stage[f] = "cloned" /\ f # Provider /\ current' = current
        /\ alternate' = CloneChildrenFrom(current, ProcessQueue(f), f)
        /\ stage' = ChildrenCloned(f)
    BY <1>4 DEF BeginRender, CloneChildren
  <2>2. /\ alternate'[f].seen = Read(f)
        /\ \A g \in Position \ {f} :
             alternate'[g].seen =
               IF stage'[g] = stage[g] THEN alternate[g].seen ELSE current[g].seen
    BY <1>1, <2>1, CloneReads, ProcessQueueReads
  <2> QED BY <2>1, <2>2 DEF Read, ReadStep
<1> QED BY <1>2, <1>3, <1>4 DEF Begin

LEMMA ProviderReadsItself == Read(Provider) = alternate[Provider].seen
<1>1. Provider \notin Consumers
  BY ConsumerBelowProvider
<1> QED BY <1>1 DEF Read

LEMMA SameValueReads ==
  ASSUME IInv, NEW changed, BeginSameValue(changed)
  PROVE  ReadStep(Provider) /\ alternate'[Provider].seen = alternate[Provider].seen
<1>1. /\ TypeOK /\ current \in Fibers /\ Provider \in Position \ Consumers
      /\ stage[Provider] = "cloned" /\ current' = current
  BY BoundsAssumption, ConsumerBelowProvider DEF IInv, TypeOK, Fibers, BeginSameValue
<1>2. CASE BailOut(ProcessQueue(Provider), Provider)
  BY <1>1, <1>2, BailOutReads, ProcessQueueReads, ProviderReadsItself DEF ReadStep
<1>3. CASE /\ alternate' = CloneChildrenFrom(current, ProcessQueue(Provider), Provider)
           /\ stage' = ChildrenCloned(Provider)
  BY <1>1, <1>3, CloneReads, ProcessQueueReads, ProviderReadsItself DEF ReadStep
<1> QED BY <1>2, <1>3 DEF BeginSameValue, CloneChildren

\* propagateContextChange: the lanes of the render on every consumer and on the way to it
LEMMA PropagatedReaches ==
  ASSUME NEW fibers \in Fibers
  PROVE  /\ \A g \in Position : Propagated(fibers)[g].seen = fibers[g].seen
         /\ \A c \in Consumers :
              /\ renderLanes \subseteq Propagated(fibers)[c].lanes
              /\ \A a \in Between(c) : renderLanes \subseteq Propagated(fibers)[a].childLanes
<1>1. \A g \in Position : fibers[g] \in FiberRecord
  BY DEF Fibers
<1>2. ASSUME NEW g \in Position
      PROVE  /\ Propagated(fibers)[g].seen = fibers[g].seen
             /\ g \in Consumers => renderLanes \subseteq Propagated(fibers)[g].lanes
             /\ g \in OnPath => renderLanes \subseteq Propagated(fibers)[g].childLanes
  <2> HIDE DEF OnPath
  <2> QED BY <1>1 DEF Propagated, FiberRecord
<1>3. \A c \in Consumers : c \in Position /\ Between(c) \subseteq OnPath
  BY ConsumerBelowProvider DEF Between, OnPath
<1>4. OnPath \subseteq Position
  BY DEF OnPath
<1> QED BY <1>2, <1>3, <1>4

LEMMA NewValueReads ==
  ASSUME IInv, NEW value \in 0..MaxValues, NEW changed, BeginNewValue(value, changed)
  PROVE  ReadStep(Provider) /\ ConsumersAreReached'
<1> DEFINE onScreen == Propagated(current)
           read == [ProcessQueue(Provider) EXCEPT ![Provider].seen = value]
           fibers == Propagated(read)
<1>1. /\ TypeOK /\ RenderShape /\ current \in Fibers /\ Provider \in Position \ Consumers
      /\ renderLanes \in SUBSET Lanes
  BY BoundsAssumption, ConsumerBelowProvider DEF IInv, TypeOK, Fibers
<1>2. /\ stage[Provider] = "cloned" /\ renderLanes' = renderLanes
      /\ current' = onScreen
      /\ alternate' = CloneChildrenFrom(onScreen, fibers, Provider)
      /\ stage' = ChildrenCloned(Provider)
  BY DEF BeginNewValue
<1>3. read \in Fibers /\ \A g \in Position \ {Provider} : read[g].seen = alternate[g].seen
  <2> DEFINE old == ProcessQueue(Provider)
  <2>1. old \in [Position -> FiberRecord] /\ \A g \in Position \ {Provider} : old[g] = alternate[g]
    BY <1>1, ProcessQueueReads DEF Fibers
  <2> HIDE DEF old
  <2>2. /\ [old EXCEPT ![Provider].seen = value] \in [Position -> FiberRecord]
        /\ \A g \in Position \ {Provider} : [old EXCEPT ![Provider].seen = value][g] = old[g]
    BY <1>1, <2>1 DEF FiberRecord
  <2> QED BY <2>1, <2>2 DEF Fibers, old
<1> HIDE DEF read
<1>4. /\ onScreen \in Fibers /\ fibers \in Fibers
      /\ \A g \in Position : onScreen[g].seen = current[g].seen /\ fibers[g].seen = read[g].seen
  BY <1>1, <1>3, PropagatedFacts, PropagatedReaches
<1>5. ASSUME NEW c \in Consumers
      PROVE  /\ renderLanes \subseteq onScreen[c].lanes
             /\ \A a \in Between(c) : renderLanes \subseteq onScreen[a].childLanes
  BY <1>1, PropagatedReaches
<1> HIDE DEF onScreen, fibers
<1>6. ReadStep(Provider)
  BY <1>1, <1>2, <1>3, <1>4, CloneReads DEF ReadStep
<1>7. ASSUME NEW c \in Consumers, NEW a \in Between(c)
      PROVE  IsReachedFrom(a, c)'
  <2>1. a \in Position /\ Provider \notin Children(Provider)
    BY <1>1, ConsumerBelowProvider, ChildOfPosition
  <2>2. CASE a = Provider
    <3>1. stage'[a] = "begun" /\ \A d \in Children(a) : stage'[d] = "cloned"
      BY <1>1, <1>2, <2>1, <2>2, ChildOfPosition DEF ChildrenCloned
    <3> QED BY <1>2, <1>5, <2>2, <3>1 DEF IsReachedFrom, Children
  <2>3. CASE a # Provider
    <3>1. stage[a] = "none"
      BY <1>1, <1>2, <2>1, <2>3 DEF RenderShape, Between
    <3>2. /\ a \in Children(Provider) => /\ stage'[a] = "cloned"
                                         /\ alternate'[a] = onScreen[a]
          /\ a \notin Children(Provider) => stage'[a] = "none"
      BY <1>1, <1>2, <1>4, <2>1, <2>3, <3>1, CloneFacts, ZenonT(30) DEF ChildrenCloned
    <3> QED BY <1>2, <1>5, <3>2 DEF IsReachedFrom
  <2> QED BY <2>2, <2>3
<1>8. ConsumersAreReached'
  BY <1>2, <1>5, <1>7 DEF ConsumersAreReached, Between
<1> QED BY <1>6, <1>8

LEMMA BeginKeepsContext ==
  ASSUME IInv, ContextInv, NEW f \in Position, Begin(f)
  PROVE  ContextInv'
<1> QED BY BeginBegins, BeginReads, BeginKeepsValuesRead, BeginKeepsReached DEF ContextInv

LEMMA BeginProviderKeepsContext ==
  ASSUME IInv, ContextInv, BeginProvider
  PROVE  ContextInv'
<1>1. Provider \in Position /\ BeginStep(Provider)
  BY BoundsAssumption, BeginProviderBegins
<1>2. ASSUME NEW changed, BeginSameValue(changed) PROVE ContextInv'
  BY <1>1, <1>2, SameValueReads, BeginKeepsValuesRead, BeginKeepsReached DEF ContextInv
<1>3. ASSUME NEW changed, NEW value \in 0..MaxValues, BeginNewValue(value, changed)
      PROVE  ContextInv'
  BY <1>1, <1>3, NewValueReads, BeginKeepsValuesRead DEF ContextInv
<1> QED BY <1>2, <1>3 DEF BeginProvider

-----------------------------------------------------------------------------
(* The context: the other actions                                            *)

LEMMA MarkedPathReads ==
  ASSUME NEW fibers \in Fibers, NEW f \in Position, NEW lane \in Lanes
  PROVE  \A g \in Position : MarkedPath(fibers, f, lane)[g].seen = fibers[g].seen
<1> QED BY DEF MarkedPath, Fibers, FiberRecord

LEMMA UpdateKeepsContext ==
  ASSUME IInv, ContextInv, NEW f \in Position, NEW lane \in Lanes, Update(f, lane)
  PROVE  ContextInv'
<1>1. current \in Fibers /\ alternate \in Fibers /\ Provider \in Position
  BY BoundsAssumption DEF IInv, TypeOK, Fibers
<1>2. /\ current' = MarkedPath(current, f, lane)
      /\ alternate' = MarkedPath(alternate, f, lane)
      /\ UNCHANGED <<stage, renderLanes>>
  BY DEF Update
<1>3. \A g \in Position : /\ current'[g].seen = current[g].seen
                          /\ alternate'[g].seen = alternate[g].seen
                          /\ Grows(current, current', g)
                          /\ Grows(alternate, alternate', g)
  BY <1>1, <1>2, MarkedPathReads, MarkedPathFacts DEF Grows
<1>4. ConsumersAgree' /\ ValuesAreRead' /\ RenderHasLanes'
  BY <1>1, <1>2, <1>3, ConsumerBelowProvider
     DEF ContextInv, ConsumersAgree, ValuesAreRead, RenderHasLanes
<1>5. ASSUME ValueChanged', NEW c \in Consumers
      PROVE  /\ renderLanes' \subseteq current'[c].lanes
             /\ \A a \in Between(c) : IsReachedFrom(a, c)'
  <2>1. ValueChanged
    BY <1>1, <1>2, <1>3, <1>5 DEF ValueChanged
  <2>2. /\ renderLanes \subseteq current[c].lanes
        /\ \A a \in Between(c) : IsReachedFrom(a, c)
    BY <2>1 DEF ContextInv, ConsumersAreReached
  <2>3. ASSUME NEW a \in Between(c) PROVE IsReachedFrom(a, c)'
    <3>1. a \in Position
      BY ConsumerBelowProvider
    <3>2. Grows(current, current', a) /\ Grows(alternate, alternate', a)
      BY <1>3, <3>1
    <3> QED BY <1>2, <2>2, <3>2 DEF IsReachedFrom, Grows, Children
  <2> QED BY <1>2, <1>3, <2>2, <2>3, ConsumerBelowProvider DEF Grows
<1> QED BY <1>4, <1>5 DEF ContextInv, ConsumersAreReached, Between

LEMMA PrepareFreshStackKeepsContext ==
  ASSUME IInv, ContextInv, NEW lanes \in (SUBSET pendingLanes) \ {{}}, PrepareFreshStack(lanes)
  PROVE  ContextInv'
<1>1. /\ renderLanes' = lanes /\ lanes # {} /\ current' = current
      /\ alternate' = [alternate EXCEPT ![Root] = current[Root]]
      /\ stage' = [f \in Position |-> IF f = Root THEN "cloned" ELSE "none"]
  BY DEF PrepareFreshStack
<1>2. Root \in Position /\ Root \notin Consumers /\ Provider \in Position
  BY TreeAssumption, ConsumerBelowProvider, BoundsAssumption
<1>3. alternate'[Root] = current'[Root]
  BY <1>1, <1>2 DEF IInv, TypeOK
<1>4. stage'[Provider] \in {"none", "cloned"} /\ \A c \in Consumers : stage'[c] = "none"
  BY <1>1, <1>2, ConsumerBelowProvider
<1>5. stage'[Provider] = "cloned" => Provider = Root
  BY <1>1, <1>2
<1> QED BY <1>1, <1>3, <1>4, <1>5 DEF ContextInv, ConsumersAgree, ValuesAreRead,
             ConsumersAreReached, ValueChanged, RenderHasLanes

LEMMA CompleteWorkKeepsContext ==
  ASSUME IInv, ContextInv, NEW f \in Position, CompleteWork(f)
  PROVE  ContextInv'
<1>1. TypeOK /\ Provider \in Position
  BY BoundsAssumption DEF IInv
<1>2. /\ stage[f] = "begun" /\ \A d \in Children(f) : stage[d] \in {"none", "done"}
      /\ stage' = [stage EXCEPT ![f] = "done"]
      /\ current' = current /\ renderLanes' = renderLanes
  BY DEF CompleteWork
<1>3. \A g \in Position : /\ alternate'[g].seen = alternate[g].seen
                          /\ g # f => alternate'[g] = alternate[g]
  <2>1. alternate' = [alternate EXCEPT ![f].childLanes = Bubbled(f)]
    BY DEF CompleteWork
  <2> HIDE DEF Bubbled
  <2> QED BY <1>1, <2>1 DEF TypeOK, FiberRecord
<1>4. stage'[f] = "done" /\ \A g \in Position \ {f} : stage'[g] = stage[g]
  BY <1>1, <1>2 DEF TypeOK
<1>5. ConsumersAgree' /\ ValuesAreRead'
  BY <1>1, <1>2, <1>3, <1>4, ConsumerBelowProvider
     DEF ContextInv, ConsumersAgree, ValuesAreRead
<1>6. RenderHasLanes'
  BY <1>2 DEF ContextInv, RenderHasLanes
<1>7. ASSUME ValueChanged', NEW c \in Consumers
      PROVE  /\ renderLanes' \subseteq current'[c].lanes
             /\ \A a \in Between(c) : IsReachedFrom(a, c)'
  <2>1. ValueChanged
    BY <1>1, <1>2, <1>3, <1>4, <1>7 DEF ValueChanged
  <2>2. /\ renderLanes \subseteq current[c].lanes
        /\ \A a \in Between(c) : IsReachedFrom(a, c)
    BY <2>1 DEF ContextInv, ConsumersAreReached
  <2>3. ASSUME NEW a \in Between(c) PROVE IsReachedFrom(a, c)'
    <3>1. a \in Position /\ c \in Position /\ IsReachedFrom(a, c)
      BY <2>2, <2>3, ConsumerBelowProvider
    <3>2. CASE a = f
      <4>1. PICK d \in Children(a) : /\ d = c \/ d \in Ancestors[c]
                                     /\ d # c => d \in Between(c)
        BY <2>3, NextBetween
      <4>2. stage[d] = "done"
        BY <1>2, <3>1, <3>2, <4>1 DEF IsReachedFrom
      <4>3. stage[c] = "done"
        BY <2>2, <4>1, <4>2 DEF IsReachedFrom
      <4>4. stage'[c] = "done"
        BY <1>4, <3>1, <4>3
      <4> QED BY <1>2, <1>4, <3>1, <3>2, <4>4 DEF IsReachedFrom
    <3>3. CASE a # f
      <4>1. stage'[a] = stage[a] /\ alternate'[a] = alternate[a]
        BY <1>3, <1>4, <3>1, <3>3
      <4>2. stage[c] = "done" => stage'[c] = "done"
        BY <1>4, <3>1
      <4>3. \A d \in Children(a) : stage[d] # "none" => stage'[d] # "none"
        BY <1>4, <3>1, ChildOfPosition
      <4> QED BY <1>2, <3>1, <4>1, <4>2, <4>3 DEF IsReachedFrom, Children
    <3> QED BY <3>2, <3>3
  <2> QED BY <1>2, <2>2, <2>3
<1> QED BY <1>5, <1>6, <1>7 DEF ContextInv, ConsumersAreReached, Between

\* In the finished tree a consumer is as the provider left it, or both are as
\* they were on screen.
LEMMA CommitKeepsContext ==
  ASSUME IInv, ContextInv, Commit
  PROVE  ContextInv'
<1>1. /\ RenderShape /\ stage[Root] = "done" /\ Provider \in Position
      /\ current' = [f \in Position |-> InFinishedTree(f)]
      /\ stage' = [f \in Position |-> "none"]
  BY BoundsAssumption DEF IInv, Commit
<1>2. ASSUME NEW c \in Consumers
      PROVE  InFinishedTree(c).seen = InFinishedTree(Provider).seen
  <2>1. current[c].seen = current[Provider].seen
    BY DEF ContextInv, ConsumersAgree
  <2>2. stage[Provider] \in {"none", "done"}
    BY <1>1, TreeAssumption DEF RenderShape
  <2>3. CASE stage[Provider] = "none"
    BY <1>1, <2>1, <2>3, ConsumersComeLater DEF InFinishedTree
  <2>4. CASE stage[Provider] = "done" /\ stage[c] = "done"
    BY <2>4 DEF ContextInv, ValuesAreRead, InFinishedTree
  <2>5. CASE stage[Provider] = "done" /\ stage[c] = "none"
    <3>1. ~ValueChanged
      BY <2>5, ConsumerBelowProvider DEF ContextInv, ConsumersAreReached, IsReachedFrom
    <3> QED BY <2>1, <2>5, <3>1 DEF ValueChanged, InFinishedTree
  <2> QED BY <1>1, <2>2, <2>3, <2>4, <2>5, ConsumersComeLater
<1>3. ConsumersAgree'
  BY <1>1, <1>2, ConsumerBelowProvider DEF ConsumersAgree
<1>4. ValuesAreRead' /\ ConsumersAreReached' /\ RenderHasLanes'
  BY <1>1, ConsumerBelowProvider
     DEF ValuesAreRead, ConsumersAreReached, ValueChanged, RenderHasLanes
<1> QED BY <1>3, <1>4 DEF ContextInv

-----------------------------------------------------------------------------
LEMMA InitEstablishesContext == Init => ContextInv
<1> SUFFICES ASSUME Init PROVE ContextInv
  OBVIOUS
<1> QED BY ConsumerBelowProvider, BoundsAssumption
           DEF Init, ContextInv, ConsumersAgree, ValuesAreRead, ConsumersAreReached,
               ValueChanged, RenderHasLanes

LEMMA NextKeepsContext == IInv /\ ContextInv /\ [Next]_vars => ContextInv'
<1> SUFFICES ASSUME IInv, ContextInv, [Next]_vars PROVE ContextInv'
  OBVIOUS
<1>1. CASE UNCHANGED vars
  BY <1>1 DEF vars, ContextInv, ConsumersAgree, ValuesAreRead, ConsumersAreReached,
              ValueChanged, IsReachedFrom, Between, Children, RenderHasLanes
<1> QED
  BY <1>1, UpdateKeepsContext, PrepareFreshStackKeepsContext, BeginKeepsContext,
     BeginProviderKeepsContext, CompleteWorkKeepsContext, CommitKeepsContext DEF Next

\* In any tree, with any consumers below the provider, whatever bails out and
\* whenever renders are dropped: what is on screen of a consumer is the value
\* of its provider (propagateContextChange and scheduleContextWorkOnParentPath).
THEOREM ConsumersShowTheirProvider == Spec => []ConsumersAgree
<1>1. Spec => []ContextInv
  BY Invariance, InitEstablishesContext, NextKeepsContext, PTL DEF Spec
<1>2. ContextInv => ConsumersAgree
  BY DEF ContextInv
<1> QED BY <1>1, <1>2, PTL
=============================================================================
