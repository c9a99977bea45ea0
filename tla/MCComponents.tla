---------------------------- MODULE MCComponents ----------------------------
(***************************************************************************)
(* The components that are modelled on their own, side by side: each       *)
(* behaviour is one of the component chosen at the start, the others stay  *)
(* where they begin.                                                       *)
(***************************************************************************)
EXTENDS FiberTree, UpdateQueue, HookEffects, ExternalStore, EventReplay,
        SchedulerMinHeap, Flight, ResourceCache, ChildReconciler, Fizz, FizzPrograms,
        FlightPrograms

VARIABLE component

allVars == <<component, vars, queueVars, effectVars, storeVars, replayVars, heapVars,
             flightVars, cacheVars, childrenVars, fizzVars>>

-----------------------------------------------------------------------------
(* FiberTree: root - a - b - {c, d}, a the provider and c its consumer       *)

MCPosition == {"root", "a", "b", "c", "d"}

MCReturn == [f \in MCPosition \ {"root"} |->
  CASE f = "a" -> "root" [] f = "b" -> "a" [] OTHER -> "b"]

MCAncestors == [f \in MCPosition |->
  CASE f = "root" -> {} [] f = "a" -> {"root"} [] f = "b" -> {"root", "a"}
    [] OTHER -> {"root", "a", "b"}]

-----------------------------------------------------------------------------
(* ChildReconciler: up to two children of each kind and three of the plain   *)
(* ones, permutations of four, and two with groups of up to two              *)

Element(key, type) == [key |-> key, type |-> type, children |-> <<>>]
Group(key, children) == [key |-> key, type |-> "group", children |-> children]
EmptySlot == [key |-> "none", type |-> "hole", children |-> <<>>]

UniqueKeys(slots) ==
  \A i, j \in DOMAIN slots :
    i # j /\ slots[i].key = slots[j].key => slots[i].key = "none"

Plain == {EmptySlot, Element("none", "div"), Element("p", "div"), Element("q", "div"),
          Element("p", "span")}

Flat == Plain \cup {Element("none", "text"), Element("r", "portal")}

Nested == {<<>>, <<Element("x", "div")>>, <<Element("x", "div"), Element("y", "div")>>,
           <<Element("y", "div"), Element("x", "div")>>}

Deep == {EmptySlot, Element("p", "div")}
          \cup {Group(key, children) : key \in {"g", "h"}, children \in Nested}

Keyed == {Element(key, "div") : key \in {"p", "q", "r", "s"}}

Slots == {s \in [1..4 -> Keyed] \cup UNION {[1..n -> Flat] : n \in 0..2}
                  \cup [1..3 -> Plain]
                  \cup UNION {[1..n -> Deep] : n \in 0..2} : UniqueKeys(s)}

MCChildKeys == {"p", "q", "r", "s", "g", "h", "x", "y"}
MCChildTypes == {"div", "span", "text", "portal", "group"}

MCChildInputs == [single : {FALSE}, slots : Slots]
                 \cup [single : {TRUE}, slots : {<<e>> : e \in Flat \cup Deep}]

-----------------------------------------------------------------------------
(* ExternalStore: one getter tells all states apart, the other does not      *)

MCGetters == {"all", "half"}
MCGetSnapshot == [g \in MCGetters |-> [v \in 0..2 |-> IF g = "all" THEN v ELSE v \div 2]]

-----------------------------------------------------------------------------
(* EventReplay: a container c with boundaries o and n, and i inside of o     *)

MCPath == [x |-> <<"c", "o">>, y |-> <<"c", "o", "i">>, z |-> <<"c", "n">>]

-----------------------------------------------------------------------------
ComponentsInit ==
  /\ Init /\ QueueInit /\ EffectsInit /\ StoreInit /\ ReplayInit /\ HeapInit
  /\ FlightInit /\ CacheInit /\ ChildrenInit /\ FizzInit
  /\ component \in {"tree", "queue", "effects", "store", "replay", "heap", "flight", "cache",
                    "children", "server"}
  /\ component # "queue" => kind = "class"
  /\ component # "effects" => ~always
  /\ component # "store" => store = 0
  /\ component # "flight" => program = SharedModule
  /\ component # "cache" => LIMIT = 0
  /\ component # "server" => page = Shell

TreeNext ==
  /\ component = "tree" /\ Next
  /\ UNCHANGED <<queueVars, effectVars, storeVars, replayVars, heapVars, flightVars,
                 cacheVars, childrenVars, fizzVars>>
UpdatesNext ==
  /\ component = "queue" /\ QueueNext
  /\ UNCHANGED <<vars, effectVars, storeVars, replayVars, heapVars, flightVars,
                 cacheVars, childrenVars, fizzVars>>
HooksNext ==
  /\ component = "effects" /\ EffectsNext
  /\ UNCHANGED <<vars, queueVars, storeVars, replayVars, heapVars, flightVars,
                 cacheVars, childrenVars, fizzVars>>
ReadersNext ==
  /\ component = "store" /\ StoreNext
  /\ UNCHANGED <<vars, queueVars, effectVars, replayVars, heapVars, flightVars,
                 cacheVars, childrenVars, fizzVars>>
EventsNext ==
  /\ component = "replay" /\ ReplayNext
  /\ UNCHANGED <<vars, queueVars, effectVars, storeVars, heapVars, flightVars,
                 cacheVars, childrenVars, fizzVars>>
TasksNext ==
  /\ component = "heap" /\ HeapNext
  /\ UNCHANGED <<vars, queueVars, effectVars, storeVars, replayVars, flightVars,
                 cacheVars, childrenVars, fizzVars>>
ModelNext ==
  /\ component = "flight" /\ FlightNext
  /\ UNCHANGED <<vars, queueVars, effectVars, storeVars, replayVars, heapVars,
                 cacheVars, childrenVars, fizzVars>>
EntriesNext ==
  /\ component = "cache" /\ CacheNext
  /\ UNCHANGED <<vars, queueVars, effectVars, storeVars, replayVars, heapVars,
                 flightVars, childrenVars, fizzVars>>
SiblingsNext ==
  /\ component = "children" /\ ChildrenNext
  /\ UNCHANGED <<vars, queueVars, effectVars, storeVars, replayVars, heapVars,
                 flightVars, cacheVars, fizzVars>>
ServerNext ==
  /\ component = "server" /\ FizzNext
  /\ UNCHANGED <<vars, queueVars, effectVars, storeVars, replayVars, heapVars,
                 flightVars, cacheVars, childrenVars>>

ComponentsNext ==
  /\ UNCHANGED component
  /\ \/ TreeNext \/ UpdatesNext \/ HooksNext \/ ReadersNext \/ EventsNext \/ TasksNext
     \/ ModelNext \/ EntriesNext \/ SiblingsNext \/ ServerNext

\* What tells two states of a component apart
ActiveState ==
  <<component,
    CASE component = "tree" -> vars
      [] component = "queue" -> queueVars
      [] component = "effects" -> effectVars
      [] component = "store" -> storeVars
      [] component = "replay" -> replayVars
      [] component = "heap" -> heapVars
      [] component = "flight" -> flightVars
      [] component = "cache" -> cacheVars
      [] component = "children" -> childrenVars
      [] component = "server" -> fizzVars>>

ComponentsSpec == ComponentsInit /\ [][ComponentsNext]_allVars
=============================================================================
