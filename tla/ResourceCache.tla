---------------------------- MODULE ResourceCache ----------------------------
(***************************************************************************)
(* react-cache: the results of resources, found by resource and key, and   *)
(* linked into a circular list by how recently they were read (LRU.js).    *)
(* An entry is known by its input: a pair of a resource and a key has one  *)
(* entry at a time, and a deleted one is met by nobody.                    *)
(***************************************************************************)
EXTENDS Integers, Sequences, Functions

CONSTANTS
  Resources, Keys,
  Limits,   \* what the limit may be set to
  NoEntry   \* null

\* What is read: one of the keys of one of the resources
Inputs == Resources \X Keys

ASSUME CacheAssumption == Limits \subseteq Int /\ NoEntry \notin Inputs

VARIABLES
  list,      \* the entries of the list: previous, next, status of the result
  first,
  size,
  LIMIT,
  cleanUpIsScheduled,
  entries    \* resource -> keys that have an entry

cacheVars == <<list, first, size, LIMIT, cleanUpIsScheduled, entries>>

Resource(input) == input[1]
Key(input) == input[2]

IsCached(input) ==
  Resource(input) \in DOMAIN entries /\ Key(input) \in entries[Resource(input)]

\* previous.next = next, next.previous = previous, in this order
Link(l, previous, next) ==
  [[l EXCEPT ![previous].next = next] EXCEPT ![next].previous = previous]

AppendToHead(l, entry) == Link(Link(l, l[first].previous, entry), entry, first)

ScheduleCleanUp(limit) ==
  cleanUpIsScheduled' = (cleanUpIsScheduled \/ size > limit)

CacheInit ==
  /\ list = <<>> /\ first = NoEntry /\ size = 0
  /\ LIMIT \in Limits
  /\ cleanUpIsScheduled = FALSE
  /\ entries = <<>>

-----------------------------------------------------------------------------
\* accessResult of an input that is not cached, and add; no clean-up is scheduled
Fetch(input) ==
  LET entry == [previous |-> input, next |-> input, status |-> "pending"]
      resources == DOMAIN entries \cup {Resource(input)}
  IN /\ ~IsCached(input)
     /\ list' = IF first = NoEntry THEN [i \in {input} |-> entry]
                ELSE AppendToHead([i \in DOMAIN list \cup {input} |->
                                     IF i = input THEN entry ELSE list[i]], input)
     /\ first' = input
     /\ size' = size + 1
     /\ entries' = [r \in resources |->
                      (IF r \in DOMAIN entries THEN entries[r] ELSE {})
                        \cup (IF r = Resource(input) THEN {Key(input)} ELSE {})]
     /\ UNCHANGED <<LIMIT, cleanUpIsScheduled>>

\* accessResult when fetch throws: the map of the resource stays, with nothing more.
FetchThrows(input) ==
  /\ ~IsCached(input)
  /\ entries' = [r \in DOMAIN entries \cup {Resource(input)} |->
                   IF r \in DOMAIN entries THEN entries[r] ELSE {}]
  /\ UNCHANGED <<list, first, size, LIMIT, cleanUpIsScheduled>>

\* Mutant: the entry is not taken from where it was.
MovedToHeadTwice(input) == AppendToHead(list, input)

MovedToHead(input) ==
  AppendToHead(Link(list, list[input].previous, list[input].next), input)

\* accessResult of an input that is cached, and access
Access(input) ==
  /\ IsCached(input)
  /\ list' = IF first = input THEN list ELSE MovedToHead(input)
  /\ first' = input
  /\ ScheduleCleanUp(LIMIT)
  /\ UNCHANGED <<size, LIMIT, entries>>

\* The thenable of a pending result is resolved or rejected.
Settle(input) ==
  /\ input \in DOMAIN list
  /\ list[input].status = "pending"
  /\ list' = [list EXCEPT ![input].status = "settled"]
  /\ UNCHANGED <<first, size, LIMIT, cleanUpIsScheduled, entries>>

SetLimit(newLimit) ==
  /\ LIMIT' = newLimit
  /\ ScheduleCleanUp(newLimit)
  /\ UNCHANGED <<list, first, size, entries>>

\* deleteEntry
DeleteEntry(es, input) ==
  LET left == es[Resource(input)] \ {Key(input)}
  IN IF left # {} THEN [es EXCEPT ![Resource(input)] = left]
     ELSE Restrict(es, DOMAIN es \ {Resource(input)})

\* A turn of the loop of deleteLeastRecentlyUsedEntries, `last` being its variable
DeleteLast(c, targetSize) ==
  IF c.size <= targetSize \/ c.last = NoEntry THEN c
  ELSE LET previous == c.list[c.last].previous
           reachedHead == c.last = c.first
           linked == IF reachedHead THEN c.list ELSE Link(c.list, previous, c.first)
       IN [list |-> Restrict(linked, DOMAIN c.list \ {c.last}),
           first |-> IF reachedHead THEN NoEntry ELSE c.first,
           size |-> c.size - 1,
           entries |-> DeleteEntry(c.entries, c.last),
           last |-> IF reachedHead THEN NoEntry ELSE previous]

\* The loop: each turn that deletes an entry leaves a smaller size.
DeleteLeastRecentlyUsedEntries(c, targetSize) ==
  LET After[n \in 0..c.size] == IF n = 0 THEN c ELSE DeleteLast(After[n - 1], targetSize)
  IN After[c.size]

CleanUp ==
  /\ cleanUpIsScheduled
  /\ cleanUpIsScheduled' = FALSE
  /\ LET last == IF first = NoEntry THEN NoEntry ELSE list[first].previous
         after == DeleteLeastRecentlyUsedEntries(
                    [list |-> list, first |-> first, size |-> size, entries |-> entries,
                     last |-> last], LIMIT)
     IN /\ list' = after.list /\ first' = after.first
        /\ size' = after.size /\ entries' = after.entries
  /\ UNCHANGED LIMIT

CacheNext ==
  \/ \E input \in Inputs :
       Fetch(input) \/ FetchThrows(input) \/ Access(input) \/ Settle(input)
  \/ \E limit \in Limits : SetLimit(limit)
  \/ CleanUp

CacheSpec == CacheInit /\ [][CacheNext]_cacheVars

-----------------------------------------------------------------------------
\* The list from its head, as far as `size` says
Recency ==
  LET walk[n \in 1..size] == IF n = 1 THEN first ELSE list[walk[n - 1]].next
  IN [n \in 1..size |-> walk[n]]

\* The cached inputs, as the maps of the resources have them
Results == [i \in {input \in Inputs : IsCached(input)} |-> list[i].status]

\* The maps, the list and its size implement a cache that forgets what was read
\* longest ago, and only that.
Cache == INSTANCE RecencyService WITH
  recency <- Recency, results <- Results, limit <- LIMIT, due <- cleanUpIsScheduled

CacheImplementsRecency == Cache!Spec
=============================================================================
