------------------------------- MODULE Flight -------------------------------
(***************************************************************************)
(* Server components: a server renders a model into rows, one for each     *)
(* part that suspends, fails or is a reference to the client, and streams  *)
(* them; the client builds chunks from the rows, in whatever order they    *)
(* come, and wakes those that read a chunk too early.                      *)
(*                                                                         *)
(* Server and client are one thread each, joined by the stream.  On the    *)
(* server `retrying` are the segments that performWork is still to retry.  *)
(***************************************************************************)
EXTENDS Integers, FiniteSets, Sequences, SequencesExt

CONSTANTS
  Programs,    \* component -> items [kind, name]: what a component renders
  MaxItems,    \* bound: items of a model, those below its components included
  MaxHitches   \* bound: suspensions, errors and stops of the destination

ItemKinds == {"component", "type", "module", "missing", "symbol", "provider", "bad"}
ItemNames(p) == UNION {{p[c][i].name : i \in DOMAIN p[c]} : c \in DOMAIN p}

\* What is left of the items once the first was rendered
Unfolded(p, items) ==
  CASE items = <<>> -> <<>>
    [] items # <<>> /\ Head(items).kind = "component" -> p[Head(items).name] \o Tail(items)
    [] items # <<>> /\ Head(items).kind # "component" -> Tail(items)

\* Every component that a program renders is one of its own, and no model has more
\* than MaxItems items.
ASSUME FlightAssumption ==
  /\ MaxItems \in Nat /\ MaxHitches \in Nat
  /\ \A p \in Programs :
       /\ "root" \in DOMAIN p
       /\ p \in [DOMAIN p -> Seq([kind : ItemKinds, name : ItemNames(p)])]
       /\ \A c \in DOMAIN p : \A i \in DOMAIN p[c] :
            p[c][i].kind = "component" => p[c][i].name \in DOMAIN p
       /\ \A c \in DOMAIN p :
            LET Left[n \in 0..MaxItems] == IF n = 0 THEN p[c] ELSE Unfolded(p, Left[n - 1])
            IN Left[MaxItems] = <<>>

RootId == 0
TheFlush == -1   \* what performWork does last, in `retrying`

VARIABLES
  program,
  request,   \* the fields of Request; flowing: destination # null; scheduled:
             \* scheduleWork will call performWork; segments: component by id
  retrying,
  waiting,   \* segments whose promise is pending
  stream,    \* rows that were written and not received yet
  ended,     \* whether the server has closed the destination
  response,  \* of the client: "open", "closed", "failed"
  chunks,    \* response._chunks
  readers,   \* what the components that read a chunk are doing, by its id
  hitches    \* history: counts what MaxHitches bounds

serverVars == <<program, request, retrying, waiting, ended>>
clientVars == <<response, chunks, readers>>
flightVars == <<serverVars, stream, clientVars, hitches>>

ServerIdle == retrying = <<>>

\* A map in which x is now v
Extended(f, x, v) == [y \in DOMAIN f \cup {x} |-> IF y = x THEN v ELSE f[y]]

-----------------------------------------------------------------------------
(* The server: resolveModelToJSON                                            *)

Emit(req, queue, row) == [req EXCEPT ![queue] = Append(@, row)]

\* A chunk of its own for something in a model, and the reference to it
NewChunk(req, ref) ==
  [req EXCEPT !.nextChunkId = @ + 1,
              !.pendingChunks = @ + 1,
              !.refs = Append(@, [ref |-> ref, id |-> req.nextChunkId])]

NewRow(req, queue, tag, ref) ==
  Emit(NewChunk(req, ref), queue, [tag |-> tag, id |-> req.nextChunkId, refs |-> <<>>])

\* Mutant: a part that suspends is not counted until its row is there.
SuspendedElementUncounted(req, component) ==
  [NewChunk(req, "lazy") EXCEPT !.segments = Extended(@, req.nextChunkId, component),
                                !.pendingChunks = @ - 1]

SuspendedElement(req, component) ==
  [NewChunk(req, "lazy") EXCEPT !.segments = Extended(@, req.nextChunkId, component)]

\* A reference to something that was or is now written: the type of an element
\* is lazy, what is passed as a value is not.
Written(req, item, tag) ==
  LET ref == IF item.kind = "type" THEN "lazy" ELSE "value"
  IN IF item.name \in DOMAIN req.written
     THEN [req EXCEPT !.refs = Append(@, [ref |-> ref, id |-> req.written[item.name]])]
     ELSE [NewRow(req, "modules", tag, ref) EXCEPT
             !.written = Extended(@, item.name, req.nextChunkId)]

\* The request after an item; how: what each component does.  A value that cannot
\* be sent throws out of the whole model.  writtenProviders is read under another
\* key than it is written, so that each use of a provider writes a row.
ItemResolved(req, item, how) ==
  CASE item.kind = "component" /\ how[item.name] = "renders" -> req
    [] item.kind = "component" /\ how[item.name] = "suspends" ->
         SuspendedElement(req, item.name)
    [] item.kind = "component" /\ how[item.name] = "throws" ->
         NewRow(req, "errors", "E", "lazy")
    [] item.kind \in {"type", "module"} -> Written(req, item, "M")
    [] item.kind = "missing" -> NewRow(req, "errors", "E", "value")
    [] item.kind = "symbol" -> Written(req, item, "S")
    [] item.kind = "provider" -> NewRow(req, "json", "P", "value")
    [] item.kind = "bad" -> [req EXCEPT !.thrown = TRUE]

\* What a component renders takes its place.
ItemsBelow(item, how) ==
  IF item.kind = "component" /\ how[item.name] = "renders" THEN program[item.name] ELSE <<>>

ResolveItem(at, how) ==
  IF at.items = <<>> \/ at.req.thrown THEN at
  ELSE [items |-> ItemsBelow(Head(at.items), how) \o Tail(at.items),
        req |-> ItemResolved(at.req, Head(at.items), how)]

\* The request after the items of a component were resolved
Resolved(req, items, how) ==
  LET At[n \in 0..MaxItems] ==
        IF n = 0 THEN [items |-> items, req |-> req] ELSE ResolveItem(At[n - 1], how)
  IN At[MaxItems].req

\* retrySegment of a component that renders
ModelRow(req, id, component, how) ==
  LET resolved == Resolved([req EXCEPT !.refs = <<>>, !.thrown = FALSE],
                           program[component], how)
      row == IF resolved.thrown
             THEN Emit(resolved, "errors", [tag |-> "E", id |-> id, refs |-> <<>>])
             ELSE Emit(resolved, "json", [tag |-> "J", id |-> id, refs |-> resolved.refs])
  IN [row EXCEPT !.refs = <<>>, !.thrown = FALSE]

-----------------------------------------------------------------------------
(* The server: segments and flow                                             *)

\* pingSegment.  The ping of a promise that calls back at once, from performWork, has
\* the effect of one right after it, since performWork reads `pinged` first.
PingSegment(id) ==
  /\ ServerIdle
  /\ id \in waiting
  /\ waiting' = waiting \ {id}
  /\ request' = [request EXCEPT !.pinged = Append(@, id),
                                !.scheduled = @ \/ request.pinged = <<>>]
  /\ UNCHANGED <<program, retrying, ended, stream, clientVars, hitches>>

PerformWork ==
  /\ ServerIdle
  /\ request.scheduled
  /\ request' = [request EXCEPT !.scheduled = FALSE, !.pinged = <<>>]
  /\ retrying' = Append(request.pinged, TheFlush)
  /\ UNCHANGED <<program, waiting, ended, stream, clientVars, hitches>>

Names == DOMAIN program
Failing(how) == {c \in Names : how[c] # "renders"}

\* retrySegment of the next segment.  A component that is all another one renders
\* shares its segment: the two are one component of the program.
RetrySegment ==
  /\ ~ServerIdle
  /\ Head(retrying) # TheFlush
  /\ \E how \in [Names -> {"renders", "suspends", "throws"}] :
       LET id == Head(retrying)
           component == request.segments[id]
       IN /\ hitches + Cardinality(Failing(how)) <= MaxHitches
          /\ hitches' = hitches + Cardinality(Failing(how))
          /\ IF how[component] = "suspends"
             THEN waiting' = waiting \cup {id} /\ UNCHANGED request
             ELSE /\ request' =
                       IF how[component] = "throws"
                       THEN Emit(request, "errors", [tag |-> "E", id |-> id, refs |-> <<>>])
                       ELSE ModelRow(request, id, component, how)
                  /\ waiting' = waiting \cup
                       (DOMAIN request'.segments \ DOMAIN request.segments)
  /\ retrying' = Tail(retrying)
  /\ UNCHANGED <<program, ended, stream, clientVars>>

Queued == <<request.modules, request.json, request.errors>>

\* How many rows of each queue a flush writes: all of them, or those up to the row
\* that fills the destination and then, though it is full, one of each queue left.
Amounts ==
  LET all == [q \in 1..3 |-> Len(Queued[q])]
      Until(full, n) == [q \in 1..3 |-> CASE q < full -> all[q]
                                          [] q = full -> n
                                          [] q > full /\ all[q] > 0 -> 1
                                          [] q > full /\ all[q] = 0 -> 0]
  IN {[rows |-> all, isFull |-> FALSE]}
     \cup IF hitches = MaxHitches THEN {}
          ELSE UNION {{[rows |-> Until(q, n), isFull |-> TRUE] : n \in 1..all[q]} : q \in 1..3}

Rest(queue, n) == SubSeq(queue, n + 1, Len(queue))

\* flushCompletedChunks, the rest of the job being `retrying`
FlushCompletedChunks(then) ==
  \E amount \in Amounts :
    LET Sent(q) == SubSeq(Queued[q], 1, amount.rows[q])
        left == request.pendingChunks - amount.rows[1] - amount.rows[2] - amount.rows[3]
    IN /\ stream' = stream \o Sent(1) \o Sent(2) \o Sent(3)
       /\ request' = [request EXCEPT
            !.modules = Rest(@, amount.rows[1]),
            !.json = Rest(@, amount.rows[2]),
            !.errors = Rest(@, amount.rows[3]),
            !.pendingChunks = left,
            !.flowing = ~amount.isFull]
       /\ ended' = (ended \/ left = 0)
       /\ hitches' = IF amount.isFull THEN hitches + 1 ELSE hitches
       /\ retrying' = then
       /\ UNCHANGED <<program, waiting, clientVars>>

EndPerformWork ==
  /\ ~ServerIdle
  /\ Head(retrying) = TheFlush
  /\ IF request.flowing THEN FlushCompletedChunks(<<>>)
     ELSE /\ retrying' = <<>>
          /\ UNCHANGED <<program, request, waiting, ended, stream, clientVars, hitches>>

\* startFlowing, when the destination is given or takes more
StartFlowing ==
  /\ ServerIdle
  /\ ~request.flowing
  /\ FlushCompletedChunks(<<>>)

-----------------------------------------------------------------------------
(* The client: rows                                                          *)

NewChunkOf(status, refs) == [status |-> status, refs |-> refs, listeners |-> {}]

\* wakeChunk: those that listen will read again.
Wake(ids) ==
  readers' = [r \in DOMAIN readers |->
    IF \E id \in ids \cap DOMAIN chunks : r \in chunks[id].listeners THEN "ready"
    ELSE readers[r]]

IsPending(id) == id \in DOMAIN chunks /\ chunks[id].status = "pending"

\* Mutant: the row makes a chunk of its own, as that of a symbol does.
ResolveAnew(id, status, refs) ==
  /\ chunks' = Extended(chunks, id, NewChunkOf(status, refs))
  /\ UNCHANGED readers

\* resolveModel, resolveModule and resolveError: a chunk that nobody asked for is
\* made, one that is pending is resolved, one that is settled left alone.
Resolve(id, status, refs) ==
  IF id \in DOMAIN chunks /\ ~IsPending(id)
  THEN UNCHANGED <<chunks, readers>>
  ELSE chunks' = Extended(chunks, id, NewChunkOf(status, refs)) /\ Wake({id})

\* resolveSymbol and resolveProvider make a new chunk, whoever listens to the old one.
Initialize(id) ==
  /\ chunks' = Extended(chunks, id, NewChunkOf("initialized", <<>>))
  /\ UNCHANGED readers

\* processFullRow
ProcessFullRow ==
  /\ response = "open"
  /\ stream # <<>>
  /\ LET row == Head(stream)
     IN CASE row.tag = "J" -> Resolve(row.id, "model", row.refs)
          [] row.tag = "M" -> Resolve(row.id, "module", <<>>)
          [] row.tag = "E" -> Resolve(row.id, "errored", <<>>)
          [] row.tag \in {"P", "S"} -> Initialize(row.id)
  /\ stream' = Tail(stream)
  /\ UNCHANGED <<serverVars, response, hitches>>

\* reportGlobalError, when the stream ends or fails
ReportGlobalError ==
  /\ response = "open"
  /\ response' \in {"failed"} \cup (IF stream = <<>> /\ ended THEN {"closed"} ELSE {})
  /\ chunks' = [id \in DOMAIN chunks |->
                  IF IsPending(id) THEN NewChunkOf("errored", <<>>) ELSE chunks[id]]
  /\ Wake(DOMAIN chunks)
  /\ UNCHANGED <<serverVars, stream, hitches>>

-----------------------------------------------------------------------------
(* The client: reading                                                       *)

StatusOf(id) == IF id \in DOMAIN chunks THEN chunks[id].status ELSE "missing"

\* then, called with the chunk that was thrown
Listen(r, id, cs) == [cs EXCEPT ![id].listeners = @ \cup {r}]

\* readChunk of a chunk without references
ReadPlainChunk(r) ==
  LET found == IF r \in DOMAIN chunks THEN chunks
               ELSE Extended(chunks, r, NewChunkOf("pending", <<>>))
      status == found[r].status
  IN /\ readers[r] = "ready"
     /\ status # "model"
     /\ chunks' = CASE status = "pending" -> Listen(r, r, found)
                    [] status = "module" -> [chunks EXCEPT ![r].status = "initialized"]
                    [] OTHER -> chunks
     /\ readers' = [readers EXCEPT ![r] = CASE status = "pending" -> "waiting"
                                            [] status = "errored" -> "failed"
                                            [] OTHER -> "done"]
     /\ UNCHANGED <<serverVars, stream, response, hitches>>

Blocks(ref) == ref.ref = "value" /\ StatusOf(ref.id) \in {"missing", "pending", "errored"}

\* What parseModel makes of the chunks: getChunk of each reference, readChunk of
\* those that are values
Parsed(refs) ==
  LET ids == {refs[i].id : i \in DOMAIN refs}
      values == {refs[i].id : i \in {j \in DOMAIN refs : refs[j].ref = "value"}}
  IN [id \in DOMAIN chunks \cup ids |->
        CASE StatusOf(id) = "missing" -> NewChunkOf("pending", <<>>)
          [] StatusOf(id) = "module" /\ id \in values ->
               [chunks[id] EXCEPT !.status = "initialized"]
          [] OTHER -> chunks[id]]

\* Who reads a lazy reference is rendered after the model.
Lazies(refs) == {refs[i].id : i \in {j \in DOMAIN refs : refs[j].ref = "lazy"}}

\* initializeModelChunk: parsing stops at the first value that is not there, and
\* starts again from the beginning when it is.
InitializeModelChunk(r) ==
  /\ readers[r] = "ready"
  /\ StatusOf(r) = "model"
  /\ LET refs == chunks[r].refs
         blocking == {i \in DOMAIN refs : Blocks(refs[i])}
         first == CHOOSE i \in blocking : \A j \in blocking : i <= j
         blocker == refs[first].id
     IN IF blocking = {}
        THEN /\ chunks' = [Parsed(refs) EXCEPT ![r].status = "initialized"]
             /\ readers' = [id \in DOMAIN readers \cup Lazies(refs) |->
                  CASE id = r -> "done"
                    [] id # r /\ id \in DOMAIN readers -> readers[id]
                    [] OTHER -> "ready"]
        ELSE /\ chunks' = IF StatusOf(blocker) = "errored" THEN Parsed(SubSeq(refs, 1, first))
                          ELSE Listen(r, blocker, Parsed(SubSeq(refs, 1, first)))
             /\ readers' = [readers EXCEPT
                  ![r] = IF StatusOf(blocker) = "errored" THEN "failed" ELSE "waiting"]
  /\ UNCHANGED <<serverVars, stream, response, hitches>>

-----------------------------------------------------------------------------
\* createRequest and startWork; createResponse and the component that reads the root
FlightInit ==
  /\ program \in Programs
  /\ request = [flowing |-> FALSE, scheduled |-> TRUE, pinged |-> <<RootId>>,
                nextChunkId |-> 1, pendingChunks |-> 1,
                segments |-> [id \in {RootId} |-> "root"],
                modules |-> <<>>, json |-> <<>>, errors |-> <<>>, written |-> <<>>,
                refs |-> <<>>, thrown |-> FALSE]
  /\ retrying = <<>>
  /\ waiting = {}
  /\ ended = FALSE
  /\ stream = <<>>
  /\ response = "open"
  /\ chunks = <<>>
  /\ readers = [id \in {RootId} |-> "ready"]
  /\ hitches = 0

FlightNext ==
  \/ \E id \in waiting : PingSegment(id)
  \/ PerformWork \/ RetrySegment \/ EndPerformWork \/ StartFlowing
  \/ ProcessFullRow \/ ReportGlobalError
  \/ \E r \in DOMAIN readers : ReadPlainChunk(r) \/ InitializeModelChunk(r)

FlightSpec == FlightInit /\ [][FlightNext]_flightVars

-----------------------------------------------------------------------------
(* Properties.                                                               *)

\* What the server is still to render or to send
Unsent ==
  waiting \cup ToSet(request.pinged) \cup (ToSet(retrying) \ {TheFlush})
    \cup {row.id : row \in ToSet(request.modules \o request.json \o request.errors)}

\* No reader sleeps over its chunk: it listens to a chunk that is pending and
\* whose row is on its way, unless the stream has failed.
WaitersAreServed ==
  \A r \in DOMAIN readers : readers[r] = "waiting" =>
    \E id \in DOMAIN chunks :
      /\ r \in chunks[id].listeners
      /\ IsPending(id)
      /\ id \in Unsent \cup {row.id : row \in ToSet(stream)} \/ response = "failed"

\* The stream is closed as soon as everything was rendered and sent, and not
\* before: pendingChunks counts both, through suspended parts, errors that take
\* the place of a model, and flushes that stop half-way.
ClosesWhenAllIsSent == ServerIdle => (ended <=> Unsent = {})

\* resolveSymbol: "We assume that we'll always emit the symbol before anything
\* references it".  A flush that finds the destination full among the symbols goes
\* on with a model all the same.
SymbolsComeFirst ==
  stream # <<>> /\ Head(stream).tag = "S" => Head(stream).id \notin DOMAIN chunks
=============================================================================
