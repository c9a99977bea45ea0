---------------------------- MODULE FlightProofs ----------------------------
(***************************************************************************)
(* Proofs about Flight, for any programs that end, any number of rows and  *)
(* any order in which the parts are rendered, sent, received and read.     *)
(*                                                                         *)
(* The server: pendingChunks is the number of segments that wait, are      *)
(* pinged or are to be retried, and of rows that wait to be sent           *)
(* (CountInv), where no segment is counted twice (WorkInv).                *)
(*                                                                         *)
(* The client: every id that it or a row has heard of is that of a segment *)
(* or a row to come, or of a chunk that is settled (ServedInv).  A row     *)
(* that is taken for new, whoever waits for it, comes before all that      *)
(* mentions it (OrderInv).                                                 *)
(***************************************************************************)
EXTENDS Flight, WellFoundedInduction, SequenceTheorems, FiniteSetTheorems, TLAPS

-----------------------------------------------------------------------------
(* What a state is made of: rows, chunks and a request whose ids are below n *)

Partial(A, B) == UNION {[S -> B] : S \in SUBSET A}

\* No program passes a symbol.
NoSymbols ==
  \A p \in Programs : \A c \in DOMAIN p : \A i \in DOMAIN p[c] : p[c][i].kind # "symbol"

Known(n) == 0..(n - 1)
Refs(n) == [ref : {"lazy", "value"}, id : Known(n)]
ModuleTags == IF NoSymbols THEN {"M"} ELSE {"M", "S"}
ModuleRows(n) == [tag : ModuleTags, id : Known(n), refs : {<<>>}]
ErrorRows(n) == [tag : {"E"}, id : Known(n), refs : {<<>>}]
ModelRows(n) == [tag : {"J"}, id : Known(n), refs : Seq(Refs(n))]
ProviderRows(n) == [tag : {"P"}, id : Known(n), refs : {<<>>}]
JsonRows(n) == ModelRows(n) \cup ProviderRows(n)
Rows(n) == ModuleRows(n) \cup JsonRows(n) \cup ErrorRows(n)

Requests(n) ==
  [flowing : BOOLEAN, scheduled : BOOLEAN, pinged : Seq(Known(n)), nextChunkId : {n},
   pendingChunks : Int, segments : Partial(Known(n), Names),
   modules : Seq(ModuleRows(n)), json : Seq(JsonRows(n)), errors : Seq(ErrorRows(n)),
   written : Partial(ItemNames(program), Known(n)), refs : Seq(Refs(n)),
   thrown : BOOLEAN]

Statuses == {"pending", "model", "module", "errored", "initialized"}
ChunksOf(n) == [status : Statuses, refs : Seq(Refs(n)), listeners : SUBSET Known(n)]

-----------------------------------------------------------------------------
(* What is in rows                                                           *)

RowIds(s) == {s[i].id : i \in DOMAIN s}
RefsIn(refs) == {refs[i].id : i \in DOMAIN refs}
RowRefs(s) == UNION {RefsIn(s[i].refs) : i \in DOMAIN s}
Mentions(s) == RowIds(s) \cup RowRefs(s)

\* The rows of providers, which the client takes as new
ProviderIds(s) == {s[i].id : i \in {j \in DOMAIN s : s[j].tag = "P"}}

\* No row before that of a provider mentions it.
InOrder(s) ==
  \A i, j \in DOMAIN s :
    i < j /\ s[j].tag = "P" => s[j].id # s[i].id /\ s[j].id \notin RefsIn(s[i].refs)

QueueIds(req) == RowIds(req.modules) \cup RowIds(req.json) \cup RowIds(req.errors)
QueueLength(req) == Len(req.modules) + Len(req.json) + Len(req.errors)
WrittenIds(req) == {req.written[x] : x \in DOMAIN req.written}

RequestInOrder(req) ==
  /\ InOrder(req.json)
  /\ ProviderIds(req.json) \cap (DOMAIN req.segments \cup WrittenIds(req)
       \cup RowIds(req.modules) \cup RowIds(req.errors)) = {}

-----------------------------------------------------------------------------
(* The inductive invariant                                                   *)

N == request.nextChunkId

ClientInv(n) ==
  /\ response \in {"open", "closed", "failed"}
  /\ chunks \in Partial(Known(n), ChunksOf(n))
  /\ readers \in Partial(Known(n), {"ready", "waiting", "failed", "done"})

TypeInv ==
  /\ program \in Programs
  /\ N \in Nat
  /\ request \in Requests(N)
  /\ waiting \subseteq DOMAIN request.segments
  /\ request.pinged \in Seq(DOMAIN request.segments)
  /\ retrying \in Seq(DOMAIN request.segments \cup {TheFlush})
  /\ stream \in Seq(Rows(N))
  /\ ended \in BOOLEAN
  /\ ClientInv(N)

Injective(s) == \A i, j \in DOMAIN s : s[i] = s[j] => i = j

\* Every segment that is not a row yet waits, is pinged or is retried, once.
WorkInv ==
  /\ retrying # <<>> =>
       /\ request.pinged = <<>>
       /\ \A i \in DOMAIN retrying : retrying[i] = TheFlush <=> i = Len(retrying)
  /\ Injective(request.pinged) /\ Injective(retrying)
  /\ \A i \in DOMAIN request.pinged : request.pinged[i] \notin waiting
  /\ \A i \in DOMAIN retrying : retrying[i] \notin waiting

ToRetry == IF retrying = <<>> THEN 0 ELSE Len(retrying) - 1

\* pendingChunks counts what is to be rendered and what is to be sent.
CountInv ==
  /\ request.pendingChunks =
       Cardinality(waiting) + Len(request.pinged) + ToRetry + QueueLength(request)
  /\ ended <=> request.pendingChunks = 0

\* What the client has heard of
Met ==
  DOMAIN chunks \cup DOMAIN readers
    \cup UNION {RefsIn(chunks[id].refs) : id \in DOMAIN chunks}

\* The rows of providers come first.
OrderInv ==
  /\ RequestInOrder(request)
  /\ InOrder(stream)
  /\ ProviderIds(request.json) \cap (Mentions(stream) \cup Met) = {}
  /\ ProviderIds(stream) \cap Met = {}

Coming == Unsent \cup RowIds(stream)
Settled == {id \in DOMAIN chunks : chunks[id].status # "pending"}

\* What was referred to comes.
ServedInv ==
  Met \cup WrittenIds(request) \cup RowRefs(request.json) \cup RowRefs(stream)
    \subseteq Coming \cup Settled

\* Whoever waits is called when its chunk comes (of programs without symbols).
ListenInv ==
  \A r \in DOMAIN readers : readers[r] = "waiting" =>
    \E id \in DOMAIN chunks : r \in chunks[id].listeners /\ chunks[id].status = "pending"

IInv == TypeInv /\ WorkInv /\ CountInv /\ OrderInv /\ ServedInv

-----------------------------------------------------------------------------
(* Sequences of rows                                                         *)

\* Where the elements of two sequences are in the one that joins them
Joins(u, s, t) ==
  /\ \A i \in DOMAIN u : \/ i \in DOMAIN s /\ u[i] = s[i]
                         \/ \E j \in DOMAIN t : i = Len(s) + j /\ u[i] = t[j]
  /\ \A i \in DOMAIN s : i \in DOMAIN u /\ u[i] = s[i]
  /\ \A j \in DOMAIN t : Len(s) + j \in DOMAIN u /\ u[Len(s) + j] = t[j]

LEMMA ConcatJoins ==
  ASSUME NEW S, NEW s \in Seq(S), NEW t \in Seq(S)
  PROVE  s \o t \in Seq(S) /\ Joins(s \o t, s, t)
<1> DEFINE u == s \o t
<1>1. /\ u \in Seq(S) /\ Len(u) = Len(s) + Len(t)
      /\ \A i \in 1..(Len(s) + Len(t)) : u[i] = IF i <= Len(s) THEN s[i] ELSE t[i - Len(s)]
  BY ConcatProperties
<1>2. PICK l, k : l = Len(s) /\ k = Len(t)
  OBVIOUS
<1>3. l \in Nat /\ k \in Nat /\ DOMAIN u = 1..(l + k) /\ DOMAIN s = 1..l /\ DOMAIN t = 1..k
  BY <1>1, <1>2, LenProperties
<1> HIDE DEF u
<1>4. \A i \in 1..(l + k) : u[i] = IF i <= l THEN s[i] ELSE t[i - l]
  BY <1>1, <1>2
<1>5. ASSUME NEW i \in DOMAIN u
      PROVE  \/ i \in DOMAIN s /\ u[i] = s[i]
             \/ \E j \in DOMAIN t : i = l + j /\ u[i] = t[j]
  <2>1. CASE i <= l
    BY <1>3, <1>4, <2>1
  <2>2. CASE ~(i <= l)
    <3>1. i - l \in 1..k /\ i = l + (i - l) /\ u[i] = t[i - l]
      BY <1>3, <1>4, <2>2
    <3> QED BY <1>3, <3>1
  <2> QED BY <2>1, <2>2
<1>6. ASSUME NEW i \in DOMAIN s
      PROVE  i \in DOMAIN u /\ u[i] = s[i]
  BY <1>3, <1>4
<1>7. ASSUME NEW j \in DOMAIN t
      PROVE  l + j \in DOMAIN u /\ u[l + j] = t[j]
  <2>1. l + j \in 1..(l + k) /\ ~(l + j <= l) /\ (l + j) - l = j
    BY <1>3
  <2> QED BY <1>3, <1>4, <2>1
<1> QED BY <1>1, <1>2, <1>5, <1>6, <1>7 DEF Joins, u

LEMMA JoinedRows ==
  ASSUME NEW u, NEW s, NEW t, Joins(u, s, t)
  PROVE  /\ RowIds(u) = RowIds(s) \cup RowIds(t)
         /\ RowRefs(u) = RowRefs(s) \cup RowRefs(t)
         /\ ProviderIds(u) = ProviderIds(s) \cup ProviderIds(t)
         /\ Mentions(u) = Mentions(s) \cup Mentions(t)
<1>1. RowIds(u) = RowIds(s) \cup RowIds(t)
  BY DEF RowIds, Joins
<1>2. RowRefs(u) = RowRefs(s) \cup RowRefs(t)
  <2>1. RowRefs(u) \subseteq RowRefs(s) \cup RowRefs(t)
    BY DEF RowRefs, Joins
  <2>2. RowRefs(s) \subseteq RowRefs(u)
    BY DEF RowRefs, Joins
  <2>3. RowRefs(t) \subseteq RowRefs(u)
    BY DEF RowRefs, Joins
  <2> QED BY <2>1, <2>2, <2>3
<1>3. ProviderIds(u) = ProviderIds(s) \cup ProviderIds(t)
  <2>1. ProviderIds(u) \subseteq ProviderIds(s) \cup ProviderIds(t)
    BY DEF ProviderIds, Joins
  <2>2. ProviderIds(s) \subseteq ProviderIds(u)
    BY DEF ProviderIds, Joins
  <2>3. ProviderIds(t) \subseteq ProviderIds(u)
    BY DEF ProviderIds, Joins
  <2> QED BY <2>1, <2>2, <2>3
<1> QED BY <1>1, <1>2, <1>3 DEF Mentions

LEMMA JoinedOrder ==
  ASSUME NEW S, NEW s \in Seq(S), NEW t \in Seq(S)
  PROVE  InOrder(s \o t) <=>
           InOrder(s) /\ InOrder(t) /\ ProviderIds(t) \cap Mentions(s) = {}
<1> DEFINE u == s \o t
<1>1. Joins(u, s, t)
  BY ConcatJoins
<1>2. PICK l, k : /\ l = Len(s) /\ k = Len(t) /\ l \in Nat /\ k \in Nat
                  /\ DOMAIN s = 1..l /\ DOMAIN t = 1..k
  BY LenProperties
<1> HIDE DEF u
<1>3. \A i \in DOMAIN u : \/ i \in DOMAIN s /\ u[i] = s[i]
                          \/ \E j \in DOMAIN t : i = l + j /\ u[i] = t[j]
  BY <1>1, <1>2 DEF Joins
<1>4. \A i \in DOMAIN s : i \in DOMAIN u /\ u[i] = s[i]
  BY <1>1 DEF Joins
<1>5. \A j \in DOMAIN t : l + j \in DOMAIN u /\ u[l + j] = t[j]
  BY <1>1, <1>2 DEF Joins
<1>6. ASSUME InOrder(u)
      PROVE  InOrder(s) /\ InOrder(t) /\ ProviderIds(t) \cap Mentions(s) = {}
  <2>1. InOrder(s)
    BY <1>4, <1>6 DEF InOrder
  <2>2. InOrder(t)
    <3> SUFFICES ASSUME NEW i \in DOMAIN t, NEW j \in DOMAIN t, i < j, t[j].tag = "P"
                 PROVE  t[j].id # t[i].id /\ t[j].id \notin RefsIn(t[i].refs)
      BY DEF InOrder
    <3>1. l + i < l + j /\ l + i \in DOMAIN u /\ l + j \in DOMAIN u
          /\ u[l + i] = t[i] /\ u[l + j] = t[j]
      BY <1>2, <1>5
    <3> QED BY <1>6, <3>1 DEF InOrder
  <2>3. ASSUME NEW i \in DOMAIN s, NEW j \in DOMAIN t, t[j].tag = "P"
        PROVE  t[j].id # s[i].id /\ t[j].id \notin RefsIn(s[i].refs)
    <3>1. i < l + j /\ i \in DOMAIN u /\ l + j \in DOMAIN u
          /\ u[i] = s[i] /\ u[l + j] = t[j]
      BY <1>2, <1>4, <1>5
    <3> QED BY <1>6, <2>3, <3>1 DEF InOrder
  <2> QED BY <2>1, <2>2, <2>3 DEF ProviderIds, Mentions, RowIds, RowRefs
<1>7. ASSUME InOrder(s), InOrder(t), ProviderIds(t) \cap Mentions(s) = {}
      PROVE  InOrder(u)
  <2> SUFFICES ASSUME NEW i \in DOMAIN u, NEW j \in DOMAIN u, i < j, u[j].tag = "P"
               PROVE  u[j].id # u[i].id /\ u[j].id \notin RefsIn(u[i].refs)
    BY DEF InOrder
  <2>1. CASE j \in DOMAIN s /\ u[j] = s[j]
    <3>1. i \in DOMAIN s /\ u[i] = s[i]
      BY <1>2, <1>3, <2>1
    <3> QED BY <1>7, <2>1, <3>1 DEF InOrder
  <2>2. ASSUME NEW b \in DOMAIN t, j = l + b, u[j] = t[b]
        PROVE  u[j].id # u[i].id /\ u[j].id \notin RefsIn(u[i].refs)
    <3>1. CASE i \in DOMAIN s /\ u[i] = s[i]
      <4>1. t[b].id \in ProviderIds(t)
        BY <2>2 DEF ProviderIds
      <4>2. s[i].id \in Mentions(s) /\ RefsIn(s[i].refs) \subseteq Mentions(s)
        BY <3>1 DEF Mentions, RowIds, RowRefs
      <4> QED BY <1>7, <2>2, <3>1, <4>1, <4>2
    <3>2. ASSUME NEW a \in DOMAIN t, i = l + a, u[i] = t[a]
          PROVE  u[j].id # u[i].id /\ u[j].id \notin RefsIn(u[i].refs)
      <4>1. a < b
        BY <1>2, <2>2, <3>2
      <4> QED BY <1>7, <2>2, <3>2, <4>1 DEF InOrder
    <3> QED BY <1>3, <3>1, <3>2
  <2> QED BY <1>3, <2>1, <2>2
<1> QED BY <1>6, <1>7 DEF u

LEMMA NoRows ==
  /\ RowIds(<<>>) = {} /\ RowRefs(<<>>) = {} /\ ProviderIds(<<>>) = {}
  /\ Mentions(<<>>) = {} /\ InOrder(<<>>)
BY DEF RowIds, RowRefs, ProviderIds, Mentions, InOrder

LEMMA OneRow ==
  ASSUME NEW row
  PROVE  /\ RowIds(<<row>>) = {row.id} /\ RowRefs(<<row>>) = RefsIn(row.refs)
         /\ Mentions(<<row>>) = {row.id} \cup RefsIn(row.refs)
         /\ ProviderIds(<<row>>) = IF row.tag = "P" THEN {row.id} ELSE {}
         /\ InOrder(<<row>>)
<1> DEFINE s == <<row>>
<1>1. DOMAIN s = {1} /\ s[1] = row
  OBVIOUS
<1> HIDE DEF s
<1>2. RowIds(s) = {row.id} /\ RowRefs(s) = RefsIn(row.refs)
  BY <1>1 DEF RowIds, RowRefs
<1>3. ProviderIds(s) = IF row.tag = "P" THEN {row.id} ELSE {}
  BY <1>1 DEF ProviderIds
<1>4. InOrder(s)
  BY <1>1 DEF InOrder
<1> QED BY <1>2, <1>3, <1>4 DEF Mentions, s

LEMMA NoRefs == RefsIn(<<>>) = {}
BY DEF RefsIn

\* Appending a row
LEMMA RowAppended ==
  ASSUME NEW S, NEW s \in Seq(S), NEW row \in S
  PROVE  /\ Append(s, row) \in Seq(S) /\ Len(Append(s, row)) = Len(s) + 1
         /\ RowIds(Append(s, row)) = RowIds(s) \cup {row.id}
         /\ RowRefs(Append(s, row)) = RowRefs(s) \cup RefsIn(row.refs)
         /\ ProviderIds(Append(s, row)) =
              ProviderIds(s) \cup IF row.tag = "P" THEN {row.id} ELSE {}
         /\ InOrder(Append(s, row)) <=>
              InOrder(s) /\ (row.tag = "P" => row.id \notin Mentions(s))
<1>1. <<row>> \in Seq(S) /\ Append(s, row) = s \o <<row>>
  BY AppendIsConcat
<1>2. Append(s, row) \in Seq(S) /\ Len(Append(s, row)) = Len(s) + 1
  BY AppendProperties
<1>3. Joins(s \o <<row>>, s, <<row>>)
  BY <1>1, ConcatJoins
<1>4. /\ RowIds(s \o <<row>>) = RowIds(s) \cup RowIds(<<row>>)
      /\ RowRefs(s \o <<row>>) = RowRefs(s) \cup RowRefs(<<row>>)
      /\ ProviderIds(s \o <<row>>) = ProviderIds(s) \cup ProviderIds(<<row>>)
  BY <1>3, JoinedRows
<1>5. InOrder(s \o <<row>>) <=>
        InOrder(s) /\ InOrder(<<row>>) /\ ProviderIds(<<row>>) \cap Mentions(s) = {}
  BY <1>1, JoinedOrder
<1>6. InOrder(Append(s, row)) <=>
        InOrder(s) /\ (row.tag = "P" => row.id \notin Mentions(s))
  BY <1>1, <1>5, OneRow
<1> QED BY <1>1, <1>2, <1>4, <1>6, OneRow

\* The first n rows and the rest
LEMMA RowsSplit ==
  ASSUME NEW S, NEW s \in Seq(S), NEW n \in 0..Len(s)
  PROVE  /\ SubSeq(s, 1, n) \in Seq(S) /\ Rest(s, n) \in Seq(S)
         /\ Len(SubSeq(s, 1, n)) = n /\ Len(Rest(s, n)) = Len(s) - n
         /\ SubSeq(s, 1, n) \o Rest(s, n) = s
<1>1. PICK l : l = Len(s) /\ l \in Nat /\ DOMAIN s = 1..l
  BY LenProperties
<1>2. n \in Nat /\ n <= l
  BY <1>1
<1>3. \A i \in 1..l : s[i] \in S
  BY <1>1, ElementOfSeq
<1>4. SubSeq(s, 1, n) \in Seq(S) /\ Len(SubSeq(s, 1, n)) = n
  <2>1. \A i \in 1..n : s[i] \in S
    BY <1>2, <1>1, <1>3
  <2>2. SubSeq(s, 1, n) \in Seq(S) /\ Len(SubSeq(s, 1, n)) = IF 1 <= n THEN n - 1 + 1 ELSE 0
    BY <1>2, <2>1, SubSeqProperties
  <2> QED BY <1>2, <2>2
<1>5. SubSeq(s, n + 1, l) \in Seq(S) /\ Len(SubSeq(s, n + 1, l)) = l - n
  <2>1. \A i \in (n + 1)..l : s[i] \in S
    BY <1>1, <1>2, <1>3
  <2>2. /\ SubSeq(s, n + 1, l) \in Seq(S)
        /\ Len(SubSeq(s, n + 1, l)) = IF n + 1 <= l THEN l - (n + 1) + 1 ELSE 0
    BY <1>1, <1>2, <2>1, SubSeqProperties
  <2> QED BY <1>1, <1>2, <2>2
<1>6. SubSeq(s, 1, n) \o SubSeq(s, n + 1, l) = SubSeq(s, 1, l)
  <2>1. 1 \in 1..(l + 1) /\ n \in (1 - 1)..l /\ l \in n..l
    BY <1>1, <1>2
  <2> QED BY <1>1, <2>1, ConcatAdjacentSubSeq
<1>7. SubSeq(s, 1, l) = s
  BY <1>1, SubSeqFull
<1> QED BY <1>1, <1>4, <1>5, <1>6, <1>7 DEF Rest

LEMMA RowsTaken ==
  ASSUME NEW S, NEW s \in Seq(S), s # <<>>
  PROVE  /\ Head(s) \in S /\ Tail(s) \in Seq(S) /\ Len(Tail(s)) = Len(s) - 1
         /\ <<Head(s)>> \in Seq(S) /\ s = <<Head(s)>> \o Tail(s)
<1>1. /\ Head(s) \in S /\ Tail(s) \in Seq(S) /\ Len(Tail(s)) = Len(s) - 1
      /\ \A i \in 1..Len(Tail(s)) : Tail(s)[i] = s[i + 1]
  BY HeadTailProperties
<1>2. <<Head(s)>> \in Seq(S)
  BY <1>1
<1>3. Len(s) \in Nat /\ 1 \in 1..Len(s) /\ Len(s) \in 1..Len(s)
  BY EmptySeq
<1>4. SubSeq(s, 1, Len(s)) = <<s[1]>> \o SubSeq(s, 1 + 1, Len(s))
  BY <1>3, SubSeqRecursiveFirst
<1>5. SubSeq(s, 1, Len(s)) = s /\ Tail(s) = SubSeq(s, 2, Len(s)) /\ Head(s) = s[1]
  BY SubSeqFull, TailIsSubSeq
<1> QED BY <1>1, <1>2, <1>4, <1>5

-----------------------------------------------------------------------------
(* Ids                                                                       *)

LEMMA SequencesGrow ==
  ASSUME NEW S, NEW T, S \subseteq T
  PROVE  Seq(S) \subseteq Seq(T)
BY SeqMonotonic

LEMMA PartialsGrow ==
  ASSUME NEW A, NEW B, NEW C, NEW D, A \subseteq C, B \subseteq D
  PROVE  Partial(A, B) \subseteq Partial(C, D)
<1> SUFFICES ASSUME NEW S \in SUBSET A, NEW f \in [S -> B]
             PROVE  f \in Partial(C, D)
  BY DEF Partial
<1>1. S \in SUBSET C /\ f \in [S -> D]
  OBVIOUS
<1> QED BY <1>1 DEF Partial

LEMMA PartialIs ==
  ASSUME NEW A, NEW B, NEW f
  PROVE  f \in Partial(A, B) <=> f = [x \in DOMAIN f |-> f[x]] /\ DOMAIN f \subseteq A
                                  /\ \A x \in DOMAIN f : f[x] \in B
<1>1. ASSUME f \in Partial(A, B)
      PROVE  f = [x \in DOMAIN f |-> f[x]] /\ DOMAIN f \subseteq A
             /\ \A x \in DOMAIN f : f[x] \in B
  BY <1>1 DEF Partial
<1>2. ASSUME f = [x \in DOMAIN f |-> f[x]], DOMAIN f \subseteq A,
             \A x \in DOMAIN f : f[x] \in B
      PROVE  f \in Partial(A, B)
  <2>1. DOMAIN f \in SUBSET A /\ f \in [DOMAIN f -> B]
    BY <1>2
  <2> QED BY <2>1 DEF Partial
<1> QED BY <1>1, <1>2

LEMMA MoreKnown ==
  ASSUME NEW n \in Nat, NEW m \in Nat, n <= m
  PROVE  /\ Known(n) \subseteq Known(m) /\ Refs(n) \subseteq Refs(m)
         /\ Seq(Refs(n)) \subseteq Seq(Refs(m)) /\ ModuleRows(n) \subseteq ModuleRows(m)
         /\ ErrorRows(n) \subseteq ErrorRows(m) /\ JsonRows(n) \subseteq JsonRows(m)
         /\ Rows(n) \subseteq Rows(m) /\ ChunksOf(n) \subseteq ChunksOf(m)
<1>1. Known(n) \subseteq Known(m)
  BY DEF Known
<1>2. Refs(n) \subseteq Refs(m)
  BY <1>1 DEF Refs
<1>3. Seq(Refs(n)) \subseteq Seq(Refs(m))
  BY <1>2, SequencesGrow
<1>4. ModuleRows(n) \subseteq ModuleRows(m) /\ ErrorRows(n) \subseteq ErrorRows(m)
  BY <1>1 DEF ModuleRows, ErrorRows
<1>5. JsonRows(n) \subseteq JsonRows(m)
  BY <1>1, <1>3 DEF JsonRows, ModelRows, ProviderRows
<1>6. ChunksOf(n) \subseteq ChunksOf(m)
  BY <1>1, <1>3 DEF ChunksOf
<1> QED BY <1>1, <1>2, <1>3, <1>4, <1>5, <1>6 DEF Rows

LEMMA Fresh ==
  ASSUME NEW n \in Nat
  PROVE  n \notin Known(n) /\ n \in Known(n + 1) /\ n + 1 \in Nat /\ n <= n + 1
BY DEF Known

LEMMA RowsKnown ==
  ASSUME NEW n \in Nat, NEW s \in Seq(Rows(n))
  PROVE  /\ RowIds(s) \subseteq Known(n) /\ RowRefs(s) \subseteq Known(n)
         /\ ProviderIds(s) \subseteq RowIds(s) /\ Mentions(s) \subseteq Known(n)
<1>1. \A i \in DOMAIN s : s[i] \in Rows(n)
  BY ElementOfSeq, LenProperties
<1>2. ASSUME NEW row \in Rows(n)
      PROVE  row.id \in Known(n) /\ RefsIn(row.refs) \subseteq Known(n)
  <2>1. CASE row.refs = <<>> /\ row.id \in Known(n)
    BY <2>1, NoRefs
  <2>2. CASE row \in ModelRows(n)
    <3>1. row.id \in Known(n) /\ row.refs \in Seq(Refs(n))
      BY <2>2 DEF ModelRows
    <3>2. \A i \in DOMAIN row.refs : row.refs[i] \in Refs(n)
      BY <3>1, ElementOfSeq, LenProperties
    <3>3. \A i \in DOMAIN row.refs : row.refs[i].id \in Known(n)
      BY <3>2 DEF Refs
    <3> QED BY <3>1, <3>3 DEF RefsIn
  <2>3. (row.refs = <<>> /\ row.id \in Known(n)) \/ row \in ModelRows(n)
    BY DEF Rows, JsonRows, ModuleRows, ErrorRows, ProviderRows
  <2> QED BY <2>1, <2>2, <2>3
<1>3. RowIds(s) \subseteq Known(n)
  BY <1>1, <1>2 DEF RowIds
<1>4. RowRefs(s) \subseteq Known(n)
  BY <1>1, <1>2 DEF RowRefs
<1>5. ProviderIds(s) \subseteq RowIds(s)
  BY DEF ProviderIds, RowIds
<1> QED BY <1>3, <1>4, <1>5 DEF Mentions

\* The rows of modules and errors refer to nothing, and are none of providers.
LEMMA PlainRows ==
  ASSUME NEW n \in Nat, NEW s, s \in Seq(ModuleRows(n)) \/ s \in Seq(ErrorRows(n))
  PROVE  RowRefs(s) = {} /\ ProviderIds(s) = {} /\ Mentions(s) = RowIds(s) /\ InOrder(s)
         /\ s \in Seq(Rows(n))
<1>1. \A i \in DOMAIN s : s[i] \in ModuleRows(n) \cup ErrorRows(n)
  BY ElementOfSeq, LenProperties
<1>2. \A row \in ModuleRows(n) \cup ErrorRows(n) : row.refs = <<>> /\ row.tag # "P"
  BY DEF ModuleRows, ErrorRows, ModuleTags
<1>3. \A i \in DOMAIN s : s[i].refs = <<>> /\ s[i].tag # "P"
  BY <1>1, <1>2
<1>4. \A i \in DOMAIN s : RefsIn(s[i].refs) = {}
  BY <1>3, NoRefs
<1>5. RowRefs(s) = {}
  BY <1>4 DEF RowRefs
<1>6. ProviderIds(s) = {} /\ InOrder(s)
  BY <1>3 DEF ProviderIds, InOrder
<1>7. ModuleRows(n) \subseteq Rows(n) /\ ErrorRows(n) \subseteq Rows(n)
  BY DEF Rows
<1> QED BY <1>5, <1>6, <1>7, SequencesGrow DEF Mentions

LEMMA JsonRowsAre ==
  ASSUME NEW n \in Nat, NEW s \in Seq(JsonRows(n))
  PROVE  s \in Seq(Rows(n))
<1>1. JsonRows(n) \subseteq Rows(n)
  BY DEF Rows
<1> QED BY <1>1, SequencesGrow

-----------------------------------------------------------------------------
(* What rendering makes of a request                                         *)

LEMMA RequestFields ==
  ASSUME NEW n \in Nat, NEW a \in Requests(n)
  PROVE  /\ a = [flowing |-> a.flowing, scheduled |-> a.scheduled, pinged |-> a.pinged,
                 nextChunkId |-> a.nextChunkId, pendingChunks |-> a.pendingChunks,
                 segments |-> a.segments, modules |-> a.modules, json |-> a.json,
                 errors |-> a.errors, written |-> a.written, refs |-> a.refs,
                 thrown |-> a.thrown]
         /\ a.flowing \in BOOLEAN /\ a.scheduled \in BOOLEAN /\ a.pinged \in Seq(Known(n))
         /\ a.nextChunkId = n /\ a.pendingChunks \in Int
         /\ a.segments \in Partial(Known(n), Names) /\ a.modules \in Seq(ModuleRows(n))
         /\ a.json \in Seq(JsonRows(n)) /\ a.errors \in Seq(ErrorRows(n))
         /\ a.written \in Partial(ItemNames(program), Known(n))
         /\ a.refs \in Seq(Refs(n)) /\ a.thrown \in BOOLEAN
BY DEF Requests

IsRequest(a) ==
  /\ a.nextChunkId \in Nat
  /\ a \in Requests(a.nextChunkId)
  /\ RequestInOrder(a)

Referred(a) == RowRefs(a.json) \cup WrittenIds(a) \cup RefsIn(a.refs)

\* What is counted beside the rows and the segments that it makes
Surplus(a) == a.pendingChunks - (Cardinality(DOMAIN a.segments) + QueueLength(a))

Added(a, b) == DOMAIN b.segments \ DOMAIN a.segments

\* b is a after more was rendered.
Grows(a, b) ==
  /\ a.nextChunkId <= b.nextChunkId
  /\ b.flowing = a.flowing /\ b.scheduled = a.scheduled /\ b.pinged = a.pinged
  /\ DOMAIN a.segments \subseteq DOMAIN b.segments
  /\ Added(a, b) \cap Known(a.nextChunkId) = {}
  /\ QueueIds(a) \subseteq QueueIds(b)
  /\ Referred(b) \subseteq Referred(a) \cup QueueIds(b) \cup Added(a, b)
  /\ ProviderIds(b.json) \cap Known(a.nextChunkId) \subseteq ProviderIds(a.json)
  /\ Surplus(b) = Surplus(a)

LEMMA GrowsMore ==
  ASSUME NEW a, NEW b, NEW c, IsRequest(a), IsRequest(b), IsRequest(c),
         Grows(a, b), Grows(b, c)
  PROVE  Grows(a, c)
<1>1. a.nextChunkId \in Nat /\ b.nextChunkId \in Nat /\ c.nextChunkId \in Nat
  BY DEF IsRequest
<1>2. a.nextChunkId <= c.nextChunkId
  BY <1>1 DEF Grows
<1>3. Known(a.nextChunkId) \subseteq Known(b.nextChunkId)
  BY <1>1, MoreKnown DEF Grows
<1>4. Added(a, c) = Added(a, b) \cup Added(b, c)
  BY DEF Grows, Added
<1>5. Added(a, c) \cap Known(a.nextChunkId) = {}
  BY <1>3, <1>4 DEF Grows
<1>6. Referred(c) \subseteq Referred(a) \cup QueueIds(c) \cup Added(a, c)
  BY <1>4 DEF Grows
<1>7. ProviderIds(c.json) \cap Known(a.nextChunkId) \subseteq ProviderIds(a.json)
  BY <1>3 DEF Grows
<1> QED BY <1>2, <1>5, <1>6, <1>7 DEF Grows

LEMMA GrowsNothing ==
  ASSUME NEW a, IsRequest(a)
  PROVE  Grows(a, a)
<1>1. a.nextChunkId <= a.nextChunkId
  BY DEF IsRequest
<1>2. ProviderIds(a.json) \cap Known(a.nextChunkId) \subseteq ProviderIds(a.json)
  OBVIOUS
<1>3. Added(a, a) = {}
  BY DEF Added
<1> QED BY <1>1, <1>2, <1>3 DEF Grows

LEMMA KnownFinite ==
  ASSUME NEW n \in Nat, NEW S, S \subseteq Known(n)
  PROVE  IsFiniteSet(S) /\ Cardinality(S) \in Nat
<1>1. IsFiniteSet(Known(n))
  BY FS_Interval DEF Known
<1> QED BY <1>1, FS_Subset, FS_CardinalityType

LEMMA LengthNat ==
  ASSUME NEW S, NEW s \in Seq(S)
  PROVE  Len(s) \in Nat
OBVIOUS

\* A request by its fields
Made(flowing, scheduled, pinged, nextChunkId, pendingChunks, segments, modules, json,
     errors, written, refs, thrown) ==
  [flowing |-> flowing, scheduled |-> scheduled, pinged |-> pinged,
   nextChunkId |-> nextChunkId, pendingChunks |-> pendingChunks, segments |-> segments,
   modules |-> modules, json |-> json, errors |-> errors, written |-> written,
   refs |-> refs, thrown |-> thrown]

LEMMA MadeFields ==
  ASSUME NEW f, NEW s, NEW p, NEW n, NEW c, NEW g, NEW m, NEW j, NEW e, NEW w, NEW r, NEW t,
         NEW a, a = Made(f, s, p, n, c, g, m, j, e, w, r, t)
  PROVE  /\ a.flowing = f /\ a.scheduled = s /\ a.pinged = p /\ a.nextChunkId = n
         /\ a.pendingChunks = c /\ a.segments = g /\ a.modules = m /\ a.json = j
         /\ a.errors = e /\ a.written = w /\ a.refs = r /\ a.thrown = t
BY DEF Made

LEMMA MadeExcept ==
  ASSUME NEW f, NEW s, NEW p, NEW n, NEW c, NEW g, NEW m, NEW j, NEW e, NEW w, NEW r, NEW t,
         NEW a, a = Made(f, s, p, n, c, g, m, j, e, w, r, t)
  PROVE  /\ \A x : [a EXCEPT !.flowing = x] = Made(x, s, p, n, c, g, m, j, e, w, r, t)
         /\ \A x : [a EXCEPT !.scheduled = x] = Made(f, x, p, n, c, g, m, j, e, w, r, t)
         /\ \A x : [a EXCEPT !.pinged = x] = Made(f, s, x, n, c, g, m, j, e, w, r, t)
         /\ \A x : [a EXCEPT !.nextChunkId = x] = Made(f, s, p, x, c, g, m, j, e, w, r, t)
         /\ \A x : [a EXCEPT !.pendingChunks = x] = Made(f, s, p, n, x, g, m, j, e, w, r, t)
         /\ \A x : [a EXCEPT !.segments = x] = Made(f, s, p, n, c, x, m, j, e, w, r, t)
         /\ \A x : [a EXCEPT !.modules = x] = Made(f, s, p, n, c, g, x, j, e, w, r, t)
         /\ \A x : [a EXCEPT !.json = x] = Made(f, s, p, n, c, g, m, x, e, w, r, t)
         /\ \A x : [a EXCEPT !.errors = x] = Made(f, s, p, n, c, g, m, j, x, w, r, t)
         /\ \A x : [a EXCEPT !.written = x] = Made(f, s, p, n, c, g, m, j, e, x, r, t)
         /\ \A x : [a EXCEPT !.refs = x] = Made(f, s, p, n, c, g, m, j, e, w, x, t)
         /\ \A x : [a EXCEPT !.thrown = x] = Made(f, s, p, n, c, g, m, j, e, w, r, x)
BY DEF Made

LEMMA RequestMade ==
  ASSUME NEW n \in Nat, NEW a \in Requests(n)
  PROVE  a = Made(a.flowing, a.scheduled, a.pinged, a.nextChunkId, a.pendingChunks,
                  a.segments, a.modules, a.json, a.errors, a.written, a.refs, a.thrown)
BY DEF Requests, Made

LEMMA NewChunkIs ==
  ASSUME NEW a, IsRequest(a), NEW ref
  PROVE  NewChunk(a, ref) =
           Made(a.flowing, a.scheduled, a.pinged, a.nextChunkId + 1, a.pendingChunks + 1,
                a.segments, a.modules, a.json, a.errors, a.written,
                Append(a.refs, [ref |-> ref, id |-> a.nextChunkId]), a.thrown)
<1> DEFINE x == Append(a.refs, [ref |-> ref, id |-> a.nextChunkId])
           b == [a EXCEPT !.nextChunkId = a.nextChunkId + 1]
           c == [b EXCEPT !.pendingChunks = b.pendingChunks + 1]
           d == [c EXCEPT !.refs = Append(c.refs, [ref |-> ref, id |-> a.nextChunkId])]
<1>1. a = Made(a.flowing, a.scheduled, a.pinged, a.nextChunkId, a.pendingChunks,
               a.segments, a.modules, a.json, a.errors, a.written, a.refs, a.thrown)
  BY RequestMade DEF IsRequest
<1>2. b = Made(a.flowing, a.scheduled, a.pinged, a.nextChunkId + 1, a.pendingChunks,
               a.segments, a.modules, a.json, a.errors, a.written, a.refs, a.thrown)
  BY <1>1, MadeExcept
<1>3. NewChunk(a, ref) = d
  BY DEF NewChunk
<1> HIDE DEF b
<1>4. b.pendingChunks = a.pendingChunks /\ b.refs = a.refs
  BY <1>2, MadeFields
<1>5. c = Made(a.flowing, a.scheduled, a.pinged, a.nextChunkId + 1, a.pendingChunks + 1,
               a.segments, a.modules, a.json, a.errors, a.written, a.refs, a.thrown)
  BY <1>2, <1>4, MadeExcept
<1> HIDE DEF c
<1>6. c.refs = a.refs
  BY <1>5, MadeFields
<1>7. d = Made(a.flowing, a.scheduled, a.pinged, a.nextChunkId + 1, a.pendingChunks + 1,
               a.segments, a.modules, a.json, a.errors, a.written, x, a.thrown)
  <2>1. [c EXCEPT !.refs = x] =
          Made(a.flowing, a.scheduled, a.pinged, a.nextChunkId + 1, a.pendingChunks + 1,
               a.segments, a.modules, a.json, a.errors, a.written, x, a.thrown)
    <3> HIDE DEF x
    <3> QED BY <1>5, MadeExcept
  <2> QED BY <1>6, <2>1
<1> QED BY <1>3, <1>7

\* The reference to a new chunk
LEMMA RefsAppended ==
  ASSUME NEW n \in Nat, NEW m \in Nat, n <= m, NEW refs \in Seq(Refs(n)),
         NEW ref \in {"lazy", "value"}, NEW id \in Known(m)
  PROVE  /\ Append(refs, [ref |-> ref, id |-> id]) \in Seq(Refs(m))
         /\ RefsIn(Append(refs, [ref |-> ref, id |-> id])) = RefsIn(refs) \cup {id}
<1> DEFINE x == [ref |-> ref, id |-> id]
<1>1. x \in Refs(m) /\ x.id = id
  BY DEF Refs
<1> HIDE DEF x
<1>2. refs \in Seq(Refs(m))
  BY MoreKnown
<1>3. <<x>> \in Seq(Refs(m)) /\ Append(refs, x) = refs \o <<x>>
  BY <1>1, <1>2, AppendIsConcat
<1>4. Append(refs, x) \in Seq(Refs(m)) /\ Joins(refs \o <<x>>, refs, <<x>>)
  BY <1>2, <1>3, ConcatJoins
<1>5. DOMAIN <<x>> = {1} /\ <<x>>[1] = x
  OBVIOUS
<1>6. RefsIn(Append(refs, x)) = RefsIn(refs) \cup {x.id}
  BY <1>3, <1>4, <1>5 DEF RefsIn, Joins
<1> QED BY <1>1, <1>4, <1>6 DEF x

LEMMA EmitIs ==
  ASSUME NEW f, NEW s, NEW p, NEW n, NEW c, NEW g, NEW m, NEW j, NEW e, NEW w, NEW r, NEW t,
         NEW a, a = Made(f, s, p, n, c, g, m, j, e, w, r, t), NEW row,
         NEW queue \in {"modules", "json", "errors"}
  PROVE  Emit(a, queue, row) =
           Made(f, s, p, n, c, g,
                IF queue = "modules" THEN Append(m, row) ELSE m,
                IF queue = "json" THEN Append(j, row) ELSE j,
                IF queue = "errors" THEN Append(e, row) ELSE e, w, r, t)
<1>1. CASE queue = "modules"
  <2>1. Emit(a, queue, row) = [a EXCEPT !.modules = Append(a.modules, row)]
    BY <1>1 DEF Emit
  <2>2. a.modules = m
    BY MadeFields
  <2>3. [a EXCEPT !.modules = Append(m, row)] =
          Made(f, s, p, n, c, g, Append(m, row), j, e, w, r, t)
    <3>1. PICK x : x = Append(m, row)
      OBVIOUS
    <3>2. [a EXCEPT !.modules = x] = Made(f, s, p, n, c, g, x, j, e, w, r, t)
      BY MadeExcept
    <3> QED BY <3>1, <3>2
  <2> QED BY <1>1, <2>1, <2>2, <2>3
<1>2. CASE queue = "json"
  <2>1. Emit(a, queue, row) = [a EXCEPT !.json = Append(a.json, row)]
    BY <1>2 DEF Emit
  <2>2. a.json = j
    BY MadeFields
  <2>3. [a EXCEPT !.json = Append(j, row)] =
          Made(f, s, p, n, c, g, m, Append(j, row), e, w, r, t)
    <3>1. PICK x : x = Append(j, row)
      OBVIOUS
    <3>2. [a EXCEPT !.json = x] = Made(f, s, p, n, c, g, m, x, e, w, r, t)
      BY MadeExcept
    <3> QED BY <3>1, <3>2
  <2> QED BY <1>2, <2>1, <2>2, <2>3
<1>3. CASE queue = "errors"
  <2>1. Emit(a, queue, row) = [a EXCEPT !.errors = Append(a.errors, row)]
    BY <1>3 DEF Emit
  <2>2. a.errors = e
    BY MadeFields
  <2>3. [a EXCEPT !.errors = Append(e, row)] =
          Made(f, s, p, n, c, g, m, j, Append(e, row), w, r, t)
    <3>1. PICK x : x = Append(e, row)
      OBVIOUS
    <3>2. [a EXCEPT !.errors = x] = Made(f, s, p, n, c, g, m, j, x, w, r, t)
      BY MadeExcept
    <3> QED BY <3>1, <3>2
  <2> QED BY <1>3, <2>1, <2>2, <2>3
<1> QED BY <1>1, <1>2, <1>3

LEMMA NewRowIs ==
  ASSUME NEW a, IsRequest(a), NEW queue \in {"modules", "json", "errors"}, NEW tag, NEW ref,
         NEW row, row = [tag |-> tag, id |-> a.nextChunkId, refs |-> <<>>]
  PROVE  NewRow(a, queue, tag, ref) =
           Made(a.flowing, a.scheduled, a.pinged, a.nextChunkId + 1, a.pendingChunks + 1,
                a.segments,
                IF queue = "modules" THEN Append(a.modules, row) ELSE a.modules,
                IF queue = "json" THEN Append(a.json, row) ELSE a.json,
                IF queue = "errors" THEN Append(a.errors, row) ELSE a.errors, a.written,
                Append(a.refs, [ref |-> ref, id |-> a.nextChunkId]), a.thrown)
<1>1. NewRow(a, queue, tag, ref) = Emit(NewChunk(a, ref), queue, row)
  BY DEF NewRow
<1> QED BY <1>1, NewChunkIs, EmitIs

\* What a part of a model that gets a row at once makes of the request
RowMade(a, b, queue) ==
  /\ IsRequest(b) /\ Grows(a, b)
  /\ a.nextChunkId \in QueueIds(b) /\ b.nextChunkId = a.nextChunkId + 1
  /\ queue = "modules" => a.nextChunkId \notin ProviderIds(b.json)

LEMMA NewRowMade ==
  ASSUME NEW a, IsRequest(a), NEW queue, NEW tag, NEW ref \in {"lazy", "value"},
         \/ queue = "modules" /\ tag \in ModuleTags
         \/ queue = "json" /\ tag = "P"
         \/ queue = "errors" /\ tag = "E"
  PROVE  RowMade(a, NewRow(a, queue, tag, ref), queue)
<1> DEFINE n == a.nextChunkId
           m == n + 1
           row == [tag |-> tag, id |-> n, refs |-> <<>>]
           b == NewRow(a, queue, tag, ref)
<1>1. n \in Nat /\ a \in Requests(n) /\ RequestInOrder(a)
  BY DEF IsRequest
<1>2. m \in Nat /\ n <= m /\ n \notin Known(n) /\ n \in Known(m)
  BY <1>1, Fresh
<1>3. queue \in {"modules", "json", "errors"}
  OBVIOUS
<1>4. /\ b.flowing = a.flowing /\ b.scheduled = a.scheduled /\ b.pinged = a.pinged
      /\ b.nextChunkId = m /\ b.pendingChunks = a.pendingChunks + 1
      /\ b.segments = a.segments /\ b.written = a.written /\ b.thrown = a.thrown
      /\ b.modules = (IF queue = "modules" THEN Append(a.modules, row) ELSE a.modules)
      /\ b.json = (IF queue = "json" THEN Append(a.json, row) ELSE a.json)
      /\ b.errors = (IF queue = "errors" THEN Append(a.errors, row) ELSE a.errors)
      /\ b.refs = Append(a.refs, [ref |-> ref, id |-> n])
      /\ b = Made(b.flowing, b.scheduled, b.pinged, b.nextChunkId, b.pendingChunks,
                  b.segments, b.modules, b.json, b.errors, b.written, b.refs, b.thrown)
  <2>1. b = Made(a.flowing, a.scheduled, a.pinged, m, a.pendingChunks + 1, a.segments,
                 IF queue = "modules" THEN Append(a.modules, row) ELSE a.modules,
                 IF queue = "json" THEN Append(a.json, row) ELSE a.json,
                 IF queue = "errors" THEN Append(a.errors, row) ELSE a.errors, a.written,
                 Append(a.refs, [ref |-> ref, id |-> n]), a.thrown)
    BY <1>3, NewRowIs
  <2> DEFINE x == Append(a.refs, [ref |-> ref, id |-> n])
             mods == IF queue = "modules" THEN Append(a.modules, row) ELSE a.modules
             js == IF queue = "json" THEN Append(a.json, row) ELSE a.json
             errs == IF queue = "errors" THEN Append(a.errors, row) ELSE a.errors
             k == a.pendingChunks + 1
  <2>2. b = Made(a.flowing, a.scheduled, a.pinged, m, k, a.segments, mods, js, errs,
                 a.written, x, a.thrown)
    BY <2>1
  <2>3. /\ b.flowing = a.flowing /\ b.scheduled = a.scheduled /\ b.pinged = a.pinged
        /\ b.nextChunkId = m /\ b.pendingChunks = k /\ b.segments = a.segments
        /\ b.modules = mods /\ b.json = js /\ b.errors = errs /\ b.written = a.written
        /\ b.refs = x /\ b.thrown = a.thrown
    <3> HIDE DEF b, m, k, mods, js, errs, x
    <3> QED BY <2>2, MadeFields
  <2> HIDE DEF b, m, n, row
  <2> QED BY <2>2, <2>3, ZenonT(40)
<1>5. /\ a.flowing \in BOOLEAN /\ a.scheduled \in BOOLEAN /\ a.pinged \in Seq(Known(n))
      /\ a.pendingChunks \in Int
      /\ a.segments \in Partial(Known(n), Names) /\ a.modules \in Seq(ModuleRows(n))
      /\ a.json \in Seq(JsonRows(n)) /\ a.errors \in Seq(ErrorRows(n))
      /\ a.written \in Partial(ItemNames(program), Known(n))
      /\ a.refs \in Seq(Refs(n)) /\ a.thrown \in BOOLEAN
  BY <1>1, RequestFields
<1>6. /\ queue = "modules" => row \in ModuleRows(m)
      /\ queue = "json" => row \in JsonRows(m)
      /\ queue = "errors" => row \in ErrorRows(m)
      /\ row.id = n /\ row.refs = <<>> /\ row.tag = tag
  BY <1>2 DEF ModuleRows, JsonRows, ProviderRows, ErrorRows
<1>7. /\ a.modules \in Seq(ModuleRows(m)) /\ a.json \in Seq(JsonRows(m))
      /\ a.errors \in Seq(ErrorRows(m)) /\ a.pinged \in Seq(Known(m))
      /\ a.segments \in Partial(Known(m), Names)
      /\ a.written \in Partial(ItemNames(program), Known(m))
  <2>1. Known(n) \subseteq Known(m)
    BY <1>1, <1>2, MoreKnown
  <2>2. ModuleRows(n) \subseteq ModuleRows(m) /\ JsonRows(n) \subseteq JsonRows(m)
        /\ ErrorRows(n) \subseteq ErrorRows(m)
    BY <1>1, <1>2, MoreKnown
  <2>3. /\ Seq(ModuleRows(n)) \subseteq Seq(ModuleRows(m))
        /\ Seq(JsonRows(n)) \subseteq Seq(JsonRows(m))
        /\ Seq(ErrorRows(n)) \subseteq Seq(ErrorRows(m))
        /\ Seq(Known(n)) \subseteq Seq(Known(m))
    BY <2>1, <2>2, SequencesGrow
  <2>4. Partial(Known(n), Names) \subseteq Partial(Known(m), Names)
    BY <2>1, PartialsGrow
  <2>5. Partial(ItemNames(program), Known(n)) \subseteq Partial(ItemNames(program), Known(m))
    BY <2>1, PartialsGrow
  <2> QED BY <1>5, <2>3, <2>4, <2>5
<1> HIDE DEF b, row, m, n
<1>8. /\ b.modules \in Seq(ModuleRows(m)) /\ b.json \in Seq(JsonRows(m))
      /\ b.errors \in Seq(ErrorRows(m))
  BY <1>4, <1>6, <1>7, AppendProperties
<1>9. b.refs \in Seq(Refs(m)) /\ RefsIn(b.refs) = RefsIn(a.refs) \cup {n}
  BY <1>1, <1>2, <1>4, <1>5, RefsAppended
<1>10. b \in Requests(m)
  <2>1. b.pendingChunks \in Int
    BY <1>4, <1>5
  <2> QED BY <1>4, <1>5, <1>7, <1>8, <1>9, <2>1 DEF Requests, Made
<1>11. /\ queue = "modules" => RowIds(b.modules) = RowIds(a.modules) \cup {n}
       /\ queue # "modules" => RowIds(b.modules) = RowIds(a.modules)
  <2>1. queue = "modules" =>
          RowIds(Append(a.modules, row)) = RowIds(a.modules) \cup {row.id}
    BY <1>6, <1>7, RowAppended
  <2> QED BY <1>4, <1>6, <2>1
<1>12. /\ queue = "errors" => RowIds(b.errors) = RowIds(a.errors) \cup {n}
       /\ queue # "errors" => RowIds(b.errors) = RowIds(a.errors)
  BY <1>4, <1>6, <1>7, RowAppended
<1>13. /\ queue = "json" => /\ RowIds(b.json) = RowIds(a.json) \cup {n}
                            /\ ProviderIds(b.json) = ProviderIds(a.json) \cup {n}
       /\ queue # "json" => b.json = a.json
       /\ RowRefs(b.json) = RowRefs(a.json)
  <2>1. CASE queue = "json"
    <3>1. tag = "P" /\ b.json = Append(a.json, row) /\ row \in JsonRows(m)
      BY <1>4, <1>6, <2>1
    <3>2. /\ RowIds(b.json) = RowIds(a.json) \cup {row.id}
          /\ RowRefs(b.json) = RowRefs(a.json) \cup RefsIn(row.refs)
          /\ ProviderIds(b.json) =
               ProviderIds(a.json) \cup IF row.tag = "P" THEN {row.id} ELSE {}
      BY <1>7, <3>1, RowAppended
    <3> QED BY <1>6, <2>1, <3>1, <3>2, NoRefs
  <2>2. CASE queue # "json"
    BY <1>4, <2>2
  <2> QED BY <2>1, <2>2
<1>14. Mentions(a.json) \subseteq Known(n) /\ ProviderIds(a.json) \subseteq Known(n)
  BY <1>1, <1>5, RowsKnown, JsonRowsAre
<1>15. InOrder(b.json)
  <2>1. InOrder(a.json)
    BY <1>1 DEF RequestInOrder
  <2>2. CASE queue = "json"
    <3>1. b.json = Append(a.json, row) /\ row \in JsonRows(m) /\ row.id \notin Mentions(a.json)
      BY <1>2, <1>4, <1>6, <1>14, <2>2
    <3> QED BY <1>7, <2>1, <3>1, RowAppended
  <2>3. CASE queue # "json"
    BY <1>13, <2>1, <2>3
  <2> QED BY <2>2, <2>3
<1>16. /\ DOMAIN a.segments \subseteq Known(n) /\ WrittenIds(a) \subseteq Known(n)
       /\ RowIds(a.modules) \subseteq Known(n) /\ RowIds(a.errors) \subseteq Known(n)
  <2>1. DOMAIN a.segments \subseteq Known(n)
    BY <1>5, PartialIs
  <2>2. WrittenIds(a) \subseteq Known(n)
    BY <1>5, PartialIs DEF WrittenIds
  <2>3. RowIds(a.modules) \subseteq Known(n) /\ RowIds(a.errors) \subseteq Known(n)
    BY <1>1, <1>5, RowsKnown, PlainRows
  <2> QED BY <2>1, <2>2, <2>3
<1>17. RequestInOrder(b)
  <2>1. WrittenIds(b) = WrittenIds(a)
    BY <1>4 DEF WrittenIds
  <2>2. ProviderIds(a.json) \cap (DOMAIN a.segments \cup WrittenIds(a)
          \cup RowIds(a.modules) \cup RowIds(a.errors)) = {}
    BY <1>1 DEF RequestInOrder
  <2> QED BY <1>2, <1>3, <1>4, <1>11, <1>12, <1>13, <1>14, <1>15, <1>16, <2>1, <2>2
       DEF RequestInOrder
<1>18. Surplus(b) = Surplus(a)
  <2>1. PICK p, c, x, y, z :
                          /\ p = a.pendingChunks
                          /\ c = Cardinality(DOMAIN a.segments) /\ x = Len(a.modules)
                          /\ y = Len(a.json) /\ z = Len(a.errors)
    OBVIOUS
  <2>2. p \in Int /\ c \in Nat /\ x \in Nat /\ y \in Nat /\ z \in Nat
    BY <1>1, <1>5, <1>16, <2>1, KnownFinite, LengthNat
  <2> DEFINE base == p - (c + (x + y + z))
  <2>0. Surplus(a) = base
    BY <2>1 DEF Surplus, QueueLength
  <2>3. CASE queue = "modules"
    <3>1. Len(b.modules) = x + 1 /\ Len(b.json) = y /\ Len(b.errors) = z
      BY <1>4, <1>6, <1>7, <2>1, <2>3, RowAppended
    <3>2. Surplus(b) = (p + 1) - (c + ((x + 1) + y + z))
      BY <1>4, <2>1, <3>1 DEF Surplus, QueueLength
    <3>3. (p + 1) - (c + ((x + 1) + y + z)) = base
      BY <2>2
    <3> QED BY <2>0, <3>2, <3>3
  <2>4. CASE queue = "json"
    <3>1. Len(b.modules) = x /\ Len(b.json) = y + 1 /\ Len(b.errors) = z
      BY <1>4, <1>6, <1>7, <2>1, <2>4, RowAppended
    <3>2. Surplus(b) = (p + 1) - (c + (x + (y + 1) + z))
      BY <1>4, <2>1, <3>1 DEF Surplus, QueueLength
    <3>3. (p + 1) - (c + (x + (y + 1) + z)) = base
      BY <2>2
    <3> QED BY <2>0, <3>2, <3>3
  <2>5. CASE queue = "errors"
    <3>1. Len(b.modules) = x /\ Len(b.json) = y /\ Len(b.errors) = z + 1
      BY <1>4, <1>6, <1>7, <2>1, <2>5, RowAppended
    <3>2. Surplus(b) = (p + 1) - (c + (x + y + (z + 1)))
      BY <1>4, <2>1, <3>1 DEF Surplus, QueueLength
    <3>3. (p + 1) - (c + (x + y + (z + 1))) = base
      BY <2>2
    <3> QED BY <2>0, <3>2, <3>3
  <2> QED BY <1>3, <2>3, <2>4, <2>5
<1>19. QueueIds(b) = QueueIds(a) \cup {n}
  BY <1>3, <1>11, <1>12, <1>13 DEF QueueIds
<1>20. Grows(a, b)
  <2>1. a.nextChunkId <= b.nextChunkId
    BY <1>2, <1>4 DEF n
  <2>2. Added(a, b) = {}
    BY <1>4 DEF Added
  <2>3. Referred(b) = Referred(a) \cup {n}
    <3>1. WrittenIds(b) = WrittenIds(a)
      BY <1>4 DEF WrittenIds
    <3> QED BY <1>9, <1>13, <3>1 DEF Referred
  <2>4. ProviderIds(b.json) \cap Known(a.nextChunkId) \subseteq ProviderIds(a.json)
    BY <1>2, <1>13 DEF n
  <2> QED BY <1>4, <1>18, <1>19, <2>1, <2>2, <2>3, <2>4 DEF Grows
<1>21. IsRequest(b)
  BY <1>2, <1>4, <1>10, <1>17 DEF IsRequest
<1>22. queue = "modules" => n \notin ProviderIds(b.json)
  BY <1>2, <1>13, <1>14
<1> QED BY <1>4, <1>19, <1>20, <1>21, <1>22 DEF RowMade, b, n, m

LEMMA ExtendedIs ==
  ASSUME NEW f, NEW k, NEW v
  PROVE  /\ DOMAIN Extended(f, k, v) = DOMAIN f \cup {k}
         /\ \A x \in DOMAIN f \cup {k} : Extended(f, k, v)[x] = IF x = k THEN v ELSE f[x]
BY DEF Extended

LEMMA ExtendedType ==
  ASSUME NEW A, NEW B, NEW f \in Partial(A, B), NEW k \in A, NEW v \in B
  PROVE  Extended(f, k, v) \in Partial(A, B)
<1> DEFINE g == Extended(f, k, v)
<1>1. g = [x \in DOMAIN f \cup {k} |-> IF x = k THEN v ELSE f[x]]
  BY DEF Extended
<1> HIDE DEF g
<1>2. DOMAIN g = {k} \cup DOMAIN f
  BY <1>1
<1>3. \A x \in {k} \cup DOMAIN f : g[x] = IF x = k THEN v ELSE f[x]
  BY <1>1
<1>4. g = [x \in DOMAIN g |-> g[x]]
  BY <1>1
<1>5. DOMAIN f \subseteq A /\ \A x \in DOMAIN f : f[x] \in B
  BY PartialIs
<1>6. g \in Partial(A, B)
  BY <1>2, <1>3, <1>4, <1>5, PartialIs
<1> QED BY <1>6 DEF g

\* All that a request knows
LEMMA RequestFacts ==
  ASSUME NEW a, IsRequest(a), NEW n, n = a.nextChunkId
  PROVE  /\ n \in Nat /\ a \in Requests(n) /\ RequestInOrder(a)
         /\ a.flowing \in BOOLEAN /\ a.scheduled \in BOOLEAN /\ a.pinged \in Seq(Known(n))
         /\ a.pendingChunks \in Int
         /\ a.segments \in Partial(Known(n), Names) /\ a.modules \in Seq(ModuleRows(n))
         /\ a.json \in Seq(JsonRows(n)) /\ a.errors \in Seq(ErrorRows(n))
         /\ a.written \in Partial(ItemNames(program), Known(n))
         /\ a.refs \in Seq(Refs(n)) /\ a.thrown \in BOOLEAN
BY RequestFields DEF IsRequest

LEMMA RequestKnows ==
  ASSUME NEW a, IsRequest(a), NEW n, n = a.nextChunkId
  PROVE  /\ DOMAIN a.segments \subseteq Known(n) /\ WrittenIds(a) \subseteq Known(n)
         /\ QueueIds(a) \subseteq Known(n) /\ Referred(a) \subseteq Known(n)
         /\ Mentions(a.json) \subseteq Known(n) /\ ProviderIds(a.json) \subseteq RowIds(a.json)
<1>1. /\ n \in Nat /\ a.segments \in Partial(Known(n), Names)
      /\ a.modules \in Seq(ModuleRows(n)) /\ a.json \in Seq(JsonRows(n))
      /\ a.errors \in Seq(ErrorRows(n))
      /\ a.written \in Partial(ItemNames(program), Known(n)) /\ a.refs \in Seq(Refs(n))
  BY RequestFacts
<1>2. DOMAIN a.segments \subseteq Known(n)
  BY <1>1, PartialIs
<1>3. WrittenIds(a) \subseteq Known(n)
  BY <1>1, PartialIs DEF WrittenIds
<1>4. a.modules \in Seq(Rows(n)) /\ a.json \in Seq(Rows(n)) /\ a.errors \in Seq(Rows(n))
  BY <1>1, PlainRows, JsonRowsAre
<1>5. /\ RowIds(a.modules) \subseteq Known(n) /\ RowIds(a.json) \subseteq Known(n)
      /\ RowIds(a.errors) \subseteq Known(n) /\ RowRefs(a.json) \subseteq Known(n)
      /\ Mentions(a.json) \subseteq Known(n) /\ ProviderIds(a.json) \subseteq RowIds(a.json)
  BY <1>1, <1>4, RowsKnown
<1>6. \A i \in DOMAIN a.refs : a.refs[i] \in Refs(n)
  BY <1>1, ElementOfSeq, LenProperties
<1>7. RefsIn(a.refs) \subseteq Known(n)
  BY <1>6 DEF RefsIn, Refs
<1> QED BY <1>2, <1>3, <1>5, <1>7 DEF QueueIds, Referred

LEMMA QueueLengthNat ==
  ASSUME NEW a, NEW A, NEW B, NEW C, a.modules \in Seq(A), a.json \in Seq(B),
         a.errors \in Seq(C)
  PROVE  QueueLength(a) \in Nat
<1>1. PICK x, y, z : x = Len(a.modules) /\ y = Len(a.json) /\ z = Len(a.errors)
  OBVIOUS
<1>2. x \in Nat /\ y \in Nat /\ z \in Nat
  BY <1>1, LengthNat
<1>3. QueueLength(a) = x + y + z
  BY <1>1 DEF QueueLength
<1>4. x + y + z \in Nat
  BY <1>2
<1> QED BY <1>3, <1>4

LEMMA SuspendedMade ==
  ASSUME NEW a, IsRequest(a), NEW component \in Names
  PROVE  IsRequest(SuspendedElement(a, component)) /\ Grows(a, SuspendedElement(a, component))
<1> DEFINE n == a.nextChunkId
           m == n + 1
           s == Extended(a.segments, n, component)
           x == Append(a.refs, [ref |-> "lazy", id |-> n])
           c == NewChunk(a, "lazy")
           b == SuspendedElement(a, component)
<1>1. /\ n \in Nat /\ a \in Requests(n) /\ RequestInOrder(a)
      /\ a.flowing \in BOOLEAN /\ a.scheduled \in BOOLEAN /\ a.pinged \in Seq(Known(n))
      /\ a.pendingChunks \in Int
      /\ a.segments \in Partial(Known(n), Names) /\ a.modules \in Seq(ModuleRows(n))
      /\ a.json \in Seq(JsonRows(n)) /\ a.errors \in Seq(ErrorRows(n))
      /\ a.written \in Partial(ItemNames(program), Known(n))
      /\ a.refs \in Seq(Refs(n)) /\ a.thrown \in BOOLEAN
  BY RequestFacts
<1>2. m \in Nat /\ n <= m /\ n \notin Known(n) /\ n \in Known(m)
  BY <1>1, Fresh
<1>3. b = Made(a.flowing, a.scheduled, a.pinged, m, a.pendingChunks + 1, s, a.modules,
               a.json, a.errors, a.written, x, a.thrown)
  <2>1. c = Made(a.flowing, a.scheduled, a.pinged, m, a.pendingChunks + 1, a.segments,
                 a.modules, a.json, a.errors, a.written, x, a.thrown)
    BY NewChunkIs
  <2>2. b = [c EXCEPT !.segments = Extended(c.segments, n, component)]
    BY DEF SuspendedElement
  <2>3. c.segments = a.segments
    <3> HIDE DEF c, x, m
    <3> QED BY <2>1, MadeFields
  <2>4. [c EXCEPT !.segments = s] =
          Made(a.flowing, a.scheduled, a.pinged, m, a.pendingChunks + 1, s, a.modules,
               a.json, a.errors, a.written, x, a.thrown)
    <3> HIDE DEF c, x, m, s
    <3> QED BY <2>1, MadeExcept
  <2> HIDE DEF b, c, x, m, n
  <2> QED BY <2>2, <2>3, <2>4
<1>4. /\ b.flowing = a.flowing /\ b.scheduled = a.scheduled /\ b.pinged = a.pinged
      /\ b.nextChunkId = m /\ b.pendingChunks = a.pendingChunks + 1
      /\ b.segments = s /\ b.written = a.written /\ b.thrown = a.thrown
      /\ b.modules = a.modules /\ b.json = a.json /\ b.errors = a.errors /\ b.refs = x
  <2> HIDE DEF b, x, m, n, s
  <2> QED BY <1>3, MadeFields
<1>5. /\ a.modules \in Seq(ModuleRows(m)) /\ a.json \in Seq(JsonRows(m))
      /\ a.errors \in Seq(ErrorRows(m)) /\ a.pinged \in Seq(Known(m))
      /\ a.segments \in Partial(Known(m), Names)
      /\ a.written \in Partial(ItemNames(program), Known(m))
  <2>1. Known(n) \subseteq Known(m)
    BY <1>1, <1>2, MoreKnown
  <2>2. ModuleRows(n) \subseteq ModuleRows(m) /\ JsonRows(n) \subseteq JsonRows(m)
        /\ ErrorRows(n) \subseteq ErrorRows(m)
    BY <1>1, <1>2, MoreKnown
  <2>3. /\ Seq(ModuleRows(n)) \subseteq Seq(ModuleRows(m))
        /\ Seq(JsonRows(n)) \subseteq Seq(JsonRows(m))
        /\ Seq(ErrorRows(n)) \subseteq Seq(ErrorRows(m))
        /\ Seq(Known(n)) \subseteq Seq(Known(m))
    BY <2>1, <2>2, SequencesGrow
  <2>4. Partial(Known(n), Names) \subseteq Partial(Known(m), Names)
    BY <2>1, PartialsGrow
  <2>5. Partial(ItemNames(program), Known(n)) \subseteq Partial(ItemNames(program), Known(m))
    BY <2>1, PartialsGrow
  <2> QED BY <1>1, <2>3, <2>4, <2>5
<1>6. s \in Partial(Known(m), Names) /\ DOMAIN s = {n} \cup DOMAIN a.segments
  <2>1. a.segments \in Partial(Known(m), Names) /\ n \in Known(m)
    BY <1>2, <1>5
  <2>2. DOMAIN s = DOMAIN a.segments \cup {n}
    BY DEF Extended
  <2> HIDE DEF m, n
  <2>3. s \in Partial(Known(m), Names)
    BY <2>1, ExtendedType
  <2> QED BY <2>2, <2>3
<1> HIDE DEF b, c, m, n, s
<1>7. x \in Seq(Refs(m)) /\ RefsIn(x) = RefsIn(a.refs) \cup {n}
  BY <1>1, <1>2, RefsAppended
<1> HIDE DEF x
<1>8. b \in Requests(m)
  <2>1. a.pendingChunks + 1 \in Int
    BY <1>1
  <2> QED BY <1>1, <1>3, <1>5, <1>6, <1>7, <2>1 DEF Requests, Made
<1>9. /\ DOMAIN a.segments \subseteq Known(n) /\ ProviderIds(a.json) \subseteq Known(n)
  BY RequestKnows DEF n, Mentions
<1>10. WrittenIds(b) = WrittenIds(a) /\ QueueIds(b) = QueueIds(a)
  BY <1>4 DEF WrittenIds, QueueIds
<1>11. RequestInOrder(b)
  BY <1>1, <1>2, <1>4, <1>6, <1>9, <1>10 DEF RequestInOrder
<1>12. Surplus(b) = Surplus(a)
  <2>1. PICK p, k, l : /\ p = a.pendingChunks /\ k = Cardinality(DOMAIN a.segments)
                       /\ l = QueueLength(a)
    OBVIOUS
  <2>3. p \in Int /\ k \in Nat /\ IsFiniteSet(DOMAIN a.segments)
    BY <1>1, <1>9, <2>1, KnownFinite
  <2>4. l \in Nat
    BY <1>1, <2>1, QueueLengthNat
  <2>5. Cardinality(DOMAIN b.segments) = k + 1
    <3>1. n \notin DOMAIN a.segments
      BY <1>2, <1>9
    <3>2. Cardinality(DOMAIN a.segments \cup {n}) = Cardinality(DOMAIN a.segments) + 1
      BY <2>3, <3>1, FS_AddElement
    <3>3. DOMAIN b.segments = DOMAIN a.segments \cup {n}
      BY <1>4, <1>6
    <3> QED BY <2>1, <3>2, <3>3
  <2>6. QueueLength(b) = l
    BY <1>4, <2>1 DEF QueueLength
  <2>7. Surplus(b) = (p + 1) - ((k + 1) + l) /\ Surplus(a) = p - (k + l)
    BY <1>4, <2>1, <2>5, <2>6 DEF Surplus
  <2>8. (p + 1) - ((k + 1) + l) = p - (k + l)
    BY <2>3, <2>4
  <2> QED BY <2>7, <2>8
<1>13. Grows(a, b)
  <2>1. Added(a, b) = {n}
    BY <1>2, <1>4, <1>6, <1>9 DEF Added
  <2>2. Referred(b) = Referred(a) \cup {n}
    BY <1>4, <1>7, <1>10 DEF Referred
  <2>3. a.nextChunkId <= b.nextChunkId /\ Known(a.nextChunkId) = Known(n)
    BY <1>2, <1>4 DEF n
  <2> QED BY <1>2, <1>4, <1>6, <1>10, <1>12, <2>1, <2>2, <2>3 DEF Grows
<1>14. IsRequest(b)
  BY <1>2, <1>4, <1>8, <1>11 DEF IsRequest
<1> QED BY <1>13, <1>14 DEF b

\* A change of what is written, of the references and of `thrown` alone
LEMMA Relabelled ==
  ASSUME NEW a, IsRequest(a), NEW w, NEW r, NEW t \in BOOLEAN, NEW b,
         w \in Partial(ItemNames(program), Known(a.nextChunkId)),
         r \in Seq(Refs(a.nextChunkId)),
         b = Made(a.flowing, a.scheduled, a.pinged, a.nextChunkId, a.pendingChunks,
                  a.segments, a.modules, a.json, a.errors, w, r, t),
         {w[x] : x \in DOMAIN w} \cup RefsIn(r)
           \subseteq WrittenIds(a) \cup RefsIn(a.refs) \cup QueueIds(a),
         {w[x] : x \in DOMAIN w} \cap ProviderIds(a.json) = {}
  PROVE  IsRequest(b) /\ Grows(a, b)
<1> DEFINE n == a.nextChunkId
<1>1. /\ n \in Nat /\ a \in Requests(n) /\ RequestInOrder(a)
      /\ a.flowing \in BOOLEAN /\ a.scheduled \in BOOLEAN /\ a.pinged \in Seq(Known(n))
      /\ a.pendingChunks \in Int
      /\ a.segments \in Partial(Known(n), Names) /\ a.modules \in Seq(ModuleRows(n))
      /\ a.json \in Seq(JsonRows(n)) /\ a.errors \in Seq(ErrorRows(n))
  BY RequestFacts
<1>2. /\ b.flowing = a.flowing /\ b.scheduled = a.scheduled /\ b.pinged = a.pinged
      /\ b.nextChunkId = n /\ b.pendingChunks = a.pendingChunks
      /\ b.segments = a.segments /\ b.modules = a.modules /\ b.json = a.json
      /\ b.errors = a.errors /\ b.written = w /\ b.refs = r /\ b.thrown = t
  BY MadeFields
<1>3. b \in Requests(n)
  BY <1>1 DEF Requests, Made
<1>4. WrittenIds(b) = {w[x] : x \in DOMAIN w}
  BY <1>2 DEF WrittenIds
<1>5. RequestInOrder(b)
  BY <1>1, <1>2, <1>4 DEF RequestInOrder
<1>6. QueueIds(b) = QueueIds(a) /\ Surplus(b) = Surplus(a)
  BY <1>2 DEF QueueIds, Surplus, QueueLength
<1>7. Added(a, b) = {} /\ a.nextChunkId <= b.nextChunkId
  BY <1>1, <1>2 DEF Added
<1>8. Referred(b) \subseteq Referred(a) \cup QueueIds(b)
  BY <1>2, <1>4, <1>6 DEF Referred
<1>9. Grows(a, b)
  BY <1>2, <1>6, <1>7, <1>8 DEF Grows
<1> QED BY <1>1, <1>2, <1>3, <1>5, <1>9 DEF IsRequest

LEMMA RequestIs ==
  ASSUME NEW a, IsRequest(a)
  PROVE  a = Made(a.flowing, a.scheduled, a.pinged, a.nextChunkId, a.pendingChunks,
                  a.segments, a.modules, a.json, a.errors, a.written, a.refs, a.thrown)
BY RequestMade DEF IsRequest

LEMMA WrittenApart ==
  ASSUME NEW a, IsRequest(a)
  PROVE  WrittenIds(a) \cap ProviderIds(a.json) = {}
BY DEF IsRequest, RequestInOrder

LEMMA ThrownMade ==
  ASSUME NEW a, IsRequest(a), NEW b, b = [a EXCEPT !.thrown = TRUE]
  PROVE  IsRequest(b) /\ Grows(a, b)
<1>1. b = Made(a.flowing, a.scheduled, a.pinged, a.nextChunkId, a.pendingChunks,
               a.segments, a.modules, a.json, a.errors, a.written, a.refs, TRUE)
  <2>1. a = Made(a.flowing, a.scheduled, a.pinged, a.nextChunkId, a.pendingChunks,
                 a.segments, a.modules, a.json, a.errors, a.written, a.refs, a.thrown)
    BY RequestIs
  <2>2. PICK t : t = TRUE
    OBVIOUS
  <2>3. [a EXCEPT !.thrown = t] =
          Made(a.flowing, a.scheduled, a.pinged, a.nextChunkId, a.pendingChunks,
               a.segments, a.modules, a.json, a.errors, a.written, a.refs, t)
    BY <2>1, MadeExcept
  <2> QED BY <2>2, <2>3
<1>2. a.written \in Partial(ItemNames(program), Known(a.nextChunkId))
      /\ a.refs \in Seq(Refs(a.nextChunkId))
  BY RequestFacts
<1>3. WrittenIds(a) = {a.written[x] : x \in DOMAIN a.written}
  BY DEF WrittenIds
<1> QED BY <1>1, <1>2, <1>3, WrittenApart, Relabelled

LEMMA ReferenceMade ==
  ASSUME NEW a, IsRequest(a), NEW ref \in {"lazy", "value"}, NEW id \in WrittenIds(a),
         NEW b, b = [a EXCEPT !.refs = Append(@, [ref |-> ref, id |-> id])]
  PROVE  IsRequest(b) /\ Grows(a, b)
<1> DEFINE r == Append(a.refs, [ref |-> ref, id |-> id])
           n == a.nextChunkId
<1>1. /\ n \in Nat /\ a.refs \in Seq(Refs(n))
      /\ a.written \in Partial(ItemNames(program), Known(n)) /\ a.thrown \in BOOLEAN
  BY RequestFacts
<1>2. id \in Known(n) /\ n <= n
  BY <1>1, RequestKnows
<1>3. r \in Seq(Refs(n)) /\ RefsIn(r) = RefsIn(a.refs) \cup {id}
  <2> HIDE DEF n
  <2> QED BY <1>1, <1>2, RefsAppended
<1>4. b = Made(a.flowing, a.scheduled, a.pinged, a.nextChunkId, a.pendingChunks,
               a.segments, a.modules, a.json, a.errors, a.written, r, a.thrown)
  <2>1. b = [a EXCEPT !.refs = r]
    OBVIOUS
  <2>2. a = Made(a.flowing, a.scheduled, a.pinged, a.nextChunkId, a.pendingChunks,
                 a.segments, a.modules, a.json, a.errors, a.written, a.refs, a.thrown)
    BY RequestIs
  <2> HIDE DEF r
  <2>3. [a EXCEPT !.refs = r] =
          Made(a.flowing, a.scheduled, a.pinged, a.nextChunkId, a.pendingChunks,
               a.segments, a.modules, a.json, a.errors, a.written, r, a.thrown)
    BY <2>2, MadeExcept
  <2> QED BY <2>1, <2>3
<1>5. WrittenIds(a) = {a.written[x] : x \in DOMAIN a.written}
  BY DEF WrittenIds
<1> HIDE DEF r
<1>6. {a.written[x] : x \in DOMAIN a.written} \cup RefsIn(r)
        \subseteq WrittenIds(a) \cup RefsIn(a.refs) \cup QueueIds(a)
  BY <1>3, <1>5
<1> QED BY <1>1, <1>3, <1>4, <1>5, <1>6, WrittenApart, Relabelled

LEMMA FirstWrittenMade ==
  ASSUME NEW a, IsRequest(a), NEW name \in ItemNames(program), NEW ref \in {"lazy", "value"},
         NEW tag \in ModuleTags, NEW b,
         b = [NewRow(a, "modules", tag, ref) EXCEPT
                !.written = Extended(@, name, a.nextChunkId)]
  PROVE  IsRequest(b) /\ Grows(a, b)
<1> DEFINE n == a.nextChunkId
           c == NewRow(a, "modules", tag, ref)
           w == Extended(c.written, name, n)
<1>1. RowMade(a, c, "modules")
  BY NewRowMade
<1>2. b = [c EXCEPT !.written = w]
  OBVIOUS
<1> HIDE DEF c
<1>3. /\ IsRequest(c) /\ Grows(a, c) /\ n \in QueueIds(c) /\ c.nextChunkId = n + 1
      /\ n \notin ProviderIds(c.json)
  BY <1>1 DEF RowMade
<1>4. n \in Nat /\ n \in Known(c.nextChunkId)
  BY <1>3, Fresh DEF IsRequest
<1>5. /\ c.written \in Partial(ItemNames(program), Known(c.nextChunkId))
      /\ c.refs \in Seq(Refs(c.nextChunkId)) /\ c.thrown \in BOOLEAN
  BY <1>3, RequestFacts
<1>6. w \in Partial(ItemNames(program), Known(c.nextChunkId))
  <2> HIDE DEF n
  <2> QED BY <1>4, <1>5, ExtendedType
<1>7. {w[x] : x \in DOMAIN w} \subseteq WrittenIds(c) \cup {n}
  BY DEF Extended, WrittenIds
<1> HIDE DEF w
<1>8. b = Made(c.flowing, c.scheduled, c.pinged, c.nextChunkId, c.pendingChunks,
               c.segments, c.modules, c.json, c.errors, w, c.refs, c.thrown)
  <2>1. c = Made(c.flowing, c.scheduled, c.pinged, c.nextChunkId, c.pendingChunks,
                 c.segments, c.modules, c.json, c.errors, c.written, c.refs, c.thrown)
    BY <1>3, RequestIs
  <2>2. [c EXCEPT !.written = w] =
          Made(c.flowing, c.scheduled, c.pinged, c.nextChunkId, c.pendingChunks,
               c.segments, c.modules, c.json, c.errors, w, c.refs, c.thrown)
    BY <2>1, MadeExcept
  <2> QED BY <1>2, <2>2
<1>9. WrittenIds(c) \cap ProviderIds(c.json) = {}
  BY <1>3, WrittenApart
<1> HIDE DEF n
<1>10. {w[x] : x \in DOMAIN w} \cup RefsIn(c.refs)
         \subseteq WrittenIds(c) \cup RefsIn(c.refs) \cup QueueIds(c)
  BY <1>3, <1>7
<1>11. {w[x] : x \in DOMAIN w} \cap ProviderIds(c.json) = {}
  BY <1>3, <1>7, <1>9
<1>12. IsRequest(b) /\ Grows(c, b)
  BY <1>3, <1>5, <1>6, <1>8, <1>10, <1>11, Relabelled
<1> QED BY <1>3, <1>12, GrowsMore

LEMMA WrittenMade ==
  ASSUME NEW a, IsRequest(a), NEW item, item.name \in ItemNames(program),
         NEW tag \in ModuleTags
  PROVE  IsRequest(Written(a, item, tag)) /\ Grows(a, Written(a, item, tag))
<1>1. PICK ref \in {"lazy", "value"} : ref = IF item.kind = "type" THEN "lazy" ELSE "value"
  OBVIOUS
<1>2. CASE item.name \in DOMAIN a.written
  <2>1. Written(a, item, tag) =
          [a EXCEPT !.refs = Append(@, [ref |-> ref, id |-> a.written[item.name]])]
    BY <1>1, <1>2 DEF Written
  <2>2. a.written[item.name] \in WrittenIds(a)
    BY <1>2 DEF WrittenIds
  <2> QED BY <2>1, <2>2, ReferenceMade
<1>3. CASE item.name \notin DOMAIN a.written
  <2>1. Written(a, item, tag) =
          [NewRow(a, "modules", tag, ref) EXCEPT
             !.written = Extended(@, item.name, a.nextChunkId)]
    BY <1>1, <1>3 DEF Written
  <2> QED BY <2>1, FirstWrittenMade
<1> QED BY <1>2, <1>3

-----------------------------------------------------------------------------
(* The items of a model                                                      *)

AllItems == UNION {{program[c][i] : i \in DOMAIN program[c]} : c \in Names}
Hows == [Names -> {"renders", "suspends", "throws"}]

LEMMA ItemsAre ==
  ASSUME program \in Programs, NEW item \in AllItems
  PROVE  /\ item.kind \in ItemKinds /\ item.name \in ItemNames(program)
         /\ item.kind = "component" => item.name \in Names
         /\ NoSymbols => item.kind # "symbol"
<1>c. PICK c \in Names : item \in {program[c][i] : i \in DOMAIN program[c]}
  BY DEF AllItems
<1>1. PICK i \in DOMAIN program[c] : item = program[c][i]
  BY <1>c
<1>2. program \in [Names -> Seq([kind : ItemKinds, name : ItemNames(program)])]
  BY FlightAssumption DEF Names
<1>3. program[c] \in Seq([kind : ItemKinds, name : ItemNames(program)])
  BY <1>2
<1>4. program[c][i] \in [kind : ItemKinds, name : ItemNames(program)]
  BY <1>3, ElementOfSeq, LenProperties
<1>5. item.kind = "component" => item.name \in Names
  BY <1>1, FlightAssumption DEF Names
<1>6. NoSymbols => item.kind # "symbol"
  BY <1>1 DEF NoSymbols, Names
<1> QED BY <1>1, <1>4, <1>5, <1>6

LEMMA SequenceOf ==
  ASSUME NEW S, NEW s \in Seq(S), NEW T, \A i \in DOMAIN s : s[i] \in T
  PROVE  s \in Seq(T)
<1>1. Len(s) \in Nat /\ s \in [1..Len(s) -> S] /\ DOMAIN s = 1..Len(s)
  BY LenProperties
<1>2. s \in [1..Len(s) -> T]
  BY <1>1
<1> QED BY <1>1, <1>2, SeqDef

LEMMA ModelItems ==
  ASSUME program \in Programs, NEW c \in Names
  PROVE  program[c] \in Seq(AllItems)
<1>1. program \in [Names -> Seq([kind : ItemKinds, name : ItemNames(program)])]
  BY FlightAssumption DEF Names
<1>2. program[c] \in Seq([kind : ItemKinds, name : ItemNames(program)])
  BY <1>1
<1>3. \A i \in DOMAIN program[c] : program[c][i] \in AllItems
  BY DEF AllItems
<1> QED BY <1>2, <1>3, SequenceOf

LEMMA ItemResolvedMade ==
  ASSUME program \in Programs, NEW a, IsRequest(a), NEW item \in AllItems, NEW how \in Hows
  PROVE  IsRequest(ItemResolved(a, item, how)) /\ Grows(a, ItemResolved(a, item, how))
<1> DEFINE b == ItemResolved(a, item, how)
<1>1. /\ item.kind \in ItemKinds /\ item.name \in ItemNames(program)
      /\ item.kind = "component" => item.name \in Names
      /\ NoSymbols => item.kind # "symbol"
  BY ItemsAre
<1>2. "M" \in ModuleTags /\ (item.kind = "symbol" => "S" \in ModuleTags)
  BY <1>1 DEF ModuleTags
<1>3. CASE item.kind = "component"
  <2>1. how[item.name] \in {"renders", "suspends", "throws"} /\ item.name \in Names
    BY <1>1, <1>3 DEF Hows
  <2>2. CASE how[item.name] = "renders"
    <3>1. b = a
      BY <1>3, <2>2 DEF ItemResolved
    <3> QED BY <3>1, GrowsNothing
  <2>3. CASE how[item.name] = "suspends"
    <3>1. b = SuspendedElement(a, item.name)
      BY <1>3, <2>3 DEF ItemResolved
    <3> QED BY <2>1, <3>1, SuspendedMade
  <2>4. CASE how[item.name] = "throws"
    <3>1. b = NewRow(a, "errors", "E", "lazy")
      BY <1>3, <2>4 DEF ItemResolved
    <3> QED BY <3>1, NewRowMade DEF RowMade
  <2> QED BY <2>1, <2>2, <2>3, <2>4
<1>4. CASE item.kind \in {"type", "module"}
  <2>1. b = Written(a, item, "M")
    BY <1>4 DEF ItemResolved
  <2> QED BY <1>1, <1>2, <2>1, WrittenMade
<1>5. CASE item.kind = "missing"
  <2>1. b = NewRow(a, "errors", "E", "value")
    BY <1>5 DEF ItemResolved
  <2> QED BY <2>1, NewRowMade DEF RowMade
<1>6. CASE item.kind = "symbol"
  <2>1. b = Written(a, item, "S")
    BY <1>6 DEF ItemResolved
  <2> QED BY <1>1, <1>2, <1>6, <2>1, WrittenMade
<1>7. CASE item.kind = "provider"
  <2>1. b = NewRow(a, "json", "P", "value")
    BY <1>7 DEF ItemResolved
  <2> QED BY <2>1, NewRowMade DEF RowMade
<1>8. CASE item.kind = "bad"
  <2>1. b = [a EXCEPT !.thrown = TRUE]
    BY <1>8 DEF ItemResolved
  <2> QED BY <2>1, ThrownMade
<1> QED BY <1>1, <1>3, <1>4, <1>5, <1>6, <1>7, <1>8 DEF ItemKinds

Renderings ==
  [items : Seq(AllItems), req : {a \in UNION {Requests(n) : n \in Nat} : IsRequest(a)}]

LEMMA RenderingsAre ==
  ASSUME NEW items \in Seq(AllItems), NEW a, IsRequest(a)
  PROVE  [items |-> items, req |-> a] \in Renderings
<1>1. a \in UNION {Requests(n) : n \in Nat}
  BY DEF IsRequest
<1> QED BY <1>1 DEF Renderings

LEMMA ItemStep ==
  ASSUME program \in Programs, NEW at \in Renderings, NEW how \in Hows
  PROVE  ResolveItem(at, how) \in Renderings /\ Grows(at.req, ResolveItem(at, how).req)
<1>1. at.items \in Seq(AllItems) /\ IsRequest(at.req)
  BY DEF Renderings
<1>2. CASE at.items = <<>> \/ at.req.thrown
  <2>1. ResolveItem(at, how) = at
    BY <1>2 DEF ResolveItem
  <2> QED BY <1>1, <2>1, GrowsNothing
<1>3. CASE ~(at.items = <<>> \/ at.req.thrown)
  <2>1. Head(at.items) \in AllItems /\ Tail(at.items) \in Seq(AllItems)
    BY <1>1, <1>3, HeadTailProperties
  <2>2. PICK item \in AllItems, rest \in Seq(AllItems) :
          item = Head(at.items) /\ rest = Tail(at.items)
    BY <2>1
  <2>3. ResolveItem(at, how) =
          [items |-> ItemsBelow(item, how) \o rest, req |-> ItemResolved(at.req, item, how)]
    BY <1>3, <2>2 DEF ResolveItem
  <2>4. ItemsBelow(item, how) \in Seq(AllItems)
    <3>1. <<>> \in Seq(AllItems)
      OBVIOUS
    <3> QED BY <3>1, ItemsAre, ModelItems DEF ItemsBelow
  <2>5. ItemsBelow(item, how) \o rest \in Seq(AllItems)
    BY <2>4, ConcatProperties
  <2>6. IsRequest(ItemResolved(at.req, item, how))
        /\ Grows(at.req, ItemResolved(at.req, item, how))
    BY <1>1, ItemResolvedMade
  <2>7. PICK b : b = ItemResolved(at.req, item, how)
    OBVIOUS
  <2>8. PICK items \in Seq(AllItems) : items = ItemsBelow(item, how) \o rest
    BY <2>5
  <2>9. ResolveItem(at, how) = [items |-> items, req |-> b]
    BY <2>3, <2>7, <2>8
  <2>10. IsRequest(b) /\ Grows(at.req, b)
    BY <2>6, <2>7
  <2>11. [items |-> items, req |-> b] \in Renderings
    BY <2>10, RenderingsAre
  <2>12. ResolveItem(at, how).req = b
    BY <2>9
  <2> QED BY <2>9, <2>10, <2>11, <2>12
<1> QED BY <1>2, <1>3

-----------------------------------------------------------------------------
(* Rendering a model                                                         *)

LEMMA InductiveSet ==
  ASSUME NEW Z, 0 \in Z, \A n \in Nat : n \in Z => n + 1 \in Z
  PROVE  \A n \in Nat : n \in Z
<1> DEFINE Missing == {n \in Nat : n \notin Z}
<1>1. SUFFICES ASSUME Missing # {}
               PROVE  FALSE
  OBVIOUS
<1>2. PICK n \in Missing : \A m \in Missing : ~(<<m, n>> \in OpToRel(<, Nat))
  BY <1>1, NatLessThanWellFounded, WFMin
<1>3. \A m \in Missing : ~(m < n)
  BY <1>2 DEF OpToRel
<1>n. n \in Nat /\ n \notin Z
  OBVIOUS
<1> HIDE DEF Missing
<1>4. n # 0
  BY <1>n
<1>5. n - 1 \in Nat /\ n - 1 < n /\ (n - 1) + 1 = n
  BY <1>n, <1>4
<1>6. n - 1 \notin Missing
  BY <1>3, <1>5
<1>7. n - 1 \in Z
  BY <1>5, <1>6 DEF Missing
<1> QED BY <1>n, <1>5, <1>7

LEMMA UpToFrom ==
  ASSUME NEW M \in Nat, NEW Z, 0 \in Z, \A n \in 0..M : n \in Z /\ n < M => n + 1 \in Z
  PROVE  \A n \in 0..M : n \in Z
<1> DEFINE Y == {n \in Nat : n <= M => n \in Z}
<1>1. 0 \in Y
  OBVIOUS
<1>2. \A n \in Nat : n \in Y => n + 1 \in Y
  OBVIOUS
<1>3. \A n \in Nat : n \in Y
  <2> HIDE DEF Y
  <2> QED BY <1>1, <1>2, InductiveSet
<1> QED BY <1>3

\* A function that goes on from `start` by `step`
Follows(f, M, start, step) == f[0] = start /\ \A k \in 1..M : f[k] = step[f[k - 1]]

LEMMA FollowsExists ==
  ASSUME NEW M \in Nat, NEW A, NEW start \in A, NEW step \in [A -> A]
  PROVE  \E f \in [0..M -> A] : Follows(f, M, start, step)
<1> DEFINE Z == {n \in 0..M : \E f \in [0..n -> A] : Follows(f, n, start, step)}
<1>1. 0 \in Z
  <2>1. [k \in 0..0 |-> start] \in [0..0 -> A]
    OBVIOUS
  <2>2. Follows([k \in 0..0 |-> start], 0, start, step)
    BY DEF Follows
  <2> QED BY <2>1, <2>2
<1>2. ASSUME NEW n \in 0..M, n \in Z, n < M
      PROVE  n + 1 \in Z
  <2>1. PICK f \in [0..n -> A] : Follows(f, n, start, step)
    BY <1>2
  <2> DEFINE g == [k \in 0..(n + 1) |-> IF k = n + 1 THEN step[f[n]] ELSE f[k]]
  <2>2. g \in [0..(n + 1) -> A]
    BY <1>2
  <2>3. \A k \in 1..(n + 1) : g[k] = step[g[k - 1]]
    <3> TAKE k \in 1..(n + 1)
    <3>1. CASE k = n + 1
      BY <3>1
    <3>2. CASE k # n + 1
      <4>1. k \in 1..n /\ k - 1 \in 0..n /\ k - 1 # n + 1
        BY <3>2
      <4>2. f[k] = step[f[k - 1]]
        BY <2>1, <4>1 DEF Follows
      <4>3. g[k] = f[k]
        BY <3>2
      <4>4. g[k - 1] = f[k - 1]
        BY <4>1
      <4> HIDE DEF g
      <4> QED BY <4>2, <4>3, <4>4
    <3> QED BY <3>1, <3>2
  <2>4. g[0] = start
    BY <2>1 DEF Follows
  <2>5. n + 1 \in 0..M
    BY <1>2
  <2>6. Follows(g, n + 1, start, step)
    <3> HIDE DEF g
    <3> QED BY <2>3, <2>4 DEF Follows
  <2> HIDE DEF g
  <2> QED BY <2>2, <2>5, <2>6
<1>3. \A n \in 0..M : n \in Z
  <2> HIDE DEF Z
  <2> QED BY <1>1, <1>2, UpToFrom
<1>4. M \in Z
  BY <1>3
<1> QED BY <1>4

LEMMA ResolvedMade ==
  ASSUME program \in Programs, NEW a, IsRequest(a), NEW items \in Seq(AllItems),
         NEW how \in Hows
  PROVE  IsRequest(Resolved(a, items, how)) /\ Grows(a, Resolved(a, items, how))
<1> DEFINE M == MaxItems
           s == [items |-> items, req |-> a]
           step == [at \in Renderings |-> ResolveItem(at, how)]
           Next(f) == [n \in 0..M |-> IF n = 0 THEN s ELSE ResolveItem(f[n - 1], how)]
           run == CHOOSE f : f = Next(f)
<1>1. M \in Nat
  BY FlightAssumption
<1>2. s \in Renderings
  BY RenderingsAre
<1>3. step \in [Renderings -> Renderings]
  BY ItemStep
<1>4. PICK g \in [0..M -> Renderings] : Follows(g, M, s, step)
  <2> HIDE DEF M, step, s
  <2> QED BY <1>1, <1>2, <1>3, FollowsExists
<1>5. \A n \in 0..M : n # 0 => g[n] = ResolveItem(g[n - 1], how)
  <2> TAKE n \in 0..M
  <2> HAVE n # 0
  <2>1. n \in 1..M /\ n - 1 \in 0..M /\ g[n - 1] \in Renderings
    BY <1>1
  <2>2. g[n] = step[g[n - 1]]
    <3> HIDE DEF M, step, s
    <3> QED BY <1>4, <2>1 DEF Follows
  <2> QED BY <2>1, <2>2
<1>6. g = Next(g)
  <2>1. \A n \in 0..M : g[n] = IF n = 0 THEN s ELSE ResolveItem(g[n - 1], how)
    BY <1>4, <1>5 DEF Follows
  <2> HIDE DEF M, s
  <2> QED BY <2>1
<1>7. run = Next(run)
  <2> HIDE DEF Next
  <2> QED BY <1>6
<1>8. Resolved(a, items, how) = run[M].req
  BY DEF Resolved
<1>9. \A n \in 0..M : run[n] = IF n = 0 THEN s ELSE ResolveItem(run[n - 1], how)
  <2> HIDE DEF run, M, s
  <2> QED BY <1>7
<1> HIDE DEF run, M, Next, step
<1> DEFINE Z == {k \in 0..M : run[k] \in Renderings /\ Grows(a, run[k].req)}
<1>10. 0 \in Z
  <2>1. run[0] = s
    BY <1>1, <1>9
  <2> QED BY <1>1, <1>2, <2>1, GrowsNothing
<1>11. ASSUME NEW n \in 0..M, n \in Z, n < M
       PROVE  n + 1 \in Z
  <2>1. n + 1 \in 0..M /\ n + 1 # 0 /\ (n + 1) - 1 = n
    BY <1>1, <1>11
  <2>2. run[n + 1] = ResolveItem(run[n], how)
    BY <1>9, <2>1
  <2>3. run[n] \in Renderings /\ Grows(a, run[n].req)
    BY <1>11
  <2>4. run[n + 1] \in Renderings /\ Grows(run[n].req, run[n + 1].req)
    BY <2>2, <2>3, ItemStep
  <2>5. IsRequest(run[n].req) /\ IsRequest(run[n + 1].req)
    BY <2>3, <2>4 DEF Renderings
  <2>6. Grows(a, run[n + 1].req)
    BY <2>3, <2>4, <2>5, GrowsMore
  <2> QED BY <2>1, <2>4, <2>6
<1>12. \A n \in 0..M : n \in Z
  <2> HIDE DEF Z
  <2> QED BY <1>1, <1>10, <1>11, UpToFrom
<1>13. run[M] \in Renderings /\ Grows(a, run[M].req)
  BY <1>1, <1>12
<1> QED BY <1>8, <1>13 DEF Renderings

-----------------------------------------------------------------------------
(* The row of a segment                                                      *)

\* b is a with one more row that was counted before, that of segment id.
RowOf(a, b, id) ==
  /\ b.nextChunkId = a.nextChunkId
  /\ b.flowing = a.flowing /\ b.scheduled = a.scheduled /\ b.pinged = a.pinged
  /\ b.segments = a.segments
  /\ QueueIds(b) = QueueIds(a) \cup {id}
  /\ RowRefs(b.json) \cup WrittenIds(b) \subseteq Referred(a)
  /\ ProviderIds(b.json) = ProviderIds(a.json)
  /\ Surplus(b) = Surplus(a) - 1

LEMMA ErrorRow ==
  ASSUME NEW a, IsRequest(a), NEW id \in DOMAIN a.segments, NEW row,
         row = [tag |-> "E", id |-> id, refs |-> <<>>],
         NEW r, r \in {a.refs, <<>>}, NEW t \in BOOLEAN, NEW b,
         b = Made(a.flowing, a.scheduled, a.pinged, a.nextChunkId, a.pendingChunks,
                  a.segments, a.modules, a.json, Append(a.errors, row), a.written, r, t)
  PROVE  IsRequest(b) /\ RowOf(a, b, id)
<1> DEFINE n == a.nextChunkId
<1>1. /\ n \in Nat /\ a \in Requests(n) /\ RequestInOrder(a)
      /\ a.flowing \in BOOLEAN /\ a.scheduled \in BOOLEAN /\ a.pinged \in Seq(Known(n))
      /\ a.pendingChunks \in Int
      /\ a.segments \in Partial(Known(n), Names) /\ a.modules \in Seq(ModuleRows(n))
      /\ a.json \in Seq(JsonRows(n)) /\ a.errors \in Seq(ErrorRows(n))
      /\ a.written \in Partial(ItemNames(program), Known(n)) /\ a.refs \in Seq(Refs(n))
  BY RequestFacts
<1>2. PICK errs : errs = Append(a.errors, row)
  OBVIOUS
<1>3. b = Made(a.flowing, a.scheduled, a.pinged, n, a.pendingChunks, a.segments, a.modules,
               a.json, errs, a.written, r, t)
  BY <1>2
<1>4. /\ b.flowing = a.flowing /\ b.scheduled = a.scheduled /\ b.pinged = a.pinged
      /\ b.nextChunkId = n /\ b.pendingChunks = a.pendingChunks
      /\ b.segments = a.segments /\ b.modules = a.modules /\ b.json = a.json
      /\ b.errors = errs /\ b.written = a.written /\ b.refs = r /\ b.thrown = t
  BY <1>3, MadeFields
<1>5. row \in ErrorRows(n) /\ row.id = id /\ row.refs = <<>> /\ row.tag = "E"
  <2>1. id \in Known(n)
    BY RequestKnows
  <2> QED BY <2>1 DEF ErrorRows
<1>6. errs \in Seq(ErrorRows(n)) /\ RowIds(errs) = RowIds(a.errors) \cup {id}
      /\ Len(errs) = Len(a.errors) + 1
  BY <1>1, <1>2, <1>5, RowAppended
<1>7. r \in Seq(Refs(n))
  <2>1. <<>> \in Seq(Refs(n))
    OBVIOUS
  <2> QED BY <1>1, <2>1
<1>8. b \in Requests(n)
  BY <1>1, <1>3, <1>6, <1>7 DEF Requests, Made
<1>9. WrittenIds(b) = WrittenIds(a)
  BY <1>4 DEF WrittenIds
<1>10. RequestInOrder(b)
  BY <1>1, <1>4, <1>6, <1>9 DEF RequestInOrder
<1>11. QueueIds(b) = QueueIds(a) \cup {id}
  BY <1>4, <1>6 DEF QueueIds
<1>12. Surplus(b) = Surplus(a) - 1
  <2>1. PICK p, c, x, y, z :
                          /\ p = a.pendingChunks
                          /\ c = Cardinality(DOMAIN a.segments) /\ x = Len(a.modules)
                          /\ y = Len(a.json) /\ z = Len(a.errors)
    OBVIOUS
  <2>2. DOMAIN a.segments \subseteq Known(n)
    BY RequestKnows
  <2>3. p \in Int /\ c \in Nat /\ x \in Nat /\ y \in Nat /\ z \in Nat
    BY <1>1, <2>1, <2>2, KnownFinite, LengthNat
  <2>4. Surplus(a) = p - (c + (x + y + z))
    BY <2>1 DEF Surplus, QueueLength
  <2>5. Surplus(b) = p - (c + (x + y + (z + 1)))
    BY <1>4, <1>6, <2>1 DEF Surplus, QueueLength
  <2>6. p - (c + (x + y + (z + 1))) = (p - (c + (x + y + z))) - 1
    BY <2>3
  <2> QED BY <2>4, <2>5, <2>6
<1>13. RowOf(a, b, id)
  BY <1>4, <1>9, <1>11, <1>12 DEF RowOf, Referred
<1> QED BY <1>1, <1>4, <1>8, <1>10, <1>13 DEF IsRequest

LEMMA ModelRowOf ==
  ASSUME NEW a, IsRequest(a), NEW id \in DOMAIN a.segments, NEW row,
         row = [tag |-> "J", id |-> id, refs |-> a.refs],
         NEW r, r = <<>>, NEW t \in BOOLEAN, NEW b,
         b = Made(a.flowing, a.scheduled, a.pinged, a.nextChunkId, a.pendingChunks,
                  a.segments, a.modules, Append(a.json, row), a.errors, a.written, r, t)
  PROVE  IsRequest(b) /\ RowOf(a, b, id)
<1> DEFINE n == a.nextChunkId
<1>1. /\ n \in Nat /\ a \in Requests(n) /\ RequestInOrder(a)
      /\ a.flowing \in BOOLEAN /\ a.scheduled \in BOOLEAN /\ a.pinged \in Seq(Known(n))
      /\ a.pendingChunks \in Int
      /\ a.segments \in Partial(Known(n), Names) /\ a.modules \in Seq(ModuleRows(n))
      /\ a.json \in Seq(JsonRows(n)) /\ a.errors \in Seq(ErrorRows(n))
      /\ a.written \in Partial(ItemNames(program), Known(n)) /\ a.refs \in Seq(Refs(n))
  BY RequestFacts
<1>2. PICK js : js = Append(a.json, row)
  OBVIOUS
<1>3. b = Made(a.flowing, a.scheduled, a.pinged, n, a.pendingChunks, a.segments, a.modules,
               js, a.errors, a.written, r, t)
  BY <1>2
<1>4. /\ b.flowing = a.flowing /\ b.scheduled = a.scheduled /\ b.pinged = a.pinged
      /\ b.nextChunkId = n /\ b.pendingChunks = a.pendingChunks
      /\ b.segments = a.segments /\ b.modules = a.modules /\ b.json = js
      /\ b.errors = a.errors /\ b.written = a.written /\ b.refs = r /\ b.thrown = t
  BY <1>3, MadeFields
<1>5. row \in JsonRows(n) /\ row.id = id /\ row.refs = a.refs /\ row.tag = "J"
  <2>1. id \in Known(n)
    BY RequestKnows
  <2> QED BY <1>1, <2>1 DEF JsonRows, ModelRows
<1>6. /\ js \in Seq(JsonRows(n)) /\ RowIds(js) = RowIds(a.json) \cup {id}
      /\ Len(js) = Len(a.json) + 1
      /\ RowRefs(js) = RowRefs(a.json) \cup RefsIn(a.refs)
      /\ ProviderIds(js) = ProviderIds(a.json)
      /\ InOrder(js)
  <2>1. InOrder(a.json)
    BY <1>1 DEF RequestInOrder
  <2>2. PICK ids : ids = IF row.tag = "P" THEN {row.id} ELSE {}
    OBVIOUS
  <2>3. ids = {}
    BY <1>5, <2>2
  <2>4. ProviderIds(js) = ProviderIds(a.json) \cup ids
    <3>1. ProviderIds(Append(a.json, row)) =
            ProviderIds(a.json) \cup IF row.tag = "P" THEN {row.id} ELSE {}
      BY <1>1, <1>5, RowAppended
    <3> QED BY <1>2, <2>2, <3>1
  <2>5. /\ js \in Seq(JsonRows(n)) /\ RowIds(js) = RowIds(a.json) \cup {row.id}
        /\ Len(js) = Len(a.json) + 1
        /\ RowRefs(js) = RowRefs(a.json) \cup RefsIn(row.refs)
    BY <1>1, <1>2, <1>5, RowAppended
  <2>6. InOrder(js)
    BY <1>1, <1>2, <1>5, <2>1, RowAppended
  <2> QED BY <1>5, <2>3, <2>4, <2>5, <2>6
<1>7. r \in Seq(Refs(n))
  OBVIOUS
<1>8. b \in Requests(n)
  BY <1>1, <1>3, <1>6, <1>7 DEF Requests, Made
<1>9. WrittenIds(b) = WrittenIds(a)
  BY <1>4 DEF WrittenIds
<1>10. RequestInOrder(b)
  BY <1>1, <1>4, <1>6, <1>9 DEF RequestInOrder
<1>11. QueueIds(b) = QueueIds(a) \cup {id}
  BY <1>4, <1>6 DEF QueueIds
<1>12. Surplus(b) = Surplus(a) - 1
  <2>1. PICK p, c, x, y, z :
                          /\ p = a.pendingChunks
                          /\ c = Cardinality(DOMAIN a.segments) /\ x = Len(a.modules)
                          /\ y = Len(a.json) /\ z = Len(a.errors)
    OBVIOUS
  <2>2. DOMAIN a.segments \subseteq Known(n)
    BY RequestKnows
  <2>3. p \in Int /\ c \in Nat /\ x \in Nat /\ y \in Nat /\ z \in Nat
    BY <1>1, <2>1, <2>2, KnownFinite, LengthNat
  <2>4. Surplus(a) = p - (c + (x + y + z))
    BY <2>1 DEF Surplus, QueueLength
  <2>5. Surplus(b) = p - (c + (x + (y + 1) + z))
    BY <1>4, <1>6, <2>1 DEF Surplus, QueueLength
  <2>6. p - (c + (x + (y + 1) + z)) = (p - (c + (x + y + z))) - 1
    BY <2>3
  <2> QED BY <2>4, <2>5, <2>6
<1>13. RowOf(a, b, id)
  BY <1>4, <1>6, <1>9, <1>11, <1>12 DEF RowOf, Referred
<1> QED BY <1>1, <1>4, <1>8, <1>10, <1>13 DEF IsRequest

\* b is a after segment id was rendered and its row was queued.
Renders(a, b, id) ==
  /\ a.nextChunkId <= b.nextChunkId
  /\ b.flowing = a.flowing /\ b.scheduled = a.scheduled /\ b.pinged = a.pinged
  /\ DOMAIN a.segments \subseteq DOMAIN b.segments
  /\ Added(a, b) \cap Known(a.nextChunkId) = {}
  /\ QueueIds(a) \cup {id} \subseteq QueueIds(b)
  /\ RowRefs(b.json) \cup WrittenIds(b)
       \subseteq RowRefs(a.json) \cup WrittenIds(a) \cup QueueIds(b) \cup Added(a, b)
  /\ ProviderIds(b.json) \cap Known(a.nextChunkId) \subseteq ProviderIds(a.json)
  /\ Surplus(b) = Surplus(a) - 1

LEMMA ThrowRendered ==
  ASSUME NEW a, IsRequest(a), NEW id \in DOMAIN a.segments,
         NEW b,
         b = Emit(a, "errors", [tag |-> "E", id |-> id, refs |-> <<>>])
  PROVE  IsRequest(b) /\ Renders(a, b, id)
<1>1. PICK row : row = [tag |-> "E", id |-> id, refs |-> <<>>]
  OBVIOUS
<1>2. b = Made(a.flowing, a.scheduled, a.pinged, a.nextChunkId, a.pendingChunks,
               a.segments, a.modules, a.json, Append(a.errors, row), a.written, a.refs,
               a.thrown)
  <2>1. a = Made(a.flowing, a.scheduled, a.pinged, a.nextChunkId, a.pendingChunks,
                 a.segments, a.modules, a.json, a.errors, a.written, a.refs, a.thrown)
    BY RequestIs
  <2>2. PICK errs : errs = Append(a.errors, row)
    OBVIOUS
  <2>3. b = [a EXCEPT !.errors = errs]
    BY <1>1, <2>2 DEF Emit
  <2>4. b = Made(a.flowing, a.scheduled, a.pinged, a.nextChunkId, a.pendingChunks,
                 a.segments, a.modules, a.json, errs, a.written, a.refs, a.thrown)
    BY <2>1, <2>3, MadeExcept
  <2> QED BY <2>2, <2>4
<1>3. a.thrown \in BOOLEAN
  BY RequestFacts
<1>4. IsRequest(b) /\ RowOf(a, b, id)
  BY <1>1, <1>2, <1>3, ErrorRow
<1>5. b.json = a.json /\ WrittenIds(b) = WrittenIds(a)
  BY <1>2, MadeFields DEF WrittenIds
<1>6. a.nextChunkId <= b.nextChunkId /\ Added(a, b) = {}
  BY <1>4 DEF RowOf, Added, IsRequest
<1> QED BY <1>4, <1>5, <1>6 DEF RowOf, Renders

LEMMA ModelRendered ==
  ASSUME program \in Programs, NEW a, IsRequest(a), NEW id \in DOMAIN a.segments,
         NEW component \in Names, NEW how \in Hows, NEW b,
         b = ModelRow(a, id, component, how)
  PROVE  IsRequest(b) /\ Renders(a, b, id) /\ b.refs = <<>>
<1>1. PICK nil, no : nil = <<>> /\ no = FALSE
  OBVIOUS
<1>2. PICK start : start = [a EXCEPT !.refs = nil, !.thrown = no]
  OBVIOUS
<1>3. start = Made(a.flowing, a.scheduled, a.pinged, a.nextChunkId, a.pendingChunks,
                   a.segments, a.modules, a.json, a.errors, a.written, nil, no)
  <2>1. a = Made(a.flowing, a.scheduled, a.pinged, a.nextChunkId, a.pendingChunks,
                 a.segments, a.modules, a.json, a.errors, a.written, a.refs, a.thrown)
    BY RequestIs
  <2>2. PICK plain : plain = [a EXCEPT !.refs = nil]
    OBVIOUS
  <2>3. plain = Made(a.flowing, a.scheduled, a.pinged, a.nextChunkId, a.pendingChunks,
                     a.segments, a.modules, a.json, a.errors, a.written, nil, a.thrown)
    BY <2>1, <2>2, MadeExcept
  <2>4. start = [plain EXCEPT !.thrown = no]
    BY <1>2, <2>2
  <2> QED BY <2>3, <2>4, MadeExcept
<1>4. IsRequest(start) /\ Grows(a, start) /\ start.refs = <<>>
  <2>1. a.written \in Partial(ItemNames(program), Known(a.nextChunkId))
    BY RequestFacts
  <2>2. nil \in Seq(Refs(a.nextChunkId)) /\ RefsIn(nil) = {} /\ no \in BOOLEAN
    <3>1. <<>> \in Seq(Refs(a.nextChunkId))
      OBVIOUS
    <3> QED BY <1>1, <3>1, NoRefs
  <2>3. {a.written[x] : x \in DOMAIN a.written} \cap ProviderIds(a.json) = {}
    BY WrittenApart DEF WrittenIds
  <2>4. {a.written[x] : x \in DOMAIN a.written} \cup RefsIn(nil)
          \subseteq WrittenIds(a) \cup RefsIn(a.refs) \cup QueueIds(a)
    BY <2>2 DEF WrittenIds
  <2>5. IsRequest(start) /\ Grows(a, start)
    BY <1>3, <2>1, <2>2, <2>3, <2>4, Relabelled
  <2>6. start.refs = nil
    BY <1>3, MadeFields
  <2> QED BY <1>1, <2>5, <2>6
<1>5. PICK c : c = Resolved(start, program[component], how)
  OBVIOUS
<1>6. IsRequest(c) /\ Grows(start, c)
  <2>1. program[component] \in Seq(AllItems)
    BY ModelItems
  <2> QED BY <1>4, <1>5, <2>1, ResolvedMade
<1>7. Grows(a, c) /\ id \in DOMAIN c.segments
  BY <1>4, <1>6, GrowsMore DEF Grows
<1>8. PICK row : row = IF c.thrown
                       THEN [tag |-> "E", id |-> id, refs |-> <<>>]
                       ELSE [tag |-> "J", id |-> id, refs |-> c.refs]
  OBVIOUS
<1>9. c = Made(c.flowing, c.scheduled, c.pinged, c.nextChunkId, c.pendingChunks,
               c.segments, c.modules, c.json, c.errors, c.written, c.refs, c.thrown)
  BY <1>6, RequestIs
<1>10. PICK d : d = IF c.thrown THEN Emit(c, "errors", row) ELSE Emit(c, "json", row)
  OBVIOUS
<1>11. b = [d EXCEPT !.refs = nil, !.thrown = no]
  BY <1>1, <1>2, <1>5, <1>8, <1>10 DEF ModelRow
<1>12. PICK plain : plain = [d EXCEPT !.refs = nil]
  OBVIOUS
<1>13. b = [plain EXCEPT !.thrown = no]
  BY <1>11, <1>12
<1>14. IsRequest(b) /\ RowOf(c, b, id) /\ b.refs = <<>>
  <2>1. no \in BOOLEAN /\ nil \in {c.refs, <<>>}
    BY <1>1
  <2>2. CASE c.thrown
    <3>1. PICK errs : errs = Append(c.errors, row)
      OBVIOUS
    <3>2. d = [c EXCEPT !.errors = errs]
      BY <1>10, <2>2, <3>1 DEF Emit
    <3>3. d = Made(c.flowing, c.scheduled, c.pinged, c.nextChunkId, c.pendingChunks,
                   c.segments, c.modules, c.json, errs, c.written, c.refs, c.thrown)
      BY <1>9, <3>2, MadeExcept
    <3>4. plain = Made(c.flowing, c.scheduled, c.pinged, c.nextChunkId, c.pendingChunks,
                       c.segments, c.modules, c.json, errs, c.written, nil, c.thrown)
      BY <1>12, <3>3, MadeExcept
    <3>5. b = Made(c.flowing, c.scheduled, c.pinged, c.nextChunkId, c.pendingChunks,
                   c.segments, c.modules, c.json, errs, c.written, nil, no)
      BY <1>13, <3>4, MadeExcept
    <3>6. row = [tag |-> "E", id |-> id, refs |-> <<>>]
      BY <1>8, <2>2
    <3>7. b.refs = nil
      BY <3>5, MadeFields
    <3>8. b = Made(c.flowing, c.scheduled, c.pinged, c.nextChunkId, c.pendingChunks,
                   c.segments, c.modules, c.json, Append(c.errors, row), c.written, nil, no)
      BY <3>1, <3>5
    <3> QED BY <1>1, <1>6, <1>7, <2>1, <3>6, <3>7, <3>8, ErrorRow
  <2>3. CASE ~c.thrown
    <3>1. PICK js : js = Append(c.json, row)
      OBVIOUS
    <3>2. d = [c EXCEPT !.json = js]
      BY <1>10, <2>3, <3>1 DEF Emit
    <3>3. d = Made(c.flowing, c.scheduled, c.pinged, c.nextChunkId, c.pendingChunks,
                   c.segments, c.modules, js, c.errors, c.written, c.refs, c.thrown)
      BY <1>9, <3>2, MadeExcept
    <3>4. plain = Made(c.flowing, c.scheduled, c.pinged, c.nextChunkId, c.pendingChunks,
                       c.segments, c.modules, js, c.errors, c.written, nil, c.thrown)
      BY <1>12, <3>3, MadeExcept
    <3>5. b = Made(c.flowing, c.scheduled, c.pinged, c.nextChunkId, c.pendingChunks,
                   c.segments, c.modules, js, c.errors, c.written, nil, no)
      BY <1>13, <3>4, MadeExcept
    <3>6. row = [tag |-> "J", id |-> id, refs |-> c.refs]
      BY <1>8, <2>3
    <3>7. b.refs = nil
      BY <3>5, MadeFields
    <3>8. b = Made(c.flowing, c.scheduled, c.pinged, c.nextChunkId, c.pendingChunks,
                   c.segments, c.modules, Append(c.json, row), c.errors, c.written, nil, no)
      BY <3>1, <3>5
    <3> QED BY <1>1, <1>6, <1>7, <2>1, <3>6, <3>7, <3>8, ModelRowOf
  <2> QED BY <2>2, <2>3
<1>15. Added(a, b) = Added(a, c) /\ b.nextChunkId = c.nextChunkId
  BY <1>14 DEF RowOf, Added
<1>16. Referred(c) \subseteq RowRefs(a.json) \cup WrittenIds(a) \cup QueueIds(c)
           \cup Added(a, c)
  <2>1. Referred(start) = RowRefs(a.json) \cup WrittenIds(a)
    <3>1. start.json = a.json /\ start.written = a.written
      BY <1>3, MadeFields
    <3> QED BY <1>4, <3>1, NoRefs DEF Referred, WrittenIds
  <2>2. Added(start, c) = Added(a, c)
    <3>1. start.segments = a.segments
      BY <1>3, MadeFields
    <3> QED BY <3>1 DEF Added
  <2> QED BY <1>6, <2>1, <2>2 DEF Grows
<1>17. Renders(a, b, id)
  BY <1>7, <1>14, <1>15, <1>16 DEF RowOf, Renders, Grows
<1> QED BY <1>14, <1>17

-----------------------------------------------------------------------------
(* The work that is left                                                     *)

LEMMA AppendedSet ==
  ASSUME NEW S, NEW s \in Seq(S), NEW x
  PROVE  /\ ToSet(Append(s, x)) = ToSet(s) \cup {x}
         /\ Injective(s) /\ x \notin ToSet(s) => Injective(Append(s, x))
<1>1. Len(s) \in Nat /\ DOMAIN s = 1..Len(s)
  BY LenProperties
<1>2. /\ DOMAIN Append(s, x) = 1..(Len(s) + 1)
      /\ Append(s, x)[Len(s) + 1] = x
      /\ \A i \in 1..Len(s) : Append(s, x)[i] = s[i]
  <2>1. s \in Seq(S \cup {x}) /\ x \in S \cup {x}
    BY SequencesGrow
  <2> QED BY <2>1, AppendProperties, LenProperties
<1> HIDE DEF ToSet
<1>3. ToSet(Append(s, x)) = {Append(s, x)[i] : i \in 1..(Len(s) + 1)}
  BY <1>2 DEF ToSet
<1>4. ToSet(s) = {s[i] : i \in 1..Len(s)}
  BY <1>1 DEF ToSet
<1>5. 1..(Len(s) + 1) = 1..Len(s) \cup {Len(s) + 1}
  BY <1>1
<1>6. ToSet(Append(s, x)) = ToSet(s) \cup {x}
  BY <1>2, <1>3, <1>4, <1>5
<1>7. ASSUME Injective(s), x \notin ToSet(s)
      PROVE  Injective(Append(s, x))
  <2>1. ASSUME NEW i \in 1..(Len(s) + 1), NEW j \in 1..(Len(s) + 1),
               Append(s, x)[i] = Append(s, x)[j]
        PROVE  i = j
    <3>1. \A k \in 1..Len(s) : s[k] # x
      BY <1>4, <1>7
    <3>2. \A k \in 1..Len(s) : \A l \in 1..Len(s) : s[k] = s[l] => k = l
      BY <1>1, <1>7 DEF Injective
    <3>3. i \in 1..Len(s) \/ i = Len(s) + 1
      BY <1>5
    <3>4. j \in 1..Len(s) \/ j = Len(s) + 1
      BY <1>5
    <3> QED BY <1>2, <2>1, <3>1, <3>2, <3>3, <3>4
  <2> QED BY <1>2, <2>1 DEF Injective
<1> QED BY <1>6, <1>7

LEMMA TailSet ==
  ASSUME NEW S, NEW s \in Seq(S), s # <<>>
  PROVE  /\ ToSet(s) = {Head(s)} \cup ToSet(Tail(s)) /\ Head(s) = s[1]
         /\ Tail(s) \in Seq(S) /\ Len(Tail(s)) = Len(s) - 1
         /\ \A i \in DOMAIN Tail(s) : i + 1 \in DOMAIN s /\ Tail(s)[i] = s[i + 1]
         /\ Injective(s) => Injective(Tail(s)) /\ Head(s) \notin ToSet(Tail(s))
<1>1. Len(s) \in Nat /\ DOMAIN s = 1..Len(s)
  BY LenProperties
<1>2. /\ Head(s) = s[1] /\ Tail(s) \in Seq(S) /\ Len(Tail(s)) = Len(s) - 1
      /\ \A i \in 1..(Len(s) - 1) : Tail(s)[i] = s[i + 1]
  BY HeadTailProperties
<1>3. DOMAIN Tail(s) = 1..(Len(s) - 1) /\ Len(s) - 1 \in Nat
  BY <1>2, LenProperties
<1>4. \A i \in DOMAIN Tail(s) : i + 1 \in DOMAIN s /\ Tail(s)[i] = s[i + 1]
  BY <1>1, <1>2, <1>3
<1>5. \A i \in DOMAIN s : i = 1 \/ i - 1 \in DOMAIN Tail(s)
  BY <1>1, <1>3
<1>6. 1 \in DOMAIN s
  BY <1>1, <1>3
<1>7. ToSet(s) = {Head(s)} \cup ToSet(Tail(s))
  <2>1. ASSUME NEW x \in ToSet(s)
        PROVE  x \in {Head(s)} \cup ToSet(Tail(s))
    <3>1. PICK i \in DOMAIN s : x = s[i]
      BY <2>1 DEF ToSet
    <3>2. CASE i = 1
      BY <1>2, <3>1, <3>2
    <3>3. CASE i - 1 \in DOMAIN Tail(s)
      <4>1. Tail(s)[i - 1] = s[(i - 1) + 1] /\ (i - 1) + 1 = i
        BY <1>1, <1>4, <3>1, <3>3
      <4> QED BY <3>1, <3>3, <4>1 DEF ToSet
    <3> QED BY <1>5, <3>2, <3>3
  <2>2. Head(s) \in ToSet(s) /\ ToSet(Tail(s)) \subseteq ToSet(s)
    BY <1>2, <1>4, <1>6 DEF ToSet
  <2> QED BY <2>1, <2>2
<1>8. ASSUME Injective(s)
      PROVE  Injective(Tail(s)) /\ Head(s) \notin ToSet(Tail(s))
  <2>1. \A i \in DOMAIN Tail(s) : \A j \in DOMAIN Tail(s) : Tail(s)[i] = Tail(s)[j] => i = j
    <3> TAKE i \in DOMAIN Tail(s)
    <3> TAKE j \in DOMAIN Tail(s)
    <3> HAVE Tail(s)[i] = Tail(s)[j]
    <3>1. s[i + 1] = s[j + 1] /\ i + 1 \in DOMAIN s /\ j + 1 \in DOMAIN s
      BY <1>4
    <3>2. i + 1 = j + 1
      BY <1>8, <3>1 DEF Injective
    <3>3. i \in Int /\ j \in Int
      BY <1>3
    <3> QED BY <3>2, <3>3
  <2>2. ASSUME NEW i \in DOMAIN Tail(s), Tail(s)[i] = Head(s)
        PROVE  FALSE
    <3>1. s[i + 1] = s[1] /\ i + 1 \in DOMAIN s
      BY <1>2, <1>4, <2>2
    <3>2. i + 1 = 1
      BY <1>6, <1>8, <3>1 DEF Injective
    <3> QED BY <1>3, <3>2
  <2> QED BY <2>1, <2>2 DEF Injective, ToSet
<1> QED BY <1>2, <1>4, <1>7, <1>8

LEMMA RequestOk == TypeInv /\ RequestInOrder(request) => IsRequest(request)
BY DEF TypeInv, N, IsRequest

LEMMA RowIdsAre ==
  ASSUME NEW s
  PROVE  {row.id : row \in ToSet(s)} = RowIds(s)
BY DEF ToSet, RowIds

-----------------------------------------------------------------------------
(* Parts of an invariant that a step of the client leaves alone, and that    *)
(* one of the server does                                                    *)

LEMMA ClientKept ==
  ASSUME NEW n \in Nat, NEW m \in Nat, n <= m, ClientInv(n), UNCHANGED clientVars
  PROVE  ClientInv(m)'
<1>1. Known(n) \subseteq Known(m) /\ ChunksOf(n) \subseteq ChunksOf(m)
  BY MoreKnown
<1>2. Partial(Known(n), ChunksOf(n)) \subseteq Partial(Known(m), ChunksOf(m))
  BY <1>1, PartialsGrow
<1>3. Partial(Known(n), {"ready", "waiting", "failed", "done"})
        \subseteq Partial(Known(m), {"ready", "waiting", "failed", "done"})
  BY <1>1, PartialsGrow
<1> QED BY <1>2, <1>3 DEF ClientInv, clientVars

LEMMA MetKnown ==
  ASSUME NEW n \in Nat, ClientInv(n)
  PROVE  Met \subseteq Known(n)
<1>1. DOMAIN chunks \subseteq Known(n) /\ DOMAIN readers \subseteq Known(n)
  BY PartialIs DEF ClientInv
<1>2. ASSUME NEW id \in DOMAIN chunks
      PROVE  RefsIn(chunks[id].refs) \subseteq Known(n)
  <2>1. chunks[id] \in ChunksOf(n)
    BY PartialIs DEF ClientInv
  <2>2. chunks[id].refs \in Seq(Refs(n))
    BY <2>1 DEF ChunksOf
  <2>3. \A i \in DOMAIN chunks[id].refs : chunks[id].refs[i] \in Refs(n)
    BY <2>2, ElementOfSeq, LenProperties
  <2> QED BY <2>3 DEF RefsIn, Refs
<1> QED BY <1>1, <1>2 DEF Met

LEMMA ClientSame ==
  UNCHANGED clientVars => Met' = Met /\ Settled' = Settled
BY DEF clientVars, Met, Settled

-----------------------------------------------------------------------------
(* The invariant holds at the start                                          *)

LEMMA NoneMapped ==
  ASSUME NEW A, NEW B
  PROVE  <<>> \in Partial(A, B) /\ DOMAIN <<>> = {}
<1>1. <<>> \in Seq({})
  OBVIOUS
<1>2. Len(<<>>) = 0 /\ 1..0 = {}
  OBVIOUS
<1>3. <<>> \in [1..0 -> {}] /\ DOMAIN <<>> = 1..0
  BY <1>1, <1>2, LenProperties
<1>4. <<>> \in [{} -> B] /\ DOMAIN <<>> = {}
  BY <1>2, <1>3
<1>5. {} \in SUBSET A
  OBVIOUS
<1> QED BY <1>4, <1>5 DEF Partial

LEMMA OneMapped ==
  ASSUME NEW x, NEW v, NEW A, NEW B, x \in A, v \in B
  PROVE  /\ [y \in {x} |-> v] \in Partial(A, B)
         /\ DOMAIN [y \in {x} |-> v] = {x}
<1>1. [y \in {x} |-> v] \in [{x} -> B] /\ {x} \in SUBSET A
  OBVIOUS
<1> QED BY <1>1 DEF Partial

LEMMA AtStart ==
  ASSUME FlightInit
  PROVE  IInv /\ ListenInv
<1>1. PICK nil : nil = <<>>
  OBVIOUS
<1>2. PICK segments, root : segments = [id \in {RootId} |-> "root"] /\ root = <<RootId>>
  OBVIOUS
<1>3. request = Made(FALSE, TRUE, root, 1, 1, segments, nil, nil, nil, nil, nil, FALSE)
  BY <1>1, <1>2 DEF FlightInit, Made
<1>4. /\ request.flowing = FALSE /\ request.scheduled = TRUE /\ request.pinged = root
      /\ request.nextChunkId = 1 /\ request.pendingChunks = 1
      /\ request.segments = segments /\ request.modules = nil /\ request.json = nil
      /\ request.errors = nil /\ request.written = nil /\ request.refs = nil
      /\ request.thrown = FALSE
  <2>1. PICK f, t, one : f = FALSE /\ t = TRUE /\ one = 1
    OBVIOUS
  <2>2. request = Made(f, t, root, one, one, segments, nil, nil, nil, nil, nil, f)
    BY <1>3, <2>1
  <2>3. /\ request.flowing = f /\ request.scheduled = t /\ request.pinged = root
        /\ request.nextChunkId = one /\ request.pendingChunks = one
        /\ request.segments = segments /\ request.modules = nil /\ request.json = nil
        /\ request.errors = nil /\ request.written = nil /\ request.refs = nil
        /\ request.thrown = f
    BY <2>2, MadeFields
  <2> QED BY <2>1, <2>3
<1>5. /\ program \in Programs /\ retrying = <<>> /\ waiting = {} /\ ended = FALSE
      /\ stream = <<>> /\ response = "open" /\ chunks = nil
      /\ readers = [id \in {RootId} |-> "ready"] /\ hitches = 0
  BY <1>1 DEF FlightInit
<1>6. 1 \in Nat /\ Known(1) = {0} /\ RootId = 0
  BY DEF Known, RootId
<1>7. segments \in Partial(Known(1), Names) /\ DOMAIN segments = {0}
  <2>1. "root" \in Names
    BY <1>5, FlightAssumption DEF Names
  <2> QED BY <1>2, <1>6, <2>1, OneMapped
<1>8. nil \in Partial(ItemNames(program), Known(1)) /\ DOMAIN nil = {}
  BY <1>1, NoneMapped
<1>9. root \in Seq({0}) /\ Len(root) = 1 /\ DOMAIN root = {1} /\ root[1] = 0
  BY <1>2, <1>6
<1>10. /\ nil \in Seq(ModuleRows(1)) /\ nil \in Seq(JsonRows(1)) /\ nil \in Seq(ErrorRows(1))
       /\ nil \in Seq(Refs(1)) /\ nil \in Seq(Rows(1)) /\ Len(nil) = 0
  <2>1. \A S : <<>> \in Seq(S)
    OBVIOUS
  <2>2. Len(<<>>) = 0
    OBVIOUS
  <2> QED BY <1>1, <2>1, <2>2
<1>11. request \in Requests(1)
  <2>1. root \in Seq(Known(1))
    BY <1>6, <1>9
  <2> QED BY <1>3, <1>7, <1>8, <1>10, <2>1 DEF Requests, Made
<1>12. readers \in Partial(Known(1), {"ready", "waiting", "failed", "done"})
       /\ DOMAIN readers = {0} /\ readers[0] = "ready"
  <2>1. readers \in Partial(Known(1), {"ready", "waiting", "failed", "done"})
        /\ DOMAIN readers = {0}
    BY <1>5, <1>6, OneMapped
  <2> QED BY <1>5, <1>6, <2>1
<1>13. chunks \in Partial(Known(1), ChunksOf(1)) /\ DOMAIN chunks = {}
  BY <1>1, <1>5, NoneMapped
<1>14. TypeInv
  <2>1. ClientInv(1)
    BY <1>5, <1>12, <1>13 DEF ClientInv
  <2>2. retrying \in Seq(DOMAIN request.segments \cup {TheFlush})
    <3>1. <<>> \in Seq(DOMAIN request.segments \cup {TheFlush})
      OBVIOUS
    <3> QED BY <1>5, <3>1
  <2>3. request.pinged \in Seq(DOMAIN request.segments)
    BY <1>4, <1>7, <1>9
  <2>4. stream \in Seq(Rows(1))
    BY <1>1, <1>5, <1>10
  <2>5. waiting \subseteq DOMAIN request.segments /\ ended \in BOOLEAN
    BY <1>5
  <2> QED BY <1>4, <1>5, <1>6, <1>11, <2>1, <2>2, <2>3, <2>4, <2>5 DEF TypeInv, N
<1>15. WorkInv
  <2>1. Injective(request.pinged)
    BY <1>4, <1>9 DEF Injective
  <2>2. DOMAIN retrying = {}
    BY <1>5, NoneMapped
  <2>3. Injective(retrying)
    BY <2>2 DEF Injective
  <2> QED BY <1>5, <2>1, <2>2, <2>3 DEF WorkInv
<1>16. CountInv
  <2>1. Cardinality(waiting) = 0
    BY <1>5, FS_EmptySet
  <2>2. QueueLength(request) = 0 /\ ToRetry = 0
    BY <1>4, <1>5, <1>10 DEF QueueLength, ToRetry
  <2>3. Len(request.pinged) = 1 /\ request.pendingChunks = 1
    BY <1>4, <1>9
  <2> QED BY <1>5, <2>1, <2>2, <2>3 DEF CountInv
<1>17. RowIds(nil) = {} /\ RowRefs(nil) = {} /\ ProviderIds(nil) = {} /\ InOrder(nil)
  BY <1>1, NoRows
<1>18. OrderInv
  BY <1>1, <1>4, <1>5, <1>17 DEF OrderInv, RequestInOrder
<1>19. ServedInv
  <2>1. Met = {0}
    BY <1>12, <1>13 DEF Met
  <2>2. WrittenIds(request) = {}
    BY <1>4, <1>8 DEF WrittenIds
  <2>3. 0 \in Unsent
    <3>1. 0 \in ToSet(request.pinged)
      BY <1>4, <1>9 DEF ToSet
    <3> QED BY <3>1 DEF Unsent
  <2>4. RowRefs(request.json) = {} /\ RowRefs(stream) = {}
    BY <1>1, <1>4, <1>5, <1>17
  <2> QED BY <2>1, <2>2, <2>3, <2>4 DEF ServedInv, Coming
<1>20. ListenInv
  BY <1>12 DEF ListenInv
<1> QED BY <1>14, <1>15, <1>16, <1>18, <1>19, <1>20 DEF IInv

-----------------------------------------------------------------------------
(* Steps of the server                                                       *)

LEMMA QueuedRows ==
  ASSUME NEW a, IsRequest(a)
  PROVE  {row.id : row \in ToSet(a.modules \o a.json \o a.errors)} = QueueIds(a)
<1>1. PICK m, j, e : m = a.modules /\ j = a.json /\ e = a.errors
  OBVIOUS
<1>2. PICK n \in Nat : n = a.nextChunkId
  BY DEF IsRequest
<1>3. m \in Seq(Rows(n)) /\ j \in Seq(Rows(n)) /\ e \in Seq(Rows(n))
  BY <1>1, <1>2, RequestFacts, PlainRows, JsonRowsAre
<1>4. PICK mj \in Seq(Rows(n)) : mj = m \o j
  BY <1>3, ConcatProperties
<1>5. Joins(mj, m, j)
  BY <1>3, <1>4, ConcatJoins
<1>6. PICK s : s = mj \o e
  OBVIOUS
<1>7. Joins(s, mj, e)
  BY <1>3, <1>4, <1>6, ConcatJoins
<1>8. RowIds(mj) = RowIds(m) \cup RowIds(j) /\ RowIds(s) = RowIds(mj) \cup RowIds(e)
  BY <1>5, <1>7, JoinedRows
<1>9. a.modules \o a.json \o a.errors = s
  BY <1>1, <1>4, <1>6
<1> QED BY <1>1, <1>8, <1>9, RowIdsAre DEF QueueIds

LEMMA UnsentIs ==
  ASSUME IsRequest(request)
  PROVE  Unsent = waiting \cup ToSet(request.pinged) \cup (ToSet(retrying) \ {TheFlush})
                    \cup QueueIds(request)
BY QueuedRows DEF Unsent

LEMMA UnsentNext ==
  ASSUME IsRequest(request')
  PROVE  Unsent' = waiting' \cup ToSet(request'.pinged) \cup (ToSet(retrying') \ {TheFlush})
                     \cup QueueIds(request')
<1>1. {row.id : row \in ToSet(request'.modules \o request'.json \o request'.errors)}
        = QueueIds(request')
  BY QueuedRows
<1> QED BY <1>1 DEF Unsent

LEMMA ServerStep ==
  ASSUME IInv, UNCHANGED <<program, clientVars>>, IsRequest(request'),
         request.nextChunkId <= request'.nextChunkId,
         waiting' \subseteq DOMAIN request'.segments,
         request'.pinged \in Seq(DOMAIN request'.segments),
         retrying' \in Seq(DOMAIN request'.segments \cup {TheFlush}),
         stream' \in Seq(Rows(request'.nextChunkId)), ended' \in BOOLEAN,
         Coming \subseteq Coming',
         WrittenIds(request') \cup RowRefs(request'.json) \cup RowRefs(stream')
           \subseteq Coming' \cup WrittenIds(request) \cup RowRefs(request.json)
                       \cup RowRefs(stream),
         InOrder(stream'), ProviderIds(request'.json) \cap Mentions(stream') = {},
         (ProviderIds(request'.json) \cup ProviderIds(stream')) \cap Known(request.nextChunkId)
           \subseteq ProviderIds(request.json) \cup ProviderIds(stream)
  PROVE  TypeInv' /\ OrderInv' /\ ServedInv'
<1>1. PICK n, m : n = request.nextChunkId /\ m = request'.nextChunkId
  OBVIOUS
<1>2. n \in Nat /\ m \in Nat /\ n <= m /\ ClientInv(n) /\ program \in Programs
  BY <1>1 DEF IInv, TypeInv, N, IsRequest
<1>3. ClientInv(m)'
  BY <1>2, ClientKept
<1>4. Met' = Met /\ Settled' = Settled /\ Met \subseteq Known(n)
  BY <1>2, ClientSame, MetKnown
<1>5. request' \in Requests(m) /\ RequestInOrder(request')
  BY <1>1 DEF IsRequest
<1>6. (request \in Requests(N))'
  BY <1>1, <1>5 DEF Requests, Names, N
<1>7. (N \in Nat)' /\ ClientInv(N)'
  BY <1>1, <1>2, <1>3 DEF N, ClientInv
<1>8. (stream \in Seq(Rows(N)))'
  BY <1>1 DEF N
<1>9. TypeInv'
  BY <1>2, <1>6, <1>7, <1>8 DEF TypeInv
<1>10. OrderInv'
  <2>1. (ProviderIds(request.json) \cup ProviderIds(stream)) \cap Met = {}
    BY DEF IInv, OrderInv
  <2>2. (ProviderIds(request'.json) \cup ProviderIds(stream')) \cap Met = {}
    BY <1>1, <1>4, <2>1
  <2> QED BY <1>4, <1>5, <2>2 DEF OrderInv
<1>11. ServedInv'
  <2>1. Met \cup WrittenIds(request) \cup RowRefs(request.json) \cup RowRefs(stream)
          \subseteq Coming \cup Settled
    BY DEF IInv, ServedInv
  <2> QED BY <1>4, <2>1 DEF ServedInv
<1> QED BY <1>9, <1>10, <1>11

LEMMA RequestFrom ==
  ASSUME NEW a, IsRequest(a), NEW f \in BOOLEAN, NEW s \in BOOLEAN,
         NEW p \in Seq(Known(a.nextChunkId)), NEW c \in Int,
         NEW m \in Seq(ModuleRows(a.nextChunkId)), NEW j \in Seq(JsonRows(a.nextChunkId)),
         NEW e \in Seq(ErrorRows(a.nextChunkId)), InOrder(j),
         RowIds(m) \subseteq RowIds(a.modules), RowIds(e) \subseteq RowIds(a.errors),
         ProviderIds(j) \subseteq ProviderIds(a.json), NEW b,
         b = Made(f, s, p, a.nextChunkId, c, a.segments, m, j, e, a.written, a.refs, a.thrown)
  PROVE  IsRequest(b)
<1> DEFINE n == a.nextChunkId
<1>1. /\ n \in Nat /\ a.segments \in Partial(Known(n), Names) /\ RequestInOrder(a)
      /\ a.written \in Partial(ItemNames(program), Known(n)) /\ a.refs \in Seq(Refs(n))
      /\ a.thrown \in BOOLEAN
  BY RequestFacts
<1>2. /\ b.nextChunkId = n /\ b.segments = a.segments /\ b.modules = m /\ b.json = j
      /\ b.errors = e /\ b.written = a.written
  BY MadeFields
<1>3. b \in Requests(n)
  BY <1>1 DEF Requests, Made
<1>4. WrittenIds(b) = WrittenIds(a)
  BY <1>2 DEF WrittenIds
<1>5. RequestInOrder(b)
  BY <1>1, <1>2, <1>4 DEF RequestInOrder
<1> QED BY <1>1, <1>2, <1>3, <1>5 DEF IsRequest

PingedTo(a, b, p, s) ==
  /\ b.pinged = p /\ b.scheduled = s /\ b.nextChunkId = a.nextChunkId
  /\ b.pendingChunks = a.pendingChunks /\ b.segments = a.segments
  /\ b.modules = a.modules /\ b.json = a.json /\ b.errors = a.errors
  /\ b.written = a.written

LEMMA PingedIs ==
  ASSUME NEW a, IsRequest(a), NEW p \in Seq(DOMAIN a.segments), NEW s \in BOOLEAN,
         NEW b, \/ b = [a EXCEPT !.pinged = p, !.scheduled = s]
                \/ b = [a EXCEPT !.scheduled = s, !.pinged = p]
  PROVE  IsRequest(b) /\ PingedTo(a, b, p, s)
<1>1. a = Made(a.flowing, a.scheduled, a.pinged, a.nextChunkId, a.pendingChunks,
               a.segments, a.modules, a.json, a.errors, a.written, a.refs, a.thrown)
  BY RequestIs
<1>2. PICK x : x = s
  OBVIOUS
<1>3. PICK some, other : some = [a EXCEPT !.pinged = p] /\ other = [a EXCEPT !.scheduled = x]
  OBVIOUS
<1>4. /\ some = Made(a.flowing, a.scheduled, p, a.nextChunkId, a.pendingChunks, a.segments,
                     a.modules, a.json, a.errors, a.written, a.refs, a.thrown)
      /\ other = Made(a.flowing, x, a.pinged, a.nextChunkId, a.pendingChunks, a.segments,
                      a.modules, a.json, a.errors, a.written, a.refs, a.thrown)
  BY <1>1, <1>3, MadeExcept
<1>5. [some EXCEPT !.scheduled = x] =
        Made(a.flowing, x, p, a.nextChunkId, a.pendingChunks, a.segments,
             a.modules, a.json, a.errors, a.written, a.refs, a.thrown)
  BY <1>4, MadeExcept
<1>6. [other EXCEPT !.pinged = p] =
        Made(a.flowing, x, p, a.nextChunkId, a.pendingChunks, a.segments,
             a.modules, a.json, a.errors, a.written, a.refs, a.thrown)
  BY <1>4, MadeExcept
<1>7. b = [some EXCEPT !.scheduled = x] \/ b = [other EXCEPT !.pinged = p]
  BY <1>2, <1>3
<1>8. b = Made(a.flowing, s, p, a.nextChunkId, a.pendingChunks, a.segments,
               a.modules, a.json, a.errors, a.written, a.refs, a.thrown)
  BY <1>2, <1>5, <1>6, <1>7
<1>9. /\ a.flowing \in BOOLEAN /\ a.pendingChunks \in Int
      /\ a.modules \in Seq(ModuleRows(a.nextChunkId)) /\ a.json \in Seq(JsonRows(a.nextChunkId))
      /\ a.errors \in Seq(ErrorRows(a.nextChunkId)) /\ InOrder(a.json)
  BY RequestFacts DEF RequestInOrder
<1>10. p \in Seq(Known(a.nextChunkId))
  BY RequestKnows, SequencesGrow
<1>11. IsRequest(b)
  BY <1>8, <1>9, <1>10, RequestFrom
<1>12. /\ b.pinged = p /\ b.scheduled = s /\ b.nextChunkId = a.nextChunkId
       /\ b.pendingChunks = a.pendingChunks /\ b.segments = a.segments
       /\ b.modules = a.modules /\ b.json = a.json /\ b.errors = a.errors
       /\ b.written = a.written
  BY <1>8, MadeFields
<1> QED BY <1>11, <1>12 DEF PingedTo

\* The rows and the client stay as they are.
LEMMA JobStep ==
  ASSUME IInv, UNCHANGED <<program, ended, stream, clientVars>>,
         IsRequest(request'), request'.nextChunkId = request.nextChunkId,
         request'.segments = request.segments, request'.modules = request.modules,
         request'.json = request.json, request'.errors = request.errors,
         request'.written = request.written,
         waiting' \subseteq DOMAIN request.segments,
         request'.pinged \in Seq(DOMAIN request.segments),
         retrying' \in Seq(DOMAIN request.segments \cup {TheFlush}),
         waiting' \cup ToSet(request'.pinged) \cup (ToSet(retrying') \ {TheFlush})
           = waiting \cup ToSet(request.pinged) \cup (ToSet(retrying) \ {TheFlush})
  PROVE  TypeInv' /\ OrderInv' /\ ServedInv'
<1>1. IsRequest(request)
  BY RequestOk DEF IInv, OrderInv
<1>2. Coming' = Coming
  <2>1. QueueIds(request') = QueueIds(request)
    BY DEF QueueIds
  <2>2. Unsent' = Unsent
    BY <1>1, <2>1, UnsentIs, UnsentNext
  <2> QED BY <2>2 DEF Coming
<1>3. WrittenIds(request') = WrittenIds(request)
  BY DEF WrittenIds
<1>4. request.nextChunkId <= request'.nextChunkId
  BY <1>1 DEF IsRequest
<1>5. /\ stream \in Seq(Rows(request.nextChunkId)) /\ ended \in BOOLEAN
      /\ InOrder(stream) /\ ProviderIds(request.json) \cap Mentions(stream) = {}
  BY DEF IInv, TypeInv, N, OrderInv
<1>6. /\ waiting' \subseteq DOMAIN request'.segments
      /\ request'.pinged \in Seq(DOMAIN request'.segments)
      /\ retrying' \in Seq(DOMAIN request'.segments \cup {TheFlush})
      /\ stream' \in Seq(Rows(request'.nextChunkId)) /\ ended' \in BOOLEAN
      /\ InOrder(stream') /\ ProviderIds(request'.json) \cap Mentions(stream') = {}
  BY <1>5
<1>7. RowRefs(request'.json) = RowRefs(request.json) /\ RowRefs(stream') = RowRefs(stream)
      /\ ProviderIds(request'.json) = ProviderIds(request.json)
      /\ ProviderIds(stream') = ProviderIds(stream)
  OBVIOUS
<1> QED BY <1>2, <1>3, <1>4, <1>6, <1>7, ServerStep

LEMMA PingSegmentKeeps ==
  ASSUME IInv, NEW id \in waiting, PingSegment(id)
  PROVE  IInv'
<1>1. /\ retrying = <<>> /\ waiting' = waiting \ {id}
      /\ UNCHANGED <<program, retrying, ended, stream, clientVars, hitches>>
  BY DEF PingSegment, ServerIdle
<1>2. PICK p, s : /\ p = Append(request.pinged, id)
                  /\ s = (request.scheduled \/ request.pinged = <<>>)
  OBVIOUS
<1>3. request' = [request EXCEPT !.pinged = p, !.scheduled = s]
  BY <1>2 DEF PingSegment
<1>4. IsRequest(request)
  BY RequestOk DEF IInv, OrderInv
<1>5. request.pinged \in Seq(DOMAIN request.segments) /\ id \in DOMAIN request.segments
  BY DEF IInv, TypeInv
<1>6. p \in Seq(DOMAIN request.segments) /\ Len(p) = Len(request.pinged) + 1
      /\ ToSet(p) = ToSet(request.pinged) \cup {id}
  <2>1. /\ Append(request.pinged, id) \in Seq(DOMAIN request.segments)
        /\ Len(Append(request.pinged, id)) = Len(request.pinged) + 1
    <3>1. \A S : \A seq \in Seq(S), elt \in S :
            Append(seq, elt) \in Seq(S) /\ Len(Append(seq, elt)) = Len(seq) + 1
      BY AppendProperties
    <3> QED BY ONLY <1>5, <3>1, Zenon
  <2>2. ToSet(Append(request.pinged, id)) = ToSet(request.pinged) \cup {id}
    BY <1>5, AppendedSet
  <2> QED BY <1>2, <2>1, <2>2
<1>7. s \in BOOLEAN
  BY <1>2
<1>8. /\ IsRequest(request')
      /\ request'.pinged = p /\ request'.scheduled = s
      /\ request'.nextChunkId = request.nextChunkId
      /\ request'.pendingChunks = request.pendingChunks
      /\ request'.segments = request.segments
      /\ request'.modules = request.modules /\ request'.json = request.json
      /\ request'.errors = request.errors /\ request'.written = request.written
  <2>1. IsRequest(request') /\ PingedTo(request, request', p, s)
    BY <1>3, <1>4, <1>6, <1>7, PingedIs
  <2> QED BY <2>1 DEF PingedTo
<1>9. TypeInv' /\ OrderInv' /\ ServedInv'
  <2>1. /\ waiting \subseteq DOMAIN request.segments
        /\ retrying \in Seq(DOMAIN request.segments \cup {TheFlush})
    BY DEF IInv, TypeInv
  <2>2. waiting' \cup ToSet(request'.pinged) \cup (ToSet(retrying') \ {TheFlush})
          = waiting \cup ToSet(request.pinged) \cup (ToSet(retrying) \ {TheFlush})
    BY <1>1, <1>6, <1>8
  <2> QED BY <1>1, <1>6, <1>8, <2>1, <2>2, JobStep
<1>10. id \notin ToSet(request.pinged) /\ Injective(request.pinged)
  BY DEF IInv, WorkInv, ToSet
<1>11. WorkInv'
  <2>1. Injective(p)
    BY <1>2, <1>5, <1>10, AppendedSet
  <2>2. \A i \in DOMAIN p : p[i] \notin waiting'
    <3>1. \A x \in ToSet(request.pinged) : x \notin waiting
      BY DEF IInv, WorkInv, ToSet
    <3>2. \A x \in ToSet(p) : x \notin waiting'
      BY <1>1, <1>6, <3>1
    <3> QED BY <3>2 DEF ToSet
  <2>3. Injective(retrying) /\ DOMAIN retrying = {}
    BY <1>1, NoneMapped DEF IInv, WorkInv
  <2> QED BY <1>1, <1>8, <2>1, <2>2, <2>3 DEF WorkInv
<1>12. CountInv'
  <2>1. PICK c, l, q, k : /\ c = Cardinality(waiting) /\ l = Len(request.pinged)
                       /\ q = QueueLength(request) /\ k = request.pendingChunks
    OBVIOUS
  <2>2. waiting \subseteq Known(request.nextChunkId) /\ request.nextChunkId \in Nat
    BY <1>4, RequestKnows DEF IInv, TypeInv, IsRequest
  <2>3. c \in Nat /\ IsFiniteSet(waiting)
    BY <2>1, <2>2, KnownFinite
  <2>4. l \in Nat /\ q \in Nat
    BY <1>4, <1>5, <2>1, LengthNat, RequestFacts, QueueLengthNat
  <2>5. Cardinality(waiting') = c - 1
    BY <1>1, <2>1, <2>3, FS_RemoveElement
  <2>6. QueueLength(request') = q /\ ToRetry' = 0 /\ ToRetry = 0
    BY <1>1, <1>8, <2>1 DEF QueueLength, ToRetry
  <2>7. k = c + l + 0 + q /\ (ended <=> k = 0)
    BY <2>1, <2>6 DEF IInv, CountInv
  <2>8. k = (c - 1) + (l + 1) + 0 + q
    BY <2>3, <2>4, <2>7
  <2>9. /\ request'.pendingChunks = k /\ Len(request'.pinged) = l + 1
        /\ ended' = ended
    BY <1>1, <1>6, <1>8, <2>1
  <2> QED BY <2>5, <2>6, <2>7, <2>8, <2>9 DEF CountInv
<1> QED BY <1>9, <1>11, <1>12 DEF IInv

LEMMA FlushApart ==
  ASSUME IInv
  PROVE  TheFlush \notin DOMAIN request.segments /\ TheFlush \notin waiting
<1>1. IsRequest(request) /\ waiting \subseteq DOMAIN request.segments
  BY RequestOk DEF IInv, OrderInv, TypeInv
<1>2. DOMAIN request.segments \subseteq Known(request.nextChunkId)
  BY <1>1, RequestKnows
<1> QED BY <1>1, <1>2 DEF Known, TheFlush, IsRequest

\* What the server counts, as natural numbers
LEMMA Counted ==
  ASSUME IInv
  PROVE  /\ Cardinality(waiting) \in Nat /\ IsFiniteSet(waiting)
         /\ Len(request.pinged) \in Nat /\ Len(retrying) \in Nat
         /\ QueueLength(request) \in Nat /\ request.pendingChunks \in Int
<1>1. IsRequest(request) /\ waiting \subseteq DOMAIN request.segments
      /\ request.pinged \in Seq(DOMAIN request.segments)
      /\ retrying \in Seq(DOMAIN request.segments \cup {TheFlush})
  BY RequestOk DEF IInv, OrderInv, TypeInv
<1>2. waiting \subseteq Known(request.nextChunkId) /\ request.nextChunkId \in Nat
  BY <1>1, RequestKnows DEF IsRequest
<1> QED BY <1>1, <1>2, KnownFinite, LengthNat, RequestFacts, QueueLengthNat

LEMMA PerformWorkKeeps ==
  ASSUME IInv, PerformWork
  PROVE  IInv'
<1>1. /\ retrying = <<>> /\ retrying' = Append(request.pinged, TheFlush)
      /\ UNCHANGED <<program, waiting, ended, stream, clientVars, hitches>>
  BY DEF PerformWork, ServerIdle
<1>2. PICK p, s : p = <<>> /\ s = FALSE
  OBVIOUS
<1>3. request' = [request EXCEPT !.scheduled = s, !.pinged = p]
  BY <1>2 DEF PerformWork
<1>4. IsRequest(request) /\ request.pinged \in Seq(DOMAIN request.segments)
  BY RequestOk DEF IInv, OrderInv, TypeInv
<1>5. s \in BOOLEAN /\ p \in Seq(DOMAIN request.segments) /\ DOMAIN p = {} /\ Len(p) = 0
  <2>1. <<>> \in Seq(DOMAIN request.segments) /\ Len(<<>>) = 0
    OBVIOUS
  <2>2. DOMAIN <<>> = {}
    BY NoneMapped
  <2> QED BY <1>2, <2>1, <2>2
<1>6. IsRequest(request') /\ PingedTo(request, request', p, s)
  BY <1>3, <1>4, <1>5, PingedIs
<1>7. /\ retrying' \in Seq(DOMAIN request.segments \cup {TheFlush})
      /\ Len(retrying') = Len(request.pinged) + 1
      /\ \A i \in 1..Len(request.pinged) : retrying'[i] = request.pinged[i]
      /\ retrying'[Len(request.pinged) + 1] = TheFlush
  <2>1. request.pinged \in Seq(DOMAIN request.segments \cup {TheFlush})
        /\ TheFlush \in DOMAIN request.segments \cup {TheFlush}
    BY <1>4, SequencesGrow
  <2> QED BY <1>1, <2>1, AppendProperties
<1>8. ToSet(retrying') = ToSet(request.pinged) \cup {TheFlush}
  <2>1. ToSet(Append(request.pinged, TheFlush)) = ToSet(request.pinged) \cup {TheFlush}
    BY <1>4, AppendedSet
  <2> QED BY <1>1, <2>1
<1>9. \A i \in DOMAIN request.pinged : request.pinged[i] \in DOMAIN request.segments
  BY <1>4, ElementOfSeq, LenProperties
<1>10. TheFlush \notin ToSet(request.pinged)
  BY <1>9, FlushApart DEF ToSet
<1>11. TypeInv' /\ OrderInv' /\ ServedInv'
  <2>1. ToSet(retrying) = {} /\ ToSet(p) = {}
    BY <1>1, <1>5, NoneMapped DEF ToSet
  <2>2. waiting' \cup ToSet(request'.pinged) \cup (ToSet(retrying') \ {TheFlush})
          = waiting \cup ToSet(request.pinged) \cup (ToSet(retrying) \ {TheFlush})
    BY <1>1, <1>6, <1>8, <1>10, <2>1 DEF PingedTo
  <2>3. /\ waiting' \subseteq DOMAIN request.segments
        /\ request'.pinged \in Seq(DOMAIN request.segments)
    BY <1>1, <1>5, <1>6 DEF IInv, TypeInv, PingedTo
  <2> QED BY <1>1, <1>6, <1>7, <2>2, <2>3, JobStep DEF PingedTo
<1>12. DOMAIN retrying' = 1..(Len(request.pinged) + 1) /\ Len(request.pinged) \in Nat
       /\ DOMAIN request.pinged = 1..Len(request.pinged)
  BY <1>4, <1>7, LenProperties
<1>13. WorkInv'
  <2>1. \A i \in DOMAIN retrying' : retrying'[i] = TheFlush <=> i = Len(retrying')
    BY <1>7, <1>9, <1>12, FlushApart
  <2>2. Injective(Append(request.pinged, TheFlush))
    <3>1. Injective(request.pinged)
      BY DEF IInv, WorkInv
    <3> QED BY <1>4, <1>10, <3>1, AppendedSet
  <2>3. Injective(retrying') /\ Injective(p)
    BY <1>1, <1>5, <2>2 DEF Injective
  <2>4. \A x \in ToSet(retrying') : x \notin waiting'
    <3>1. \A x \in ToSet(request.pinged) : x \notin waiting
      BY DEF IInv, WorkInv, ToSet
    <3> QED BY <1>1, <1>8, <3>1, FlushApart
  <2>5. \A i \in DOMAIN retrying' : retrying'[i] \notin waiting'
    BY <2>4 DEF ToSet
  <2>6. request'.pinged = p /\ request'.pinged = <<>>
    BY <1>2, <1>6 DEF PingedTo
  <2> QED BY <1>5, <2>1, <2>3, <2>5, <2>6 DEF WorkInv
<1>14. CountInv'
  <2>1. PICK c, l, q, k : /\ c = Cardinality(waiting) /\ l = Len(request.pinged)
                          /\ q = QueueLength(request) /\ k = request.pendingChunks
    OBVIOUS
  <2>2. c \in Nat /\ l \in Nat /\ q \in Nat
    BY <2>1, Counted
  <2>3. ToRetry = 0
    BY <1>1 DEF ToRetry
  <2>4. k = c + l + 0 + q /\ (ended <=> k = 0)
    BY <2>1, <2>3 DEF IInv, CountInv
  <2>5. retrying' # <<>>
    BY <1>12, NoneMapped
  <2>6. ToRetry' = (l + 1) - 1
    BY <1>7, <2>1, <2>5 DEF ToRetry
  <2>7. QueueLength(request') = q /\ request'.pendingChunks = k
        /\ Len(request'.pinged) = 0 /\ ended' = ended /\ Cardinality(waiting') = c
    BY <1>1, <1>5, <1>6, <2>1 DEF QueueLength, PingedTo
  <2>8. k = c + 0 + ((l + 1) - 1) + q
    BY <2>2, <2>4
  <2> QED BY <2>4, <2>6, <2>7, <2>8 DEF CountInv
<1> QED BY <1>11, <1>13, <1>14 DEF IInv

LEMMA SuspendsKeeps ==
  ASSUME IInv, retrying # <<>>, Head(retrying) # TheFlush,
         waiting' = waiting \cup {Head(retrying)}, retrying' = Tail(retrying),
         UNCHANGED <<program, request, ended, stream, clientVars>>
  PROVE  IInv'
<1>1. IsRequest(request) /\ request.pinged \in Seq(DOMAIN request.segments)
      /\ waiting \subseteq DOMAIN request.segments
      /\ retrying \in Seq(DOMAIN request.segments \cup {TheFlush})
  BY RequestOk DEF IInv, OrderInv, TypeInv
<1>2. PICK S, id : S = DOMAIN request.segments \cup {TheFlush} /\ id = Head(retrying)
  OBVIOUS
<1>3. /\ ToSet(retrying) = {id} \cup ToSet(retrying') /\ id = retrying[1]
      /\ retrying' \in Seq(S) /\ Len(retrying') = Len(retrying) - 1
      /\ \A i \in DOMAIN retrying' : i + 1 \in DOMAIN retrying /\ retrying'[i] = retrying[i + 1]
      /\ Injective(retrying') /\ id \notin ToSet(retrying')
  <2>1. Injective(retrying)
    BY DEF IInv, WorkInv
  <2> QED BY <1>1, <1>2, <2>1, TailSet
<1>4. id \in DOMAIN request.segments /\ id \notin waiting
  <2>1. id \in S /\ id # TheFlush
    BY <1>1, <1>2, HeadTailProperties
  <2>2. id \in ToSet(retrying)
    BY <1>3
  <2>3. \A x \in ToSet(retrying) : x \notin waiting
    BY DEF IInv, WorkInv, ToSet
  <2> QED BY <1>2, <2>1, <2>2, <2>3
<1>5. TypeInv' /\ OrderInv' /\ ServedInv'
  <2>1. waiting' \cup ToSet(request'.pinged) \cup (ToSet(retrying') \ {TheFlush})
          = waiting \cup ToSet(request.pinged) \cup (ToSet(retrying) \ {TheFlush})
    <3>1. waiting' = waiting \cup {id} /\ id # TheFlush
      BY <1>2
    <3> QED BY <1>3, <3>1
  <2>2. waiting' \subseteq DOMAIN request.segments
    BY <1>1, <1>2, <1>4
  <2>3. retrying' \in Seq(DOMAIN request.segments \cup {TheFlush})
    BY <1>2, <1>3
  <2> QED BY <1>1, <2>1, <2>2, <2>3, JobStep
<1>6. request.pinged = <<>> /\ Len(retrying) \in Nat /\ DOMAIN retrying = 1..Len(retrying)
      /\ \A i \in DOMAIN retrying : retrying[i] = TheFlush <=> i = Len(retrying)
  BY <1>1, LenProperties DEF IInv, WorkInv
<1>7. Len(retrying) # 1 /\ Len(retrying) # 0
  <2>1. 1 \in DOMAIN retrying => Len(retrying) # 1
    BY <1>2, <1>3, <1>6
  <2>2. Len(retrying) # 0
    BY <1>1, EmptySeq, LenProperties
  <2> QED BY <1>6, <2>1, <2>2
<1>8. DOMAIN retrying' = 1..Len(retrying') /\ Len(retrying') \in Nat
  BY <1>3, LenProperties
<1>9. WorkInv'
  <2>1. \A i \in DOMAIN retrying' : retrying'[i] = TheFlush <=> i = Len(retrying')
    BY <1>3, <1>6, <1>8
  <2>2. \A x \in ToSet(retrying') : x \notin waiting'
    <3>1. \A x \in ToSet(retrying) : x \notin waiting
      BY DEF IInv, WorkInv, ToSet
    <3> QED BY <1>2, <1>3, <3>1
  <2>3. \A i \in DOMAIN retrying' : retrying'[i] \notin waiting'
    BY <2>2 DEF ToSet
  <2>4. request'.pinged = <<>> /\ Injective(request'.pinged)
        /\ \A i \in DOMAIN request'.pinged : request'.pinged[i] \notin waiting'
    <3>1. request'.pinged = <<>>
      BY <1>6
    <3>2. DOMAIN request'.pinged = {}
      BY <3>1, NoneMapped
    <3> QED BY <3>1, <3>2 DEF Injective
  <2> QED BY <1>3, <2>1, <2>3, <2>4 DEF WorkInv
<1>10. CountInv'
  <2>1. PICK c, l, q, k, w : /\ c = Cardinality(waiting) /\ l = Len(request.pinged)
                             /\ q = QueueLength(request) /\ k = request.pendingChunks
                             /\ w = Len(retrying)
    OBVIOUS
  <2>2. c \in Nat /\ l \in Nat /\ q \in Nat /\ w \in Nat /\ IsFiniteSet(waiting)
    BY <2>1, Counted
  <2>3. ToRetry = w - 1
    BY <2>1 DEF ToRetry
  <2>4. k = c + l + (w - 1) + q /\ (ended <=> k = 0)
    BY <2>1, <2>3 DEF IInv, CountInv
  <2>5. retrying' # <<>>
    <3>1. Len(retrying') # 0
      BY <1>3, <1>6, <1>7
    <3> QED BY <3>1
  <2>6. ToRetry' = (w - 1) - 1
    BY <1>3, <2>1, <2>5 DEF ToRetry
  <2>7. Cardinality(waiting') = c + 1
    BY <1>2, <1>4, <2>1, <2>2, FS_AddElement
  <2>8. QueueLength(request') = q /\ request'.pendingChunks = k
        /\ Len(request'.pinged) = l /\ ended' = ended
    BY <2>1
  <2>9. k = (c + 1) + l + ((w - 1) - 1) + q
    BY <2>2, <2>4
  <2> QED BY <2>4, <2>6, <2>7, <2>8, <2>9 DEF CountInv
<1> QED BY <1>5, <1>9, <1>10 DEF IInv

LEMMA DisjointSum ==
  ASSUME NEW n \in Nat, NEW S, NEW T, S \subseteq Known(n), T \subseteq Known(n),
         S \cap T = {}
  PROVE  /\ Cardinality(S \cup T) = Cardinality(S) + Cardinality(T)
         /\ Cardinality(S) \in Nat /\ Cardinality(T) \in Nat
<1>1. IsFiniteSet(S) /\ IsFiniteSet(T) /\ Cardinality(S) \in Nat /\ Cardinality(T) \in Nat
  BY KnownFinite
<1>2. Cardinality(S \cup T) = Cardinality(S) + Cardinality(T) - Cardinality(S \cap T)
  BY <1>1, FS_Union
<1>3. Cardinality(S \cap T) = 0
  BY FS_EmptySet
<1> QED BY <1>1, <1>2, <1>3

LEMMA QueuesHold ==
  ASSUME NEW a, IsRequest(a), QueueIds(a) # {}
  PROVE  QueueLength(a) \in Nat /\ QueueLength(a) # 0
<1>1. PICK x, y, z : x = Len(a.modules) /\ y = Len(a.json) /\ z = Len(a.errors)
  OBVIOUS
<1>2. x \in Nat /\ y \in Nat /\ z \in Nat
  BY <1>1, RequestFacts, LengthNat
<1>3. DOMAIN a.modules = 1..x /\ DOMAIN a.json = 1..y /\ DOMAIN a.errors = 1..z
  BY <1>1, RequestFacts, LenProperties
<1>4. DOMAIN a.modules # {} \/ DOMAIN a.json # {} \/ DOMAIN a.errors # {}
  BY DEF QueueIds, RowIds
<1>5. QueueLength(a) = x + y + z
  BY <1>1 DEF QueueLength
<1>6. x # 0 \/ y # 0 \/ z # 0
  BY <1>3, <1>4
<1> QED BY <1>2, <1>5, <1>6

LEMMA QueuesAreEmpty ==
  ASSUME NEW a, IsRequest(a), QueueIds(a) = {}
  PROVE  QueueLength(a) = 0
<1>1. PICK x, y, z : x = Len(a.modules) /\ y = Len(a.json) /\ z = Len(a.errors)
  OBVIOUS
<1>2. x \in Nat /\ y \in Nat /\ z \in Nat
  BY <1>1, RequestFacts, LengthNat
<1>3. DOMAIN a.modules = 1..x /\ DOMAIN a.json = 1..y /\ DOMAIN a.errors = 1..z
  BY <1>1, RequestFacts, LenProperties
<1>4. DOMAIN a.modules = {} /\ DOMAIN a.json = {} /\ DOMAIN a.errors = {}
  BY DEF QueueIds, RowIds
<1>5. 1..x = {} /\ 1..y = {} /\ 1..z = {}
  BY <1>3, <1>4
<1>a. ASSUME NEW n \in Nat, 1..n = {} PROVE n = 0
  <2>1. CASE n # 0
    <3>1. 1 \in 1..n
      BY <2>1
    <3> QED BY <3>1, <1>a
  <2> QED BY <2>1
<1>b. x = 0
  BY <1>2, <1>5, <1>a
<1>c. y = 0
  BY <1>2, <1>5, <1>a
<1>d. z = 0
  BY <1>2, <1>5, <1>a
<1>6. QueueLength(a) = x + y + z
  BY <1>1 DEF QueueLength
<1> QED BY <1>b, <1>c, <1>d, <1>6

LEMMA RendersKeeps ==
  ASSUME IInv, retrying # <<>>, Head(retrying) # TheFlush,
         IsRequest(request'), Renders(request, request', Head(retrying)),
         waiting' = waiting \cup Added(request, request'), retrying' = Tail(retrying),
         UNCHANGED <<program, ended, stream, clientVars>>
  PROVE  IInv'
<1>1. IsRequest(request) /\ request.pinged \in Seq(DOMAIN request.segments)
      /\ waiting \subseteq DOMAIN request.segments
      /\ retrying \in Seq(DOMAIN request.segments \cup {TheFlush})
  BY RequestOk DEF IInv, OrderInv, TypeInv
<1>2. PICK S, id, n, m : /\ S = DOMAIN request.segments \cup {TheFlush}
                         /\ id = Head(retrying) /\ n = request.nextChunkId
                         /\ m = request'.nextChunkId
  OBVIOUS
<1>3. /\ ToSet(retrying) = {id} \cup ToSet(retrying') /\ id = retrying[1]
      /\ retrying' \in Seq(S) /\ Len(retrying') = Len(retrying) - 1
      /\ \A i \in DOMAIN retrying' : i + 1 \in DOMAIN retrying /\ retrying'[i] = retrying[i + 1]
      /\ Injective(retrying') /\ id \notin ToSet(retrying')
  <2>1. Injective(retrying)
    BY DEF IInv, WorkInv
  <2> QED BY <1>1, <1>2, <2>1, TailSet
<1>4. Renders(request, request', id)
  BY <1>2
<1>5. /\ n <= m /\ n \in Nat /\ m \in Nat /\ request'.pinged = request.pinged
      /\ DOMAIN request.segments \subseteq DOMAIN request'.segments
      /\ Added(request, request') \cap Known(n) = {}
      /\ QueueIds(request) \cup {id} \subseteq QueueIds(request')
      /\ RowRefs(request'.json) \cup WrittenIds(request')
           \subseteq RowRefs(request.json) \cup WrittenIds(request) \cup QueueIds(request')
                       \cup Added(request, request')
      /\ ProviderIds(request'.json) \cap Known(n) \subseteq ProviderIds(request.json)
      /\ Surplus(request') = Surplus(request) - 1
  BY <1>1, <1>2, <1>4 DEF Renders, IsRequest
<1>6. Added(request, request') \subseteq DOMAIN request'.segments
      /\ DOMAIN request'.segments = DOMAIN request.segments \cup Added(request, request')
      /\ DOMAIN request.segments \cap Added(request, request') = {}
  BY <1>5 DEF Added
<1>7. /\ DOMAIN request.segments \subseteq Known(n)
      /\ DOMAIN request'.segments \subseteq Known(m)
      /\ waiting \subseteq Known(n)
  BY <1>1, <1>2, RequestKnows
<1>8. request.pinged = <<>> /\ Len(retrying) \in Nat /\ DOMAIN retrying = 1..Len(retrying)
      /\ \A i \in DOMAIN retrying : retrying[i] = TheFlush <=> i = Len(retrying)
  BY <1>1, LenProperties DEF IInv, WorkInv
<1>9. Len(retrying) # 1 /\ Len(retrying) # 0
  <2>1. 1 \in DOMAIN retrying => Len(retrying) # 1
    BY <1>2, <1>3, <1>8
  <2>2. Len(retrying) # 0
    BY <1>1, EmptySeq, LenProperties
  <2> QED BY <1>8, <2>1, <2>2
<1>10. DOMAIN retrying' = 1..Len(retrying') /\ Len(retrying') \in Nat
  BY <1>3, LenProperties
<1>11. TypeInv' /\ OrderInv' /\ ServedInv'
  <2>1. /\ stream \in Seq(Rows(n)) /\ ended \in BOOLEAN
        /\ InOrder(stream) /\ ProviderIds(request.json) \cap Mentions(stream) = {}
    BY <1>2 DEF IInv, TypeInv, N, OrderInv
  <2>2. Mentions(stream) \subseteq Known(n)
    BY <1>5, <2>1, RowsKnown
  <2>3. stream' \in Seq(Rows(request'.nextChunkId))
    BY <1>2, <1>5, <2>1, MoreKnown, SequencesGrow
  <2>4. Coming \subseteq Coming'
    <3>1. Unsent \subseteq Unsent'
      BY <1>1, <1>3, <1>5, UnsentIs, UnsentNext
    <3> QED BY <3>1 DEF Coming
  <2>5. QueueIds(request') \cup Added(request, request') \subseteq Coming'
    BY UnsentNext DEF Coming
  <2>6. WrittenIds(request') \cup RowRefs(request'.json) \cup RowRefs(stream')
          \subseteq Coming' \cup WrittenIds(request) \cup RowRefs(request.json)
                      \cup RowRefs(stream)
    BY <1>5, <2>5
  <2>7. InOrder(stream') /\ ProviderIds(request'.json) \cap Mentions(stream') = {}
    BY <1>5, <2>1, <2>2
  <2>8. (ProviderIds(request'.json) \cup ProviderIds(stream'))
            \cap Known(request.nextChunkId)
          \subseteq ProviderIds(request.json) \cup ProviderIds(stream)
    BY <1>2, <1>5
  <2>9. /\ waiting' \subseteq DOMAIN request'.segments
        /\ request'.pinged \in Seq(DOMAIN request'.segments)
        /\ retrying' \in Seq(DOMAIN request'.segments \cup {TheFlush})
    <3>1. S \subseteq DOMAIN request'.segments \cup {TheFlush}
      BY <1>2, <1>5
    <3> QED BY <1>1, <1>3, <1>5, <1>6, <3>1, SequencesGrow
  <2>10. request.nextChunkId <= request'.nextChunkId
    BY <1>2, <1>5
  <2> HIDE DEF IInv
  <2> QED BY <2>1, <2>3, <2>4, <2>6, <2>7, <2>8, <2>9, <2>10, ServerStep
<1>12. WorkInv'
  <2>1. \A i \in DOMAIN retrying' : retrying'[i] = TheFlush <=> i = Len(retrying')
    BY <1>3, <1>8, <1>10
  <2>2. \A x \in ToSet(retrying') : x \notin waiting'
    <3>1. \A x \in ToSet(retrying) : x \notin waiting
      BY DEF IInv, WorkInv, ToSet
    <3>2. \A i \in DOMAIN retrying : retrying[i] \in DOMAIN request.segments \cup {TheFlush}
      BY <1>1, ElementOfSeq, LenProperties
    <3>3. \A x \in ToSet(retrying) : x \in DOMAIN request.segments \/ x = TheFlush
      BY <3>2 DEF ToSet
    <3>4. TheFlush \notin Added(request, request')
      BY <1>6, <1>7, <1>5 DEF Known, TheFlush
    <3> QED BY <1>3, <1>6, <3>1, <3>3, <3>4
  <2>3. \A i \in DOMAIN retrying' : retrying'[i] \notin waiting'
    BY <2>2 DEF ToSet
  <2>4. request'.pinged = <<>> /\ Injective(request'.pinged)
        /\ \A i \in DOMAIN request'.pinged : request'.pinged[i] \notin waiting'
    <3>1. request'.pinged = <<>>
      BY <1>5, <1>8
    <3>2. DOMAIN request'.pinged = {}
      BY <3>1, NoneMapped
    <3> QED BY <3>1, <3>2 DEF Injective
  <2> QED BY <1>3, <2>1, <2>3, <2>4 DEF WorkInv
<1>13. CountInv'
  <2>1. PICK c, l, q, k, w, g, d, r, h :
                          /\ c = Cardinality(waiting) /\ l = Len(request.pinged)
                          /\ q = QueueLength(request) /\ k = request.pendingChunks
                          /\ w = Len(retrying) /\ g = Cardinality(DOMAIN request.segments)
                          /\ d = Cardinality(Added(request, request'))
                          /\ r = QueueLength(request') /\ h = request'.pendingChunks
    OBVIOUS
  <2>2. c \in Nat /\ l \in Nat /\ q \in Nat /\ w \in Nat /\ k \in Int
    BY <2>1, Counted
  <2>3. /\ Cardinality(DOMAIN request'.segments) = g + d /\ g \in Nat /\ d \in Nat
    <3>1. DOMAIN request.segments \subseteq Known(m)
          /\ Added(request, request') \subseteq Known(m)
      BY <1>6, <1>7
    <3>2. PICK A, B : A = DOMAIN request.segments /\ B = Added(request, request')
      OBVIOUS
    <3>3. A \subseteq Known(m) /\ B \subseteq Known(m) /\ A \cap B = {} /\ m \in Nat
          /\ DOMAIN request'.segments = A \cup B
      BY <1>5, <1>6, <3>1, <3>2
    <3>4. /\ Cardinality(A \cup B) = Cardinality(A) + Cardinality(B)
          /\ Cardinality(A) \in Nat /\ Cardinality(B) \in Nat
      BY <3>3, DisjointSum
    <3> QED BY <2>1, <3>2, <3>3, <3>4
  <2>4. Cardinality(waiting') = c + d
    <3>1. waiting \subseteq Known(m) /\ Added(request, request') \subseteq Known(m)
          /\ waiting \cap Added(request, request') = {}
      BY <1>1, <1>6, <1>7
    <3> QED BY <1>5, <2>1, <3>1, DisjointSum
  <2>5. r \in Nat /\ r # 0
    BY <1>5, <2>1, QueuesHold
  <2>6. h \in Int
    BY <2>1, RequestFacts
  <2>7. h - (g + d + r) = (k - (g + q)) - 1
    BY <1>5, <2>1, <2>3 DEF Surplus
  <2>8. ToRetry = w - 1
    BY <2>1 DEF ToRetry
  <2>9. k = c + l + (w - 1) + q /\ (ended <=> k = 0)
    BY <2>1, <2>8 DEF IInv, CountInv
  <2>10. retrying' # <<>>
    <3>1. Len(retrying') # 0
      BY <1>3, <1>8, <1>9
    <3> QED BY <3>1
  <2>11. ToRetry' = (w - 1) - 1
    BY <1>3, <2>1, <2>10 DEF ToRetry
  <2>12. w # 0 /\ w # 1
    BY <1>9, <2>1
  <2>13. k # 0 /\ h # 0 /\ h = (c + d) + l + ((w - 1) - 1) + r
    BY <2>2, <2>3, <2>5, <2>6, <2>7, <2>9, <2>12
  <2>14. Len(request'.pinged) = l /\ ended' = ended
    BY <1>5, <2>1
  <2> QED BY <2>1, <2>4, <2>9, <2>11, <2>13, <2>14 DEF CountInv
<1> QED BY <1>11, <1>12, <1>13 DEF IInv

LEMMA RetrySegmentKeeps ==
  ASSUME IInv, RetrySegment
  PROVE  IInv'
<1>1. retrying # <<>> /\ Head(retrying) # TheFlush /\ retrying' = Tail(retrying)
      /\ UNCHANGED <<program, ended, stream, clientVars>>
  BY DEF RetrySegment, ServerIdle
<1>2. PICK how, id, component, row :
        /\ how \in Hows /\ id = Head(retrying) /\ component = request.segments[id]
        /\ row = [tag |-> "E", id |-> id, refs |-> <<>>]
        /\ IF how[component] = "suspends"
           THEN waiting' = waiting \cup {id} /\ UNCHANGED request
           ELSE /\ request' = IF how[component] = "throws" THEN Emit(request, "errors", row)
                              ELSE ModelRow(request, id, component, how)
                /\ waiting' = waiting \cup
                     (DOMAIN request'.segments \ DOMAIN request.segments)
  BY DEF RetrySegment, Hows
<1>3. IsRequest(request) /\ retrying \in Seq(DOMAIN request.segments \cup {TheFlush})
      /\ program \in Programs
  BY RequestOk DEF IInv, OrderInv, TypeInv
<1>4. id \in DOMAIN request.segments /\ component \in Names
  <2>1. id \in DOMAIN request.segments
    BY <1>1, <1>2, <1>3, HeadTailProperties
  <2>2. request.segments \in Partial(Known(request.nextChunkId), Names)
    BY <1>3, RequestFacts
  <2> QED BY <1>2, <2>1, <2>2, PartialIs
<1>5. CASE how[component] = "suspends"
  <2>1. waiting' = waiting \cup {Head(retrying)} /\ UNCHANGED request
    BY <1>2, <1>5
  <2> QED BY <1>1, <2>1, SuspendsKeeps
<1>6. CASE how[component] # "suspends"
  <2>1. waiting' = waiting \cup Added(request, request')
    BY <1>2, <1>6 DEF Added
  <2>2. IsRequest(request') /\ Renders(request, request', id)
    <3>1. CASE how[component] = "throws"
      <4>1. request' = Emit(request, "errors", [tag |-> "E", id |-> id, refs |-> <<>>])
        BY <1>2, <1>6, <3>1
      <4> QED BY <1>3, <1>4, <4>1, ThrowRendered
    <3>2. CASE how[component] # "throws"
      <4>1. request' = ModelRow(request, id, component, how)
        BY <1>2, <1>6, <3>2
      <4> QED BY <1>2, <1>3, <1>4, <4>1, ModelRendered
    <3> QED BY <3>1, <3>2
  <2>3. Renders(request, request', Head(retrying))
    BY <1>2, <2>2
  <2> QED BY <1>1, <2>1, <2>2, <2>3, RendersKeeps
<1> QED BY <1>5, <1>6

\* How many rows a flush takes
LEMMA AmountsAre ==
  ASSUME IInv, NEW amount \in Amounts
  PROVE  /\ amount.rows[1] \in 0..Len(request.modules)
         /\ amount.rows[2] \in 0..Len(request.json)
         /\ amount.rows[3] \in 0..Len(request.errors)
         /\ amount.isFull \in BOOLEAN
<1> DEFINE all == [q \in 1..3 |-> Len(Queued[q])]
           Until(full, n) == [q \in 1..3 |-> CASE q < full -> all[q]
                                               [] q = full -> n
                                               [] q > full /\ all[q] > 0 -> 1
                                               [] q > full /\ all[q] = 0 -> 0]
<1>1. IsRequest(request)
  BY RequestOk DEF IInv, OrderInv
<1>2. Len(request.modules) \in Nat /\ Len(request.json) \in Nat /\ Len(request.errors) \in Nat
  BY <1>1, RequestFacts, LengthNat
<1>3. all[1] = Len(request.modules) /\ all[2] = Len(request.json)
      /\ all[3] = Len(request.errors)
  BY DEF Queued
<1>4. \/ amount = [rows |-> all, isFull |-> FALSE]
      \/ \E q \in 1..3 : \E n \in 1..all[q] : amount = [rows |-> Until(q, n), isFull |-> TRUE]
  BY DEF Amounts
<1>5. \A q \in 1..3 : all[q] \in Nat
  BY <1>2, <1>3
<1> HIDE DEF all
<1>6. CASE amount = [rows |-> all, isFull |-> FALSE]
  BY <1>2, <1>3, <1>6
<1>7. ASSUME NEW q \in 1..3, NEW n \in 1..all[q],
             amount = [rows |-> Until(q, n), isFull |-> TRUE]
      PROVE  (\A p \in 1..3 : amount.rows[p] \in 0..all[p]) /\ amount.isFull \in BOOLEAN
  <2>1. ASSUME NEW p \in 1..3
        PROVE  Until(q, n)[p] \in 0..all[p]
    <3>1. all[p] \in Nat /\ all[q] \in Nat
      BY <1>5
    <3>2. CASE p < q
      BY <3>1, <3>2
    <3>3. CASE p = q
      BY <3>1, <3>3
    <3>4. CASE p > q
      BY <3>1, <3>4
    <3>5. p < q \/ p = q \/ p > q
      OBVIOUS
    <3> HIDE DEF Until
    <3> QED BY <3>2, <3>3, <3>4, <3>5
  <2>2. amount.rows = Until(q, n) /\ amount.isFull = TRUE
    BY <1>7
  <2> QED BY <2>1, <2>2
<1> QED BY <1>3, <1>4, <1>6, <1>7

Cutting(a, m, j, e, c, f) ==
  [a EXCEPT !.modules = m, !.json = j, !.errors = e, !.pendingChunks = c, !.flowing = f]

LEMMA FlushedIs ==
  ASSUME NEW a, IsRequest(a), NEW m, NEW j, NEW e, NEW c, NEW f
  PROVE  Cutting(a, m, j, e, c, f) =
           Made(f, a.scheduled, a.pinged, a.nextChunkId, c, a.segments, m, j, e,
                a.written, a.refs, a.thrown)
<1>1. a = Made(a.flowing, a.scheduled, a.pinged, a.nextChunkId, a.pendingChunks,
               a.segments, a.modules, a.json, a.errors, a.written, a.refs, a.thrown)
  BY RequestIs
<1>2. PICK a1 : a1 = [a EXCEPT !.modules = m]
  OBVIOUS
<1>3. a1 = Made(a.flowing, a.scheduled, a.pinged, a.nextChunkId, a.pendingChunks,
                a.segments, m, a.json, a.errors, a.written, a.refs, a.thrown)
  BY <1>1, <1>2, MadeExcept
<1>4. PICK a2 : a2 = [a1 EXCEPT !.json = j]
  OBVIOUS
<1>5. a2 = Made(a.flowing, a.scheduled, a.pinged, a.nextChunkId, a.pendingChunks,
                a.segments, m, j, a.errors, a.written, a.refs, a.thrown)
  BY <1>3, <1>4, MadeExcept
<1>6. PICK a3 : a3 = [a2 EXCEPT !.errors = e]
  OBVIOUS
<1>7. a3 = Made(a.flowing, a.scheduled, a.pinged, a.nextChunkId, a.pendingChunks,
                a.segments, m, j, e, a.written, a.refs, a.thrown)
  BY <1>5, <1>6, MadeExcept
<1>8. PICK a4 : a4 = [a3 EXCEPT !.pendingChunks = c]
  OBVIOUS
<1>9. a4 = Made(a.flowing, a.scheduled, a.pinged, a.nextChunkId, c,
                a.segments, m, j, e, a.written, a.refs, a.thrown)
  BY <1>7, <1>8, MadeExcept
<1>10. [a4 EXCEPT !.flowing = f] =
         Made(f, a.scheduled, a.pinged, a.nextChunkId, c,
              a.segments, m, j, e, a.written, a.refs, a.thrown)
  BY <1>9, MadeExcept
<1>11. Cutting(a, m, j, e, c, f) = [a4 EXCEPT !.flowing = f]
  BY <1>2, <1>4, <1>6, <1>8 DEF Cutting
<1> QED BY <1>10, <1>11

\* s was cut in two, A and R.
Cut(s, A, R) ==
  /\ RowIds(s) = RowIds(A) \cup RowIds(R) /\ RowRefs(s) = RowRefs(A) \cup RowRefs(R)
  /\ ProviderIds(s) = ProviderIds(A) \cup ProviderIds(R)
  /\ InOrder(s) => InOrder(A) /\ InOrder(R) /\ ProviderIds(R) \cap Mentions(A) = {}

LEMMA RowsCut ==
  ASSUME NEW S, NEW s \in Seq(S), NEW k \in 0..Len(s)
  PROVE  /\ SubSeq(s, 1, k) \in Seq(S) /\ Rest(s, k) \in Seq(S)
         /\ Len(Rest(s, k)) = Len(s) - k
         /\ Cut(s, SubSeq(s, 1, k), Rest(s, k))
<1>1. /\ SubSeq(s, 1, k) \in Seq(S) /\ Rest(s, k) \in Seq(S)
      /\ Len(Rest(s, k)) = Len(s) - k /\ SubSeq(s, 1, k) \o Rest(s, k) = s
  BY RowsSplit
<1>2. PICK A \in Seq(S), R \in Seq(S) : A = SubSeq(s, 1, k) /\ R = Rest(s, k)
  BY <1>1
<1>3. A \o R = s
  BY <1>1, <1>2
<1>4. Joins(s, A, R)
  <2>1. Joins(A \o R, A, R)
    BY ConcatJoins
  <2> QED BY <1>3, <2>1
<1>5. InOrder(A \o R) <=> InOrder(A) /\ InOrder(R) /\ ProviderIds(R) \cap Mentions(A) = {}
  BY JoinedOrder
<1>6. Cut(s, A, R)
  BY <1>3, <1>4, <1>5, JoinedRows DEF Cut
<1> QED BY <1>1, <1>2, <1>6

\* t is s followed by A, B and C.
Writes(t, s, A, B, C) == t = s \o A \o B \o C

LEMMA RowsWritten ==
  ASSUME NEW S, NEW s \in Seq(S), NEW A \in Seq(S), NEW B \in Seq(S), NEW C \in Seq(S),
         NEW t, Writes(t, s, A, B, C)
  PROVE  /\ t \in Seq(S)
         /\ RowIds(t) = RowIds(s) \cup RowIds(A) \cup RowIds(B) \cup RowIds(C)
         /\ RowRefs(t) = RowRefs(s) \cup RowRefs(A) \cup RowRefs(B) \cup RowRefs(C)
         /\ ProviderIds(t) = ProviderIds(s) \cup ProviderIds(A) \cup ProviderIds(B)
                               \cup ProviderIds(C)
<1>1. PICK u : u = s \o A
  OBVIOUS
<1>2. u \in Seq(S) /\ Joins(u, s, A)
  BY <1>1, ConcatJoins
<1>3. PICK v : v = u \o B
  OBVIOUS
<1>4. v \in Seq(S) /\ Joins(v, u, B)
  BY <1>2, <1>3, ConcatJoins
<1>5. t = v \o C
  BY <1>1, <1>3 DEF Writes
<1>6. t \in Seq(S) /\ Joins(t, v, C)
  BY <1>4, <1>5, ConcatJoins
<1>7. /\ RowIds(u) = RowIds(s) \cup RowIds(A) /\ RowRefs(u) = RowRefs(s) \cup RowRefs(A)
      /\ ProviderIds(u) = ProviderIds(s) \cup ProviderIds(A)
      /\ Mentions(u) = Mentions(s) \cup Mentions(A)
  BY <1>2, JoinedRows
<1>8. /\ RowIds(v) = RowIds(u) \cup RowIds(B) /\ RowRefs(v) = RowRefs(u) \cup RowRefs(B)
      /\ ProviderIds(v) = ProviderIds(u) \cup ProviderIds(B)
  BY <1>4, JoinedRows
<1>9. /\ RowIds(t) = RowIds(v) \cup RowIds(C) /\ RowRefs(t) = RowRefs(v) \cup RowRefs(C)
      /\ ProviderIds(t) = ProviderIds(v) \cup ProviderIds(C)
  BY <1>6, JoinedRows
<1> QED BY <1>6, <1>7, <1>8, <1>9

LEMMA OrderWritten ==
  ASSUME NEW S, NEW s \in Seq(S), NEW A \in Seq(S), NEW B \in Seq(S), NEW C \in Seq(S),
         NEW t, Writes(t, s, A, B, C), InOrder(s), InOrder(A), InOrder(B), InOrder(C),
         ProviderIds(A) = {}, ProviderIds(C) = {},
         ProviderIds(B) \cap (Mentions(s) \cup Mentions(A)) = {}
  PROVE  InOrder(t)
<1>1. PICK u : u = s \o A
  OBVIOUS
<1>2. u \in Seq(S) /\ Joins(u, s, A)
  BY <1>1, ConcatJoins
<1>3. PICK v : v = u \o B
  OBVIOUS
<1>4. v \in Seq(S)
  BY <1>2, <1>3, ConcatJoins
<1>5. t = v \o C
  BY <1>1, <1>3 DEF Writes
<1>6. Mentions(u) = Mentions(s) \cup Mentions(A)
  BY <1>2, JoinedRows
<1>7. InOrder(u)
  <2>1. InOrder(s \o A) <=> InOrder(s) /\ InOrder(A) /\ ProviderIds(A) \cap Mentions(s) = {}
    BY JoinedOrder
  <2> QED BY <1>1, <2>1
<1>8. InOrder(v)
  <2>1. InOrder(u \o B) <=> InOrder(u) /\ InOrder(B) /\ ProviderIds(B) \cap Mentions(u) = {}
    BY <1>2, JoinedOrder
  <2> QED BY <1>3, <1>6, <1>7, <2>1
<1>9. InOrder(v \o C) <=> InOrder(v) /\ InOrder(C) /\ ProviderIds(C) \cap Mentions(v) = {}
  BY <1>4, JoinedOrder
<1> QED BY <1>5, <1>8, <1>9

LEMMA FlushKeeps ==
  ASSUME IInv, FlushCompletedChunks(<<>>), retrying \in {<<>>, <<TheFlush>>}
  PROVE  IInv'
<1>0. PICK amount \in Amounts :
        /\ stream' = stream \o SubSeq(Queued[1], 1, amount.rows[1])
                       \o SubSeq(Queued[2], 1, amount.rows[2])
                       \o SubSeq(Queued[3], 1, amount.rows[3])
        /\ request' = [request EXCEPT
             !.modules = Rest(@, amount.rows[1]), !.json = Rest(@, amount.rows[2]),
             !.errors = Rest(@, amount.rows[3]),
             !.pendingChunks = request.pendingChunks - amount.rows[1] - amount.rows[2]
                                 - amount.rows[3],
             !.flowing = ~amount.isFull]
        /\ ended' = (ended \/ request.pendingChunks - amount.rows[1] - amount.rows[2]
                               - amount.rows[3] = 0)
        /\ retrying' = <<>>
        /\ UNCHANGED <<program, waiting, clientVars>>
  BY DEF FlushCompletedChunks
<1>1. PICK a, b, c :
        /\ a = amount.rows[1] /\ b = amount.rows[2] /\ c = amount.rows[3]
        /\ stream' = stream \o SubSeq(request.modules, 1, a) \o SubSeq(request.json, 1, b)
                       \o SubSeq(request.errors, 1, c)
        /\ request' = [request EXCEPT
             !.modules = Rest(@, a), !.json = Rest(@, b), !.errors = Rest(@, c),
             !.pendingChunks = request.pendingChunks - a - b - c,
             !.flowing = ~amount.isFull]
        /\ ended' = (ended \/ request.pendingChunks - a - b - c = 0)
        /\ retrying' = <<>>
        /\ UNCHANGED <<program, waiting, clientVars>>
  <2>1. Queued[1] = request.modules /\ Queued[2] = request.json
        /\ Queued[3] = request.errors
    BY DEF Queued
  <2>2. PICK a, b, c : a = amount.rows[1] /\ b = amount.rows[2] /\ c = amount.rows[3]
    OBVIOUS
  <2> QED BY <1>0, <2>1, <2>2
<1>2. PICK A, B, C, M, J, E, f, left, n :
        /\ A = SubSeq(request.modules, 1, a) /\ M = Rest(request.modules, a)
        /\ B = SubSeq(request.json, 1, b) /\ J = Rest(request.json, b)
        /\ C = SubSeq(request.errors, 1, c) /\ E = Rest(request.errors, c)
        /\ f = ~amount.isFull /\ left = request.pendingChunks - a - b - c
        /\ n = request.nextChunkId
  OBVIOUS
<1>3. /\ stream' = stream \o A \o B \o C
      /\ request' = [request EXCEPT !.modules = M, !.json = J, !.errors = E,
                                    !.pendingChunks = left, !.flowing = f]
      /\ ended' = (ended \/ left = 0) /\ retrying' = <<>>
      /\ UNCHANGED <<program, waiting, clientVars>>
  BY <1>1, <1>2
<1>4. IsRequest(request) /\ request.pinged \in Seq(DOMAIN request.segments)
      /\ waiting \subseteq DOMAIN request.segments
  BY RequestOk DEF IInv, OrderInv, TypeInv
<1>5. /\ n \in Nat /\ RequestInOrder(request)
      /\ request.modules \in Seq(ModuleRows(n)) /\ request.json \in Seq(JsonRows(n))
      /\ request.errors \in Seq(ErrorRows(n)) /\ request.pendingChunks \in Int
      /\ request.scheduled \in BOOLEAN /\ request.pinged \in Seq(Known(n))
  BY <1>2, <1>4, RequestFacts
<1>6. a \in 0..Len(request.modules) /\ b \in 0..Len(request.json)
      /\ c \in 0..Len(request.errors) /\ amount.isFull \in BOOLEAN
  BY <1>1, AmountsAre
<1>7. /\ A \in Seq(ModuleRows(n)) /\ M \in Seq(ModuleRows(n))
      /\ Len(M) = Len(request.modules) - a /\ Cut(request.modules, A, M)
  <2>1. PICK old, k : old = request.modules /\ k = a
    OBVIOUS
  <2>2. old \in Seq(ModuleRows(n)) /\ k \in 0..Len(old)
    BY <1>5, <1>6, <2>1
  <2>3. /\ SubSeq(old, 1, k) \in Seq(ModuleRows(n)) /\ Rest(old, k) \in Seq(ModuleRows(n))
        /\ Len(Rest(old, k)) = Len(old) - k
        /\ Cut(old, SubSeq(old, 1, k), Rest(old, k))
    BY <2>2, RowsCut
  <2> QED BY <1>2, <2>1, <2>3
<1>8. /\ B \in Seq(JsonRows(n)) /\ J \in Seq(JsonRows(n))
      /\ Len(J) = Len(request.json) - b /\ Cut(request.json, B, J)
  <2>1. PICK old, k : old = request.json /\ k = b
    OBVIOUS
  <2>2. old \in Seq(JsonRows(n)) /\ k \in 0..Len(old)
    BY <1>5, <1>6, <2>1
  <2>3. /\ SubSeq(old, 1, k) \in Seq(JsonRows(n)) /\ Rest(old, k) \in Seq(JsonRows(n))
        /\ Len(Rest(old, k)) = Len(old) - k
        /\ Cut(old, SubSeq(old, 1, k), Rest(old, k))
    BY <2>2, RowsCut
  <2> QED BY <1>2, <2>1, <2>3
<1>9. /\ C \in Seq(ErrorRows(n)) /\ E \in Seq(ErrorRows(n))
      /\ Len(E) = Len(request.errors) - c /\ Cut(request.errors, C, E)
  <2>1. PICK old, k : old = request.errors /\ k = c
    OBVIOUS
  <2>2. old \in Seq(ErrorRows(n)) /\ k \in 0..Len(old)
    BY <1>5, <1>6, <2>1
  <2>3. /\ SubSeq(old, 1, k) \in Seq(ErrorRows(n)) /\ Rest(old, k) \in Seq(ErrorRows(n))
        /\ Len(Rest(old, k)) = Len(old) - k
        /\ Cut(old, SubSeq(old, 1, k), Rest(old, k))
    BY <2>2, RowsCut
  <2> QED BY <1>2, <2>1, <2>3
<1>10. InOrder(B) /\ InOrder(J) /\ ProviderIds(J) \cap Mentions(B) = {}
  BY <1>5, <1>8 DEF RequestInOrder, Cut
<1>11. request' = Made(f, request.scheduled, request.pinged, n, left, request.segments,
                       M, J, E, request.written, request.refs, request.thrown)
  <2>1. request' = Cutting(request, M, J, E, left, f)
    BY <1>3 DEF Cutting
  <2>2. Cutting(request, M, J, E, left, f) =
          Made(f, request.scheduled, request.pinged, request.nextChunkId, left,
               request.segments, M, J, E, request.written, request.refs, request.thrown)
    BY <1>4, FlushedIs
  <2> QED BY <1>2, <2>1, <2>2
<1>12. /\ request'.pinged = request.pinged /\ request'.nextChunkId = n
       /\ request'.pendingChunks = left /\ request'.segments = request.segments
       /\ request'.modules = M /\ request'.json = J /\ request'.errors = E
       /\ request'.written = request.written
  BY <1>11, MadeFields
<1>13. f \in BOOLEAN /\ left \in Int
  <2>1. f \in BOOLEAN
    BY <1>2
  <2>2. a \in Int /\ b \in Int /\ c \in Int
    BY <1>6
  <2> QED BY <1>2, <1>5, <2>1, <2>2
<1>14. IsRequest(request')
  <2>1. RowIds(M) \subseteq RowIds(request.modules)
        /\ RowIds(E) \subseteq RowIds(request.errors)
        /\ ProviderIds(J) \subseteq ProviderIds(request.json)
    BY <1>7, <1>8, <1>9 DEF Cut
  <2>2. PICK r : r = request'
    OBVIOUS
  <2>3. r = Made(f, request.scheduled, request.pinged, request.nextChunkId, left,
                 request.segments, M, J, E, request.written, request.refs, request.thrown)
    BY <1>2, <1>11, <2>2
  <2>4. /\ request.pinged \in Seq(Known(request.nextChunkId))
        /\ M \in Seq(ModuleRows(request.nextChunkId))
        /\ J \in Seq(JsonRows(request.nextChunkId))
        /\ E \in Seq(ErrorRows(request.nextChunkId))
    BY <1>2, <1>5, <1>7, <1>8, <1>9
  <2>5. IsRequest(r)
    BY <1>4, <1>5, <1>10, <1>13, <2>1, <2>3, <2>4, RequestFrom
  <2> QED BY <2>2, <2>5
<1>15. /\ A \in Seq(Rows(n)) /\ B \in Seq(Rows(n)) /\ C \in Seq(Rows(n))
       /\ RowRefs(A) = {} /\ ProviderIds(A) = {} /\ InOrder(A) /\ Mentions(A) = RowIds(A)
       /\ RowRefs(C) = {} /\ ProviderIds(C) = {} /\ InOrder(C) /\ Mentions(C) = RowIds(C)
  BY <1>5, <1>7, <1>8, <1>9, PlainRows, JsonRowsAre
<1>16. /\ stream \in Seq(Rows(n)) /\ InOrder(stream)
       /\ ProviderIds(request.json) \cap Mentions(stream) = {}
  BY <1>2 DEF IInv, TypeInv, N, OrderInv
<1>17. ProviderIds(request.json) \cap (RowIds(request.modules) \cup RowIds(request.errors)) = {}
  BY <1>5 DEF RequestInOrder
<1>18. ProviderIds(B) \cap (Mentions(stream) \cup Mentions(A)) = {}
  BY <1>7, <1>8, <1>15, <1>16, <1>17 DEF Cut
<1>19. PICK s : s = stream'
  OBVIOUS
<1>20. /\ s \in Seq(Rows(n))
       /\ RowIds(s) = RowIds(stream) \cup RowIds(A) \cup RowIds(B) \cup RowIds(C)
       /\ RowRefs(s) = RowRefs(stream) \cup RowRefs(A) \cup RowRefs(B) \cup RowRefs(C)
       /\ ProviderIds(s) = ProviderIds(stream) \cup ProviderIds(A) \cup ProviderIds(B)
                             \cup ProviderIds(C)
       /\ InOrder(s)
  <2>0. stream \in Seq(Rows(n)) /\ A \in Seq(Rows(n)) /\ B \in Seq(Rows(n))
        /\ C \in Seq(Rows(n))
    BY <1>15, <1>16
  <2>1. Writes(s, stream, A, B, C)
    BY <1>3, <1>19 DEF Writes
  <2>2. /\ s \in Seq(Rows(n))
        /\ RowIds(s) = RowIds(stream) \cup RowIds(A) \cup RowIds(B) \cup RowIds(C)
        /\ RowRefs(s) = RowRefs(stream) \cup RowRefs(A) \cup RowRefs(B) \cup RowRefs(C)
        /\ ProviderIds(s) = ProviderIds(stream) \cup ProviderIds(A) \cup ProviderIds(B)
                              \cup ProviderIds(C)
    BY <2>0, <2>1, RowsWritten
  <2>3. InOrder(s)
    <3>1. InOrder(stream) /\ InOrder(A) /\ InOrder(B) /\ InOrder(C)
          /\ ProviderIds(A) = {} /\ ProviderIds(C) = {}
          /\ ProviderIds(B) \cap (Mentions(stream) \cup Mentions(A)) = {}
      BY <1>10, <1>15, <1>16, <1>18
    <3> QED BY <2>0, <2>1, <3>1, OrderWritten
  <2> QED BY <2>2, <2>3
<1>21. Coming' = Coming
  <2>1. Unsent = waiting \cup ToSet(request.pinged) \cup (ToSet(retrying) \ {TheFlush})
                   \cup QueueIds(request)
    BY <1>4, UnsentIs
  <2>2. Unsent' = waiting' \cup ToSet(request'.pinged) \cup (ToSet(retrying') \ {TheFlush})
                    \cup QueueIds(request')
    BY <1>14, UnsentNext
  <2>3. ToSet(retrying) \ {TheFlush} = {} /\ ToSet(retrying') \ {TheFlush} = {}
    <3>1. ToSet(<<>>) = {}
      BY NoneMapped DEF ToSet
    <3>2. ToSet(<<TheFlush>>) = {TheFlush}
      BY DEF ToSet
    <3> QED BY <1>3, <3>1, <3>2
  <2>4. QueueIds(request) = QueueIds(request') \cup RowIds(A) \cup RowIds(B) \cup RowIds(C)
    BY <1>7, <1>8, <1>9, <1>12 DEF QueueIds, Cut
  <2>5. RowIds(stream') = RowIds(stream) \cup RowIds(A) \cup RowIds(B) \cup RowIds(C)
    BY <1>19, <1>20
  <2> QED BY <1>3, <1>12, <2>1, <2>2, <2>3, <2>4, <2>5 DEF Coming
<1>22. TypeInv' /\ OrderInv' /\ ServedInv'
  <2>1. WrittenIds(request') = WrittenIds(request)
    BY <1>12 DEF WrittenIds
  <2>2. RowRefs(J) \cup RowRefs(s) = RowRefs(request.json) \cup RowRefs(stream)
        /\ ProviderIds(J) \cup ProviderIds(s)
             = ProviderIds(request.json) \cup ProviderIds(stream)
    BY <1>8, <1>15, <1>20 DEF Cut
  <2>3. ProviderIds(J) \cap Mentions(s) = {}
    <3>1. Mentions(s) = Mentions(stream) \cup Mentions(A) \cup Mentions(B) \cup Mentions(C)
      BY <1>20 DEF Mentions
    <3>2. ProviderIds(J) \cap (RowIds(A) \cup RowIds(C)) = {}
      BY <1>7, <1>8, <1>9, <1>17 DEF Cut
    <3>3. ProviderIds(J) \cap Mentions(stream) = {}
      BY <1>8, <1>16 DEF Cut
    <3> QED BY <1>10, <1>15, <3>1, <3>2, <3>3
  <2>4. ended' \in BOOLEAN /\ request.nextChunkId <= request'.nextChunkId
    BY <1>2, <1>3, <1>5, <1>12 DEF IInv, TypeInv
  <2>5. retrying' \in Seq(DOMAIN request'.segments \cup {TheFlush})
    <3>1. <<>> \in Seq(DOMAIN request'.segments \cup {TheFlush})
      OBVIOUS
    <3> QED BY <1>3, <3>1
  <2>6. /\ waiting' \subseteq DOMAIN request'.segments
        /\ request'.pinged \in Seq(DOMAIN request'.segments)
        /\ stream' \in Seq(Rows(request'.nextChunkId)) /\ InOrder(stream')
        /\ ProviderIds(request'.json) \cap Mentions(stream') = {}
    BY <1>3, <1>4, <1>12, <1>19, <1>20, <2>3
  <2>7. Coming \subseteq Coming'
    BY <1>21
  <2>8. WrittenIds(request') \cup RowRefs(request'.json) \cup RowRefs(stream')
          \subseteq Coming' \cup WrittenIds(request) \cup RowRefs(request.json)
                      \cup RowRefs(stream)
    BY <1>12, <1>19, <2>1, <2>2
  <2>9. (ProviderIds(request'.json) \cup ProviderIds(stream')) \cap Known(request.nextChunkId)
          \subseteq ProviderIds(request.json) \cup ProviderIds(stream)
    BY <1>12, <1>19, <2>2
  <2> HIDE DEF IInv
  <2> QED BY <1>3, <1>14, <2>4, <2>5, <2>6, <2>7, <2>8, <2>9, ServerStep
<1>23. WorkInv'
  <2>1. DOMAIN retrying' = {}
    BY <1>3, NoneMapped
  <2>2. Injective(retrying')
    BY <2>1 DEF Injective
  <2>3. Injective(request.pinged)
        /\ \A i \in DOMAIN request.pinged : request.pinged[i] \notin waiting
    BY DEF IInv, WorkInv
  <2>4. Injective(request'.pinged)
        /\ \A i \in DOMAIN request'.pinged : request'.pinged[i] \notin waiting'
    BY <1>3, <1>12, <2>3
  <2> QED BY <1>3, <2>1, <2>2, <2>4 DEF WorkInv
<1>24. CountInv'
  <2>1. PICK w, l, k, x, y, z : /\ w = Cardinality(waiting) /\ l = Len(request.pinged)
                                /\ k = request.pendingChunks /\ x = Len(request.modules)
                                /\ y = Len(request.json) /\ z = Len(request.errors)
    OBVIOUS
  <2>2. w \in Nat /\ l \in Nat /\ k \in Int /\ x \in Nat /\ y \in Nat /\ z \in Nat
    BY <1>5, <2>1, Counted, LengthNat
  <2>3. a \in 0..x /\ b \in 0..y /\ c \in 0..z
    BY <1>6, <2>1
  <2>4. ToRetry = 0
    <3>1. Len(<<TheFlush>>) - 1 = 0
      OBVIOUS
    <3> QED BY <3>1 DEF ToRetry
  <2>5. k = w + l + 0 + (x + y + z) /\ (ended <=> k = 0)
    BY <2>1, <2>4 DEF IInv, CountInv, QueueLength
  <2>6. left = k - a - b - c
    BY <1>2, <2>1
  <2>7. left = w + l + 0 + ((x - a) + (y - b) + (z - c)) /\ (k = 0 => left = 0)
    BY <2>2, <2>3, <2>5, <2>6
  <2>8. QueueLength(request') = (x - a) + (y - b) + (z - c)
    BY <1>7, <1>8, <1>9, <1>12, <2>1 DEF QueueLength
  <2>9. ToRetry' = 0 /\ Cardinality(waiting') = w /\ Len(request'.pinged) = l
        /\ request'.pendingChunks = left
    BY <1>3, <1>12, <2>1 DEF ToRetry
  <2>10. ended' <=> left = 0
    BY <1>3, <2>5, <2>7
  <2> QED BY <2>7, <2>8, <2>9, <2>10 DEF CountInv
<1> QED BY <1>22, <1>23, <1>24 DEF IInv

LEMMA StartFlowingKeeps ==
  ASSUME IInv, StartFlowing
  PROVE  IInv'
BY FlushKeeps DEF StartFlowing, ServerIdle

LEMMA EndPerformWorkKeeps ==
  ASSUME IInv, EndPerformWork
  PROVE  IInv'
<1>1. retrying # <<>> /\ Head(retrying) = TheFlush
  BY DEF EndPerformWork, ServerIdle
<1>2. /\ retrying \in Seq(DOMAIN request.segments \cup {TheFlush})
      /\ \A i \in DOMAIN retrying : retrying[i] = TheFlush <=> i = Len(retrying)
      /\ IsRequest(request) /\ request.pinged \in Seq(DOMAIN request.segments)
      /\ waiting \subseteq DOMAIN request.segments
  BY <1>1, RequestOk DEF IInv, OrderInv, TypeInv, WorkInv
<1>3. Len(retrying) \in Nat /\ DOMAIN retrying = 1..Len(retrying) /\ retrying[1] = TheFlush
      /\ Len(retrying) # 0
  BY <1>1, <1>2, LenProperties, HeadTailProperties, EmptySeq
<1>4. Len(retrying) = 1
  <2>1. 1 \in DOMAIN retrying
    BY <1>3
  <2> QED BY <1>2, <1>3, <2>1
<1>5. retrying = <<TheFlush>>
  BY <1>2, <1>3, <1>4
<1>6. CASE request.flowing
  <2>1. FlushCompletedChunks(<<>>)
    BY <1>6 DEF EndPerformWork
  <2> QED BY <1>5, <2>1, FlushKeeps
<1>7. CASE ~request.flowing
  <2>1. retrying' = <<>> /\ UNCHANGED <<program, request, waiting, ended, stream, clientVars>>
    BY <1>7 DEF EndPerformWork
  <2>2. TypeInv' /\ OrderInv' /\ ServedInv'
    <3>1. <<>> \in Seq(DOMAIN request.segments \cup {TheFlush})
      OBVIOUS
    <3>2. ToSet(<<>>) = {} /\ ToSet(<<TheFlush>>) = {TheFlush}
      BY NoneMapped DEF ToSet
    <3>3. waiting' \cup ToSet(request'.pinged) \cup (ToSet(retrying') \ {TheFlush})
            = waiting \cup ToSet(request.pinged) \cup (ToSet(retrying) \ {TheFlush})
      BY <1>5, <2>1, <3>2
    <3> QED BY <1>2, <2>1, <3>1, <3>3, JobStep
  <2>3. WorkInv'
    <3>1. DOMAIN retrying' = {}
      BY <2>1, NoneMapped
    <3>2. Injective(retrying')
      BY <3>1 DEF Injective
    <3>3. Injective(request.pinged)
          /\ \A i \in DOMAIN request.pinged : request.pinged[i] \notin waiting
      BY DEF IInv, WorkInv
    <3>4. Injective(request'.pinged)
          /\ \A i \in DOMAIN request'.pinged : request'.pinged[i] \notin waiting'
      BY <2>1, <3>3
    <3> QED BY <2>1, <3>1, <3>2, <3>4 DEF WorkInv
  <2>4. CountInv'
    <3>1. Len(<<TheFlush>>) - 1 = 0
      OBVIOUS
    <3>2. ToRetry = 0 /\ ToRetry' = 0
      BY <1>5, <2>1, <3>1 DEF ToRetry
    <3>3. CountInv
      BY DEF IInv
    <3> QED BY <2>1, <3>2, <3>3 DEF CountInv
  <2> QED BY <2>2, <2>3, <2>4 DEF IInv
<1> QED BY <1>6, <1>7

-----------------------------------------------------------------------------
(* Steps of the client                                                       *)

LEMMA ClientStep ==
  ASSUME IInv, UNCHANGED serverVars, ClientInv(request.nextChunkId)',
         stream' \in Seq(Rows(request.nextChunkId)), InOrder(stream'),
         Mentions(stream') \subseteq Mentions(stream),
         RowRefs(stream') \subseteq RowRefs(stream),
         ProviderIds(stream') \cap Met' = {},
         Met' \subseteq Met \cup Mentions(stream),
         RowIds(stream) \subseteq RowIds(stream') \cup Settled',
         Settled \subseteq Settled',
         Met' \subseteq Met \cup RowRefs(stream) \cup Settled'
  PROVE  IInv'
<1>1. UNCHANGED <<program, request, retrying, waiting, ended>>
  BY DEF serverVars
<1>2. TypeInv'
  <2>1. (request \in Requests(N))'
    BY <1>1 DEF IInv, TypeInv, N, Requests, Names
  <2>2. ClientInv(N)' /\ (stream \in Seq(Rows(N)))'
    BY <1>1 DEF N, ClientInv
  <2>3. /\ program \in Programs /\ N \in Nat /\ waiting \subseteq DOMAIN request.segments
        /\ request.pinged \in Seq(DOMAIN request.segments)
        /\ retrying \in Seq(DOMAIN request.segments \cup {TheFlush}) /\ ended \in BOOLEAN
    BY DEF IInv, TypeInv
  <2>4. N' = N
    BY <1>1 DEF N
  <2> QED BY <1>1, <2>1, <2>2, <2>3, <2>4 DEF TypeInv
<1>3. WorkInv'
  <2>1. WorkInv
    BY DEF IInv
  <2> QED BY <1>1, <2>1 DEF WorkInv
<1>4. CountInv'
  <2>1. CountInv
    BY DEF IInv
  <2>2. ToRetry' = ToRetry
    BY <1>1 DEF ToRetry
  <2> QED BY <1>1, <2>1, <2>2 DEF CountInv
<1>5. OrderInv'
  <2>1. RequestInOrder(request)
        /\ ProviderIds(request.json) \cap (Mentions(stream) \cup Met) = {}
    BY DEF IInv, OrderInv
  <2>2. RequestInOrder(request')
    BY <1>1, <2>1
  <2>3. ProviderIds(request'.json) \cap (Mentions(stream') \cup Met') = {}
    BY <1>1, <2>1
  <2> QED BY <2>2, <2>3 DEF OrderInv
<1>6. ServedInv'
  <2>1. Met \cup WrittenIds(request) \cup RowRefs(request.json) \cup RowRefs(stream)
          \subseteq Coming \cup Settled
    BY DEF IInv, ServedInv
  <2>2. Unsent' = Unsent
    BY <1>1 DEF Unsent
  <2>3. Coming \subseteq Coming' \cup Settled'
    BY <2>2 DEF Coming
  <2>4. WrittenIds(request') = WrittenIds(request)
        /\ RowRefs(request'.json) = RowRefs(request.json)
    BY <1>1
  <2> QED BY <2>1, <2>3, <2>4 DEF ServedInv
<1> QED BY <1>2, <1>3, <1>4, <1>5, <1>6 DEF IInv

\* A row of the stream makes a chunk.
LEMMA ChunkMade ==
  ASSUME NEW n \in Nat, ClientInv(n), NEW id \in Known(n), NEW refs \in Seq(Refs(n)),
         NEW status \in {"model", "module", "errored", "initialized"},
         chunks' = Extended(chunks, id, NewChunkOf(status, refs)),
         DOMAIN readers' = DOMAIN readers
  PROVE  /\ chunks' \in Partial(Known(n), ChunksOf(n))
         /\ Settled' = Settled \cup {id}
         /\ Met' \subseteq Met \cup {id} \cup RefsIn(refs)
<1>1. PICK new : new = NewChunkOf(status, refs)
  OBVIOUS
<1>2. new \in ChunksOf(n) /\ new.status # "pending" /\ new.refs = refs
  BY <1>1 DEF NewChunkOf, ChunksOf, Statuses
<1>3. chunks \in Partial(Known(n), ChunksOf(n))
  BY DEF ClientInv
<1>4. /\ DOMAIN chunks' = DOMAIN chunks \cup {id}
      /\ \A x \in DOMAIN chunks \cup {id} : chunks'[x] = IF x = id THEN new ELSE chunks[x]
  <2>1. chunks' = Extended(chunks, id, new)
    BY <1>1
  <2> QED BY <2>1 DEF Extended
<1>5. chunks' \in Partial(Known(n), ChunksOf(n))
  BY <1>1, <1>2, <1>3, ExtendedType
<1>6. Settled' \subseteq Settled \cup {id}
  BY <1>4 DEF Settled
<1>7. Settled \cup {id} \subseteq Settled'
  BY <1>2, <1>4 DEF Settled
<1>8. Met' \subseteq Met \cup {id} \cup RefsIn(refs)
  <2>1. \A x \in DOMAIN chunks' : RefsIn(chunks'[x].refs) \subseteq Met \cup RefsIn(refs)
    BY <1>2, <1>4 DEF Met
  <2>2. DOMAIN chunks' \cup DOMAIN readers' \subseteq Met \cup {id}
    BY <1>4 DEF Met
  <2> QED BY <2>1, <2>2 DEF Met
<1> QED BY <1>5, <1>6, <1>7, <1>8

LEMMA Woken ==
  ASSUME NEW n, readers \in Partial(Known(n), {"ready", "waiting", "failed", "done"}),
         NEW ids, Wake(ids)
  PROVE  /\ readers' \in Partial(Known(n), {"ready", "waiting", "failed", "done"})
         /\ DOMAIN readers' = DOMAIN readers
         /\ \A r \in DOMAIN readers : readers'[r] = "waiting" =>
              /\ readers[r] = "waiting"
              /\ \A id \in ids \cap DOMAIN chunks : r \notin chunks[id].listeners
<1>1. DOMAIN readers' = DOMAIN readers
  BY DEF Wake
<1>2. \A r \in DOMAIN readers : readers'[r] =
        IF \E id \in ids \cap DOMAIN chunks : r \in chunks[id].listeners THEN "ready"
        ELSE readers[r]
  BY DEF Wake
<1>3. DOMAIN readers \subseteq Known(n)
      /\ \A r \in DOMAIN readers : readers[r] \in {"ready", "waiting", "failed", "done"}
  BY PartialIs
<1>4. \A r \in DOMAIN readers : readers'[r] \in {"ready", "waiting", "failed", "done"}
  BY <1>2, <1>3
<1>5. readers' = [r \in DOMAIN readers' |-> readers'[r]]
  BY DEF Wake
<1>6. readers' \in Partial(Known(n), {"ready", "waiting", "failed", "done"})
  BY <1>1, <1>3, <1>4, <1>5, PartialIs
<1>7. \A r \in DOMAIN readers : readers'[r] = "waiting" =>
        /\ readers[r] = "waiting"
        /\ \A id \in ids \cap DOMAIN chunks : r \notin chunks[id].listeners
  BY <1>2
<1> QED BY <1>1, <1>6, <1>7

\* What processing the first row does, whichever it is
RowTaken(id, refs, status) ==
  /\ status \in {"model", "module", "errored", "initialized"}
  /\ \/ UNCHANGED <<chunks, readers>> /\ id \in Settled
     \/ /\ chunks' = Extended(chunks, id, NewChunkOf(status, refs))
        /\ \/ Wake({id})
           \/ UNCHANGED readers /\ (id \in DOMAIN chunks => ~NoSymbols)

LEMMA RowProcessed ==
  ASSUME IInv, ProcessFullRow
  PROVE  \E refs \in {<<>>, Head(stream).refs} :
           \E status : RowTaken(Head(stream).id, refs, status)
<1>1. stream # <<>> /\ stream \in Seq(Rows(request.nextChunkId))
  BY DEF ProcessFullRow, IInv, TypeInv, N
<1>2. Head(stream) \in Rows(request.nextChunkId)
  BY <1>1, RowsTaken
<1>3. PICK row \in Rows(request.nextChunkId) : row = Head(stream)
  BY <1>2
<1>4. \A id : \A status : \A refs :
        Resolve(id, status, refs) /\ status \in {"model", "module", "errored"}
          => RowTaken(id, refs, status)
  <2> TAKE id, status, refs
  <2> HAVE Resolve(id, status, refs) /\ status \in {"model", "module", "errored"}
  <2>1. CASE id \in DOMAIN chunks /\ ~IsPending(id)
    <3>1. id \in Settled
      BY <2>1 DEF IsPending, Settled
    <3>2. UNCHANGED <<chunks, readers>>
      BY <2>1 DEF Resolve
    <3> QED BY <3>1, <3>2 DEF RowTaken
  <2>2. CASE ~(id \in DOMAIN chunks /\ ~IsPending(id))
    <3>1. chunks' = Extended(chunks, id, NewChunkOf(status, refs)) /\ Wake({id})
      BY <2>2 DEF Resolve
    <3> QED BY <3>1 DEF RowTaken
  <2> QED BY <2>1, <2>2
<1>5. row.tag \in {"J", "M", "E", "P", "S"} /\ (row.tag = "S" => ~NoSymbols)
  BY DEF Rows, ModuleRows, ModuleTags, JsonRows, ModelRows, ProviderRows, ErrorRows
<1>6. CASE row.tag = "J"
  <2>1. Resolve(row.id, "model", row.refs)
    BY <1>3, <1>6 DEF ProcessFullRow
  <2>2. RowTaken(row.id, row.refs, "model")
    BY <1>4, <2>1
  <2> QED BY <1>3, <2>2
<1>7. CASE row.tag = "M"
  <2>1. Resolve(row.id, "module", <<>>)
    BY <1>3, <1>7 DEF ProcessFullRow
  <2>2. RowTaken(row.id, <<>>, "module")
    BY <1>4, <2>1
  <2> QED BY <1>3, <2>2
<1>8. CASE row.tag = "E"
  <2>1. Resolve(row.id, "errored", <<>>)
    BY <1>3, <1>8 DEF ProcessFullRow
  <2>2. RowTaken(row.id, <<>>, "errored")
    BY <1>4, <2>1
  <2> QED BY <1>3, <2>2
<1>9. CASE row.tag \in {"P", "S"}
  <2>1. Initialize(row.id)
    BY <1>3, <1>9 DEF ProcessFullRow
  <2>2. chunks' = Extended(chunks, row.id, NewChunkOf("initialized", <<>>))
        /\ UNCHANGED readers
    BY <2>1 DEF Initialize
  <2>3. row.tag = "P" => row.id \notin DOMAIN chunks
    <3>1. ASSUME row.tag = "P"
          PROVE  row.id \in ProviderIds(stream)
      <4>1. 1 \in DOMAIN stream /\ stream[1] = row
        BY <1>1, <1>3, HeadTailProperties, LenProperties, EmptySeq
      <4> QED BY <3>1, <4>1 DEF ProviderIds
    <3>2. ProviderIds(stream) \cap Met = {}
      BY DEF IInv, OrderInv
    <3> QED BY <3>1, <3>2 DEF Met
  <2>4. RowTaken(row.id, <<>>, "initialized")
    BY <1>5, <1>9, <2>2, <2>3 DEF RowTaken
  <2> QED BY <1>3, <2>4
<1> QED BY <1>5, <1>6, <1>7, <1>8, <1>9

LEMMA ProcessFullRowKeeps ==
  ASSUME IInv, ProcessFullRow
  PROVE  IInv'
<1>1. /\ stream # <<>> /\ stream' = Tail(stream)
      /\ UNCHANGED <<serverVars, response, hitches>>
  BY DEF ProcessFullRow
<1>2. PICK n : n = request.nextChunkId
  OBVIOUS
<1>3. /\ n \in Nat /\ stream \in Seq(Rows(n)) /\ InOrder(stream)
      /\ ProviderIds(stream) \cap Met = {} /\ ClientInv(n)
  BY <1>2 DEF IInv, TypeInv, N, OrderInv
<1>4. PICK row \in Rows(n), T \in Seq(Rows(n)) :
        row = Head(stream) /\ T = Tail(stream) /\ <<row>> \in Seq(Rows(n))
          /\ stream = <<row>> \o T
  <2>1. /\ Head(stream) \in Rows(n) /\ Tail(stream) \in Seq(Rows(n))
        /\ <<Head(stream)>> \in Seq(Rows(n)) /\ stream = <<Head(stream)>> \o Tail(stream)
    BY <1>1, <1>3, RowsTaken
  <2> QED BY <2>1
<1>5. Joins(stream, <<row>>, T)
  <2>1. Joins(<<row>> \o T, <<row>>, T)
    BY <1>4, ConcatJoins
  <2> QED BY <1>4, <2>1
<1>6. InOrder(T) /\ ProviderIds(T) \cap Mentions(<<row>>) = {}
  <2>1. InOrder(<<row>> \o T) <=>
          InOrder(<<row>>) /\ InOrder(T) /\ ProviderIds(T) \cap Mentions(<<row>>) = {}
    BY <1>4, JoinedOrder
  <2> QED BY <1>3, <1>4, <2>1
<1>7. /\ RowIds(stream) = {row.id} \cup RowIds(T)
      /\ RowRefs(stream) = RefsIn(row.refs) \cup RowRefs(T)
      /\ ProviderIds(T) \subseteq ProviderIds(stream)
      /\ Mentions(stream) = {row.id} \cup RefsIn(row.refs) \cup Mentions(T)
      /\ Mentions(<<row>>) = {row.id} \cup RefsIn(row.refs)
  <2>1. PICK one : one = <<row>>
    OBVIOUS
  <2>2. /\ RowIds(stream) = RowIds(one) \cup RowIds(T)
        /\ RowRefs(stream) = RowRefs(one) \cup RowRefs(T)
        /\ ProviderIds(stream) = ProviderIds(one) \cup ProviderIds(T)
        /\ Mentions(stream) = Mentions(one) \cup Mentions(T)
    BY <1>5, <2>1, JoinedRows
  <2>3. /\ RowIds(<<row>>) = {row.id} /\ RowRefs(<<row>>) = RefsIn(row.refs)
        /\ Mentions(<<row>>) = {row.id} \cup RefsIn(row.refs)
    BY OneRow
  <2> QED BY <2>1, <2>2, <2>3
<1>7a. \E refs \in {<<>>, row.refs} : \E status : RowTaken(row.id, refs, status)
  BY <1>4, RowProcessed
<1>7b. PICK refs \in {<<>>, row.refs} : \E status : RowTaken(row.id, refs, status)
  BY <1>7a
<1>8. PICK status : RowTaken(row.id, refs, status)
  BY <1>7b
<1>9. RefsIn(refs) \subseteq RefsIn(row.refs)
  BY NoRefs
<1>10. row.id \in Known(n) /\ refs \in Seq(Refs(n))
  <2>1. <<>> \in Seq(Refs(n))
    OBVIOUS
  <2>2. row.id \in Known(n) /\ (row.refs = <<>> \/ row.refs \in Seq(Refs(n)))
    BY DEF Rows, ModuleRows, JsonRows, ModelRows, ProviderRows, ErrorRows
  <2> QED BY <2>1, <2>2
<1>11. /\ ClientInv(n)' /\ Settled' = Settled \cup {row.id}
       /\ Met' \subseteq Met \cup {row.id} \cup RefsIn(refs)
  <2>1. CASE UNCHANGED <<chunks, readers>> /\ row.id \in Settled
    <3>1. Met' = Met /\ Settled' = Settled
      BY <2>1 DEF Met, Settled
    <3>2. ClientInv(n)'
      BY <1>1, <1>3, <2>1 DEF ClientInv
    <3> QED BY <2>1, <3>1, <3>2
  <2>2. CASE chunks' = Extended(chunks, row.id, NewChunkOf(status, refs))
             /\ (Wake({row.id}) \/ UNCHANGED readers)
    <3>1. readers \in Partial(Known(n), {"ready", "waiting", "failed", "done"})
      BY <1>3 DEF ClientInv
    <3>2. readers' \in Partial(Known(n), {"ready", "waiting", "failed", "done"})
          /\ DOMAIN readers' = DOMAIN readers
      BY <2>2, <3>1, Woken
    <3>3. status \in {"model", "module", "errored", "initialized"}
      BY <1>8 DEF RowTaken
    <3>4. /\ chunks' \in Partial(Known(n), ChunksOf(n))
          /\ Settled' = Settled \cup {row.id}
          /\ Met' \subseteq Met \cup {row.id} \cup RefsIn(refs)
      BY <1>3, <1>10, <2>2, <3>2, <3>3, ChunkMade
    <3>5. ClientInv(n)'
      BY <1>1, <1>3, <3>2, <3>4 DEF ClientInv
    <3> QED BY <3>4, <3>5
  <2> QED BY <1>8, <2>1, <2>2 DEF RowTaken
<1>12. stream' = T
  BY <1>1, <1>4
<1>13. ProviderIds(stream') \cap Met' = {}
  BY <1>3, <1>6, <1>7, <1>9, <1>11, <1>12
<1>14. /\ stream' \in Seq(Rows(request.nextChunkId)) /\ InOrder(stream')
       /\ ClientInv(request.nextChunkId)'
  <2>1. UNCHANGED request
    BY <1>1 DEF serverVars
  <2> QED BY <1>2, <1>6, <1>11, <1>12, <2>1
<1>15. /\ Mentions(stream') \subseteq Mentions(stream)
       /\ RowRefs(stream') \subseteq RowRefs(stream)
       /\ Met' \subseteq Met \cup Mentions(stream)
       /\ RowIds(stream) \subseteq RowIds(stream') \cup Settled' /\ Settled \subseteq Settled'
       /\ Met' \subseteq Met \cup RowRefs(stream) \cup Settled'
  BY <1>7, <1>9, <1>11, <1>12
<1> HIDE DEF IInv
<1> QED BY <1>1, <1>13, <1>14, <1>15, ClientStep

LEMMA ProcessFullRowListens ==
  ASSUME IInv, NoSymbols, ListenInv, ProcessFullRow
  PROVE  ListenInv'
<1>1. PICK id, refs, status : RowTaken(id, refs, status)
  BY RowProcessed
<1>2. readers \in Partial(Known(N), {"ready", "waiting", "failed", "done"})
  BY DEF IInv, TypeInv, ClientInv
<1>3. CASE UNCHANGED <<chunks, readers>>
  BY <1>3 DEF ListenInv
<1>4. ASSUME chunks' = Extended(chunks, id, NewChunkOf(status, refs)),
             Wake({id}) \/ (UNCHANGED readers /\ id \notin DOMAIN chunks)
      PROVE  ListenInv'
  <2>1. ASSUME NEW r \in DOMAIN readers', readers'[r] = "waiting"
        PROVE  \E x \in DOMAIN chunks' :
                 r \in chunks'[x].listeners /\ chunks'[x].status = "pending"
    <3>1. r \in DOMAIN readers /\ readers[r] = "waiting"
          /\ (id \in DOMAIN chunks => r \notin chunks[id].listeners)
      BY <1>2, <1>4, <2>1, Woken
    <3>2. PICK x \in DOMAIN chunks : r \in chunks[x].listeners /\ chunks[x].status = "pending"
      BY <3>1 DEF ListenInv
    <3>3. x # id
      BY <3>1, <3>2
    <3>4. x \in DOMAIN chunks' /\ chunks'[x] = chunks[x]
      BY <1>4, <3>3 DEF Extended
    <3> QED BY <3>2, <3>4
  <2> QED BY <2>1 DEF ListenInv
<1> QED BY <1>1, <1>3, <1>4 DEF RowTaken

LEMMA ReportGlobalErrorKeeps ==
  ASSUME IInv, ReportGlobalError
  PROVE  IInv'
<1>1. /\ response' \in {"open", "closed", "failed"} /\ Wake(DOMAIN chunks)
      /\ chunks' = [id \in DOMAIN chunks |->
                      IF IsPending(id) THEN NewChunkOf("errored", <<>>) ELSE chunks[id]]
      /\ UNCHANGED <<serverVars, stream, hitches>>
  BY DEF ReportGlobalError
<1>2. PICK n : n = request.nextChunkId
  OBVIOUS
<1>3. /\ n \in Nat /\ stream \in Seq(Rows(n)) /\ InOrder(stream)
      /\ ProviderIds(stream) \cap Met = {} /\ ClientInv(n)
  BY <1>2 DEF IInv, TypeInv, N, OrderInv
<1>4. PICK new : new = NewChunkOf("errored", <<>>)
  OBVIOUS
<1>5. new \in ChunksOf(n) /\ new.status # "pending" /\ RefsIn(new.refs) = {}
      /\ new.listeners = {}
  <2>1. <<>> \in Seq(Refs(n))
    OBVIOUS
  <2> QED BY <1>4, <2>1, NoRefs DEF NewChunkOf, ChunksOf, Statuses
<1>6. DOMAIN chunks' = DOMAIN chunks
      /\ \A id \in DOMAIN chunks : chunks'[id] = IF IsPending(id) THEN new ELSE chunks[id]
  BY <1>1, <1>4
<1>7. \A id \in DOMAIN chunks : chunks'[id].status # "pending"
      /\ RefsIn(chunks'[id].refs) \subseteq RefsIn(chunks[id].refs)
  BY <1>5, <1>6 DEF IsPending
<1>8. /\ readers' \in Partial(Known(n), {"ready", "waiting", "failed", "done"})
      /\ DOMAIN readers' = DOMAIN readers
      /\ \A r \in DOMAIN readers : readers'[r] = "waiting" =>
           /\ readers[r] = "waiting"
           /\ \A id \in DOMAIN chunks \cap DOMAIN chunks : r \notin chunks[id].listeners
  <2>1. readers \in Partial(Known(n), {"ready", "waiting", "failed", "done"})
    BY <1>3 DEF ClientInv
  <2> QED BY <1>1, <2>1, Woken
<1>9. Met' \subseteq Met /\ Settled' = DOMAIN chunks
  BY <1>6, <1>7, <1>8 DEF Met, Settled
<1>10. chunks' \in Partial(Known(n), ChunksOf(n))
  <2>1. /\ DOMAIN chunks \subseteq Known(n)
        /\ \A id \in DOMAIN chunks : chunks[id] \in ChunksOf(n)
    BY <1>3, PartialIs DEF ClientInv
  <2>2. \A id \in DOMAIN chunks' : chunks'[id] \in ChunksOf(n)
    BY <1>5, <1>6, <2>1
  <2>3. chunks' = [id \in DOMAIN chunks' |-> chunks'[id]]
    BY <1>1
  <2> QED BY <1>6, <2>1, <2>2, <2>3, PartialIs
<1>11. ClientInv(n)'
  BY <1>1, <1>8, <1>10 DEF ClientInv
<1>12. Settled \subseteq Settled'
  BY <1>9 DEF Settled
<1>13. /\ ClientInv(request.nextChunkId)' /\ stream' \in Seq(Rows(request.nextChunkId))
       /\ InOrder(stream')
  <2>1. UNCHANGED request
    BY <1>1 DEF serverVars
  <2> QED BY <1>1, <1>2, <1>3, <1>11, <2>1
<1>14. ProviderIds(stream') \cap Met' = {}
  BY <1>1, <1>3, <1>9
<1>15. /\ Mentions(stream') \subseteq Mentions(stream)
       /\ RowRefs(stream') \subseteq RowRefs(stream)
       /\ Met' \subseteq Met \cup Mentions(stream)
       /\ RowIds(stream) \subseteq RowIds(stream') \cup Settled'
       /\ Met' \subseteq Met \cup RowRefs(stream) \cup Settled'
  BY <1>1, <1>9
<1>16. IInv'
  <2> HIDE DEF IInv
  <2> QED BY <1>1, <1>12, <1>13, <1>14, <1>15, ClientStep
<1> QED BY <1>16

LEMMA ReportGlobalErrorListens ==
  ASSUME IInv, ListenInv, ReportGlobalError
  PROVE  ListenInv'
<1>1. readers \in Partial(Known(N), {"ready", "waiting", "failed", "done"})
  BY DEF IInv, TypeInv, ClientInv
<1>2. Wake(DOMAIN chunks)
  BY DEF ReportGlobalError
<1>3. ASSUME NEW r \in DOMAIN readers', readers'[r] = "waiting"
      PROVE  FALSE
  <2>1. /\ r \in DOMAIN readers /\ readers[r] = "waiting"
        /\ \A id \in DOMAIN chunks \cap DOMAIN chunks : r \notin chunks[id].listeners
    BY <1>1, <1>2, <1>3, Woken
  <2> QED BY <2>1 DEF ListenInv
<1> QED BY <1>3 DEF ListenInv

\* What reading does to the chunks: it makes those that are asked for, pending, and
\* changes none that is pending but for its listeners.
ChunksKept(cs) ==
  /\ DOMAIN chunks \subseteq DOMAIN cs /\ DOMAIN cs \subseteq Met
  /\ \A x \in DOMAIN chunks :
       /\ cs[x].refs = chunks[x].refs
       /\ chunks[x].status = "pending" <=> cs[x].status = "pending"
       /\ chunks[x].listeners \subseteq cs[x].listeners
  /\ \A x \in DOMAIN cs \ DOMAIN chunks : cs[x].refs = <<>> /\ cs[x].status = "pending"

ReaderStates == {"ready", "waiting", "failed", "done"}

LEMMA ReadStep ==
  ASSUME IInv, UNCHANGED <<serverVars, stream, response>>, ChunksKept(chunks'),
         chunks' \in Partial(Known(N), ChunksOf(N)),
         readers' \in Partial(Known(N), ReaderStates), DOMAIN readers' \subseteq Met
  PROVE  IInv'
<1>1. PICK n : n = request.nextChunkId
  OBVIOUS
<1>2. /\ n \in Nat /\ stream \in Seq(Rows(n)) /\ InOrder(stream)
      /\ ProviderIds(stream) \cap Met = {} /\ response \in {"open", "closed", "failed"}
  BY <1>1 DEF IInv, TypeInv, N, OrderInv, ClientInv
<1>3. ClientInv(n)'
  BY <1>1, <1>2 DEF ClientInv, N, ReaderStates
<1>4. Met' \subseteq Met
  <2>1. \A x \in DOMAIN chunks' : RefsIn(chunks'[x].refs) \subseteq Met
    <3> TAKE x \in DOMAIN chunks'
    <3>1. CASE x \in DOMAIN chunks
      <4>1. chunks'[x].refs = chunks[x].refs
        BY <3>1 DEF ChunksKept
      <4> QED BY <3>1, <4>1 DEF Met
    <3>2. CASE x \notin DOMAIN chunks
      <4>1. chunks'[x].refs = <<>>
        BY <3>2 DEF ChunksKept
      <4> QED BY <4>1, NoRefs
    <3> QED BY <3>1, <3>2
  <2>2. DOMAIN chunks' \subseteq Met
    BY DEF ChunksKept
  <2>3. Met' = DOMAIN chunks' \cup DOMAIN readers'
                 \cup UNION {RefsIn(chunks'[x].refs) : x \in DOMAIN chunks'}
    BY DEF Met
  <2> QED BY <2>1, <2>2, <2>3
<1>5. Settled \subseteq Settled'
  BY DEF Settled, ChunksKept
<1>6. /\ ClientInv(request.nextChunkId)' /\ stream' \in Seq(Rows(request.nextChunkId))
      /\ InOrder(stream') /\ UNCHANGED serverVars
  <2>1. UNCHANGED request
    BY DEF serverVars
  <2> QED BY <1>1, <1>2, <1>3, <2>1
<1>7. /\ Mentions(stream') \subseteq Mentions(stream)
      /\ RowRefs(stream') \subseteq RowRefs(stream)
      /\ Met' \subseteq Met \cup Mentions(stream)
      /\ RowIds(stream) \subseteq RowIds(stream') \cup Settled'
      /\ Met' \subseteq Met \cup RowRefs(stream) \cup Settled'
      /\ ProviderIds(stream') \cap Met' = {}
  BY <1>2, <1>4
<1> HIDE DEF IInv
<1> QED BY <1>5, <1>6, <1>7, ClientStep

LEMMA ReadListens ==
  ASSUME ListenInv, ChunksKept(chunks'), NEW r,
         \A x \in DOMAIN readers' : readers'[x] = "waiting" /\ x # r =>
           x \in DOMAIN readers /\ readers[x] = "waiting",
         readers'[r] = "waiting" =>
           \E id \in DOMAIN chunks' : r \in chunks'[id].listeners
                                      /\ chunks'[id].status = "pending"
  PROVE  ListenInv'
<1>1. ASSUME NEW x \in DOMAIN readers', readers'[x] = "waiting", x # r
      PROVE  \E id \in DOMAIN chunks' : x \in chunks'[id].listeners
                                        /\ chunks'[id].status = "pending"
  <2>1. x \in DOMAIN readers /\ readers[x] = "waiting"
    BY <1>1
  <2>2. PICK id \in DOMAIN chunks : x \in chunks[id].listeners /\ chunks[id].status = "pending"
    BY <2>1 DEF ListenInv
  <2>3. id \in DOMAIN chunks' /\ chunks'[id].status = "pending"
        /\ chunks[id].listeners \subseteq chunks'[id].listeners
    BY <2>2 DEF ChunksKept
  <2> QED BY <2>2, <2>3
<1> QED BY <1>1 DEF ListenInv

\* The chunks of a client, one at a time
LEMMA ChunkIs ==
  ASSUME NEW n, ClientInv(n), NEW x \in DOMAIN chunks
  PROVE  /\ x \in Known(n) /\ chunks[x] \in ChunksOf(n)
         /\ chunks[x].status \in Statuses /\ chunks[x].refs \in Seq(Refs(n))
         /\ chunks[x].listeners \subseteq Known(n)
<1>1. x \in Known(n) /\ chunks[x] \in ChunksOf(n)
  BY PartialIs DEF ClientInv
<1> QED BY <1>1 DEF ChunksOf

LEMMA PendingMade ==
  ASSUME NEW n, NEW new, new = NewChunkOf("pending", <<>>)
  PROVE  new \in ChunksOf(n) /\ new.status = "pending" /\ new.refs = <<>>
         /\ new.listeners = {}
<1>1. <<>> \in Seq(Refs(n))
  OBVIOUS
<1> QED BY <1>1 DEF NewChunkOf, ChunksOf, Statuses

\* One reader more listens to a chunk that is pending.
LEMMA Listened ==
  ASSUME NEW n \in Nat, NEW cs \in Partial(Known(n), ChunksOf(n)), ChunksKept(cs),
         NEW id \in DOMAIN cs, cs[id].status = "pending", NEW r \in Known(n), NEW ds,
         ds = Listen(r, id, cs)
  PROVE  /\ ds \in Partial(Known(n), ChunksOf(n)) /\ ChunksKept(ds)
         /\ id \in DOMAIN ds /\ r \in ds[id].listeners /\ ds[id].status = "pending"
<1>1. /\ DOMAIN cs \subseteq Known(n) /\ \A x \in DOMAIN cs : cs[x] \in ChunksOf(n)
  BY PartialIs
<1>2. DOMAIN ds = DOMAIN cs /\ ds = [x \in DOMAIN ds |-> ds[x]]
      /\ \A x \in DOMAIN cs : x # id => ds[x] = cs[x]
  BY DEF Listen
<1>3. ds[id] = [cs[id] EXCEPT !.listeners = @ \cup {r}]
  BY DEF Listen
<1>4. /\ ds[id].status = cs[id].status /\ ds[id].refs = cs[id].refs
      /\ ds[id].listeners = cs[id].listeners \cup {r} /\ ds[id] \in ChunksOf(n)
  <2>1. cs[id] \in ChunksOf(n)
    BY <1>1
  <2> QED BY <1>3, <2>1 DEF ChunksOf
<1>5. \A x \in DOMAIN ds : ds[x] \in ChunksOf(n) /\ ds[x].status = cs[x].status
      /\ ds[x].refs = cs[x].refs /\ cs[x].listeners \subseteq ds[x].listeners
  BY <1>1, <1>2, <1>4
<1>6. ds \in Partial(Known(n), ChunksOf(n))
  BY <1>1, <1>2, <1>5, PartialIs
<1>7. ChunksKept(ds)
  BY <1>2, <1>5 DEF ChunksKept
<1> QED BY <1>2, <1>4, <1>6, <1>7

\* A chunk that was resolved is initialized.
LEMMA Initialized ==
  ASSUME NEW n \in Nat, NEW cs \in Partial(Known(n), ChunksOf(n)), ChunksKept(cs),
         NEW id \in DOMAIN cs, cs[id].status # "pending", NEW ds,
         ds = [cs EXCEPT ![id].status = "initialized"]
  PROVE  ds \in Partial(Known(n), ChunksOf(n)) /\ ChunksKept(ds)
<1>1. /\ DOMAIN cs \subseteq Known(n) /\ \A x \in DOMAIN cs : cs[x] \in ChunksOf(n)
  BY PartialIs
<1>2. DOMAIN ds = DOMAIN cs /\ ds = [x \in DOMAIN ds |-> ds[x]]
      /\ \A x \in DOMAIN cs : x # id => ds[x] = cs[x]
  OBVIOUS
<1>3. ds[id] = [cs[id] EXCEPT !.status = "initialized"]
  OBVIOUS
<1>4. /\ ds[id].status # "pending" /\ ds[id].refs = cs[id].refs
      /\ ds[id].listeners = cs[id].listeners /\ ds[id] \in ChunksOf(n)
  <2>1. cs[id] \in ChunksOf(n)
    BY <1>1
  <2> QED BY <1>3, <2>1 DEF ChunksOf, Statuses
<1>5. \A x \in DOMAIN ds : ds[x] \in ChunksOf(n)
      /\ (ds[x].status = "pending" <=> cs[x].status = "pending")
      /\ ds[x].refs = cs[x].refs /\ cs[x].listeners \subseteq ds[x].listeners
  BY <1>1, <1>2, <1>4
<1>6. ds \in Partial(Known(n), ChunksOf(n))
  BY <1>1, <1>2, <1>5, PartialIs
<1>7. ChunksKept(ds)
  BY <1>2, <1>5 DEF ChunksKept
<1> QED BY <1>6, <1>7

LEMMA ReaderSet ==
  ASSUME NEW n, readers \in Partial(Known(n), ReaderStates), NEW r \in DOMAIN readers,
         NEW state \in ReaderStates, readers' = [readers EXCEPT ![r] = state]
  PROVE  /\ readers' \in Partial(Known(n), ReaderStates) /\ DOMAIN readers' = DOMAIN readers
         /\ readers'[r] = state /\ \A x \in DOMAIN readers : x # r => readers'[x] = readers[x]
<1>1. DOMAIN readers \subseteq Known(n) /\ \A x \in DOMAIN readers : readers[x] \in ReaderStates
  BY PartialIs
<1>2. /\ DOMAIN readers' = DOMAIN readers /\ readers'[r] = state
      /\ readers' = [x \in DOMAIN readers' |-> readers'[x]]
      /\ \A x \in DOMAIN readers : x # r => readers'[x] = readers[x]
  OBVIOUS
<1>3. \A x \in DOMAIN readers' : readers'[x] \in ReaderStates
  BY <1>1, <1>2
<1> QED BY <1>1, <1>2, <1>3, PartialIs

LEMMA ReadPlainChunkKeeps ==
  ASSUME IInv, NEW r \in DOMAIN readers, ReadPlainChunk(r)
  PROVE  IInv' /\ (ListenInv => ListenInv')
<1>1. /\ readers[r] = "ready" /\ UNCHANGED <<serverVars, stream, response, hitches>>
  BY DEF ReadPlainChunk
<1>2. PICK new, found, n :
        /\ new = NewChunkOf("pending", <<>>) /\ n = N
        /\ found = IF r \in DOMAIN chunks THEN chunks ELSE Extended(chunks, r, new)
  OBVIOUS
<1>3. PICK status : status = found[r].status
  OBVIOUS
<1>4. /\ status # "model"
      /\ chunks' = CASE status = "pending" -> Listen(r, r, found)
                     [] status = "module" -> [chunks EXCEPT ![r].status = "initialized"]
                     [] OTHER -> chunks
      /\ readers' = [readers EXCEPT ![r] = CASE status = "pending" -> "waiting"
                                             [] status = "errored" -> "failed"
                                             [] OTHER -> "done"]
  BY <1>2, <1>3 DEF ReadPlainChunk
<1>5. n \in Nat /\ ClientInv(n) /\ chunks \in Partial(Known(n), ChunksOf(n))
      /\ readers \in Partial(Known(n), ReaderStates)
  BY <1>2 DEF IInv, TypeInv, ClientInv, ReaderStates
<1>6. r \in Known(n) /\ DOMAIN readers \subseteq Met /\ DOMAIN chunks \subseteq Met
  BY <1>5, PartialIs DEF Met
<1>7. new \in ChunksOf(n) /\ new.status = "pending" /\ new.refs = <<>>
  BY <1>2, PendingMade
<1>8. ChunksKept(chunks)
  BY <1>6 DEF ChunksKept
<1>9. /\ found \in Partial(Known(n), ChunksOf(n)) /\ ChunksKept(found) /\ r \in DOMAIN found
      /\ r \in DOMAIN chunks \/ status = "pending"
  <2>1. CASE r \in DOMAIN chunks
    BY <1>2, <1>5, <1>8, <2>1
  <2>2. CASE r \notin DOMAIN chunks
    <3>1. found = Extended(chunks, r, new)
      BY <1>2, <2>2
    <3>2. found \in Partial(Known(n), ChunksOf(n))
      BY <1>5, <1>6, <1>7, <3>1, ExtendedType
    <3>3. DOMAIN found = DOMAIN chunks \cup {r} /\ found[r] = new
          /\ \A x \in DOMAIN chunks : found[x] = chunks[x]
      BY <2>2, <3>1 DEF Extended
    <3>4. ChunksKept(found)
      BY <1>6, <1>7, <3>3 DEF ChunksKept
    <3> QED BY <1>3, <1>7, <3>2, <3>3, <3>4
  <2> QED BY <2>1, <2>2
<1>10. PICK state \in ReaderStates :
         /\ readers' = [readers EXCEPT ![r] = state]
         /\ state = "waiting" => status = "pending"
  <2>1. CASE status = "pending"
    <3>1. readers' = [readers EXCEPT ![r] = "waiting"]
      BY <1>4, <2>1
    <3> QED BY <2>1, <3>1 DEF ReaderStates
  <2>2. CASE status = "errored"
    <3>1. readers' = [readers EXCEPT ![r] = "failed"]
      BY <1>4, <2>2
    <3> QED BY <3>1 DEF ReaderStates
  <2>3. CASE status # "pending" /\ status # "errored"
    <3>1. readers' = [readers EXCEPT ![r] = "done"]
      BY <1>4, <2>3
    <3> QED BY <3>1 DEF ReaderStates
  <2> QED BY <2>1, <2>2, <2>3
<1>11. /\ readers' \in Partial(Known(n), ReaderStates) /\ DOMAIN readers' = DOMAIN readers
       /\ readers'[r] = state /\ \A x \in DOMAIN readers : x # r => readers'[x] = readers[x]
  BY <1>5, <1>10, ReaderSet
<1>12. /\ chunks' \in Partial(Known(n), ChunksOf(n)) /\ ChunksKept(chunks')
       /\ status = "pending" => /\ r \in DOMAIN chunks' /\ r \in chunks'[r].listeners
                                /\ chunks'[r].status = "pending"
  <2>1. CASE status = "pending"
    <3>1. chunks' = Listen(r, r, found)
      BY <1>4, <2>1
    <3>2. found[r].status = "pending"
      BY <1>3, <2>1
    <3> QED BY <1>5, <1>6, <1>9, <3>1, <3>2, Listened
  <2>2. CASE status = "module"
    <3>1. chunks' = [chunks EXCEPT ![r].status = "initialized"]
      BY <1>4, <2>2
    <3>2. r \in DOMAIN chunks /\ chunks[r].status # "pending"
      BY <1>2, <1>3, <1>9, <2>2
    <3> QED BY <1>5, <1>8, <2>2, <3>1, <3>2, Initialized
  <2>3. CASE status # "pending" /\ status # "module"
    <3>1. chunks' = chunks
      BY <1>4, <2>3
    <3> QED BY <1>5, <1>8, <2>3, <3>1
  <2> QED BY <2>1, <2>2, <2>3
<1>13. IInv'
  BY <1>1, <1>2, <1>6, <1>11, <1>12, ReadStep
<1>14. ASSUME ListenInv
       PROVE  ListenInv'
  <2>1. \A x \in DOMAIN readers' : readers'[x] = "waiting" /\ x # r =>
          x \in DOMAIN readers /\ readers[x] = "waiting"
    BY <1>11
  <2>2. readers'[r] = "waiting" =>
          \E id \in DOMAIN chunks' : r \in chunks'[id].listeners
                                     /\ chunks'[id].status = "pending"
    BY <1>10, <1>11, <1>12
  <2> QED BY <1>12, <1>14, <2>1, <2>2, ReadListens
<1> QED BY <1>13, <1>14

LEMMA LeastOf ==
  ASSUME NEW S, S \subseteq Nat, S # {}
  PROVE  \E i \in S : \A j \in S : i <= j
<1>1. PICK i \in S : \A j \in S : ~(<<j, i>> \in OpToRel(<, Nat))
  BY NatLessThanWellFounded, WFMin
<1>2. \A j \in S : ~(j < i)
  BY <1>1 DEF OpToRel
<1> QED BY <1>2

\* What parsing makes of the chunks
LEMMA ParsedKept ==
  ASSUME NEW n \in Nat, ClientInv(n), NEW refs \in Seq(Refs(n)),
         RefsIn(refs) \subseteq Met
  PROVE  /\ Parsed(refs) \in Partial(Known(n), ChunksOf(n)) /\ ChunksKept(Parsed(refs))
         /\ DOMAIN Parsed(refs) = DOMAIN chunks \cup RefsIn(refs)
<1> DEFINE ids == {refs[i].id : i \in DOMAIN refs}
           values == {refs[i].id : i \in {j \in DOMAIN refs : refs[j].ref = "value"}}
<1>1. PICK ps : ps = Parsed(refs)
  OBVIOUS
<1>2. PICK new : new = NewChunkOf("pending", <<>>)
  OBVIOUS
<1>3. ids = RefsIn(refs)
  BY DEF RefsIn
<1>4. /\ DOMAIN ps = DOMAIN chunks \cup ids
      /\ ps = [id \in DOMAIN ps |-> ps[id]]
      /\ \A id \in DOMAIN chunks \cup ids : ps[id] =
           CASE StatusOf(id) = "missing" -> new
             [] StatusOf(id) = "module" /\ id \in values ->
                  [chunks[id] EXCEPT !.status = "initialized"]
             [] OTHER -> chunks[id]
  BY <1>1, <1>2 DEF Parsed
<1>5. new \in ChunksOf(n) /\ new.status = "pending" /\ new.refs = <<>>
  BY <1>2, PendingMade
<1> HIDE DEF ids, values
<1>6. DOMAIN chunks \subseteq Known(n) /\ Met \subseteq Known(n)
  BY PartialIs, MetKnown DEF ClientInv
<1>7. ASSUME NEW id \in DOMAIN chunks
      PROVE  /\ ps[id] \in ChunksOf(n) /\ ps[id].refs = chunks[id].refs
             /\ ps[id].listeners = chunks[id].listeners
             /\ (chunks[id].status = "pending" <=> ps[id].status = "pending")
  <2>1. chunks[id] \in ChunksOf(n) /\ chunks[id].status \in Statuses
    BY ChunkIs
  <2>2. StatusOf(id) = chunks[id].status /\ StatusOf(id) # "missing"
    BY <2>1 DEF StatusOf, Statuses
  <2>3. CASE StatusOf(id) = "module" /\ id \in values
    <3>1. ps[id] = [chunks[id] EXCEPT !.status = "initialized"]
      BY <1>4, <2>3
    <3> QED BY <2>1, <2>2, <2>3, <3>1 DEF ChunksOf, Statuses
  <2>4. CASE ~(StatusOf(id) = "module" /\ id \in values)
    <3>1. ps[id] = chunks[id]
      BY <1>4, <2>2, <2>4
    <3> QED BY <2>1, <3>1
  <2> QED BY <2>3, <2>4
<1>8. ASSUME NEW id \in DOMAIN ps, id \notin DOMAIN chunks
      PROVE  ps[id] = new
  BY <1>4, <1>8 DEF StatusOf
<1>9. \A id \in DOMAIN ps : ps[id] \in ChunksOf(n)
  BY <1>5, <1>7, <1>8
<1>10. DOMAIN ps \subseteq Known(n) /\ DOMAIN ps \subseteq Met
       /\ DOMAIN chunks \subseteq DOMAIN ps
  BY <1>3, <1>4, <1>6 DEF Met
<1>11. ps \in Partial(Known(n), ChunksOf(n))
  BY <1>4, <1>9, <1>10, PartialIs
<1>12. ChunksKept(ps)
  BY <1>5, <1>7, <1>8, <1>10 DEF ChunksKept
<1> QED BY <1>1, <1>3, <1>4, <1>11, <1>12

LEMMA InitializeModelChunkKeeps ==
  ASSUME IInv, NEW r \in DOMAIN readers, InitializeModelChunk(r)
  PROVE  IInv' /\ (ListenInv => ListenInv')
<1> DEFINE refs == chunks[r].refs
           blocking == {i \in DOMAIN refs : Blocks(refs[i])}
           first == CHOOSE i \in blocking : \A j \in blocking : i <= j
           blocker == refs[first].id
           read == SubSeq(refs, 1, first)
<1>1. /\ readers[r] = "ready" /\ StatusOf(r) = "model"
      /\ UNCHANGED <<serverVars, stream, response, hitches>>
  BY DEF InitializeModelChunk
<1>2. IF blocking = {}
      THEN /\ chunks' = [Parsed(refs) EXCEPT ![r].status = "initialized"]
           /\ readers' = [id \in DOMAIN readers \cup Lazies(refs) |->
                CASE id = r -> "done"
                  [] id # r /\ id \in DOMAIN readers -> readers[id]
                  [] OTHER -> "ready"]
      ELSE /\ chunks' = IF StatusOf(blocker) = "errored" THEN Parsed(read)
                        ELSE Listen(r, blocker, Parsed(read))
           /\ readers' = [readers EXCEPT
                ![r] = IF StatusOf(blocker) = "errored" THEN "failed" ELSE "waiting"]
  BY DEF InitializeModelChunk
<1>3. PICK n \in Nat : n = N
  BY DEF IInv, TypeInv
<1>4. ClientInv(n) /\ chunks \in Partial(Known(n), ChunksOf(n))
      /\ readers \in Partial(Known(n), ReaderStates)
  BY <1>3 DEF IInv, TypeInv, ClientInv, ReaderStates
<1>5. r \in DOMAIN chunks /\ chunks[r].status = "model"
  BY <1>1 DEF StatusOf
<1>6. refs \in Seq(Refs(n)) /\ r \in Known(n)
  BY <1>4, <1>5, ChunkIs
<1>7. RefsIn(refs) \subseteq Met /\ DOMAIN readers \subseteq Met
  BY <1>5 DEF Met
<1>8. DOMAIN readers \subseteq Known(n)
      /\ \A x \in DOMAIN readers : readers[x] \in ReaderStates
  BY <1>4, PartialIs
<1> HIDE DEF refs
<1>9. CASE blocking = {}
  <2>1. PICK ps : ps = Parsed(refs)
    OBVIOUS
  <2>2. /\ ps \in Partial(Known(n), ChunksOf(n)) /\ ChunksKept(ps)
        /\ DOMAIN ps = DOMAIN chunks \cup RefsIn(refs)
    BY <1>4, <1>6, <1>7, <2>1, ParsedKept
  <2>3. r \in DOMAIN ps /\ ps[r].status # "pending"
    BY <1>5, <2>2 DEF ChunksKept
  <2>4. chunks' = [ps EXCEPT ![r].status = "initialized"]
    BY <1>2, <1>9, <2>1
  <2>5. chunks' \in Partial(Known(n), ChunksOf(n)) /\ ChunksKept(chunks')
    BY <2>2, <2>3, <2>4, Initialized
  <2>6. Lazies(refs) \subseteq RefsIn(refs)
    BY DEF Lazies, RefsIn
  <2>7. readers' = [id \in DOMAIN readers \cup Lazies(refs) |->
                      CASE id = r -> "done"
                        [] id # r /\ id \in DOMAIN readers -> readers[id]
                        [] OTHER -> "ready"]
    BY <1>2, <1>9
  <2>8. /\ DOMAIN readers' = DOMAIN readers \cup Lazies(refs)
        /\ readers' = [id \in DOMAIN readers' |-> readers'[id]]
        /\ readers'[r] = "done"
        /\ \A x \in DOMAIN readers' : x # r /\ x \in DOMAIN readers => readers'[x] = readers[x]
        /\ \A x \in DOMAIN readers' : x # r /\ x \notin DOMAIN readers => readers'[x] = "ready"
    BY <2>7
  <2>9. \A x \in DOMAIN readers' : readers'[x] \in ReaderStates
    BY <1>8, <2>8 DEF ReaderStates
  <2>10. Met \subseteq Known(n)
    BY <1>4, MetKnown
  <2>11. readers' \in Partial(Known(n), ReaderStates) /\ DOMAIN readers' \subseteq Met
    BY <1>7, <2>6, <2>8, <2>9, <2>10, PartialIs
  <2>12. IInv'
    BY <1>1, <1>3, <2>5, <2>11, ReadStep
  <2>13. \A x \in DOMAIN readers' : readers'[x] = "waiting" /\ x # r =>
           x \in DOMAIN readers /\ readers[x] = "waiting"
    BY <2>8
  <2>14. ListenInv => ListenInv'
    BY <2>5, <2>8, <2>13, ReadListens
  <2> QED BY <2>12, <2>14
<1>10. CASE blocking # {}
  <2>1. Len(refs) \in Nat /\ DOMAIN refs = 1..Len(refs)
    BY <1>6, LenProperties
  <2>2. \E i \in blocking : \A j \in blocking : i <= j
    <3>1. blocking \subseteq Nat
      BY <2>1
    <3> HIDE DEF blocking
    <3> QED BY <1>10, <3>1, LeastOf
  <2>3. first \in blocking
    <3> HIDE DEF blocking
    <3> QED BY <2>2
  <2>4. PICK k : k = first
    OBVIOUS
  <2>5. k \in 1..Len(refs) /\ Blocks(refs[k])
    BY <2>1, <2>3, <2>4
  <2>6. PICK id : id = refs[k].id
    OBVIOUS
  <2>7. PICK some : some = SubSeq(refs, 1, k)
    OBVIOUS
  <2>8. /\ some \in Seq(Refs(n)) /\ Len(some) = k /\ DOMAIN some = 1..k
        /\ \A i \in 1..k : some[i] = refs[i]
    <3>1. /\ 1 \in 1..(Len(refs) + 1) /\ k \in (1 - 1)..Len(refs) /\ k \in Nat
      BY <2>1, <2>5
    <3>2. \A i \in 1..k : i \in 1..Len(refs) /\ refs[i] \in Refs(n)
      BY <1>6, <2>1, <2>5, ElementOfSeq
    <3>3. /\ SubSeq(refs, 1, k) \in Seq(Refs(n)) /\ Len(SubSeq(refs, 1, k)) = k
          /\ \A i \in 1..k : SubSeq(refs, 1, k)[i] = refs[i]
      BY <1>6, <3>1, <3>2
    <3> QED BY <2>7, <3>1, <3>3, LenProperties
  <2>9. RefsIn(some) \subseteq RefsIn(refs) /\ id \in RefsIn(some)
    BY <2>1, <2>5, <2>6, <2>8 DEF RefsIn
  <2>10. PICK ps : ps = Parsed(some)
    OBVIOUS
  <2>11. /\ ps \in Partial(Known(n), ChunksOf(n)) /\ ChunksKept(ps)
         /\ DOMAIN ps = DOMAIN chunks \cup RefsIn(some)
    BY <1>4, <1>7, <2>8, <2>9, <2>10, ParsedKept
  <2>12. StatusOf(id) \in {"missing", "pending", "errored"}
    BY <2>5, <2>6 DEF Blocks
  <2>13. /\ chunks' = IF StatusOf(id) = "errored" THEN ps ELSE Listen(r, id, ps)
         /\ readers' = [readers EXCEPT
              ![r] = IF StatusOf(id) = "errored" THEN "failed" ELSE "waiting"]
    BY <1>2, <1>10, <2>4, <2>6, <2>7, <2>10
  <2>14. CASE StatusOf(id) = "errored"
    <3>1. chunks' = ps /\ readers' = [readers EXCEPT ![r] = "failed"]
      BY <2>13, <2>14
    <3>2. /\ readers' \in Partial(Known(n), ReaderStates) /\ DOMAIN readers' = DOMAIN readers
          /\ readers'[r] = "failed"
          /\ \A x \in DOMAIN readers : x # r => readers'[x] = readers[x]
      BY <1>4, <3>1, ReaderSet DEF ReaderStates
    <3>3. IInv'
      BY <1>1, <1>3, <1>7, <2>11, <3>1, <3>2, ReadStep
    <3>4. \A x \in DOMAIN readers' : readers'[x] = "waiting" /\ x # r =>
            x \in DOMAIN readers /\ readers[x] = "waiting"
      BY <3>2
    <3>5. ListenInv => ListenInv'
      BY <2>11, <3>1, <3>2, <3>4, ReadListens
    <3> QED BY <3>3, <3>5
  <2>15. CASE StatusOf(id) # "errored"
    <3>1. chunks' = Listen(r, id, ps) /\ readers' = [readers EXCEPT ![r] = "waiting"]
      BY <2>13, <2>15
    <3>2. id \in DOMAIN ps
      BY <2>9, <2>11
    <3>3. ps[id].status = "pending"
      <4>1. CASE id \in DOMAIN chunks
        <5>1. chunks[id].status \in Statuses
          BY <1>4, <4>1, ChunkIs
        <5>2. chunks[id].status = "pending"
          BY <2>12, <2>15, <4>1, <5>1 DEF StatusOf, Statuses
        <5> QED BY <2>11, <4>1, <5>2 DEF ChunksKept
      <4>2. CASE id \notin DOMAIN chunks
        BY <2>11, <3>2, <4>2 DEF ChunksKept
      <4> QED BY <4>1, <4>2
    <3>4. /\ chunks' \in Partial(Known(n), ChunksOf(n)) /\ ChunksKept(chunks')
          /\ id \in DOMAIN chunks' /\ r \in chunks'[id].listeners
          /\ chunks'[id].status = "pending"
      BY <1>6, <2>11, <3>1, <3>2, <3>3, Listened
    <3>5. /\ readers' \in Partial(Known(n), ReaderStates) /\ DOMAIN readers' = DOMAIN readers
          /\ \A x \in DOMAIN readers : x # r => readers'[x] = readers[x]
      BY <1>4, <3>1, ReaderSet DEF ReaderStates
    <3>6. IInv'
      BY <1>1, <1>3, <1>7, <3>4, <3>5, ReadStep
    <3>7. \A x \in DOMAIN readers' : readers'[x] = "waiting" /\ x # r =>
            x \in DOMAIN readers /\ readers[x] = "waiting"
      BY <3>5
    <3>8. ListenInv => ListenInv'
      BY <3>4, <3>7, ReadListens
    <3> QED BY <3>6, <3>8
  <2> QED BY <2>14, <2>15
<1> QED BY <1>9, <1>10

-----------------------------------------------------------------------------
(* Every behaviour                                                           *)

LEMMA NothingHappens ==
  ASSUME IInv, UNCHANGED flightVars
  PROVE  IInv' /\ (ListenInv => ListenInv')
<1>1. /\ UNCHANGED <<program, request, retrying, waiting, ended>>
      /\ UNCHANGED <<stream, response, chunks, readers>> /\ UNCHANGED serverVars
  BY DEF flightVars, serverVars, clientVars
<1>2. Met' = Met /\ Settled' = Settled
  BY <1>1 DEF Met, Settled
<1>3. ClientInv(request.nextChunkId) /\ stream \in Seq(Rows(request.nextChunkId))
      /\ InOrder(stream) /\ ProviderIds(stream) \cap Met = {}
  BY DEF IInv, TypeInv, OrderInv, N
<1>4. ClientInv(request.nextChunkId)'
  BY <1>1, <1>3 DEF ClientInv
<1>5. IInv'
  <2>1. /\ stream' \in Seq(Rows(request.nextChunkId)) /\ InOrder(stream')
        /\ Mentions(stream') \subseteq Mentions(stream)
        /\ RowRefs(stream') \subseteq RowRefs(stream) /\ ProviderIds(stream') \cap Met' = {}
        /\ Met' \subseteq Met \cup Mentions(stream)
        /\ RowIds(stream) \subseteq RowIds(stream') \cup Settled' /\ Settled \subseteq Settled'
        /\ Met' \subseteq Met \cup RowRefs(stream) \cup Settled'
    BY <1>1, <1>2, <1>3
  <2>2. ClientInv(request.nextChunkId)'
    BY <1>4
  <2> HIDE DEF IInv
  <2> QED BY <1>1, <2>1, <2>2, ClientStep
<1>6. ListenInv => ListenInv'
  BY <1>1 DEF ListenInv
<1> QED BY <1>5, <1>6

LEMMA ListenKept ==
  ASSUME ListenInv, UNCHANGED clientVars
  PROVE  ListenInv'
BY DEF ListenInv, clientVars

LEMMA EveryStep ==
  ASSUME IInv, [FlightNext]_flightVars
  PROVE  IInv' /\ (NoSymbols /\ ListenInv => ListenInv')
<1>1. ASSUME NEW id \in waiting, PingSegment(id)
      PROVE  IInv' /\ (ListenInv => ListenInv')
  BY <1>1, PingSegmentKeeps, ListenKept DEF PingSegment
<1>2. CASE PerformWork
  BY <1>2, PerformWorkKeeps, ListenKept DEF PerformWork
<1>3. CASE RetrySegment
  BY <1>3, RetrySegmentKeeps, ListenKept DEF RetrySegment
<1>4. CASE EndPerformWork
  <2>1. UNCHANGED clientVars
    BY <1>4 DEF EndPerformWork, FlushCompletedChunks
  <2> QED BY <1>4, <2>1, EndPerformWorkKeeps, ListenKept
<1>5. CASE StartFlowing
  <2>1. UNCHANGED clientVars
    BY <1>5 DEF StartFlowing, FlushCompletedChunks
  <2> QED BY <1>5, <2>1, StartFlowingKeeps, ListenKept
<1>6. CASE ProcessFullRow
  BY <1>6, ProcessFullRowKeeps, ProcessFullRowListens
<1>7. CASE ReportGlobalError
  BY <1>7, ReportGlobalErrorKeeps, ReportGlobalErrorListens
<1>8. ASSUME NEW r \in DOMAIN readers, ReadPlainChunk(r) \/ InitializeModelChunk(r)
      PROVE  IInv' /\ (ListenInv => ListenInv')
  BY <1>8, ReadPlainChunkKeeps, InitializeModelChunkKeeps
<1>9. CASE UNCHANGED flightVars
  BY <1>9, NothingHappens
<1> QED BY <1>1, <1>2, <1>3, <1>4, <1>5, <1>6, <1>7, <1>8, <1>9 DEF FlightNext

\* What the server counts, what it has queued and what is on its way are one: every
\* segment is worked on once or is a row, every id that anyone has heard of is that of
\* a row to come or of a chunk that is settled, and rows of providers, which the client
\* takes for new, come before whatever mentions them.
THEOREM FlightInvariance == FlightSpec => []IInv
<1>1. FlightInit => IInv
  BY AtStart
<1>2. IInv /\ [FlightNext]_flightVars => IInv'
  BY EveryStep
<1> QED BY <1>1, <1>2, PTL DEF FlightSpec

\* pendingChunks (ReactFlightServer.js) is right at each flush: the stream is closed
\* as soon as every segment was rendered and every row was sent, and not before.
THEOREM ClosesInTime == FlightSpec => []ClosesWhenAllIsSent
<1>1. IInv => ClosesWhenAllIsSent
  <2>1. SUFFICES ASSUME IInv, retrying = <<>>
                 PROVE  ended <=> Unsent = {}
    BY DEF ClosesWhenAllIsSent, ServerIdle
  <2>2. IsRequest(request) /\ request.pinged \in Seq(DOMAIN request.segments)
    BY <2>1, RequestOk DEF IInv, OrderInv, TypeInv
  <2>3. Unsent = waiting \cup ToSet(request.pinged) \cup (ToSet(retrying) \ {TheFlush})
                   \cup QueueIds(request)
    BY <2>2, UnsentIs
  <2>4. ToSet(retrying) = {} /\ ToRetry = 0
    BY <2>1, NoneMapped DEF ToSet, ToRetry
  <2>5. PICK w, l, q : /\ w = Cardinality(waiting) /\ l = Len(request.pinged)
                       /\ q = QueueLength(request)
    OBVIOUS
  <2>6. w \in Nat /\ l \in Nat /\ q \in Nat /\ IsFiniteSet(waiting)
    BY <2>1, <2>5, Counted
  <2>7. ended <=> w + l + 0 + q = 0
    BY <2>1, <2>4, <2>5 DEF IInv, CountInv
  <2>8. w = 0 <=> waiting = {}
    BY <2>5, <2>6, FS_EmptySet
  <2>9. l = 0 <=> ToSet(request.pinged) = {}
    <3>1. DOMAIN request.pinged = 1..l
      BY <2>2, <2>5, LenProperties
    <3>2. ToSet(request.pinged) = {} <=> DOMAIN request.pinged = {}
      BY DEF ToSet
    <3> QED BY <2>6, <3>1, <3>2
  <2>10. q = 0 <=> QueueIds(request) = {}
    <3>1. QueueIds(request) # {} => q # 0
      BY <2>2, <2>5, QueuesHold
    <3>2. QueueIds(request) = {} => q = 0
      BY <2>2, <2>5, QueuesAreEmpty
    <3> QED BY <3>1, <3>2
  <2>11. w + l + 0 + q = 0 <=> w = 0 /\ l = 0 /\ q = 0
    BY <2>6
  <2> QED BY <2>3, <2>4, <2>7, <2>8, <2>9, <2>10, <2>11
<1> QED BY <1>1, FlightInvariance, PTL

\* No reader sleeps over its chunk: what it listens to is pending and comes.  This is
\* so of programs without symbols, whose rows drop the listeners of the chunk that they
\* replace (resolveSymbol in ReactFlightClient.js).
THEOREM NoReaderSleeps == NoSymbols /\ FlightSpec => []WaitersAreServed
<1>1. FlightInit => IInv /\ ListenInv
  BY AtStart
<1>2. NoSymbols /\ IInv /\ ListenInv /\ [FlightNext]_flightVars => IInv' /\ ListenInv'
  BY EveryStep
<1>3. NoSymbols => NoSymbols'
  OBVIOUS
<1>4. IInv /\ ListenInv => WaitersAreServed
  <2>1. SUFFICES ASSUME IInv, ListenInv, NEW r \in DOMAIN readers, readers[r] = "waiting"
                 PROVE  \E id \in DOMAIN chunks :
                          /\ r \in chunks[id].listeners
                          /\ IsPending(id)
                          /\ id \in Unsent \cup {row.id : row \in ToSet(stream)}
                             \/ response = "failed"
    BY DEF WaitersAreServed
  <2>2. PICK id \in DOMAIN chunks : r \in chunks[id].listeners /\ chunks[id].status = "pending"
    BY <2>1 DEF ListenInv
  <2>3. id \in Met /\ id \notin Settled
    BY <2>2 DEF Met, Settled
  <2>4. id \in Coming
    BY <2>1, <2>3 DEF IInv, ServedInv
  <2>5. {row.id : row \in ToSet(stream)} = RowIds(stream)
    BY RowIdsAre
  <2> QED BY <2>2, <2>4, <2>5 DEF Coming, IsPending
<1> QED BY <1>1, <1>2, <1>3, <1>4, PTL DEF FlightSpec
=============================================================================
