------------------------- MODULE UpdateQueueProofs -------------------------
(***************************************************************************)
(* Whatever the lanes, the actions and the number of updates: however they *)
(* are skipped, rebased, interrupted and captured, a queue ends in the     *)
(* state of its updates in insertion order, a hook whose root has no lanes *)
(* shows that state, and a class calls every callback once.                *)
(*                                                                         *)
(* The updates inserted are those done, which have come to the base queue, *)
(* and those that wait.  IInv says that the base queue is the end of those *)
(* done, up to lanes, and the base state the result of those before it, of *)
(* the fiber on screen and of the one in progress; CountInv says of the    *)
(* same queues which callbacks are still to be called.  Result and         *)
(* ProcessAll are recursive functions, so each of their facts is proved by *)
(* induction on a set of numbers (UpToFrom).                               *)
(***************************************************************************)
EXTENDS UpdateQueue, WellFoundedInduction, SequenceTheorems, FiniteSetTheorems, TLAPS

-----------------------------------------------------------------------------
(* The inductive invariant                                                   *)

States == Seq(UpdateIds)
Updates == [id : UpdateIds, lane : UpdateLanes \cup {NoLane},
            action : {"append", "reset", "same"}, eager : Seq(States)]
Fibers == [lanes : SUBSET UpdateLanes, state : States, baseState : States,
           baseQueue : Seq(Updates)]
SharedQueues == [pending : Seq(Updates), interleaved : Seq(Updates),
                 lastRenderedState : States]
Extras == [at : Nat, update : Updates]
Renders == [lanes : SUBSET UpdateLanes, phase : {"begin", "complete", "captured"},
            cloned : BOOLEAN, preempted : BOOLEAN, bailed : BOOLEAN,
            callbacks : Seq(UpdateIds), extra : Seq(Extras)]

QueueTypeOK ==
  /\ kind \in {"class", "hook"}
  /\ currentFiber \in Fibers
  /\ alternateFiber \in Fibers \cup {<<>>}
  /\ shared \in SharedQueues
  /\ rendering \in Renders \cup {<<>>}
  /\ rootLanes \in SUBSET UpdateLanes
  /\ inserted \in Seq(Updates)
  /\ called \in [UpdateIds -> Int]
  /\ surprises \subseteq Surprises

SameUpdate(u, v) == u.id = v.id /\ u.action = v.action /\ u.eager = v.eager

\* The base queue is the end of updates, up to the lanes, and the base state is
\* what the updates before it give.
Rebased(baseState, baseQueue, updates) ==
  /\ Len(baseQueue) <= Len(updates)
  /\ \A i \in 1..Len(baseQueue) :
       SameUpdate(baseQueue[i], updates[(Len(updates) - Len(baseQueue)) + i])
  /\ baseState = Result(<<>>, SubSeq(updates, 1, Len(updates) - Len(baseQueue)))

\* A state computed eagerly is the one that the updates up to there give.
EagersRight(updates) ==
  \A i \in 1..Len(updates) :
    Eager(updates[i]) =>
      updates[i].eager[1] = Reduce(Result(<<>>, SubSeq(updates, 1, i - 1)), updates[i])

WithUpdate(updates, extra) ==
  IF extra = <<>> THEN updates ELSE InsertAt(updates, extra[1].at + 1, extra[1].update)

\* The updates that have come to the base queue, and those that have not
Waiting == shared.pending \o shared.interleaved
Done == SubSeq(inserted, 1, Len(inserted) - Len(Waiting))

HasEager(updates) == \E i \in 1..Len(updates) : Eager(updates[i])

\* What holds whatever a hook met
ShapeInv ==
  /\ kind = "class" => surprises = {} /\ (rendering # <<>> => ~rendering.bailed)
  /\ Len(shared.pending) + Len(shared.interleaved) <= Len(inserted)
  /\ rendering # <<>> =>
       /\ rendering.phase = "captured" => kind = "class"
       /\ rendering.cloned => alternateFiber # <<>>
       /\ rendering.extra # <<>> => rendering.extra[1].at <= Len(inserted)

Clean == surprises \subseteq {"renderPhase"}

BaseInv ==
  /\ inserted = Done \o Waiting /\ Done \in Seq(Updates)
  /\ Rebased(currentFiber.baseState, currentFiber.baseQueue, Done)
  /\ EagersRight(inserted)
  /\ \A i \in 1..Len(shared.interleaved) : shared.interleaved[i].lane # NoLane
  /\ kind = "class" => ~HasEager(inserted)

ExtraInv ==
  rendering.extra # <<>> =>
    /\ rendering.extra[1].at <= Len(Done)
    /\ ~Eager(rendering.extra[1].update)
    /\ kind = "hook" => rendering.extra[1].at = Len(Done) /\ shared.pending = <<>>

RenderInv ==
  rendering # <<>> =>
    /\ ~rendering.cloned => rendering.extra = <<>> /\ ~rendering.bailed
    /\ rendering.phase = "begin" => ~rendering.cloned
    /\ rendering.phase = "captured" => rendering.cloned /\ kind = "class"
    /\ ExtraInv
    /\ rendering.cloned =>
         Rebased(alternateFiber.baseState, alternateFiber.baseQueue,
                 WithUpdate(Done, rendering.extra))

ScreenInv ==
  /\ currentFiber.baseQueue = <<>> => currentFiber.state = currentFiber.baseState
  /\ currentFiber.lanes \subseteq rootLanes
  /\ rendering # <<>> /\ rendering.bailed => rootLanes # {}
  /\ /\ rendering # <<>> => ~rendering.bailed \/ alternateFiber.lanes = {}
     /\ currentFiber.lanes = {}
     => currentFiber.state = Result(<<>>, inserted)

WorkInv ==
  rendering # <<>> /\ rendering.cloned =>
    /\ alternateFiber.baseQueue = <<>> => alternateFiber.state = alternateFiber.baseState
    /\ /\ alternateFiber.lanes = {}
       /\ rendering.extra = <<>> \/ ~HasEager(shared.interleaved)
       => alternateFiber.state = Result(<<>>, WithUpdate(inserted, rendering.extra))

IInv ==
  /\ QueueTypeOK
  /\ ShapeInv
  /\ Clean => BaseInv /\ RenderInv /\ (kind = "hook" => ScreenInv /\ WorkInv)

LEMMA LeastElement ==
  ASSUME NEW S, S \subseteq Nat, S # {}
  PROVE  \E n \in S : \A m \in S : n <= m
<1>1. PICK n \in S : \A m \in S : ~(<<m, n>> \in OpToRel(<, Nat))
  BY NatLessThanWellFounded, WFMin
<1>2. \A m \in S : ~(m < n)
  BY <1>1 DEF OpToRel
<1>3. \A m \in S : n <= m
  BY <1>2
<1> QED BY <1>3

LEMMA InductiveSet ==
  ASSUME NEW Z, 0 \in Z, \A n \in Nat : n \in Z => n + 1 \in Z
  PROVE  \A n \in Nat : n \in Z
<1> DEFINE Rest == {n \in Nat : n \notin Z}
<1>1. SUFFICES ASSUME Rest # {}
               PROVE  FALSE
  OBVIOUS
<1>2. PICK n \in Rest : \A k \in Rest : n <= k
  BY <1>1, LeastElement
<1>3. n # 0 /\ n - 1 \in Nat /\ n - 1 \notin Rest
  BY <1>2
<1>4. (n - 1) + 1 \in Z
  BY <1>3
<1> QED BY <1>2, <1>4

-----------------------------------------------------------------------------
(* What a sequence of updates makes of a state                               *)

LEMMA UpToFrom ==
  ASSUME NEW N \in Nat, NEW Z, 0 \in Z, \A n \in 0..N : n \in Z /\ n < N => n + 1 \in Z
  PROVE  \A n \in 0..N : n \in Z
<1> DEFINE Y == {n \in Nat : n <= N => n \in Z}
<1>1. 0 \in Y
  OBVIOUS
<1>2. \A n \in Nat : n \in Y => n + 1 \in Y
  OBVIOUS
<1>3. \A n \in Nat : n \in Y
  <2> HIDE DEF Y
  <2> QED BY <1>1, <1>2, InductiveSet
<1> QED BY <1>3

Stepwise(f, N, start, step) ==
  f[0] = start /\ \A k \in 1..N : f[k] = step[<<f[k - 1], k>>]

LEMMA StepwiseExists ==
  ASSUME NEW N \in Nat, NEW A, NEW start \in A, NEW step \in [A \X (1..N) -> A]
  PROVE  \E f \in [0..N -> A] : Stepwise(f, N, start, step)
<1> DEFINE Z == {n \in 0..N : \E f \in [0..n -> A] : Stepwise(f, n, start, step)}
<1>1. 0 \in Z
  <2>1. [k \in 0..0 |-> start] \in [0..0 -> A]
    OBVIOUS
  <2>2. Stepwise([k \in 0..0 |-> start], 0, start, step)
    BY DEF Stepwise
  <2> QED BY <2>1, <2>2
<1>2. ASSUME NEW n \in 0..N, n \in Z, n < N
      PROVE  n + 1 \in Z
  <2>1. PICK f \in [0..n -> A] : Stepwise(f, n, start, step)
    BY <1>2
  <2> DEFINE g == [k \in 0..(n + 1) |-> IF k = n + 1 THEN step[<<f[n], n + 1>>] ELSE f[k]]
  <2>2. step[<<f[n], n + 1>>] \in A
    BY <1>2
  <2>3. g \in [0..(n + 1) -> A]
    BY <2>2
  <2>4. \A k \in 1..(n + 1) : g[k] = step[<<g[k - 1], k>>]
    <3> TAKE k \in 1..(n + 1)
    <3>1. CASE k = n + 1
      <4>1. k - 1 = n /\ n \in 0..(n + 1) /\ k \in 0..(n + 1) /\ n # n + 1
        BY <3>1
      <4>2. g[k] = step[<<f[n], n + 1>>] /\ g[n] = f[n]
        BY <3>1, <4>1
      <4> HIDE DEF g
      <4> QED BY <3>1, <4>1, <4>2
    <3>2. CASE k # n + 1
      <4>1. k \in 1..n /\ k - 1 \in 0..n /\ k - 1 # n + 1
        BY <3>2
      <4>2. f[k] = step[<<f[k - 1], k>>]
        BY <2>1, <4>1 DEF Stepwise
      <4>3. g[k] = f[k]
        BY <3>2
      <4>4. g[k - 1] = f[k - 1]
        BY <4>1
      <4> HIDE DEF g
      <4> QED BY <4>2, <4>3, <4>4
    <3> QED BY <3>1, <3>2
  <2>5. g[0] = start
    BY <2>1 DEF Stepwise
  <2>6. n + 1 \in 0..N
    BY <1>2
  <2>7. Stepwise(g, n + 1, start, step)
    <3> HIDE DEF g
    <3> QED BY <2>4, <2>5 DEF Stepwise
  <2> HIDE DEF g
  <2> QED BY <2>3, <2>6, <2>7
<1>3. \A n \in 0..N : n \in Z
  <2> HIDE DEF Z
  <2> QED BY <1>1, <1>2, UpToFrom
<1>4. N \in Z
  BY <1>3
<1> QED BY <1>4

LEMMA ReduceType ==
  ASSUME NEW s \in States, NEW u \in Updates
  PROVE  Reduce(s, u) \in States
<1>1. u.id \in UpdateIds /\ u.action \in {"append", "reset", "same"}
  BY DEF Updates
<1>2. <<>> \in States /\ Append(s, u.id) \in States
  BY <1>1 DEF States
<1> QED BY <1>1, <1>2 DEF Reduce

\* The states that a sequence of updates goes through
Run(f, s, updates) ==
  /\ f \in [0..Len(updates) -> States]
  /\ f[0] = s
  /\ \A k \in 1..Len(updates) : f[k] = Reduce(f[k - 1], updates[k])

LEMMA ResultRuns ==
  ASSUME NEW s \in States, NEW updates \in Seq(Updates)
  PROVE  \E f : Run(f, s, updates) /\ Result(s, updates) = f[Len(updates)]
<1> DEFINE N == Len(updates)
           step == [p \in States \X (1..N) |-> Reduce(p[1], updates[p[2]])]
           Next(f) == [n \in 0..N |-> IF n = 0 THEN s ELSE Reduce(f[n - 1], updates[n])]
           run == CHOOSE f : f = Next(f)
<1>1. N \in Nat /\ \A k \in 1..N : updates[k] \in Updates
  OBVIOUS
<1>2. step \in [States \X (1..N) -> States]
  <2> HIDE DEF N
  <2> QED BY <1>1, ReduceType
<1>3. PICK g \in [0..N -> States] : Stepwise(g, N, s, step)
  <2> HIDE DEF N, step
  <2> QED BY <1>1, <1>2, StepwiseExists
<1>4. \A n \in 0..N : n # 0 => g[n] = Reduce(g[n - 1], updates[n])
  <2> TAKE n \in 0..N
  <2> HAVE n # 0
  <2>1. n \in 1..N /\ n - 1 \in 0..N /\ g[n - 1] \in States
    BY <1>1
  <2>2. g[n] = step[<<g[n - 1], n>>]
    <3> HIDE DEF N, step
    <3> QED BY <1>3, <2>1 DEF Stepwise
  <2> QED BY <2>1, <2>2
<1>5. g = Next(g)
  <2>1. \A n \in 0..N : g[n] = IF n = 0 THEN s ELSE Reduce(g[n - 1], updates[n])
    BY <1>3, <1>4 DEF Stepwise
  <2> HIDE DEF N
  <2> QED BY <2>1
<1>6. run = Next(run)
  <2> HIDE DEF Next
  <2> QED BY <1>5
<1>7. Result(s, updates) = run[N]
  BY DEF Result
<1>8. /\ DOMAIN run = 0..N
      /\ \A n \in 0..N : run[n] = IF n = 0 THEN s ELSE Reduce(run[n - 1], updates[n])
  <2> HIDE DEF run, N
  <2> QED BY <1>6
<1> HIDE DEF run, N, Next, step
<1>9. run = [n \in 0..N |-> run[n]]
  BY <1>6 DEF Next
<1>10. \A n \in 0..N : n \in {k \in 0..N : run[k] \in States}
  <2>1. 0 \in {k \in 0..N : run[k] \in States}
    BY <1>1, <1>8
  <2>2. \A n \in 0..N : n \in {k \in 0..N : run[k] \in States} /\ n < N
          => n + 1 \in {k \in 0..N : run[k] \in States}
    <3> SUFFICES ASSUME NEW n \in 0..N, run[n] \in States, n < N
                 PROVE  n + 1 \in 0..N /\ run[n + 1] \in States
      OBVIOUS
    <3>1. n + 1 \in 0..N /\ n + 1 \in 1..N /\ n + 1 # 0 /\ (n + 1) - 1 = n
      BY <1>1
    <3>2. run[n + 1] = Reduce(run[n], updates[n + 1])
      BY <1>8, <3>1
    <3> QED BY <1>1, <3>1, <3>2, ReduceType
  <2> QED BY <1>1, <2>1, <2>2, UpToFrom
<1>11. Run(run, s, updates)
  <2>1. run \in [0..N -> States]
    BY <1>9, <1>10
  <2>2. run[0] = s
    BY <1>1, <1>8
  <2>3. \A k \in 1..N : run[k] = Reduce(run[k - 1], updates[k])
    BY <1>1, <1>8
  <2> QED BY <2>1, <2>2, <2>3 DEF Run, N
<1> QED BY <1>7, <1>11 DEF N

LEMMA ResultType ==
  ASSUME NEW s \in States, NEW updates \in Seq(Updates)
  PROVE  Result(s, updates) \in States
<1>1. PICK f : Run(f, s, updates) /\ Result(s, updates) = f[Len(updates)]
  BY ResultRuns
<1>2. Len(updates) \in 0..Len(updates)
  OBVIOUS
<1> QED BY <1>1, <1>2 DEF Run

Aligned(V, U, d) ==
  d + Len(V) <= Len(U) /\ \A i \in 1..Len(V) : SameUpdate(V[i], U[d + i])

LEMMA RunsAlign ==
  ASSUME NEW V \in Seq(Updates), NEW U \in Seq(Updates),
         NEW d \in Nat, Aligned(V, U, d),
         NEW s, NEW t, NEW f, NEW g, Run(f, t, V), Run(g, s, U), t = g[d]
  PROVE  \A i \in 0..Len(V) : f[i] = g[d + i]
<1> DEFINE N == Len(V)
           Z == {i \in 0..N : f[i] = g[d + i]}
<1>1. /\ N \in Nat /\ Len(U) \in Nat /\ d + N <= Len(U)
      /\ \A i \in 1..N : SameUpdate(V[i], U[d + i])
  BY DEF Aligned
<1>2. 0 \in Z
  BY <1>1 DEF Run
<1>3. ASSUME NEW i \in 0..N, i \in Z, i < N
      PROVE  i + 1 \in Z
  <2> DEFINE j == i + 1
             l == d + j
  <2>1. j \in 1..N /\ j \in 0..N /\ l \in 1..Len(U) /\ j - 1 = i /\ l - 1 = d + i
    BY <1>1, <1>3
  <2>2. f[j] = Reduce(f[i], V[j]) /\ g[l] = Reduce(g[d + i], U[l])
    <3> HIDE DEF j, l
    <3> QED BY <2>1 DEF Run, N
  <2>3. f[i] = g[d + i] /\ SameUpdate(V[j], U[l])
    <3>1. f[i] = g[d + i]
      BY <1>3
    <3>2. SameUpdate(V[j], U[d + j])
      <4> HIDE DEF j, N
      <4> QED BY <1>1, <2>1
    <3> HIDE DEF j
    <3> QED BY <3>1, <3>2
  <2>4. f[j] = g[l]
    <3> HIDE DEF j, l
    <3> QED BY <2>2, <2>3 DEF Reduce, SameUpdate
  <2> QED BY <2>1, <2>4
<1>4. \A i \in 0..N : i \in Z
  <2> HIDE DEF Z, N
  <2> QED BY <1>1, <1>2, <1>3, UpToFrom
<1> QED BY <1>4

LEMMA Prefix ==
  ASSUME NEW S, NEW U \in Seq(S), NEW k \in 0..Len(U)
  PROVE  /\ SubSeq(U, 1, k) \in Seq(S)
         /\ Len(SubSeq(U, 1, k)) = k
         /\ \A i \in 1..k : SubSeq(U, 1, k)[i] = U[i]
<1>1. Len(U) \in Nat /\ \A i \in 1..k : U[i] \in S
  OBVIOUS
<1>2. /\ SubSeq(U, 1, k) \in Seq(S)
      /\ Len(SubSeq(U, 1, k)) = IF 1 <= k THEN (k - 1) + 1 ELSE 0
      /\ \A i \in 1..((k - 1) + 1) : SubSeq(U, 1, k)[i] = U[(1 + i) - 1]
  BY <1>1, SubSeqProperties
<1> QED BY <1>1, <1>2

LEMMA PrefixResult ==
  ASSUME NEW s \in States, NEW U \in Seq(Updates), NEW g, Run(g, s, U),
         NEW k \in 0..Len(U)
  PROVE  Result(s, SubSeq(U, 1, k)) = g[k]
<1> DEFINE V == SubSeq(U, 1, k)
<1>1. V \in Seq(Updates) /\ Len(V) = k /\ \A i \in 1..k : V[i] = U[i]
  BY Prefix
<1>2. PICK f : Run(f, s, V) /\ Result(s, V) = f[Len(V)]
  <2> HIDE DEF V
  <2> QED BY <1>1, ResultRuns
<1>3. s = g[0] /\ 0 \in Nat /\ 0 + Len(V) <= Len(U)
  BY <1>1 DEF Run
<1>4. Aligned(V, U, 0)
  BY <1>1 DEF Aligned, SameUpdate
<1>5. \A i \in 0..Len(V) : f[i] = g[0 + i]
  <2> HIDE DEF V
  <2> QED BY <1>1, <1>2, <1>3, <1>4, RunsAlign
<1> HIDE DEF V
<1>6. f[k] = g[k]
  BY <1>1, <1>5
<1> QED BY <1>1, <1>2, <1>6 DEF V

LEMMA ResultStep ==
  ASSUME NEW s \in States, NEW U \in Seq(Updates), NEW k \in 1..Len(U)
  PROVE  Result(s, SubSeq(U, 1, k)) = Reduce(Result(s, SubSeq(U, 1, k - 1)), U[k])
<1>1. PICK g : Run(g, s, U)
  BY ResultRuns
<1>2. k \in 0..Len(U) /\ k - 1 \in 0..Len(U)
  OBVIOUS
<1>3. Result(s, SubSeq(U, 1, k)) = g[k] /\ Result(s, SubSeq(U, 1, k - 1)) = g[k - 1]
  BY <1>1, <1>2, PrefixResult
<1> QED BY <1>1, <1>3 DEF Run

LEMMA ResultEmpty ==
  ASSUME NEW s \in States
  PROVE  Result(s, <<>>) = s
<1>1. <<>> \in Seq(Updates) /\ Len(<<>>) = 0
  OBVIOUS
<1>2. PICK f : Run(f, s, <<>>) /\ Result(s, <<>>) = f[0]
  BY <1>1, ResultRuns
<1> QED BY <1>2 DEF Run

LEMMA Whole ==
  ASSUME NEW S, NEW U \in Seq(S)
  PROVE  SubSeq(U, 1, Len(U)) = U
<1>1. Len(U) \in 0..Len(U) /\ Len(U) \in Nat
  OBVIOUS
<1>2. /\ SubSeq(U, 1, Len(U)) \in Seq(S) /\ Len(SubSeq(U, 1, Len(U))) = Len(U)
      /\ \A i \in 1..Len(U) : SubSeq(U, 1, Len(U))[i] = U[i]
  BY <1>1, Prefix
<1> QED BY <1>2, SeqEqual

LEMMA ResultAppend ==
  ASSUME NEW s \in States, NEW U \in Seq(Updates), NEW u \in Updates
  PROVE  Result(s, Append(U, u)) = Reduce(Result(s, U), u)
<1> DEFINE V == Append(U, u)
           k == Len(U) + 1
<1>1. /\ V \in Seq(Updates) /\ Len(V) = k /\ V[k] = u /\ Len(U) \in Nat
      /\ \A i \in 1..Len(U) : V[i] = U[i]
  BY AppendProperties
<1>2. SubSeq(V, 1, k) = V
  BY <1>1, Whole
<1>3. SubSeq(V, 1, k - 1) = U
  <2>1. k - 1 \in 0..Len(V) /\ k - 1 = Len(U)
    BY <1>1
  <2> HIDE DEF V, k
  <2>2. /\ SubSeq(V, 1, k - 1) \in Seq(Updates) /\ Len(SubSeq(V, 1, k - 1)) = k - 1
        /\ \A i \in 1..(k - 1) : SubSeq(V, 1, k - 1)[i] = V[i]
    BY <1>1, <2>1, Prefix
  <2> QED BY <1>1, <2>1, <2>2, SeqEqual
<1>4. k \in 1..Len(V)
  BY <1>1
<1> HIDE DEF V, k
<1>5. Result(s, SubSeq(V, 1, k)) = Reduce(Result(s, SubSeq(V, 1, k - 1)), V[k])
  BY <1>1, <1>4, ResultStep
<1> QED BY <1>1, <1>2, <1>3, <1>5 DEF V

-----------------------------------------------------------------------------
(* Queues that are rebased                                                   *)

LEMMA NoState ==
  <<>> \in States
  BY DEF States

LEMMA RebasedResult ==
  ASSUME NEW U \in Seq(Updates), NEW q \in Seq(Updates), NEW b \in States,
         Rebased(b, q, U)
  PROVE  Result(b, q) = Result(<<>>, U)
<1>1. PICK g : Run(g, <<>>, U) /\ Result(<<>>, U) = g[Len(U)]
  BY NoState, ResultRuns
<1>2. PICK f : Run(f, b, q) /\ Result(b, q) = f[Len(q)]
  BY ResultRuns
<1> DEFINE d == Len(U) - Len(q)
<1>3. d \in Nat /\ d \in 0..Len(U) /\ d + Len(q) = Len(U) /\ d + Len(q) <= Len(U)
      /\ Len(q) \in 0..Len(q)
  BY DEF Rebased
<1>4. b = Result(<<>>, SubSeq(U, 1, d)) /\ \A i \in 1..Len(q) : SameUpdate(q[i], U[d + i])
  BY DEF Rebased
<1> HIDE DEF d
<1>5. b = g[d]
  BY <1>1, <1>3, <1>4, NoState, PrefixResult
<1>6. \A i \in 0..Len(q) : f[i] = g[d + i]
  <2>1. Aligned(q, U, d)
    BY <1>3, <1>4 DEF Aligned
  <2> QED BY <1>1, <1>2, <1>3, <1>5, <2>1, RunsAlign
<1>7. f[Len(q)] = g[d + Len(q)]
  BY <1>3, <1>6
<1> QED BY <1>1, <1>2, <1>3, <1>7

LEMMA PrefixOfConcat ==
  ASSUME NEW U \in Seq(Updates), NEW r \in Seq(Updates), NEW k \in 0..Len(U)
  PROVE  SubSeq(U \o r, 1, k) = SubSeq(U, 1, k)
<1> DEFINE W == U \o r
<1>1. /\ W \in Seq(Updates) /\ Len(W) = Len(U) + Len(r)
      /\ \A i \in 1..(Len(U) + Len(r)) : W[i] = IF i <= Len(U) THEN U[i] ELSE r[i - Len(U)]
  BY ConcatProperties
<1> HIDE DEF W
<1>2. k \in 0..Len(W) /\ Len(U) \in Nat /\ Len(r) \in Nat /\ Len(W) \in Nat
  BY <1>1
<1>3. /\ SubSeq(W, 1, k) \in Seq(Updates) /\ Len(SubSeq(W, 1, k)) = k
      /\ \A i \in 1..k : SubSeq(W, 1, k)[i] = W[i]
  BY <1>1, <1>2, Prefix
<1>4. /\ SubSeq(U, 1, k) \in Seq(Updates) /\ Len(SubSeq(U, 1, k)) = k
      /\ \A i \in 1..k : SubSeq(U, 1, k)[i] = U[i]
  BY Prefix
<1>5. \A i \in 1..k : W[i] = U[i]
  BY <1>1, <1>2
<1>6. \A i \in 1..k : SubSeq(W, 1, k)[i] = SubSeq(U, 1, k)[i]
  BY <1>3, <1>4, <1>5
<1>7. SubSeq(W, 1, k) = SubSeq(U, 1, k)
  BY <1>3, <1>4, <1>6, SeqEqual
<1> QED BY <1>7 DEF W

LEMMA RebasedMore ==
  ASSUME NEW U \in Seq(Updates), NEW q \in Seq(Updates), NEW r \in Seq(Updates),
         NEW b, Rebased(b, q, U)
  PROVE  Rebased(b, q \o r, U \o r)
<1> DEFINE W == U \o r
           p == q \o r
           d == Len(U) - Len(q)
<1>1. /\ W \in Seq(Updates) /\ Len(W) = Len(U) + Len(r)
      /\ \A i \in 1..(Len(U) + Len(r)) : W[i] = IF i <= Len(U) THEN U[i] ELSE r[i - Len(U)]
  BY ConcatProperties
<1>2. /\ p \in Seq(Updates) /\ Len(p) = Len(q) + Len(r)
      /\ \A i \in 1..(Len(q) + Len(r)) : p[i] = IF i <= Len(q) THEN q[i] ELSE r[i - Len(q)]
  BY ConcatProperties
<1>3. Len(U) \in Nat /\ Len(q) \in Nat /\ Len(r) \in Nat /\ d \in Nat /\ d \in 0..Len(U)
      /\ Len(U) = d + Len(q)
  BY DEF Rebased
<1>4. SubSeq(W, 1, d) = SubSeq(U, 1, d)
  <2> HIDE DEF d
  <2> QED BY <1>3, PrefixOfConcat
<1>5. b = Result(<<>>, SubSeq(U, 1, d)) /\ \A i \in 1..Len(q) : SameUpdate(q[i], U[d + i])
  BY DEF Rebased
<1> HIDE DEF W, p, d
<1>6. \A i \in 1..Len(p) : SameUpdate(p[i], W[d + i])
  <2> TAKE i \in 1..Len(p)
  <2>1. CASE i <= Len(q)
    <3>1. i \in 1..Len(q) /\ d + i <= Len(U) /\ d + i \in 1..(Len(U) + Len(r))
          /\ i \in 1..(Len(q) + Len(r))
      BY <1>2, <1>3, <2>1
    <3>2. p[i] = q[i] /\ W[d + i] = U[d + i]
      BY <1>1, <1>2, <2>1, <3>1
    <3> QED BY <1>5, <3>1, <3>2
  <2>2. CASE ~(i <= Len(q))
    <3>1. ~(d + i <= Len(U)) /\ d + i \in 1..(Len(U) + Len(r))
          /\ i \in 1..(Len(q) + Len(r)) /\ (d + i) - Len(U) = i - Len(q)
      BY <1>2, <1>3, <2>2
    <3>2. p[i] = r[i - Len(q)] /\ W[d + i] = r[(d + i) - Len(U)]
      BY <1>1, <1>2, <2>2, <3>1
    <3> QED BY <3>1, <3>2 DEF SameUpdate
  <2> QED BY <2>1, <2>2
<1>7. Len(p) <= Len(W) /\ Len(W) - Len(p) = d
  BY <1>1, <1>2, <1>3
<1>8. Rebased(b, p, W)
  BY <1>4, <1>5, <1>6, <1>7 DEF Rebased
<1> QED BY <1>8 DEF p, W

LEMMA EagersPrefix ==
  ASSUME NEW U \in Seq(Updates), NEW r \in Seq(Updates), EagersRight(U \o r)
  PROVE  EagersRight(U)
<1>1. SUFFICES ASSUME NEW i \in 1..Len(U), Eager(U[i])
               PROVE  U[i].eager[1] = Reduce(Result(<<>>, SubSeq(U, 1, i - 1)), U[i])
  BY DEF EagersRight
<1> DEFINE W == U \o r
<1>2. /\ W \in Seq(Updates) /\ Len(W) = Len(U) + Len(r) /\ Len(U) \in Nat /\ Len(r) \in Nat
      /\ \A j \in 1..(Len(U) + Len(r)) : W[j] = IF j <= Len(U) THEN U[j] ELSE r[j - Len(U)]
  BY ConcatProperties
<1>3. i \in 1..Len(W) /\ W[i] = U[i] /\ i - 1 \in 0..Len(U)
  <2> HIDE DEF W
  <2> QED BY <1>2
<1>4. SubSeq(W, 1, i - 1) = SubSeq(U, 1, i - 1)
  BY <1>3, PrefixOfConcat
<1> HIDE DEF W
<1>5. W[i].eager[1] = Reduce(Result(<<>>, SubSeq(W, 1, i - 1)), W[i])
  BY <1>1, <1>3 DEF EagersRight, W
<1> QED BY <1>3, <1>4, <1>5

-----------------------------------------------------------------------------
(* Processing a queue                                                        *)

Accs == [lanes : SUBSET UpdateLanes, state : States, baseState : States,
         baseQueue : Seq(Updates), callbacks : Seq(UpdateIds)]

Skips(renderLanes, update) == update.lane \notin renderLanes \cup {NoLane}

NextState(state, update) == IF Eager(update) THEN update.eager[1] ELSE Reduce(state, update)

\* What processing makes of acc with an update that is skipped, or applied
Skipped(p, acc, u) ==
  /\ p \in Accs
  /\ p.lanes = acc.lanes \cup {u.lane}
  /\ p.state = acc.state
  /\ p.baseState = IF acc.baseQueue = <<>> THEN acc.state ELSE acc.baseState
  /\ p.baseQueue = Append(acc.baseQueue, u)
  /\ p.callbacks = acc.callbacks

Applied(p, acc, u) ==
  /\ p \in Accs
  /\ p.lanes = acc.lanes
  /\ p.state = NextState(acc.state, u)
  /\ p.baseState = acc.baseState
  /\ p.baseQueue = IF acc.baseQueue = <<>> THEN <<>>
                   ELSE Append(acc.baseQueue, [u EXCEPT !.lane = NoLane])
  /\ p.callbacks = IF u.lane # NoLane THEN Append(acc.callbacks, u.id) ELSE acc.callbacks

LEMMA ProcessSkips ==
  ASSUME NEW renderLanes, NEW acc \in Accs, NEW u \in Updates, Skips(renderLanes, u)
  PROVE  Skipped(Process(renderLanes, acc, u), acc, u)
<1>1. Process(renderLanes, acc, u) =
        [acc EXCEPT !.lanes = acc.lanes \cup {u.lane},
                    !.baseState = IF acc.baseQueue = <<>> THEN acc.state ELSE acc.baseState,
                    !.baseQueue = Append(acc.baseQueue, u)]
  BY DEF Process, Skips
<1>2. /\ acc.lanes \in SUBSET UpdateLanes /\ acc.state \in States /\ acc.baseState \in States
      /\ acc.baseQueue \in Seq(Updates) /\ acc.callbacks \in Seq(UpdateIds)
  BY DEF Accs
<1>3. u.lane \in UpdateLanes
  BY DEF Updates, Skips
<1>4. Append(acc.baseQueue, u) \in Seq(Updates)
  BY <1>2
<1>5. acc = [lanes |-> acc.lanes, state |-> acc.state, baseState |-> acc.baseState,
             baseQueue |-> acc.baseQueue, callbacks |-> acc.callbacks]
  BY DEF Accs
<1>6. Process(renderLanes, acc, u) =
        [lanes |-> acc.lanes \cup {u.lane}, state |-> acc.state,
         baseState |-> IF acc.baseQueue = <<>> THEN acc.state ELSE acc.baseState,
         baseQueue |-> Append(acc.baseQueue, u), callbacks |-> acc.callbacks]
  BY <1>1, <1>5
<1> QED BY <1>2, <1>3, <1>4, <1>6 DEF Accs, Skipped

LEMMA RebasedUpdate ==
  ASSUME NEW u \in Updates
  PROVE  /\ [u EXCEPT !.lane = NoLane] \in Updates
         /\ SameUpdate([u EXCEPT !.lane = NoLane], u)
         /\ [u EXCEPT !.lane = NoLane].lane = NoLane
         /\ [u EXCEPT !.lane = NoLane].id = u.id
BY DEF Updates, SameUpdate

LEMMA ProcessApplies ==
  ASSUME NEW renderLanes, NEW acc \in Accs, NEW u \in Updates, ~Skips(renderLanes, u)
  PROVE  Applied(Process(renderLanes, acc, u), acc, u)
<1> DEFINE rebased == [u EXCEPT !.lane = NoLane]
           bq == IF acc.baseQueue = <<>> THEN <<>> ELSE Append(acc.baseQueue, rebased)
           cb == IF u.lane # NoLane THEN Append(acc.callbacks, u.id) ELSE acc.callbacks
<1>1. Process(renderLanes, acc, u) =
        [acc EXCEPT !.baseQueue = IF acc.baseQueue = <<>> THEN acc.baseQueue
                                  ELSE Append(acc.baseQueue, [u EXCEPT !.lane = NoLane]),
                    !.state = IF Eager(u) THEN u.eager[1] ELSE Reduce(acc.state, u),
                    !.callbacks = IF u.lane # NoLane THEN Append(acc.callbacks, u.id)
                                  ELSE acc.callbacks]
  BY DEF Process, Skips
<1>2. /\ acc.lanes \in SUBSET UpdateLanes /\ acc.state \in States /\ acc.baseState \in States
      /\ acc.baseQueue \in Seq(Updates) /\ acc.callbacks \in Seq(UpdateIds)
  BY DEF Accs
<1>3. rebased \in Updates
  BY RebasedUpdate
<1>4. bq \in Seq(Updates)
  <2> HIDE DEF rebased
  <2> QED BY <1>2, <1>3
<1>5. cb \in Seq(UpdateIds)
  BY <1>2 DEF Updates
<1>6. NextState(acc.state, u) \in States
  <2>1. u.eager \in Seq(States)
    BY DEF Updates
  <2>2. Eager(u) => u.eager[1] \in States
    <3>1. u.eager # <<>> => 1 \in 1..Len(u.eager)
      BY <2>1
    <3> QED BY <2>1, <3>1 DEF Eager
  <2>3. Reduce(acc.state, u) \in States
    BY <1>2, ReduceType
  <2> QED BY <2>2, <2>3 DEF NextState
<1>7. acc = [lanes |-> acc.lanes, state |-> acc.state, baseState |-> acc.baseState,
             baseQueue |-> acc.baseQueue, callbacks |-> acc.callbacks]
  BY DEF Accs
<1>8. Process(renderLanes, acc, u) =
        [lanes |-> acc.lanes, state |-> NextState(acc.state, u), baseState |-> acc.baseState,
         baseQueue |-> bq, callbacks |-> cb]
  BY <1>1, <1>7 DEF NextState
<1> HIDE DEF bq, cb
<1>9. /\ Process(renderLanes, acc, u) \in Accs
      /\ Process(renderLanes, acc, u).lanes = acc.lanes
      /\ Process(renderLanes, acc, u).state = NextState(acc.state, u)
      /\ Process(renderLanes, acc, u).baseState = acc.baseState
      /\ Process(renderLanes, acc, u).baseQueue = bq
      /\ Process(renderLanes, acc, u).callbacks = cb
  BY <1>2, <1>4, <1>5, <1>6, <1>8 DEF Accs
<1> QED BY <1>9 DEF bq, cb, Applied

LEMMA ProcessType ==
  ASSUME NEW renderLanes, NEW acc \in Accs, NEW u \in Updates
  PROVE  Process(renderLanes, acc, u) \in Accs
<1>1. CASE Skips(renderLanes, u)
  BY <1>1, ProcessSkips DEF Skipped
<1>2. CASE ~Skips(renderLanes, u)
  BY <1>2, ProcessApplies DEF Applied
<1> QED BY <1>1, <1>2

StartOf(b) ==
  [lanes |-> {}, state |-> b, baseState |-> b, baseQueue |-> <<>>, callbacks |-> <<>>]

Pass(f, renderLanes, b, updates) ==
  /\ f \in [0..Len(updates) -> Accs]
  /\ f[0] = StartOf(b)
  /\ \A k \in 1..Len(updates) : f[k] = Process(renderLanes, f[k - 1], updates[k])

EndOf(acc) == [acc EXCEPT !.baseState = IF acc.baseQueue = <<>> THEN acc.state ELSE @]

LEMMA ProcessAllPasses ==
  ASSUME NEW renderLanes, NEW b \in States, NEW updates \in Seq(Updates)
  PROVE  \E f : /\ Pass(f, renderLanes, b, updates)
                /\ ProcessAll(renderLanes, b, updates) = EndOf(f[Len(updates)])
<1> DEFINE N == Len(updates)
           s == StartOf(b)
           step == [p \in Accs \X (1..N) |-> Process(renderLanes, p[1], updates[p[2]])]
           Next(f) == [n \in 0..N |-> IF n = 0 THEN s
                                      ELSE Process(renderLanes, f[n - 1], updates[n])]
           run == CHOOSE f : f = Next(f)
<1>1. N \in Nat /\ \A k \in 1..N : updates[k] \in Updates
  OBVIOUS
<1>2. step \in [Accs \X (1..N) -> Accs]
  <2> HIDE DEF N
  <2> QED BY <1>1, ProcessType
<1>3. s \in Accs
  <2>1. <<>> \in Seq(Updates) /\ <<>> \in Seq(UpdateIds)
    OBVIOUS
  <2> QED BY <2>1 DEF StartOf, Accs
<1>4. PICK g \in [0..N -> Accs] : Stepwise(g, N, s, step)
  <2> HIDE DEF N, step, s
  <2> QED BY <1>1, <1>2, <1>3, StepwiseExists
<1>5. \A n \in 0..N : n # 0 => g[n] = Process(renderLanes, g[n - 1], updates[n])
  <2> TAKE n \in 0..N
  <2> HAVE n # 0
  <2>1. n \in 1..N /\ n - 1 \in 0..N /\ g[n - 1] \in Accs
    BY <1>1
  <2>2. g[n] = step[<<g[n - 1], n>>]
    <3> HIDE DEF N, step, s
    <3> QED BY <1>4, <2>1 DEF Stepwise
  <2> QED BY <2>1, <2>2
<1>6. g = Next(g)
  <2>1. \A n \in 0..N : g[n] = IF n = 0 THEN s ELSE Process(renderLanes, g[n - 1], updates[n])
    BY <1>4, <1>5 DEF Stepwise
  <2> HIDE DEF N, s
  <2> QED BY <2>1
<1>7. run = Next(run)
  <2> HIDE DEF Next
  <2> QED BY <1>6
<1>8. ProcessAll(renderLanes, b, updates) = EndOf(run[N])
  BY DEF ProcessAll, EndOf, StartOf
<1>9. DOMAIN run = 0..N
      /\ \A n \in 0..N : run[n] = IF n = 0 THEN s
                                ELSE Process(renderLanes, run[n - 1], updates[n])
  <2> HIDE DEF run, N, s
  <2> QED BY <1>7
<1> HIDE DEF run, N, Next, step, s
<1>10. run = [n \in 0..N |-> run[n]]
  BY <1>7 DEF Next
<1> DEFINE Z == {k \in 0..N : run[k] \in Accs}
<1>11. 0 \in Z
  BY <1>1, <1>3, <1>9
<1>12. ASSUME NEW n \in 0..N, n \in Z, n < N
       PROVE  n + 1 \in Z
  <2>1. n + 1 \in 0..N /\ n + 1 \in 1..N /\ n + 1 # 0 /\ (n + 1) - 1 = n /\ run[n] \in Accs
    BY <1>1, <1>12
  <2>2. run[n + 1] = Process(renderLanes, run[n], updates[n + 1])
    BY <1>9, <2>1
  <2> QED BY <1>1, <2>1, <2>2, ProcessType
<1>13. \A n \in 0..N : n \in Z
  <2> HIDE DEF Z
  <2> QED BY <1>1, <1>11, <1>12, UpToFrom
<1>14. Pass(run, renderLanes, b, updates)
  <2>1. run \in [0..N -> Accs]
    BY <1>10, <1>13
  <2>2. run[0] = s
    BY <1>1, <1>9
  <2>3. \A k \in 1..N : run[k] = Process(renderLanes, run[k - 1], updates[k])
    BY <1>1, <1>9
  <2> QED BY <2>1, <2>2, <2>3 DEF Pass, N, s
<1> QED BY <1>8, <1>14 DEF N

RebasedAt(baseState, baseQueue, updates, m) ==
  /\ Len(baseQueue) <= m
  /\ \A i \in 1..Len(baseQueue) : SameUpdate(baseQueue[i], updates[(m - Len(baseQueue)) + i])
  /\ baseState = Result(<<>>, SubSeq(updates, 1, m - Len(baseQueue)))

\* What processing has kept after the first m of all updates
Kept(acc, updates, m) ==
  /\ acc.baseQueue = <<>> =>
       acc.lanes = {} /\ acc.state = Result(<<>>, SubSeq(updates, 1, m))
  /\ acc.baseQueue # <<>> =>
       acc.lanes # {} /\ RebasedAt(acc.baseState, acc.baseQueue, updates, m)

LEMMA RebasedAtNext ==
  ASSUME NEW U \in Seq(Updates), NEW m \in 0..(Len(U) - 1),
         NEW q \in Seq(Updates), NEW u \in Updates, SameUpdate(u, U[m + 1]),
         NEW b, RebasedAt(b, q, U, m)
  PROVE  RebasedAt(b, Append(q, u), U, m + 1)
<1> DEFINE p == Append(q, u)
<1>1. /\ Len(p) = Len(q) + 1 /\ p[Len(q) + 1] = u /\ Len(q) \in Nat /\ Len(U) \in Nat
      /\ \A i \in 1..Len(q) : p[i] = q[i]
  BY AppendProperties
<1> HIDE DEF p
<1>2. Len(p) <= m + 1 /\ (m + 1) - Len(p) = m - Len(q)
  BY <1>1 DEF RebasedAt
<1>3. \A i \in 1..Len(p) : SameUpdate(p[i], U[(m - Len(q)) + i])
  <2> TAKE i \in 1..Len(p)
  <2>1. CASE i = Len(q) + 1
    <3>1. (m - Len(q)) + i = m + 1
      BY <1>1, <2>1
    <3> QED BY <1>1, <2>1, <3>1
  <2>2. CASE i # Len(q) + 1
    <3>1. i \in 1..Len(q)
      BY <1>1, <2>2
    <3> QED BY <1>1, <3>1 DEF RebasedAt
  <2> QED BY <2>1, <2>2
<1>4. RebasedAt(b, p, U, m + 1)
  BY <1>2, <1>3 DEF RebasedAt
<1> QED BY <1>4 DEF p

LEMMA RebasedAtFirst ==
  ASSUME NEW U \in Seq(Updates), NEW m \in 0..(Len(U) - 1),
         NEW u \in Updates, SameUpdate(u, U[m + 1]),
         NEW b, b = Result(<<>>, SubSeq(U, 1, m))
  PROVE  RebasedAt(b, Append(<<>>, u), U, m + 1)
<1>1. <<>> \in Seq(Updates) /\ Len(<<>>) = 0
  OBVIOUS
<1>2. RebasedAt(b, <<>>, U, m)
  BY <1>1 DEF RebasedAt
<1> QED BY <1>1, <1>2, RebasedAtNext

LEMMA KeptNext ==
  ASSUME NEW renderLanes, NEW U \in Seq(Updates), EagersRight(U),
         NEW m \in 0..(Len(U) - 1), NEW u \in Updates, SameUpdate(u, U[m + 1]),
         NEW acc \in Accs, Kept(acc, U, m)
  PROVE  Kept(Process(renderLanes, acc, u), U, m + 1)
<1> DEFINE p == Process(renderLanes, acc, u)
           mm == m + 1
<1>1. acc.baseQueue \in Seq(Updates) /\ acc.lanes \in SUBSET UpdateLanes
  BY DEF Accs
<1>2. Append(acc.baseQueue, u) # <<>>
  BY <1>1, AppendProperties
<1>3. CASE Skips(renderLanes, u)
  <2>1. /\ p.lanes = acc.lanes \cup {u.lane}
        /\ p.baseState = IF acc.baseQueue = <<>> THEN acc.state ELSE acc.baseState
        /\ p.baseQueue = Append(acc.baseQueue, u)
    <3>1. Skipped(p, acc, u)
      BY <1>3, ProcessSkips
    <3> HIDE DEF p
    <3> QED BY <3>1 DEF Skipped
  <2>2. RebasedAt(p.baseState, p.baseQueue, U, mm)
    <3>1. CASE acc.baseQueue = <<>>
      <4>1. p.baseState = Result(<<>>, SubSeq(U, 1, m)) /\ p.baseQueue = Append(<<>>, u)
        BY <2>1, <3>1 DEF Kept
      <4> HIDE DEF p
      <4> QED BY <4>1, RebasedAtFirst
    <3>2. CASE acc.baseQueue # <<>>
      <4>1. p.baseState = acc.baseState /\ RebasedAt(acc.baseState, acc.baseQueue, U, m)
        BY <2>1, <3>2 DEF Kept
      <4> HIDE DEF p
      <4> QED BY <1>1, <2>1, <4>1, RebasedAtNext
    <3> QED BY <3>1, <3>2
  <2> HIDE DEF p, mm
  <2>3. Kept(p, U, mm)
    BY <1>2, <2>1, <2>2 DEF Kept
  <2> QED BY <2>3 DEF p, mm
<1>4. CASE ~Skips(renderLanes, u)
  <2> DEFINE rebased == [u EXCEPT !.lane = NoLane]
  <2>1. /\ p.lanes = acc.lanes
        /\ p.state = NextState(acc.state, u)
        /\ p.baseState = acc.baseState
        /\ p.baseQueue = IF acc.baseQueue = <<>> THEN <<>> ELSE Append(acc.baseQueue, rebased)
    <3>1. Applied(p, acc, u)
      BY <1>4, ProcessApplies
    <3> HIDE DEF p
    <3> QED BY <3>1 DEF Applied
  <2>2. CASE acc.baseQueue = <<>>
    <3>1. mm \in 1..Len(U) /\ mm - 1 = m
      OBVIOUS
    <3>2. Result(<<>>, SubSeq(U, 1, mm)) = Reduce(Result(<<>>, SubSeq(U, 1, m)), U[mm])
      <4> HIDE DEF mm
      <4> QED BY <3>1, NoState, ResultStep
    <3>3. acc.state = Result(<<>>, SubSeq(U, 1, m)) /\ acc.lanes = {}
      BY <2>2 DEF Kept
    <3>4. /\ Reduce(acc.state, u) = Reduce(acc.state, U[mm])
          /\ u.eager = U[mm].eager
      BY DEF Reduce, SameUpdate
    <3>5. NextState(acc.state, u) = Reduce(acc.state, U[mm])
      <4>1. CASE Eager(u)
        <5>1. Eager(U[mm])
          BY <3>4, <4>1 DEF Eager
        <5>2. U[mm].eager[1] = Reduce(Result(<<>>, SubSeq(U, 1, mm - 1)), U[mm])
          <6> HIDE DEF mm
          <6> QED BY <3>1, <5>1 DEF EagersRight
        <5>3. u.eager[1] = Reduce(acc.state, U[mm])
          <6> HIDE DEF mm
          <6> QED BY <3>1, <3>3, <3>4, <5>2
        <5> HIDE DEF mm
        <5> QED BY <4>1, <5>3 DEF NextState
      <4>2. CASE ~Eager(u)
        BY <3>4, <4>2 DEF NextState
      <4> QED BY <4>1, <4>2
    <3> HIDE DEF p, mm
    <3>6. Kept(p, U, mm)
      BY <2>1, <2>2, <3>2, <3>3, <3>5 DEF Kept
    <3> QED BY <3>6 DEF p, mm
  <2>3. CASE acc.baseQueue # <<>>
    <3>1. rebased \in Updates /\ SameUpdate(rebased, U[mm])
      <4>1. rebased \in Updates /\ SameUpdate(rebased, u)
        BY RebasedUpdate
      <4> HIDE DEF rebased
      <4> QED BY <4>1 DEF SameUpdate
    <3>2. RebasedAt(acc.baseState, acc.baseQueue, U, m) /\ acc.lanes # {}
      BY <2>3 DEF Kept
    <3>3. RebasedAt(acc.baseState, Append(acc.baseQueue, rebased), U, mm)
      <4> HIDE DEF rebased
      <4> QED BY <1>1, <3>1, <3>2, RebasedAtNext
    <3>4. Append(acc.baseQueue, rebased) # <<>>
      <4> HIDE DEF rebased
      <4> QED BY <1>1, <3>1, AppendProperties
    <3> HIDE DEF p, mm, rebased
    <3>5. Kept(p, U, mm)
      BY <2>1, <2>3, <3>2, <3>3, <3>4 DEF Kept
    <3> QED BY <3>5 DEF p, mm
  <2> QED BY <2>2, <2>3
<1> QED BY <1>3, <1>4

\* What processing ends with
Processed(end, updates) ==
  /\ end \in Accs
  /\ Rebased(end.baseState, end.baseQueue, updates)
  /\ end.lanes = {} <=> end.baseQueue = <<>>
  /\ end.baseQueue = <<>> =>
       end.state = end.baseState /\ end.state = Result(<<>>, updates)

LEMMA RebasedNothing ==
  ASSUME NEW U \in Seq(Updates)
  PROVE  Rebased(Result(<<>>, U), <<>>, U)
<1>1. Len(<<>>) = 0 /\ Len(U) - 0 = Len(U) /\ 0 <= Len(U) /\ SubSeq(U, 1, Len(U)) = U
  BY Whole
<1>2. Len(U) - Len(<<>>) = Len(U) /\ Len(<<>>) <= Len(U) /\ 1..Len(<<>>) = {}
  BY <1>1
<1>3. SubSeq(U, 1, Len(U) - Len(<<>>)) = U
  BY <1>1, <1>2
<1> QED BY <1>2, <1>3 DEF Rebased

LEMMA EndFields ==
  ASSUME NEW acc \in Accs
  PROVE  /\ EndOf(acc) \in Accs
         /\ EndOf(acc).lanes = acc.lanes /\ EndOf(acc).state = acc.state
         /\ EndOf(acc).baseQueue = acc.baseQueue /\ EndOf(acc).callbacks = acc.callbacks
         /\ EndOf(acc).baseState =
              (IF acc.baseQueue = <<>> THEN acc.state ELSE acc.baseState)
<1>1. /\ acc.lanes \in SUBSET UpdateLanes /\ acc.state \in States /\ acc.baseState \in States
      /\ acc.baseQueue \in Seq(Updates) /\ acc.callbacks \in Seq(UpdateIds)
  BY DEF Accs
<1>2. acc = [lanes |-> acc.lanes, state |-> acc.state, baseState |-> acc.baseState,
             baseQueue |-> acc.baseQueue, callbacks |-> acc.callbacks]
  BY DEF Accs
<1>3. EndOf(acc) = [lanes |-> acc.lanes, state |-> acc.state,
                    baseState |-> IF acc.baseQueue = <<>> THEN acc.state ELSE acc.baseState,
                    baseQueue |-> acc.baseQueue, callbacks |-> acc.callbacks]
  BY <1>2 DEF EndOf
<1> QED BY <1>1, <1>3 DEF Accs

LEMMA ProcessAllKeeps ==
  ASSUME NEW renderLanes, NEW U \in Seq(Updates), EagersRight(U),
         NEW b \in States, NEW q \in Seq(Updates), Rebased(b, q, U)
  PROVE  Processed(ProcessAll(renderLanes, b, q), U)
<1> DEFINE N == Len(q)
           d == Len(U) - N
           Z == {k \in 0..N : \A f : Pass(f, renderLanes, b, q) => Kept(f[k], U, d + k)}
<1>1. /\ N \in Nat /\ d \in Nat /\ d + N = Len(U) /\ Len(U) \in Nat
      /\ \A k \in 1..N : q[k] \in Updates /\ SameUpdate(q[k], U[d + k])
      /\ b = Result(<<>>, SubSeq(U, 1, d))
  BY DEF Rebased
<1> HIDE DEF N, d
<1>2. 0 \in Z
  <2> SUFFICES ASSUME NEW f, Pass(f, renderLanes, b, q)
               PROVE  Kept(f[0], U, d + 0)
    BY <1>1
  <2>1. f[0].baseQueue = <<>> /\ f[0].lanes = {} /\ f[0].state = b /\ d + 0 = d
    BY <1>1 DEF Pass, StartOf
  <2> QED BY <1>1, <2>1 DEF Kept
<1>3. ASSUME NEW k \in 0..N, k \in Z, k < N
      PROVE  k + 1 \in Z
  <2> SUFFICES ASSUME NEW f, Pass(f, renderLanes, b, q)
               PROVE  k + 1 \in 0..N /\ Kept(f[k + 1], U, d + (k + 1))
    BY <1>1, <1>3
  <2>1. /\ k + 1 \in 0..N /\ k + 1 \in 1..N /\ (k + 1) - 1 = k
        /\ d + (k + 1) = (d + k) + 1 /\ d + k \in 0..(Len(U) - 1)
    BY <1>1, <1>3
  <2>2. f[k + 1] = Process(renderLanes, f[k], q[k + 1]) /\ f[k] \in Accs
    BY <1>1, <1>3, <2>1 DEF Pass, N
  <2>3. q[k + 1] \in Updates /\ SameUpdate(q[k + 1], U[(d + k) + 1])
    BY <1>1, <2>1
  <2>4. Kept(f[k], U, d + k)
    BY <1>3
  <2> DEFINE m == d + k
             u == q[k + 1]
  <2>5. Kept(Process(renderLanes, f[k], u), U, m + 1)
    <3>1. m \in 0..(Len(U) - 1) /\ u \in Updates /\ SameUpdate(u, U[m + 1])
          /\ Kept(f[k], U, m) /\ f[k] \in Accs
      BY <2>1, <2>2, <2>3, <2>4
    <3> HIDE DEF m, u
    <3> QED BY <3>1, KeptNext
  <2> QED BY <2>1, <2>2, <2>5
<1>4. \A k \in 0..N : k \in Z
  <2> HIDE DEF Z
  <2> QED BY <1>1, <1>2, <1>3, UpToFrom
<1>5. PICK f : /\ Pass(f, renderLanes, b, q)
               /\ ProcessAll(renderLanes, b, q) = EndOf(f[N])
  BY ProcessAllPasses DEF N
<1> DEFINE acc == f[N]
           end == EndOf(acc)
<1>6. acc \in Accs /\ Kept(acc, U, Len(U))
  <2>1. N \in 0..N /\ f[N] \in Accs
    BY <1>1, <1>5 DEF Pass, N
  <2>2. Kept(f[N], U, d + N)
    BY <1>4, <1>5, <2>1
  <2> QED BY <1>1, <2>1, <2>2
<1> HIDE DEF acc
<1>7. /\ end \in Accs /\ end.lanes = acc.lanes /\ end.state = acc.state
      /\ end.baseQueue = acc.baseQueue
      /\ end.baseState = IF acc.baseQueue = <<>> THEN acc.state ELSE acc.baseState
  BY <1>6, EndFields
<1> HIDE DEF end
<1>8. SubSeq(U, 1, Len(U)) = U
  BY Whole
<1>9. Processed(end, U)
  <2>1. CASE acc.baseQueue = <<>>
    <3>1. end.baseQueue = <<>> /\ end.lanes = {} /\ end.state = end.baseState
          /\ end.state = Result(<<>>, U)
      BY <1>6, <1>7, <1>8, <2>1 DEF Kept
    <3>2. Rebased(Result(<<>>, U), <<>>, U)
      BY RebasedNothing
    <3>3. Rebased(end.baseState, end.baseQueue, U)
      BY <3>1, <3>2
    <3> QED BY <1>7, <3>1, <3>3 DEF Processed
  <2>2. CASE acc.baseQueue # <<>>
    <3>1. end.lanes # {} /\ end.baseQueue # <<>>
          /\ RebasedAt(end.baseState, end.baseQueue, U, Len(U))
      BY <1>6, <1>7, <2>2 DEF Kept
    <3>2. Rebased(end.baseState, end.baseQueue, U)
      BY <3>1 DEF Rebased, RebasedAt
    <3> QED BY <1>7, <3>1, <3>2 DEF Processed
  <2> QED BY <2>1, <2>2
<1> QED BY <1>5, <1>9 DEF end, acc

-----------------------------------------------------------------------------
(* Updates on their way: shared queues, then the base queue                  *)

LEMMA FirstOf ==
  ASSUME NEW S, NEW s \in Seq(S), s # <<>>
  PROVE  s[1] \in S
<1>1. Len(s) \in Nat \ {0}
  BY EmptySeq
<1>2. 1 \in 1..Len(s)
  BY <1>1
<1> QED BY <1>2, ElementOfSeq

LEMMA DoneIs ==
  ASSUME NEW ins, NEW d \in Seq(Updates), NEW w \in Seq(Updates), ins = d \o w
  PROVE  /\ ins \in Seq(Updates) /\ Len(w) <= Len(ins) /\ Len(ins) = Len(d) + Len(w)
         /\ SubSeq(ins, 1, Len(ins) - Len(w)) = d
<1>1. ins \in Seq(Updates) /\ Len(ins) = Len(d) + Len(w)
  BY ConcatProperties
<1>2. Len(d) \in Nat /\ Len(w) \in Nat /\ Len(d) \in 0..Len(d) /\ Len(ins) - Len(w) = Len(d)
  BY <1>1
<1>3. SubSeq(d \o w, 1, Len(d)) = SubSeq(d, 1, Len(d))
  BY <1>2, PrefixOfConcat
<1>4. SubSeq(d, 1, Len(d)) = d
  BY Whole
<1> QED BY <1>1, <1>2, <1>3, <1>4

LEMMA AppendWaiting ==
  ASSUME NEW d \in Seq(Updates), NEW p \in Seq(Updates), NEW r \in Seq(Updates),
         NEW u \in Updates
  PROVE  Append(d \o (p \o r), u) = d \o (p \o Append(r, u))
<1>1. <<u>> \in Seq(Updates) /\ p \o r \in Seq(Updates) /\ d \o (p \o r) \in Seq(Updates)
  OBVIOUS
<1>2. Append(d \o (p \o r), u) = (d \o (p \o r)) \o <<u>>
  BY <1>1, AppendIsConcat
<1>3. Append(r, u) = r \o <<u>>
  BY AppendIsConcat
<1>4. (p \o r) \o <<u>> = p \o (r \o <<u>>)
  BY <1>1, ConcatAssociative
<1>5. (d \o (p \o r)) \o <<u>> = d \o ((p \o r) \o <<u>>)
  BY <1>1, ConcatAssociative
<1> QED BY <1>2, <1>3, <1>4, <1>5

LEMMA EmptyConcat ==
  ASSUME NEW r \in Seq(Updates)
  PROVE  r \o <<>> = r /\ <<>> \o r = r
BY ConcatEmptySeq

\* A queue with an update inserted
LEMMA WithUpdateType ==
  ASSUME NEW d \in Seq(Updates), NEW extra \in Seq(Extras),
         extra # <<>> => extra[1].at <= Len(d)
  PROVE  WithUpdate(d, extra) \in Seq(Updates)
<1>1. CASE extra = <<>>
  BY <1>1 DEF WithUpdate
<1>2. CASE extra # <<>>
  <2>1. extra[1] \in Extras
    BY <1>2, FirstOf
  <2> DEFINE n == extra[1].at
             x == extra[1].update
  <2>2. n \in Nat /\ x \in Updates /\ n <= Len(d) /\ Len(d) \in Nat /\ n \in 0..Len(d)
    BY <1>2, <2>1 DEF Extras
  <2> HIDE DEF n, x
  <2>3. SubSeq(d, 1, n) \in Seq(Updates)
    BY <2>2, Prefix
  <2>4. SubSeq(d, n + 1, Len(d)) \in Seq(Updates)
    <3>1. n + 1 \in Int /\ Len(d) \in Int /\ \A i \in (n + 1)..Len(d) : d[i] \in Updates
      BY <2>2
    <3> QED BY <3>1, SubSeqProperties
  <2>5. SubSeq(d, 1, n) \o <<x>> \o SubSeq(d, n + 1, Len(d)) \in Seq(Updates)
    <3>1. <<x>> \in Seq(Updates)
      BY <2>2
    <3> QED BY <2>3, <2>4, <3>1, ConcatProperties
  <2>6. (n + 1) - 1 = n
    BY <2>2
  <2>7. WithUpdate(d, extra) = InsertAt(d, n + 1, x)
    BY <1>2 DEF WithUpdate, n, x
  <2>8. InsertAt(d, n + 1, x) = SubSeq(d, 1, n) \o <<x>> \o SubSeq(d, n + 1, Len(d))
    BY <2>6 DEF InsertAt
  <2> QED BY <2>5, <2>7, <2>8
<1> QED BY <1>1, <1>2

LEMMA SuffixOfConcat ==
  ASSUME NEW d \in Seq(Updates), NEW w \in Seq(Updates), NEW n \in 1..(Len(d) + 1)
  PROVE  SubSeq(d \o w, n, Len(d \o w)) = SubSeq(d, n, Len(d)) \o w
<1> DEFINE l == Len(d)
           dw == d \o w
           s == SubSeq(dw, n, Len(dw))
           t == SubSeq(d, n, l)
           k == (l - n) + 1
<1>1. /\ dw \in Seq(Updates) /\ Len(dw) = l + Len(w) /\ l \in Nat /\ Len(w) \in Nat
      /\ \A i \in 1..(l + Len(w)) : dw[i] = IF i <= l THEN d[i] ELSE w[i - l]
  BY ConcatProperties
<1>2. k \in Nat /\ n \in Nat /\ n >= 1
  BY <1>1
<1> HIDE DEF dw
<1>3. /\ s \in Seq(Updates)
      /\ Len(s) = (IF n <= Len(dw) THEN (Len(dw) - n) + 1 ELSE 0)
      /\ \A i \in 1..((Len(dw) - n) + 1) : s[i] = dw[(n + i) - 1]
  <2>1. n \in Int /\ Len(dw) \in Int /\ \A i \in n..Len(dw) : dw[i] \in Updates
    BY <1>1, <1>2
  <2> QED BY <2>1, SubSeqProperties
<1>4. /\ t \in Seq(Updates)
      /\ Len(t) = (IF n <= l THEN (l - n) + 1 ELSE 0)
      /\ \A i \in 1..((l - n) + 1) : t[i] = d[(n + i) - 1]
  <2>1. n \in Int /\ l \in Int /\ \A i \in n..l : d[i] \in Updates
    BY <1>1, <1>2
  <2> QED BY <2>1, SubSeqProperties
<1> HIDE DEF s, t
<1>5. Len(s) = k + Len(w) /\ Len(t) = k /\ (Len(dw) - n) + 1 = k + Len(w)
  BY <1>1, <1>2, <1>3, <1>4
<1> HIDE DEF l
<1>6. /\ t \o w \in Seq(Updates) /\ Len(t \o w) = Len(t) + Len(w)
      /\ \A i \in 1..(Len(t) + Len(w)) :
            (t \o w)[i] = IF i <= Len(t) THEN t[i] ELSE w[i - Len(t)]
  BY <1>4, ConcatProperties
<1> DEFINE tw == t \o w
<1> HIDE DEF tw
<1>7. \A i \in 1..Len(s) : s[i] = tw[i]
  <2> TAKE i \in 1..Len(s)
  <2>1. s[i] = dw[(n + i) - 1] /\ (n + i) - 1 \in 1..(l + Len(w)) /\ i \in 1..(Len(t) + Len(w))
    BY <1>1, <1>2, <1>3, <1>5
  <2>2. CASE i <= k
    <3>1. (n + i) - 1 <= l /\ i \in 1..((l - n) + 1)
      BY <1>1, <1>2, <2>2
    <3>2. s[i] = d[(n + i) - 1]
      BY <1>1, <2>1, <3>1
    <3>3. tw[i] = t[i] /\ t[i] = d[(n + i) - 1]
      BY <1>4, <1>5, <1>6, <2>1, <2>2, <3>1 DEF tw
    <3> QED BY <3>2, <3>3
  <2>3. CASE ~(i <= k)
    <3>1. ~((n + i) - 1 <= l) /\ ((n + i) - 1) - l = i - k
      BY <1>1, <1>2, <2>3
    <3>2. s[i] = w[i - k]
      BY <1>1, <2>1, <3>1
    <3>3. tw[i] = w[i - k]
      BY <1>5, <1>6, <2>1, <2>3 DEF tw
    <3> QED BY <3>2, <3>3
  <2> QED BY <2>2, <2>3
<1>8. s = tw
  BY <1>3, <1>5, <1>6, <1>7, SeqEqual DEF tw
<1> QED BY <1>8 DEF s, tw, dw, t, l

LEMMA WithUpdateConcat ==
  ASSUME NEW d \in Seq(Updates), NEW w \in Seq(Updates),
         NEW extra \in Seq(Extras),
         extra # <<>> => extra[1].at <= Len(d)
  PROVE  WithUpdate(d \o w, extra) = WithUpdate(d, extra) \o w
<1>1. CASE extra = <<>>
  BY <1>1 DEF WithUpdate
<1>2. CASE extra # <<>>
  <2>1. extra[1] \in Extras
    BY <1>2, FirstOf
  <2> DEFINE n == extra[1].at
             x == extra[1].update
             m == n + 1
             a == SubSeq(d, 1, n)
             z == SubSeq(d, m, Len(d))
  <2>2. n \in Nat /\ x \in Updates /\ n <= Len(d) /\ Len(d) \in Nat /\ n \in 0..Len(d)
        /\ m \in 1..(Len(d) + 1) /\ m - 1 = n
    BY <1>2, <2>1 DEF Extras
  <2> HIDE DEF n, x
  <2>3. SubSeq(d \o w, 1, n) = a
    BY <2>2, PrefixOfConcat
  <2>4. SubSeq(d \o w, m, Len(d \o w)) = z \o w
    <3> HIDE DEF m
    <3> QED BY <2>2, SuffixOfConcat
  <2>5. a \in Seq(Updates) /\ z \in Seq(Updates) /\ <<x>> \in Seq(Updates)
    <3>1. a \in Seq(Updates)
      BY <2>2, Prefix
    <3>2. m \in Int /\ Len(d) \in Int /\ \A i \in m..Len(d) : d[i] \in Updates
      BY <2>2
    <3>3. z \in Seq(Updates)
      BY <3>2, SubSeqProperties
    <3> QED BY <2>2, <3>1, <3>3
  <2>6. WithUpdate(d, extra) = (a \o <<x>>) \o z
    <3>1. WithUpdate(d, extra) = InsertAt(d, m, x)
      BY <1>2 DEF WithUpdate, n, x
    <3> HIDE DEF m
    <3> QED BY <2>2, <3>1 DEF InsertAt
  <2>7. WithUpdate(d \o w, extra) = (a \o <<x>>) \o (z \o w)
    <3>1. WithUpdate(d \o w, extra) = InsertAt(d \o w, m, x)
      BY <1>2 DEF WithUpdate, n, x
    <3>2. InsertAt(d \o w, m, x)
            = (SubSeq(d \o w, 1, m - 1) \o <<x>>) \o SubSeq(d \o w, m, Len(d \o w))
      BY DEF InsertAt
    <3> HIDE DEF m, a, z
    <3> QED BY <2>2, <2>3, <2>4, <3>1, <3>2
  <2> HIDE DEF a, z
  <2>8. a \o <<x>> \in Seq(Updates)
    BY <2>5, ConcatProperties
  <2>9. ((a \o <<x>>) \o z) \o w = (a \o <<x>>) \o (z \o w)
    <3>1. PICK s \in Seq(Updates) : s = a \o <<x>>
      BY <2>8
    <3>2. (s \o z) \o w = s \o (z \o w)
      BY ONLY s \in Seq(Updates), w \in Seq(Updates), <2>5, ConcatAssociative
    <3> QED BY ONLY <3>1, <3>2
  <2> QED BY <2>6, <2>7, <2>9
<1> QED BY <1>1, <1>2

\* Inserted at the end
LEMMA WithUpdateAtEnd ==
  ASSUME NEW d \in Seq(Updates), NEW x \in Updates
  PROVE  WithUpdate(d, <<[at |-> Len(d), update |-> x]>>) = Append(d, x)
<1> DEFINE extra == <<[at |-> Len(d), update |-> x]>>
<1>1. extra # <<>> /\ extra[1].at = Len(d) /\ extra[1].update = x /\ Len(d) \in Nat
  OBVIOUS
<1>2. WithUpdate(d, extra) = InsertAt(d, Len(d) + 1, x)
  <2> HIDE DEF extra
  <2> QED BY <1>1 DEF WithUpdate
<1>3. (Len(d) + 1) - 1 = Len(d) /\ SubSeq(d, 1, Len(d)) = d
  BY Whole
<1>4. SubSeq(d, Len(d) + 1, Len(d)) = <<>>
  <2>1. /\ SubSeq(d, Len(d) + 1, Len(d)) \in Seq(Updates)
        /\ Len(SubSeq(d, Len(d) + 1, Len(d))) = 0
    <3>1. Len(d) + 1 \in Int /\ Len(d) \in Int /\ ~(Len(d) + 1 <= Len(d))
          /\ \A i \in (Len(d) + 1)..Len(d) : d[i] \in Updates
      OBVIOUS
    <3> QED BY <3>1, SubSeqProperties
  <2> QED BY <2>1, EmptySeq
<1>5. InsertAt(d, Len(d) + 1, x) = (d \o <<x>>) \o <<>>
  BY <1>3, <1>4 DEF InsertAt
<1>6. d \o <<x>> \in Seq(Updates) /\ Append(d, x) = d \o <<x>>
  BY AppendIsConcat, ConcatProperties
<1>7. (d \o <<x>>) \o <<>> = d \o <<x>>
  BY <1>6, EmptyConcat
<1> QED BY <1>2, <1>5, <1>6, <1>7

-----------------------------------------------------------------------------
(* The steps                                                                 *)

LEMMA FiberFields ==
  ASSUME NEW f \in Fibers
  PROVE  /\ f # <<>>
         /\ f.lanes \in SUBSET UpdateLanes /\ f.state \in States
         /\ f.baseState \in States /\ f.baseQueue \in Seq(Updates)
         /\ f = QueueFiber(f.lanes, f.state, f.baseState, f.baseQueue)
<1>1. "lanes" \in DOMAIN f /\ DOMAIN <<>> = {}
  BY DEF Fibers
<1>2. f # <<>>
  BY <1>1
<1> QED BY <1>2 DEF Fibers, QueueFiber

LEMMA FiberIs ==
  ASSUME NEW lanes \in SUBSET UpdateLanes, NEW state \in States,
         NEW baseState \in States, NEW baseQueue \in Seq(Updates)
  PROVE  LET f == QueueFiber(lanes, state, baseState, baseQueue)
         IN  /\ f \in Fibers
             /\ f.lanes = lanes /\ f.state = state
             /\ f.baseState = baseState /\ f.baseQueue = baseQueue
BY DEF QueueFiber, Fibers

LEMMA RenderFields ==
  ASSUME NEW r \in Renders
  PROVE  /\ r # <<>>
         /\ r.lanes \in SUBSET UpdateLanes /\ r.phase \in {"begin", "complete", "captured"}
         /\ r.cloned \in BOOLEAN /\ r.preempted \in BOOLEAN /\ r.bailed \in BOOLEAN
         /\ r.callbacks \in Seq(UpdateIds) /\ r.extra \in Seq(Extras)
<1>1. "lanes" \in DOMAIN r /\ DOMAIN <<>> = {}
  BY DEF Renders
<1>2. r # <<>>
  BY <1>1
<1> QED BY <1>2 DEF Renders

LEMMA SharedFields ==
  ASSUME NEW s \in SharedQueues
  PROVE  /\ s.pending \in Seq(Updates) /\ s.interleaved \in Seq(Updates)
         /\ s.lastRenderedState \in States
         /\ s.pending \o s.interleaved \in Seq(Updates)
BY DEF SharedQueues

LEMMA EagersAppend ==
  ASSUME NEW U \in Seq(Updates), NEW u \in Updates, EagersRight(U),
         Eager(u) => u.eager[1] = Reduce(Result(<<>>, U), u)
  PROVE  EagersRight(Append(U, u))
<1> DEFINE V == Append(U, u)
<1>1. /\ V \in Seq(Updates) /\ Len(V) = Len(U) + 1 /\ V[Len(U) + 1] = u /\ Len(U) \in Nat
      /\ \A i \in 1..Len(U) : V[i] = U[i]
  BY AppendProperties
<1>2. V = U \o <<u>> /\ <<u>> \in Seq(Updates)
  BY AppendIsConcat
<1> HIDE DEF V
<1>3. ASSUME NEW i \in 1..Len(V), Eager(V[i])
      PROVE  V[i].eager[1] = Reduce(Result(<<>>, SubSeq(V, 1, i - 1)), V[i])
  <2>1. i - 1 \in 0..Len(U)
    BY <1>1
  <2>2. SubSeq(V, 1, i - 1) = SubSeq(U, 1, i - 1)
    BY <1>2, <2>1, PrefixOfConcat
  <2>3. CASE i \in 1..Len(U)
    <3>1. V[i] = U[i] /\ Eager(U[i])
      BY <1>1, <1>3, <2>3
    <3>2. U[i].eager[1] = Reduce(Result(<<>>, SubSeq(U, 1, i - 1)), U[i])
      BY <2>3, <3>1 DEF EagersRight
    <3> QED BY <2>2, <3>1, <3>2
  <2>4. CASE i \notin 1..Len(U)
    <3>1. i = Len(U) + 1 /\ i - 1 = Len(U)
      BY <1>1, <2>4
    <3>2. V[i] = u /\ SubSeq(U, 1, i - 1) = U
      BY <1>1, <3>1, Whole
    <3> QED BY <1>3, <2>2, <3>2
  <2> QED BY <2>3, <2>4
<1>4. EagersRight(V)
  BY <1>3 DEF EagersRight
<1> QED BY <1>4 DEF V

LEMMA HasEagerAppend ==
  ASSUME NEW U \in Seq(Updates), NEW u \in Updates
  PROVE  HasEager(Append(U, u)) <=> HasEager(U) \/ Eager(u)
<1> DEFINE V == Append(U, u)
<1>1. /\ V \in Seq(Updates) /\ Len(V) = Len(U) + 1 /\ V[Len(U) + 1] = u /\ Len(U) \in Nat
      /\ \A i \in 1..Len(U) : V[i] = U[i]
  BY AppendProperties
<1> HIDE DEF V
<1>2. HasEager(V) <=> HasEager(U) \/ Eager(u)
  <2>1. ASSUME NEW i \in 1..Len(V), Eager(V[i])
        PROVE  HasEager(U) \/ Eager(u)
    <3>1. i \in 1..Len(U) \/ i = Len(U) + 1
      BY <1>1
    <3> QED BY <1>1, <2>1, <3>1 DEF HasEager
  <2>2. HasEager(U) => HasEager(V)
    <3> SUFFICES ASSUME NEW i \in 1..Len(U), Eager(U[i])
                 PROVE  HasEager(V)
      BY DEF HasEager
    <3>1. i \in 1..Len(V) /\ V[i] = U[i]
      BY <1>1
    <3> QED BY <3>1 DEF HasEager
  <2>3. Eager(u) => HasEager(V)
    <3>1. Len(U) + 1 \in 1..Len(V)
      BY <1>1
    <3> QED BY <1>1, <3>1 DEF HasEager
  <2> QED BY <2>1, <2>2, <2>3 DEF HasEager
<1> QED BY <1>2 DEF V

LEMMA ReduceIgnoresEager ==
  ASSUME NEW s, NEW u, NEW v, u.id = v.id, u.action = v.action
  PROVE  Reduce(s, u) = Reduce(s, v)
BY DEF Reduce

LEMMA NewUpdateIs ==
  ASSUME QueueTypeOK, NextId \in UpdateIds,
         NEW lane \in UpdateLanes, NEW action \in UpdateActions
  PROVE  /\ NewUpdate(lane, action) \in Updates
         /\ NewUpdate(lane, action).lane = lane
         /\ NewUpdate(lane, action).id = NextId
         /\ Eager(NewUpdate(lane, action)) =>
              /\ CanComputeEagerly
              /\ NewUpdate(lane, action).eager[1] =
                   Reduce(shared.lastRenderedState, NewUpdate(lane, action))
<1> DEFINE u == [id |-> NextId, lane |-> lane, action |-> action, eager |-> <<>>]
           s == Reduce(shared.lastRenderedState, u)
           v == [id |-> NextId, lane |-> lane, action |-> action, eager |-> <<s>>]
<1>1. action \in {"append", "reset", "same"} /\ <<>> \in Seq(States)
  BY QueueAssumption
<1>2. u \in Updates
  BY <1>1 DEF Updates
<1>3. s \in States
  <2>1. shared.lastRenderedState \in States
    BY SharedFields DEF QueueTypeOK
  <2> HIDE DEF u
  <2> QED BY <1>2, <2>1, ReduceType
<1>4. v \in Updates
  <2>1. <<s>> \in Seq(States)
    BY <1>3
  <2> HIDE DEF s
  <2> QED BY <1>1, <2>1 DEF Updates
<1>5. NewUpdate(lane, action) = IF CanComputeEagerly THEN v ELSE u
  BY DEF NewUpdate
<1>6. v.id = u.id /\ v.action = u.action /\ v.eager[1] = s /\ v.lane = lane /\ v.id = NextId
  OBVIOUS
<1>7. Reduce(shared.lastRenderedState, v) = s
  <2> HIDE DEF u, v
  <2> QED BY <1>6, ReduceIgnoresEager
<1>8. u.lane = lane /\ u.id = NextId /\ ~Eager(u)
  BY DEF Eager
<1> HIDE DEF u, v
<1>9. CASE CanComputeEagerly
  BY <1>4, <1>5, <1>6, <1>7, <1>9
<1>10. CASE ~CanComputeEagerly
  BY <1>2, <1>5, <1>8, <1>10
<1> QED BY <1>9, <1>10

LEMMA ConcatUpdates ==
  ASSUME NEW U \in Seq(Updates), NEW r \in Seq(Updates)
  PROVE  /\ U \o r \in Seq(Updates) /\ Len(U \o r) = Len(U) + Len(r)
         /\ Len(U) \in Nat /\ Len(r) \in Nat
BY ConcatProperties

LEMMA LenNat ==
  ASSUME NEW U \in Seq(Updates)
  PROVE  Len(U) \in Nat
OBVIOUS

LEMMA ConcatGroup ==
  ASSUME NEW d \in Seq(Updates), NEW p \in Seq(Updates), NEW r \in Seq(Updates)
  PROVE  d \o (p \o r) = (d \o p) \o r
BY ConcatAssociative

LEMMA Sums ==
  ASSUME NEW a \in Nat, NEW b \in Nat, NEW n \in Nat
  PROVE  /\ a + b \in Nat
         /\ a + b <= n => /\ b <= n /\ 0 + b <= n /\ (a + b) + 0 <= n
                         /\ a + (b + 1) <= n + 1 /\ n - b \in Nat
         /\ n = a + b => n - b = a /\ a <= n
         /\ a <= n => a + b <= n + b
         /\ a + b = 0 => a = 0
         /\ n + 1 + (a - n) = a + 1
OBVIOUS

LEMMA Sums3 ==
  ASSUME NEW a \in Nat, NEW b \in Nat, NEW c \in Nat, NEW n \in Nat, n = a + (b + c)
  PROVE  n - b - c = a /\ a <= n
OBVIOUS

LEMMA Below ==
  ASSUME NEW a \in Nat, NEW n \in Nat, NEW m \in Nat, a <= n, n <= m
  PROVE  a <= m
OBVIOUS

SameQueue(f, g) ==
  f.state = g.state /\ f.baseState = g.baseState /\ f.baseQueue = g.baseQueue

SameWork(r, s) ==
  /\ r.lanes = s.lanes /\ r.phase = s.phase /\ r.cloned = s.cloned
  /\ r.bailed = s.bailed /\ r.callbacks = s.callbacks /\ r.extra = s.extra

LEMMA MarkLaneIs ==
  ASSUME NEW f \in Fibers \cup {<<>>}, NEW lane \in UpdateLanes
  PROVE  /\ MarkLane(f, lane) \in Fibers \cup {<<>>}
         /\ f = <<>> => MarkLane(f, lane) = <<>>
         /\ f # <<>> => /\ MarkLane(f, lane) \in Fibers /\ MarkLane(f, lane) # <<>>
                        /\ MarkLane(f, lane).lanes = f.lanes \cup {lane}
                        /\ SameQueue(MarkLane(f, lane), f)
<1>1. CASE f = <<>>
  BY <1>1 DEF MarkLane
<1>2. CASE f # <<>>
  <2>1. f \in Fibers
    BY <1>2
  <2>2. MarkLane(f, lane) = [f EXCEPT !.lanes = f.lanes \cup {lane}]
    BY <1>2 DEF MarkLane
  <2>3. MarkLane(f, lane) \in Fibers
    BY <2>1, <2>2 DEF Fibers
  <2>4. MarkLane(f, lane).lanes = f.lanes \cup {lane} /\ SameQueue(MarkLane(f, lane), f)
    BY <2>1, <2>2 DEF Fibers, SameQueue
  <2> QED BY <1>2, <2>3, <2>4, FiberFields
<1> QED BY <1>1, <1>2

\* What an update does to both fibers and the render
Marked(u, bailsOut) ==
  /\ SameQueue(currentFiber', currentFiber)
  /\ alternateFiber = <<>> <=> alternateFiber' = <<>>
  /\ alternateFiber # <<>> => SameQueue(alternateFiber', alternateFiber)
  /\ rendering = <<>> <=> rendering' = <<>>
  /\ rendering # <<>> => SameWork(rendering', rendering)
  /\ bailsOut => UNCHANGED <<currentFiber, alternateFiber, rootLanes>>
  /\ ~bailsOut =>
       /\ rootLanes' = rootLanes \cup {u.lane}
       /\ currentFiber'.lanes = currentFiber.lanes \cup {u.lane}
       /\ alternateFiber # <<>> => alternateFiber'.lanes = alternateFiber.lanes \cup {u.lane}

BailsOut(u) == Eager(u) /\ u.eager[1] = shared.lastRenderedState

LEMMA DispatchMarks ==
  ASSUME IInv, NEW lane \in UpdateLanes, NEW action \in UpdateActions,
         Dispatch(lane, action)
  PROVE  /\ QueueTypeOK'
         /\ Marked(NewUpdate(lane, action), BailsOut(NewUpdate(lane, action)))
         /\ NextId \in UpdateIds
         /\ inserted' = Append(inserted, NewUpdate(lane, action))
         /\ shared'.pending = shared.pending
         /\ shared'.interleaved = Append(shared.interleaved, NewUpdate(lane, action))
         /\ shared'.lastRenderedState = shared.lastRenderedState
<1> DEFINE u == NewUpdate(lane, action)
           bailsOut == BailsOut(u)
<1>1. QueueTypeOK /\ NextId \in UpdateIds
  BY DEF IInv, Dispatch
<1>2. u \in Updates /\ u.lane = lane
  BY <1>1, NewUpdateIs
<1>3. /\ inserted' = Append(inserted, u)
      /\ called' = [called EXCEPT ![NextId] = 0]
      /\ shared' = [shared EXCEPT !.interleaved = Append(shared.interleaved, u)]
      /\ surprises' = IF Eager(u) /\ shared.lastRenderedState # currentFiber.state
                      THEN surprises \cup {"staleEager"} ELSE surprises
      /\ kind' = kind
  BY DEF Dispatch
<1>4. bailsOut => UNCHANGED <<currentFiber, alternateFiber, rootLanes, rendering>>
  BY DEF Dispatch, BailsOut
<1>5. ~bailsOut =>
        /\ currentFiber' = MarkLane(currentFiber, lane)
        /\ alternateFiber' = MarkLane(alternateFiber, lane)
        /\ rootLanes' = rootLanes \cup {lane}
        /\ rendering' = IF rendering = <<>> THEN rendering
                        ELSE [rendering EXCEPT !.preempted =
                                rendering.preempted \/ \A l \in rendering.lanes : lane < l]
  BY DEF Dispatch, BailsOut
<1> HIDE DEF u, bailsOut
<1>6. /\ shared' \in SharedQueues
      /\ shared'.pending = shared.pending /\ shared'.interleaved = Append(shared.interleaved, u)
      /\ shared'.lastRenderedState = shared.lastRenderedState
  <2>1. shared \in SharedQueues
    BY <1>1 DEF QueueTypeOK
  <2>2. Append(shared.interleaved, u) \in Seq(Updates)
    BY <1>2, <2>1, SharedFields
  <2> QED BY <1>3, <2>1, <2>2 DEF SharedQueues
<1>7. currentFiber \in Fibers /\ alternateFiber \in Fibers \cup {<<>>}
      /\ rendering \in Renders \cup {<<>>} /\ rootLanes \in SUBSET UpdateLanes
  BY <1>1 DEF QueueTypeOK
<1>8. currentFiber # <<>>
  BY <1>7, FiberFields
<1>9. /\ rendering' \in Renders \cup {<<>>}
      /\ rendering = <<>> <=> rendering' = <<>>
      /\ rendering # <<>> => SameWork(rendering', rendering)
  <2>1. CASE bailsOut
    BY <1>4, <1>7, <2>1 DEF SameWork
  <2>2. CASE ~bailsOut /\ rendering = <<>>
    BY <1>5, <2>2
  <2>3. CASE ~bailsOut /\ rendering # <<>>
    <3> DEFINE preempted == rendering.preempted \/ \A l \in rendering.lanes : lane < l
    <3>1. rendering \in Renders /\ rendering' = [rendering EXCEPT !.preempted = preempted]
      BY <1>5, <1>7, <2>3
    <3>2. preempted \in BOOLEAN
      BY <3>1 DEF Renders
    <3> HIDE DEF preempted
    <3>3. rendering' \in Renders /\ SameWork(rendering', rendering)
      BY <3>1, <3>2 DEF Renders, SameWork
    <3> QED BY <2>3, <3>3, RenderFields
  <2> QED BY <2>1, <2>2, <2>3
<1>10. /\ currentFiber' \in Fibers /\ alternateFiber' \in Fibers \cup {<<>>}
       /\ rootLanes' \in SUBSET UpdateLanes
       /\ SameQueue(currentFiber', currentFiber)
       /\ alternateFiber = <<>> <=> alternateFiber' = <<>>
       /\ alternateFiber # <<>> => SameQueue(alternateFiber', alternateFiber)
  <2>1. CASE bailsOut
    BY <1>4, <1>7, <2>1 DEF SameQueue
  <2>2. CASE ~bailsOut
    BY <1>5, <1>7, <1>8, <2>2, MarkLaneIs
  <2> QED BY <2>1, <2>2
<1>11. Marked(u, bailsOut)
  <2>1. ~bailsOut =>
          /\ rootLanes' = rootLanes \cup {u.lane}
          /\ currentFiber'.lanes = currentFiber.lanes \cup {u.lane}
          /\ alternateFiber # <<>> => alternateFiber'.lanes = alternateFiber.lanes \cup {u.lane}
    BY <1>2, <1>5, <1>7, <1>8, MarkLaneIs
  <2> QED BY <1>4, <1>9, <1>10, <2>1 DEF Marked
<1>12. QueueTypeOK'
  <2>1. inserted' \in Seq(Updates)
    BY <1>1, <1>2, <1>3 DEF QueueTypeOK
  <2>2. /\ called' \in [UpdateIds -> Int] /\ surprises' \subseteq Surprises
        /\ kind' \in {"class", "hook"}
    BY <1>1, <1>3 DEF QueueTypeOK, Surprises
  <2> QED BY <1>6, <1>9, <1>10, <2>1, <2>2 DEF QueueTypeOK
<1> QED BY <1>1, <1>3, <1>6, <1>11, <1>12 DEF u, bailsOut

LEMMA DispatchKeeps ==
  ASSUME IInv, NEW lane \in UpdateLanes, NEW action \in UpdateActions,
         Dispatch(lane, action)
  PROVE  IInv'
<1>1. PICK u : u = NewUpdate(lane, action)
  OBVIOUS
<1>2. /\ QueueTypeOK' /\ Marked(u, BailsOut(u))
      /\ inserted' = Append(inserted, u)
      /\ shared'.pending = shared.pending
      /\ shared'.interleaved = Append(shared.interleaved, u)
      /\ shared'.lastRenderedState = shared.lastRenderedState
  BY <1>1, DispatchMarks
<1>3. /\ u \in Updates /\ u.lane = lane
      /\ Eager(u) => CanComputeEagerly /\ u.eager[1] = Reduce(shared.lastRenderedState, u)
  BY <1>1, DispatchMarks, NewUpdateIs DEF IInv
<1>4. /\ surprises' = IF Eager(u) /\ shared.lastRenderedState # currentFiber.state
                      THEN surprises \cup {"staleEager"} ELSE surprises
      /\ kind' = kind
  BY <1>1 DEF Dispatch
<1>5. kind = "class" => ~Eager(u)
  BY <1>3 DEF CanComputeEagerly
<1>6. ShapeInv'
  <2>1. /\ inserted \in Seq(Updates) /\ shared.interleaved \in Seq(Updates)
        /\ shared.pending \in Seq(Updates)
    BY SharedFields DEF IInv, QueueTypeOK
  <2>2. /\ Len(inserted') = Len(inserted) + 1
        /\ Len(shared'.interleaved) = Len(shared.interleaved) + 1
        /\ Len(shared'.pending) = Len(shared.pending)
        /\ Len(inserted) \in Nat /\ Len(shared.pending) \in Nat
        /\ Len(shared.interleaved) \in Nat
    BY <1>2, <1>3, <2>1, AppendProperties
  <2>3. kind' = "class" => surprises' = {} /\ (rendering' # <<>> => ~rendering'.bailed)
    BY <1>2, <1>4, <1>5 DEF IInv, ShapeInv, Marked, SameWork
  <2>4. Len(shared'.pending) + Len(shared'.interleaved) <= Len(inserted')
    <3>1. Len(shared.pending) + Len(shared.interleaved) <= Len(inserted)
      BY DEF IInv, ShapeInv
    <3>2. Len(shared.pending) + (Len(shared.interleaved) + 1) <= Len(inserted) + 1
      BY <2>2, <3>1, Sums
    <3> QED BY <2>2, <3>2
  <2>5. ASSUME rendering' # <<>>
        PROVE  /\ rendering'.phase = "captured" => kind' = "class"
               /\ rendering'.cloned => alternateFiber' # <<>>
               /\ rendering'.extra # <<>> => rendering'.extra[1].at <= Len(inserted')
    <3>1. rendering # <<>> /\ SameWork(rendering', rendering)
      BY <1>2, <2>5 DEF Marked
    <3>2. rendering'.phase = "captured" => kind' = "class"
      BY <1>4, <3>1 DEF IInv, ShapeInv, SameWork
    <3>3. rendering'.cloned => alternateFiber' # <<>>
      BY <1>2, <3>1 DEF IInv, ShapeInv, SameWork, Marked
    <3>4. ASSUME rendering'.extra # <<>>
          PROVE  rendering'.extra[1].at <= Len(inserted')
      <4>1. rendering.extra = rendering'.extra /\ rendering.extra # <<>>
        BY <3>1, <3>4 DEF SameWork
      <4>2. rendering.extra[1].at \in Nat
        <5>1. rendering.extra \in Seq(Extras)
          BY <3>1, RenderFields DEF IInv, QueueTypeOK
        <5> QED BY <4>1, <5>1, FirstOf DEF Extras
      <4>3. rendering.extra[1].at <= Len(inserted)
        BY <3>1, <4>1 DEF IInv, ShapeInv
      <4> QED BY <2>2, <4>1, <4>2, <4>3
    <3> QED BY <3>2, <3>3, <3>4
  <2> QED BY <2>3, <2>4, <2>5 DEF ShapeInv
<1>7. ASSUME Clean'
      PROVE  BaseInv' /\ RenderInv' /\ (kind' = "hook" => ScreenInv' /\ WorkInv')
  <2>1. Clean /\ (Eager(u) => shared.lastRenderedState = currentFiber.state)
    BY <1>4, <1>7 DEF Clean
  <2>2. /\ QueueTypeOK /\ BaseInv /\ RenderInv /\ (kind = "hook" => ScreenInv /\ WorkInv)
    BY <2>1 DEF IInv
  <2>3. /\ shared.pending \in Seq(Updates) /\ shared.interleaved \in Seq(Updates)
        /\ Waiting \in Seq(Updates) /\ inserted \in Seq(Updates)
        /\ currentFiber \in Fibers /\ shared.lastRenderedState \in States
    BY <2>2, SharedFields DEF QueueTypeOK, Waiting
  <2>4. /\ Waiting' = shared.pending \o Append(shared.interleaved, u)
        /\ Waiting' \in Seq(Updates)
    <3>1. Append(shared.interleaved, u) \in Seq(Updates)
      BY <1>3, <2>3
    <3> QED BY <1>2, <2>3, <3>1 DEF Waiting
  <2>5. inserted' = Done \o Waiting' /\ Done \in Seq(Updates)
    <3>1. inserted = Done \o Waiting /\ Done \in Seq(Updates)
      BY <2>2 DEF BaseInv
    <3>2. Append(Done \o (shared.pending \o shared.interleaved), u)
            = Done \o (shared.pending \o Append(shared.interleaved, u))
      <4>1. u \in Updates /\ Done \in Seq(Updates) /\ shared.pending \in Seq(Updates)
            /\ shared.interleaved \in Seq(Updates)
        BY <1>3, <2>3, <3>1
      <4> QED BY <4>1, AppendWaiting, Zenon
    <3>3. inserted = Done \o (shared.pending \o shared.interleaved)
      BY <3>1 DEF Waiting
    <3> QED BY <1>2, <2>4, <3>1, <3>2, <3>3
  <2>6. Done' = Done
    <3>1. SubSeq(inserted', 1, Len(inserted') - Len(Waiting')) = Done
      BY <2>4, <2>5, DoneIs
    <3> QED BY <3>1 DEF Done
  <2>7. /\ Eager(u) => /\ kind = "hook" /\ currentFiber.lanes = {}
                       /\ alternateFiber # <<>> => alternateFiber.lanes = {}
                       /\ currentFiber.state = Result(<<>>, inserted)
                       /\ u.eager[1] = Reduce(Result(<<>>, inserted), u)
    <3> SUFFICES ASSUME Eager(u)
                 PROVE  /\ kind = "hook" /\ currentFiber.lanes = {}
                        /\ alternateFiber # <<>> => alternateFiber.lanes = {}
                        /\ currentFiber.state = Result(<<>>, inserted)
                        /\ u.eager[1] = Reduce(Result(<<>>, inserted), u)
      OBVIOUS
    <3>1. kind = "hook" /\ currentFiber.lanes = {}
          /\ (alternateFiber # <<>> => alternateFiber.lanes = {})
      BY <1>3, <2>3, FiberFields DEF CanComputeEagerly, IsIdle
    <3>2. rendering # <<>> /\ rendering.bailed => alternateFiber # <<>>
      BY <2>2 DEF RenderInv, ShapeInv, IInv
    <3>3. currentFiber.state = Result(<<>>, inserted)
      BY <2>2, <3>1, <3>2 DEF ScreenInv
    <3> QED BY <1>3, <2>1, <3>1, <3>3
  <2>8. BaseInv'
    <3>1. Rebased(currentFiber'.baseState, currentFiber'.baseQueue, Done')
      BY <1>2, <2>2, <2>6 DEF BaseInv, Marked, SameQueue
    <3>2. EagersRight(inserted')
      BY <1>2, <1>3, <2>2, <2>3, <2>7, EagersAppend DEF BaseInv
    <3>3. \A i \in 1..Len(shared'.interleaved) : shared'.interleaved[i].lane # NoLane
      <4> DEFINE r == Append(shared.interleaved, u)
      <4>1. /\ Len(r) = Len(shared.interleaved) + 1 /\ r[Len(shared.interleaved) + 1] = u
            /\ \A i \in 1..Len(shared.interleaved) : r[i] = shared.interleaved[i]
            /\ Len(shared.interleaved) \in Nat
        BY <1>3, <2>3, AppendProperties
      <4> HIDE DEF r
      <4>2. u.lane # NoLane
        BY <1>3, QueueAssumption DEF NoLane
      <4>3. \A i \in 1..Len(r) : r[i].lane # NoLane
        <5>1. \A i \in 1..Len(shared.interleaved) : shared.interleaved[i].lane # NoLane
          BY <2>2 DEF BaseInv
        <5>2. \A i \in 1..Len(r) :
                i \in 1..Len(shared.interleaved) \/ i = Len(shared.interleaved) + 1
          BY <4>1
        <5> QED BY ONLY <4>1, <4>2, <5>1, <5>2, Zenon
      <4> QED BY <1>2, <4>3 DEF r
    <3>4. kind' = "class" => ~HasEager(inserted')
      BY <1>2, <1>3, <1>4, <1>5, <2>2, <2>3, HasEagerAppend DEF BaseInv
    <3> QED BY <2>5, <2>6, <3>1, <3>2, <3>3, <3>4 DEF BaseInv
  <2>9. RenderInv'
    <3> SUFFICES ASSUME rendering' # <<>>
                 PROVE  RenderInv'
      BY DEF RenderInv
    <3>1. rendering # <<>> /\ SameWork(rendering', rendering)
      BY <1>2 DEF Marked
    <3>2. ExtraInv'
      BY <1>2, <1>4, <2>2, <2>6, <3>1 DEF RenderInv, ExtraInv, SameWork
    <3>3. rendering.cloned =>
            /\ alternateFiber # <<>> /\ alternateFiber' # <<>>
            /\ SameQueue(alternateFiber', alternateFiber)
      BY <1>2, <2>2, <3>1 DEF IInv, ShapeInv, Marked
    <3> QED BY <1>4, <2>2, <2>6, <3>1, <3>2, <3>3 DEF RenderInv, SameWork, SameQueue
  <2>10. ASSUME kind' = "hook"
         PROVE  ScreenInv' /\ WorkInv'
    <3>1. ScreenInv /\ WorkInv
      BY <1>4, <2>2, <2>10
    <3>2. Result(<<>>, inserted') = Reduce(Result(<<>>, inserted), u)
      BY <1>2, <1>3, <2>3, NoState, ResultAppend
    <3>3. CASE BailsOut(u)
      <4>1. UNCHANGED <<currentFiber, alternateFiber, rootLanes>>
        BY <1>2, <3>3 DEF Marked
      <4>2. /\ Eager(u) /\ currentFiber.state = Result(<<>>, inserted)
            /\ Result(<<>>, inserted') = currentFiber.state
        BY <2>1, <2>7, <3>2, <3>3 DEF BailsOut
      <4>3. ScreenInv'
        BY <1>2, <3>1, <4>1, <4>2 DEF ScreenInv, Marked, SameWork
      <4>4. WorkInv'
        <5> SUFFICES ASSUME rendering' # <<>>, rendering'.cloned
                     PROVE  WorkInv'
          BY DEF WorkInv
        <5>1. rendering # <<>> /\ rendering.cloned /\ rendering'.extra = rendering.extra
          BY <1>2 DEF Marked, SameWork
        <5>2. HasEager(shared'.interleaved)
          BY <1>2, <1>3, <2>3, <4>2, HasEagerAppend
        <5>3. rendering.extra = <<>> /\ alternateFiber.lanes = {} =>
                alternateFiber.state = Result(<<>>, inserted)
          BY <3>1, <5>1 DEF WorkInv, WithUpdate
        <5> QED BY <3>1, <4>1, <4>2, <5>1, <5>2, <5>3 DEF WorkInv, WithUpdate
      <4> QED BY <4>3, <4>4
    <3>4. CASE ~BailsOut(u)
      <4>1. /\ rootLanes' = rootLanes \cup {lane}
            /\ currentFiber'.lanes = currentFiber.lanes \cup {lane}
            /\ alternateFiber # <<>> => alternateFiber'.lanes = alternateFiber.lanes \cup {lane}
        BY <1>2, <1>3, <3>4 DEF Marked
      <4>2. ScreenInv'
        BY <1>2, <3>1, <4>1 DEF ScreenInv, Marked, SameQueue, SameWork
      <4>3. WorkInv'
        <5> SUFFICES ASSUME rendering' # <<>>, rendering'.cloned
                     PROVE  WorkInv'
          BY DEF WorkInv
        <5>1. rendering # <<>> /\ rendering.cloned /\ alternateFiber # <<>>
          BY <1>2, <2>2 DEF Marked, SameWork, IInv, ShapeInv
        <5>2. alternateFiber'.lanes # {} /\ SameQueue(alternateFiber', alternateFiber)
          BY <1>2, <4>1, <5>1 DEF Marked
        <5> QED BY <3>1, <5>1, <5>2 DEF WorkInv, SameQueue
      <4> QED BY <4>2, <4>3
    <3> QED BY <3>3, <3>4
  <2> QED BY <2>8, <2>9, <2>10
<1> QED BY <1>2, <1>6, <1>7 DEF IInv

\* What the invariant gives in a clean state
LEMMA CleanFacts ==
  ASSUME IInv, Clean
  PROVE  /\ QueueTypeOK /\ ShapeInv /\ BaseInv /\ RenderInv
         /\ kind = "hook" => ScreenInv /\ WorkInv
         /\ Done \in Seq(Updates) /\ Waiting \in Seq(Updates)
         /\ shared.pending \in Seq(Updates) /\ shared.interleaved \in Seq(Updates)
         /\ inserted \in Seq(Updates) /\ currentFiber \in Fibers
         /\ inserted = Done \o (shared.pending \o shared.interleaved)
<1>1. QueueTypeOK /\ ShapeInv /\ BaseInv /\ RenderInv /\ (kind = "hook" => ScreenInv /\ WorkInv)
  BY DEF IInv
<1>2. shared.pending \in Seq(Updates) /\ shared.interleaved \in Seq(Updates)
      /\ Waiting \in Seq(Updates)
  BY <1>1, SharedFields DEF QueueTypeOK, Waiting
<1> QED BY <1>1, <1>2 DEF BaseInv, QueueTypeOK, Waiting

\* Done is what is inserted before the updates that wait
LEMMA DoneIn ==
  ASSUME NEW d \in Seq(Updates), Waiting \in Seq(Updates), inserted = d \o Waiting
  PROVE  Done = d
BY DoneIs DEF Done

LEMMA StaleType ==
  ASSUME NEW f, f.lanes \in SUBSET UpdateLanes \/ f = <<>>
  PROVE  Stale(f) \in Fibers \cup {<<>>}
<1>1. CASE f = <<>>
  BY <1>1 DEF Stale
<1>2. CASE f # <<>>
  <2>1. f.lanes \in SUBSET UpdateLanes /\ <<>> \in Seq(Updates) /\ <<>> \in States
    BY <1>2, NoState
  <2>2. QueueFiber(f.lanes, <<>>, <<>>, <<>>) \in Fibers
    BY <2>1, FiberIs
  <2> QED BY <1>2, <2>2 DEF Stale
<1> QED BY <1>1, <1>2

LEMMA PrepareKeeps ==
  ASSUME IInv, NEW lanes \in SUBSET UpdateLanes, PrepareRender(lanes)
  PROVE  IInv'
<1>1. /\ rendering' = [lanes |-> lanes, phase |-> "begin", cloned |-> FALSE,
                       preempted |-> FALSE, bailed |-> FALSE, callbacks |-> <<>>,
                       extra |-> <<>>]
      /\ shared' = [shared EXCEPT !.pending = shared.pending \o shared.interleaved,
                                  !.interleaved = <<>>]
      /\ surprises' = IF rendering # <<>> /\ rendering.bailed
                      THEN surprises \cup {"droppedBailout"} ELSE surprises
      /\ alternateFiber' = Stale(alternateFiber)
      /\ UNCHANGED <<kind, currentFiber, rootLanes, inserted, called>>
  BY DEF PrepareRender
<1>2. QueueTypeOK
  BY DEF IInv
<1>3. shared \in SharedQueues /\ alternateFiber \in Fibers \cup {<<>>}
      /\ <<>> \in Seq(UpdateIds) /\ <<>> \in Seq(Extras) /\ <<>> \in Seq(Updates)
  BY <1>2 DEF QueueTypeOK
<1>4. /\ rendering' \in Renders /\ rendering' # <<>>
      /\ rendering'.phase = "begin" /\ ~rendering'.cloned /\ ~rendering'.bailed
      /\ rendering'.extra = <<>>
  <2>1. rendering' \in Renders
    BY <1>1, <1>3 DEF Renders
  <2> QED BY <1>1, <2>1, RenderFields
<1>5. /\ shared' \in SharedQueues /\ shared'.interleaved = <<>>
      /\ shared'.pending = shared.pending \o shared.interleaved
  <2>1. shared.pending \o shared.interleaved \in Seq(Updates)
    BY <1>3, SharedFields
  <2> QED BY <1>1, <1>3, <2>1 DEF SharedQueues
<1>6. alternateFiber' \in Fibers \cup {<<>>}
  <2>1. alternateFiber # <<>> => alternateFiber.lanes \in SUBSET UpdateLanes
    BY <1>3, FiberFields
  <2> QED BY <1>1, <2>1, StaleType
<1>7. QueueTypeOK'
  BY <1>1, <1>2, <1>4, <1>5, <1>6 DEF QueueTypeOK, Surprises
<1>8. ShapeInv'
  <2>1. shared.pending \in Seq(Updates) /\ shared.interleaved \in Seq(Updates)
    BY <1>3, SharedFields
  <2>2. Len(shared'.pending) = Len(shared.pending) + Len(shared.interleaved)
        /\ Len(shared'.interleaved) = 0 /\ Len(shared.pending) \in Nat
        /\ Len(shared.interleaved) \in Nat
    BY <1>5, <2>1, ConcatUpdates
  <2>3. Len(shared'.pending) + Len(shared'.interleaved) <= Len(inserted')
    <3>1. Len(shared.pending) + Len(shared.interleaved) <= Len(inserted)
          /\ Len(inserted) \in Nat
      <4>1. inserted \in Seq(Updates)
        BY <1>2 DEF QueueTypeOK
      <4>2. Len(inserted) \in Nat
        BY <4>1, LenNat
      <4> QED BY <4>2 DEF IInv, ShapeInv
    <3>2. (Len(shared.pending) + Len(shared.interleaved)) + 0 <= Len(inserted)
      BY <2>2, <3>1, Sums
    <3> QED BY <1>1, <2>2, <3>2
  <2> QED BY <1>1, <1>4, <2>3 DEF IInv, ShapeInv
<1>9. ASSUME Clean'
      PROVE  BaseInv' /\ RenderInv' /\ (kind' = "hook" => ScreenInv' /\ WorkInv')
  <2>1. Clean /\ (rendering # <<>> => ~rendering.bailed)
    BY <1>1, <1>9 DEF Clean
  <2>2. /\ BaseInv /\ (kind = "hook" => ScreenInv) /\ Done \in Seq(Updates)
        /\ Waiting \in Seq(Updates) /\ inserted = Done \o Waiting
    BY <2>1, CleanFacts DEF BaseInv
  <2>3. Waiting' = Waiting
    <3>1. Waiting \o <<>> = Waiting
      BY <2>2, EmptyConcat
    <3> QED BY <1>5, <3>1 DEF Waiting
  <2>4. Done' = Done
    BY <1>1, <2>3 DEF Done
  <2>5. 1..Len(shared'.interleaved) = {}
    BY <1>5
  <2>6. BaseInv'
    BY <1>1, <2>2, <2>3, <2>4, <2>5 DEF BaseInv
  <2>7. RenderInv'
    BY <1>4 DEF RenderInv, ExtraInv
  <2>8. kind' = "hook" => ScreenInv'
    BY <1>1, <1>4, <2>1, <2>2 DEF ScreenInv
  <2>9. WorkInv'
    BY <1>4 DEF WorkInv
  <2> QED BY <2>6, <2>7, <2>8, <2>9
<1> QED BY <1>7, <1>8, <1>9 DEF IInv

LEMMA NotReachedKeeps ==
  ASSUME IInv, NotReached
  PROVE  IInv'
<1>1. /\ rendering # <<>> /\ rendering.phase = "begin"
      /\ rendering' = [rendering EXCEPT !.phase = "complete"]
      /\ UNCHANGED <<kind, currentFiber, alternateFiber, shared, rootLanes, inserted, called,
                     surprises>>
  BY DEF NotReached, InPhase
<1>2. QueueTypeOK /\ rendering \in Renders
  BY <1>1 DEF IInv, QueueTypeOK
<1>3. /\ rendering' \in Renders /\ rendering' # <<>> /\ rendering'.phase = "complete"
      /\ rendering'.cloned = rendering.cloned /\ rendering'.bailed = rendering.bailed
      /\ rendering'.extra = rendering.extra
  <2>1. rendering' \in Renders /\ rendering'.phase = "complete"
        /\ rendering'.cloned = rendering.cloned /\ rendering'.bailed = rendering.bailed
        /\ rendering'.extra = rendering.extra
    BY <1>1, <1>2 DEF Renders
  <2> QED BY <2>1, RenderFields
<1>4. QueueTypeOK'
  BY <1>1, <1>2, <1>3 DEF QueueTypeOK
<1>5. ShapeInv'
  BY <1>1, <1>3 DEF IInv, ShapeInv
<1>6. ASSUME Clean'
      PROVE  BaseInv' /\ RenderInv' /\ (kind' = "hook" => ScreenInv' /\ WorkInv')
  <2>1. BaseInv /\ RenderInv /\ (kind = "hook" => ScreenInv /\ WorkInv)
    BY <1>1, <1>6, CleanFacts DEF Clean
  <2>2. Waiting' = Waiting /\ Done' = Done
    BY <1>1 DEF Waiting, Done
  <2>3. BaseInv'
    BY <1>1, <2>1, <2>2 DEF BaseInv
  <2>4. RenderInv'
    BY <1>1, <1>3, <2>1, <2>2 DEF RenderInv, ExtraInv
  <2>5. kind' = "hook" => ScreenInv' /\ WorkInv'
    BY <1>1, <1>3, <2>1 DEF ScreenInv, WorkInv
  <2> QED BY <2>3, <2>4, <2>5
<1> QED BY <1>4, <1>5, <1>6 DEF IInv

LEMMA BailOutKeeps ==
  ASSUME IInv, BailOutOfFiber
  PROVE  IInv'
<1>1. /\ rendering # <<>> /\ rendering.phase = "begin"
      /\ alternateFiber' = currentFiber
      /\ rendering' = [rendering EXCEPT !.phase = "complete", !.cloned = TRUE]
      /\ UNCHANGED <<kind, currentFiber, shared, rootLanes, inserted, called, surprises>>
  BY DEF BailOutOfFiber, InPhase
<1>2. QueueTypeOK /\ rendering \in Renders /\ currentFiber \in Fibers
  BY <1>1 DEF IInv, QueueTypeOK
<1>3. /\ rendering' \in Renders /\ rendering' # <<>> /\ rendering'.phase = "complete"
      /\ rendering'.cloned /\ rendering'.bailed = rendering.bailed
      /\ rendering'.extra = rendering.extra
  <2>1. rendering' \in Renders /\ rendering'.phase = "complete"
        /\ rendering'.cloned /\ rendering'.bailed = rendering.bailed
        /\ rendering'.extra = rendering.extra
    BY <1>1, <1>2 DEF Renders
  <2> QED BY <2>1, RenderFields
<1>4. QueueTypeOK'
  BY <1>1, <1>2, <1>3 DEF QueueTypeOK
<1>5. ShapeInv'
  <2>1. alternateFiber' # <<>>
    BY <1>1, <1>2, FiberFields
  <2> QED BY <1>1, <1>3, <2>1 DEF IInv, ShapeInv
<1>6. ASSUME Clean'
      PROVE  BaseInv' /\ RenderInv' /\ (kind' = "hook" => ScreenInv' /\ WorkInv')
  <2>1. BaseInv /\ RenderInv /\ (kind = "hook" => ScreenInv /\ WorkInv)
    BY <1>1, <1>6, CleanFacts DEF Clean
  <2>2. Waiting' = Waiting /\ Done' = Done
    BY <1>1 DEF Waiting, Done
  <2>3. rendering.extra = <<>> /\ ~rendering.bailed /\ ~rendering.cloned
    BY <1>1, <2>1 DEF RenderInv
  <2>4. BaseInv'
    BY <1>1, <2>1, <2>2 DEF BaseInv
  <2>5. RenderInv'
    <3>1. alternateFiber' # <<>>
      BY <1>1, <1>2, FiberFields
    <3>2. Rebased(alternateFiber'.baseState, alternateFiber'.baseQueue,
                  WithUpdate(Done', rendering'.extra))
      BY <1>1, <1>3, <2>1, <2>2, <2>3 DEF BaseInv, WithUpdate
    <3> QED BY <1>3, <2>3, <3>1, <3>2 DEF RenderInv, ExtraInv
  <2>6. kind' = "hook" => ScreenInv' /\ WorkInv'
    <3> SUFFICES ASSUME kind' = "hook"
                 PROVE  ScreenInv' /\ WorkInv'
      OBVIOUS
    <3>1. ScreenInv
      BY <1>1, <2>1
    <3>2. ScreenInv'
      BY <1>1, <1>3, <2>3, <3>1 DEF ScreenInv
    <3>3. WorkInv'
      BY <1>1, <1>3, <2>3, <3>1 DEF ScreenInv, WorkInv, WithUpdate
    <3> QED BY <3>2, <3>3
  <2> QED BY <2>4, <2>5, <2>6
<1> QED BY <1>4, <1>5, <1>6 DEF IInv

\* A queue taken by a render
LEMMA ProcessAllType ==
  ASSUME NEW renderLanes, NEW b \in States, NEW q \in Seq(Updates)
  PROVE  ProcessAll(renderLanes, b, q) \in Accs
<1>1. PICK f : /\ Pass(f, renderLanes, b, q)
               /\ ProcessAll(renderLanes, b, q) = EndOf(f[Len(q)])
  BY ProcessAllPasses
<1>2. f[Len(q)] \in Accs
  BY <1>1 DEF Pass
<1> QED BY <1>1, <1>2, EndFields

LEMMA LanesOfType ==
  ASSUME NEW q \in Seq(Updates)
  PROVE  LanesOf(q) \in SUBSET UpdateLanes
<1>1. \A i \in DOMAIN q : q[i] \in Updates
  OBVIOUS
<1>2. \A u \in Updates : u.lane \in UpdateLanes \cup {NoLane}
  BY DEF Updates
<1>3. ASSUME NEW l \in LanesOf(q)
      PROVE  l \in UpdateLanes
  <2>1. PICK i \in DOMAIN q : l = q[i].lane /\ l # NoLane
    BY DEF LanesOf
  <2> QED BY <1>1, <1>2, <2>1
<1> QED BY <1>3

LEMMA NoLanesLeft ==
  ASSUME NEW q \in Seq(Updates), \A i \in 1..Len(q) : q[i].lane # NoLane, LanesOf(q) = {}
  PROVE  q = <<>>
<1>1. DOMAIN q = 1..Len(q) /\ Len(q) \in Nat
  OBVIOUS
<1>2. ASSUME q # <<>> PROVE FALSE
  <2>1. 1 \in 1..Len(q)
    BY <1>2
  <2>2. q[1].lane \in LanesOf(q)
    BY <1>1, <2>1 DEF LanesOf
  <2> QED BY <2>2
<1> QED BY <1>2

LEMMA HasEagerConcat ==
  ASSUME NEW U \in Seq(Updates), NEW r \in Seq(Updates)
  PROVE  HasEager(U \o r) <=> HasEager(U) \/ HasEager(r)
<1> DEFINE W == U \o r
<1>1. /\ Len(W) = Len(U) + Len(r) /\ Len(U) \in Nat /\ Len(r) \in Nat
      /\ \A i \in 1..(Len(U) + Len(r)) : W[i] = IF i <= Len(U) THEN U[i] ELSE r[i - Len(U)]
  BY ConcatProperties
<1> HIDE DEF W
<1>2. ASSUME NEW i \in 1..Len(U), Eager(U[i])
      PROVE  HasEager(W)
  <2>1. i \in 1..Len(W) /\ W[i] = U[i]
    BY <1>1
  <2> QED BY <1>2, <2>1 DEF HasEager
<1>3. ASSUME NEW i \in 1..Len(r), Eager(r[i])
      PROVE  HasEager(W)
  <2>1. Len(U) + i \in 1..Len(W) /\ ~(Len(U) + i <= Len(U)) /\ (Len(U) + i) - Len(U) = i
    BY <1>1
  <2>2. W[Len(U) + i] = r[i]
    BY <1>1, <2>1
  <2> QED BY <1>3, <2>1, <2>2 DEF HasEager
<1>4. ASSUME NEW i \in 1..Len(W), Eager(W[i])
      PROVE  HasEager(U) \/ HasEager(r)
  <2>1. CASE i <= Len(U)
    <3>1. i \in 1..Len(U) /\ W[i] = U[i]
      BY <1>1, <2>1
    <3> QED BY <1>4, <3>1 DEF HasEager
  <2>2. CASE ~(i <= Len(U))
    <3>1. i - Len(U) \in 1..Len(r) /\ W[i] = r[i - Len(U)]
      BY <1>1, <2>2
    <3> QED BY <1>4, <3>1 DEF HasEager
  <2> QED BY <2>1, <2>2
<1>5. HasEager(W) <=> HasEager(U) \/ HasEager(r)
  BY <1>2, <1>3, <1>4 DEF HasEager
<1> QED BY <1>5 DEF W

LEMMA NoEagers ==
  ASSUME NEW U \in Seq(Updates), ~HasEager(U)
  PROVE  EagersRight(U)
BY DEF HasEager, EagersRight

LEMMA EagersConcat ==
  ASSUME NEW U \in Seq(Updates), NEW r \in Seq(Updates), EagersRight(U), ~HasEager(r)
  PROVE  EagersRight(U \o r)
<1> DEFINE W == U \o r
<1>1. /\ Len(W) = Len(U) + Len(r) /\ Len(U) \in Nat /\ Len(r) \in Nat
      /\ \A i \in 1..(Len(U) + Len(r)) : W[i] = IF i <= Len(U) THEN U[i] ELSE r[i - Len(U)]
  BY ConcatProperties
<1>2. \A k \in 0..Len(U) : SubSeq(W, 1, k) = SubSeq(U, 1, k)
  BY PrefixOfConcat
<1> HIDE DEF W
<1>3. ASSUME NEW i \in 1..Len(W), Eager(W[i])
      PROVE  W[i].eager[1] = Reduce(Result(<<>>, SubSeq(W, 1, i - 1)), W[i])
  <2>1. CASE i <= Len(U)
    <3>1. i \in 1..Len(U) /\ i - 1 \in 0..Len(U) /\ W[i] = U[i]
      BY <1>1, <2>1
    <3>2. U[i].eager[1] = Reduce(Result(<<>>, SubSeq(U, 1, i - 1)), U[i])
      BY <1>3, <3>1 DEF EagersRight
    <3> QED BY <1>2, <3>1, <3>2
  <2>2. CASE ~(i <= Len(U))
    <3>1. i - Len(U) \in 1..Len(r) /\ W[i] = r[i - Len(U)]
      BY <1>1, <2>2
    <3> QED BY <1>3, <3>1 DEF HasEager
  <2> QED BY <2>1, <2>2
<1>4. EagersRight(W)
  BY <1>3 DEF EagersRight
<1> QED BY <1>4 DEF W

LEMMA WithUpdateNoEager ==
  ASSUME NEW d \in Seq(Updates), NEW extra \in Seq(Extras),
         extra # <<>> => extra[1].at <= Len(d) /\ ~Eager(extra[1].update),
         ~HasEager(d)
  PROVE  ~HasEager(WithUpdate(d, extra))
<1>1. CASE extra = <<>>
  BY <1>1 DEF WithUpdate
<1>2. CASE extra # <<>>
  <2>1. extra[1] \in Extras
    BY <1>2, FirstOf
  <2>2. PICK n, x : n = extra[1].at /\ x = extra[1].update
    OBVIOUS
  <2>3. n \in Nat /\ x \in Updates /\ n <= Len(d) /\ ~Eager(x) /\ Len(d) \in Nat
    BY <1>2, <2>1, <2>2 DEF Extras
  <2> DEFINE a == SubSeq(d, 1, n)
             m == n + 1
             z == SubSeq(d, m, Len(d))
  <2>4. WithUpdate(d, extra) = (a \o <<x>>) \o z
    <3>1. m - 1 = n
      BY <2>3
    <3> QED BY <1>2, <2>2, <3>1 DEF WithUpdate, InsertAt
  <2>5. a \in Seq(Updates) /\ ~HasEager(a)
    <3>1. n \in 0..Len(d)
      BY <2>3
    <3>2. /\ a \in Seq(Updates) /\ Len(a) = n
          /\ \A i \in 1..n : a[i] = d[i]
      BY <3>1, Prefix
    <3> HIDE DEF a
    <3> QED BY <2>3, <3>2 DEF HasEager
  <2>6. z \in Seq(Updates) /\ ~HasEager(z)
    <3>1. m \in 1..(Len(d) + 1)
      BY <2>3
    <3>2. /\ z \in Seq(Updates)
          /\ Len(z) = IF m <= Len(d) THEN (Len(d) - m) + 1 ELSE 0
          /\ \A i \in 1..((Len(d) - m) + 1) : z[i] = d[(m + i) - 1]
      BY <2>3, <3>1, SubSeqProperties
    <3> HIDE DEF z
    <3>3. ASSUME NEW i \in 1..Len(z)
          PROVE  ~Eager(z[i])
      <4>1. i \in 1..((Len(d) - m) + 1) /\ (m + i) - 1 \in 1..Len(d)
        BY <2>3, <3>1, <3>2
      <4> QED BY <3>2, <4>1 DEF HasEager
    <3> QED BY <3>2, <3>3 DEF HasEager
  <2> HIDE DEF a, z
  <2>7. <<x>> \in Seq(Updates) /\ ~HasEager(<<x>>)
    <3>1. <<x>> \in Seq(Updates) /\ Len(<<x>>) = 1 /\ <<x>>[1] = x
      BY <2>3
    <3> QED BY <2>3, <3>1 DEF HasEager
  <2>8. a \o <<x>> \in Seq(Updates) /\ ~HasEager(a \o <<x>>)
    <3>1. a \o <<x>> \in Seq(Updates)
      BY <2>5, <2>7, ConcatUpdates
    <3>2. ~HasEager(a \o <<x>>)
      BY <2>5, <2>7, HasEagerConcat
    <3> QED BY <3>1, <3>2
  <2>9. PICK t : t = a \o <<x>>
    OBVIOUS
  <2>10. ~HasEager(t \o z)
    BY <2>6, <2>8, <2>9, HasEagerConcat
  <2> QED BY <2>4, <2>9, <2>10
<1> QED BY <1>1, <1>2

\* A render that takes the pending updates: they are done.
Takes ==
  /\ shared'.pending = <<>> /\ shared'.interleaved = shared.interleaved
  /\ inserted' = inserted

LEMMA TakenIs ==
  ASSUME IInv, Clean, Takes
  PROVE  /\ Waiting' = shared.interleaved
         /\ Done' = Done \o shared.pending /\ Done' \in Seq(Updates)
         /\ inserted' = Done' \o Waiting'
         /\ EagersRight(Done')
         /\ Rebased(currentFiber.baseState, currentFiber.baseQueue \o shared.pending, Done')
         /\ kind = "class" => ~HasEager(Done')
<1> DEFINE p == shared.pending
           r == shared.interleaved
           d == Done \o p
<1>1. /\ BaseInv /\ Done \in Seq(Updates) /\ p \in Seq(Updates) /\ r \in Seq(Updates)
      /\ inserted = Done \o (p \o r) /\ currentFiber \in Fibers
  BY CleanFacts
<1>2. d \in Seq(Updates) /\ inserted = d \o r
  <2>1. Done \o (p \o r) = (Done \o p) \o r
    BY <1>1, ConcatGroup, Zenon
  <2>2. d \in Seq(Updates)
    BY <1>1, ConcatProperties
  <2> QED BY <1>1, <2>1, <2>2
<1>3. Waiting' = r
  <2>1. <<>> \o r = r
    BY <1>1, EmptyConcat
  <2> QED BY <2>1 DEF Waiting, Takes
<1>4. Done' = d
  <2>1. SubSeq(inserted', 1, Len(inserted') - Len(Waiting')) = d
    <3>1. inserted' = d \o r
      BY <1>2 DEF Takes
    <3> HIDE DEF d
    <3> QED BY <1>1, <1>2, <1>3, <3>1, DoneIs
  <2> QED BY <2>1 DEF Done
<1>5. Rebased(currentFiber.baseState, currentFiber.baseQueue \o p, Done \o p)
  <2>1. currentFiber.baseQueue \in Seq(Updates)
    BY <1>1, FiberFields
  <2> QED BY <1>1, <2>1, RebasedMore DEF BaseInv
<1>6. EagersRight(d)
  <2>1. EagersRight(d \o r)
    BY <1>1, <1>2 DEF BaseInv
  <2> QED BY <1>1, <1>2, <2>1, EagersPrefix
<1>7. kind = "class" => ~HasEager(d)
  <2>1. kind = "class" => ~HasEager(d \o r)
    BY <1>1, <1>2 DEF BaseInv
  <2> HIDE DEF d
  <2> QED BY <1>1, <1>2, <2>1, HasEagerConcat
<1> HIDE DEF d
<1>8. Done' \in Seq(Updates) /\ inserted' = Done' \o Waiting'
  BY <1>2, <1>3, <1>4 DEF Takes
<1> QED BY <1>3, <1>4, <1>5, <1>6, <1>7, <1>8 DEF d

\* The base queue that a render has taken the pending updates to
LEMMA TakenBaseInv ==
  ASSUME IInv, Clean, Takes, kind' = kind,
         currentFiber'.baseState = currentFiber.baseState,
         currentFiber'.baseQueue = currentFiber.baseQueue \o shared.pending
  PROVE  BaseInv'
<1>1. BaseInv
  BY CleanFacts
<1>2. /\ inserted' = Done' \o Waiting' /\ Done' \in Seq(Updates)
      /\ Rebased(currentFiber'.baseState, currentFiber'.baseQueue, Done')
  BY TakenIs
<1> QED BY <1>1, <1>2 DEF BaseInv, Takes

\* The steps' effect on the shared queue
LEMMA TakenShared ==
  ASSUME NEW s \in SharedQueues, NEW l \in States,
         NEW t, t = [s EXCEPT !.pending = <<>>] \/
                t = [s EXCEPT !.pending = <<>>, !.lastRenderedState = l]
  PROVE  t \in SharedQueues /\ t.pending = <<>> /\ t.interleaved = s.interleaved
<1>1. <<>> \in Seq(Updates)
  OBVIOUS
<1> QED BY <1>1 DEF SharedQueues

LEMMA TakenShape ==
  ASSUME ShapeInv, Takes, shared \in SharedQueues, inserted \in Seq(Updates)
  PROVE  Len(shared'.pending) + Len(shared'.interleaved) <= Len(inserted')
<1>1. shared.pending \in Seq(Updates) /\ shared.interleaved \in Seq(Updates)
  BY SharedFields
<1>2. Len(shared.pending) \in Nat /\ Len(shared.interleaved) \in Nat
      /\ Len(shared'.pending) = 0 /\ Len(shared'.interleaved) = Len(shared.interleaved)
  BY <1>1 DEF Takes
<1>3. inserted' = inserted /\ Len(shared.pending) + Len(shared.interleaved) <= Len(inserted)
  BY DEF Takes, ShapeInv
<1>4. Len(inserted) \in Nat
  OBVIOUS
<1>5. 0 + Len(shared.interleaved) <= Len(inserted)
  BY <1>2, <1>3, <1>4, Sums
<1> QED BY <1>2, <1>3, <1>5

\* What a class fiber's begin phase does with its queue
LEMMA ProcessQueueKeeps ==
  ASSUME IInv, kind = "class", rendering # <<>>, NEW wip \in Fibers,
         Rebased(wip.baseState, wip.baseQueue, WithUpdate(Done, rendering.extra)),
         ExtraInv, ProcessUpdateQueue(wip),
         UNCHANGED <<kind, rootLanes, inserted, called, surprises>>
  PROVE  IInv'
<1> DEFINE queue == wip.baseQueue \o shared.pending
           end == ProcessAll(rendering.lanes, wip.baseState, queue)
           lanes == IF queue = <<>> THEN {} ELSE end.lanes \cup LanesOf(shared.interleaved)
<1>1. /\ alternateFiber' = IF queue = <<>> THEN [wip EXCEPT !.lanes = {}]
                           ELSE QueueFiber(lanes, end.state, end.baseState, end.baseQueue)
      /\ currentFiber' = [currentFiber EXCEPT
                            !.baseQueue = currentFiber.baseQueue \o shared.pending]
      /\ shared' = [shared EXCEPT !.pending = <<>>]
      /\ rendering' = [rendering EXCEPT !.phase = "complete", !.cloned = TRUE,
                                        !.callbacks = rendering.callbacks \o end.callbacks]
  BY DEF ProcessUpdateQueue
<1>2. /\ QueueTypeOK /\ ShapeInv /\ surprises = {} /\ Clean
  BY DEF IInv, ShapeInv, Clean
<1>3. /\ BaseInv /\ currentFiber \in Fibers
      /\ shared.pending \in Seq(Updates) /\ shared.interleaved \in Seq(Updates)
      /\ shared \in SharedQueues /\ rendering \in Renders
      /\ Done \in Seq(Updates) /\ inserted \in Seq(Updates)
  BY <1>2, CleanFacts DEF QueueTypeOK
<1>4. /\ wip # <<>> /\ wip.baseQueue \in Seq(Updates) /\ wip.baseState \in States
      /\ wip.state \in States
  BY FiberFields
<1>5. queue \in Seq(Updates)
  BY <1>3, <1>4, ConcatProperties
<1>6. end \in Accs
  BY <1>4, <1>5, ProcessAllType
<1>7. /\ end.lanes \in SUBSET UpdateLanes /\ end.state \in States /\ end.baseState \in States
      /\ end.baseQueue \in Seq(Updates) /\ end.callbacks \in Seq(UpdateIds)
  BY <1>6 DEF Accs
<1>8. lanes \in SUBSET UpdateLanes
  BY <1>3, <1>7, LanesOfType
<1>9. shared' \in SharedQueues /\ Takes
  <2>1. shared.lastRenderedState \in States
    BY <1>3, SharedFields
  <2> QED BY <1>1, <1>3, <2>1, TakenShared DEF Takes
<1>10. /\ currentFiber' \in Fibers /\ currentFiber'.baseState = currentFiber.baseState
       /\ currentFiber'.baseQueue = currentFiber.baseQueue \o shared.pending
  <2>1. currentFiber.baseQueue \o shared.pending \in Seq(Updates)
    BY <1>3, FiberFields, ConcatProperties
  <2> QED BY <1>1, <1>3, <2>1 DEF Fibers
<1>11. /\ rendering' \in Renders /\ rendering' # <<>> /\ rendering'.phase = "complete"
       /\ rendering'.cloned /\ rendering'.bailed = rendering.bailed
       /\ rendering'.extra = rendering.extra
  <2>1. rendering.callbacks \o end.callbacks \in Seq(UpdateIds)
    BY <1>3, <1>7, RenderFields, ConcatProperties
  <2>2. rendering' \in Renders /\ rendering'.phase = "complete"
        /\ rendering'.cloned /\ rendering'.bailed = rendering.bailed
        /\ rendering'.extra = rendering.extra
    BY <1>1, <1>3, <2>1 DEF Renders
  <2> QED BY <2>2, RenderFields
<1>12. rendering.extra \in Seq(Extras)
  BY <1>3, RenderFields
<1> DEFINE U == WithUpdate(Done, rendering.extra) \o shared.pending
<1>13. WithUpdate(Done', rendering'.extra) = U /\ U \in Seq(Updates)
  <2>1. Done' = Done \o shared.pending
    BY <1>2, <1>9, TakenIs
  <2>2. rendering.extra # <<>> => rendering.extra[1].at <= Len(Done)
    BY DEF ExtraInv
  <2>3. WithUpdate(Done \o shared.pending, rendering.extra) = U
    BY <1>3, <1>12, <2>2, WithUpdateConcat
  <2>4. U \in Seq(Updates)
    BY <1>3, <1>12, <2>2, WithUpdateType, ConcatProperties
  <2> QED BY <1>11, <2>1, <2>3, <2>4
<1>14. Rebased(wip.baseState, queue, U)
  <2>1. WithUpdate(Done, rendering.extra) \in Seq(Updates)
    BY <1>3, <1>12, WithUpdateType DEF ExtraInv
  <2> QED BY <1>3, <1>4, <2>1, RebasedMore
<1>15. ~HasEager(U)
  <2>1. ~HasEager(Done) /\ ~HasEager(shared.pending)
    <3>1. Done' = Done \o shared.pending /\ ~HasEager(Done')
      BY <1>2, <1>9, TakenIs
    <3> QED BY <1>3, <3>1, HasEagerConcat
  <2>2. ~HasEager(WithUpdate(Done, rendering.extra))
    BY <1>3, <1>12, <2>1, WithUpdateNoEager DEF ExtraInv
  <2>3. WithUpdate(Done, rendering.extra) \in Seq(Updates)
    BY <1>3, <1>12, WithUpdateType DEF ExtraInv
  <2> QED BY <1>3, <2>1, <2>2, <2>3, HasEagerConcat
<1>16. Processed(end, U)
  <2>1. EagersRight(U)
    BY <1>13, <1>15, NoEagers
  <2> QED BY <1>4, <1>5, <1>13, <1>14, <2>1, ProcessAllKeeps
<1> HIDE DEF end, lanes, U
<1>17. /\ alternateFiber' \in Fibers /\ alternateFiber' # <<>>
       /\ Rebased(alternateFiber'.baseState, alternateFiber'.baseQueue, U)
  <2>1. CASE queue = <<>>
    <3>1. wip.baseQueue = queue
      BY <1>3, <1>4, <2>1, ConcatEqualIffEmpty
    <3>2. alternateFiber' \in Fibers /\ alternateFiber'.baseState = wip.baseState
          /\ alternateFiber'.baseQueue = wip.baseQueue
      BY <1>1, <2>1 DEF Fibers
    <3> QED BY <1>14, <3>1, <3>2, FiberFields
  <2>2. CASE queue # <<>>
    <3>1. alternateFiber' = QueueFiber(lanes, end.state, end.baseState, end.baseQueue)
      BY <1>1, <2>2
    <3>2. alternateFiber' \in Fibers /\ alternateFiber'.baseState = end.baseState
          /\ alternateFiber'.baseQueue = end.baseQueue
      BY <1>7, <1>8, <3>1, FiberIs
    <3> QED BY <1>16, <3>2, FiberFields DEF Processed
  <2> QED BY <2>1, <2>2
<1>18. QueueTypeOK'
  BY <1>2, <1>9, <1>10, <1>11, <1>17 DEF QueueTypeOK
<1>19. ShapeInv'
  <2>1. Len(shared'.pending) + Len(shared'.interleaved) <= Len(inserted')
    BY <1>2, <1>3, <1>9, TakenShape
  <2> QED BY <1>2, <1>11, <1>17, <2>1 DEF ShapeInv
<1>20. BaseInv'
  BY <1>2, <1>9, <1>10, TakenBaseInv
<1>21. RenderInv'
  <2>1. ExtraInv'
    <3> SUFFICES ASSUME rendering.extra # <<>>
                 PROVE  rendering.extra[1].at <= Len(Done')
      BY <1>11 DEF ExtraInv
    <3>1. rendering.extra[1].at \in Nat
      BY <1>12, FirstOf DEF Extras
    <3>2. Len(Done') = Len(Done) + Len(shared.pending) /\ Len(Done) \in Nat
          /\ Len(shared.pending) \in Nat
      <4>1. Done' = Done \o shared.pending
        BY <1>2, <1>9, TakenIs
      <4> QED BY <1>3, <4>1, ConcatProperties
    <3> QED BY <3>1, <3>2 DEF ExtraInv
  <2> QED BY <1>11, <1>13, <1>17, <2>1 DEF RenderInv
<1> QED BY <1>18, <1>19, <1>20, <1>21 DEF IInv

LEMMA BeginClassKeeps ==
  ASSUME IInv, NEW newProps \in BOOLEAN, BeginClass(newProps)
  PROVE  IInv'
<1>1. /\ kind = "class" /\ rendering # <<>> /\ rendering.phase = "begin"
      /\ ProcessUpdateQueue(currentFiber)
      /\ UNCHANGED <<kind, rootLanes, inserted, called, surprises>>
  BY DEF BeginClass, InPhase
<1>2. Clean
  BY <1>1 DEF IInv, ShapeInv, Clean
<1>3. rendering.extra = <<>> /\ currentFiber \in Fibers
      /\ Rebased(currentFiber.baseState, currentFiber.baseQueue, Done)
  BY <1>1, <1>2, CleanFacts DEF RenderInv, BaseInv
<1>4. Rebased(currentFiber.baseState, currentFiber.baseQueue,
              WithUpdate(Done, rendering.extra))
  BY <1>3 DEF WithUpdate
<1>5. ExtraInv
  BY <1>3 DEF ExtraInv
<1> QED BY <1>1, <1>3, <1>4, <1>5, ProcessQueueKeeps

LEMMA BeginBoundaryAgainKeeps ==
  ASSUME IInv, BeginBoundaryAgain
  PROVE  IInv'
<1>1. /\ rendering # <<>> /\ rendering.phase = "captured"
      /\ ProcessUpdateQueue(alternateFiber)
      /\ UNCHANGED <<kind, rootLanes, inserted, called, surprises>>
  BY DEF BeginBoundaryAgain, InPhase
<1>2. kind = "class" /\ Clean
  BY <1>1 DEF IInv, ShapeInv, Clean
<1>3. RenderInv /\ rendering.cloned
  BY <1>1, <1>2, CleanFacts DEF RenderInv
<1>4. alternateFiber \in Fibers
  BY <1>1, <1>3 DEF IInv, ShapeInv, QueueTypeOK
<1>5. ExtraInv /\ Rebased(alternateFiber.baseState, alternateFiber.baseQueue,
                          WithUpdate(Done, rendering.extra))
  BY <1>1, <1>3 DEF RenderInv
<1> QED BY <1>1, <1>2, <1>4, <1>5, ProcessQueueKeeps

LEMMA PlainUpdateIs ==
  ASSUME NEW id \in UpdateIds, NEW lane \in UpdateLanes \cup {NoLane},
         NEW action \in {"append", "reset", "same"}
  PROVE  LET u == [id |-> id, lane |-> lane, action |-> action, eager |-> <<>>]
         IN  u \in Updates /\ ~Eager(u)
<1>1. <<>> \in Seq(States)
  OBVIOUS
<1> QED BY <1>1 DEF Updates, Eager

LEMMA ExtraIs ==
  ASSUME NEW n \in Nat, NEW x \in Updates
  PROVE  LET extra == <<[at |-> n, update |-> x]>>
         IN  /\ extra \in Seq(Extras) /\ extra # <<>>
             /\ extra[1].at = n /\ extra[1].update = x
<1>1. [at |-> n, update |-> x] \in Extras
  BY DEF Extras
<1> QED BY <1>1

LEMMA CaptureErrorKeeps ==
  ASSUME IInv, CaptureError
  PROVE  IInv'
<1>1. /\ kind = "class" /\ rendering # <<>> /\ rendering.phase = "complete"
      /\ rendering.cloned /\ rendering.extra = <<>> /\ NextId \in UpdateIds
      /\ UNCHANGED <<kind, currentFiber, shared, rootLanes, inserted, surprises>>
  BY DEF CaptureError, InPhase
<1>2. PICK lane \in rendering.lanes :
        LET update == [id |-> NextId, lane |-> lane, action |-> "append", eager |-> <<>>]
            before == Len(inserted) - Len(shared.pending) - Len(shared.interleaved)
        IN  /\ alternateFiber' = [alternateFiber EXCEPT
                                    !.baseQueue = Append(alternateFiber.baseQueue, update)]
            /\ rendering' = [rendering EXCEPT !.phase = "captured",
                                              !.extra = <<[at |-> before, update |-> update]>>]
            /\ called' = [called EXCEPT ![NextId] = 0]
  BY DEF CaptureError
<1>3. /\ QueueTypeOK /\ ShapeInv /\ Clean
  BY <1>1 DEF IInv, ShapeInv, Clean
<1>4. /\ BaseInv /\ RenderInv /\ rendering \in Renders /\ alternateFiber \in Fibers
      /\ Done \in Seq(Updates) /\ inserted \in Seq(Updates)
      /\ shared.pending \in Seq(Updates) /\ shared.interleaved \in Seq(Updates)
      /\ inserted = Done \o (shared.pending \o shared.interleaved)
  BY <1>1, <1>3, CleanFacts DEF QueueTypeOK, ShapeInv
<1>5. PICK x : x = [id |-> NextId, lane |-> lane, action |-> "append", eager |-> <<>>]
  OBVIOUS
<1>6. x \in Updates /\ ~Eager(x)
  <2>1. lane \in UpdateLanes
    BY <1>4, RenderFields
  <2> QED BY <1>1, <1>5, <2>1, PlainUpdateIs
<1>7. /\ Len(inserted) - Len(shared.pending) - Len(shared.interleaved) = Len(Done)
      /\ Len(Done) <= Len(inserted)
  <2>1. Len(inserted) = Len(Done) + (Len(shared.pending) + Len(shared.interleaved))
    <3>1. Len(shared.pending \o shared.interleaved)
            = Len(shared.pending) + Len(shared.interleaved)
          /\ shared.pending \o shared.interleaved \in Seq(Updates)
      BY <1>4, ConcatUpdates
    <3> QED BY <1>4, <3>1, ConcatUpdates
  <2>2. Len(Done) \in Nat /\ Len(shared.pending) \in Nat /\ Len(shared.interleaved) \in Nat
        /\ Len(inserted) \in Nat
    BY <1>4, LenNat
  <2> QED BY <2>1, <2>2, Sums3
<1> DEFINE extra == <<[at |-> Len(Done), update |-> x]>>
           q == Append(alternateFiber.baseQueue, x)
<1>8. /\ alternateFiber' = [alternateFiber EXCEPT !.baseQueue = q]
      /\ rendering' = [rendering EXCEPT !.phase = "captured", !.extra = extra]
      /\ called' = [called EXCEPT ![NextId] = 0]
  BY <1>2, <1>5, <1>7
<1>9. extra \in Seq(Extras) /\ extra # <<>> /\ extra[1].at = Len(Done) /\ extra[1].update = x
  <2>1. Len(Done) \in Nat
    BY <1>4
  <2> QED BY <1>6, <2>1, ExtraIs
<1>10. WithUpdate(Done, extra) = Append(Done, x)
  BY <1>4, <1>6, WithUpdateAtEnd
<1>11. Rebased(alternateFiber.baseState, q, Append(Done, x))
  <2>1. Rebased(alternateFiber.baseState, alternateFiber.baseQueue, Done)
    BY <1>1, <1>4 DEF RenderInv, WithUpdate
  <2>2. alternateFiber.baseQueue \in Seq(Updates) /\ <<x>> \in Seq(Updates)
    BY <1>4, <1>6, FiberFields
  <2>3. q = alternateFiber.baseQueue \o <<x>> /\ Append(Done, x) = Done \o <<x>>
    BY <1>4, <1>6, <2>2, AppendIsConcat
  <2> QED BY <1>4, <2>1, <2>2, <2>3, RebasedMore
<1>12. q \in Seq(Updates)
  BY <1>4, <1>6, FiberFields, AppendProperties
<1> HIDE DEF extra, q
<1>13. /\ alternateFiber' \in Fibers /\ alternateFiber' # <<>>
       /\ alternateFiber'.baseState = alternateFiber.baseState
       /\ alternateFiber'.baseQueue = q
  <2>1. /\ alternateFiber' \in Fibers /\ alternateFiber'.baseState = alternateFiber.baseState
        /\ alternateFiber'.baseQueue = q
    BY <1>4, <1>8, <1>12 DEF Fibers
  <2> QED BY <2>1, FiberFields
<1>14. /\ rendering' \in Renders /\ rendering' # <<>> /\ rendering'.phase = "captured"
       /\ rendering'.cloned = rendering.cloned /\ rendering'.bailed = rendering.bailed
       /\ rendering'.extra = extra
  <2>1. /\ rendering' \in Renders /\ rendering'.phase = "captured"
        /\ rendering'.cloned = rendering.cloned /\ rendering'.bailed = rendering.bailed
        /\ rendering'.extra = extra
    BY <1>4, <1>8, <1>9 DEF Renders
  <2> QED BY <2>1, RenderFields
<1>15. QueueTypeOK'
  <2>1. called' \in [UpdateIds -> Int]
    <3>1. called \in [UpdateIds -> Int] /\ 0 \in Int
      BY <1>3 DEF QueueTypeOK
    <3> QED BY <1>8, <3>1
  <2> QED BY <1>1, <1>3, <1>13, <1>14, <2>1 DEF QueueTypeOK
<1>16. ShapeInv'
  <2>1. Len(Done) <= Len(inserted)
    BY <1>7
  <2>2. Len(shared'.pending) + Len(shared'.interleaved) <= Len(inserted')
    BY <1>1, <1>3 DEF ShapeInv
  <2>3. kind' = "class" => surprises' = {} /\ (rendering' # <<>> => ~rendering'.bailed)
    BY <1>1, <1>3, <1>14 DEF ShapeInv
  <2>4. rendering'.extra[1].at <= Len(inserted')
    BY <1>1, <1>9, <1>14, <2>1
  <2> QED BY <1>1, <1>13, <2>2, <2>3, <2>4 DEF ShapeInv
<1>17. Done' = Done /\ Waiting' = Waiting
  BY <1>1 DEF Done, Waiting
<1>18. BaseInv'
  BY <1>1, <1>4, <1>17 DEF BaseInv
<1>19. RenderInv'
  <2>1. ExtraInv'
    BY <1>1, <1>4, <1>6, <1>9, <1>14, <1>17 DEF ExtraInv
  <2> QED BY <1>1, <1>4, <1>10, <1>11, <1>13, <1>14, <1>17, <2>1 DEF RenderInv
<1> QED BY <1>1, <1>15, <1>16, <1>18, <1>19 DEF IInv

\* A render that is committed without having cloned the fiber
LEMMA CommitUnclonedKeeps ==
  ASSUME IInv, CommitFiber, ~rendering.cloned, Clean'
  PROVE  BaseInv' /\ RenderInv' /\ (kind' = "hook" => ScreenInv' /\ WorkInv')
<1>1. /\ rendering # <<>> /\ UNCHANGED <<kind, shared, currentFiber, alternateFiber>>
      /\ rootLanes' = currentFiber'.lanes /\ inserted' = WithExtra /\ rendering' = <<>>
      /\ surprises' = IF kind = "hook" /\ rendering.extra # <<>>
                          /\ \E i \in DOMAIN shared.interleaved : Eager(shared.interleaved[i])
                       THEN surprises \cup {"staleEager"} ELSE surprises
  BY DEF CommitFiber
<1>2. Clean
  BY <1>1 DEF Clean
<1>3. BaseInv /\ RenderInv /\ (kind = "hook" => ScreenInv)
  BY <1>2, CleanFacts
<1>4. rendering.extra = <<>> /\ ~rendering.bailed
  BY <1>1, <1>3 DEF RenderInv
<1>5. inserted' = inserted /\ Waiting' = Waiting /\ Done' = Done
  BY <1>1, <1>4 DEF WithExtra, Waiting, Done
<1>6. BaseInv'
  BY <1>1, <1>3, <1>5 DEF BaseInv
<1>7. kind' = "hook" => ScreenInv'
  BY <1>1, <1>3, <1>4, <1>5 DEF ScreenInv
<1> QED BY <1>1, <1>6, <1>7 DEF RenderInv, WorkInv

LEMMA CommitClonedKeeps ==
  ASSUME IInv, CommitFiber, rendering.cloned, Clean'
  PROVE  BaseInv' /\ RenderInv' /\ (kind' = "hook" => ScreenInv' /\ WorkInv')
<1>1. /\ rendering # <<>> /\ UNCHANGED <<kind, shared>>
      /\ currentFiber' = alternateFiber
      /\ rootLanes' = currentFiber'.lanes /\ inserted' = WithExtra /\ rendering' = <<>>
      /\ surprises' = IF kind = "hook" /\ rendering.extra # <<>>
                          /\ \E i \in DOMAIN shared.interleaved : Eager(shared.interleaved[i])
                       THEN surprises \cup {"staleEager"} ELSE surprises
  BY DEF CommitFiber
<1>2. Clean
  BY <1>1 DEF Clean
<1>3. /\ QueueTypeOK /\ BaseInv /\ RenderInv /\ (kind = "hook" => ScreenInv /\ WorkInv)
      /\ Done \in Seq(Updates) /\ Waiting \in Seq(Updates) /\ inserted \in Seq(Updates)
      /\ shared.pending \in Seq(Updates) /\ shared.interleaved \in Seq(Updates)
      /\ inserted = Done \o Waiting /\ rendering \in Renders
  BY <1>1, <1>2, CleanFacts DEF BaseInv, QueueTypeOK
<1>4. PICK extra : extra = rendering.extra
  OBVIOUS
<1>5. /\ extra \in Seq(Extras)
      /\ extra # <<>> => /\ extra[1] \in Extras /\ extra[1].at <= Len(Done)
                         /\ ~Eager(extra[1].update)
                         /\ kind = "hook" => /\ extra[1].at = Len(Done)
                                             /\ shared.pending = <<>>
                                             /\ ~HasEager(shared.interleaved)
  <2>1. extra \in Seq(Extras)
    BY <1>3, <1>4, RenderFields
  <2>2. ASSUME extra # <<>>
        PROVE  /\ extra[1] \in Extras /\ extra[1].at <= Len(Done) /\ ~Eager(extra[1].update)
               /\ kind = "hook" => /\ extra[1].at = Len(Done)
                                   /\ shared.pending = <<>>
                                   /\ ~HasEager(shared.interleaved)
    <3>1. ExtraInv
      BY <1>1, <1>3 DEF RenderInv
    <3>2. kind = "hook" => ~HasEager(shared.interleaved)
      BY <1>1, <1>3, <1>4, <2>2, (Clean') DEF Clean, HasEager
    <3> QED BY <1>4, <2>1, <2>2, <3>1, <3>2, FirstOf DEF ExtraInv
  <2> QED BY <2>1, <2>2
<1> DEFINE d == WithUpdate(Done, extra)
<1>6. d \in Seq(Updates)
  BY <1>3, <1>5, WithUpdateType
<1>7. inserted' = WithUpdate(inserted, extra) /\ inserted' = d \o Waiting
  <2>1. inserted' = WithUpdate(inserted, extra)
    BY <1>1, <1>4 DEF WithExtra, WithUpdate
  <2>2. WithUpdate(Done \o Waiting, extra) = d \o Waiting
    BY <1>3, <1>5, WithUpdateConcat
  <2> QED BY <1>3, <2>1, <2>2
<1>8. Waiting' = Waiting
  BY <1>1 DEF Waiting
<1> HIDE DEF d
<1>9. Done' = d
  <2>1. SubSeq(inserted', 1, Len(inserted') - Len(Waiting')) = d
    BY <1>3, <1>6, <1>7, <1>8, DoneIs
  <2> QED BY <2>1 DEF Done
<1>10. kind = "class" => ~HasEager(inserted')
  <2> SUFFICES ASSUME kind = "class"
               PROVE  ~HasEager(inserted')
    OBVIOUS
  <2>1. ~HasEager(Done) /\ ~HasEager(Waiting)
    BY <1>3, HasEagerConcat DEF BaseInv
  <2>2. ~HasEager(d)
    BY <1>3, <1>5, <2>1, WithUpdateNoEager DEF d
  <2> QED BY <1>3, <1>6, <1>7, <2>1, <2>2, HasEagerConcat
<1>11. EagersRight(inserted')
  <2>1. CASE extra = <<>>
    BY <1>3, <1>7, <2>1 DEF BaseInv, WithUpdate
  <2>2. CASE extra # <<>> /\ kind = "class"
    <3>1. inserted' \in Seq(Updates)
      BY <1>3, <1>6, <1>7, ConcatProperties
    <3> QED BY <1>10, <2>2, <3>1, NoEagers
  <2>3. CASE extra # <<>> /\ kind # "class"
    <3>1. kind = "hook"
      BY <1>3, <2>3 DEF QueueTypeOK
    <3>2. PICK x : x = extra[1].update
      OBVIOUS
    <3>3. /\ x \in Updates /\ ~Eager(x)
          /\ extra[1].at = Len(Done) /\ shared.pending = <<>>
          /\ ~HasEager(shared.interleaved)
      BY <1>5, <2>3, <3>1, <3>2 DEF Extras
    <3>4. d = Append(Done, x)
      <4>1. WithUpdate(Done, <<[at |-> Len(Done), update |-> x]>>) = Append(Done, x)
        BY <1>3, <3>3, WithUpdateAtEnd
      <4>2. <<[at |-> Len(Done), update |-> x]>> # <<>>
            /\ <<[at |-> Len(Done), update |-> x]>>[1].at = Len(Done)
            /\ <<[at |-> Len(Done), update |-> x]>>[1].update = x
        OBVIOUS
      <4>3. WithUpdate(Done, extra) = InsertAt(Done, Len(Done) + 1, x)
        BY <2>3, <3>2, <3>3 DEF WithUpdate
      <4>4. WithUpdate(Done, <<[at |-> Len(Done), update |-> x]>>)
              = InsertAt(Done, Len(Done) + 1, x)
        BY <4>2 DEF WithUpdate
      <4> QED BY <4>1, <4>3, <4>4 DEF d
    <3>5. EagersRight(Done)
      <4>1. EagersRight(Done \o Waiting)
        BY <1>3 DEF BaseInv
      <4> QED BY <1>3, <4>1, EagersPrefix
    <3>6. EagersRight(d)
      BY <1>3, <3>3, <3>4, <3>5, EagersAppend
    <3>7. ~HasEager(Waiting)
      <4>1. Waiting = shared.interleaved
        <5>1. <<>> \o shared.interleaved = shared.interleaved
          BY <1>3, EmptyConcat
        <5> QED BY <3>3, <5>1 DEF Waiting
      <4> QED BY <3>3, <4>1
    <3> QED BY <1>3, <1>6, <1>7, <3>6, <3>7, EagersConcat
  <2> QED BY <2>1, <2>2, <2>3
<1>12. BaseInv'
  <2>1. Rebased(alternateFiber.baseState, alternateFiber.baseQueue, d)
    BY <1>1, <1>3, <1>4 DEF RenderInv, d
  <2>2. inserted' = Done' \o Waiting' /\ Done' \in Seq(Updates)
    BY <1>6, <1>7, <1>8, <1>9
  <2> QED BY <1>1, <1>3, <1>9, <1>10, <1>11, <2>1, <2>2 DEF BaseInv
<1>13. kind' = "hook" => ScreenInv'
  <2> SUFFICES ASSUME kind' = "hook"
               PROVE  ScreenInv'
    OBVIOUS
  <2>1. WorkInv
    BY <1>1, <1>3
  <2>2. alternateFiber.baseQueue = <<>> => alternateFiber.state = alternateFiber.baseState
    BY <1>1, <2>1 DEF WorkInv
  <2>3. extra = <<>> \/ ~HasEager(shared.interleaved)
    BY <1>1, <1>5
  <2>4. alternateFiber.lanes = {} => alternateFiber.state = Result(<<>>, inserted')
    BY <1>1, <1>4, <1>7, <2>1, <2>3 DEF WorkInv
  <2> QED BY <1>1, <2>2, <2>4 DEF ScreenInv
<1> QED BY <1>1, <1>12, <1>13 DEF RenderInv, WorkInv

LEMMA CommitKeeps ==
  ASSUME IInv, CommitFiber
  PROVE  IInv'
<1>1. /\ rendering # <<>> /\ UNCHANGED <<kind, shared>>
      /\ rendering.cloned => /\ currentFiber' = alternateFiber
                             /\ alternateFiber' = Stale(currentFiber)
      /\ ~rendering.cloned => UNCHANGED <<currentFiber, alternateFiber>>
      /\ rootLanes' = currentFiber'.lanes /\ inserted' = WithExtra /\ rendering' = <<>>
      /\ called' = [i \in UpdateIds |->
                      called[i] + Cardinality({k \in DOMAIN rendering.callbacks :
                                                 rendering.callbacks[k] = i})]
      /\ surprises' = IF kind = "hook" /\ rendering.extra # <<>>
                          /\ \E i \in DOMAIN shared.interleaved : Eager(shared.interleaved[i])
                       THEN surprises \cup {"staleEager"} ELSE surprises
  BY DEF CommitFiber
<1>2. QueueTypeOK /\ ShapeInv /\ rendering \in Renders /\ inserted \in Seq(Updates)
      /\ rendering.extra \in Seq(Extras) /\ rendering.callbacks \in Seq(UpdateIds)
  BY <1>1, RenderFields DEF IInv, QueueTypeOK
<1>3. /\ currentFiber' \in Fibers /\ alternateFiber' \in Fibers \cup {<<>>}
      /\ currentFiber'.lanes \in SUBSET UpdateLanes
  <2>1. CASE rendering.cloned
    <3>1. alternateFiber \in Fibers
      BY <1>1, <1>2, <2>1 DEF QueueTypeOK, ShapeInv
    <3>2. Stale(currentFiber) \in Fibers \cup {<<>>}
      <4>1. currentFiber.lanes \in SUBSET UpdateLanes
        BY <1>2, FiberFields DEF QueueTypeOK
      <4> QED BY <4>1, StaleType
    <3> QED BY <1>1, <2>1, <3>1, <3>2, FiberFields
  <2>2. CASE ~rendering.cloned
    BY <1>1, <1>2, <2>2, FiberFields DEF QueueTypeOK
  <2> QED BY <2>1, <2>2
<1>4. inserted' = WithUpdate(inserted, rendering.extra) /\ inserted' \in Seq(Updates)
  <2>1. WithUpdate(inserted, rendering.extra) \in Seq(Updates)
    BY <1>1, <1>2, WithUpdateType DEF ShapeInv
  <2> QED BY <1>1, <2>1 DEF WithExtra, WithUpdate
<1>5. called' \in [UpdateIds -> Int]
  <2>1. ASSUME NEW i \in UpdateIds
        PROVE  called[i] + Cardinality({k \in DOMAIN rendering.callbacks :
                                          rendering.callbacks[k] = i}) \in Int
    <3> DEFINE D == DOMAIN rendering.callbacks
               T == {k \in D : rendering.callbacks[k] = i}
    <3>1. IsFiniteSet(D)
      <4>1. D = 1..Len(rendering.callbacks) /\ Len(rendering.callbacks) \in Nat
        BY <1>2
      <4> QED BY <4>1, FS_Interval
    <3>2. T \subseteq D
      OBVIOUS
    <3>3. Cardinality(T) \in Nat
      BY <3>1, <3>2, FS_Subset, FS_CardinalityType
    <3>4. called[i] \in Int
      BY <1>2 DEF QueueTypeOK
    <3> QED BY <3>3, <3>4
  <2> QED BY <1>1, <2>1
<1>6. surprises' \subseteq Surprises
  BY <1>1, <1>2 DEF QueueTypeOK, Surprises
<1>7. QueueTypeOK'
  BY <1>1, <1>2, <1>3, <1>4, <1>5, <1>6 DEF QueueTypeOK
<1>8. ShapeInv'
  <2>1. Len(inserted) <= Len(inserted')
    <3>1. CASE rendering.extra = <<>>
      <4>1. inserted' = inserted /\ Len(inserted) \in Nat
        BY <1>2, <1>4, <3>1 DEF WithUpdate
      <4> QED BY <4>1
    <3>2. CASE rendering.extra # <<>>
      <4>1. PICK n, x : n = rendering.extra[1].at /\ x = rendering.extra[1].update
        OBVIOUS
      <4>2. n \in Nat /\ x \in Updates /\ n <= Len(inserted) /\ Len(inserted) \in Nat
        <5>1. rendering.extra[1] \in Extras
          BY <1>2, <3>2, FirstOf
        <5> QED BY <1>1, <1>2, <3>2, <4>1, <5>1 DEF Extras, ShapeInv
      <4> DEFINE a == SubSeq(inserted, 1, n)
                 z == SubSeq(inserted, n + 1, Len(inserted))
      <4>3. inserted' = (a \o <<x>>) \o z
        <5>1. (n + 1) - 1 = n
          BY <4>2
        <5> QED BY <1>4, <3>2, <4>1, <5>1 DEF WithUpdate, InsertAt
      <4>4. a \in Seq(Updates) /\ Len(a) = n
        <5>1. n \in 0..Len(inserted)
          BY <4>2
        <5> QED BY <1>2, <5>1, Prefix
      <4>5. z \in Seq(Updates) /\ Len(z) = Len(inserted) - n
        <5>1. z \in Seq(Updates) /\ Len(z) = IF n + 1 <= Len(inserted)
                                             THEN (Len(inserted) - (n + 1)) + 1 ELSE 0
          <6>1. n + 1 \in Int /\ Len(inserted) \in Int
                /\ \A i \in (n + 1)..Len(inserted) : inserted[i] \in Updates
            BY <1>2, <4>2
          <6> QED BY <6>1, SubSeqProperties
        <5> QED BY <4>2, <5>1
      <4> HIDE DEF a, z
      <4>6. a \o <<x>> \in Seq(Updates) /\ Len(a \o <<x>>) = n + 1
        <5>1. <<x>> \in Seq(Updates) /\ Len(<<x>>) = 1
          BY <4>2
        <5> QED BY <4>4, <5>1, ConcatProperties
      <4>7. Len(inserted') = (n + 1) + (Len(inserted) - n)
        <5>1. PICK b : b = a \o <<x>>
          OBVIOUS
        <5>2. Len(b \o z) = Len(b) + Len(z)
          BY <4>5, <4>6, <5>1, ConcatUpdates
        <5> QED BY <4>3, <4>5, <4>6, <5>1, <5>2
      <4>8. PICK l : l = Len(inserted)
        OBVIOUS
      <4>9. l <= (n + 1) + (l - n)
        BY <4>2, <4>8
      <4> QED BY <4>7, <4>8, <4>9
    <3> QED BY <3>1, <3>2
  <2>2. Len(shared'.pending) + Len(shared'.interleaved) <= Len(inserted')
    <3>1. Len(shared.pending) \in Nat /\ Len(shared.interleaved) \in Nat
      BY <1>2, SharedFields DEF QueueTypeOK
    <3>2. Len(inserted) \in Nat /\ Len(inserted') \in Nat
      BY <1>2, <1>4
    <3>3. Len(shared.pending) + Len(shared.interleaved) <= Len(inserted)
      BY <1>2 DEF ShapeInv
    <3>4. Len(shared.pending) + Len(shared.interleaved) \in Nat
      BY <3>1, <3>2, Sums
    <3>5. Len(shared.pending) + Len(shared.interleaved) <= Len(inserted')
      BY <2>1, <3>2, <3>3, <3>4, Below
    <3> QED BY <1>1, <3>5
  <2> QED BY <1>1, <1>2, <2>2 DEF ShapeInv
<1>9. Clean' => BaseInv' /\ RenderInv' /\ (kind' = "hook" => ScreenInv' /\ WorkInv')
  BY CommitClonedKeeps, CommitUnclonedKeeps
<1> QED BY <1>7, <1>8, <1>9 DEF IInv

-----------------------------------------------------------------------------
(* A hook's render                                                           *)

\* What a pass over the hook's queue gives
LEMMA HookPassIs ==
  ASSUME QueueTypeOK
  PROVE  LET queue == currentFiber.baseQueue \o shared.pending
         IN  /\ queue \in Seq(Updates)
             /\ currentFiber.baseState \in States /\ currentFiber.state \in States
             /\ HookPass \in Accs
             /\ HookPass.lanes \cup LanesOf(shared.interleaved) \in SUBSET UpdateLanes
             /\ HookPass.state \in States /\ HookPass.baseState \in States
             /\ HookPass.baseQueue \in Seq(Updates)
             /\ queue = <<>> => currentFiber.baseQueue = <<>>
<1> DEFINE queue == currentFiber.baseQueue \o shared.pending
<1>1. /\ currentFiber.baseQueue \in Seq(Updates) /\ shared.pending \in Seq(Updates)
      /\ shared.interleaved \in Seq(Updates)
      /\ currentFiber.baseState \in States /\ currentFiber.state \in States
  BY FiberFields, SharedFields DEF QueueTypeOK
<1>2. queue \in Seq(Updates)
  BY <1>1, ConcatProperties
<1>3. queue = <<>> => currentFiber.baseQueue = <<>>
  <2> SUFFICES ASSUME queue = <<>>
               PROVE  currentFiber.baseQueue = <<>>
    OBVIOUS
  <2> QED BY <1>1, ConcatEqualIffEmpty
<1>4. HookPass \in Accs
  BY <1>1, <1>2, ProcessAllType DEF HookPass
<1>5. /\ HookPass.lanes \in SUBSET UpdateLanes
      /\ HookPass.state \in States /\ HookPass.baseState \in States
      /\ HookPass.baseQueue \in Seq(Updates)
  BY <1>4 DEF Accs
<1>6. LanesOf(shared.interleaved) \in SUBSET UpdateLanes
  BY <1>1, LanesOfType
<1> QED BY <1>1, <1>2, <1>3, <1>4, <1>5, <1>6

LEMMA HookPassProcessed ==
  ASSUME IInv, Clean, Takes
  PROVE  Processed(HookPass, Done')
<1>1. /\ Rebased(currentFiber.baseState, currentFiber.baseQueue \o shared.pending, Done')
      /\ EagersRight(Done') /\ Done' \in Seq(Updates)
  BY TakenIs
<1>2. currentFiber.baseState \in States
      /\ currentFiber.baseQueue \o shared.pending \in Seq(Updates)
  BY HookPassIs DEF IInv
<1>3. Processed(ProcessAll(rendering.lanes, currentFiber.baseState,
                           currentFiber.baseQueue \o shared.pending), Done')
  BY <1>1, <1>2, ProcessAllKeeps
<1> QED BY <1>3 DEF HookPass

\* The state a hook has before the updates it makes while it renders
HookState ==
  IF currentFiber.baseQueue \o shared.pending = <<>> THEN currentFiber.state
  ELSE HookPass.state

LEMMA HookStateIs ==
  ASSUME IInv, Clean, Takes, kind = "hook", HookPass.baseQueue = <<>>
  PROVE  HookState = Result(<<>>, Done') /\ HookPass.baseState = HookState
<1>1. HookPass.state = Result(<<>>, Done') /\ HookPass.baseState = HookPass.state
  BY HookPassProcessed DEF Processed
<1>2. CASE currentFiber.baseQueue \o shared.pending = <<>>
  <2>1. currentFiber.baseQueue = <<>> /\ currentFiber.baseState \in States
    BY <1>2, HookPassIs DEF IInv
  <2>2. currentFiber.state = currentFiber.baseState
    BY <2>1, CleanFacts DEF ScreenInv
  <2>3. Result(currentFiber.baseState, <<>>) = Result(<<>>, Done')
    <3>1. Rebased(currentFiber.baseState, <<>>, Done') /\ Done' \in Seq(Updates)
      BY <1>2, TakenIs
    <3>2. <<>> \in Seq(Updates)
      OBVIOUS
    <3> QED BY <2>1, <3>1, <3>2, RebasedResult
  <2>4. currentFiber.baseState = Result(<<>>, Done')
    BY <2>1, <2>3, ResultEmpty
  <2> QED BY <1>1, <1>2, <2>2, <2>4 DEF HookState
<1>3. CASE currentFiber.baseQueue \o shared.pending # <<>>
  BY <1>1, <1>3 DEF HookState
<1> QED BY <1>2, <1>3

\* The hook, the queue and the render after BeginHook; next is the state it renders.
HookBegun(newProps, renderPhase, next) ==
  LET bq == HookPass.baseQueue
      received == newProps \/ HookState # currentFiber.state \/ next # HookState
  IN  /\ Takes /\ kind' = kind /\ rootLanes' = rootLanes
      /\ alternateFiber' # <<>> /\ rendering' # <<>> /\ rendering # <<>>
      /\ rendering.phase = "begin"
      /\ alternateFiber'.lanes = HookPass.lanes \cup LanesOf(shared.interleaved)
      /\ alternateFiber'.state = next
      /\ alternateFiber'.baseState = (IF bq = <<>> /\ renderPhase # <<>> THEN next
                                      ELSE HookPass.baseState)
      /\ alternateFiber'.baseQueue = bq
      /\ currentFiber'.state = currentFiber.state
      /\ currentFiber'.baseState = currentFiber.baseState
      /\ currentFiber'.baseQueue = currentFiber.baseQueue \o shared.pending
      /\ currentFiber'.lanes = (IF received THEN currentFiber.lanes
                                ELSE currentFiber.lanes \ rendering.lanes)
      /\ rendering'.phase = "complete" /\ rendering'.cloned
      /\ rendering'.bailed = ~received
      /\ rendering'.extra = IF renderPhase # <<>> /\ bq = <<>>
                            THEN <<[at |-> Len(inserted) - Len(shared.interleaved),
                                    update |-> renderPhase[1]]>>
                            ELSE <<>>

LEMMA HookBegins ==
  ASSUME IInv, NEW newProps \in BOOLEAN, NEW renderPhase \in Seq(Updates),
         BeginHook(newProps, renderPhase)
  PROVE  /\ HookBegun(newProps, renderPhase, Result(HookState, renderPhase))
         /\ IsReached(newProps) /\ kind = "hook"
         /\ currentFiber' \in Fibers /\ alternateFiber' \in Fibers
         /\ shared' \in SharedQueues /\ rendering' \in Renders
<1> DEFINE queue == currentFiber.baseQueue \o shared.pending
           bq == HookPass.baseQueue
           next == Result(HookState, renderPhase)
           baseState == IF bq = <<>> /\ renderPhase # <<>> THEN next ELSE HookPass.baseState
           received == newProps \/ HookState # currentFiber.state \/ next # HookState
           curLanes == IF received THEN currentFiber.lanes
                       ELSE currentFiber.lanes \ rendering.lanes
           last == IF queue = <<>> /\ renderPhase = <<>> THEN shared.lastRenderedState ELSE next
           at == Len(inserted) - Len(shared.interleaved)
           extra == IF renderPhase # <<>> /\ bq = <<>>
                    THEN <<[at |-> at, update |-> renderPhase[1]]>> ELSE <<>>
<1>1. /\ kind = "hook" /\ rendering # <<>> /\ rendering.phase = "begin"
      /\ IsReached(newProps)
      /\ UNCHANGED <<kind, rootLanes, inserted>>
      /\ rendering' = [rendering EXCEPT !.phase = "complete", !.cloned = TRUE,
                                        !.bailed = ~received, !.extra = extra]
  BY DEF BeginHook, InPhase, HookState
<1>2. /\ alternateFiber' = QueueFiber(HookPass.lanes \cup LanesOf(shared.interleaved),
                                      next, baseState, bq)
      /\ currentFiber' = [currentFiber EXCEPT !.baseQueue = queue, !.lanes = curLanes]
      /\ shared' = [shared EXCEPT !.pending = <<>>, !.lastRenderedState = last]
  BY DEF BeginHook, HookState
<1>3. QueueTypeOK /\ ShapeInv
  BY DEF IInv
<1>4. /\ queue \in Seq(Updates) /\ currentFiber.state \in States
      /\ HookPass.lanes \cup LanesOf(shared.interleaved) \in SUBSET UpdateLanes
      /\ HookPass.state \in States /\ HookPass.baseState \in States
      /\ bq \in Seq(Updates)
  BY <1>3, HookPassIs
<1>5. HookState \in States
  BY <1>4 DEF HookState
<1>6. next \in States
  BY <1>5, ResultType
<1> HIDE DEF next
<1>7. baseState \in States
  BY <1>4, <1>6
<1>8. /\ shared \in SharedQueues /\ shared.lastRenderedState \in States
      /\ currentFiber \in Fibers /\ currentFiber.lanes \in SUBSET UpdateLanes
      /\ rendering \in Renders
  BY <1>1, <1>3, SharedFields, FiberFields DEF QueueTypeOK
<1>9. last \in States /\ curLanes \in SUBSET UpdateLanes /\ received \in BOOLEAN
  BY <1>6, <1>8
<1>10. extra \in Seq(Extras)
  <2>1. CASE renderPhase # <<>> /\ bq = <<>>
    <3>1. renderPhase[1] \in Updates
      BY <2>1, FirstOf
    <3>2. at \in Nat
      <4>1. Len(shared.pending) \in Nat /\ Len(shared.interleaved) \in Nat
        BY <1>8, SharedFields
      <4>2. Len(inserted) \in Nat
        BY <1>3 DEF QueueTypeOK
      <4>3. Len(shared.pending) + Len(shared.interleaved) <= Len(inserted)
        BY <1>3 DEF ShapeInv
      <4> QED BY <4>1, <4>2, <4>3, Sums
    <3> HIDE DEF at
    <3> QED BY <2>1, <3>1, <3>2, ExtraIs
  <2>2. CASE ~(renderPhase # <<>> /\ bq = <<>>)
    <3>1. <<>> \in Seq(Extras)
      OBVIOUS
    <3> QED BY <2>2, <3>1
  <2> QED BY <2>1, <2>2
<1> HIDE DEF baseState, last, curLanes, received, extra, queue, bq
<1>11. /\ alternateFiber' \in Fibers
       /\ alternateFiber'.lanes = HookPass.lanes \cup LanesOf(shared.interleaved)
       /\ alternateFiber'.state = next /\ alternateFiber'.baseState = baseState
       /\ alternateFiber'.baseQueue = bq
  BY <1>2, <1>4, <1>6, <1>7, FiberIs
<1>12. /\ currentFiber' \in Fibers
       /\ currentFiber'.state = currentFiber.state
       /\ currentFiber'.baseState = currentFiber.baseState
       /\ currentFiber'.baseQueue = queue /\ currentFiber'.lanes = curLanes
  BY <1>2, <1>4, <1>8, <1>9 DEF Fibers
<1>13. shared' \in SharedQueues /\ Takes
  BY <1>1, <1>2, <1>8, <1>9, TakenShared DEF Takes
<1>14. /\ rendering' \in Renders /\ rendering'.phase = "complete" /\ rendering'.cloned
       /\ rendering'.bailed = ~received /\ rendering'.extra = extra
  BY <1>1, <1>8, <1>9, <1>10 DEF Renders
<1>15. alternateFiber' # <<>> /\ rendering' # <<>>
  BY <1>11, <1>14, FiberFields, RenderFields
<1>16. HookBegun(newProps, renderPhase, next)
  BY <1>1, <1>11, <1>12, <1>13, <1>14, <1>15
     DEF HookBegun, baseState, curLanes, received, extra, queue, bq
<1> QED BY <1>1, <1>11, <1>12, <1>13, <1>14, <1>16 DEF next

LEMMA HookRenderKeeps ==
  ASSUME IInv, Clean, NEW newProps \in BOOLEAN, NEW renderPhase \in Seq(Updates),
         kind = "hook",
         NEW x, renderPhase # <<>> => x \in Updates /\ ~Eager(x) /\ renderPhase = <<x>>,
         NEW next, next = Result(HookState, renderPhase),
         HookBegun(newProps, renderPhase, next)
  PROVE  /\ RenderInv' /\ WorkInv'
         /\ next = HookState /\ alternateFiber'.lanes = {} =>
              HookState = Result(<<>>, inserted')
<1>1. Takes
  BY DEF HookBegun
<1>2. /\ QueueTypeOK /\ BaseInv
      /\ shared.interleaved \in Seq(Updates) /\ inserted \in Seq(Updates)
  BY CleanFacts
<1>3. /\ Done' \in Seq(Updates) /\ Waiting' = shared.interleaved
      /\ inserted' = Done' \o shared.interleaved /\ inserted' = inserted
  BY <1>1, TakenIs DEF Takes
<1>4. Processed(HookPass, Done')
  BY <1>1, HookPassProcessed
<1>5. HookPass.baseQueue = <<>> =>
        HookState = Result(<<>>, Done') /\ HookPass.baseState = HookState
  BY <1>1, HookStateIs
<1>6. HookState \in States
  BY <1>2, HookPassIs DEF HookState
<1>7. /\ renderPhase = <<>> => next = HookState
      /\ renderPhase # <<>> => next = Reduce(HookState, x)
  <2>1. renderPhase = <<>> => next = HookState
    BY <1>6, ResultEmpty
  <2>2. renderPhase # <<>> =>
          Result(HookState, Append(<<>>, x)) = Reduce(Result(HookState, <<>>), x)
    <3>1. <<>> \in Seq(Updates)
      OBVIOUS
    <3> QED BY <1>6, <3>1, ResultAppend
  <2>3. Append(<<>>, x) = <<x>>
    OBVIOUS
  <2> QED BY <1>6, <2>1, <2>2, <2>3, ResultEmpty
<1>8. Len(inserted) - Len(shared.interleaved) = Len(Done')
  <2>1. Len(inserted) = Len(Done') + Len(shared.interleaved)
        /\ Len(Done') \in Nat /\ Len(shared.interleaved) \in Nat /\ Len(inserted) \in Nat
    <3>1. PICK d : d = Done'
      OBVIOUS
    <3>2. Len(d \o shared.interleaved) = Len(d) + Len(shared.interleaved)
          /\ Len(d) \in Nat /\ Len(shared.interleaved) \in Nat
      BY <1>2, <1>3, <3>1, ConcatUpdates
    <3> QED BY <1>2, <1>3, <3>1, <3>2, LenNat
  <2> QED BY <2>1, Sums
<1>9. PICK extra, d : extra = rendering'.extra /\ d = Done'
  OBVIOUS
<1>10. /\ extra = IF renderPhase # <<>> /\ HookPass.baseQueue = <<>>
                  THEN <<[at |-> Len(d), update |-> x]>> ELSE <<>>
  <2>1. renderPhase # <<>> => renderPhase[1] = x
    OBVIOUS
  <2> QED BY <1>8, <1>9, <2>1 DEF HookBegun
<1>11. WithUpdate(d, extra) = IF renderPhase # <<>> /\ HookPass.baseQueue = <<>>
                              THEN Append(d, x) ELSE d
  <2>1. renderPhase # <<>> =>
          WithUpdate(d, <<[at |-> Len(d), update |-> x]>>) = Append(d, x)
    BY <1>3, <1>9, WithUpdateAtEnd
  <2>2. WithUpdate(d, <<>>) = d
    BY DEF WithUpdate
  <2> QED BY <1>10, <2>1, <2>2
<1>12. renderPhase # <<>> => Result(<<>>, Append(d, x)) = Reduce(Result(<<>>, d), x)
  BY <1>3, <1>9, NoState, ResultAppend
<1>13. ASSUME HookPass.baseQueue = <<>>
       PROVE  /\ next = Result(<<>>, WithUpdate(d, extra))
              /\ alternateFiber'.baseState = next
  <2>1. CASE renderPhase = <<>>
    <3>1. next = HookState /\ HookState = Result(<<>>, d) /\ HookPass.baseState = HookState
      BY <1>5, <1>7, <1>9, <1>13, <2>1
    <3>2. alternateFiber'.baseState = HookPass.baseState
      BY <2>1 DEF HookBegun
    <3> QED BY <1>11, <2>1, <3>1, <3>2
  <2>2. CASE renderPhase # <<>>
    <3>1. next = Reduce(Result(<<>>, d), x)
      BY <1>5, <1>7, <1>9, <1>13, <2>2
    <3>2. alternateFiber'.baseState = next
      BY <1>13, <2>2 DEF HookBegun
    <3> QED BY <1>11, <1>12, <1>13, <2>2, <3>1, <3>2
  <2> QED BY <2>1, <2>2
<1>14. Rebased(alternateFiber'.baseState, alternateFiber'.baseQueue, WithUpdate(d, extra))
  <2>1. alternateFiber'.baseQueue = HookPass.baseQueue
    BY DEF HookBegun
  <2>2. CASE HookPass.baseQueue = <<>>
    <3>1. WithUpdate(d, extra) \in Seq(Updates)
      BY <1>3, <1>9, <1>11, AppendProperties
    <3>2. Rebased(Result(<<>>, WithUpdate(d, extra)), <<>>, WithUpdate(d, extra))
      BY <3>1, RebasedNothing
    <3> QED BY <1>13, <2>1, <2>2, <3>2
  <2>3. CASE HookPass.baseQueue # <<>>
    <3>1. alternateFiber'.baseState = HookPass.baseState
      BY <2>3 DEF HookBegun
    <3>2. Rebased(HookPass.baseState, HookPass.baseQueue, d)
      BY <1>4, <1>9 DEF Processed
    <3> QED BY <1>11, <2>1, <2>3, <3>1, <3>2
  <2> QED BY <2>2, <2>3
<1>15. ExtraInv'
  <2> SUFFICES ASSUME extra # <<>>
               PROVE  /\ extra[1].at = Len(d) /\ ~Eager(extra[1].update)
                      /\ Len(d) <= Len(d) /\ shared'.pending = <<>>
    BY <1>9 DEF ExtraInv
  <2>1. extra = <<[at |-> Len(d), update |-> x]>>
    BY <1>10
  <2>2. extra[1].at = Len(d) /\ extra[1].update = x
    BY <2>1
  <2>3. Len(d) <= Len(d)
    <3>1. Len(d) \in Nat
      BY <1>3, <1>9, LenNat
    <3> QED BY <3>1
  <2>4. ~Eager(extra[1].update)
    BY <1>10, <2>2
  <2>5. shared'.pending = <<>>
    BY <1>1 DEF Takes
  <2> QED BY <2>2, <2>3, <2>4, <2>5
<1>16. RenderInv'
  BY <1>9, <1>14, <1>15 DEF RenderInv, HookBegun
<1>17. ASSUME alternateFiber'.lanes = {}
       PROVE  HookPass.baseQueue = <<>> /\ inserted' = d
  <2>1. HookPass.lanes = {} /\ LanesOf(shared.interleaved) = {}
    BY <1>17 DEF HookBegun
  <2>2. HookPass.baseQueue = <<>>
    BY <1>4, <2>1 DEF Processed
  <2>3. shared.interleaved = <<>>
    BY <1>2, <2>1, NoLanesLeft DEF BaseInv
  <2>4. d \o <<>> = d
    BY <1>3, <1>9, EmptyConcat
  <2> QED BY <1>3, <1>9, <2>2, <2>3, <2>4
<1>18. WorkInv'
  <2>1. alternateFiber'.baseQueue = <<>> => alternateFiber'.state = alternateFiber'.baseState
    BY <1>13 DEF HookBegun
  <2>2. alternateFiber'.lanes = {} =>
          alternateFiber'.state = Result(<<>>, WithUpdate(inserted', rendering'.extra))
    BY <1>9, <1>13, <1>17 DEF HookBegun
  <2> QED BY <2>1, <2>2 DEF WorkInv
<1>19. next = HookState /\ alternateFiber'.lanes = {} => HookState = Result(<<>>, inserted')
  BY <1>5, <1>9, <1>17
<1> QED BY <1>16, <1>18, <1>19

LEMMA BeginHookKeeps ==
  ASSUME IInv, NEW newProps \in BOOLEAN, NEW renderPhase \in Seq(Updates),
         NEW x, renderPhase # <<>> => x \in Updates /\ ~Eager(x) /\ renderPhase = <<x>>,
         BeginHook(newProps, renderPhase), called' \in [UpdateIds -> Int],
         surprises' = surprises \/ surprises' = surprises \cup {"renderPhase"}
  PROVE  IInv'
<1> DEFINE next == Result(HookState, renderPhase)
<1>1. /\ HookBegun(newProps, renderPhase, next)
      /\ IsReached(newProps) /\ kind = "hook"
      /\ currentFiber' \in Fibers /\ alternateFiber' \in Fibers
      /\ shared' \in SharedQueues /\ rendering' \in Renders
  BY HookBegins
<1>2. QueueTypeOK /\ ShapeInv /\ inserted \in Seq(Updates) /\ shared \in SharedQueues
  BY DEF IInv, QueueTypeOK
<1>3. kind' = kind /\ rootLanes' = rootLanes /\ inserted' = inserted /\ Takes
  BY <1>1 DEF HookBegun, Takes
<1>4. QueueTypeOK'
  BY <1>1, <1>2, <1>3 DEF QueueTypeOK, Surprises
<1>5. ShapeInv'
  <2>1. Len(shared'.pending) + Len(shared'.interleaved) <= Len(inserted')
    BY <1>2, <1>3, TakenShape
  <2>2. rendering'.phase = "complete" /\ alternateFiber' # <<>>
    BY <1>1 DEF HookBegun
  <2>3. rendering'.extra # <<>> => rendering'.extra[1].at <= Len(inserted')
    <3> SUFFICES ASSUME rendering'.extra # <<>>
                 PROVE  rendering'.extra[1].at <= Len(inserted')
      OBVIOUS
    <3>1. PICK n : n = Len(inserted) - Len(shared.interleaved)
      OBVIOUS
    <3>2. rendering'.extra = <<[at |-> n, update |-> renderPhase[1]]>>
      BY <1>1, <3>1 DEF HookBegun
    <3>3. rendering'.extra[1].at = n
      BY <3>2
    <3>4. Len(inserted) \in Nat /\ Len(shared.interleaved) \in Nat
      BY <1>2, SharedFields
    <3>5. n <= Len(inserted)
      BY <3>1, <3>4
    <3> QED BY <1>3, <3>3, <3>5
  <2> QED BY <1>1, <1>3, <2>1, <2>2, <2>3 DEF ShapeInv
<1>6. ASSUME Clean'
      PROVE  BaseInv' /\ RenderInv' /\ (kind' = "hook" => ScreenInv' /\ WorkInv')
  <2>1. Clean
    BY <1>6 DEF Clean
  <2>2. RenderInv' /\ WorkInv'
        /\ (next = HookState /\ alternateFiber'.lanes = {} =>
              HookState = Result(<<>>, inserted'))
    <3> HIDE DEF next
    <3>1. next = Result(HookState, renderPhase)
      BY DEF next
    <3> QED BY <1>1, <2>1, <3>1, HookRenderKeeps
  <2> HIDE DEF next
  <2>3. BaseInv'
    BY <1>1, <1>3, <2>1, TakenBaseInv DEF HookBegun
  <2>4. ScreenInv /\ RenderInv /\ currentFiber \in Fibers
    BY <1>1, <2>1, CleanFacts
  <2>5. rendering # <<>> /\ ~rendering.bailed
    BY <1>1, <2>4 DEF HookBegun, RenderInv
  <2> DEFINE received == newProps \/ HookState # currentFiber.state \/ next # HookState
  <2>6. /\ rendering'.bailed = ~received
        /\ currentFiber'.lanes = (IF received THEN currentFiber.lanes
                                  ELSE currentFiber.lanes \ rendering.lanes)
        /\ currentFiber'.state = currentFiber.state
        /\ currentFiber'.baseState = currentFiber.baseState
        /\ currentFiber'.baseQueue = currentFiber.baseQueue \o shared.pending
        /\ rendering' # <<>>
    BY <1>1 DEF HookBegun
  <2>7. ScreenInv'
    <3>1. currentFiber'.baseQueue = <<>> => currentFiber'.state = currentFiber'.baseState
      BY <1>2, <2>4, <2>6, HookPassIs DEF ScreenInv
    <3>2. currentFiber'.lanes \subseteq rootLanes'
      BY <1>3, <2>4, <2>6 DEF ScreenInv
    <3>3. rendering'.bailed => rootLanes' # {}
      <4> SUFFICES ASSUME ~received
                   PROVE  rootLanes # {}
        BY <1>3, <2>6
      <4>1. currentFiber.lanes \cap rendering.lanes # {}
        BY <1>1 DEF IsReached
      <4> QED BY <2>4, <4>1 DEF ScreenInv
    <3>4. ASSUME ~rendering'.bailed \/ alternateFiber'.lanes = {}, currentFiber'.lanes = {}
          PROVE  currentFiber'.state = Result(<<>>, inserted')
      <4>1. CASE received
        BY <1>3, <2>4, <2>5, <2>6, <3>4, <4>1 DEF ScreenInv
      <4>2. CASE ~received
        <5>1. next = HookState /\ HookState = currentFiber.state /\ alternateFiber'.lanes = {}
          BY <2>6, <3>4, <4>2
        <5> QED BY <2>2, <2>6, <5>1
      <4> QED BY <4>1, <4>2
    <3> HIDE DEF received
    <3> QED BY <2>6, <3>1, <3>2, <3>3, <3>4 DEF ScreenInv
  <2> QED BY <2>2, <2>3, <2>7
<1> QED BY <1>4, <1>5, <1>6 DEF IInv

LEMMA QuietKeeps ==
  ASSUME IInv, NEW newProps \in BOOLEAN, BeginHookQuietly(newProps)
  PROVE  IInv'
<1>1. BeginHook(newProps, <<>>) /\ called' = called /\ surprises' = surprises
  BY DEF BeginHookQuietly
<1>2. <<>> \in Seq(Updates) /\ called \in [UpdateIds -> Int]
  BY DEF IInv, QueueTypeOK
<1> QED BY <1>1, <1>2, BeginHookKeeps

LEMMA WithUpdateKeeps ==
  ASSUME IInv, NEW newProps \in BOOLEAN, NEW action \in UpdateActions,
         BeginHookWithUpdate(newProps, action)
  PROVE  IInv'
<1>1. PICK x : x = RenderPhaseUpdate(action)
  OBVIOUS
<1>2. /\ NextId \in UpdateIds /\ BeginHook(newProps, <<x>>)
      /\ called' = [called EXCEPT ![NextId] = 0]
      /\ surprises' = surprises \cup {"renderPhase"}
  BY <1>1 DEF BeginHookWithUpdate
<1>3. x \in Updates /\ ~Eager(x)
  <2>1. action \in {"append", "reset", "same"}
    BY QueueAssumption
  <2> QED BY <1>1, <1>2, <2>1, PlainUpdateIs DEF RenderPhaseUpdate
<1>4. <<x>> \in Seq(Updates)
  BY <1>3
<1>5. called' \in [UpdateIds -> Int]
  <2>1. called \in [UpdateIds -> Int] /\ 0 \in Int
    BY DEF IInv, QueueTypeOK
  <2> QED BY <1>2, <2>1
<1> QED BY <1>2, <1>3, <1>4, <1>5, BeginHookKeeps

\* The component throws: its queue is taken, its render is given up.
LEMMA ThrowKeeps ==
  ASSUME IInv, NEW newProps \in BOOLEAN, ThrowAfterUpdate(newProps)
  PROVE  IInv'
<1> DEFINE queue == currentFiber.baseQueue \o shared.pending
           lanes == HookPass.lanes \cup LanesOf(shared.interleaved)
           last == IF queue = <<>> THEN shared.lastRenderedState ELSE HookPass.state
<1>1. /\ kind = "hook" /\ rendering # <<>> /\ rendering.phase = "begin"
      /\ currentFiber' = [currentFiber EXCEPT !.baseQueue = queue]
      /\ alternateFiber' = Stale(QueueFiber(lanes, <<>>, <<>>, <<>>))
      /\ shared' = [shared EXCEPT !.pending = <<>>, !.lastRenderedState = last]
      /\ rendering' = <<>>
      /\ UNCHANGED <<kind, rootLanes, inserted, called, surprises>>
  BY DEF ThrowAfterUpdate, InPhase
<1>2. QueueTypeOK /\ ShapeInv /\ currentFiber \in Fibers /\ shared \in SharedQueues
      /\ inserted \in Seq(Updates)
  BY DEF IInv, QueueTypeOK
<1>3. /\ queue \in Seq(Updates) /\ lanes \in SUBSET UpdateLanes /\ HookPass.state \in States
      /\ queue = <<>> => currentFiber.baseQueue = <<>>
  BY <1>2, HookPassIs
<1>4. last \in States
  BY <1>2, <1>3, SharedFields
<1> HIDE DEF lanes, last
<1>5. /\ currentFiber' \in Fibers /\ currentFiber'.state = currentFiber.state
      /\ currentFiber'.baseState = currentFiber.baseState
      /\ currentFiber'.lanes = currentFiber.lanes /\ currentFiber'.baseQueue = queue
  <2> HIDE DEF queue
  <2> QED BY <1>1, <1>2, <1>3 DEF Fibers
<1>6. alternateFiber' \in Fibers \cup {<<>>}
  <2>1. PICK f : f = QueueFiber(lanes, <<>>, <<>>, <<>>)
    OBVIOUS
  <2>3. f.lanes = lanes
    BY <2>1 DEF QueueFiber
  <2> QED BY <1>1, <1>3, <2>1, <2>3, StaleType
<1>7. shared' \in SharedQueues /\ Takes
  BY <1>1, <1>2, <1>4, TakenShared DEF Takes
<1>8. QueueTypeOK'
  BY <1>1, <1>2, <1>5, <1>6, <1>7 DEF QueueTypeOK
<1>9. ShapeInv'
  <2>1. Len(shared'.pending) + Len(shared'.interleaved) <= Len(inserted')
    BY <1>2, <1>7, TakenShape
  <2> QED BY <1>1, <2>1 DEF ShapeInv
<1>10. ASSUME Clean'
       PROVE  BaseInv' /\ RenderInv' /\ (kind' = "hook" => ScreenInv' /\ WorkInv')
  <2>1. Clean
    BY <1>1, <1>10 DEF Clean
  <2>2. BaseInv'
    BY <1>1, <1>5, <1>7, <2>1, TakenBaseInv
  <2>3. ScreenInv /\ ~rendering.bailed
    BY <1>1, <2>1, CleanFacts DEF RenderInv
  <2>4. ScreenInv'
    <3> HIDE DEF queue
    <3> QED BY <1>1, <1>3, <1>5, <2>3 DEF ScreenInv
  <2> QED BY <1>1, <2>2, <2>4 DEF RenderInv, WorkInv
<1> QED BY <1>8, <1>9, <1>10 DEF IInv

-----------------------------------------------------------------------------
(* The theorems                                                              *)

LEMMA InitEstablishes ==
  QueueInit => IInv
<1> SUFFICES ASSUME QueueInit
             PROVE  IInv
  OBVIOUS
<1>1. /\ kind \in QueueKinds
      /\ currentFiber = QueueFiber({}, <<>>, <<>>, <<>>) /\ alternateFiber = <<>>
      /\ shared = [pending |-> <<>>, interleaved |-> <<>>, lastRenderedState |-> <<>>]
      /\ rendering = <<>> /\ rootLanes = {} /\ inserted = <<>>
      /\ called = [i \in UpdateIds |-> -1] /\ surprises = {}
  BY DEF QueueInit
<1>2. <<>> \in Seq(Updates) /\ <<>> \in States
  BY NoState
<1>3. /\ currentFiber \in Fibers /\ currentFiber.lanes = {} /\ currentFiber.state = <<>>
      /\ currentFiber.baseState = <<>> /\ currentFiber.baseQueue = <<>>
  <2>1. currentFiber = [lanes |-> {}, state |-> <<>>, baseState |-> <<>>,
                        baseQueue |-> <<>>]
    BY <1>1 DEF QueueFiber
  <2>2. {} \in SUBSET UpdateLanes
    OBVIOUS
  <2> QED BY <1>2, <2>1, <2>2 DEF Fibers
<1>4. shared \in SharedQueues
  BY <1>1, <1>2 DEF SharedQueues
<1>5. QueueTypeOK
  <2>1. called \in [UpdateIds -> Int]
    BY <1>1
  <2> QED BY <1>1, <1>2, <1>3, <1>4, <2>1, QueueAssumption DEF QueueTypeOK
<1>6. ShapeInv
  <2>1. Len(shared.pending) = 0 /\ Len(shared.interleaved) = 0 /\ Len(inserted) = 0
    BY <1>1
  <2>2. Len(shared.pending) + Len(shared.interleaved) <= Len(inserted)
    BY <2>1
  <2> QED BY <1>1, <2>2 DEF ShapeInv
<1>7. Waiting = <<>> /\ Done = <<>> /\ inserted = Done \o Waiting
  <2>1. <<>> \o <<>> = <<>>
    BY <1>2, EmptyConcat
  <2>2. Waiting = <<>>
    BY <1>1, <2>1 DEF Waiting
  <2>3. inserted = <<>> \o Waiting
    BY <1>1, <2>1, <2>2
  <2>4. Done = <<>>
    BY <1>2, <2>2, <2>3, DoneIn
  <2> QED BY <2>2, <2>3, <2>4
<1>8. Result(<<>>, <<>>) = <<>>
  BY <1>2, ResultEmpty
<1>9. BaseInv
  <2>1. Rebased(currentFiber.baseState, currentFiber.baseQueue, Done)
    BY <1>2, <1>3, <1>7, <1>8, RebasedNothing
  <2>2. 1..Len(inserted) = {} /\ 1..Len(shared.interleaved) = {}
    BY <1>1
  <2>3. EagersRight(inserted) /\ ~HasEager(inserted)
    BY <2>2 DEF EagersRight, HasEager
  <2> QED BY <1>2, <1>7, <2>1, <2>2, <2>3 DEF BaseInv
<1>10. RenderInv /\ WorkInv
  BY <1>1 DEF RenderInv, WorkInv
<1>11. ScreenInv
  BY <1>1, <1>3, <1>8 DEF ScreenInv
<1> QED BY <1>5, <1>6, <1>9, <1>10, <1>11 DEF IInv

LEMMA StutterKeeps ==
  ASSUME IInv, UNCHANGED queueVars
  PROVE  IInv'
<1>1. UNCHANGED <<kind, currentFiber, alternateFiber, shared, rendering, rootLanes, inserted,
                  called, surprises>>
  BY DEF queueVars
<1>2. QueueTypeOK' = QueueTypeOK /\ ShapeInv' = ShapeInv /\ Clean' = Clean
  BY <1>1 DEF QueueTypeOK, ShapeInv, Clean
<1>3. Waiting' = Waiting /\ Done' = Done
  BY <1>1 DEF Waiting, Done
<1>4. BaseInv' = BaseInv
  BY <1>1, <1>3 DEF BaseInv
<1>5. ExtraInv' = ExtraInv
  BY <1>1, <1>3 DEF ExtraInv
<1>6. RenderInv' = RenderInv
  BY <1>1, <1>3, <1>5 DEF RenderInv
<1>7. ScreenInv' = ScreenInv /\ WorkInv' = WorkInv
  BY <1>1 DEF ScreenInv, WorkInv
<1> QED BY <1>1, <1>2, <1>4, <1>6, <1>7 DEF IInv

LEMMA NextPreserves ==
  IInv /\ [QueueNext]_queueVars => IInv'
<1> SUFFICES ASSUME IInv, [QueueNext]_queueVars
             PROVE  IInv'
  OBVIOUS
<1>1. CASE \E lane \in UpdateLanes, action \in UpdateActions : Dispatch(lane, action)
  BY <1>1, DispatchKeeps
<1>2. CASE \E lanes \in (SUBSET UpdateLanes) \ {{}} : PrepareRender(lanes)
  BY <1>2, PrepareKeeps
<1>3. CASE NotReached
  BY <1>3, NotReachedKeeps
<1>4. CASE BailOutOfFiber
  BY <1>4, BailOutKeeps
<1>5. CASE \E newProps \in BOOLEAN : BeginClass(newProps)
  BY <1>5, BeginClassKeeps
<1>6. CASE CaptureError
  BY <1>6, CaptureErrorKeeps
<1>7. CASE BeginBoundaryAgain
  BY <1>7, BeginBoundaryAgainKeeps
<1>8. CASE \E newProps \in BOOLEAN : BeginHookQuietly(newProps)
  BY <1>8, QuietKeeps
<1>9. CASE \E newProps \in BOOLEAN, action \in UpdateActions :
             BeginHookWithUpdate(newProps, action)
  BY <1>9, WithUpdateKeeps
<1>10. CASE \E newProps \in BOOLEAN : ThrowAfterUpdate(newProps)
  BY <1>10, ThrowKeeps
<1>11. CASE CommitFiber
  BY <1>11, CommitKeeps
<1>12. CASE UNCHANGED queueVars
  BY <1>12, StutterKeeps
<1> QED
  BY <1>1, <1>2, <1>3, <1>4, <1>5, <1>6, <1>7, <1>8, <1>9, <1>10, <1>11, <1>12 DEF QueueNext

\* Every behaviour keeps IInv: through dispatchSetState, enqueueUpdate and
\* enqueueCapturedUpdate, processUpdateQueue, updateReducer, bailoutHooks,
\* resetHooksAfterThrow, prepareFreshStack and commitRoot, the base queue and the
\* base state of either fiber say all that its updates still have to do.
THEOREM QueueInvariance ==
  QueueSpec => []IInv
BY InitEstablishes, NextPreserves, PTL DEF QueueSpec

LEMMA FinalStateFollows ==
  IInv => FinalStateIsDeterministic
<1> SUFFICES ASSUME IInv, Clean
             PROVE  Result(currentFiber.baseState, Outstanding) = Result(<<>>, inserted)
  BY DEF FinalStateIsDeterministic, Clean
<1>1. /\ BaseInv /\ Done \in Seq(Updates) /\ currentFiber \in Fibers
      /\ shared.pending \in Seq(Updates) /\ shared.interleaved \in Seq(Updates)
      /\ inserted \in Seq(Updates)
      /\ inserted = Done \o (shared.pending \o shared.interleaved)
  BY CleanFacts
<1>2. PICK q, b, p, r : /\ q = currentFiber.baseQueue /\ b = currentFiber.baseState
                        /\ p = shared.pending /\ r = shared.interleaved
  OBVIOUS
<1>3. q \in Seq(Updates) /\ b \in States /\ p \in Seq(Updates) /\ r \in Seq(Updates)
  BY <1>1, <1>2, FiberFields
<1>4. Rebased(b, q \o p, Done \o p)
  BY <1>1, <1>2, <1>3, RebasedMore DEF BaseInv
<1>5. q \o p \in Seq(Updates) /\ Done \o p \in Seq(Updates)
  BY <1>1, <1>3, ConcatUpdates
<1>6. PICK s, t : s = q \o p /\ t = Done \o p
  OBVIOUS
<1>7. Rebased(b, s \o r, t \o r)
  BY <1>3, <1>4, <1>5, <1>6, RebasedMore
<1>8. s \o r \in Seq(Updates) /\ t \o r \in Seq(Updates)
  BY <1>3, <1>5, <1>6, ConcatUpdates
<1>9. Result(b, s \o r) = Result(<<>>, t \o r)
  BY <1>3, <1>7, <1>8, RebasedResult
<1>10. Outstanding = s \o r
  BY <1>2, <1>6 DEF Outstanding
<1>11. inserted = t \o r
  <2>1. Done \o (p \o r) = (Done \o p) \o r
    <3>1. Done \in Seq(Updates)
      BY <1>1
    <3>2. \A d1, d2, d3 \in Seq(Updates) : d1 \o (d2 \o d3) = (d1 \o d2) \o d3
      BY ConcatGroup
    <3> QED BY ONLY <1>3, <3>1, <3>2, Zenon
  <2> QED BY <1>1, <1>2, <1>6, <2>1
<1> QED BY <1>2, <1>9, <1>10, <1>11

\* In every behaviour without a dropped bailout or a stale eager state, processing
\* what is left of the queue gives what all updates give in insertion order:
\* processUpdateQueue and updateReducer lose, repeat and reorder none by skipping
\* and rebasing.
THEOREM FinalState ==
  QueueSpec => []FinalStateIsDeterministic
BY QueueInvariance, FinalStateFollows, PTL

LEMMA HookFollows ==
  IInv => HookIsUpToDate
<1> SUFFICES ASSUME IInv, kind = "hook", Clean, rootLanes = {}
             PROVE  currentFiber.state = Result(<<>>, inserted)
  BY DEF HookIsUpToDate, UpToDate, Clean
<1>1. ScreenInv
  BY CleanFacts
<1>2. currentFiber.lanes = {} /\ ~(rendering # <<>> /\ rendering.bailed)
  BY <1>1 DEF ScreenInv
<1> QED BY <1>1, <1>2 DEF ScreenInv

\* Once the root has no lanes left, a hook shows what all its updates give: neither the
\* eager bailout of dispatchSetState nor bailoutHooks nor an update that arrived
\* during a render (the interleaved lanes of updateReducer) made it miss one.
THEOREM HookUpToDate ==
  QueueSpec => []HookIsUpToDate
BY QueueInvariance, HookFollows, PTL

-----------------------------------------------------------------------------
(* The callbacks of a class                                                  *)

NoRepeat(callbacks) ==
  \A j, k \in 1..Len(callbacks) : callbacks[j] = callbacks[k] => j = k

InCalls(callbacks) == {callbacks[k] : k \in 1..Len(callbacks)}

Distinct(updates) ==
  \A j, k \in 1..Len(updates) : updates[j].id = updates[k].id => j = k

\* Of the updates ids, those in unshown and those whose callbacks are to be called
\* have not been called, the others once.
Counts(calls, unshown, callbacks, ids) ==
  /\ NoRepeat(callbacks)
  /\ InCalls(callbacks) \subseteq ids
  /\ InCalls(callbacks) \cap unshown = {}
  /\ \A i \in ids : calls[i] = IF i \in unshown \cup InCalls(callbacks) THEN 0 ELSE 1

Used == {i \in UpdateIds : called[i] >= 0}

ExtraNow == IF rendering = <<>> THEN <<>> ELSE rendering.extra

Waits == Unshown(shared.pending) \cup Unshown(shared.interleaved)

ScreenCounts ==
  Counts(called, Unshown(currentFiber.baseQueue) \cup Waits, <<>>, IdsOf(inserted))

WorkCounts ==
  rendering # <<>> =>
    /\ ~rendering.cloned => rendering.callbacks = <<>>
    /\ rendering.cloned =>
         Counts(called, Unshown(alternateFiber.baseQueue) \cup Waits, rendering.callbacks,
                IdsOf(WithUpdate(inserted, ExtraNow)))

CountInv ==
  kind = "class" =>
    /\ \E n \in Nat : Used = 1..n
    /\ Distinct(WithUpdate(inserted, ExtraNow))
    /\ ScreenCounts /\ WorkCounts

LEMMA IdsOfIs ==
  ASSUME NEW U \in Seq(Updates)
  PROVE  /\ IdsOf(U) = {U[i].id : i \in 1..Len(U)}
         /\ Unshown(U) = {U[i].id : i \in {j \in 1..Len(U) : U[j].lane # NoLane}}
         /\ Unshown(U) \subseteq IdsOf(U)
         /\ IdsOf(U) \subseteq UpdateIds
<1>1. DOMAIN U = 1..Len(U)
  OBVIOUS
<1>2. \A i \in 1..Len(U) : U[i].id \in UpdateIds
  <2>1. \A u \in Updates : u.id \in UpdateIds
    BY DEF Updates
  <2>2. \A i \in 1..Len(U) : U[i] \in Updates
    OBVIOUS
  <2> QED BY <2>1, <2>2
<1> QED BY <1>1, <1>2 DEF IdsOf, Unshown

LEMMA NoIds ==
  Unshown(<<>>) = {} /\ IdsOf(<<>>) = {} /\ InCalls(<<>>) = {}
  /\ NoRepeat(<<>>) /\ Distinct(<<>>)
<1>1. DOMAIN <<>> = {} /\ 1..Len(<<>>) = {}
  OBVIOUS
<1> QED BY <1>1 DEF Unshown, IdsOf, InCalls, NoRepeat, Distinct

LEMMA OneId ==
  ASSUME NEW x \in Updates
  PROVE  /\ <<x>> \in Seq(Updates) /\ IdsOf(<<x>>) = {x.id} /\ Distinct(<<x>>)
         /\ x.lane # NoLane => Unshown(<<x>>) = {x.id}
         /\ x.lane = NoLane => Unshown(<<x>>) = {}
<1>1. <<x>> \in Seq(Updates) /\ 1..Len(<<x>>) = {1} /\ <<x>>[1] = x
  OBVIOUS
<1>2. PICK U : U = <<x>>
  OBVIOUS
<1>3. U \in Seq(Updates) /\ 1..Len(U) = {1} /\ U[1] = x
  BY <1>1, <1>2
<1>4. /\ IdsOf(U) = {U[i].id : i \in {1}}
      /\ Unshown(U) = {U[i].id : i \in {j \in {1} : U[j].lane # NoLane}}
  BY <1>3, IdsOfIs
<1>5. \A j, k \in {1} : U[j].id = U[k].id => j = k
  OBVIOUS
<1>6. IdsOf(U) = {x.id} /\ Distinct(U)
  BY <1>3, <1>4, <1>5 DEF Distinct
<1>7. x.lane # NoLane => Unshown(U) = {x.id}
  BY <1>3, <1>4
<1>8. x.lane = NoLane => Unshown(U) = {}
  BY <1>3, <1>4
<1> QED BY <1>2, <1>3, <1>6, <1>7, <1>8

\* Updates put after others
ConcatIds(W, U, r) ==
  /\ IdsOf(W) = IdsOf(U) \cup IdsOf(r)
  /\ Unshown(W) = Unshown(U) \cup Unshown(r)
  /\ Distinct(W) <=> Distinct(U) /\ Distinct(r) /\ IdsOf(U) \cap IdsOf(r) = {}

LEMMA IdsOfConcat ==
  ASSUME NEW U \in Seq(Updates), NEW r \in Seq(Updates)
  PROVE  ConcatIds(U \o r, U, r)
<1>1. PICK W, l, m : W = U \o r /\ l = Len(U) /\ m = Len(r)
  OBVIOUS
<1>2. /\ W \in Seq(Updates) /\ Len(W) = l + m /\ l \in Nat /\ m \in Nat
      /\ \A i \in 1..(l + m) : W[i] = IF i <= l THEN U[i] ELSE r[i - l]
  BY <1>1, ConcatProperties
<1>3. \A i \in 1..l : i \in 1..(l + m) /\ W[i] = U[i]
  BY <1>2
<1>4. \A i \in 1..m : l + i \in 1..(l + m) /\ W[l + i] = r[i]
  <2> SUFFICES ASSUME NEW i \in 1..m
               PROVE  l + i \in 1..(l + m) /\ W[l + i] = r[i]
    OBVIOUS
  <2>1. l + i \in 1..(l + m) /\ ~(l + i <= l) /\ (l + i) - l = i
    BY <1>2
  <2> QED BY <1>2, <2>1
<1>5. \A i \in 1..(l + m) : i \in 1..l \/ \E j \in 1..m : i = l + j
  <2> SUFFICES ASSUME NEW i \in 1..(l + m), i \notin 1..l
               PROVE  \E j \in 1..m : i = l + j
    OBVIOUS
  <2>1. i - l \in 1..m /\ i = l + (i - l)
    BY <1>2
  <2> QED BY <2>1
<1>6. /\ IdsOf(W) = {W[i].id : i \in 1..(l + m)}
      /\ IdsOf(U) = {U[i].id : i \in 1..l} /\ IdsOf(r) = {r[i].id : i \in 1..m}
      /\ Unshown(W) = {W[i].id : i \in {j \in 1..(l + m) : W[j].lane # NoLane}}
      /\ Unshown(U) = {U[i].id : i \in {j \in 1..l : U[j].lane # NoLane}}
      /\ Unshown(r) = {r[i].id : i \in {j \in 1..m : r[j].lane # NoLane}}
  BY <1>1, <1>2, IdsOfIs
<1>7. IdsOf(W) = IdsOf(U) \cup IdsOf(r)
  <2>1. ASSUME NEW d \in IdsOf(W)
        PROVE  d \in IdsOf(U) \cup IdsOf(r)
    BY <1>3, <1>4, <1>5, <1>6
  <2>2. ASSUME NEW d \in IdsOf(U) \cup IdsOf(r)
        PROVE  d \in IdsOf(W)
    BY <1>3, <1>4, <1>6
  <2> QED BY <2>1, <2>2
<1>8. Unshown(W) = Unshown(U) \cup Unshown(r)
  <2>1. ASSUME NEW d \in Unshown(W)
        PROVE  d \in Unshown(U) \cup Unshown(r)
    <3>1. PICK i \in 1..(l + m) : d = W[i].id /\ W[i].lane # NoLane
      BY <1>6
    <3> QED BY <1>3, <1>4, <1>5, <1>6, <3>1
  <2>2. ASSUME NEW d \in Unshown(U)
        PROVE  d \in Unshown(W)
    <3>1. PICK i \in 1..l : d = U[i].id /\ U[i].lane # NoLane
      BY <1>6
    <3>2. i \in 1..(l + m) /\ d = W[i].id /\ W[i].lane # NoLane
      BY <1>3, <3>1
    <3> QED BY <1>6, <3>2
  <2>3. ASSUME NEW d \in Unshown(r)
        PROVE  d \in Unshown(W)
    <3>1. PICK i \in 1..m : d = r[i].id /\ r[i].lane # NoLane
      BY <1>6
    <3>2. l + i \in 1..(l + m) /\ d = W[l + i].id /\ W[l + i].lane # NoLane
      BY <1>4, <3>1
    <3> QED BY <1>6, <3>2
  <2> QED BY <2>1, <2>2, <2>3
<1>9. ASSUME Distinct(W)
      PROVE  Distinct(U) /\ Distinct(r) /\ IdsOf(U) \cap IdsOf(r) = {}
  <2>1. \A j, k \in 1..(l + m) : W[j].id = W[k].id => j = k
    BY <1>2, <1>9 DEF Distinct
  <2>2. Distinct(U)
    BY <1>1, <1>3, <2>1 DEF Distinct
  <2>3. Distinct(r)
    <3>1. ASSUME NEW j \in 1..m, NEW k \in 1..m, r[j].id = r[k].id
          PROVE  j = k
      <4>1. l + j = l + k
        BY <1>4, <2>1, <3>1
      <4> QED BY <1>2, <4>1
    <3> QED BY <1>1, <3>1 DEF Distinct
  <2>4. ASSUME NEW d \in IdsOf(U), d \in IdsOf(r)
        PROVE  FALSE
    <3>1. PICK j \in 1..l, k \in 1..m : d = U[j].id /\ d = r[k].id
      BY <1>6, <2>4
    <3>2. j \in 1..(l + m) /\ W[j] = U[j]
      BY <1>3
    <3>3. l + k \in 1..(l + m) /\ W[l + k] = r[k]
      BY <1>4
    <3>4. j = l + k
      BY <2>1, <3>1, <3>2, <3>3
    <3> QED BY <1>2, <3>4
  <2> QED BY <2>2, <2>3, <2>4
<1>10. ASSUME Distinct(U), Distinct(r), IdsOf(U) \cap IdsOf(r) = {}
       PROVE  Distinct(W)
  <2>1. /\ \A j, k \in 1..l : U[j].id = U[k].id => j = k
        /\ \A j, k \in 1..m : r[j].id = r[k].id => j = k
    BY <1>1, <1>10 DEF Distinct
  <2>2. \A j \in 1..l, k \in 1..m : U[j].id # r[k].id
    BY <1>6, <1>10
  <2>3. ASSUME NEW j \in 1..(l + m), NEW k \in 1..(l + m), W[j].id = W[k].id
        PROVE  j = k
    <3>1. CASE j \in 1..l /\ k \in 1..l
      BY <1>3, <2>1, <2>3, <3>1
    <3>2. CASE j \in 1..l /\ k \notin 1..l
      BY <1>3, <1>4, <1>5, <2>2, <2>3, <3>2
    <3>3. CASE j \notin 1..l /\ k \in 1..l
      BY <1>3, <1>4, <1>5, <2>2, <2>3, <3>3
    <3>4. CASE j \notin 1..l /\ k \notin 1..l
      <4>1. PICK jj \in 1..m, kk \in 1..m : j = l + jj /\ k = l + kk
        BY <1>5, <3>4
      <4> QED BY <1>4, <2>1, <2>3, <4>1
    <3> QED BY <3>1, <3>2, <3>3, <3>4
  <2> QED BY <1>2, <2>3 DEF Distinct
<1> QED BY <1>1, <1>7, <1>8, <1>9, <1>10 DEF ConcatIds

LEMMA IdsOfAppend ==
  ASSUME NEW U \in Seq(Updates), NEW x \in Updates
  PROVE  /\ Append(U, x) \in Seq(Updates)
         /\ IdsOf(Append(U, x)) = IdsOf(U) \cup {x.id}
         /\ x.lane # NoLane => Unshown(Append(U, x)) = Unshown(U) \cup {x.id}
         /\ x.lane = NoLane => Unshown(Append(U, x)) = Unshown(U)
         /\ Distinct(Append(U, x)) <=> Distinct(U) /\ x.id \notin IdsOf(U)
<1>1. Append(U, x) = U \o <<x>> /\ Append(U, x) \in Seq(Updates)
  BY AppendIsConcat, AppendProperties
<1>2. /\ <<x>> \in Seq(Updates) /\ IdsOf(<<x>>) = {x.id} /\ Distinct(<<x>>)
      /\ x.lane # NoLane => Unshown(<<x>>) = {x.id}
      /\ x.lane = NoLane => Unshown(<<x>>) = {}
  BY OneId
<1>3. PICK y : y = <<x>>
  OBVIOUS
<1>4. ConcatIds(U \o y, U, y)
  BY <1>2, <1>3, IdsOfConcat
<1>5. ConcatIds(Append(U, x), U, y)
  BY <1>1, <1>3, <1>4
<1> QED BY <1>1, <1>2, <1>3, <1>5 DEF ConcatIds

LEMMA IdsOfWithUpdate ==
  ASSUME NEW U \in Seq(Updates), NEW extra \in Seq(Extras), extra # <<>>,
         extra[1].at <= Len(U)
  PROVE  /\ IdsOf(WithUpdate(U, extra)) = IdsOf(U) \cup {extra[1].update.id}
         /\ Distinct(WithUpdate(U, extra)) <=>
              Distinct(U) /\ extra[1].update.id \notin IdsOf(U)
<1>1. PICK n, x : n = extra[1].at /\ x = extra[1].update
  OBVIOUS
<1>2. n \in Nat /\ x \in Updates /\ n <= Len(U) /\ Len(U) \in Nat /\ n \in 0..Len(U)
  <2>1. extra[1] \in Extras
    BY FirstOf
  <2> QED BY <1>1, <2>1, LenNat DEF Extras
<1>3. PICK a, z, m : /\ m = n + 1
                     /\ a = SubSeq(U, 1, n) /\ z = SubSeq(U, m, Len(U))
  OBVIOUS
<1>4. a \in Seq(Updates)
  BY <1>2, <1>3, Prefix
<1>5. z \in Seq(Updates)
  <2>1. m \in Int /\ Len(U) \in Int /\ \A i \in m..Len(U) : U[i] \in Updates
    BY <1>2, <1>3
  <2> QED BY <1>3, <2>1, SubSeqProperties
<1>6. U = a \o z
  <2>1. 1 \in 1..(Len(U) + 1) /\ n \in (1 - 1)..Len(U) /\ Len(U) \in n..Len(U)
    BY <1>2
  <2>2. SubSeq(U, 1, n) \o SubSeq(U, n + 1, Len(U)) = SubSeq(U, 1, Len(U))
    BY <2>1, ConcatAdjacentSubSeq
  <2> QED BY <1>3, <2>2, Whole
<1>7. PICK b : b = Append(a, x)
  OBVIOUS
<1>8. WithUpdate(U, extra) = b \o z
  <2>1. WithUpdate(U, extra) = InsertAt(U, m, x)
    BY <1>1, <1>3 DEF WithUpdate
  <2>2. m - 1 = n
    BY <1>2, <1>3
  <2>3. InsertAt(U, m, x) = (a \o <<x>>) \o z
    BY <1>3, <2>2 DEF InsertAt
  <2>4. b = a \o <<x>>
    BY <1>2, <1>4, <1>7, AppendIsConcat
  <2> QED BY <2>1, <2>3, <2>4
<1>9. ConcatIds(U, a, z)
  BY <1>4, <1>5, <1>6, IdsOfConcat
<1>10. b \in Seq(Updates) /\ IdsOf(b) = IdsOf(a) \cup {x.id}
       /\ (Distinct(b) <=> Distinct(a) /\ x.id \notin IdsOf(a))
  BY <1>2, <1>4, <1>7, IdsOfAppend
<1>11. ConcatIds(WithUpdate(U, extra), b, z)
  <2>1. ConcatIds(b \o z, b, z)
    BY <1>5, <1>10, IdsOfConcat
  <2> QED BY <1>8, <2>1
<1>12. IdsOf(WithUpdate(U, extra)) = IdsOf(U) \cup {x.id}
  BY <1>9, <1>10, <1>11 DEF ConcatIds
<1>13. Distinct(WithUpdate(U, extra)) <=> Distinct(U) /\ x.id \notin IdsOf(U)
  BY <1>9, <1>10, <1>11 DEF ConcatIds
<1> QED BY <1>1, <1>12, <1>13

LEMMA RebasedIds ==
  ASSUME NEW U \in Seq(Updates), NEW q \in Seq(Updates), NEW b, Rebased(b, q, U), Distinct(U)
  PROVE  Distinct(q) /\ IdsOf(q) \subseteq IdsOf(U)
<1>1. PICK l, m : l = Len(U) /\ m = Len(q)
  OBVIOUS
<1>2. l \in Nat /\ m \in Nat /\ m <= l
  BY <1>1, LenNat DEF Rebased
<1>3. \A i \in 1..m : (l - m) + i \in 1..l /\ q[i].id = U[(l - m) + i].id
  <2>1. \A i \in 1..m : (l - m) + i \in 1..l
    BY <1>2
  <2>2. \A i \in 1..m : SameUpdate(q[i], U[(l - m) + i])
    BY <1>1 DEF Rebased
  <2> QED BY <2>1, <2>2 DEF SameUpdate
<1>4. \A j, k \in 1..l : U[j].id = U[k].id => j = k
  BY <1>1 DEF Distinct
<1>5. Distinct(q)
  <2>1. ASSUME NEW j \in 1..m, NEW k \in 1..m, q[j].id = q[k].id
        PROVE  j = k
    <3>1. (l - m) + j = (l - m) + k
      BY <1>3, <1>4, <2>1
    <3> QED BY <1>2, <3>1
  <2> QED BY <1>1, <2>1 DEF Distinct
<1>6. IdsOf(q) \subseteq IdsOf(U)
  <2>1. IdsOf(q) = {q[i].id : i \in 1..m} /\ IdsOf(U) = {U[i].id : i \in 1..l}
    BY <1>1, IdsOfIs
  <2> QED BY <1>3, <2>1
<1> QED BY <1>5, <1>6

LEMMA CallsAppend ==
  ASSUME NEW cb \in Seq(UpdateIds), NEW i \in UpdateIds, NoRepeat(cb), i \notin InCalls(cb)
  PROVE  /\ Append(cb, i) \in Seq(UpdateIds) /\ NoRepeat(Append(cb, i))
         /\ InCalls(Append(cb, i)) = InCalls(cb) \cup {i}
<1>1. PICK p, l, m : p = Append(cb, i) /\ l = Len(cb) /\ m = l + 1
  OBVIOUS
<1>2. /\ p \in Seq(UpdateIds) /\ Len(p) = m /\ l \in Nat /\ m = l + 1
      /\ p[m] = i /\ \A k \in 1..l : p[k] = cb[k]
  BY <1>1, AppendProperties
<1>3. InCalls(cb) = {cb[k] : k \in 1..l} /\ InCalls(p) = {p[k] : k \in 1..m}
  BY <1>1, <1>2 DEF InCalls
<1>4. \A k \in 1..m : k \in 1..l \/ k = m
  BY <1>2
<1>5. m \in 1..m /\ \A k \in 1..l : k \in 1..m
  BY <1>2
<1>6. InCalls(p) = InCalls(cb) \cup {i}
  BY <1>2, <1>3, <1>4, <1>5
<1>7. ASSUME NEW j \in 1..m, NEW k \in 1..m, p[j] = p[k]
      PROVE  j = k
  <2>1. \A jj, kk \in 1..l : cb[jj] = cb[kk] => jj = kk
    BY <1>1 DEF NoRepeat
  <2>2. \A kk \in 1..l : cb[kk] # i
    BY <1>3
  <2> QED BY <1>2, <1>4, <1>7, <2>1, <2>2
<1>8. NoRepeat(p)
  BY <1>2, <1>7 DEF NoRepeat
<1> QED BY <1>1, <1>2, <1>6, <1>8

LEMMA CallsConcat ==
  ASSUME NEW cb \in Seq(UpdateIds), NEW more \in Seq(UpdateIds),
         NoRepeat(cb), NoRepeat(more), InCalls(cb) \cap InCalls(more) = {}
  PROVE  NoRepeat(cb \o more) /\ InCalls(cb \o more) = InCalls(cb) \cup InCalls(more)
<1>1. PICK W, l, m : W = cb \o more /\ l = Len(cb) /\ m = Len(more)
  OBVIOUS
<1>2. /\ Len(W) = l + m /\ l \in Nat /\ m \in Nat
      /\ \A i \in 1..(l + m) : W[i] = IF i <= l THEN cb[i] ELSE more[i - l]
  BY <1>1, ConcatProperties
<1>3. \A i \in 1..l : i \in 1..(l + m) /\ W[i] = cb[i]
  BY <1>2
<1>4. \A i \in 1..m : l + i \in 1..(l + m) /\ W[l + i] = more[i]
  <2> SUFFICES ASSUME NEW i \in 1..m
               PROVE  l + i \in 1..(l + m) /\ W[l + i] = more[i]
    OBVIOUS
  <2>1. l + i \in 1..(l + m) /\ ~(l + i <= l) /\ (l + i) - l = i
    BY <1>2
  <2> QED BY <1>2, <2>1
<1>5. \A i \in 1..(l + m) : i \in 1..l \/ \E j \in 1..m : i = l + j
  <2> SUFFICES ASSUME NEW i \in 1..(l + m), i \notin 1..l
               PROVE  \E j \in 1..m : i = l + j
    OBVIOUS
  <2>1. i - l \in 1..m /\ i = l + (i - l)
    BY <1>2
  <2> QED BY <2>1
<1>6. /\ InCalls(cb) = {cb[k] : k \in 1..l} /\ InCalls(more) = {more[k] : k \in 1..m}
      /\ InCalls(W) = {W[k] : k \in 1..(l + m)}
  BY <1>1, <1>2 DEF InCalls
<1>7. InCalls(W) = InCalls(cb) \cup InCalls(more)
  BY <1>3, <1>4, <1>5, <1>6
<1>8. /\ \A j, k \in 1..l : cb[j] = cb[k] => j = k
      /\ \A j, k \in 1..m : more[j] = more[k] => j = k
      /\ \A j \in 1..l, k \in 1..m : cb[j] # more[k]
  <2>1. \A j \in 1..l, k \in 1..m : cb[j] # more[k]
    BY <1>6
  <2> QED BY <1>1, <2>1 DEF NoRepeat
<1>9. ASSUME NEW j \in 1..(l + m), NEW k \in 1..(l + m), W[j] = W[k]
      PROVE  j = k
  <2>1. CASE j \in 1..l /\ k \in 1..l
    BY <1>3, <1>8, <1>9, <2>1
  <2>2. CASE j \in 1..l /\ k \notin 1..l
    BY <1>3, <1>4, <1>5, <1>8, <1>9, <2>2
  <2>3. CASE j \notin 1..l /\ k \in 1..l
    BY <1>3, <1>4, <1>5, <1>8, <1>9, <2>3
  <2>4. CASE j \notin 1..l /\ k \notin 1..l
    <3>1. PICK jj \in 1..m, kk \in 1..m : j = l + jj /\ k = l + kk
      BY <1>5, <2>4
    <3> QED BY <1>4, <1>8, <1>9, <3>1
  <2> QED BY <2>1, <2>2, <2>3, <2>4
<1>10. NoRepeat(W)
  BY <1>2, <1>9 DEF NoRepeat
<1> QED BY <1>1, <1>7, <1>10

\* Of the updates un whose effect is to be shown, those of the callbacks and those
\* left in the base queue
Sorted(acc, un) ==
  /\ NoRepeat(acc.callbacks)
  /\ InCalls(acc.callbacks) \cup Unshown(acc.baseQueue) = un
  /\ InCalls(acc.callbacks) \cap Unshown(acc.baseQueue) = {}

LEMMA SortedNext ==
  ASSUME NEW renderLanes, NEW acc \in Accs, NEW u \in Updates, NEW un, Sorted(acc, un),
         u.id \notin un
  PROVE  Sorted(Process(renderLanes, acc, u), IF u.lane = NoLane THEN un ELSE un \cup {u.id})
<1>1. PICK p : p = Process(renderLanes, acc, u)
  OBVIOUS
<1>2. /\ acc.callbacks \in Seq(UpdateIds) /\ acc.baseQueue \in Seq(Updates)
      /\ u.id \in UpdateIds
  BY DEF Accs, Updates
<1>3. /\ NoRepeat(acc.callbacks) /\ InCalls(acc.callbacks) \cup Unshown(acc.baseQueue) = un
      /\ InCalls(acc.callbacks) \cap Unshown(acc.baseQueue) = {}
  BY DEF Sorted
<1>4. CASE Skips(renderLanes, u)
  <2>1. u.lane # NoLane /\ p.baseQueue = Append(acc.baseQueue, u)
        /\ p.callbacks = acc.callbacks
    <3>1. Skipped(p, acc, u)
      BY <1>1, <1>4, ProcessSkips
    <3>2. u.lane # NoLane
      BY <1>4 DEF Skips
    <3> QED BY <3>1, <3>2 DEF Skipped
  <2>2. Unshown(p.baseQueue) = Unshown(acc.baseQueue) \cup {u.id}
    BY <1>2, <2>1, IdsOfAppend
  <2>3. Sorted(p, un \cup {u.id})
    BY <1>3, <2>1, <2>2 DEF Sorted
  <2> QED BY <1>1, <2>1, <2>3
<1>5. CASE ~Skips(renderLanes, u)
  <2>1. /\ p.baseQueue = IF acc.baseQueue = <<>> THEN <<>>
                         ELSE Append(acc.baseQueue, [u EXCEPT !.lane = NoLane])
        /\ p.callbacks = IF u.lane # NoLane THEN Append(acc.callbacks, u.id)
                         ELSE acc.callbacks
    BY <1>1, <1>5, ProcessApplies DEF Applied
  <2>2. Unshown(p.baseQueue) = Unshown(acc.baseQueue)
    <3>1. PICK v : v = [u EXCEPT !.lane = NoLane]
      OBVIOUS
    <3>2. v \in Updates /\ v.lane = NoLane
      BY <3>1, RebasedUpdate
    <3>3. Unshown(Append(acc.baseQueue, v)) = Unshown(acc.baseQueue)
      BY <1>2, <3>2, IdsOfAppend
    <3> QED BY <2>1, <3>1, <3>3
  <2>3. u.id \notin InCalls(acc.callbacks)
    BY <1>3
  <2>4. CASE u.lane = NoLane
    <3>1. Sorted(p, un)
      BY <1>3, <2>1, <2>2, <2>4 DEF Sorted
    <3> QED BY <1>1, <2>4, <3>1
  <2>5. CASE u.lane # NoLane
    <3>1. NoRepeat(p.callbacks) /\ InCalls(p.callbacks) = InCalls(acc.callbacks) \cup {u.id}
      BY <1>2, <1>3, <2>1, <2>3, <2>5, CallsAppend
    <3>2. Sorted(p, un \cup {u.id})
      BY <1>3, <2>2, <3>1 DEF Sorted
    <3> QED BY <1>1, <2>5, <3>2
  <2> QED BY <2>4, <2>5
<1> QED BY <1>4, <1>5

LEMMA PrefixNext ==
  ASSUME NEW U \in Seq(Updates), NEW k \in 0..(Len(U) - 1), Distinct(U)
  PROVE  /\ SubSeq(U, 1, k) \in Seq(Updates)
         /\ SubSeq(U, 1, k + 1) = Append(SubSeq(U, 1, k), U[k + 1])
         /\ U[k + 1] \in Updates /\ U[k + 1].id \notin IdsOf(SubSeq(U, 1, k))
<1>1. PICK p, m, n : p = SubSeq(U, 1, k) /\ m = k + 1 /\ n = Len(U)
  OBVIOUS
<1>2. /\ n \in Nat /\ k \in 0..n /\ m \in 1..n /\ \A i \in 1..k : i \in 1..n /\ i # m
  BY <1>1, LenNat
<1>3. p \in Seq(Updates) /\ Len(p) = k /\ \A i \in 1..k : p[i] = U[i]
  BY <1>1, <1>2, Prefix
<1>4. SubSeq(U, 1, m) = Append(p, U[m])
  <2>1. 1 \in 1..n /\ m \in 1..n /\ m - 1 = k
    BY <1>1, <1>2
  <2>2. SubSeq(U, 1, m) = Append(SubSeq(U, 1, m - 1), U[m])
    BY <1>1, <2>1, SubSeqRecursiveSecond
  <2> QED BY <1>1, <2>1, <2>2
<1>5. U[m] \in Updates
  BY <1>1, <1>2
<1>6. ASSUME U[m].id \in IdsOf(p)
      PROVE  FALSE
  <2>1. PICK i \in 1..k : U[m].id = U[i].id
    BY <1>3, <1>6, IdsOfIs
  <2> QED BY <1>1, <1>2, <2>1 DEF Distinct
<1> QED BY <1>1, <1>3, <1>4, <1>5, <1>6

LEMMA ProcessAllSorts ==
  ASSUME NEW renderLanes, NEW b \in States, NEW q \in Seq(Updates), Distinct(q)
  PROVE  Sorted(ProcessAll(renderLanes, b, q), Unshown(q))
<1> DEFINE N == Len(q)
           Z == {k \in 0..N : \A f : Pass(f, renderLanes, b, q) =>
                                Sorted(f[k], Unshown(SubSeq(q, 1, k)))}
<1>1. N \in Nat
  BY LenNat
<1> HIDE DEF N
<1>2. 0 \in Z
  <2> SUFFICES ASSUME NEW f, Pass(f, renderLanes, b, q)
               PROVE  Sorted(f[0], Unshown(SubSeq(q, 1, 0)))
    BY <1>1
  <2>1. f[0].baseQueue = <<>> /\ f[0].callbacks = <<>>
    BY DEF Pass, StartOf
  <2>2. SubSeq(q, 1, 0) = <<>>
    BY SubSeqEmpty
  <2> QED BY <2>1, <2>2, NoIds DEF Sorted
<1>3. ASSUME NEW k \in 0..N, k \in Z, k < N
      PROVE  k + 1 \in Z
  <2> SUFFICES ASSUME NEW f, Pass(f, renderLanes, b, q)
               PROVE  k + 1 \in 0..N /\ Sorted(f[k + 1], Unshown(SubSeq(q, 1, k + 1)))
    BY <1>1, <1>3
  <2>1. /\ k + 1 \in 0..N /\ k + 1 \in 1..N /\ (k + 1) - 1 = k /\ k \in 0..(Len(q) - 1)
    BY <1>1, <1>3 DEF N
  <2>2. f[k + 1] = Process(renderLanes, f[k], q[k + 1]) /\ f[k] \in Accs
    BY <1>1, <1>3, <2>1 DEF Pass, N
  <2>3. PICK p, u, m : p = SubSeq(q, 1, k) /\ u = q[k + 1] /\ m = k + 1
    OBVIOUS
  <2>4. /\ p \in Seq(Updates) /\ SubSeq(q, 1, m) = Append(p, u)
        /\ u \in Updates /\ u.id \notin IdsOf(p)
    BY <2>1, <2>3, PrefixNext
  <2>5. Sorted(f[k], Unshown(p))
    BY <1>3, <2>3
  <2>6. u.id \notin Unshown(p)
    BY <2>4, IdsOfIs
  <2>7. Sorted(Process(renderLanes, f[k], u),
               IF u.lane = NoLane THEN Unshown(p) ELSE Unshown(p) \cup {u.id})
    BY <2>2, <2>4, <2>5, <2>6, SortedNext
  <2>8. Unshown(SubSeq(q, 1, m)) = IF u.lane = NoLane THEN Unshown(p)
                                   ELSE Unshown(p) \cup {u.id}
    <3>1. /\ u.lane # NoLane => Unshown(Append(p, u)) = Unshown(p) \cup {u.id}
          /\ u.lane = NoLane => Unshown(Append(p, u)) = Unshown(p)
      BY <2>4, IdsOfAppend
    <3> QED BY <2>4, <3>1
  <2>9. Sorted(f[m], Unshown(SubSeq(q, 1, m)))
    BY <2>2, <2>3, <2>7, <2>8
  <2> QED BY <2>1, <2>3, <2>9
<1>4. \A k \in 0..N : k \in Z
  <2> HIDE DEF Z
  <2> QED BY <1>1, <1>2, <1>3, UpToFrom
<1>5. PICK f : /\ Pass(f, renderLanes, b, q)
               /\ ProcessAll(renderLanes, b, q) = EndOf(f[N])
  BY ProcessAllPasses DEF N
<1>6. PICK acc : acc = f[N]
  OBVIOUS
<1>7. acc \in Accs /\ Sorted(acc, Unshown(q))
  <2>1. N \in 0..N /\ f[N] \in Accs
    BY <1>1, <1>5 DEF Pass, N
  <2>2. Sorted(f[N], Unshown(SubSeq(q, 1, N)))
    BY <1>4, <1>5, <2>1
  <2>3. SubSeq(q, 1, N) = q
    BY Whole DEF N
  <2> QED BY <1>6, <2>1, <2>2, <2>3
<1>8. EndOf(acc).baseQueue = acc.baseQueue /\ EndOf(acc).callbacks = acc.callbacks
  BY <1>7, EndFields
<1>9. Sorted(EndOf(acc), Unshown(q))
  BY <1>7, <1>8 DEF Sorted
<1> QED BY <1>5, <1>6, <1>9

-----------------------------------------------------------------------------
(* The steps of a class                                                      *)

\* What both invariants give
LEMMA ClassFacts ==
  ASSUME IInv, CountInv, kind = "class"
  PROVE  /\ Distinct(WithUpdate(inserted, ExtraNow)) /\ ScreenCounts /\ WorkCounts
         /\ Clean /\ BaseInv /\ RenderInv /\ ShapeInv
         /\ shared.pending \in Seq(Updates) /\ shared.interleaved \in Seq(Updates)
         /\ inserted \in Seq(Updates) /\ currentFiber \in Fibers
         /\ ExtraNow \in Seq(Extras) /\ called \in [UpdateIds -> Int]
         /\ rendering # <<>> => rendering \in Renders /\ ExtraNow = rendering.extra
         /\ ExtraNow # <<>> => ExtraNow[1].at <= Len(inserted)
<1>1. Clean
  BY DEF IInv, ShapeInv, Clean
<1>2. /\ QueueTypeOK /\ BaseInv /\ RenderInv /\ ShapeInv
      /\ shared.pending \in Seq(Updates) /\ shared.interleaved \in Seq(Updates)
      /\ inserted \in Seq(Updates) /\ currentFiber \in Fibers
  BY <1>1, CleanFacts
<1>3. rendering # <<>> => rendering \in Renders /\ rendering.extra \in Seq(Extras)
  BY <1>2, RenderFields DEF QueueTypeOK
<1>4. ExtraNow \in Seq(Extras)
  <2>1. <<>> \in Seq(Extras)
    OBVIOUS
  <2> QED BY <1>3, <2>1 DEF ExtraNow
<1>5. ExtraNow # <<>> => ExtraNow[1].at <= Len(inserted)
  BY <1>2 DEF ExtraNow, ShapeInv
<1>6. called \in [UpdateIds -> Int]
  BY <1>2 DEF QueueTypeOK
<1>7. rendering # <<>> => ExtraNow = rendering.extra
  BY DEF ExtraNow
<1>8. Distinct(WithUpdate(inserted, ExtraNow)) /\ ScreenCounts /\ WorkCounts
  BY DEF CountInv
<1> QED BY <1>1, <1>2, <1>3, <1>4, <1>5, <1>6, <1>7, <1>8

\* The id of the next update is in no use.
LEMMA NextIdIsNew ==
  ASSUME NEW n \in Nat, Used = 1..n, NextId \in UpdateIds
  PROVE  NextId = n + 1 /\ NextId \notin Used
<1>1. Cardinality(1..n) = n
  <2>1. 1 \in Int /\ n \in Int
    OBVIOUS
  <2>2. Cardinality(1..n) = IF 1 > n THEN 0 ELSE (n - 1) + 1
    BY <2>1, FS_Interval
  <2> QED BY <2>2
<1>2. NextId = n + 1
  BY <1>1 DEF NextId, Used
<1>3. n + 1 \notin 1..n
  OBVIOUS
<1> QED BY <1>2, <1>3

LEMMA UsedMore ==
  ASSUME NEW n \in Nat, Used = 1..n, NextId \in UpdateIds, called \in [UpdateIds -> Int],
         called' = [called EXCEPT ![NextId] = 0]
  PROVE  /\ Used' = 1..(n + 1) /\ called'[NextId] = 0
         /\ \A i \in Used : i # NextId /\ called'[i] = called[i]
<1>1. NextId = n + 1 /\ NextId \notin Used
  BY NextIdIsNew
<1>2. PICK m : m = NextId
  OBVIOUS
<1>3. m \in UpdateIds /\ called' = [called EXCEPT ![m] = 0] /\ m \notin Used
      /\ m = n + 1
  BY <1>1, <1>2
<1>4. /\ called'[m] = 0
      /\ \A i \in UpdateIds : i # m => called'[i] = called[i]
  BY <1>3
<1>5. Used' = {i \in UpdateIds : called'[i] >= 0}
  BY DEF Used
<1>6. Used' = Used \cup {m}
  BY <1>3, <1>4, <1>5 DEF Used
<1>7. 1..(n + 1) = (1..n) \cup {n + 1}
  OBVIOUS
<1>8. \A i \in Used : i \in UpdateIds /\ i # m
  BY <1>3 DEF Used
<1> QED BY <1>2, <1>3, <1>4, <1>6, <1>7, <1>8

LEMMA CountsMore ==
  ASSUME NEW c, NEW d, NEW un, NEW cb, NEW ids, Counts(c, un, cb, ids), NEW i, i \notin ids,
         d[i] = 0, \A j \in ids : d[j] = c[j]
  PROVE  Counts(d, un \cup {i}, cb, ids \cup {i})
<1>1. /\ NoRepeat(cb) /\ InCalls(cb) \subseteq ids /\ InCalls(cb) \cap un = {}
      /\ \A j \in ids : c[j] = IF j \in un \cup InCalls(cb) THEN 0 ELSE 1
  BY DEF Counts
<1>2. InCalls(cb) \cap (un \cup {i}) = {} /\ InCalls(cb) \subseteq ids \cup {i}
  BY <1>1
<1>3. \A j \in ids \cup {i} :
        d[j] = IF j \in (un \cup {i}) \cup InCalls(cb) THEN 0 ELSE 1
  BY <1>1
<1> QED BY <1>1, <1>2, <1>3 DEF Counts

LEMMA CountsSame ==
  ASSUME NEW c, NEW d, NEW un, NEW cb, NEW ids, Counts(c, un, cb, ids),
         \A j \in ids : d[j] = c[j]
  PROVE  Counts(d, un, cb, ids)
BY DEF Counts

LEMMA CountsProcessed ==
  ASSUME NEW c, NEW A, NEW B, NEW P, NEW R, NEW ids,
         NEW cb \in Seq(UpdateIds), NEW more \in Seq(UpdateIds),
         Counts(c, A \cup (P \cup R), cb, ids), A \cup P \subseteq ids,
         NoRepeat(more), InCalls(more) \cup B = A \cup P, InCalls(more) \cap B = {},
         InCalls(more) \cap R = {}
  PROVE  Counts(c, B \cup R, cb \o more, ids)
<1>1. /\ NoRepeat(cb) /\ InCalls(cb) \subseteq ids /\ InCalls(cb) \cap (A \cup (P \cup R)) = {}
      /\ \A j \in ids : c[j] = IF j \in (A \cup (P \cup R)) \cup InCalls(cb) THEN 0 ELSE 1
  BY DEF Counts
<1>2. InCalls(cb) \cap InCalls(more) = {}
  BY <1>1
<1>3. NoRepeat(cb \o more) /\ InCalls(cb \o more) = InCalls(cb) \cup InCalls(more)
  BY <1>1, <1>2, CallsConcat
<1>4. InCalls(cb \o more) \subseteq ids /\ InCalls(cb \o more) \cap (B \cup R) = {}
  BY <1>1, <1>3
<1>5. (B \cup R) \cup InCalls(cb \o more) = (A \cup (P \cup R)) \cup InCalls(cb)
  BY <1>3
<1> QED BY <1>1, <1>3, <1>4, <1>5 DEF Counts

LEMMA InsertedIds ==
  ASSUME IInv, CountInv, kind = "class"
  PROVE  /\ Distinct(inserted)
         /\ IdsOf(inserted) \subseteq IdsOf(WithUpdate(inserted, ExtraNow))
         /\ IdsOf(WithUpdate(inserted, ExtraNow)) \subseteq Used
         /\ IdsOf(inserted) \subseteq Used
<1>1. /\ Distinct(WithUpdate(inserted, ExtraNow)) /\ ScreenCounts /\ WorkCounts /\ RenderInv
      /\ inserted \in Seq(Updates) /\ ExtraNow \in Seq(Extras)
      /\ rendering # <<>> => ExtraNow = rendering.extra
      /\ ExtraNow # <<>> => ExtraNow[1].at <= Len(inserted)
  BY ClassFacts
<1>2. IdsOf(inserted) \subseteq UpdateIds
  BY <1>1, IdsOfIs
<1>3. IdsOf(inserted) \subseteq Used
  <2>1. \A i \in IdsOf(inserted) : called[i] \in {0, 1}
    BY <1>1 DEF ScreenCounts, Counts
  <2>2. \A i \in IdsOf(inserted) : called[i] >= 0
    BY <2>1
  <2> QED BY <1>2, <2>2 DEF Used
<1>4. CASE ExtraNow = <<>>
  BY <1>1, <1>3, <1>4 DEF WithUpdate
<1>5. CASE ExtraNow # <<>>
  <2>1. /\ IdsOf(WithUpdate(inserted, ExtraNow)) = IdsOf(inserted) \cup {ExtraNow[1].update.id}
        /\ Distinct(inserted)
    BY <1>1, <1>5, IdsOfWithUpdate
  <2>2. rendering # <<>> /\ rendering.cloned
    BY <1>1, <1>5 DEF ExtraNow, RenderInv
  <2>3. \A i \in IdsOf(WithUpdate(inserted, ExtraNow)) : called[i] \in {0, 1}
    BY <1>1, <2>2 DEF WorkCounts, Counts
  <2>4. \A i \in IdsOf(WithUpdate(inserted, ExtraNow)) : called[i] >= 0
    BY <2>3
  <2>5. IdsOf(WithUpdate(inserted, ExtraNow)) \subseteq UpdateIds
    <3>1. WithUpdate(inserted, ExtraNow) \in Seq(Updates)
      BY <1>1, WithUpdateType
    <3> QED BY <3>1, IdsOfIs
  <2> QED BY <1>3, <2>1, <2>4, <2>5 DEF Used
<1> QED BY <1>4, <1>5

LEMMA DispatchCounts ==
  ASSUME IInv, CountInv, kind = "class", NEW lane \in UpdateLanes, NEW action \in UpdateActions,
         Dispatch(lane, action)
  PROVE  CountInv'
<1>1. PICK u, i : u = NewUpdate(lane, action) /\ i = NextId
  OBVIOUS
<1>2. /\ QueueTypeOK' /\ Marked(u, BailsOut(u)) /\ i \in UpdateIds
      /\ inserted' = Append(inserted, u)
      /\ shared'.pending = shared.pending
      /\ shared'.interleaved = Append(shared.interleaved, u)
  BY <1>1, DispatchMarks
<1>3. u \in Updates /\ u.lane # NoLane /\ u.id = i
  <2>1. u \in Updates /\ u.lane = lane /\ u.id = NextId
    BY <1>1, <1>2, NewUpdateIs DEF IInv
  <2> QED BY <1>1, <2>1, QueueAssumption DEF NoLane
<1>4. /\ Distinct(WithUpdate(inserted, ExtraNow)) /\ ScreenCounts /\ WorkCounts
      /\ inserted \in Seq(Updates) /\ ExtraNow \in Seq(Extras)
      /\ shared.pending \in Seq(Updates) /\ shared.interleaved \in Seq(Updates)
      /\ called \in [UpdateIds -> Int]
      /\ ExtraNow # <<>> => ExtraNow[1].at <= Len(inserted)
  BY ClassFacts
<1>5. PICK n \in Nat : Used = 1..n
  BY DEF CountInv
<1>6. called' = [called EXCEPT ![NextId] = 0]
  BY DEF Dispatch
<1>7. Used' = 1..(n + 1) /\ called'[i] = 0 /\ \A j \in Used : j # i /\ called'[j] = called[j]
  BY <1>1, <1>2, <1>4, <1>5, <1>6, UsedMore
<1>8. ExtraNow' = ExtraNow
  BY <1>2 DEF ExtraNow, Marked, SameWork
<1>9. Waits' = Waits \cup {i}
  <2>1. Unshown(Append(shared.interleaved, u)) = Unshown(shared.interleaved) \cup {i}
    BY <1>3, <1>4, IdsOfAppend
  <2> QED BY <1>2, <2>1 DEF Waits
<1>10. PICK W : W = WithUpdate(inserted, ExtraNow)
  OBVIOUS
<1>11. W \in Seq(Updates) /\ WithUpdate(inserted', ExtraNow') = Append(W, u)
  <2>1. W \in Seq(Updates)
    BY <1>4, <1>10, WithUpdateType
  <2>2. <<u>> \in Seq(Updates)
    BY <1>3
  <2>3. PICK y : y = <<u>>
    OBVIOUS
  <2>4. WithUpdate(inserted \o y, ExtraNow) = W \o y
    BY <1>4, <1>10, <2>2, <2>3, WithUpdateConcat
  <2>5. inserted' = inserted \o y /\ Append(W, u) = W \o y
    BY <1>2, <1>3, <1>4, <2>1, <2>3, AppendIsConcat
  <2> QED BY <1>8, <2>1, <2>4, <2>5
<1>12. /\ IdsOf(inserted) \subseteq Used /\ IdsOf(W) \subseteq Used
  BY <1>10, InsertedIds
<1>13. i \notin IdsOf(inserted) /\ i \notin IdsOf(W)
       /\ \A j \in IdsOf(inserted) \cup IdsOf(W) : called'[j] = called[j]
  BY <1>7, <1>12
<1>14. /\ IdsOf(inserted') = IdsOf(inserted) \cup {i}
       /\ IdsOf(Append(W, u)) = IdsOf(W) \cup {i} /\ Distinct(Append(W, u))
  BY <1>2, <1>3, <1>4, <1>10, <1>11, <1>13, IdsOfAppend
<1>15. ScreenCounts'
  <2>1. PICK un : un = Unshown(currentFiber.baseQueue) \cup Waits
    OBVIOUS
  <2>2. Counts(called, un, <<>>, IdsOf(inserted))
    BY <1>4, <2>1 DEF ScreenCounts
  <2>3. Counts(called', un \cup {i}, <<>>, IdsOf(inserted) \cup {i})
    BY <1>7, <1>13, <2>2, CountsMore
  <2>4. Unshown(currentFiber'.baseQueue) \cup Waits' = un \cup {i}
    BY <1>2, <1>9, <2>1 DEF Marked, SameQueue
  <2> QED BY <1>14, <2>3, <2>4 DEF ScreenCounts
<1>16. WorkCounts'
  <2> SUFFICES ASSUME rendering' # <<>>
               PROVE  /\ ~rendering'.cloned => rendering'.callbacks = <<>>
                      /\ rendering'.cloned =>
                           Counts(called', Unshown(alternateFiber'.baseQueue) \cup Waits',
                                  rendering'.callbacks,
                                  IdsOf(WithUpdate(inserted', ExtraNow')))
    BY DEF WorkCounts
  <2>1. rendering # <<>> /\ SameWork(rendering', rendering)
    BY <1>2 DEF Marked
  <2>2. ~rendering'.cloned => rendering'.callbacks = <<>>
    BY <1>4, <2>1 DEF WorkCounts, SameWork
  <2>3. ASSUME rendering'.cloned
        PROVE  Counts(called', Unshown(alternateFiber'.baseQueue) \cup Waits',
                      rendering'.callbacks, IdsOf(WithUpdate(inserted', ExtraNow')))
    <3>1. PICK un : un = Unshown(alternateFiber.baseQueue) \cup Waits
      OBVIOUS
    <3>2. Counts(called, un, rendering.callbacks, IdsOf(W))
      BY <1>4, <1>10, <2>1, <2>3, <3>1 DEF WorkCounts, SameWork
    <3>3. Counts(called', un \cup {i}, rendering.callbacks, IdsOf(W) \cup {i})
      BY <1>7, <1>13, <3>2, CountsMore
    <3>4. alternateFiber # <<>>
      BY <2>1, <2>3 DEF IInv, ShapeInv, SameWork
    <3>5. Unshown(alternateFiber'.baseQueue) \cup Waits' = un \cup {i}
      BY <1>2, <1>9, <3>1, <3>4 DEF Marked, SameQueue
    <3>6. rendering'.callbacks = rendering.callbacks
      BY <2>1 DEF SameWork
    <3> QED BY <1>11, <1>14, <3>3, <3>5, <3>6
  <2> QED BY <2>2, <2>3
<1>17. n + 1 \in Nat
  OBVIOUS
<1> QED BY <1>7, <1>11, <1>14, <1>15, <1>16, <1>17 DEF CountInv

LEMMA PrepareCounts ==
  ASSUME IInv, CountInv, kind = "class", NEW lanes \in SUBSET UpdateLanes, PrepareRender(lanes)
  PROVE  CountInv'
<1>1. /\ rendering' = [lanes |-> lanes, phase |-> "begin", cloned |-> FALSE,
                       preempted |-> FALSE, bailed |-> FALSE, callbacks |-> <<>>,
                       extra |-> <<>>]
      /\ shared' = [shared EXCEPT !.pending = shared.pending \o shared.interleaved,
                                  !.interleaved = <<>>]
      /\ UNCHANGED <<kind, currentFiber, inserted, called>>
  BY DEF PrepareRender
<1>2. /\ ScreenCounts /\ shared.pending \in Seq(Updates) /\ shared.interleaved \in Seq(Updates)
      /\ Distinct(inserted)
  BY ClassFacts, InsertedIds
<1>3. shared \in SharedQueues
  BY DEF IInv, QueueTypeOK
<1>4. rendering'.extra = <<>> /\ ~rendering'.cloned /\ rendering'.callbacks = <<>>
  BY <1>1
<1>5. ExtraNow' = <<>>
  BY <1>4 DEF ExtraNow
<1>6. Waits' = Waits
  <2>1. shared'.pending = shared.pending \o shared.interleaved /\ shared'.interleaved = <<>>
    BY <1>1, <1>3 DEF SharedQueues
  <2>2. ConcatIds(shared.pending \o shared.interleaved, shared.pending, shared.interleaved)
    BY <1>2, IdsOfConcat
  <2> QED BY <2>1, <2>2, NoIds DEF Waits, ConcatIds
<1>7. Used' = Used
  BY <1>1 DEF Used
<1>8. Distinct(WithUpdate(inserted', ExtraNow'))
  BY <1>1, <1>2, <1>5 DEF WithUpdate
<1>9. ScreenCounts'
  BY <1>1, <1>2, <1>6 DEF ScreenCounts
<1>10. WorkCounts'
  BY <1>4 DEF WorkCounts
<1> QED BY <1>7, <1>8, <1>9, <1>10 DEF CountInv

LEMMA NotReachedCounts ==
  ASSUME IInv, CountInv, kind = "class", NotReached
  PROVE  CountInv'
<1>1. /\ rendering # <<>> /\ rendering' = [rendering EXCEPT !.phase = "complete"]
      /\ UNCHANGED <<kind, currentFiber, alternateFiber, shared, inserted, called>>
  BY DEF NotReached, InPhase
<1>2. rendering \in Renders /\ Distinct(WithUpdate(inserted, ExtraNow))
      /\ ScreenCounts /\ WorkCounts
  BY <1>1, ClassFacts
<1>3. /\ rendering' # <<>> /\ rendering'.cloned = rendering.cloned
      /\ rendering'.callbacks = rendering.callbacks /\ rendering'.extra = rendering.extra
  <2>1. /\ rendering' \in Renders /\ rendering'.cloned = rendering.cloned
        /\ rendering'.callbacks = rendering.callbacks /\ rendering'.extra = rendering.extra
    BY <1>1, <1>2 DEF Renders
  <2> QED BY <2>1, RenderFields
<1>4. Used' = Used /\ Waits' = Waits /\ ExtraNow' = ExtraNow
  BY <1>1, <1>3 DEF Used, Waits, ExtraNow
<1>5. ScreenCounts' /\ WorkCounts'
  BY <1>1, <1>2, <1>3, <1>4 DEF ScreenCounts, WorkCounts
<1> QED BY <1>1, <1>2, <1>4, <1>5 DEF CountInv

LEMMA BailOutCounts ==
  ASSUME IInv, CountInv, kind = "class", BailOutOfFiber
  PROVE  CountInv'
<1>1. /\ rendering # <<>> /\ rendering.phase = "begin" /\ alternateFiber' = currentFiber
      /\ rendering' = [rendering EXCEPT !.phase = "complete", !.cloned = TRUE]
      /\ UNCHANGED <<kind, currentFiber, shared, inserted, called>>
  BY DEF BailOutOfFiber, InPhase
<1>2. rendering \in Renders /\ Distinct(WithUpdate(inserted, ExtraNow))
      /\ ScreenCounts /\ WorkCounts /\ RenderInv
  BY <1>1, ClassFacts
<1>3. ~rendering.cloned /\ rendering.callbacks = <<>> /\ rendering.extra = <<>>
  BY <1>1, <1>2 DEF RenderInv, WorkCounts
<1>4. /\ rendering' # <<>> /\ rendering'.cloned
      /\ rendering'.callbacks = <<>> /\ rendering'.extra = <<>>
  <2>1. /\ rendering' \in Renders /\ rendering'.cloned
        /\ rendering'.callbacks = <<>> /\ rendering'.extra = <<>>
    BY <1>1, <1>2, <1>3 DEF Renders
  <2> QED BY <2>1, RenderFields
<1>5. Used' = Used /\ Waits' = Waits /\ ExtraNow' = <<>> /\ ExtraNow = <<>>
  BY <1>1, <1>3, <1>4 DEF Used, Waits, ExtraNow
<1>6. ScreenCounts'
  BY <1>1, <1>2, <1>5 DEF ScreenCounts
<1>7. WorkCounts'
  BY <1>1, <1>2, <1>4, <1>5 DEF ScreenCounts, WorkCounts, WithUpdate
<1> QED BY <1>1, <1>2, <1>5, <1>6, <1>7 DEF CountInv


\* A class fiber's begin phase: the callbacks of the updates it processes wait for
\* the commit.
LEMMA ProcessQueueCounts ==
  ASSUME IInv, CountInv, kind = "class", rendering # <<>>, NEW wip \in Fibers,
         Rebased(wip.baseState, wip.baseQueue, WithUpdate(Done, rendering.extra)),
         ExtraInv, ProcessUpdateQueue(wip),
         UNCHANGED <<kind, rootLanes, inserted, called, surprises>>,
         Counts(called, Unshown(wip.baseQueue) \cup Waits, rendering.callbacks,
                IdsOf(WithUpdate(inserted, ExtraNow)))
  PROVE  CountInv'
<1>1. PICK queue : queue = wip.baseQueue \o shared.pending
  OBVIOUS
<1>2. PICK end : end = ProcessAll(rendering.lanes, wip.baseState, queue)
  OBVIOUS
<1>3. PICK p, r, extra : /\ p = shared.pending /\ r = shared.interleaved
                         /\ extra = rendering.extra
  OBVIOUS
<1> DEFINE lanes == IF queue = <<>> THEN {} ELSE end.lanes \cup LanesOf(r)
<1>4. /\ alternateFiber' = IF queue = <<>> THEN [wip EXCEPT !.lanes = {}]
                           ELSE QueueFiber(lanes, end.state, end.baseState, end.baseQueue)
      /\ currentFiber' = [currentFiber EXCEPT !.baseQueue = currentFiber.baseQueue \o p]
      /\ shared' = [shared EXCEPT !.pending = <<>>]
      /\ rendering' = [rendering EXCEPT !.phase = "complete", !.cloned = TRUE,
                                        !.callbacks = rendering.callbacks \o end.callbacks]
  BY <1>1, <1>2, <1>3 DEF ProcessUpdateQueue
<1>5. /\ Distinct(WithUpdate(inserted, extra)) /\ ScreenCounts /\ Clean
      /\ p \in Seq(Updates) /\ r \in Seq(Updates) /\ inserted \in Seq(Updates)
      /\ currentFiber \in Fibers /\ extra \in Seq(Extras) /\ rendering \in Renders
      /\ ExtraNow = extra
  BY <1>3, ClassFacts
<1>6. Done \in Seq(Updates) /\ inserted = Done \o (p \o r) /\ shared \in SharedQueues
  BY <1>3, <1>5, CleanFacts DEF QueueTypeOK
<1>7. wip.baseQueue \in Seq(Updates) /\ wip.baseState \in States
      /\ currentFiber.baseQueue \in Seq(Updates) /\ rendering.callbacks \in Seq(UpdateIds)
  BY <1>5, FiberFields, RenderFields
<1>8. queue \in Seq(Updates)
  BY <1>1, <1>3, <1>5, <1>7, ConcatUpdates
<1>9. end.baseQueue \in Seq(Updates) /\ end.callbacks \in Seq(UpdateIds)
  BY <1>2, <1>7, <1>8, ProcessAllType DEF Accs
<1>10. PICK d : d = WithUpdate(Done, extra)
  OBVIOUS
<1>11. extra # <<>> => extra[1].at <= Len(Done)
  BY <1>3 DEF ExtraInv
<1>12. d \in Seq(Updates)
  BY <1>5, <1>6, <1>10, <1>11, WithUpdateType
<1>13. PICK V : V = d \o p
  OBVIOUS
<1>14. V \in Seq(Updates)
  BY <1>5, <1>12, <1>13, ConcatUpdates
<1>15. WithUpdate(inserted, extra) = V \o r
  <2>1. PICK w : w = p \o r
    OBVIOUS
  <2>2. w \in Seq(Updates)
    BY <1>5, <2>1, ConcatUpdates
  <2>3. WithUpdate(Done \o w, extra) = d \o w
    BY <1>5, <1>6, <1>10, <1>11, <2>2, WithUpdateConcat
  <2>4. d \o (p \o r) = (d \o p) \o r
    BY <1>5, <1>12, ConcatGroup
  <2> QED BY <1>6, <1>13, <2>1, <2>3, <2>4
<1>16. ConcatIds(V \o r, V, r)
  BY <1>5, <1>14, IdsOfConcat
<1>17. Distinct(V) /\ IdsOf(V) \cap IdsOf(r) = {} /\ IdsOf(V \o r) = IdsOf(V) \cup IdsOf(r)
  BY <1>5, <1>15, <1>16 DEF ConcatIds
<1>18. Rebased(wip.baseState, queue, V)
  <2>1. Rebased(wip.baseState, wip.baseQueue, d)
    BY <1>3, <1>10
  <2>2. Rebased(wip.baseState, wip.baseQueue \o p, d \o p)
    BY <1>5, <1>7, <1>12, <2>1, RebasedMore
  <2> QED BY <1>1, <1>3, <1>13, <2>2
<1>19. Distinct(queue) /\ IdsOf(queue) \subseteq IdsOf(V)
  BY <1>8, <1>14, <1>17, <1>18, RebasedIds
<1>20. Sorted(end, Unshown(queue))
  BY <1>2, <1>7, <1>8, <1>19, ProcessAllSorts
<1>21. PICK A, B, P, R : /\ A = Unshown(wip.baseQueue) /\ B = Unshown(end.baseQueue)
                         /\ P = Unshown(p) /\ R = Unshown(r)
  OBVIOUS
<1>22. Unshown(queue) = A \cup P /\ A \cup P \subseteq IdsOf(V) /\ R \subseteq IdsOf(r)
  <2>1. ConcatIds(wip.baseQueue \o p, wip.baseQueue, p)
    BY <1>5, <1>7, IdsOfConcat
  <2>2. Unshown(queue) = A \cup P
    BY <1>1, <1>3, <1>21, <2>1 DEF ConcatIds
  <2>3. Unshown(queue) \subseteq IdsOf(queue) /\ Unshown(r) \subseteq IdsOf(r)
    BY <1>5, <1>8, IdsOfIs
  <2> QED BY <1>19, <1>21, <2>2, <2>3
<1>23. /\ NoRepeat(end.callbacks) /\ InCalls(end.callbacks) \cup B = A \cup P
       /\ InCalls(end.callbacks) \cap B = {}
  BY <1>20, <1>21, <1>22 DEF Sorted
<1>24. InCalls(end.callbacks) \cap R = {}
  BY <1>17, <1>22, <1>23
<1>25. PICK ids : ids = IdsOf(WithUpdate(inserted, extra))
  OBVIOUS
<1>26. A \cup P \subseteq ids
  BY <1>15, <1>17, <1>22, <1>25
<1>27. Counts(called, A \cup (P \cup R), rendering.callbacks, ids)
  BY <1>3, <1>5, <1>21, <1>25 DEF Waits
<1>28. Counts(called, B \cup R, rendering.callbacks \o end.callbacks, ids)
  BY <1>7, <1>9, <1>23, <1>24, <1>26, <1>27, CountsProcessed
<1>29. Unshown(alternateFiber'.baseQueue) = B
  <2>1. CASE queue = <<>>
    <3>1. wip.baseQueue = <<>>
      <4>1. wip.baseQueue \o p = <<>>
        BY <1>1, <1>3, <2>1
      <4> QED BY <1>5, <1>7, <4>1, ConcatEqualIffEmpty
    <3>2. alternateFiber'.baseQueue = wip.baseQueue
      BY <1>4, <2>1 DEF Fibers
    <3>3. Unshown(queue) = {}
      BY <2>1, NoIds
    <3> QED BY <1>22, <1>23, <3>1, <3>2, <3>3, NoIds
  <2>2. CASE queue # <<>>
    BY <1>4, <1>21, <2>2 DEF QueueFiber
  <2> QED BY <2>1, <2>2
<1>30. /\ shared'.pending = <<>> /\ shared'.interleaved = r
       /\ currentFiber'.baseQueue = currentFiber.baseQueue \o p
       /\ rendering'.callbacks = rendering.callbacks \o end.callbacks
       /\ rendering'.extra = extra /\ rendering'.cloned
  BY <1>3, <1>4, <1>5, <1>6 DEF SharedQueues, Fibers, Renders
<1>31. rendering' # <<>>
  <2>1. "lanes" \in DOMAIN rendering' /\ DOMAIN <<>> = {}
    BY <1>4, <1>5 DEF Renders
  <2> QED BY <2>1
<1>32. Waits' = R /\ ExtraNow' = extra /\ Used' = Used
  BY <1>21, <1>30, <1>31, NoIds DEF Waits, ExtraNow, Used
<1>33. WithUpdate(inserted', ExtraNow') = WithUpdate(inserted, extra)
  BY <1>32
<1>34. ScreenCounts'
  <2>1. ConcatIds(currentFiber.baseQueue \o p, currentFiber.baseQueue, p)
    BY <1>5, <1>7, IdsOfConcat
  <2>2. Unshown(currentFiber'.baseQueue) \cup Waits'
          = Unshown(currentFiber.baseQueue) \cup Waits
    BY <1>3, <1>21, <1>30, <1>32, <2>1 DEF ConcatIds, Waits
  <2> QED BY <1>5, <2>2 DEF ScreenCounts
<1>35. WorkCounts'
  BY <1>25, <1>28, <1>29, <1>30, <1>32, <1>33 DEF WorkCounts
<1> QED BY <1>5, <1>32, <1>33, <1>34, <1>35 DEF CountInv

LEMMA BeginClassCounts ==
  ASSUME IInv, CountInv, NEW newProps \in BOOLEAN, BeginClass(newProps)
  PROVE  CountInv'
<1>1. /\ kind = "class" /\ rendering # <<>> /\ rendering.phase = "begin"
      /\ ProcessUpdateQueue(currentFiber)
      /\ UNCHANGED <<kind, rootLanes, inserted, called, surprises>>
  BY DEF BeginClass, InPhase
<1>2. /\ Clean /\ BaseInv /\ RenderInv /\ ScreenCounts /\ WorkCounts /\ currentFiber \in Fibers
      /\ ExtraNow = rendering.extra
  BY <1>1, ClassFacts
<1>3. rendering.extra = <<>> /\ rendering.callbacks = <<>>
  BY <1>1, <1>2 DEF RenderInv, WorkCounts
<1>4. Rebased(currentFiber.baseState, currentFiber.baseQueue,
              WithUpdate(Done, rendering.extra))
  BY <1>2, <1>3 DEF WithUpdate, BaseInv
<1>5. ExtraInv
  BY <1>3 DEF ExtraInv
<1>6. Counts(called, Unshown(currentFiber.baseQueue) \cup Waits, rendering.callbacks,
             IdsOf(WithUpdate(inserted, ExtraNow)))
  BY <1>2, <1>3 DEF ScreenCounts, WithUpdate
<1> QED BY <1>1, <1>2, <1>4, <1>5, <1>6, ProcessQueueCounts

LEMMA BeginBoundaryAgainCounts ==
  ASSUME IInv, CountInv, BeginBoundaryAgain
  PROVE  CountInv'
<1>1. /\ rendering # <<>> /\ rendering.phase = "captured"
      /\ ProcessUpdateQueue(alternateFiber)
      /\ UNCHANGED <<kind, rootLanes, inserted, called, surprises>>
  BY DEF BeginBoundaryAgain, InPhase
<1>2. kind = "class"
  BY <1>1 DEF IInv, ShapeInv
<1>3. RenderInv /\ WorkCounts /\ rendering.cloned
  BY <1>1, <1>2, ClassFacts DEF RenderInv
<1>4. alternateFiber \in Fibers
  BY <1>1, <1>3 DEF IInv, ShapeInv, QueueTypeOK
<1>5. ExtraInv /\ Rebased(alternateFiber.baseState, alternateFiber.baseQueue,
                          WithUpdate(Done, rendering.extra))
  BY <1>1, <1>3 DEF RenderInv
<1>6. Counts(called, Unshown(alternateFiber.baseQueue) \cup Waits, rendering.callbacks,
             IdsOf(WithUpdate(inserted, ExtraNow)))
  BY <1>1, <1>3 DEF WorkCounts
<1> QED BY <1>1, <1>2, <1>4, <1>5, <1>6, ProcessQueueCounts

LEMMA CaptureErrorCounts ==
  ASSUME IInv, CountInv, CaptureError
  PROVE  CountInv'
<1>1. /\ kind = "class" /\ rendering # <<>> /\ rendering.phase = "complete"
      /\ rendering.cloned /\ rendering.extra = <<>> /\ NextId \in UpdateIds
      /\ UNCHANGED <<kind, currentFiber, shared, rootLanes, inserted, surprises>>
  BY DEF CaptureError, InPhase
<1>2. PICK lane \in rendering.lanes :
        LET update == [id |-> NextId, lane |-> lane, action |-> "append", eager |-> <<>>]
            before == Len(inserted) - Len(shared.pending) - Len(shared.interleaved)
        IN  /\ alternateFiber' = [alternateFiber EXCEPT
                                    !.baseQueue = Append(alternateFiber.baseQueue, update)]
            /\ rendering' = [rendering EXCEPT !.phase = "captured",
                                              !.extra = <<[at |-> before, update |-> update]>>]
            /\ called' = [called EXCEPT ![NextId] = 0]
  BY DEF CaptureError
<1>3. /\ Distinct(WithUpdate(inserted, ExtraNow)) /\ ScreenCounts /\ WorkCounts /\ Clean
      /\ ShapeInv /\ inserted \in Seq(Updates) /\ rendering \in Renders
      /\ shared.pending \in Seq(Updates) /\ shared.interleaved \in Seq(Updates)
      /\ called \in [UpdateIds -> Int]
  BY <1>1, ClassFacts
<1>4. alternateFiber \in Fibers
  BY <1>1, <1>3 DEF IInv, QueueTypeOK, ShapeInv
<1>5. PICK x, n : /\ x = [id |-> NextId, lane |-> lane, action |-> "append", eager |-> <<>>]
                  /\ n = Len(inserted) - Len(shared.pending) - Len(shared.interleaved)
  OBVIOUS
<1>6. x \in Updates /\ x.id = NextId /\ x.lane # NoLane
  <2>1. lane \in UpdateLanes
    BY <1>3, RenderFields
  <2>2. x \in Updates
    BY <1>1, <1>5, <2>1, PlainUpdateIs
  <2>3. x.id = NextId /\ x.lane = lane
    BY <1>5
  <2> QED BY <2>1, <2>2, <2>3, QueueAssumption DEF NoLane
<1>7. n \in Nat /\ n <= Len(inserted)
  <2>1. Done \in Seq(Updates) /\ inserted = Done \o (shared.pending \o shared.interleaved)
    BY <1>3, CleanFacts
  <2>2. Len(inserted) = Len(Done) + (Len(shared.pending) + Len(shared.interleaved))
    <3>1. Len(shared.pending \o shared.interleaved)
            = Len(shared.pending) + Len(shared.interleaved)
          /\ shared.pending \o shared.interleaved \in Seq(Updates)
      BY <1>3, ConcatUpdates
    <3> QED BY <2>1, <3>1, ConcatUpdates
  <2>3. Len(Done) \in Nat /\ Len(shared.pending) \in Nat /\ Len(shared.interleaved) \in Nat
        /\ Len(inserted) \in Nat
    BY <1>3, <2>1, LenNat
  <2>4. /\ Len(inserted) - Len(shared.pending) - Len(shared.interleaved) = Len(Done)
        /\ Len(Done) <= Len(inserted)
    BY <2>2, <2>3, Sums3
  <2> QED BY <1>5, <2>3, <2>4
<1>8. PICK extra : extra = <<[at |-> n, update |-> x]>>
  OBVIOUS
<1>9. extra \in Seq(Extras) /\ extra # <<>> /\ extra[1].at = n /\ extra[1].update = x
  BY <1>6, <1>7, <1>8, ExtraIs
<1>10. /\ alternateFiber' = [alternateFiber EXCEPT
                               !.baseQueue = Append(alternateFiber.baseQueue, x)]
       /\ rendering' = [rendering EXCEPT !.phase = "captured", !.extra = extra]
       /\ called' = [called EXCEPT ![NextId] = 0]
  BY <1>2, <1>5, <1>8
<1>11. PICK m \in Nat : Used = 1..m
  BY <1>1 DEF CountInv
<1>12. PICK i : i = NextId
  OBVIOUS
<1>13. Used' = 1..(m + 1) /\ called'[i] = 0 /\ \A j \in Used : j # i /\ called'[j] = called[j]
  BY <1>1, <1>3, <1>10, <1>11, <1>12, UsedMore
<1>14. /\ alternateFiber'.baseQueue = Append(alternateFiber.baseQueue, x)
       /\ rendering'.extra = extra /\ rendering'.cloned
       /\ rendering'.callbacks = rendering.callbacks
  BY <1>1, <1>3, <1>4, <1>10 DEF Fibers, Renders
<1>15. rendering' # <<>>
  <2>1. "lanes" \in DOMAIN rendering' /\ DOMAIN <<>> = {}
    BY <1>3, <1>10 DEF Renders
  <2> QED BY <2>1
<1>16. ExtraNow = <<>> /\ ExtraNow' = extra /\ Waits' = Waits
  BY <1>1, <1>14, <1>15 DEF ExtraNow, Waits
<1>17. Distinct(inserted) /\ IdsOf(inserted) \subseteq Used
  BY <1>1, InsertedIds
<1>18. /\ IdsOf(WithUpdate(inserted', ExtraNow')) = IdsOf(inserted) \cup {i}
       /\ Distinct(WithUpdate(inserted', ExtraNow'))
  <2>1. i \notin IdsOf(inserted)
    BY <1>13, <1>17
  <2>2. /\ IdsOf(WithUpdate(inserted, extra)) = IdsOf(inserted) \cup {extra[1].update.id}
        /\ Distinct(WithUpdate(inserted, extra)) <=>
             Distinct(inserted) /\ extra[1].update.id \notin IdsOf(inserted)
    BY <1>3, <1>7, <1>9, IdsOfWithUpdate
  <2>3. extra[1].update.id = i
    BY <1>6, <1>9, <1>12
  <2> QED BY <1>1, <1>16, <1>17, <2>1, <2>2, <2>3
<1>19. i \notin IdsOf(inserted) /\ \A j \in IdsOf(inserted) : called'[j] = called[j]
  BY <1>13, <1>17
<1>20. ScreenCounts'
  <2>1. PICK un : un = Unshown(currentFiber.baseQueue) \cup Waits
    OBVIOUS
  <2>2. Counts(called', un, <<>>, IdsOf(inserted))
    BY <1>3, <1>19, <2>1, CountsSame DEF ScreenCounts
  <2> QED BY <1>1, <1>16, <2>1, <2>2 DEF ScreenCounts
<1>21. WorkCounts'
  <2>1. PICK un : un = Unshown(alternateFiber.baseQueue) \cup Waits
    OBVIOUS
  <2>2. Counts(called, un, rendering.callbacks, IdsOf(inserted))
    BY <1>1, <1>3, <1>16, <2>1 DEF WorkCounts, WithUpdate
  <2>3. Counts(called', un \cup {i}, rendering.callbacks, IdsOf(inserted) \cup {i})
    BY <1>13, <1>19, <2>2, CountsMore
  <2>4. Unshown(alternateFiber'.baseQueue) \cup Waits' = un \cup {i}
    <3>1. alternateFiber.baseQueue \in Seq(Updates)
      BY <1>4, FiberFields
    <3>2. Unshown(alternateFiber'.baseQueue) = Unshown(alternateFiber.baseQueue) \cup {i}
      BY <1>6, <1>12, <1>14, <3>1, IdsOfAppend
    <3> QED BY <1>16, <2>1, <3>2
  <2> QED BY <1>14, <1>18, <2>3, <2>4 DEF WorkCounts
<1>22. m + 1 \in Nat
  OBVIOUS
<1> QED BY <1>13, <1>18, <1>20, <1>21, <1>22 DEF CountInv

\* How often a callback is in the list of those to call
LEMMA CountOf ==
  ASSUME NEW cb \in Seq(UpdateIds), NoRepeat(cb), NEW i
  PROVE  Cardinality({k \in DOMAIN cb : cb[k] = i}) = IF i \in InCalls(cb) THEN 1 ELSE 0
<1>1. DOMAIN cb = 1..Len(cb)
  OBVIOUS
<1>2. CASE i \in InCalls(cb)
  <2>1. PICK k \in 1..Len(cb) : cb[k] = i
    BY <1>2 DEF InCalls
  <2>2. {j \in DOMAIN cb : cb[j] = i} = {k}
    BY <1>1, <2>1 DEF NoRepeat
  <2> QED BY <1>2, <2>2, FS_Singleton
<1>3. CASE i \notin InCalls(cb)
  <2>1. {j \in DOMAIN cb : cb[j] = i} = {}
    BY <1>1, <1>3 DEF InCalls
  <2> QED BY <1>3, <2>1, FS_EmptySet
<1> QED BY <1>2, <1>3

LEMMA CommitCounts ==
  ASSUME IInv, CountInv, kind = "class", CommitFiber
  PROVE  CountInv'
<1>1. /\ rendering # <<>> /\ UNCHANGED <<kind, shared>> /\ inserted' = WithExtra
      /\ rendering.cloned => currentFiber' = alternateFiber
      /\ ~rendering.cloned => currentFiber' = currentFiber
      /\ rendering' = <<>>
      /\ called' = [i \in UpdateIds |->
                      called[i] + Cardinality({k \in DOMAIN rendering.callbacks :
                                                 rendering.callbacks[k] = i})]
  BY DEF CommitFiber
<1>2. /\ Distinct(WithUpdate(inserted, ExtraNow)) /\ ScreenCounts /\ WorkCounts
      /\ RenderInv /\ inserted \in Seq(Updates) /\ rendering \in Renders
      /\ called \in [UpdateIds -> Int] /\ ExtraNow = rendering.extra
      /\ ExtraNow \in Seq(Extras) /\ (ExtraNow # <<>> => ExtraNow[1].at <= Len(inserted))
  BY <1>1, ClassFacts
<1>3. PICK cb, W : cb = rendering.callbacks /\ W = WithUpdate(inserted, ExtraNow)
  OBVIOUS
<1>4. cb \in Seq(UpdateIds) /\ W \in Seq(Updates) /\ inserted' = W
  <2>1. inserted' = W
    BY <1>1, <1>2, <1>3 DEF WithExtra, WithUpdate
  <2> QED BY <1>2, <1>3, <2>1, RenderFields, WithUpdateType
<1>5. PICK un : un = Unshown(currentFiber'.baseQueue) \cup Waits
  OBVIOUS
<1>6. Counts(called, un, cb, IdsOf(W))
  <2>1. CASE rendering.cloned
    BY <1>1, <1>2, <1>3, <1>5, <2>1 DEF WorkCounts
  <2>2. CASE ~rendering.cloned
    <3>1. cb = <<>> /\ W = inserted
      BY <1>1, <1>2, <1>3, <2>2 DEF WorkCounts, RenderInv, WithUpdate
    <3> QED BY <1>1, <1>2, <1>5, <2>2, <3>1 DEF ScreenCounts
  <2> QED BY <2>1, <2>2
<1>7. /\ NoRepeat(cb) /\ InCalls(cb) \subseteq IdsOf(W) /\ InCalls(cb) \cap un = {}
      /\ \A i \in IdsOf(W) : called[i] = IF i \in un \cup InCalls(cb) THEN 0 ELSE 1
  BY <1>6 DEF Counts
<1>8. \A i \in UpdateIds : called'[i] = called[i] + (IF i \in InCalls(cb) THEN 1 ELSE 0)
  BY <1>1, <1>3, <1>4, <1>7, CountOf
<1>9. IdsOf(W) \subseteq Used
  BY <1>3, InsertedIds
<1>10. ASSUME NEW i \in IdsOf(W)
       PROVE  called'[i] = IF i \in un THEN 0 ELSE 1
  <2>1. i \in UpdateIds
    BY <1>9 DEF Used
  <2>2. CASE i \in InCalls(cb)
    BY <1>7, <1>8, <2>1, <2>2
  <2>3. CASE i \notin InCalls(cb)
    BY <1>7, <1>8, <2>1, <2>3
  <2> QED BY <2>2, <2>3
<1>11. Used' = Used
  <2>1. ASSUME NEW i \in UpdateIds
        PROVE  called'[i] >= 0 <=> called[i] >= 0
    <3>1. CASE i \in InCalls(cb)
      <4>1. called[i] = 0
        BY <1>7, <3>1
      <4> QED BY <1>8, <3>1, <4>1
    <3>2. CASE i \notin InCalls(cb)
      <4>1. called'[i] = called[i] + 0 /\ called[i] \in Int
        BY <1>2, <1>8, <3>2
      <4> QED BY <4>1
    <3> QED BY <3>1, <3>2
  <2> QED BY <2>1 DEF Used
<1>12. ExtraNow' = <<>> /\ Waits' = Waits
  BY <1>1 DEF ExtraNow, Waits
<1>13. Distinct(WithUpdate(inserted', ExtraNow'))
  BY <1>2, <1>3, <1>4, <1>12 DEF WithUpdate
<1>14. ScreenCounts'
  <2>1. Counts(called', un, <<>>, IdsOf(W))
    BY <1>10, NoIds DEF Counts
  <2> QED BY <1>4, <1>5, <1>12, <2>1 DEF ScreenCounts
<1>15. WorkCounts'
  BY <1>1 DEF WorkCounts
<1> QED BY <1>11, <1>13, <1>14, <1>15 DEF CountInv

LEMMA InitCounts ==
  QueueInit => CountInv
<1> SUFFICES ASSUME QueueInit
             PROVE  CountInv
  OBVIOUS
<1>1. /\ currentFiber.baseQueue = <<>> /\ rendering = <<>> /\ inserted = <<>>
      /\ shared.pending = <<>> /\ shared.interleaved = <<>>
      /\ called = [i \in UpdateIds |-> -1]
  BY DEF QueueInit, QueueFiber
<1>2. Used = 1..0
  BY <1>1 DEF Used
<1>3. ExtraNow = <<>> /\ Waits = {}
  BY <1>1, NoIds DEF ExtraNow, Waits
<1>4. Distinct(WithUpdate(inserted, ExtraNow))
  BY <1>1, <1>3, NoIds DEF WithUpdate
<1>5. ScreenCounts
  BY <1>1, <1>3, NoIds DEF ScreenCounts, Counts
<1>6. WorkCounts
  BY <1>1 DEF WorkCounts
<1> QED BY <1>2, <1>4, <1>5, <1>6 DEF CountInv

LEMMA StutterCounts ==
  ASSUME CountInv, UNCHANGED queueVars
  PROVE  CountInv'
<1>1. UNCHANGED <<kind, currentFiber, alternateFiber, shared, rendering, rootLanes, inserted,
                  called, surprises>>
  BY DEF queueVars
<1>2. Used' = Used /\ Waits' = Waits /\ ExtraNow' = ExtraNow
  BY <1>1 DEF Used, Waits, ExtraNow
<1>3. ScreenCounts' = ScreenCounts /\ WorkCounts' = WorkCounts
  BY <1>1, <1>2 DEF ScreenCounts, WorkCounts
<1> QED BY <1>1, <1>2, <1>3 DEF CountInv

\* No step changes the kind, and of a hook the invariant says nothing.
LEMMA HookCounts ==
  ASSUME IInv, kind # "class", [QueueNext]_queueVars
  PROVE  CountInv'
<1>1. kind' = kind
  BY DEF QueueNext, queueVars, Dispatch, PrepareRender, NotReached, BailOutOfFiber, BeginClass,
         CaptureError, BeginBoundaryAgain, BeginHookQuietly, BeginHookWithUpdate, BeginHook,
         ThrowAfterUpdate, CommitFiber
<1> QED BY <1>1 DEF CountInv

LEMMA NextCounts ==
  IInv /\ CountInv /\ [QueueNext]_queueVars => CountInv'
<1> SUFFICES ASSUME IInv, CountInv, [QueueNext]_queueVars, kind = "class"
             PROVE  CountInv'
  BY HookCounts
<1>1. CASE \E lane \in UpdateLanes, action \in UpdateActions : Dispatch(lane, action)
  BY <1>1, DispatchCounts
<1>2. CASE \E lanes \in (SUBSET UpdateLanes) \ {{}} : PrepareRender(lanes)
  BY <1>2, PrepareCounts
<1>3. CASE NotReached
  BY <1>3, NotReachedCounts
<1>4. CASE BailOutOfFiber
  BY <1>4, BailOutCounts
<1>5. CASE \E newProps \in BOOLEAN : BeginClass(newProps)
  BY <1>5, BeginClassCounts
<1>6. CASE CaptureError
  BY <1>6, CaptureErrorCounts
<1>7. CASE BeginBoundaryAgain
  BY <1>7, BeginBoundaryAgainCounts
<1>8. CASE \/ \E newProps \in BOOLEAN : BeginHookQuietly(newProps)
           \/ \E newProps \in BOOLEAN, action \in UpdateActions :
                BeginHookWithUpdate(newProps, action)
           \/ \E newProps \in BOOLEAN : ThrowAfterUpdate(newProps)
  BY <1>8 DEF BeginHookQuietly, BeginHookWithUpdate, BeginHook, ThrowAfterUpdate
<1>9. CASE CommitFiber
  BY <1>9, CommitCounts
<1>10. CASE UNCHANGED queueVars
  BY <1>10, StutterCounts
<1> QED BY <1>1, <1>2, <1>3, <1>4, <1>5, <1>6, <1>7, <1>8, <1>9, <1>10 DEF QueueNext

LEMMA CallsFollow ==
  IInv /\ CountInv => CallbacksAreCalledOnce
<1> SUFFICES ASSUME IInv, CountInv, kind = "class", NEW i \in IdsOf(inserted)
             PROVE  called[i] = IF i \in Committed THEN 1 ELSE 0
  BY DEF CallbacksAreCalledOnce
<1>1. PICK q, p, r : /\ q = currentFiber.baseQueue
                     /\ p = shared.pending /\ r = shared.interleaved
  OBVIOUS
<1>2. q \in Seq(Updates) /\ p \in Seq(Updates) /\ r \in Seq(Updates) /\ ScreenCounts
  BY <1>1, ClassFacts, FiberFields
<1>3. Unshown(Outstanding) = Unshown(q) \cup Waits
  <2>1. q \o p \in Seq(Updates)
    BY <1>2, ConcatUpdates
  <2>2. PICK s : s = q \o p
    OBVIOUS
  <2>3. ConcatIds(q \o p, q, p)
    BY <1>2, IdsOfConcat
  <2>4. ConcatIds(s \o r, s, r)
    BY <1>2, <2>1, <2>2, IdsOfConcat
  <2>5. Outstanding = s \o r
    BY <1>1, <2>2 DEF Outstanding
  <2> QED BY <1>1, <2>2, <2>3, <2>4, <2>5 DEF ConcatIds, Waits
<1>4. called[i] = IF i \in Unshown(q) \cup Waits THEN 0 ELSE 1
  BY <1>1, <1>2, NoIds DEF ScreenCounts, Counts
<1> QED BY <1>3, <1>4 DEF Committed

\* commitUpdateQueue calls the callback of a class update once, in the commit
\* that shows it, though a render that processed the update is restarted, the update
\* is rebased after it was shown, or the boundary is begun again after an error.
THEOREM CallbacksCalledOnce ==
  QueueSpec => []CallbacksAreCalledOnce
<1>1. QueueInit => IInv /\ CountInv
  BY InitEstablishes, InitCounts
<1>2. IInv /\ CountInv /\ [QueueNext]_queueVars => IInv' /\ CountInv'
  BY NextPreserves, NextCounts
<1> QED BY <1>1, <1>2, CallsFollow, PTL DEF QueueSpec
=============================================================================
