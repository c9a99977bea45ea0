----------------------- MODULE ChildReconcilerProofs -----------------------
(***************************************************************************)
(* For any children, keys, types and inputs: every child that is rendered  *)
(* is the old one that its key promises or a new one, no old child is lost *)
(* or used twice, and the host's nodes end in the order of the elements.   *)
(*                                                                         *)
(* ChildrenInv is small; the work is in its two steps.  A render is        *)
(* followed slot by slot (ReconcilesTo): each old child waits, is used     *)
(* once, or is deleted once, and the children that are not to be placed    *)
(* are in the order they had.  A commit is followed child by child         *)
(* (UnderWay): the host nodes that are settled are in the order of the     *)
(* tree, those in a group that is still to move are somewhere, and the     *)
(* rest are going.  getHostSibling may then rely on any node that is not   *)
(* to be placed, which is why a commit may move some and leave the others. *)
(***************************************************************************)
EXTENDS ChildReconciler, WellFoundedInduction, SequenceTheorems, FiniteSetTheorems, TLAPS

-----------------------------------------------------------------------------
(* Induction, and what a sequence of updates makes of a state                *)

LEMMA LeastElement ==
  ASSUME NEW S, S \subseteq Nat, S # {}
  PROVE  \E n \in S : \A m \in S : n <= m
<1>1. PICK n \in S : \A m \in S : ~(<<m, n>> \in OpToRel(<, Nat))
  BY NatLessThanWellFounded, WFMin
<1>2. \A m \in S : ~(m < n)
  BY <1>1 DEF OpToRel
<1>3. \A m \in S : n <= m
  BY <1>2
<1> QED BY <1>3

LEMMA InductiveSet ==
  ASSUME NEW Z, 0 \in Z, \A n \in Nat : n \in Z => n + 1 \in Z
  PROVE  \A n \in Nat : n \in Z
<1> DEFINE Rest == {n \in Nat : n \notin Z}
<1>1. SUFFICES ASSUME Rest # {}
               PROVE  FALSE
  OBVIOUS
<1>2. PICK n \in Rest : \A k \in Rest : n <= k
  BY <1>1, LeastElement
<1>3. n # 0 /\ n - 1 \in Nat /\ n - 1 \notin Rest
  BY <1>2
<1>4. (n - 1) + 1 \in Z
  BY <1>3
<1> QED BY <1>2, <1>4

LEMMA UpToFrom ==
  ASSUME NEW N \in Nat, NEW Z, 0 \in Z, \A n \in 0..N : n \in Z /\ n < N => n + 1 \in Z
  PROVE  \A n \in 0..N : n \in Z
<1> DEFINE Y == {n \in Nat : n <= N => n \in Z}
<1>1. 0 \in Y
  OBVIOUS
<1>2. \A n \in Nat : n \in Y => n + 1 \in Y
  OBVIOUS
<1>3. \A n \in Nat : n \in Y
  <2> HIDE DEF Y
  <2> QED BY <1>1, <1>2, InductiveSet
<1> QED BY <1>3

Stepwise(f, N, start, step) ==
  f[0] = start /\ \A k \in 1..N : f[k] = step[<<f[k - 1], k>>]

LEMMA StepwiseExists ==
  ASSUME NEW N \in Nat, NEW A, NEW start \in A, NEW step \in [A \X (1..N) -> A]
  PROVE  \E f \in [0..N -> A] : Stepwise(f, N, start, step)
<1> DEFINE Z == {n \in 0..N : \E f \in [0..n -> A] : Stepwise(f, n, start, step)}
<1>1. 0 \in Z
  <2>1. [k \in 0..0 |-> start] \in [0..0 -> A]
    OBVIOUS
  <2>2. Stepwise([k \in 0..0 |-> start], 0, start, step)
    BY DEF Stepwise
  <2> QED BY <2>1, <2>2
<1>2. ASSUME NEW n \in 0..N, n \in Z, n < N
      PROVE  n + 1 \in Z
  <2>1. PICK f \in [0..n -> A] : Stepwise(f, n, start, step)
    BY <1>2
  <2> DEFINE g == [k \in 0..(n + 1) |-> IF k = n + 1 THEN step[<<f[n], n + 1>>] ELSE f[k]]
  <2>2. step[<<f[n], n + 1>>] \in A
    BY <1>2
  <2>3. g \in [0..(n + 1) -> A]
    BY <2>2
  <2>4. \A k \in 1..(n + 1) : g[k] = step[<<g[k - 1], k>>]
    <3> TAKE k \in 1..(n + 1)
    <3>1. CASE k = n + 1
      BY SMTT(30), <3>1
    <3>2. CASE k # n + 1
      BY <2>1, <3>2 DEF Stepwise
    <3> QED BY <3>1, <3>2
  <2>5. g[0] = start
    BY <2>1 DEF Stepwise
  <2>6. n + 1 \in 0..N
    BY <1>2
  <2>7. Stepwise(g, n + 1, start, step)
    <3> HIDE DEF g
    <3> QED BY <2>4, <2>5 DEF Stepwise
  <2> HIDE DEF g
  <2> QED BY <2>3, <2>6, <2>7
<1>3. \A n \in 0..N : n \in Z
  <2> HIDE DEF Z
  <2> QED BY <1>1, <1>2, UpToFrom
<1>4. N \in Z
  BY <1>3
<1> QED BY <1>4

-----------------------------------------------------------------------------
(* Without                                                                  *)

Kept(F, s, gone) ==
  /\ F[0] = <<>>
  /\ \A n \in 1..Len(s) :
       F[n] = IF s[n] \in gone THEN F[n - 1] ELSE Append(F[n - 1], s[n])

LEMMA WithoutIs ==
  ASSUME NEW S, NEW s \in Seq(S), NEW gone
  PROVE  \E F \in [0..Len(s) -> Seq(S)] : Kept(F, s, gone) /\ Without(s, gone) = F[Len(s)]
<1> DEFINE N == Len(s)
           Step(a, n) == IF s[n] \in gone THEN a ELSE Append(a, s[n])
           step == [p \in Seq(S) \X (1..N) |-> Step(p[1], p[2])]
           Next(f) == [n \in 0..N |-> IF n = 0 THEN <<>>
                          ELSE IF s[n] \in gone THEN f[n - 1] ELSE Append(f[n - 1], s[n])]
           run == CHOOSE f : f = Next(f)
<1>1. N \in Nat /\ \A k \in 1..N : s[k] \in S
  OBVIOUS
<1>2. step \in [Seq(S) \X (1..N) -> Seq(S)]
  BY <1>1
<1>3. <<>> \in Seq(S)
  OBVIOUS
<1>4. PICK g \in [0..N -> Seq(S)] : Stepwise(g, N, <<>>, step)
  <2> HIDE DEF N, step
  <2> QED BY <1>1, <1>2, <1>3, StepwiseExists
<1>5. \A n \in 0..N : n # 0 => g[n] = Step(g[n - 1], n)
  <2> TAKE n \in 0..N
  <2> HAVE n # 0
  <2>1. n \in 1..N /\ n - 1 \in 0..N /\ g[n - 1] \in Seq(S)
    BY <1>1
  <2>2. g[n] = step[<<g[n - 1], n>>]
    <3> HIDE DEF N, step
    <3> QED BY <1>4, <2>1 DEF Stepwise
  <2> QED BY <2>1, <2>2
<1>6. g = Next(g)
  BY <1>4, <1>5 DEF Stepwise
<1>7. run = Next(run)
  <2> HIDE DEF Next
  <2> QED BY <1>6
<1>8. Without(s, gone) = run[N]
  BY DEF Without
<1>9. /\ run[0] = <<>>
      /\ \A n \in 1..N : run[n] = Step(run[n - 1], n)
  <2> HIDE DEF run
  <2>1. 0 \in 0..N /\ \A n \in 1..N : n \in 0..N /\ n # 0
    OBVIOUS
  <2> HIDE DEF N
  <2> QED BY <1>7, <2>1
<1> HIDE DEF run, N, Next, step
<1>10. run = [n \in 0..N |-> run[n]]
  BY <1>7 DEF Next
<1>11. \A n \in 0..N : n \in {k \in 0..N : run[k] \in Seq(S)}
  <2>1. 0 \in {k \in 0..N : run[k] \in Seq(S)}
    <3>1. run[0] \in Seq(S)
      BY <1>3, <1>9
    <3>2. 0 \in 0..N
      BY <1>1
    <3> QED BY <3>1, <3>2
  <2>2. \A n \in 0..N : n \in {k \in 0..N : run[k] \in Seq(S)} /\ n < N
          => n + 1 \in {k \in 0..N : run[k] \in Seq(S)}
    <3> SUFFICES ASSUME NEW n \in 0..N, run[n] \in Seq(S), n < N
                 PROVE  n + 1 \in 0..N /\ run[n + 1] \in Seq(S)
      OBVIOUS
    <3>1. n + 1 \in 0..N /\ n + 1 \in 1..N /\ n + 1 # 0 /\ (n + 1) - 1 = n
      BY <1>1
    <3>2. run[n + 1] = Step(run[n], n + 1)
      BY <1>9, <3>1
    <3> QED BY <1>1, <3>1, <3>2
  <2> QED BY <1>1, <2>1, <2>2, UpToFrom
<1>12. run \in [0..N -> Seq(S)]
  BY <1>10, <1>11
<1>13. Kept(run, s, gone)
  BY <1>9 DEF Kept, N
<1> QED BY <1>8, <1>12, <1>13 DEF N

\* h gives, for each place of t, the place in s that it comes from.
Picks(h, t, s, gone) ==
  /\ h \in [1..Len(t) -> 1..Len(s)]
  /\ \A k \in 1..Len(t) : t[k] = s[h[k]] /\ s[h[k]] \notin gone
  /\ \A k, l \in 1..Len(t) : k < l => h[k] < h[l]
  /\ \A n \in 1..Len(s) : s[n] \notin gone => \E k \in 1..Len(t) : h[k] = n

PicksUpTo(h, t, s, n, gone) ==
  /\ h \in [1..Len(t) -> 1..n]
  /\ \A k \in 1..Len(t) : t[k] = s[h[k]] /\ s[h[k]] \notin gone
  /\ \A k, l \in 1..Len(t) : k < l => h[k] < h[l]
  /\ \A m \in 1..n : s[m] \notin gone => \E k \in 1..Len(t) : h[k] = m

LEMMA WithoutPicks ==
  ASSUME NEW S, NEW s \in Seq(S), NEW gone
  PROVE  Without(s, gone) \in Seq(S) /\ \E h : Picks(h, Without(s, gone), s, gone)
<1>1. PICK F \in [0..Len(s) -> Seq(S)] : Kept(F, s, gone) /\ Without(s, gone) = F[Len(s)]
  BY WithoutIs
<1> DEFINE N == Len(s)
           Z == {n \in 0..N : \E h : PicksUpTo(h, F[n], s, n, gone)}
<1>2. 0 \in Z
  <2>1. F[0] = <<>> /\ Len(F[0]) = 0 /\ 1..0 = {} /\ 0 \in 0..N
    BY <1>1 DEF Kept
  <2>2. PicksUpTo([k \in {} |-> 0], F[0], s, 0, gone)
    BY <2>1 DEF PicksUpTo
  <2> QED BY <2>1, <2>2
<1>3. ASSUME NEW n \in 0..N, n \in Z, n < N
      PROVE  n + 1 \in Z
  <2>1. PICK h : PicksUpTo(h, F[n], s, n, gone)
    BY <1>3
  <2>2. n + 1 \in 1..N /\ n + 1 \in 0..N /\ (n + 1) - 1 = n /\ F[n] \in Seq(S)
    BY <1>3
  <2>3. F[n + 1] = IF s[n + 1] \in gone THEN F[n] ELSE Append(F[n], s[n + 1])
    BY <1>1, <2>2 DEF Kept
  <2>4. CASE s[n + 1] \in gone
    <3>1. PicksUpTo(h, F[n], s, n + 1, gone)
      BY <2>1, <2>2, <2>4 DEF PicksUpTo
    <3> QED BY <2>2, <2>3, <2>4, <3>1
  <2>5. CASE s[n + 1] \notin gone
    <3> DEFINE t == F[n]
               u == Append(t, s[n + 1])
               L == Len(t)
               g == [k \in 1..(L + 1) |-> IF k = L + 1 THEN n + 1 ELSE h[k]]
    <3>1. /\ Len(u) = L + 1 /\ L \in Nat /\ u[L + 1] = s[n + 1]
          /\ \A k \in 1..L : u[k] = t[k]
      BY <2>2
    <3>2. /\ h \in [1..L -> 1..n]
          /\ \A k \in 1..L : t[k] = s[h[k]] /\ s[h[k]] \notin gone
          /\ \A k, l \in 1..L : k < l => h[k] < h[l]
          /\ \A m \in 1..n : s[m] \notin gone => \E k \in 1..L : h[k] = m
      BY <2>1 DEF PicksUpTo
    <3> HIDE DEF L, u, t
    <3>3. \A k \in 1..(L + 1) : (k = L + 1 /\ g[k] = n + 1) \/ (k \in 1..L /\ g[k] = h[k])
      BY <3>1
    <3>4. g \in [1..(L + 1) -> 1..(n + 1)]
      BY <2>2, <3>2, <3>3
    <3> HIDE DEF g
    <3>5. \A k \in 1..(L + 1) : u[k] = s[g[k]] /\ s[g[k]] \notin gone
      BY <2>5, <3>1, <3>2, <3>3
    <3>6. \A k, l \in 1..(L + 1) : k < l => g[k] < g[l]
      <4> TAKE k, l \in 1..(L + 1)
      <4> HAVE k < l
      <4>1. k \in 1..L /\ g[k] = h[k] /\ h[k] \in 1..n
        BY <3>1, <3>2, <3>3
      <4>2. CASE l = L + 1
        BY <2>2, <3>1, <3>3, <4>1, <4>2
      <4>3. CASE l \in 1..L /\ g[l] = h[l]
        BY <3>2, <4>1, <4>3
      <4> QED BY <3>3, <4>2, <4>3
    <3>7. \A m \in 1..(n + 1) : s[m] \notin gone => \E k \in 1..(L + 1) : g[k] = m
      <4> TAKE m \in 1..(n + 1)
      <4> HAVE s[m] \notin gone
      <4>1. CASE m = n + 1
        BY <3>1, <3>3, <4>1
      <4>2. CASE m # n + 1
        <5>1. PICK k \in 1..L : h[k] = m
          BY SMTT(30), <2>2, <3>2, <4>2
        <5>2. k \in 1..(L + 1) /\ k # L + 1
          BY <3>1
        <5> QED BY <3>3, <5>1, <5>2
      <4> QED BY <4>1, <4>2
    <3>8. PicksUpTo(g, u, s, n + 1, gone)
      BY <3>1, <3>4, <3>5, <3>6, <3>7 DEF PicksUpTo
    <3> QED BY <2>2, <2>3, <2>5, <3>8 DEF u, t
  <2> QED BY <2>4, <2>5
<1>4. \A n \in 0..N : n \in Z
  <2>1. N \in Nat
    OBVIOUS
  <2> HIDE DEF Z
  <2> QED BY <1>2, <1>3, <2>1, UpToFrom
<1>5. N \in 0..N /\ F[N] \in Seq(S)
  OBVIOUS
<1>6. PICK h : PicksUpTo(h, F[N], s, N, gone)
  BY <1>4, <1>5
<1>7. Picks(h, F[N], s, gone)
  BY <1>6 DEF Picks, PicksUpTo
<1> QED BY <1>1, <1>5, <1>7

-----------------------------------------------------------------------------
(* FlattenSeq                                                               *)

\* The place after which each piece begins, and after which the last ends
Offsets(o, s) ==
  /\ o \in [1..(Len(s) + 1) -> Nat]
  /\ o[1] = 0
  /\ \A i \in 1..Len(s) : o[i + 1] = o[i] + Len(s[i])

Flat(t, s, o) ==
  /\ Offsets(o, s)
  /\ Len(t) = o[Len(s) + 1]
  /\ \A i \in 1..Len(s) : \A j \in 1..Len(s[i]) : t[o[i] + j] = s[i][j]

LEMMA OffsetsExist ==
  ASSUME NEW S, NEW s \in Seq(Seq(S))
  PROVE  \E o : Offsets(o, s)
<1> DEFINE N == Len(s)
           step == [p \in Nat \X (1..N) |-> p[1] + Len(s[p[2]])]
<1>1. N \in Nat /\ \A k \in 1..N : s[k] \in Seq(S) /\ Len(s[k]) \in Nat
  OBVIOUS
<1>2. step \in [Nat \X (1..N) -> Nat]
  <2> HIDE DEF N
  <2> QED BY <1>1
<1>3. PICK g \in [0..N -> Nat] : Stepwise(g, N, 0, step)
  <2> HIDE DEF N, step
  <2> QED BY <1>1, <1>2, StepwiseExists
<1> DEFINE o == [i \in 1..(N + 1) |-> g[i - 1]]
<1>4. \A i \in 1..(N + 1) : i - 1 \in 0..N
  BY <1>1
<1>5. o \in [1..(N + 1) -> Nat]
  <2> HIDE DEF N
  <2> QED BY <1>3, <1>4
<1>6. o[1] = 0
  BY <1>1, <1>3 DEF Stepwise
<1>7. \A i \in 1..N : o[i + 1] = o[i] + Len(s[i])
  <2> TAKE i \in 1..N
  <2>1. i \in 1..(N + 1) /\ i + 1 \in 1..(N + 1) /\ i - 1 \in 0..N /\ (i + 1) - 1 = i
    BY <1>1
  <2>2. g[i] = step[<<g[i - 1], i>>] /\ g[i - 1] \in Nat
    <3> HIDE DEF N, step
    <3> QED BY <1>3, <2>1 DEF Stepwise
  <2>3. step[<<g[i - 1], i>>] = g[i - 1] + Len(s[i])
    <3> HIDE DEF N
    <3> QED BY <2>2
  <2>4. o[i + 1] = g[i] /\ o[i] = g[i - 1]
    <3> HIDE DEF N
    <3> QED BY <2>1
  <2> QED BY <2>2, <2>3, <2>4
<1> QED BY <1>5, <1>6, <1>7 DEF Offsets

\* Two sequences, one after the other
LEMMA JoinIs ==
  ASSUME NEW S, NEW a \in Seq(S), NEW b \in Seq(S)
  PROVE  /\ Len(a \o b) = Len(a) + Len(b)
         /\ \A k \in 1..Len(a) : (a \o b)[k] = a[k]
         /\ \A j \in 1..Len(b) : (a \o b)[Len(a) + j] = b[j]
<1>1. /\ Len(a \o b) = Len(a) + Len(b)
      /\ \A i \in 1..(Len(a) + Len(b)) :
           (a \o b)[i] = IF i <= Len(a) THEN a[i] ELSE b[i - Len(a)]
  BY ConcatProperties
<1>2. Len(a) \in Nat /\ Len(b) \in Nat
  OBVIOUS
<1>3. ASSUME NEW k \in 1..Len(a)
      PROVE  (a \o b)[k] = a[k]
  BY ONLY <1>1, <1>2
<1>4. ASSUME NEW j \in 1..Len(b)
      PROVE  (a \o b)[Len(a) + j] = b[j]
  <2>1. PICK i : i = Len(a) + j
    OBVIOUS
  <2>2. i \in 1..(Len(a) + Len(b)) /\ ~(i <= Len(a)) /\ i - Len(a) = j
    BY ONLY <1>2, <2>1
  <2>3. (a \o b)[i] = IF i <= Len(a) THEN a[i] ELSE b[i - Len(a)]
    BY ONLY <1>1, <2>2
  <2> QED BY ONLY <2>1, <2>2, <2>3
<1> QED BY ONLY <1>1, <1>3, <1>4

LEMMA OffsetsGrow ==
  ASSUME NEW S, NEW s \in Seq(Seq(S)), NEW o, Offsets(o, s)
  PROVE  /\ \A k, i \in 1..(Len(s) + 1) : k <= i => o[k] <= o[i]
         /\ \A k, i \in 1..Len(s) : k < i => o[k] + Len(s[k]) <= o[i]
<1> DEFINE N == Len(s)
           Z == {n \in 0..N : \A k \in 1..(n + 1) : o[k] <= o[n + 1]}
<1>1. /\ N \in Nat /\ \A k \in 1..N : Len(s[k]) \in Nat
      /\ \A i \in 1..N : o[i + 1] = o[i] + Len(s[i])
      /\ \A i \in 1..(N + 1) : o[i] \in Nat
  <2>1. N \in Nat /\ \A k \in 1..N : Len(s[k]) \in Nat
    OBVIOUS
  <2>2. \A i \in 1..N : o[i + 1] = o[i] + Len(s[i])
    BY DEF Offsets
  <2>3. \A i \in 1..(N + 1) : o[i] \in Nat
    BY DEF Offsets
  <2> QED BY <2>1, <2>2, <2>3
<1>2. 0 \in Z
  BY <1>1
<1>3. ASSUME NEW n \in 0..N, n \in Z, n < N
      PROVE  n + 1 \in Z
  <2>1. n + 1 \in 1..N /\ n + 1 \in 0..N /\ n + 1 \in 1..(N + 1) /\ (n + 1) + 1 \in 1..(N + 1)
    BY <1>1, <1>3
  <2>2. o[(n + 1) + 1] = o[n + 1] + Len(s[n + 1]) /\ Len(s[n + 1]) \in Nat
    BY <1>1, <2>1
  <2>3. \A k \in 1..((n + 1) + 1) : o[k] <= o[(n + 1) + 1]
    <3> TAKE k \in 1..((n + 1) + 1)
    <3>1. k \in 1..(n + 1) \/ k = (n + 1) + 1
      BY <1>1
    <3>2. CASE k \in 1..(n + 1)
      <4>1. o[k] <= o[n + 1] /\ o[k] \in Nat /\ o[n + 1] \in Nat
        BY <1>1, <1>3, <2>1, <3>2
      <4> QED BY <2>2, <4>1
    <3>3. CASE k = (n + 1) + 1
      BY <1>1, <2>1, <3>3
    <3> QED BY <3>1, <3>2, <3>3
  <2> QED BY <2>1, <2>3
<1>4. \A n \in 0..N : n \in Z
  <2> HIDE DEF Z
  <2> QED BY <1>1, <1>2, <1>3, UpToFrom
<1>5. \A k, i \in 1..(N + 1) : k <= i => o[k] <= o[i]
  <2> TAKE k, i \in 1..(N + 1)
  <2> HAVE k <= i
  <2>1. i - 1 \in 0..N /\ (i - 1) + 1 = i /\ k \in 1..i
    BY <1>1
  <2>2. i - 1 \in Z
    BY <1>4, <2>1
  <2> QED BY <2>1, <2>2
<1>6. \A k, i \in 1..N : k < i => o[k] + Len(s[k]) <= o[i]
  <2> TAKE k, i \in 1..N
  <2> HAVE k < i
  <2>1. k + 1 \in 1..(N + 1) /\ i \in 1..(N + 1) /\ k + 1 <= i
    BY <1>1
  <2>2. o[k + 1] <= o[i]
    BY <1>5, <2>1
  <2> QED BY <1>1, <2>2
<1> QED BY <1>5, <1>6 DEF N

LEMMA OffsetsCover ==
  ASSUME NEW S, NEW s \in Seq(Seq(S)), NEW o, Offsets(o, s),
         NEW n \in 1..o[Len(s) + 1]
  PROVE  \E i \in 1..Len(s) : \E j \in 1..Len(s[i]) : n = o[i] + j
<1> DEFINE N == Len(s)
           Z == {m \in 0..N : n <= o[m + 1]}
<1>1. /\ N \in Nat /\ \A k \in 1..N : Len(s[k]) \in Nat
      /\ \A i \in 1..N : o[i + 1] = o[i] + Len(s[i])
      /\ \A i \in 1..(N + 1) : o[i] \in Nat
      /\ o[1] = 0
  BY DEF Offsets
<1>2. N \in Z /\ N \in Nat
  BY <1>1
<1>3. PICK m \in Z : \A k \in Z : m <= k
  <2>1. Z \subseteq Nat /\ Z # {}
    BY <1>2
  <2> HIDE DEF Z
  <2> QED BY <2>1, LeastElement
<1>4. m # 0
  BY <1>1, <1>3
<1>5. m \in 1..N /\ m - 1 \in 0..N /\ m - 1 \notin Z /\ (m - 1) + 1 = m
  <2>1. m \in 0..N
    BY <1>3
  <2>2. m \in 1..N /\ m - 1 \in 0..N /\ (m - 1) + 1 = m /\ ~(m <= m - 1)
    BY <1>1, <1>4, <2>1
  <2> HIDE DEF Z
  <2> QED BY <1>3, <2>2
<1>6. o[m] < n /\ n <= o[m] + Len(s[m]) /\ o[m] \in Nat /\ n \in Nat /\ Len(s[m]) \in Nat
  BY <1>1, <1>3, <1>5
<1>7. n - o[m] \in 1..Len(s[m]) /\ n = o[m] + (n - o[m])
  BY <1>6
<1> QED BY <1>5, <1>7 DEF N

LEMMA FlattenIs ==
  ASSUME NEW S, NEW s \in Seq(Seq(S)), NEW o, Offsets(o, s)
  PROVE  FlattenSeq(s) \in Seq(S) /\ Flat(FlattenSeq(s), s, o)
<1> DEFINE N == Len(s)
           step == [p \in Seq(S) \X (1..N) |-> p[1] \o s[p[2]]]
           Next(f) == [i \in 1..N |-> IF i = 1 THEN s[i] ELSE f[i - 1] \o s[i]]
           run == CHOOSE f : f = Next(f)
<1>1. N \in Nat /\ \A k \in 1..N : s[k] \in Seq(S) /\ Len(s[k]) \in Nat
  OBVIOUS
<1>2. step \in [Seq(S) \X (1..N) -> Seq(S)]
  BY <1>1
<1>3. PICK g \in [0..N -> Seq(S)] : Stepwise(g, N, <<>>, step)
  <2>1. <<>> \in Seq(S)
    OBVIOUS
  <2> HIDE DEF N, step
  <2> QED BY <1>1, <1>2, <2>1, StepwiseExists
<1>4. \A n \in 1..N : g[n] = g[n - 1] \o s[n] /\ n - 1 \in 0..N
  <2> TAKE n \in 1..N
  <2>1. n - 1 \in 0..N /\ g[n - 1] \in Seq(S)
    <3> HIDE DEF N
    <3> QED BY <1>1, <1>3
  <2>2. g[n] = step[<<g[n - 1], n>>]
    <3> HIDE DEF N, step
    <3> QED BY <1>3, <2>1 DEF Stepwise
  <2>3. step[<<g[n - 1], n>>] = g[n - 1] \o s[n]
    <3> HIDE DEF N
    <3> QED BY <2>1
  <2> QED BY <2>1, <2>2, <2>3
<1>5. g[0] = <<>>
  BY <1>3 DEF Stepwise
<1>6. N # 0 => g[1] = s[1]
  BY <1>1, <1>4, <1>5
<1> DEFINE f == [i \in 1..N |-> g[i]]
<1>7. f = Next(f)
  <2>1. \A i \in 1..N : g[i] = IF i = 1 THEN s[i] ELSE f[i - 1] \o s[i]
    <3> TAKE i \in 1..N
    <3>1. CASE i = 1
      BY <1>1, <1>6, <3>1
    <3>2. CASE i # 1
      <4>1. i - 1 \in 1..N
        BY <1>1, <3>2
      <4>2. f[i - 1] = g[i - 1]
        <5> HIDE DEF N
        <5> QED BY <4>1
      <4> HIDE DEF f, N
      <4> QED BY <1>4, <3>2, <4>2
    <3> QED BY <3>1, <3>2
  <2> HIDE DEF N
  <2> QED BY <2>1
<1>8. run = Next(run)
  <2> HIDE DEF Next, f
  <2> QED BY <1>7
<1>9. N # 0 => FlattenSeq(s) = run[N]
  BY DEF FlattenSeq
<1>10. /\ run = [i \in 1..N |-> run[i]]
       /\ \A i \in 1..N : run[i] = IF i = 1 THEN s[i] ELSE run[i - 1] \o s[i]
  <2> HIDE DEF run, N
  <2> QED BY <1>8
<1> HIDE DEF run, N, Next, step, f
<1> DEFINE Z == {n \in 0..N : n # 0 => run[n] = g[n]}
<1>11. 0 \in Z
  BY <1>1
<1>12. ASSUME NEW n \in 0..N, n \in Z, n < N
       PROVE  n + 1 \in Z
  <2>1. n + 1 \in 1..N /\ n + 1 \in 0..N /\ (n + 1) - 1 = n
    BY <1>1, <1>12
  <2>2. CASE n = 0
    <3>1. N # 0 /\ n + 1 = 1
      BY <1>1, <1>12, <2>2
    <3>2. run[1] = s[1] /\ g[1] = s[1]
      BY <1>6, <1>10, <2>1, <3>1
    <3> QED BY <2>1, <3>1, <3>2
  <2>3. CASE n # 0
    <3>3. n + 1 # 1
      BY <1>1, <2>3
    <3>1. run[n + 1] = run[n] \o s[n + 1] /\ n + 1 # 1
      BY <1>10, <2>1, <3>3
    <3>2. g[n + 1] = g[n] \o s[n + 1]
      BY <1>4, <2>1
    <3> QED BY <1>12, <2>1, <2>3, <3>1, <3>2
  <2> QED BY <2>2, <2>3
<1>13. \A n \in 0..N : n \in Z
  <2> HIDE DEF Z
  <2> QED BY <1>1, <1>11, <1>12, UpToFrom
<1>14. FlattenSeq(s) = g[N]
  <2>1. CASE N = 0
    BY <1>5, <2>1 DEF N, FlattenSeq
  <2>2. CASE N # 0
    BY <1>1, <1>9, <1>13, <2>2
  <2> QED BY <2>1, <2>2
<1> DEFINE Y == {n \in 0..N : /\ Len(g[n]) = o[n + 1]
                              /\ \A i \in 1..n : \A j \in 1..Len(s[i]) :
                                   o[i] + j \in 1..o[n + 1] /\ g[n][o[i] + j] = s[i][j]}
<1>15. /\ \A i \in 1..N : o[i + 1] = o[i] + Len(s[i])
       /\ \A i \in 1..(N + 1) : o[i] \in Nat
       /\ o[1] = 0
  BY DEF Offsets, N
<1>16. 0 \in Y
  BY <1>1, <1>5, <1>15
<1>17. ASSUME NEW n \in 0..N, n \in Y, n < N
       PROVE  n + 1 \in Y
  <2>1. n + 1 \in 1..N /\ n + 1 \in 0..N /\ (n + 1) - 1 = n /\ n + 1 \in 1..(N + 1)
    BY <1>1, <1>17
  <2>2. g[n + 1] = g[n] \o s[n + 1] /\ g[n] \in Seq(S) /\ s[n + 1] \in Seq(S)
    BY <1>1, <1>4, <2>1
  <2>3. o[(n + 1) + 1] = o[n + 1] + Len(s[n + 1]) /\ o[n + 1] \in Nat /\ Len(s[n + 1]) \in Nat
    BY <1>1, <1>15, <2>1
  <2>4. Len(g[n]) = o[n + 1]
    BY <1>17
  <2>5. /\ Len(g[n + 1]) = o[(n + 1) + 1]
        /\ \A k \in 1..o[n + 1] : g[n + 1][k] = g[n][k]
        /\ \A j \in 1..Len(s[n + 1]) : g[n + 1][o[n + 1] + j] = s[n + 1][j]
    <3> DEFINE a == g[n]
               b == s[n + 1]
    <3>1. /\ a \in Seq(S) /\ b \in Seq(S) /\ Len(a) = o[n + 1] /\ Len(a) \in Nat
          /\ Len(b) \in Nat
      BY <2>2, <2>4
    <3>2. /\ Len(a \o b) = Len(a) + Len(b)
          /\ \A k \in 1..Len(a) : (a \o b)[k] = a[k]
          /\ \A j \in 1..Len(b) : (a \o b)[Len(a) + j] = b[j]
      <4> HIDE DEF a, b
      <4>1. a \in Seq(S) /\ b \in Seq(S)
        BY ONLY <3>1
      <4> QED BY ONLY <4>1, JoinIs
    <3> QED BY <2>2, <2>3, <3>1, <3>2
  <2>6. \A i \in 1..(n + 1) : \A j \in 1..Len(s[i]) :
          o[i] + j \in 1..o[(n + 1) + 1] /\ g[n + 1][o[i] + j] = s[i][j]
    <3> TAKE i \in 1..(n + 1)
    <3> TAKE j \in 1..Len(s[i])
    <3>1. CASE i = n + 1
      BY <2>3, <2>5, <3>1
    <3>2. CASE i # n + 1
      <4>1. i \in 1..n
        BY <1>1, <3>2
      <4>2. o[i] + j \in 1..o[n + 1] /\ g[n][o[i] + j] = s[i][j]
        BY <1>17, <4>1
      <4> QED BY SMTT(30), <2>3, <2>5, <4>2
    <3> QED BY <3>1, <3>2
  <2> QED BY <2>1, <2>5, <2>6
<1>18. \A n \in 0..N : n \in Y
  <2> HIDE DEF Y
  <2> QED BY <1>1, <1>16, <1>17, UpToFrom
<1>19. N \in Y /\ g[N] \in Seq(S)
  BY <1>1, <1>18
<1> QED BY <1>14, <1>19 DEF Flat, N

-----------------------------------------------------------------------------
(* What one slot does                                                        *)

ChildNames == Seq(Nat \cup {"old", "new"})

\* Fibers whose children are in C
FibersOver(C) ==
  [key : ChildKeys \cup {NoKey}, type : ChildTypes, index : Nat \ {0}, instance : ChildNames,
   reused : BOOLEAN, placement : BOOLEAN, props : Seq(LeafElements),
   children : C, deletions : C]

Progress(C) ==
  [olds : Seq(FibersOver(C)), next : Nat \ {0}, stopped : BOOLEAN, lastPlaced : Nat,
   children : Seq(FibersOver(C)), deletions : Seq(FibersOver(C))]

Siblings(fibers) ==
  /\ \A k, l \in 1..Len(fibers) : k < l => fibers[k].index < fibers[l].index
  /\ \A k, l \in 1..Len(fibers) :
       k # l => /\ fibers[k].instance # fibers[l].instance
                /\ fibers[k].key = fibers[l].key => fibers[k].key = NoKey

IsNew(child, element, n, name, track) ==
  \E placed \in BOOLEAN :
    (placed <=> track) /\ child = [Created(element, n, name) EXCEPT !.placement = placed]

IsReused(child, old, element, n, moved) ==
  \E placed \in BOOLEAN :
    (placed <=> moved) /\ child = [Reused(old, element, n) EXCEPT !.placement = placed]

Fits(old, element, n) ==
  /\ old.key = element.key /\ old.type = element.type
  /\ element.key = NoKey => old.index = n

NotPast(acc) == ~acc.stopped => \A k \in 1..Len(acc.olds) : acc.olds[k].index >= acc.next

\* What a slot may do
SkipsSlot(acc, new, element) ==
  /\ element = Hole
  /\ new.olds = acc.olds /\ new.children = acc.children /\ new.deletions = acc.deletions
  /\ new.lastPlaced = acc.lastPlaced

CreatesChild(acc, new, element, name, track) ==
  /\ element # Hole
  /\ \E child : IsNew(child, element, acc.next, name, track)
                /\ new.children = Append(acc.children, child)
  /\ new.olds = acc.olds /\ new.deletions = acc.deletions
  /\ new.lastPlaced = acc.lastPlaced
  /\ \A k \in 1..Len(acc.olds) : ~Fits(acc.olds[k], element, acc.next)

ReplacesChild(acc, new, element, name, track) ==
  /\ element # Hole
  /\ \E child : IsNew(child, element, acc.next, name, track)
                /\ new.children = Append(acc.children, child)
  /\ acc.olds # <<>>
  /\ acc.olds[1].index = acc.next /\ acc.olds[1].key = element.key
  /\ acc.olds[1].type # element.type
  /\ new.olds = Tail(acc.olds) /\ new.deletions = Append(acc.deletions, acc.olds[1])
  /\ new.lastPlaced = acc.lastPlaced

ReusesChild(acc, new, element, track) ==
  /\ element # Hole
  /\ \E k \in 1..Len(acc.olds) :
       LET old == acc.olds[k]
           moved == old.index < acc.lastPlaced
       IN  /\ Fits(old, element, acc.next)
           /\ \E child : IsReused(child, old, element, acc.next, track /\ moved)
                         /\ new.children = Append(acc.children, child)
           /\ new.lastPlaced = IF track /\ ~moved THEN old.index ELSE acc.lastPlaced
           /\ \E h : Picks(h, new.olds, acc.olds, {old})
  /\ new.deletions = acc.deletions

LEMMA ElementsAre ==
  ASSUME NEW element \in ChildElements
  PROVE  /\ element # Hole => /\ element.key \in ChildKeys \cup {NoKey}
                              /\ element.type \in ChildTypes
                              /\ element.children \in Seq(LeafElements)
         /\ Hole.key = NoKey /\ Hole.type = "hole" /\ Hole.children = <<>>
BY DEF ChildElements, Hole

LEMMA CreatedIs ==
  ASSUME NEW C, <<>> \in C, NEW element \in ChildElements, element # Hole,
         NEW n \in Nat \ {0}, NEW name \in ChildNames, NEW placed \in BOOLEAN
  PROVE  LET child == [Created(element, n, name) EXCEPT !.placement = placed]
         IN  /\ child \in FibersOver(C)
             /\ child.key = element.key /\ child.type = element.type /\ child.index = n
             /\ child.instance = name /\ ~child.reused /\ child.placement = placed
             /\ child.props = element.children /\ child.children = <<>>
             /\ child.deletions = <<>>
BY ElementsAre DEF Created, FibersOver

LEMMA ReusedIs ==
  ASSUME NEW C, <<>> \in C, NEW old \in FibersOver(C),
         NEW element \in ChildElements, element # Hole,
         old.key = element.key, old.type = element.type,
         NEW n \in Nat \ {0}, NEW placed \in BOOLEAN
  PROVE  LET child == [Reused(old, element, n) EXCEPT !.placement = placed]
         IN  /\ child \in FibersOver(C)
             /\ child.key = element.key /\ child.type = element.type /\ child.index = n
             /\ child.instance = old.instance /\ child.reused /\ child.placement = placed
             /\ child.props = element.children /\ child.children = old.children
             /\ child.deletions = <<>>
BY ElementsAre DEF Reused, FibersOver

LEMMA TheOnly ==
  ASSUME NEW x
  PROVE  The({x}) = x
BY DEF The

Placed(new, acc, M, fiber, track) ==
  /\ \E placed \in BOOLEAN :
       /\ placed <=> track /\ (~fiber.reused \/ IsMoved(acc, M, fiber))
       /\ new.children = Append(acc.children, [fiber EXCEPT !.placement = placed])
  /\ new.lastPlaced = IF track /\ fiber.reused /\ ~IsMoved(acc, M, fiber)
                      THEN The(M).index ELSE acc.lastPlaced
  /\ new.olds = acc.olds /\ new.next = acc.next /\ new.stopped = acc.stopped
  /\ new.deletions = acc.deletions

LEMMA PlaceIs ==
  ASSUME NEW C, NEW acc \in Progress(C), NEW M, NEW fiber \in FibersOver(C), NEW track,
         NEW new, new = PlaceChild(acc, M, fiber, track),
         fiber.reused => The(M).index \in Nat
  PROVE  /\ new \in Progress(C)
         /\ Placed(new, acc, M, fiber, track)
<1> DEFINE b == track /\ (~fiber.reused \/ IsMoved(acc, M, fiber))
           child == [fiber EXCEPT !.placement = b]
           last == IF track /\ fiber.reused /\ ~IsMoved(acc, M, fiber) THEN The(M).index
                   ELSE acc.lastPlaced
<1>1. PICK placed \in BOOLEAN : placed = b
  OBVIOUS
<1>2. child \in FibersOver(C)
  <2> HIDE DEF b
  <2> QED BY <1>1 DEF FibersOver
<1>3. last \in Nat
  BY DEF Progress
<1>4. new = [acc EXCEPT !.children = Append(acc.children, child), !.lastPlaced = last]
  BY DEF PlaceChild
<1>5. Append(acc.children, child) \in Seq(FibersOver(C))
  <2> HIDE DEF child
  <2> QED BY <1>2 DEF Progress
<1> HIDE DEF child, last
<1>6. /\ new \in Progress(C)
      /\ new.children = Append(acc.children, child)
      /\ new.lastPlaced = last
      /\ new.olds = acc.olds /\ new.next = acc.next /\ new.stopped = acc.stopped
      /\ new.deletions = acc.deletions
  BY <1>3, <1>4, <1>5 DEF Progress
<1>7. placed <=> b
  BY <1>1
<1>8. child = [fiber EXCEPT !.placement = placed]
  <2> HIDE DEF b
  <2> QED BY <1>1 DEF child
<1>9. \E p \in BOOLEAN :
        (p <=> b) /\ new.children = Append(acc.children, [fiber EXCEPT !.placement = p])
  <2> HIDE DEF b
  <2> QED BY <1>6, <1>7, <1>8
<1> QED BY <1>6, <1>9 DEF last, b, Placed

NewPlaced(C, new, acc, element, name, track) ==
  /\ new \in Progress(C)
  /\ \E child : IsNew(child, element, acc.next, name, track)
                /\ new.children = Append(acc.children, child)
  /\ new.olds = acc.olds /\ new.next = acc.next /\ new.stopped = acc.stopped
  /\ new.deletions = acc.deletions /\ new.lastPlaced = acc.lastPlaced

OldPlaced(C, new, acc, old, element, track) ==
  LET moved == old.index < acc.lastPlaced
  IN  /\ new \in Progress(C)
      /\ \E child : IsReused(child, old, element, acc.next, track /\ moved)
                    /\ new.children = Append(acc.children, child)
      /\ new.olds = acc.olds /\ new.next = acc.next /\ new.stopped = acc.stopped
      /\ new.deletions = acc.deletions
      /\ new.lastPlaced = IF track /\ ~moved THEN old.index ELSE acc.lastPlaced

\* A slot that no old fiber fits
LEMMA PlacesNew ==
  ASSUME NEW C, <<>> \in C, NEW acc \in Progress(C), NEW M,
         NEW element \in ChildElements, element # Hole, NEW name \in ChildNames,
         NEW track \in BOOLEAN, ~\E old \in M : old.type = element.type,
         NEW new, new = PlaceChild(acc, M, UpdateMatched(M, element, acc.next, name), track)
  PROVE  /\ ~UpdateMatched(M, element, acc.next, name).reused
         /\ NewPlaced(C, new, acc, element, name, track)
<1> DEFINE fiber == UpdateMatched(M, element, acc.next, name)
<1>1. fiber = Created(element, acc.next, name)
  BY DEF UpdateMatched
<1>3. acc.next \in Nat \ {0}
  BY DEF Progress
<1>4. fiber \in FibersOver(C) /\ ~fiber.reused
  BY <1>1, <1>3, ElementsAre DEF Created, FibersOver
<1> HIDE DEF fiber
<1>5. ~IsMoved(acc, M, fiber)
  BY <1>4 DEF IsMoved
<1>6. /\ new \in Progress(C)
      /\ \E placed \in BOOLEAN :
           /\ placed <=> track /\ (~fiber.reused \/ IsMoved(acc, M, fiber))
           /\ new.children = Append(acc.children, [fiber EXCEPT !.placement = placed])
      /\ new.lastPlaced = IF track /\ fiber.reused /\ ~IsMoved(acc, M, fiber)
                          THEN The(M).index ELSE acc.lastPlaced
      /\ new.olds = acc.olds /\ new.next = acc.next /\ new.stopped = acc.stopped
      /\ new.deletions = acc.deletions
  <2>1. new = PlaceChild(acc, M, fiber, track)
    BY DEF fiber
  <2>2. fiber.reused => The(M).index \in Nat
    BY <1>4
  <2>3. new \in Progress(C) /\ Placed(new, acc, M, fiber, track)
    BY <1>4, <2>1, <2>2, PlaceIs
  <2> QED BY <2>3 DEF Placed
<1>7. PICK placed \in BOOLEAN :
        /\ placed <=> track /\ (~fiber.reused \/ IsMoved(acc, M, fiber))
        /\ new.children = Append(acc.children, [fiber EXCEPT !.placement = placed])
  BY <1>6
<1>8. placed <=> track
  BY <1>4, <1>7
<1>9. IsNew([fiber EXCEPT !.placement = placed], element, acc.next, name, track)
  BY <1>1, <1>8 DEF IsNew
<1>10. new.lastPlaced = acc.lastPlaced
  BY <1>4, <1>6
<1> QED BY <1>4, <1>6, <1>7, <1>9, <1>10 DEF fiber, NewPlaced

\* A slot that an old fiber fits
LEMMA PlacesOld ==
  ASSUME NEW C, <<>> \in C, NEW acc \in Progress(C), NEW old \in FibersOver(C),
         NEW element \in ChildElements, element # Hole, NEW name \in ChildNames,
         NEW track \in BOOLEAN, old.key = element.key, old.type = element.type,
         NEW new, new = PlaceChild(acc, {old},
                                   UpdateMatched({old}, element, acc.next, name), track)
  PROVE  /\ UpdateMatched({old}, element, acc.next, name).reused
         /\ OldPlaced(C, new, acc, old, element, track)
<1> DEFINE fiber == UpdateMatched({old}, element, acc.next, name)
           moved == old.index < acc.lastPlaced
<1>1. fiber = Reused(old, element, acc.next)
  BY TheOnly DEF UpdateMatched
<1>3. acc.next \in Nat \ {0}
  BY DEF Progress
<1>4. fiber \in FibersOver(C) /\ fiber.reused
  BY <1>1, <1>3, ElementsAre DEF Reused, FibersOver
<1> HIDE DEF fiber
<1>5. IsMoved(acc, {old}, fiber) <=> moved
  BY <1>4, TheOnly DEF IsMoved
<1>6. /\ new \in Progress(C)
      /\ \E placed \in BOOLEAN :
           /\ placed <=> track /\ (~fiber.reused \/ IsMoved(acc, {old}, fiber))
           /\ new.children = Append(acc.children, [fiber EXCEPT !.placement = placed])
      /\ new.lastPlaced = IF track /\ fiber.reused /\ ~IsMoved(acc, {old}, fiber)
                          THEN The({old}).index ELSE acc.lastPlaced
      /\ new.olds = acc.olds /\ new.next = acc.next /\ new.stopped = acc.stopped
      /\ new.deletions = acc.deletions
  <2>1. new = PlaceChild(acc, {old}, fiber, track)
    BY DEF fiber
  <2>2. fiber.reused => The({old}).index \in Nat
    BY TheOnly DEF FibersOver
  <2>3. new \in Progress(C) /\ Placed(new, acc, {old}, fiber, track)
    BY <1>4, <2>1, <2>2, PlaceIs
  <2> QED BY <2>3 DEF Placed
<1>7. PICK placed \in BOOLEAN :
        /\ placed <=> track /\ (~fiber.reused \/ IsMoved(acc, {old}, fiber))
        /\ new.children = Append(acc.children, [fiber EXCEPT !.placement = placed])
  BY <1>6
<1>8. placed <=> track /\ moved
  BY <1>4, <1>5, <1>7
<1>9. IsReused([fiber EXCEPT !.placement = placed], old, element, acc.next, track /\ moved)
  BY <1>1, <1>8 DEF IsReused
<1>10. new.lastPlaced = IF track /\ ~moved THEN old.index ELSE acc.lastPlaced
  BY <1>4, <1>5, <1>6, TheOnly
<1> QED BY <1>4, <1>6, <1>7, <1>9, <1>10 DEF fiber, OldPlaced

LEMMA TailPicks ==
  ASSUME NEW S, NEW s \in Seq(S), s # <<>>, \A k, l \in 1..Len(s) : k # l => s[k] # s[l]
  PROVE  \E h : Picks(h, Tail(s), s, {s[1]})
<1> DEFINE N == Len(s)
           t == Tail(s)
           h == [i \in 1..(N - 1) |-> i + 1]
<1>1. /\ N \in Nat \ {0} /\ Len(t) = N - 1
      /\ \A i \in 1..(N - 1) : t[i] = s[i + 1]
  OBVIOUS
<1> HIDE DEF N, t
<1>2. \A i \in 1..(N - 1) : h[i] = i + 1 /\ i + 1 \in 1..N /\ i + 1 # 1
  BY <1>1
<1>3. h \in [1..(N - 1) -> 1..N]
  BY <1>2
<1> HIDE DEF h
<1>4. 1 \in 1..N /\ N = Len(s)
  BY <1>1 DEF N
<1>5. \A k \in 1..(N - 1) : t[k] = s[h[k]] /\ s[h[k]] \notin {s[1]}
  BY <1>1, <1>2, <1>4
<1>6. \A k, l \in 1..(N - 1) : k < l => h[k] < h[l]
  BY <1>1, <1>2
<1>7. \A n \in 1..N : s[n] \notin {s[1]} => \E k \in 1..(N - 1) : h[k] = n
  <2> TAKE n \in 1..N
  <2> HAVE s[n] \notin {s[1]}
  <2>1. n # 1
    OBVIOUS
  <2>2. n - 1 \in 1..(N - 1) /\ (n - 1) + 1 = n
    BY <1>1, <2>1
  <2> QED BY <1>2, <2>2
<1>8. 1..Len(t) = 1..(N - 1) /\ 1..Len(s) = 1..N
  BY <1>1, <1>4
<1>9. Picks(h, t, s, {s[1]})
  BY <1>3, <1>5, <1>6, <1>7, <1>8 DEF Picks
<1> QED BY <1>9 DEF t

LEMMA ProgressFields ==
  ASSUME NEW C, NEW acc \in Progress(C)
  PROVE  /\ acc.olds \in Seq(FibersOver(C)) /\ acc.next \in Nat \ {0}
         /\ acc.stopped \in BOOLEAN /\ acc.lastPlaced \in Nat
         /\ acc.children \in Seq(FibersOver(C)) /\ acc.deletions \in Seq(FibersOver(C))
         /\ \A k \in 1..Len(acc.olds) :
              acc.olds[k] \in FibersOver(C) /\ acc.olds[k].index \in Nat \ {0}
         /\ Len(acc.olds) \in Nat
<1>1. /\ acc.olds \in Seq(FibersOver(C)) /\ acc.next \in Nat \ {0}
      /\ acc.stopped \in BOOLEAN /\ acc.lastPlaced \in Nat
      /\ acc.children \in Seq(FibersOver(C)) /\ acc.deletions \in Seq(FibersOver(C))
  BY DEF Progress
<1>2. \A k \in 1..Len(acc.olds) : acc.olds[k] \in FibersOver(C)
  BY <1>1
<1>3. \A f \in FibersOver(C) : f.index \in Nat \ {0}
  BY DEF FibersOver
<1> QED BY <1>1, <1>2, <1>3

Advanced(acc, n, olds) == [acc EXCEPT !.next = n, !.olds = olds]

LEMMA ProgressMoves ==
  ASSUME NEW C, NEW acc \in Progress(C), NEW n \in Nat \ {0},
         NEW olds \in Seq(FibersOver(C)),
         NEW new, new = Advanced(acc, n, olds)
  PROVE  /\ new \in Progress(C) /\ new.next = n /\ new.olds = olds
         /\ new.stopped = acc.stopped /\ new.lastPlaced = acc.lastPlaced
         /\ new.children = acc.children /\ new.deletions = acc.deletions
BY DEF Progress, Advanced

LEMMA SiblingsDiffer ==
  ASSUME NEW fibers, Siblings(fibers)
  PROVE  \A k, l \in 1..Len(fibers) : k # l => fibers[k] # fibers[l]
BY DEF Siblings

LEMMA SecondPassDoes ==
  ASSUME NEW C, <<>> \in C, NEW acc \in Progress(C), Siblings(acc.olds),
         NEW element \in ChildElements, NEW name \in ChildNames, NEW track \in BOOLEAN,
         NEW new, new = SecondPass(acc, element, name, track)
  PROVE  /\ new \in Progress(C) /\ new.next = acc.next + 1 /\ new.stopped = acc.stopped
         /\ \/ SkipsSlot(acc, new, element)
            \/ CreatesChild(acc, new, element, name, track)
            \/ ReusesChild(acc, new, element, track)
<1> DEFINE M == Matches(acc.olds, element, acc.next)
           fiber == UpdateMatched(M, element, acc.next, name)
           placed == PlaceChild(acc, M, fiber, track)
<1>1. /\ acc.olds \in Seq(FibersOver(C)) /\ acc.next \in Nat \ {0}
      /\ \A k \in 1..Len(acc.olds) :
           acc.olds[k] \in FibersOver(C) /\ acc.olds[k].index \in Nat \ {0}
  BY ProgressFields
<1>2. new = IF element = Hole THEN [acc EXCEPT !.next = acc.next + 1]
            ELSE [placed EXCEPT !.next = placed.next + 1,
                                !.olds = IF fiber.reused THEN Without(placed.olds, M)
                                         ELSE placed.olds]
  BY DEF SecondPass
<1>3. \A f : f \in M <=> \E k \in 1..Len(acc.olds) :
               f = acc.olds[k] /\ f.key = element.key
               /\ (element.key = NoKey => f.index = acc.next)
  BY <1>1 DEF Matches, ToSet
<1>4. \A f, g \in M : f = g
  <2> TAKE f, g \in M
  <2>1. PICK k \in 1..Len(acc.olds) :
               f = acc.olds[k] /\ f.key = element.key
               /\ (element.key = NoKey => f.index = acc.next)
    BY <1>3
  <2>2. PICK l \in 1..Len(acc.olds) :
               g = acc.olds[l] /\ g.key = element.key
               /\ (element.key = NoKey => g.index = acc.next)
    BY <1>3
  <2>3. SUFFICES ASSUME k # l
                 PROVE  FALSE
    BY <2>1, <2>2
  <2>4. f.index = g.index
    BY <2>1, <2>2, <2>3 DEF Siblings
  <2>5. k < l \/ l < k
    BY <2>3
  <2>6. acc.olds[k].index \in Nat /\ acc.olds[l].index \in Nat
    BY <1>1
  <2> QED BY <2>1, <2>2, <2>4, <2>5, <2>6 DEF Siblings
<1> HIDE DEF M
<1>5. CASE element = Hole
  <2>1. new = [acc EXCEPT !.next = acc.next + 1]
    BY <1>2, <1>5
  <2>2. /\ new \in Progress(C) /\ new.next = acc.next + 1 /\ new.stopped = acc.stopped
        /\ new.olds = acc.olds /\ new.children = acc.children /\ new.deletions = acc.deletions
        /\ new.lastPlaced = acc.lastPlaced
    BY SMTT(30), <1>1, <2>1 DEF Progress
  <2> QED BY <1>5, <2>2 DEF SkipsSlot
<1>6. CASE element # Hole /\ \E old \in M : old.type = element.type
  <2>1. PICK old \in M : old.type = element.type
    BY <1>6
  <2>2. M = {old}
    BY <1>4, <2>1
  <2>3. PICK k \in 1..Len(acc.olds) :
               old = acc.olds[k] /\ old.key = element.key
               /\ (element.key = NoKey => old.index = acc.next)
    BY <1>3
  <2>4. old \in FibersOver(C)
    BY <1>1, <2>3
  <2>5. fiber.reused /\ OldPlaced(C, placed, acc, old, element, track)
    BY <1>6, <2>1, <2>2, <2>3, <2>4, PlacesOld
  <2>6. Without(acc.olds, M) \in Seq(FibersOver(C))
        /\ \E h : Picks(h, Without(acc.olds, M), acc.olds, {old})
    BY <1>1, <2>2, WithoutPicks
  <2> HIDE DEF placed, fiber
  <2>7. new = [placed EXCEPT !.next = placed.next + 1, !.olds = Without(placed.olds, M)]
    BY <1>2, <1>6, <2>5
  <2>8. /\ new \in Progress(C) /\ new.next = acc.next + 1 /\ new.stopped = acc.stopped
        /\ new.olds = Without(acc.olds, M) /\ new.children = placed.children
        /\ new.deletions = acc.deletions /\ new.lastPlaced = placed.lastPlaced
    <3>1. /\ placed \in Progress(C) /\ placed.olds = acc.olds /\ placed.next = acc.next
          /\ placed.stopped = acc.stopped /\ placed.deletions = acc.deletions
      BY <2>5 DEF OldPlaced
    <3>2. new = Advanced(placed, acc.next + 1, Without(acc.olds, M))
      BY <2>7, <3>1 DEF Advanced
    <3>3. acc.next + 1 \in Nat \ {0} /\ Without(acc.olds, M) \in Seq(FibersOver(C))
      BY <1>1, <2>6
    <3> QED BY <3>1, <3>2, <3>3, ProgressMoves
  <2>9. Fits(old, element, acc.next)
    BY <2>1, <2>3 DEF Fits
  <2>10. ReusesChild(acc, new, element, track)
    BY <1>6, <2>3, <2>5, <2>6, <2>8, <2>9 DEF ReusesChild, OldPlaced
  <2> QED BY <2>8, <2>10
<1>7. CASE element # Hole /\ ~\E old \in M : old.type = element.type
  <2>1. ~fiber.reused /\ NewPlaced(C, placed, acc, element, name, track)
    BY <1>7, PlacesNew
  <2> HIDE DEF placed, fiber
  <2>2. new = [placed EXCEPT !.next = placed.next + 1, !.olds = placed.olds]
    BY <1>2, <1>7, <2>1
  <2>3. /\ new \in Progress(C) /\ new.next = acc.next + 1 /\ new.stopped = acc.stopped
        /\ new.olds = acc.olds /\ new.children = placed.children
        /\ new.deletions = acc.deletions /\ new.lastPlaced = acc.lastPlaced
    <3>1. /\ placed \in Progress(C) /\ placed.olds = acc.olds /\ placed.next = acc.next
          /\ placed.stopped = acc.stopped /\ placed.deletions = acc.deletions
          /\ placed.lastPlaced = acc.lastPlaced
      BY <2>1 DEF NewPlaced
    <3>2. new = Advanced(placed, acc.next + 1, acc.olds)
      BY <2>2, <3>1 DEF Advanced
    <3>3. acc.next + 1 \in Nat \ {0} /\ acc.olds \in Seq(FibersOver(C))
      BY <1>1, ProgressFields
    <3> QED BY <3>1, <3>2, <3>3, ProgressMoves
  <2>4. \A k \in 1..Len(acc.olds) : ~Fits(acc.olds[k], element, acc.next)
    BY <1>3, <1>7 DEF Fits
  <2>5. CreatesChild(acc, new, element, name, track)
    BY <1>7, <2>1, <2>3, <2>4 DEF CreatesChild, NewPlaced
  <2> QED BY <2>3, <2>5
<1> QED BY <1>5, <1>6, <1>7

SlotDone(C, new, acc, element, name, track) ==
  /\ new \in Progress(C) /\ new.next = acc.next + 1
  /\ NotPast(new)
  /\ \/ SkipsSlot(acc, new, element)
     \/ CreatesChild(acc, new, element, name, track)
     \/ ReplacesChild(acc, new, element, name, track)
     \/ ReusesChild(acc, new, element, track)

\* A slot of the first loop
LEMMA FirstPassDoes ==
  ASSUME NEW C, <<>> \in C, NEW acc \in Progress(C), Siblings(acc.olds), NotPast(acc),
         NEW element \in ChildElements, NEW name \in ChildNames, NEW track \in BOOLEAN,
         ~acc.stopped, acc.olds # <<>>, element # Hole,
         (IF acc.olds[1].index > acc.next THEN NoKey ELSE acc.olds[1].key) = element.key
  PROVE  SlotDone(C, FirstPass(acc, element, name, track), acc, element, name, track)
<1> DEFINE atHole == acc.olds[1].index > acc.next
           M == IF atHole THEN {} ELSE {acc.olds[1]}
           fiber == UpdateMatched(M, element, acc.next, name)
           placed == PlaceChild(acc, M, fiber, track)
           new == FirstPass(acc, element, name, track)
<1>1. /\ acc.olds \in Seq(FibersOver(C)) /\ acc.next \in Nat \ {0}
      /\ \A k \in 1..Len(acc.olds) :
           acc.olds[k] \in FibersOver(C) /\ acc.olds[k].index \in Nat \ {0}
      /\ acc.deletions \in Seq(FibersOver(C)) /\ Len(acc.olds) \in Nat
      /\ acc.next + 1 \in Nat \ {0}
  BY ProgressFields
<1>2. new = [placed EXCEPT
               !.olds = IF atHole THEN placed.olds ELSE Tail(placed.olds),
               !.next = placed.next + 1,
               !.deletions = IF ~atHole /\ ~fiber.reused
                             THEN Append(placed.deletions, acc.olds[1]) ELSE placed.deletions]
  BY DEF FirstPass
<1>3. \A k \in 1..Len(acc.olds) : k # 1 => acc.olds[1].index < acc.olds[k].index
  BY <1>1 DEF Siblings
<1>4. 1 \in 1..Len(acc.olds) /\ acc.olds[1] \in FibersOver(C)
      /\ acc.olds[1].index \in Nat
  BY <1>1
<1>5. CASE atHole
  <2>1. M = {} /\ element.key = NoKey
    BY <1>5
  <2>2. \A k \in 1..Len(acc.olds) : acc.olds[k].index > acc.next
    BY <1>1, <1>3, <1>4, <1>5
  <2>3. ~fiber.reused /\ NewPlaced(C, placed, acc, element, name, track)
    BY <2>1, PlacesNew
  <2> HIDE DEF placed, fiber, M
  <2>4. new = Advanced(placed, acc.next + 1, acc.olds)
    BY <1>2, <1>5, <2>3 DEF NewPlaced, Advanced, Progress
  <2> HIDE DEF new
  <2>5. /\ new \in Progress(C) /\ new.next = acc.next + 1 /\ new.stopped = acc.stopped
        /\ new.olds = acc.olds /\ new.children = placed.children
        /\ new.deletions = acc.deletions /\ new.lastPlaced = acc.lastPlaced
    <3>1. /\ placed \in Progress(C) /\ placed.olds = acc.olds
          /\ placed.stopped = acc.stopped /\ placed.deletions = acc.deletions
          /\ placed.lastPlaced = acc.lastPlaced
      BY <2>3 DEF NewPlaced
    <3>2. acc.next + 1 \in Nat \ {0} /\ acc.olds \in Seq(FibersOver(C))
      BY <1>1
    <3> HIDE DEF atHole
    <3> QED BY <2>4, <3>1, <3>2, ProgressMoves
  <2>6. CreatesChild(acc, new, element, name, track)
    BY <1>1, <2>1, <2>2, <2>3, <2>5 DEF CreatesChild, NewPlaced, Fits
  <2>7. NotPast(new)
    BY <1>1, <2>2, <2>5 DEF NotPast
  <2> QED BY <2>5, <2>6, <2>7 DEF SlotDone, new
<1>6. CASE ~atHole
  <2> DEFINE old == acc.olds[1]
  <2>1. M = {old} /\ old.key = element.key /\ old.index = acc.next
    BY <1>1, <1>4, <1>6 DEF NotPast
  <2>2. \A k, l \in 1..Len(acc.olds) : k # l => acc.olds[k] # acc.olds[l]
    BY SiblingsDiffer
  <2>3. /\ Tail(acc.olds) \in Seq(FibersOver(C))
        /\ \E h : Picks(h, Tail(acc.olds), acc.olds, {old})
    <3>1. \E h : Picks(h, Tail(acc.olds), acc.olds, {acc.olds[1]})
      BY <1>1, <2>2, TailPicks
    <3>2. Tail(acc.olds) \in Seq(FibersOver(C))
      BY <1>1
    <3> QED BY <3>1, <3>2
  <2>4. \A k \in 1..Len(Tail(acc.olds)) : Tail(acc.olds)[k].index >= acc.next + 1
    <3> TAKE k \in 1..Len(Tail(acc.olds))
    <3>1. Tail(acc.olds)[k] = acc.olds[k + 1] /\ k + 1 \in 1..Len(acc.olds) /\ k + 1 # 1
      BY <1>1
    <3> QED BY <1>1, <1>3, <1>4, <2>1, <3>1
  <2>5. CASE old.type = element.type
    <3>1. fiber.reused /\ OldPlaced(C, placed, acc, old, element, track)
      BY <1>4, <2>1, <2>5, PlacesOld
    <3> HIDE DEF placed, fiber, M
    <3>2. /\ placed \in Progress(C) /\ placed.olds = acc.olds /\ placed.next = acc.next
          /\ placed.stopped = acc.stopped /\ placed.deletions = acc.deletions
      BY <3>1 DEF OldPlaced
    <3>3. new = Advanced(placed, acc.next + 1, Tail(acc.olds))
      BY <1>2, <1>6, <3>1, <3>2 DEF Advanced, Progress
    <3> HIDE DEF new
    <3>4. /\ new \in Progress(C) /\ new.next = acc.next + 1 /\ new.stopped = acc.stopped
          /\ new.olds = Tail(acc.olds) /\ new.children = placed.children
          /\ new.deletions = acc.deletions /\ new.lastPlaced = placed.lastPlaced
      <4> DEFINE tail == Tail(acc.olds)
      <4>1. acc.next + 1 \in Nat \ {0} /\ tail \in Seq(FibersOver(C))
        BY <1>1, <2>3
      <4>2. new = Advanced(placed, acc.next + 1, tail)
        BY <3>3
      <4> HIDE DEF tail
      <4>3. /\ new \in Progress(C) /\ new.next = acc.next + 1 /\ new.olds = tail
            /\ new.stopped = placed.stopped /\ new.lastPlaced = placed.lastPlaced
            /\ new.children = placed.children /\ new.deletions = placed.deletions
        BY <3>2, <4>1, <4>2, ProgressMoves
      <4> QED BY <3>2, <4>3 DEF tail
    <3>5. Fits(old, element, acc.next)
      BY <2>1, <2>5 DEF Fits
    <3>6. ReusesChild(acc, new, element, track)
      BY <1>4, <2>3, <3>1, <3>4, <3>5 DEF ReusesChild, OldPlaced
    <3>7. NotPast(new)
      BY <2>4, <3>4 DEF NotPast
    <3> QED BY <3>4, <3>6, <3>7 DEF SlotDone, new
  <2>6. CASE old.type # element.type
    <3>1. ~fiber.reused /\ NewPlaced(C, placed, acc, element, name, track)
      BY <2>1, <2>6, PlacesNew
    <3> HIDE DEF placed, fiber, M
    <3>2. /\ placed \in Progress(C) /\ placed.olds = acc.olds /\ placed.next = acc.next
          /\ placed.stopped = acc.stopped /\ placed.deletions = acc.deletions
          /\ placed.lastPlaced = acc.lastPlaced
      BY <3>1 DEF NewPlaced
    <3>3. new = [placed EXCEPT !.olds = Tail(acc.olds), !.next = acc.next + 1,
                               !.deletions = Append(acc.deletions, acc.olds[1])]
      BY <1>2, <1>6, <3>1, <3>2
    <3> DEFINE tail == Tail(acc.olds)
               deleted == Append(acc.deletions, acc.olds[1])
    <3>4. tail \in Seq(FibersOver(C)) /\ deleted \in Seq(FibersOver(C))
      BY <1>1, <1>4, <2>3
    <3>5. new = [placed EXCEPT !.olds = tail, !.next = acc.next + 1, !.deletions = deleted]
      BY <3>3
    <3> HIDE DEF new, tail, deleted
    <3>6. /\ new \in Progress(C) /\ new.next = acc.next + 1 /\ new.stopped = acc.stopped
          /\ new.olds = tail /\ new.children = placed.children
          /\ new.deletions = deleted /\ new.lastPlaced = acc.lastPlaced
      BY <1>1, <3>2, <3>4, <3>5 DEF Progress
    <3>7. ReplacesChild(acc, new, element, name, track)
      BY <2>1, <2>6, <3>1, <3>6 DEF ReplacesChild, NewPlaced, tail, deleted
    <3>8. NotPast(new)
      BY <2>4, <3>6 DEF NotPast, tail
    <3> QED BY <3>6, <3>7, <3>8 DEF SlotDone, new
  <2> QED BY <2>5, <2>6
<1> QED BY <1>5, <1>6

LEMMA UpdateSlotDoes ==
  ASSUME NEW C, <<>> \in C, NEW acc \in Progress(C), Siblings(acc.olds), NotPast(acc),
         NEW element \in ChildElements, NEW name \in ChildNames, NEW track \in BOOLEAN
  PROVE  SlotDone(C, UpdateSlot(acc, element, name, track), acc, element, name, track)
<1> DEFINE first == FirstPass(acc, element, name, track)
           new == UpdateSlot(acc, element, name, track)
<1>1. new = IF first.next > acc.next THEN first ELSE SecondPass(first, element, name, track)
  BY DEF UpdateSlot
<1>2. acc.next \in Nat
  BY ProgressFields
<1>3. CASE acc.stopped \/ acc.olds = <<>>
  <2>1. first = acc
    BY <1>3 DEF FirstPass
  <2>2. new = SecondPass(acc, element, name, track)
    BY <1>1, <1>2, <2>1
  <2> HIDE DEF new
  <2>3. /\ new \in Progress(C) /\ new.next = acc.next + 1 /\ new.stopped = acc.stopped
        /\ \/ SkipsSlot(acc, new, element)
           \/ CreatesChild(acc, new, element, name, track)
           \/ ReusesChild(acc, new, element, track)
    BY <2>2, SecondPassDoes
  <2>4. NotPast(new)
    <3>1. SUFFICES ASSUME acc.olds = <<>>
                   PROVE  new.olds = <<>>
      BY <1>3, <2>3 DEF NotPast
    <3>2. ~ReusesChild(acc, new, element, track)
      BY <3>1 DEF ReusesChild
    <3> QED BY <2>3, <3>1, <3>2 DEF SkipsSlot, CreatesChild
  <2> QED BY <2>3, <2>4 DEF SlotDone, new
<1>4. CASE /\ ~acc.stopped /\ acc.olds # <<>>
           /\ element = Hole \/ (IF acc.olds[1].index > acc.next THEN NoKey
                                 ELSE acc.olds[1].key) # element.key
  <2>1. first = [acc EXCEPT !.stopped = TRUE]
    BY <1>4 DEF FirstPass
  <2> HIDE DEF first
  <2>2. /\ first \in Progress(C) /\ first.stopped /\ first.olds = acc.olds
        /\ first.next = acc.next /\ first.lastPlaced = acc.lastPlaced
        /\ first.children = acc.children /\ first.deletions = acc.deletions
    BY <2>1 DEF Progress
  <2>3. new = SecondPass(first, element, name, track)
    BY <1>1, <1>2, <2>2
  <2> HIDE DEF new
  <2>4. /\ new \in Progress(C) /\ new.next = acc.next + 1 /\ new.stopped
        /\ \/ SkipsSlot(first, new, element)
           \/ CreatesChild(first, new, element, name, track)
           \/ ReusesChild(first, new, element, track)
    BY <2>2, <2>3, SecondPassDoes
  <2>5. NotPast(new)
    BY <2>4 DEF NotPast
  <2>6. SkipsSlot(first, new, element) => SkipsSlot(acc, new, element)
    BY <2>2 DEF SkipsSlot
  <2>7. CreatesChild(first, new, element, name, track)
          => CreatesChild(acc, new, element, name, track)
    BY <2>2 DEF CreatesChild
  <2>8. ReusesChild(first, new, element, track) => ReusesChild(acc, new, element, track)
    BY <2>2 DEF ReusesChild
  <2> QED BY <2>4, <2>5, <2>6, <2>7, <2>8 DEF SlotDone, new
<1>5. CASE /\ ~acc.stopped /\ acc.olds # <<>> /\ element # Hole
           /\ (IF acc.olds[1].index > acc.next THEN NoKey ELSE acc.olds[1].key) = element.key
  BY <1>1, <1>2, <1>5, FirstPassDoes DEF SlotDone
<1> QED BY <1>3, <1>4, <1>5

-----------------------------------------------------------------------------
(* How far a list of siblings is: old children, new ones and their order     *)

Has(s, x) == \E k \in 1..Len(s) : s[k] = x

Once(s, x) == \E k \in 1..Len(s) : s[k] = x /\ \A l \in 1..Len(s) : s[l] = x => l = k

Carries(fibers, name) == \E k \in 1..Len(fibers) : fibers[k].instance = name

CarriesOnce(fibers, name) ==
  \E k \in 1..Len(fibers) :
    /\ fibers[k].instance = name
    /\ \A l \in 1..Len(fibers) : fibers[l].instance = name => l = k

\* An old child is still to be matched, or used once, or deleted once.
Accounted(olds, slots, n, acc, old) ==
  \/ /\ Has(acc.olds, old) /\ ~Carries(acc.children, old.instance) /\ ~Has(acc.deletions, old)
  \/ /\ ~Has(acc.olds, old)
     /\ old.key = NoKey => old.index <= n
     /\ old.key # NoKey => \E m \in 1..n : slots[m].key = old.key
     /\ \/ CarriesOnce(acc.children, old.instance) /\ ~Has(acc.deletions, old)
        \/ ~Carries(acc.children, old.instance) /\ Once(acc.deletions, old)

OldsAreAccounted(olds, slots, n, acc) ==
  /\ Siblings(acc.olds) /\ NotPast(acc)
  /\ \A l \in 1..Len(acc.olds) : Has(olds, acc.olds[l])
  /\ \A l \in 1..Len(acc.deletions) : Has(olds, acc.deletions[l])
  /\ \A k \in 1..Len(olds) : Accounted(olds, slots, n, acc, olds[k])

Answers(child, element) ==
  child.key = element.key /\ child.type = element.type /\ child.props = element.children

\* Where a child comes from
Origin(child, olds, prefix, single) ==
  /\ child.deletions = <<>>
  /\ child.reused =>
       \E k \in 1..Len(olds) : /\ child.instance = olds[k].instance
                               /\ child.children = olds[k].children
                               /\ Continues(child, olds[k], single)
  /\ ~child.reused => /\ child.instance = prefix \o <<child.index>>
                      /\ child.children = <<>>
                      /\ \A k \in 1..Len(olds) : ~Continues(child, olds[k], FALSE)

\* elements are those of the first n slots that are no holes.
ChildrenSoFar(olds, slots, elements, prefix, n, acc) ==
  /\ Len(acc.children) = Len(elements)
  /\ \A i \in 1..Len(acc.children) :
       /\ acc.children[i].index \in 1..n
       /\ slots[acc.children[i].index] = elements[i] /\ elements[i] # Hole
       /\ Answers(acc.children[i], elements[i])
       /\ Origin(acc.children[i], olds, prefix, FALSE)
  /\ \A i, j \in 1..Len(acc.children) : i < j => acc.children[i].index < acc.children[j].index
  /\ \A i, j \in 1..Len(acc.children) :
       i # j => acc.children[i].instance # acc.children[j].instance

\* Children that do not move are in the order of the old ones.
OrderSoFar(olds, track, acc) ==
  /\ \A i \in 1..Len(acc.children) :
       /\ ~track => ~acc.children[i].placement
       /\ track /\ ~acc.children[i].reused => acc.children[i].placement
       /\ track /\ ~acc.children[i].placement =>
            \A k \in 1..Len(olds) :
              acc.children[i].instance = olds[k].instance => olds[k].index <= acc.lastPlaced
  /\ \A i, j \in 1..Len(acc.children) :
       track /\ i < j /\ ~acc.children[i].placement /\ ~acc.children[j].placement =>
         \A k, l \in 1..Len(olds) :
           /\ acc.children[i].instance = olds[k].instance
           /\ acc.children[j].instance = olds[l].instance
           => olds[k].index < olds[l].index

LEMMA AppendIs ==
  ASSUME NEW S, NEW s \in Seq(S), NEW x
  PROVE  /\ Len(Append(s, x)) = Len(s) + 1 /\ Len(s) \in Nat
         /\ \A k \in 1..Len(s) : Append(s, x)[k] = s[k]
         /\ Append(s, x)[Len(s) + 1] = x
OBVIOUS

LEMMA HasOne ==
  ASSUME NEW S, NEW s \in Seq(S), NEW x, NEW y
  PROVE  /\ Has(Append(s, x), y) <=> Has(s, y) \/ x = y
         /\ ~Has(s, x) => Once(Append(s, x), x)
         /\ x # y /\ Once(s, y) => Once(Append(s, x), y)
<1>1. /\ Len(Append(s, x)) = Len(s) + 1 /\ Len(s) \in Nat
      /\ \A k \in 1..Len(s) : Append(s, x)[k] = s[k]
      /\ Append(s, x)[Len(s) + 1] = x
  BY AppendIs
<1> DEFINE t == Append(s, x)
           N == Len(s)
<1> HIDE DEF t, N
<1>2. /\ Len(t) = N + 1 /\ N \in Nat /\ N = Len(s)
      /\ \A k \in 1..N : t[k] = s[k]
      /\ t[N + 1] = x
  BY <1>1 DEF t, N
<1>3. \A k \in 1..(N + 1) : k = N + 1 \/ k \in 1..N
  BY <1>2
<1>4. N + 1 \in 1..(N + 1) /\ \A k \in 1..N : k \in 1..(N + 1) /\ k # N + 1
  BY <1>2
<1>5. /\ Has(t, y) <=> Has(s, y) \/ x = y
      /\ ~Has(s, x) => Once(t, x)
  BY <1>2, <1>3, <1>4 DEF Has, Once
<1>6. x # y /\ Once(s, y) => Once(t, y)
  BY <1>2, <1>3, <1>4 DEF Once
<1> QED BY <1>5, <1>6 DEF t

LEMMA CarriesOne ==
  ASSUME NEW S, NEW s \in Seq(S), NEW x, NEW name
  PROVE  /\ Carries(Append(s, x), name) <=> Carries(s, name) \/ x.instance = name
         /\ ~Carries(s, x.instance) => CarriesOnce(Append(s, x), x.instance)
         /\ x.instance # name /\ CarriesOnce(s, name) => CarriesOnce(Append(s, x), name)
<1>1. /\ Len(Append(s, x)) = Len(s) + 1 /\ Len(s) \in Nat
      /\ \A k \in 1..Len(s) : Append(s, x)[k] = s[k]
      /\ Append(s, x)[Len(s) + 1] = x
  BY AppendIs
<1> DEFINE t == Append(s, x)
           N == Len(s)
<1> HIDE DEF t, N
<1>2. /\ Len(t) = N + 1 /\ N \in Nat /\ N = Len(s)
      /\ \A k \in 1..N : t[k] = s[k]
      /\ t[N + 1] = x
  BY <1>1 DEF t, N
<1>3. \A k \in 1..(N + 1) : k = N + 1 \/ k \in 1..N
  BY <1>2
<1>4. N + 1 \in 1..(N + 1) /\ \A k \in 1..N : k \in 1..(N + 1) /\ k # N + 1
  BY <1>2
<1>5. /\ Carries(t, name) <=> Carries(s, name) \/ x.instance = name
      /\ ~Carries(s, x.instance) => CarriesOnce(t, x.instance)
  BY <1>2, <1>3, <1>4 DEF Carries, CarriesOnce
<1>6. x.instance # name /\ CarriesOnce(s, name) => CarriesOnce(t, name)
  BY <1>2, <1>3, <1>4 DEF CarriesOnce
<1> QED BY <1>5, <1>6 DEF t

\* What is left of the old children when one is taken out
LEMMA PicksAllBut ==
  ASSUME NEW C, NEW olds \in Seq(FibersOver(C)), Siblings(olds), NEW old,
         NEW left \in Seq(FibersOver(C)), NEW h, Picks(h, left, olds, {old})
  PROVE  /\ Siblings(left)
         /\ \A x : Has(left, x) <=> Has(olds, x) /\ x # old
<1>1. /\ h \in [1..Len(left) -> 1..Len(olds)]
      /\ \A k \in 1..Len(left) : left[k] = olds[h[k]] /\ olds[h[k]] # old
      /\ \A k, l \in 1..Len(left) : k < l => h[k] < h[l]
      /\ \A n \in 1..Len(olds) : olds[n] # old => \E k \in 1..Len(left) : h[k] = n
  BY DEF Picks
<1>2. \A k, l \in 1..Len(left) : k # l => h[k] # h[l]
  BY <1>1
<1>3. Siblings(left)
  <2>1. \A k, l \in 1..Len(left) : k < l => left[k].index < left[l].index
    <3>1. SUFFICES ASSUME NEW k \in 1..Len(left), NEW l \in 1..Len(left), k < l
                   PROVE  left[k].index < left[l].index
      OBVIOUS
    <3>2. h[k] \in 1..Len(olds) /\ h[l] \in 1..Len(olds) /\ h[k] < h[l]
      BY <1>1, <3>1
    <3>3. olds[h[k]].index < olds[h[l]].index
      BY <3>2 DEF Siblings
    <3> QED BY <1>1, <3>3
  <2>2. \A k, l \in 1..Len(left) : k # l =>
          /\ left[k].instance # left[l].instance
          /\ left[k].key = left[l].key => left[k].key = NoKey
    BY <1>1, <1>2 DEF Siblings
  <2> QED BY <2>1, <2>2 DEF Siblings
<1>4. \A x : Has(left, x) <=> Has(olds, x) /\ x # old
  <2> TAKE x
  <2>1. ASSUME Has(left, x)
        PROVE  Has(olds, x) /\ x # old
    BY <1>1, <2>1 DEF Has
  <2>2. ASSUME Has(olds, x), x # old
        PROVE  Has(left, x)
    BY <1>1, <2>2 DEF Has
  <2> QED BY <2>1, <2>2
<1> QED BY <1>3, <1>4

IsFresh(olds, prefix) ==
  \A k \in 1..Len(olds), n \in Nat : olds[k].instance # prefix \o <<n>>

\* What a reconciliation starts from
Setting(C, olds, slots, prefix, track) ==
  /\ <<>> \in C
  /\ olds \in Seq(FibersOver(C)) /\ Siblings(olds)
  /\ slots \in Seq(ChildElements) /\ KeysAreUnique(slots)
  /\ prefix \in ChildNames /\ IsFresh(olds, prefix)
  /\ track \in BOOLEAN

LEMMA NewChildIs ==
  ASSUME NEW C, <<>> \in C, NEW element \in ChildElements, element # Hole,
         NEW n \in Nat \ {0}, NEW name \in ChildNames, NEW track \in BOOLEAN,
         NEW child, IsNew(child, element, n, name, track)
  PROVE  /\ child \in FibersOver(C) /\ Answers(child, element) /\ child.index = n
         /\ child.instance = name /\ ~child.reused /\ (child.placement <=> track)
         /\ child.children = <<>> /\ child.deletions = <<>>
<1>1. PICK placed \in BOOLEAN :
        (placed <=> track) /\ child = [Created(element, n, name) EXCEPT !.placement = placed]
  BY DEF IsNew
<1> DEFINE c == [Created(element, n, name) EXCEPT !.placement = placed]
<1>2. /\ c \in FibersOver(C)
      /\ c.key = element.key /\ c.type = element.type /\ c.index = n
      /\ c.instance = name /\ ~c.reused /\ c.placement = placed
      /\ c.props = element.children /\ c.children = <<>>
      /\ c.deletions = <<>>
  BY CreatedIs
<1> HIDE DEF c
<1>3. child = c
  BY <1>1 DEF c
<1> QED BY <1>1, <1>2, <1>3 DEF Answers

LEMMA ReusedChildIs ==
  ASSUME NEW C, <<>> \in C, NEW old \in FibersOver(C),
         NEW element \in ChildElements, element # Hole, NEW n \in Nat \ {0},
         Fits(old, element, n), NEW moved \in BOOLEAN,
         NEW child, IsReused(child, old, element, n, moved)
  PROVE  /\ child \in FibersOver(C) /\ Answers(child, element) /\ child.index = n
         /\ child.instance = old.instance /\ child.reused /\ (child.placement <=> moved)
         /\ child.children = old.children /\ child.deletions = <<>>
<1>1. PICK placed \in BOOLEAN :
        (placed <=> moved) /\ child = [Reused(old, element, n) EXCEPT !.placement = placed]
  BY DEF IsReused
<1> DEFINE c == [Reused(old, element, n) EXCEPT !.placement = placed]
<1>2. /\ c \in FibersOver(C)
      /\ c.key = element.key /\ c.type = element.type /\ c.index = n
      /\ c.instance = old.instance /\ c.reused /\ c.placement = placed
      /\ c.props = element.children /\ c.children = old.children
      /\ c.deletions = <<>>
  BY ReusedIs DEF Fits
<1> HIDE DEF c
<1>3. child = c
  BY <1>1 DEF c
<1> QED BY <1>1, <1>2, <1>3 DEF Answers

LEMMA OldsSkip ==
  ASSUME NEW olds, NEW slots, NEW n \in Nat, NEW acc, NEW new, NEW old,
         old.index \in Nat,
         \A x : Has(new.olds, x) <=> Has(acc.olds, x),
         \A name : name = old.instance =>
           (Carries(new.children, name) <=> Carries(acc.children, name)),
         \A name : name = old.instance /\ CarriesOnce(acc.children, name)
                     => CarriesOnce(new.children, name),
         Has(new.deletions, old) <=> Has(acc.deletions, old),
         Once(acc.deletions, old) => Once(new.deletions, old),
         Accounted(olds, slots, n, acc, old)
  PROVE  Accounted(olds, slots, n + 1, new, old)
<1>1. \A m \in 1..n : m \in 1..(n + 1)
  OBVIOUS
<1>2. old.index <= n => old.index <= n + 1
  OBVIOUS
<1> QED BY <1>1, <1>2 DEF Accounted

\* A slot that appends a new child, or none, and takes no old one
LEMMA OldsCreate ==
  ASSUME NEW C, NEW olds, NEW slots, NEW n \in Nat,
         NEW acc \in Progress(C), NEW child, NEW new \in Progress(C), NotPast(new),
         \A k \in 1..Len(olds) : child.instance # olds[k].instance /\ olds[k].index \in Nat,
         OldsAreAccounted(olds, slots, n, acc),
         \/ new.children = acc.children
         \/ new.children = Append(acc.children, child),
         new.olds = acc.olds, new.deletions = acc.deletions
  PROVE  OldsAreAccounted(olds, slots, n + 1, new)
<1>1. \A k \in 1..Len(olds) : Accounted(olds, slots, n + 1, new, olds[k])
  <2> TAKE k \in 1..Len(olds)
  <2> DEFINE old == olds[k]
  <2>1. acc.children \in Seq(FibersOver(C))
    BY ProgressFields
  <2>2. child.instance # old.instance /\ old.index \in Nat
    OBVIOUS
  <2>3. Accounted(olds, slots, n, acc, old)
    BY DEF OldsAreAccounted
  <2> HIDE DEF old
  <2>4. /\ Carries(new.children, old.instance) <=> Carries(acc.children, old.instance)
        /\ CarriesOnce(acc.children, old.instance) => CarriesOnce(new.children, old.instance)
    <3>1. CASE new.children = acc.children
      BY <3>1
    <3>2. CASE new.children = Append(acc.children, child)
      BY <2>1, <2>2, <3>2, CarriesOne
    <3> QED BY <3>1, <3>2
  <2>5. Accounted(olds, slots, n + 1, new, old)
    BY <2>2, <2>3, <2>4, OldsSkip
  <2> QED BY <2>5 DEF old
<1> QED BY <1>1 DEF OldsAreAccounted

\* A slot that uses an old child
LEMMA OldsReuse ==
  ASSUME NEW C, NEW olds \in Seq(FibersOver(C)), Siblings(olds), NEW slots, NEW n \in Nat,
         NEW acc \in Progress(C), NEW child, NEW new \in Progress(C), NotPast(new),
         OldsAreAccounted(olds, slots, n, acc),
         NEW used, Has(acc.olds, used), child.instance = used.instance,
         used.key = slots[n + 1].key, used.key = NoKey => used.index = n + 1,
         new.children = Append(acc.children, child), new.deletions = acc.deletions,
         NEW h, Picks(h, new.olds, acc.olds, {used})
  PROVE  OldsAreAccounted(olds, slots, n + 1, new)
<1>0. /\ acc.olds \in Seq(FibersOver(C)) /\ new.olds \in Seq(FibersOver(C))
      /\ acc.children \in Seq(FibersOver(C))
  BY ProgressFields
<1>1. /\ Siblings(new.olds)
      /\ \A x : Has(new.olds, x) <=> Has(acc.olds, x) /\ x # used
  BY <1>0, PicksAllBut DEF OldsAreAccounted
<1>2. \A l \in 1..Len(new.olds) : Has(olds, new.olds[l])
  <2> TAKE l \in 1..Len(new.olds)
  <2>1. Has(acc.olds, new.olds[l])
    BY <1>1 DEF Has
  <2>2. PICK m \in 1..Len(acc.olds) : acc.olds[m] = new.olds[l]
    BY <2>1 DEF Has
  <2>3. Has(olds, acc.olds[m])
    BY DEF OldsAreAccounted
  <2> QED BY <2>2, <2>3
<1>3. Has(olds, used)
  BY DEF Has, OldsAreAccounted
<1>4. PICK u \in 1..Len(olds) : olds[u] = used
  BY <1>3 DEF Has
<1>5. \A k \in 1..Len(olds) : Accounted(olds, slots, n + 1, new, olds[k])
  <2> TAKE k \in 1..Len(olds)
  <2> DEFINE old == olds[k]
  <2>1. Accounted(olds, slots, n, acc, old)
    BY DEF OldsAreAccounted
  <2>2. old.index \in Nat
    <3>1. old \in FibersOver(C)
      OBVIOUS
    <3> QED BY <3>1 DEF FibersOver
  <2>3. k # u => old.instance # used.instance /\ old # used
    BY <1>4 DEF Siblings
  <2>4. k = u => old = used
    BY <1>4
  <2> HIDE DEF old
  <2>5. CASE k = u
    BY <1>0, <1>1, <2>1, <2>2, <2>4, <2>5, CarriesOne DEF Accounted, old
  <2>6. CASE k # u
    BY <1>0, <1>1, <2>1, <2>2, <2>3, <2>6, CarriesOne DEF Accounted, old
  <2> QED BY <2>5, <2>6 DEF old
<1>6. \A l \in 1..Len(new.deletions) : Has(olds, new.deletions[l])
  BY DEF OldsAreAccounted
<1> QED BY <1>1, <1>2, <1>5, <1>6 DEF OldsAreAccounted

\* A slot that makes a new child and deletes an old one
LEMMA OldsReplace ==
  ASSUME NEW C, NEW olds \in Seq(FibersOver(C)), Siblings(olds), NEW slots, NEW n \in Nat,
         NEW acc \in Progress(C), NEW child, NEW new \in Progress(C), NotPast(new),
         \A k \in 1..Len(olds) : child.instance # olds[k].instance,
         OldsAreAccounted(olds, slots, n, acc),
         NEW gone, Has(acc.olds, gone), gone.key = slots[n + 1].key, gone.index = n + 1,
         new.children = Append(acc.children, child),
         new.deletions = Append(acc.deletions, gone),
         NEW h, Picks(h, new.olds, acc.olds, {gone})
  PROVE  OldsAreAccounted(olds, slots, n + 1, new)
<1>0. /\ acc.olds \in Seq(FibersOver(C)) /\ new.olds \in Seq(FibersOver(C))
      /\ acc.children \in Seq(FibersOver(C)) /\ acc.deletions \in Seq(FibersOver(C))
  BY ProgressFields
<1>1. /\ Siblings(new.olds)
      /\ \A x : Has(new.olds, x) <=> Has(acc.olds, x) /\ x # gone
  BY <1>0, PicksAllBut DEF OldsAreAccounted
<1>2. \A l \in 1..Len(new.olds) : Has(olds, new.olds[l])
  <2> TAKE l \in 1..Len(new.olds)
  <2>1. Has(acc.olds, new.olds[l])
    BY <1>1 DEF Has
  <2>2. PICK m \in 1..Len(acc.olds) : acc.olds[m] = new.olds[l]
    BY <2>1 DEF Has
  <2>3. Has(olds, acc.olds[m])
    BY DEF OldsAreAccounted
  <2> QED BY <2>2, <2>3
<1>3. Has(olds, gone)
  BY DEF Has, OldsAreAccounted
<1>4. PICK u \in 1..Len(olds) : olds[u] = gone
  BY <1>3 DEF Has
<1>5. \A k \in 1..Len(olds) : Accounted(olds, slots, n + 1, new, olds[k])
  <2> TAKE k \in 1..Len(olds)
  <2> DEFINE old == olds[k]
  <2>1. Accounted(olds, slots, n, acc, old) /\ child.instance # old.instance
    BY DEF OldsAreAccounted
  <2>2. old.index \in Nat
    <3>1. old \in FibersOver(C)
      OBVIOUS
    <3> QED BY <3>1 DEF FibersOver
  <2>3. k # u => old # gone
    BY <1>4 DEF Siblings
  <2>4. k = u => old = gone
    BY <1>4
  <2> HIDE DEF old
  <2>7. /\ Carries(new.children, old.instance) <=> Carries(acc.children, old.instance)
        /\ CarriesOnce(acc.children, old.instance) => CarriesOnce(new.children, old.instance)
    BY <1>0, <2>1, CarriesOne
  <2>8. /\ Has(new.deletions, old) <=> Has(acc.deletions, old) \/ gone = old
        /\ ~Has(acc.deletions, gone) => Once(new.deletions, gone)
        /\ gone # old /\ Once(acc.deletions, old) => Once(new.deletions, old)
    BY <1>0, HasOne
  <2>5. CASE k = u
    BY <1>1, <2>1, <2>2, <2>4, <2>5, <2>7, <2>8 DEF Accounted, old
  <2>6. CASE k # u
    BY <1>1, <2>1, <2>2, <2>3, <2>6, <2>7, <2>8 DEF Accounted, old
  <2> QED BY <2>5, <2>6 DEF old
<1>6. \A l \in 1..Len(new.deletions) : Has(olds, new.deletions[l])
  <2>1. \A l \in 1..Len(acc.deletions) : Has(olds, acc.deletions[l])
    BY DEF OldsAreAccounted
  <2>2. /\ Len(new.deletions) = Len(acc.deletions) + 1 /\ Len(acc.deletions) \in Nat
        /\ \A k \in 1..Len(acc.deletions) : new.deletions[k] = acc.deletions[k]
        /\ new.deletions[Len(acc.deletions) + 1] = gone
    BY <1>0, AppendIs
  <2> TAKE l \in 1..Len(new.deletions)
  <2>3. l \in 1..Len(acc.deletions) \/ l = Len(acc.deletions) + 1
    BY <2>2
  <2> QED BY <1>3, <2>1, <2>2, <2>3
<1> QED BY <1>1, <1>2, <1>5, <1>6 DEF OldsAreAccounted

LEMMA OldsAreStep ==
  ASSUME NEW C, NEW olds, NEW slots, NEW prefix, NEW track,
         Setting(C, olds, slots, prefix, track),
         NEW n \in Nat, n + 1 \in 1..Len(slots),
         NEW acc \in Progress(C), acc.next = n + 1,
         OldsAreAccounted(olds, slots, n, acc),
         NEW new, SlotDone(C, new, acc, slots[n + 1], prefix \o <<n + 1>>, track)
  PROVE  OldsAreAccounted(olds, slots, n + 1, new)
<1> DEFINE element == slots[n + 1]
           name == prefix \o <<n + 1>>
<1>1. /\ <<>> \in C /\ olds \in Seq(FibersOver(C)) /\ Siblings(olds)
      /\ element \in ChildElements /\ track \in BOOLEAN
      /\ n + 1 \in Nat \ {0}
  BY DEF Setting
<1>2. name \in ChildNames /\ \A k \in 1..Len(olds) : olds[k].instance # name
  BY DEF Setting, ChildNames, IsFresh
<1>3. new \in Progress(C) /\ NotPast(new)
  BY DEF SlotDone
<1>4. acc.olds \in Seq(FibersOver(C)) /\ Siblings(acc.olds)
      /\ \A k, l \in 1..Len(acc.olds) : k # l => acc.olds[k] # acc.olds[l]
  BY ProgressFields, SiblingsDiffer DEF OldsAreAccounted
<1>5. \A k \in 1..Len(olds) : olds[k].index \in Nat
  <2>1. \A k \in 1..Len(olds) : olds[k] \in FibersOver(C)
    BY <1>1
  <2> QED BY <2>1 DEF FibersOver
<1> HIDE DEF element, name
<1>6. SlotDone(C, new, acc, element, name, track)
  BY DEF element, name
<1>7. CASE SkipsSlot(acc, new, element)
  <2>1. PICK child : child = [instance |-> name]
    OBVIOUS
  <2>2. child.instance = name
    BY <2>1
  <2>3. /\ new.olds = acc.olds /\ new.deletions = acc.deletions
        /\ new.children = acc.children
    BY <1>7 DEF SkipsSlot
  <2>4. \A k \in 1..Len(olds) : child.instance # olds[k].instance /\ olds[k].index \in Nat
    BY <1>2, <1>5, <2>2
  <2> QED BY <1>3, <2>3, <2>4, OldsCreate
<1>8. CASE CreatesChild(acc, new, element, name, track)
  <2>1. PICK child : IsNew(child, element, acc.next, name, track)
                     /\ new.children = Append(acc.children, child)
    BY <1>8 DEF CreatesChild
  <2>2. child.instance = name
    BY <1>1, <1>2, <1>8, <2>1, NewChildIs DEF CreatesChild
  <2>3. new.olds = acc.olds /\ new.deletions = acc.deletions
    BY <1>8 DEF CreatesChild
  <2>4. \A k \in 1..Len(olds) : child.instance # olds[k].instance /\ olds[k].index \in Nat
    BY <1>2, <1>5, <2>2
  <2> QED BY <1>3, <2>1, <2>3, <2>4, OldsCreate
<1>9. CASE ReplacesChild(acc, new, element, name, track)
  <2>1. PICK child : IsNew(child, element, acc.next, name, track)
                     /\ new.children = Append(acc.children, child)
    BY <1>9 DEF ReplacesChild
  <2>2. child.instance = name
    BY <1>1, <1>2, <1>9, <2>1, NewChildIs DEF ReplacesChild
  <2> DEFINE gone == acc.olds[1]
  <2>3. /\ acc.olds # <<>> /\ gone.index = n + 1 /\ gone.key = element.key
        /\ new.olds = Tail(acc.olds) /\ new.deletions = Append(acc.deletions, gone)
    BY <1>9 DEF ReplacesChild
  <2>4. \A k \in 1..Len(olds) : child.instance # olds[k].instance
    BY <1>2, <2>2
  <2>5. Has(acc.olds, gone)
    BY <1>4, <2>3 DEF Has
  <2>6. \E h : Picks(h, Tail(acc.olds), acc.olds, {gone})
    BY <1>4, <2>3, TailPicks
  <2>7. PICK h : Picks(h, new.olds, acc.olds, {gone})
    BY <2>3, <2>6
  <2> HIDE DEF gone
  <2>8. gone.key = slots[n + 1].key
    BY <2>3 DEF element
  <2> QED BY <1>1, <1>3, <2>1, <2>3, <2>4, <2>5, <2>7, <2>8, OldsReplace
<1>10. CASE ReusesChild(acc, new, element, track)
  <2>1. PICK k \in 1..Len(acc.olds) :
               LET old == acc.olds[k]
                   moved == old.index < acc.lastPlaced
               IN  /\ Fits(old, element, acc.next)
                   /\ \E child : IsReused(child, old, element, acc.next, track /\ moved)
                                 /\ new.children = Append(acc.children, child)
                   /\ new.lastPlaced = IF track /\ ~moved THEN old.index ELSE acc.lastPlaced
                   /\ \E h : Picks(h, new.olds, acc.olds, {old})
    BY <1>10 DEF ReusesChild
  <2> DEFINE used == acc.olds[k]
             moved == track /\ used.index < acc.lastPlaced
  <2>2. PICK child : IsReused(child, used, element, acc.next, moved)
                     /\ new.children = Append(acc.children, child)
    BY <2>1
  <2>3. PICK h : Picks(h, new.olds, acc.olds, {used})
    BY <2>1
  <2>4. Fits(used, element, n + 1) /\ Has(acc.olds, used) /\ used \in FibersOver(C)
    BY <1>4, <2>1 DEF Has
  <2>5. element # Hole /\ new.deletions = acc.deletions
    BY <1>10 DEF ReusesChild
  <2>6. PICK m \in BOOLEAN : m = moved
    BY <1>1
  <2> HIDE DEF used, moved
  <2>7. child.instance = used.instance
    BY <1>1, <2>2, <2>4, <2>5, <2>6, ReusedChildIs
  <2>8. used.key = slots[n + 1].key /\ (used.key = NoKey => used.index = n + 1)
    BY <2>4 DEF Fits, element
  <2> QED BY <1>1, <1>3, <2>2, <2>3, <2>4, <2>5, <2>7, <2>8, OldsReuse
<1> QED BY <1>6, <1>7, <1>8, <1>9, <1>10 DEF SlotDone

\* What is common to the slots that make a child
Appends(C, olds, prefix, track, acc, new, element, n, child) ==
  /\ element # Hole
  /\ new.children = Append(acc.children, child)
  /\ child \in FibersOver(C) /\ child.index = n /\ Answers(child, element)
  /\ Origin(child, olds, prefix, FALSE)
  /\ ~Carries(acc.children, child.instance)
  /\ new.lastPlaced >= acc.lastPlaced
  /\ ~track => ~child.placement
  /\ track /\ ~child.reused => child.placement
  /\ track /\ ~child.placement =>
       \A k \in 1..Len(olds) :
         child.instance = olds[k].instance => olds[k].index = new.lastPlaced

LEMMA NamesDiffer ==
  ASSUME NEW prefix \in ChildNames, NEW m \in Nat, NEW n \in Nat, m # n
  PROVE  prefix \o <<m>> # prefix \o <<n>>
<1>1. Len(prefix) \in Nat
  BY DEF ChildNames
<1>2. (prefix \o <<m>>)[Len(prefix) + 1] = m /\ (prefix \o <<n>>)[Len(prefix) + 1] = n
  BY <1>1 DEF ChildNames
<1> QED BY <1>2

\* A new name is no child's yet.
LEMMA FreshIsNew ==
  ASSUME NEW C, NEW olds, NEW slots, NEW elements, NEW prefix, NEW track, NEW n \in Nat,
         NEW acc, Setting(C, olds, slots, prefix, track),
         ChildrenSoFar(olds, slots, elements, prefix, n, acc)
  PROVE  ~Carries(acc.children, prefix \o <<n + 1>>)
<1> SUFFICES ASSUME NEW i \in 1..Len(acc.children),
                    acc.children[i].instance = prefix \o <<n + 1>>
             PROVE  FALSE
  BY DEF Carries
<1> DEFINE child == acc.children[i]
<1>1. child.index \in 1..n /\ Origin(child, olds, prefix, FALSE)
  BY DEF ChildrenSoFar
<1>2. n + 1 \in Nat /\ child.index \in Nat /\ child.index # n + 1
  BY <1>1
<1>3. CASE child.reused
  BY <1>1, <1>2, <1>3 DEF Origin, Setting, IsFresh
<1>4. CASE ~child.reused
  BY <1>1, <1>2, <1>4, NamesDiffer DEF Origin, Setting, child
<1> QED BY <1>3, <1>4

\* An old child that is gone is not one that the next slot continues.
LEMMA GoneAreOthers ==
  ASSUME NEW C, NEW olds, NEW slots, NEW prefix, NEW track,
         Setting(C, olds, slots, prefix, track),
         NEW n \in Nat, n + 1 \in 1..Len(slots), NEW acc,
         NEW child, Answers(child, slots[n + 1]), child.index = n + 1,
         NEW old, old.index \in Nat, Accounted(olds, slots, n, acc, old), ~Has(acc.olds, old)
  PROVE  ~Continues(child, old, FALSE)
<1> SUFFICES ASSUME Continues(child, old, FALSE)
             PROVE  FALSE
  OBVIOUS
<1>1. /\ old.key = NoKey => old.index <= n
      /\ old.key # NoKey => \E m \in 1..n : slots[m].key = old.key
  BY DEF Accounted
<1>2. child.key = old.key /\ (child.key = NoKey => old.index = n + 1)
      /\ child.key = slots[n + 1].key
  BY DEF Continues, Answers
<1>3. old.key # NoKey
  BY <1>1, <1>2
<1>4. PICK m \in 1..n : slots[m].key = old.key
  BY <1>1, <1>3
<1>5. slots \in Seq(ChildElements) /\ KeysAreUnique(slots)
  BY DEF Setting
<1>6. m \in DOMAIN slots /\ n + 1 \in DOMAIN slots /\ m # n + 1
  BY <1>5
<1> QED BY <1>2, <1>3, <1>4, <1>5, <1>6 DEF KeysAreUnique

LEMMA OldIndexes ==
  ASSUME NEW C, NEW olds \in Seq(FibersOver(C))
  PROVE  \A k \in 1..Len(olds) : olds[k] \in FibersOver(C) /\ olds[k].index \in Nat \ {0}
<1>1. \A k \in 1..Len(olds) : olds[k] \in FibersOver(C)
  OBVIOUS
<1> QED BY <1>1 DEF FibersOver

\* A new child continues none of the old ones.
LEMMA NewAppends ==
  ASSUME NEW C, NEW olds, NEW slots, NEW elements, NEW prefix, NEW track,
         Setting(C, olds, slots, prefix, track),
         NEW n \in Nat, n + 1 \in 1..Len(slots),
         NEW acc \in Progress(C), acc.next = n + 1,
         OldsAreAccounted(olds, slots, n, acc),
         ChildrenSoFar(olds, slots, elements, prefix, n, acc),
         slots[n + 1] # Hole,
         NEW child, IsNew(child, slots[n + 1], n + 1, prefix \o <<n + 1>>, track),
         \A k \in 1..Len(acc.olds) : ~Fits(acc.olds[k], slots[n + 1], n + 1),
         NEW new, new.children = Append(acc.children, child), new.lastPlaced = acc.lastPlaced
  PROVE  Appends(C, olds, prefix, track, acc, new, slots[n + 1], n + 1, child)
<1> DEFINE element == slots[n + 1]
           name == prefix \o <<n + 1>>
<1>1. /\ <<>> \in C /\ olds \in Seq(FibersOver(C)) /\ element \in ChildElements
      /\ track \in BOOLEAN /\ n + 1 \in Nat \ {0} /\ prefix \in ChildNames
  BY DEF Setting
<1>2. name \in ChildNames
  BY <1>1 DEF ChildNames
<1>3. acc.lastPlaced \in Nat
  BY ProgressFields
<1> HIDE DEF element, name
<1>4. /\ child \in FibersOver(C) /\ Answers(child, element) /\ child.index = n + 1
      /\ child.instance = name /\ ~child.reused /\ (child.placement <=> track)
      /\ child.children = <<>> /\ child.deletions = <<>>
  <2>1. IsNew(child, element, n + 1, name, track) /\ element # Hole
    BY DEF element, name
  <2> QED BY <1>1, <1>2, <2>1, NewChildIs
<1>5. ~Carries(acc.children, child.instance)
  BY <1>4, FreshIsNew DEF name
<1>6. \A k \in 1..Len(olds) : ~Continues(child, olds[k], FALSE)
  <2> TAKE k \in 1..Len(olds)
  <2>1. olds[k].index \in Nat /\ Accounted(olds, slots, n, acc, olds[k])
    BY <1>1, OldIndexes DEF OldsAreAccounted
  <2>2. CASE Has(acc.olds, olds[k])
    BY <1>4, <2>2 DEF Has, element, Fits, Continues, Answers
  <2>3. CASE ~Has(acc.olds, olds[k])
    BY <1>4, <2>1, <2>3, GoneAreOthers DEF element
  <2> QED BY <2>2, <2>3
<1>7. \A k \in 1..Len(olds) : olds[k].instance # child.instance
  <2>1. IsFresh(olds, prefix) /\ n + 1 \in Nat
    BY <1>1 DEF Setting
  <2>2. child.instance = prefix \o <<n + 1>>
    BY <1>4 DEF name
  <2> QED BY ONLY <2>1, <2>2, Zenon DEF IsFresh
<1>8. Origin(child, olds, prefix, FALSE)
  BY <1>4, <1>6 DEF Origin, name
<1>9. Appends(C, olds, prefix, track, acc, new, element, n + 1, child)
  <2>1. element # Hole
    BY DEF element
  <2>2. new.lastPlaced >= acc.lastPlaced
    BY <1>3
  <2>3. ~track => ~child.placement
    BY <1>4
  <2>4. track /\ ~child.reused => child.placement
    BY <1>4
  <2>5. track => child.placement
    BY <1>4
  <2> QED BY <1>4, <1>5, <1>8, <2>1, <2>2, <2>3, <2>4, <2>5 DEF Appends
<1> QED BY <1>9 DEF element

LEMMA SlotAppends ==
  ASSUME NEW C, NEW olds, NEW slots, NEW elements, NEW prefix, NEW track,
         Setting(C, olds, slots, prefix, track),
         NEW n \in Nat, n + 1 \in 1..Len(slots),
         NEW acc \in Progress(C), acc.next = n + 1,
         OldsAreAccounted(olds, slots, n, acc),
         ChildrenSoFar(olds, slots, elements, prefix, n, acc),
         NEW new, SlotDone(C, new, acc, slots[n + 1], prefix \o <<n + 1>>, track),
         ~SkipsSlot(acc, new, slots[n + 1])
  PROVE  \E child : Appends(C, olds, prefix, track, acc, new, slots[n + 1], n + 1, child)
<1> DEFINE element == slots[n + 1]
           name == prefix \o <<n + 1>>
<1>1. /\ <<>> \in C /\ olds \in Seq(FibersOver(C)) /\ element \in ChildElements
      /\ track \in BOOLEAN /\ n + 1 \in Nat \ {0} /\ Siblings(olds)
  BY DEF Setting
<1>2. /\ acc.olds \in Seq(FibersOver(C)) /\ Siblings(acc.olds)
      /\ \A k \in 1..Len(acc.olds) : Has(olds, acc.olds[k])
      /\ acc.lastPlaced \in Nat
  BY ProgressFields DEF OldsAreAccounted
<1>3. \A k \in 1..Len(acc.olds) : acc.olds[k] \in FibersOver(C) /\ acc.olds[k].index \in Nat
  BY <1>2, OldIndexes
<1>4. CASE CreatesChild(acc, new, element, name, track)
  BY <1>4, NewAppends DEF CreatesChild
<1>5. CASE ReplacesChild(acc, new, element, name, track)
  <2>1. PICK child : IsNew(child, element, n + 1, name, track)
                     /\ new.children = Append(acc.children, child)
    BY <1>5 DEF ReplacesChild
  <2>2. /\ acc.olds # <<>> /\ acc.olds[1].index = n + 1 /\ acc.olds[1].key = element.key
        /\ acc.olds[1].type # element.type
        /\ new.lastPlaced = acc.lastPlaced /\ element # Hole
    BY <1>5 DEF ReplacesChild
  <2>3. 1 \in 1..Len(acc.olds)
    BY <1>2, <2>2
  <2>4. \A k \in 1..Len(acc.olds) : ~Fits(acc.olds[k], element, n + 1)
    BY <1>2, <1>3, <2>2, <2>3 DEF Fits, Siblings
  <2> QED BY <2>1, <2>2, <2>4, NewAppends
<1>6. CASE ReusesChild(acc, new, element, track)
  <2>1. PICK k \in 1..Len(acc.olds) :
               LET old == acc.olds[k]
                   moved == old.index < acc.lastPlaced
               IN  /\ Fits(old, element, acc.next)
                   /\ \E child : IsReused(child, old, element, acc.next, track /\ moved)
                                 /\ new.children = Append(acc.children, child)
                   /\ new.lastPlaced = IF track /\ ~moved THEN old.index ELSE acc.lastPlaced
                   /\ \E h : Picks(h, new.olds, acc.olds, {old})
    BY <1>6 DEF ReusesChild
  <2> DEFINE used == acc.olds[k]
             moved == track /\ used.index < acc.lastPlaced
  <2>2. PICK child : IsReused(child, used, element, acc.next, moved)
                     /\ new.children = Append(acc.children, child)
    BY <2>1
  <2>3. new.lastPlaced = IF track /\ ~(used.index < acc.lastPlaced) THEN used.index
                         ELSE acc.lastPlaced
    BY <2>1
  <2>4. Fits(used, element, n + 1) /\ Has(acc.olds, used) /\ used \in FibersOver(C)
        /\ used.index \in Nat
    BY <1>3, <2>1 DEF Has
  <2>5. element # Hole /\ Has(olds, used)
    BY <1>2, <1>6 DEF ReusesChild
  <2>6. PICK m \in BOOLEAN : m = moved
    BY <1>1
  <2>7. m <=> track /\ used.index < acc.lastPlaced
    BY <2>6
  <2>8. PICK u \in 1..Len(olds) : olds[u] = used
    BY <2>5 DEF Has
  <2> HIDE DEF used, moved, element
  <2>9. /\ child \in FibersOver(C) /\ Answers(child, element) /\ child.index = n + 1
        /\ child.instance = used.instance /\ child.reused /\ (child.placement <=> m)
        /\ child.children = used.children /\ child.deletions = <<>>
    BY <1>1, <2>2, <2>4, <2>5, <2>6, ReusedChildIs
  <2>10. ~Carries(acc.children, used.instance)
    BY <2>4, <2>8 DEF OldsAreAccounted, Accounted
  <2>11. Origin(child, olds, prefix, FALSE)
    BY <2>4, <2>8, <2>9 DEF Continues, Fits, Answers, Origin
  <2>12. \A l \in 1..Len(olds) : child.instance = olds[l].instance => olds[l] = used
    BY <1>1, <2>8, <2>9 DEF Siblings
  <2>13. new.lastPlaced >= acc.lastPlaced
    BY <1>2, <2>3, <2>4
  <2>14. track /\ ~child.placement => new.lastPlaced = used.index
    BY <2>3, <2>7, <2>9
  <2>15. Appends(C, olds, prefix, track, acc, new, element, n + 1, child)
    BY <2>2, <2>5, <2>7, <2>9, <2>10, <2>11, <2>12, <2>13, <2>14 DEF Appends
  <2> QED BY <2>15 DEF element
<1> QED BY <1>4, <1>5, <1>6 DEF SlotDone

LEMMA ChildrenSkip ==
  ASSUME NEW olds, NEW slots, NEW elements, NEW prefix, NEW n \in Nat, NEW acc, NEW new,
         ChildrenSoFar(olds, slots, elements, prefix, n, acc), new.children = acc.children
  PROVE  ChildrenSoFar(olds, slots, elements, prefix, n + 1, new)
<1>1. \A m \in 1..n : m \in 1..(n + 1)
  OBVIOUS
<1> QED BY <1>1 DEF ChildrenSoFar

LEMMA OrderSkip ==
  ASSUME NEW olds, NEW track, NEW acc, NEW new, OrderSoFar(olds, track, acc),
         new.children = acc.children, new.lastPlaced = acc.lastPlaced
  PROVE  OrderSoFar(olds, track, new)
BY Zenon DEF OrderSoFar

LEMMA ChildrenAppend ==
  ASSUME NEW C, NEW olds, NEW slots, NEW elements \in Seq(ChildElements), NEW prefix,
         NEW track, NEW n \in Nat, NEW acc \in Progress(C), NEW new, NEW child,
         ChildrenSoFar(olds, slots, elements, prefix, n, acc),
         Appends(C, olds, prefix, track, acc, new, slots[n + 1], n + 1, child)
  PROVE  ChildrenSoFar(olds, slots, Append(elements, slots[n + 1]), prefix, n + 1, new)
<1> DEFINE L == Len(acc.children)
           element == slots[n + 1]
           more == Append(elements, element)
<1>1. acc.children \in Seq(FibersOver(C))
  BY ProgressFields
<1>2. /\ element # Hole
      /\ new.children = Append(acc.children, child)
      /\ child.index = n + 1 /\ Answers(child, element)
      /\ Origin(child, olds, prefix, FALSE)
      /\ ~Carries(acc.children, child.instance)
  BY DEF Appends
<1>3. /\ L = Len(elements) /\ L \in Nat /\ Len(new.children) = L + 1 /\ Len(more) = L + 1
      /\ \A k \in 1..L : new.children[k] = acc.children[k] /\ more[k] = elements[k]
      /\ new.children[L + 1] = child /\ more[L + 1] = element
  BY <1>1, <1>2, AppendIs DEF ChildrenSoFar
<1>4. slots[child.index] = element
  BY <1>2
<1>5. /\ \A i \in 1..L :
           /\ acc.children[i].index \in 1..n
           /\ slots[acc.children[i].index] = elements[i] /\ elements[i] # Hole
           /\ Answers(acc.children[i], elements[i])
           /\ Origin(acc.children[i], olds, prefix, FALSE)
           /\ acc.children[i].instance # child.instance
      /\ \A i, j \in 1..L : i < j => acc.children[i].index < acc.children[j].index
      /\ \A i, j \in 1..L : i # j => acc.children[i].instance # acc.children[j].instance
  BY <1>2 DEF ChildrenSoFar, Carries
<1> HIDE DEF L, element, more
<1>6. \A i \in 1..(L + 1) : i = L + 1 \/ (i \in 1..L /\ i # L + 1)
  BY <1>3
<1>7. \A i \in 1..L : acc.children[i].index \in 1..(n + 1) /\ acc.children[i].index < n + 1
  <2> TAKE i \in 1..L
  <2>1. acc.children[i].index \in 1..n
    BY <1>5
  <2> QED BY <2>1
<1>8. n + 1 \in 1..(n + 1)
  OBVIOUS
<1>9. \A i \in 1..(L + 1) :
        /\ new.children[i].index \in 1..(n + 1)
        /\ slots[new.children[i].index] = more[i] /\ more[i] # Hole
        /\ Answers(new.children[i], more[i])
        /\ Origin(new.children[i], olds, prefix, FALSE)
  <2> TAKE i \in 1..(L + 1)
  <2>1. CASE i = L + 1
    BY <1>2, <1>3, <1>4, <1>8, <2>1
  <2>2. CASE i \in 1..L
    BY <1>3, <1>5, <1>7, <2>2
  <2> QED BY <1>6, <2>1, <2>2
<1>10. \A i, j \in 1..(L + 1) : i < j => new.children[i].index < new.children[j].index
  BY <1>2, <1>3, <1>5, <1>6, <1>7
<1>11. \A i, j \in 1..(L + 1) :
         i # j => new.children[i].instance # new.children[j].instance
  <2> SUFFICES ASSUME NEW i \in 1..(L + 1), NEW j \in 1..(L + 1), i # j
               PROVE  new.children[i].instance # new.children[j].instance
    OBVIOUS
  <2>1. CASE i = L + 1
    BY <1>3, <1>5, <1>6, <2>1
  <2>2. CASE i \in 1..L /\ j \in 1..L
    <3>1. new.children[i] = acc.children[i] /\ new.children[j] = acc.children[j]
      BY <1>3, <2>2
    <3> QED BY <1>5, <2>2, <3>1
  <2>3. CASE i \in 1..L /\ j = L + 1
    BY <1>3, <1>5, <2>3
  <2> QED BY <1>6, <2>1, <2>2, <2>3
<1>12. Len(new.children) = L + 1 /\ Len(more) = L + 1
  BY <1>3
<1>13. ChildrenSoFar(olds, slots, more, prefix, n + 1, new)
  BY <1>9, <1>10, <1>11, <1>12 DEF ChildrenSoFar
<1> QED BY <1>13 DEF more, element

LEMMA OrderAppend ==
  ASSUME NEW C, NEW olds \in Seq(FibersOver(C)), NEW prefix, NEW track \in BOOLEAN,
         NEW n \in Nat, NEW element,
         NEW acc \in Progress(C), NEW new \in Progress(C), NEW child, Siblings(olds),
         OrderSoFar(olds, track, acc),
         Appends(C, olds, prefix, track, acc, new, element, n, child)
  PROVE  OrderSoFar(olds, track, new)
<1> DEFINE L == Len(acc.children)
<1>1. acc.children \in Seq(FibersOver(C)) /\ acc.lastPlaced \in Nat /\ new.lastPlaced \in Nat
  BY ProgressFields
<1>2. /\ new.children = Append(acc.children, child)
      /\ ~Carries(acc.children, child.instance)
      /\ new.lastPlaced >= acc.lastPlaced
      /\ ~track => ~child.placement
      /\ track /\ ~child.reused => child.placement
      /\ track /\ ~child.placement =>
           \A k \in 1..Len(olds) :
             child.instance = olds[k].instance => olds[k].index = new.lastPlaced
  BY DEF Appends
<1>3. /\ L \in Nat /\ Len(new.children) = L + 1
      /\ \A k \in 1..L : new.children[k] = acc.children[k]
      /\ new.children[L + 1] = child
  BY <1>1, <1>2, AppendIs
<1>4. \A k \in 1..Len(olds) : olds[k].index \in Nat
  BY OldIndexes
<1>5. \A i \in 1..L : acc.children[i].instance # child.instance
  BY <1>2 DEF Carries
<1>6. /\ \A i \in 1..L :
           /\ ~track => ~acc.children[i].placement
           /\ track /\ ~acc.children[i].reused => acc.children[i].placement
           /\ track /\ ~acc.children[i].placement =>
                \A k \in 1..Len(olds) :
                  acc.children[i].instance = olds[k].instance => olds[k].index <= acc.lastPlaced
      /\ \A i, j \in 1..L :
           track /\ i < j /\ ~acc.children[i].placement /\ ~acc.children[j].placement =>
             \A k, l \in 1..Len(olds) :
               /\ acc.children[i].instance = olds[k].instance
               /\ acc.children[j].instance = olds[l].instance
               => olds[k].index < olds[l].index
  BY DEF OrderSoFar
<1> HIDE DEF L
<1>7. \A i \in 1..(L + 1) : i = L + 1 \/ i \in 1..L
  BY <1>3
<1>8. \A i \in 1..(L + 1) :
        /\ ~track => ~new.children[i].placement
        /\ track /\ ~new.children[i].reused => new.children[i].placement
        /\ track /\ ~new.children[i].placement =>
             \A k \in 1..Len(olds) :
               new.children[i].instance = olds[k].instance => olds[k].index <= new.lastPlaced
  <2> TAKE i \in 1..(L + 1)
  <2>1. CASE i = L + 1
    BY <1>1, <1>2, <1>3, <2>1
  <2>2. CASE i \in 1..L
    BY <1>1, <1>2, <1>3, <1>4, <1>6, <2>2
  <2> QED BY <1>7, <2>1, <2>2
<1>9. \A i, j \in 1..(L + 1) :
        track /\ i < j /\ ~new.children[i].placement /\ ~new.children[j].placement =>
          \A k, l \in 1..Len(olds) :
            /\ new.children[i].instance = olds[k].instance
            /\ new.children[j].instance = olds[l].instance
            => olds[k].index < olds[l].index
  <2> SUFFICES ASSUME NEW i \in 1..(L + 1), NEW j \in 1..(L + 1), track, i < j,
                      ~new.children[i].placement, ~new.children[j].placement,
                      NEW k \in 1..Len(olds), NEW l \in 1..Len(olds),
                      new.children[i].instance = olds[k].instance,
                      new.children[j].instance = olds[l].instance
               PROVE  olds[k].index < olds[l].index
    OBVIOUS
  <2>1. i \in 1..L
    BY <1>3
  <2>2. CASE j \in 1..L
    BY <1>3, <1>6, <2>1, <2>2
  <2>3. CASE j = L + 1
    <3>1. olds[k].index <= acc.lastPlaced
      BY <1>3, <1>6, <2>1
    <3>2. olds[l].index = new.lastPlaced /\ olds[k].instance # olds[l].instance
      BY <1>2, <1>3, <1>5, <2>1, <2>3
    <3>3. k # l /\ olds[k].index # olds[l].index
      BY <1>4, <3>2 DEF Siblings
    <3> QED BY <1>1, <1>2, <1>4, <3>1, <3>2, <3>3
  <2> QED BY <1>7, <2>2, <2>3
<1> QED BY <1>3, <1>8, <1>9 DEF OrderSoFar

-----------------------------------------------------------------------------
(* The whole list                                                            *)

ReconcilesTo(C, olds, slots, elements, prefix, track, n, acc) ==
  /\ acc \in Progress(C) /\ acc.next = n + 1
  /\ OldsAreAccounted(olds, slots, n, acc)
  /\ ChildrenSoFar(olds, slots, elements, prefix, n, acc)
  /\ OrderSoFar(olds, track, acc)

LEMMA SlotStep ==
  ASSUME NEW C, NEW olds, NEW slots, NEW elements \in Seq(ChildElements), NEW prefix, NEW track,
         Setting(C, olds, slots, prefix, track),
         NEW n \in Nat, n + 1 \in 1..Len(slots), NEW acc,
         ReconcilesTo(C, olds, slots, elements, prefix, track, n, acc),
         NEW new, new = UpdateSlot(acc, slots[n + 1], prefix \o <<n + 1>>, track),
         NEW more,
         more = IF slots[n + 1] = Hole THEN elements ELSE Append(elements, slots[n + 1])
  PROVE  ReconcilesTo(C, olds, slots, more, prefix, track, n + 1, new)
<1> DEFINE element == slots[n + 1]
           name == prefix \o <<n + 1>>
<1>1. /\ <<>> \in C /\ olds \in Seq(FibersOver(C)) /\ Siblings(olds)
      /\ element \in ChildElements /\ track \in BOOLEAN /\ prefix \in ChildNames
  BY DEF Setting
<1>2. name \in ChildNames
  BY <1>1 DEF ChildNames
<1>3. /\ acc \in Progress(C) /\ acc.next = n + 1
      /\ OldsAreAccounted(olds, slots, n, acc)
      /\ ChildrenSoFar(olds, slots, elements, prefix, n, acc)
      /\ OrderSoFar(olds, track, acc)
  BY DEF ReconcilesTo
<1>4. SlotDone(C, new, acc, element, name, track)
  BY <1>1, <1>2, <1>3, UpdateSlotDoes DEF OldsAreAccounted
<1>5. new \in Progress(C) /\ new.next = (n + 1) + 1
  BY <1>3, <1>4 DEF SlotDone
<1>6. OldsAreAccounted(olds, slots, n + 1, new)
  BY <1>3, <1>4, OldsAreStep
<1>7. CASE SkipsSlot(acc, new, element)
  BY <1>3, <1>5, <1>6, <1>7, ChildrenSkip, OrderSkip DEF SkipsSlot, ReconcilesTo
<1>8. CASE ~SkipsSlot(acc, new, element)
  <2>1. PICK child : Appends(C, olds, prefix, track, acc, new, element, n + 1, child)
    BY <1>3, <1>4, <1>8, SlotAppends
  <2>2. more = Append(elements, element)
    BY <2>1 DEF Appends
  <2>3. ChildrenSoFar(olds, slots, more, prefix, n + 1, new)
    BY <1>3, <2>1, <2>2, ChildrenAppend
  <2>4. OrderSoFar(olds, track, new)
    <3> HIDE DEF element
    <3> QED BY <1>1, <1>3, <1>5, <2>1, OrderAppend
  <2> QED BY <1>5, <1>6, <2>3, <2>4 DEF ReconcilesTo
<1> QED BY <1>7, <1>8

StartOf(olds) ==
  [olds |-> olds, next |-> 1, stopped |-> FALSE, lastPlaced |-> 0,
   children |-> <<>>, deletions |-> <<>>]

OutcomeOf(end, track) ==
  [children |-> end.children,
   deletions |-> IF track THEN end.deletions \o end.olds ELSE <<>>]

SlotBySlot(run, olds, slots, prefix, track) ==
  /\ run[0] = StartOf(olds)
  /\ \A n \in 1..Len(slots) :
       run[n] = UpdateSlot(run[n - 1], slots[n], prefix \o <<n>>, track)

LEMMA StartIs ==
  ASSUME NEW C, NEW olds, NEW slots, NEW prefix, NEW track,
         Setting(C, olds, slots, prefix, track)
  PROVE  ReconcilesTo(C, olds, slots, <<>>, prefix, track, 0, StartOf(olds))
<1> DEFINE acc == StartOf(olds)
<1>1. olds \in Seq(FibersOver(C)) /\ Siblings(olds)
  BY DEF Setting
<1>2. /\ acc.olds = olds /\ acc.next = 1 /\ ~acc.stopped /\ acc.lastPlaced = 0
      /\ acc.children = <<>> /\ acc.deletions = <<>>
  BY DEF StartOf
<1>3. acc \in Progress(C)
  BY <1>1 DEF StartOf, Progress
<1> HIDE DEF acc
<1>4. \A k \in 1..Len(olds) : olds[k].index \in Nat \ {0}
  BY <1>1, OldIndexes
<1>5. NotPast(acc)
  BY <1>2, <1>4 DEF NotPast
<1>6. Len(acc.children) = 0 /\ Len(acc.deletions) = 0
  BY <1>2
<1>7. \A k \in 1..Len(olds) : Accounted(olds, slots, 0, acc, olds[k])
  BY <1>2, <1>6 DEF Accounted, Has, Carries
<1>8. OldsAreAccounted(olds, slots, 0, acc)
  BY <1>1, <1>2, <1>5, <1>6, <1>7 DEF OldsAreAccounted, Has
<1>9. ChildrenSoFar(olds, slots, <<>>, prefix, 0, acc)
  BY <1>6 DEF ChildrenSoFar
<1>10. OrderSoFar(olds, track, acc)
  BY <1>6 DEF OrderSoFar
<1>11. acc.next = 0 + 1
  BY <1>2
<1>12. ReconcilesTo(C, olds, slots, <<>>, prefix, track, 0, acc)
  BY <1>3, <1>8, <1>9, <1>10, <1>11 DEF ReconcilesTo
<1> QED BY <1>12 DEF acc

LEMMA SlotByList ==
  ASSUME NEW C, NEW olds, NEW slots, NEW prefix, NEW track,
         Setting(C, olds, slots, prefix, track),
         NEW run, SlotBySlot(run, olds, slots, prefix, track),
         NEW K \in [0..Len(slots) -> Seq(ChildElements)], Kept(K, slots, {Hole})
  PROVE  \A n \in 0..Len(slots) :
           ReconcilesTo(C, olds, slots, K[n], prefix, track, n, run[n])
<1> DEFINE N == Len(slots)
           Z == {n \in 0..N : ReconcilesTo(C, olds, slots, K[n], prefix, track, n, run[n])}
<1>1. N \in Nat
  BY DEF Setting
<1>2. 0 \in Z
  BY <1>1, StartIs DEF SlotBySlot, Kept
<1>3. ASSUME NEW n \in 0..N, n \in Z, n < N
      PROVE  n + 1 \in Z
  <2>1. n + 1 \in 1..N /\ (n + 1) - 1 = n /\ n + 1 \in 0..N /\ n \in Nat
    BY <1>1, <1>3
  <2>2. run[n + 1] = UpdateSlot(run[n], slots[n + 1], prefix \o <<n + 1>>, track)
    BY <2>1 DEF SlotBySlot
  <2>3. K[n + 1] = IF slots[n + 1] = Hole THEN K[n] ELSE Append(K[n], slots[n + 1])
    BY <2>1 DEF Kept
  <2>4. K[n] \in Seq(ChildElements)
    BY <1>3
  <2>5. ReconcilesTo(C, olds, slots, K[n], prefix, track, n, run[n])
    BY <1>3
  <2>6. ReconcilesTo(C, olds, slots, K[n + 1], prefix, track, n + 1, run[n + 1])
    BY <2>1, <2>2, <2>3, <2>4, <2>5, SlotStep
  <2> QED BY <2>1, <2>6
<1>4. \A n \in 0..N : n \in Z
  <2> HIDE DEF N, Z
  <2> QED BY <1>1, <1>2, <1>3, UpToFrom
<1> QED BY <1>4

\* The recursive definition in ReconcileChildrenArray
LEMMA ArrayRuns ==
  ASSUME NEW C, NEW olds, NEW slots, NEW prefix, NEW track,
         Setting(C, olds, slots, prefix, track)
  PROVE  \E run : /\ SlotBySlot(run, olds, slots, prefix, track)
                  /\ ReconcileChildrenArray(olds, slots, prefix, track)
                       = OutcomeOf(run[Len(slots)], track)
<1> DEFINE N == Len(slots)
           A == Progress(C)
           Step(a, n) == UpdateSlot(a, slots[n], prefix \o <<n>>, track)
           step == [p \in A \X (1..N) |->
                      IF Step(p[1], p[2]) \in A THEN Step(p[1], p[2]) ELSE p[1]]
           Next(f) == [n \in 0..N |-> IF n = 0 THEN StartOf(olds) ELSE Step(f[n - 1], n)]
           run == CHOOSE f : f = Next(f)
<1>1. N \in Nat /\ slots \in Seq(ChildElements)
  BY DEF Setting
<1>2. StartOf(olds) \in A
  BY StartIs DEF ReconcilesTo
<1>3. step \in [A \X (1..N) -> A]
  OBVIOUS
<1>4. PICK g \in [0..N -> A] : Stepwise(g, N, StartOf(olds), step)
  <2> HIDE DEF N, step, A
  <2> QED BY <1>1, <1>2, <1>3, StepwiseExists
<1>5. PICK K \in [0..N -> Seq(ChildElements)] :
        Kept(K, slots, {Hole}) /\ Without(slots, {Hole}) = K[N]
  BY <1>1, WithoutIs
<1>6. g[0] = StartOf(olds)
  BY <1>4 DEF Stepwise
<1>7. \A n \in 1..N : g[n] = IF Step(g[n - 1], n) \in A THEN Step(g[n - 1], n) ELSE g[n - 1]
  <2> TAKE n \in 1..N
  <2>1. n - 1 \in 0..N /\ g[n - 1] \in A
    BY <1>1
  <2>2. g[n] = step[<<g[n - 1], n>>]
    <3> HIDE DEF N, A, step
    <3> QED BY <1>4 DEF Stepwise
  <2>3. <<g[n - 1], n>> \in A \X (1..N)
    BY <2>1
  <2> HIDE DEF Step, A, N
  <2> QED BY <2>2, <2>3
<1> DEFINE J(n) == ReconcilesTo(C, olds, slots, K[n], prefix, track, n, g[n])
           Z == {n \in 0..N : J(n)}
<1>8. 0 \in Z
  BY <1>1, <1>5, <1>6, StartIs DEF Kept
<1>9. ASSUME NEW n \in 0..N, n < N, J(n)
      PROVE  J(n + 1) /\ g[n + 1] = Step(g[n], n + 1)
  <2>1. n + 1 \in 1..N /\ (n + 1) - 1 = n /\ n + 1 \in 0..N /\ n \in Nat
    BY <1>1, <1>9
  <2>3. K[n + 1] = IF slots[n + 1] = Hole THEN K[n] ELSE Append(K[n], slots[n + 1])
    BY <1>5, <2>1 DEF Kept
  <2>4. K[n] \in Seq(ChildElements)
    BY <1>5
  <2>5. ReconcilesTo(C, olds, slots, K[n], prefix, track, n, g[n])
    BY <1>9
  <2> DEFINE new == UpdateSlot(g[n], slots[n + 1], prefix \o <<n + 1>>, track)
  <2>6. ReconcilesTo(C, olds, slots, K[n + 1], prefix, track, n + 1, new)
    BY <2>1, <2>3, <2>4, <2>5, SlotStep
  <2>7. new = Step(g[n], n + 1) /\ new \in A
    BY <2>6 DEF ReconcilesTo
  <2> HIDE DEF new, Step, A
  <2>8. g[n + 1] = IF Step(g[n], n + 1) \in A THEN Step(g[n], n + 1) ELSE g[n]
    BY <1>7, <2>1
  <2>9. g[n + 1] = new
    BY <2>7, <2>8
  <2> QED BY <2>6, <2>7, <2>9
<1>10. \A n \in 0..N : n \in Z
  <2>1. ASSUME NEW n \in 0..N, n \in Z, n < N
        PROVE  n + 1 \in Z
    <3>1. J(n)
      BY <2>1
    <3>2. J(n + 1)
      BY <1>9, <2>1, <3>1
    <3>3. n + 1 \in 0..N
      BY <1>1, <2>1
    <3> QED BY <3>2, <3>3
  <2> HIDE DEF Z, N
  <2> QED BY <1>1, <1>8, <2>1, UpToFrom
<1>11. g = Next(g)
  <2>1. \A n \in 0..N : n # 0 => g[n] = Step(g[n - 1], n)
    <3> TAKE n \in 0..N
    <3> HAVE n # 0
    <3>1. n - 1 \in 0..N /\ n - 1 < N /\ (n - 1) + 1 = n
      BY <1>1
    <3>2. J(n - 1)
      BY <1>10, <3>1
    <3> HIDE DEF Step, J
    <3>3. g[(n - 1) + 1] = Step(g[n - 1], (n - 1) + 1)
      BY <1>9, <3>1, <3>2
    <3> QED BY <3>1, <3>3
  <2> HIDE DEF Step
  <2>2. \A n \in 0..N : g[n] = IF n = 0 THEN StartOf(olds) ELSE Step(g[n - 1], n)
    BY <1>6, <2>1
  <2> HIDE DEF N
  <2> QED BY <2>2
<1>12. run = Next(run)
  <2> HIDE DEF Next
  <2> QED BY <1>11
<1>13. ReconcileChildrenArray(olds, slots, prefix, track) = OutcomeOf(run[N], track)
  BY DEF ReconcileChildrenArray, OutcomeOf, StartOf
<1>14. SlotBySlot(run, olds, slots, prefix, track)
  <2> HIDE DEF run
  <2>1. 0 \in 0..N /\ \A n \in 1..N : n \in 0..N /\ n # 0
    BY <1>1
  <2>2. /\ run[0] = StartOf(olds)
        /\ \A n \in 1..N : run[n] = Step(run[n - 1], n)
    <3> HIDE DEF N, Step
    <3> QED BY <1>12, <2>1
  <2> QED BY <2>2 DEF SlotBySlot
<1> HIDE DEF run
<1> QED BY <1>13, <1>14

InOldOrder(olds, track, children) ==
  /\ \A i \in 1..Len(children) :
       /\ ~track => ~children[i].placement
       /\ track /\ ~children[i].reused => children[i].placement
  /\ \A i, j \in 1..Len(children) :
       track /\ i < j /\ ~children[i].placement /\ ~children[j].placement =>
         \A k, l \in 1..Len(olds) :
           /\ children[i].instance = olds[k].instance
           /\ children[j].instance = olds[l].instance
           => olds[k].index < olds[l].index

UsedOrDeleted(result, old) ==
  \/ CarriesOnce(result.children, old.instance) /\ ~Has(result.deletions, old)
  \/ ~Carries(result.children, old.instance) /\ Once(result.deletions, old)

\* What every reconciliation of a list of siblings comes to
Reconciled(C, olds, elements, prefix, single, track, result) ==
  /\ result.children \in Seq(FibersOver(C)) /\ result.deletions \in Seq(FibersOver(C))
  /\ Siblings(result.children)
  /\ Len(result.children) = Len(elements)
  /\ \A i \in 1..Len(elements) : /\ elements[i] # Hole
                                 /\ Answers(result.children[i], elements[i])
                                 /\ Origin(result.children[i], olds, prefix, single)
  /\ InOldOrder(olds, track, result.children)
  /\ \A k \in 1..Len(result.deletions) : Has(olds, result.deletions[k])
  /\ track => \A k \in 1..Len(olds) : UsedOrDeleted(result, olds[k])

LEMMA ConcatIs ==
  ASSUME NEW S, NEW a \in Seq(S), NEW b \in Seq(S)
  PROVE  /\ a \o b \in Seq(S)
         /\ \A x : Has(a \o b, x) <=> Has(a, x) \/ Has(b, x)
         /\ \A x : Once(a, x) /\ ~Has(b, x) => Once(a \o b, x)
         /\ \A x : ~Has(a, x) /\ Once(b, x) => Once(a \o b, x)
<1> DEFINE L == Len(a)
           M == Len(b)
           c == a \o b
<1>1. /\ L \in Nat /\ M \in Nat /\ Len(c) = L + M
      /\ \A k \in 1..L : c[k] = a[k]
      /\ \A k \in 1..M : c[L + k] = b[k]
      /\ L = Len(a) /\ M = Len(b)
  OBVIOUS
<1>2. c \in Seq(S)
  OBVIOUS
<1> HIDE DEF L, M, c
<1>3. \A k \in 1..(L + M) : k \in 1..L \/ \E j \in 1..M : k = L + j
  <2> TAKE k \in 1..(L + M)
  <2>1. CASE k \in 1..L
    BY <2>1
  <2>2. CASE k \notin 1..L
    <3>1. k - L \in 1..M /\ k = L + (k - L)
      BY <1>1, <2>2
    <3> QED BY <3>1
  <2> QED BY <2>1, <2>2
<1>4. /\ \A k \in 1..L : k \in 1..(L + M)
      /\ \A k \in 1..M : L + k \in 1..(L + M) /\ L + k \notin 1..L
      /\ \A k, l \in 1..M : L + k = L + l => k = l
  BY <1>1
<1>5. \A x : Has(c, x) <=> Has(a, x) \/ Has(b, x)
  <2> TAKE x
  <2>1. Has(c, x) => Has(a, x) \/ Has(b, x)
    BY <1>1, <1>3 DEF Has
  <2>2. Has(a, x) => Has(c, x)
    BY <1>1, <1>4 DEF Has
  <2>3. Has(b, x) => Has(c, x)
    BY <1>1, <1>4 DEF Has
  <2> QED BY <2>1, <2>2, <2>3
<1>6. \A x : Once(a, x) /\ ~Has(b, x) => Once(c, x)
  <2> TAKE x
  <2> HAVE Once(a, x) /\ ~Has(b, x)
  <2>1. PICK k \in 1..L : a[k] = x /\ \A l \in 1..L : a[l] = x => l = k
    BY <1>1 DEF Once
  <2>2. \A l \in 1..(L + M) : c[l] = x => l = k
    <3> SUFFICES ASSUME NEW l \in 1..(L + M), c[l] = x
                 PROVE  l = k
      OBVIOUS
    <3>1. ~\E j \in 1..M : l = L + j
      BY <1>1 DEF Has
    <3>2. l \in 1..L
      BY <1>3, <3>1
    <3> QED BY <1>1, <2>1, <3>2
  <2> QED BY <1>1, <1>4, <2>1, <2>2 DEF Once
<1>7. \A x : ~Has(a, x) /\ Once(b, x) => Once(c, x)
  <2> TAKE x
  <2> HAVE ~Has(a, x) /\ Once(b, x)
  <2>1. PICK k \in 1..M : b[k] = x /\ \A l \in 1..M : b[l] = x => l = k
    BY <1>1 DEF Once
  <2>2. \A l \in 1..(L + M) : c[l] = x => l = L + k
    BY <1>1, <1>3, <2>1 DEF Has
  <2> QED BY <1>1, <1>4, <2>1, <2>2 DEF Once
<1> QED BY <1>2, <1>5, <1>6, <1>7 DEF c

LEMMA SiblingsAreOnce ==
  ASSUME NEW fibers, Siblings(fibers), NEW x, Has(fibers, x)
  PROVE  Once(fibers, x)
BY SiblingsDiffer DEF Has, Once

LEMMA EndReconciles ==
  ASSUME NEW C, NEW olds, NEW slots, NEW elements, NEW prefix, NEW track,
         Setting(C, olds, slots, prefix, track), NEW end,
         ReconcilesTo(C, olds, slots, elements, prefix, track, Len(slots), end)
  PROVE  Reconciled(C, olds, elements, prefix, FALSE, track, OutcomeOf(end, track))
<1> DEFINE N == Len(slots)
           result == OutcomeOf(end, track)
<1>1. /\ olds \in Seq(FibersOver(C)) /\ Siblings(olds) /\ track \in BOOLEAN
      /\ slots \in Seq(ChildElements) /\ KeysAreUnique(slots)
  BY DEF Setting
<1>2. /\ end \in Progress(C)
      /\ OldsAreAccounted(olds, slots, N, end)
      /\ ChildrenSoFar(olds, slots, elements, prefix, N, end)
      /\ OrderSoFar(olds, track, end)
  BY DEF ReconcilesTo
<1>3. /\ end.children \in Seq(FibersOver(C)) /\ end.deletions \in Seq(FibersOver(C))
      /\ end.olds \in Seq(FibersOver(C))
  BY <1>2, ProgressFields
<1>4. /\ result.children = end.children
      /\ track => result.deletions = end.deletions \o end.olds
      /\ ~track => result.deletions = <<>>
  BY DEF OutcomeOf
<1> HIDE DEF result
<1>5. /\ end.deletions \o end.olds \in Seq(FibersOver(C))
      /\ \A x : Has(end.deletions \o end.olds, x) <=> Has(end.deletions, x) \/ Has(end.olds, x)
      /\ \A x : Once(end.deletions, x) /\ ~Has(end.olds, x) =>
                Once(end.deletions \o end.olds, x)
      /\ \A x : ~Has(end.deletions, x) /\ Once(end.olds, x) =>
                Once(end.deletions \o end.olds, x)
  BY <1>3, ConcatIs
<1>6. result.deletions \in Seq(FibersOver(C))
  <2>1. <<>> \in Seq(FibersOver(C))
    OBVIOUS
  <2>2. CASE track
    <3>1. result.deletions = end.deletions \o end.olds
      BY <1>4, <2>2
    <3> QED BY ONLY <1>5, <3>1
  <2>3. CASE ~track
    BY <1>4, <2>1, <2>3
  <2> QED BY <1>1, <2>2, <2>3
<1>7. \A k \in 1..Len(result.deletions) : Has(olds, result.deletions[k])
  <2>1. CASE track
    <3> TAKE k \in 1..Len(result.deletions)
    <3> DEFINE x == result.deletions[k]
    <3>1. Has(end.deletions \o end.olds, x)
      BY <1>4, <2>1 DEF Has
    <3> HIDE DEF x
    <3>2. Has(end.deletions, x) \/ Has(end.olds, x)
      BY <1>5, <3>1
    <3>3. Has(olds, x)
      BY <1>2, <3>2 DEF OldsAreAccounted, Has
    <3> QED BY <3>3 DEF x
  <2>2. CASE ~track
    BY <1>4, <2>2
  <2> QED BY <1>1, <2>1, <2>2
<1>8. ASSUME track
      PROVE  \A k \in 1..Len(olds) : UsedOrDeleted(result, olds[k])
  <2> TAKE k \in 1..Len(olds)
  <2> DEFINE x == olds[k]
  <2>1. Accounted(olds, slots, N, end, x) /\ Siblings(end.olds)
    BY <1>2 DEF OldsAreAccounted
  <2> HIDE DEF x
  <2>2. Has(end.olds, x) => Once(end.olds, x)
    BY <2>1, SiblingsAreOnce
  <2>3. UsedOrDeleted(result, x)
    BY <1>4, <1>5, <1>8, <2>1, <2>2 DEF Accounted, UsedOrDeleted
  <2> QED BY <2>3 DEF x
<1>9. /\ Len(end.children) = Len(elements)
      /\ \A i \in 1..Len(end.children) :
           /\ end.children[i].index \in 1..N
           /\ slots[end.children[i].index] = elements[i] /\ elements[i] # Hole
           /\ Answers(end.children[i], elements[i])
           /\ Origin(end.children[i], olds, prefix, FALSE)
      /\ \A i, j \in 1..Len(end.children) :
           i < j => end.children[i].index < end.children[j].index
      /\ \A i, j \in 1..Len(end.children) :
           i # j => end.children[i].instance # end.children[j].instance
  BY <1>2 DEF ChildrenSoFar
<1>10. \A i, j \in 1..Len(end.children) : i # j /\ end.children[i].key = end.children[j].key
                                          => end.children[i].key = NoKey
  <2> SUFFICES ASSUME NEW i \in 1..Len(end.children), NEW j \in 1..Len(end.children), i # j,
                      end.children[i].key = end.children[j].key
               PROVE  end.children[i].key = NoKey
    OBVIOUS
  <2> DEFINE a == end.children[i].index
             b == end.children[j].index
  <2>1. a \in 1..N /\ b \in 1..N /\ a # b
    <3>1. i < j \/ j < i
      OBVIOUS
    <3>2. a \in 1..N /\ b \in 1..N /\ (a < b \/ b < a)
      BY <1>9, <3>1
    <3> HIDE DEF a, b
    <3> QED BY <3>2
  <2>2. slots[a].key = end.children[i].key /\ slots[b].key = end.children[j].key
    BY <1>9 DEF Answers
  <2> HIDE DEF a, b
  <2>3. a \in DOMAIN slots /\ b \in DOMAIN slots
    BY <1>1, <2>1
  <2> QED BY <1>1, <2>1, <2>2, <2>3 DEF KeysAreUnique
<1>11. Siblings(result.children)
  BY <1>4, <1>9, <1>10 DEF Siblings
<1>12. InOldOrder(olds, track, result.children)
  BY <1>2, <1>4, Zenon DEF OrderSoFar, InOldOrder
<1>13. \A i \in 1..Len(elements) : /\ elements[i] # Hole
                                   /\ Answers(result.children[i], elements[i])
                                   /\ Origin(result.children[i], olds, prefix, FALSE)
  BY <1>4, <1>9
<1>14. Reconciled(C, olds, elements, prefix, FALSE, track, result)
  BY <1>3, <1>4, <1>6, <1>7, <1>8, <1>9, <1>11, <1>12, <1>13 DEF Reconciled
<1> QED BY <1>14 DEF result

LEMMA ArrayReconciles ==
  ASSUME NEW C, NEW olds, NEW slots, NEW prefix, NEW track,
         Setting(C, olds, slots, prefix, track)
  PROVE  Reconciled(C, olds, Without(slots, {Hole}), prefix, FALSE, track,
                    ReconcileChildrenArray(olds, slots, prefix, track))
<1>1. PICK run : /\ SlotBySlot(run, olds, slots, prefix, track)
                 /\ ReconcileChildrenArray(olds, slots, prefix, track)
                      = OutcomeOf(run[Len(slots)], track)
  BY ArrayRuns
<1>2. slots \in Seq(ChildElements) /\ Len(slots) \in 0..Len(slots)
  BY DEF Setting
<1>3. PICK K \in [0..Len(slots) -> Seq(ChildElements)] :
        Kept(K, slots, {Hole}) /\ Without(slots, {Hole}) = K[Len(slots)]
  BY <1>2, WithoutIs
<1>4. ReconcilesTo(C, olds, slots, K[Len(slots)], prefix, track, Len(slots), run[Len(slots)])
  BY <1>1, <1>2, <1>3, SlotByList
<1>5. Reconciled(C, olds, K[Len(slots)], prefix, FALSE, track,
                 OutcomeOf(run[Len(slots)], track))
  BY <1>4, EndReconciles
<1> QED BY <1>1, <1>3, <1>5

-----------------------------------------------------------------------------
(* A single child, and every other input                                     *)

LEMMA WithoutOne ==
  ASSUME NEW S, NEW s \in Seq(S), Len(s) = 1, NEW gone
  PROVE  /\ s[1] \in gone => Without(s, gone) = <<>>
         /\ s[1] \notin gone => Without(s, gone) = <<s[1]>>
<1>1. PICK F \in [0..1 -> Seq(S)] : Kept(F, s, gone) /\ Without(s, gone) = F[1]
  BY ZenonT(30), WithoutIs
<1>2. F[0] = <<>> /\ F[1] = IF s[1] \in gone THEN F[0] ELSE Append(F[0], s[1])
  BY <1>1 DEF Kept
<1>3. Append(<<>>, s[1]) = <<s[1]>>
  OBVIOUS
<1> QED BY <1>1, <1>2, <1>3

PlacedOnce(fiber) == [fiber EXCEPT !.placement = ~fiber.reused]

LEMMA PlacedOnceIs ==
  ASSUME NEW C, NEW fiber \in FibersOver(C), NEW child, child = PlacedOnce(fiber)
  PROVE  /\ child \in FibersOver(C) /\ (child.placement <=> ~fiber.reused)
         /\ child.key = fiber.key /\ child.type = fiber.type /\ child.index = fiber.index
         /\ child.instance = fiber.instance /\ (child.reused <=> fiber.reused)
         /\ child.props = fiber.props
         /\ child.children = fiber.children /\ child.deletions = fiber.deletions
<1>1. PICK p \in BOOLEAN : p = ~fiber.reused
  OBVIOUS
<1>2. child = [fiber EXCEPT !.placement = p]
  BY <1>1 DEF PlacedOnce
<1> QED BY <1>1, <1>2 DEF FibersOver

\* A result of one child that is new
LEMMA OneNew ==
  ASSUME NEW C, NEW olds, NEW slots, NEW prefix,
         Setting(C, olds, slots, prefix, TRUE), Len(slots) = 1, slots[1] # Hole,
         NEW result, result.deletions = olds, NEW child \in FibersOver(C),
         result.children = <<child>>, Answers(child, slots[1]), child.index = 1,
         child.instance = prefix \o << 1 >>, ~child.reused, child.placement,
         child.children = <<>>, child.deletions = <<>>,
         \A k \in 1..Len(olds) : ~Continues(child, olds[k], FALSE)
  PROVE  Reconciled(C, olds, <<slots[1]>>, prefix, TRUE, TRUE, result)
<1>1. olds \in Seq(FibersOver(C)) /\ Siblings(olds)
  BY DEF Setting
<1>2. /\ result.children \in Seq(FibersOver(C)) /\ Len(result.children) = 1
      /\ result.children[1] = child
  OBVIOUS
<1>3. Siblings(result.children)
  BY <1>2 DEF Siblings
<1>4. Origin(child, olds, prefix, TRUE)
  BY DEF Origin
<1>5. InOldOrder(olds, TRUE, result.children)
  BY <1>2 DEF InOldOrder
<1>6. \A k \in 1..Len(olds) : Has(olds, olds[k])
  BY DEF Has
<1>7. \A k \in 1..Len(olds) : UsedOrDeleted(result, olds[k])
  <2> TAKE k \in 1..Len(olds)
  <2>1. Once(olds, olds[k])
    BY <1>1, <1>6, SiblingsAreOnce
  <2>2. olds[k].instance # child.instance
    BY DEF Setting, IsFresh
  <2>3. ~Carries(result.children, olds[k].instance)
    BY <1>2, <2>2 DEF Carries
  <2> QED BY <2>1, <2>3 DEF UsedOrDeleted
<1> DEFINE elements == <<slots[1]>>
<1>8. Len(elements) = 1 /\ elements[1] = slots[1]
  OBVIOUS
<1> HIDE DEF elements
<1>9. \A i \in 1..Len(elements) : /\ elements[i] # Hole
                                 /\ Answers(result.children[i], elements[i])
                                 /\ Origin(result.children[i], olds, prefix, TRUE)
  <2> TAKE i \in 1..Len(elements)
  <2>1. i = 1
    BY <1>8
  <2> QED BY <1>2, <1>4, <1>8, <2>1
<1>10. Reconciled(C, olds, elements, prefix, TRUE, TRUE, result)
  BY <1>1, <1>2, <1>3, <1>4, <1>5, <1>6, <1>7, <1>8, <1>9 DEF Reconciled
<1> QED BY <1>10 DEF elements

\* A result of one child that is an old one
LEMMA OneReused ==
  ASSUME NEW C, NEW olds, NEW slots, NEW prefix,
         Setting(C, olds, slots, prefix, TRUE), Len(slots) = 1, slots[1] # Hole,
         NEW used, Has(olds, used), used.key = slots[1].key, used.type = slots[1].type,
         NEW result, result.deletions = Without(olds, {used}), NEW child \in FibersOver(C),
         result.children = <<child>>, Answers(child, slots[1]),
         child.instance = used.instance, child.reused, ~child.placement,
         child.children = used.children, child.deletions = <<>>
  PROVE  Reconciled(C, olds, <<slots[1]>>, prefix, TRUE, TRUE, result)
<1>1. olds \in Seq(FibersOver(C)) /\ Siblings(olds)
  BY DEF Setting
<1>2. /\ result.children \in Seq(FibersOver(C)) /\ Len(result.children) = 1
      /\ result.children[1] = child
  OBVIOUS
<1>3. Siblings(result.children)
  BY <1>2 DEF Siblings
<1>4. PICK u \in 1..Len(olds) : olds[u] = used
  BY DEF Has
<1>5. Origin(child, olds, prefix, TRUE)
  BY <1>4 DEF Origin, Continues, Answers
<1>6. InOldOrder(olds, TRUE, result.children)
  BY <1>2 DEF InOldOrder
<1>7. result.deletions \in Seq(FibersOver(C)) /\ \E h : Picks(h, result.deletions, olds, {used})
  BY <1>1, WithoutPicks
<1>8. /\ Siblings(result.deletions)
      /\ \A x : Has(result.deletions, x) <=> Has(olds, x) /\ x # used
  BY <1>1, <1>7, PicksAllBut
<1>9. \A k \in 1..Len(result.deletions) : Has(olds, result.deletions[k])
  <2> TAKE k \in 1..Len(result.deletions)
  <2>1. Has(result.deletions, result.deletions[k])
    BY DEF Has
  <2> QED BY <1>8, <2>1
<1>10. \A k \in 1..Len(olds) : UsedOrDeleted(result, olds[k])
  <2> TAKE k \in 1..Len(olds)
  <2>1. CASE k = u
    <3>1. CarriesOnce(result.children, used.instance)
      BY <1>2 DEF CarriesOnce
    <3> QED BY <1>4, <1>8, <2>1, <3>1 DEF UsedOrDeleted
  <2>2. CASE k # u
    <3>1. olds[k].instance # used.instance /\ olds[k] # used
      BY <1>1, <1>4, <2>2 DEF Siblings
    <3>2. ~Carries(result.children, olds[k].instance)
      BY <1>2, <3>1 DEF Carries
    <3>3. Has(result.deletions, olds[k])
      BY <1>8, <3>1 DEF Has
    <3>4. Once(result.deletions, olds[k])
      BY <1>8, <3>3, SiblingsAreOnce
    <3> QED BY <3>2, <3>4 DEF UsedOrDeleted
  <2> QED BY <2>1, <2>2
<1> DEFINE elements == <<slots[1]>>
<1>11. Len(elements) = 1 /\ elements[1] = slots[1]
  OBVIOUS
<1> HIDE DEF elements
<1>12. \A i \in 1..Len(elements) : /\ elements[i] # Hole
                                 /\ Answers(result.children[i], elements[i])
                                 /\ Origin(result.children[i], olds, prefix, TRUE)
  <2> TAKE i \in 1..Len(elements)
  <2>1. i = 1
    BY <1>11
  <2> QED BY <1>2, <1>5, <1>11, <2>1
<1>13. Reconciled(C, olds, elements, prefix, TRUE, TRUE, result)
  BY <1>2, <1>3, <1>5, <1>6, <1>7, <1>9, <1>10, <1>11, <1>12 DEF Reconciled
<1> QED BY <1>13 DEF elements

LEMMA SingleReconciles ==
  ASSUME NEW C, NEW olds, NEW slots, NEW prefix,
         Setting(C, olds, slots, prefix, TRUE), Len(slots) = 1, slots[1] # Hole,
         NEW match, \A f, g \in match : f = g,
         \A f \in match : Has(olds, f) /\ (f.type = slots[1].type => f.key = slots[1].key),
         \A k \in 1..Len(olds) : Fits(olds[k], slots[1], 1) => olds[k] \in match
  PROVE  Reconciled(C, olds, <<slots[1]>>, prefix, TRUE, TRUE,
                    ReconcileSingle(olds, match, slots[1], prefix))
<1> DEFINE element == slots[1]
           name == prefix \o << 1 >>
           fiber == UpdateMatched(match, element, 1, name)
           child == PlacedOnce(fiber)
           result == ReconcileSingle(olds, match, element, prefix)
<1>1. /\ <<>> \in C /\ olds \in Seq(FibersOver(C)) /\ Siblings(olds)
      /\ element \in ChildElements /\ prefix \in ChildNames /\ 1 \in Nat \ {0}
  <2>1. slots \in Seq(ChildElements) /\ 1 \in 1..Len(slots)
    BY DEF Setting
  <2>2. slots[1] \in ChildElements
    BY <2>1
  <2> QED BY <2>2 DEF Setting
<1>2. name \in ChildNames
  BY <1>1 DEF ChildNames
<1>3. /\ result.children = <<child>>
      /\ result.deletions = IF fiber.reused THEN Without(olds, match) ELSE olds
  BY DEF ReconcileSingle, PlacedOnce
<1>4. CASE \E old \in match : old.type = element.type
  <2>1. PICK used \in match : used.type = element.type
    BY <1>4
  <2>2. match = {used} /\ Has(olds, used) /\ used.key = element.key
    BY <2>1
  <2>3. used \in FibersOver(C)
    BY <1>1, <2>2 DEF Has
  <2>4. fiber = Reused(used, element, 1)
    BY <1>4, <2>2, TheOnly DEF UpdateMatched
  <2>5. /\ fiber \in FibersOver(C) /\ Answers(fiber, element)
        /\ fiber.instance = used.instance /\ fiber.reused
        /\ fiber.children = used.children /\ fiber.deletions = <<>>
    BY <1>1, <2>1, <2>2, <2>3, <2>4, ElementsAre DEF element, Reused, FibersOver, Answers
  <2> HIDE DEF fiber
  <2>6. /\ child \in FibersOver(C) /\ ~child.placement /\ Answers(child, element)
        /\ child.instance = used.instance /\ child.reused
        /\ child.children = used.children /\ child.deletions = <<>>
    BY <2>5, PlacedOnceIs DEF Answers
  <2>7. result.deletions = Without(olds, {used})
    BY <1>3, <2>2, <2>5
  <2> HIDE DEF child, result
  <2>8. Reconciled(C, olds, <<slots[1]>>, prefix, TRUE, TRUE, result)
    BY <1>3, <2>1, <2>2, <2>6, <2>7, OneReused
  <2> QED BY <2>8 DEF result
<1>5. CASE ~\E old \in match : old.type = element.type
  <2>1. fiber = Created(element, 1, name)
    BY <1>5 DEF UpdateMatched
  <2>2. /\ fiber \in FibersOver(C) /\ Answers(fiber, element) /\ fiber.index = 1
        /\ fiber.instance = name /\ ~fiber.reused
        /\ fiber.children = <<>> /\ fiber.deletions = <<>>
    <3>1. element # Hole
      OBVIOUS
    <3> HIDE DEF fiber, element, name
    <3> QED BY <1>1, <1>2, <2>1, <3>1, ElementsAre DEF Created, FibersOver, Answers
  <2> HIDE DEF fiber
  <2>3. /\ child \in FibersOver(C) /\ child.placement /\ Answers(child, element)
        /\ child.index = 1 /\ child.instance = name /\ ~child.reused
        /\ child.children = <<>> /\ child.deletions = <<>>
    BY <2>2, PlacedOnceIs DEF Answers
  <2>4. result.deletions = olds
    BY <1>3, <2>2
  <2> HIDE DEF child, result
  <2>5. \A k \in 1..Len(olds) : ~Continues(child, olds[k], FALSE)
    BY <1>5, <2>3 DEF Continues, Fits, Answers
  <2>6. Reconciled(C, olds, <<slots[1]>>, prefix, TRUE, TRUE, result)
    BY <1>3, <2>3, <2>4, <2>5, OneNew
  <2> QED BY <2>6 DEF result
<1> QED BY <1>4, <1>5

TextsHaveNoKey(fibers) ==
  \A k \in 1..Len(fibers) : fibers[k].type = "text" => fibers[k].key = NoKey

LEMMA InputsAre ==
  ASSUME NEW input \in ChildInputs
  PROVE  /\ input.single \in BOOLEAN /\ input.slots \in Seq(ChildElements)
         /\ input.single => Len(input.slots) = 1
         /\ KeysAreUnique(input.slots)
         /\ \A i \in 1..Len(input.slots) :
              /\ input.slots[i] \in ChildElements
              /\ input.slots[i].type = "text" => input.slots[i].key = NoKey
              /\ input.slots[i].type # "group" => input.slots[i].children = <<>>
              /\ KeysAreUnique(input.slots[i].children)
              /\ \A j \in 1..Len(input.slots[i].children) :
                   input.slots[i].children[j].type # "group"
<1>1. /\ input \in [single : BOOLEAN, slots : Seq(ChildElements)]
      /\ input.single => Len(input.slots) = 1
      /\ KeysAreUnique(input.slots)
      /\ \A i \in DOMAIN input.slots :
           /\ input.slots[i].type = "text" => input.slots[i].key = NoKey
           /\ input.slots[i].type # "group" => input.slots[i].children = <<>>
           /\ KeysAreUnique(input.slots[i].children)
           /\ \A j \in DOMAIN input.slots[i].children :
                input.slots[i].children[j].type # "group"
  BY ChildrenAssumption
<1>2. input.single \in BOOLEAN /\ input.slots \in Seq(ChildElements)
  BY <1>1
<1>3. \A i \in 1..Len(input.slots) :
        i \in DOMAIN input.slots /\ input.slots[i] \in ChildElements
  BY <1>2
<1>4. \A e \in ChildElements : e.children \in Seq(LeafElements)
  <2> TAKE e \in ChildElements
  <2>1. <<>> \in Seq(LeafElements) /\ Hole.children = <<>>
    BY DEF Hole
  <2>2. e # Hole => e.children \in Seq(LeafElements)
    BY ElementsAre
  <2> QED BY <2>1, <2>2
<1>5. \A i \in 1..Len(input.slots) :
        \A j \in 1..Len(input.slots[i].children) : j \in DOMAIN input.slots[i].children
  <2> TAKE i \in 1..Len(input.slots)
  <2>1. input.slots[i].children \in Seq(LeafElements)
    BY <1>3, <1>4
  <2> QED BY <2>1
<1> QED BY <1>1, <1>2, <1>3, <1>5

LEMMA SetHas ==
  ASSUME NEW S, NEW s \in Seq(S), NEW x
  PROVE  x \in ToSet(s) <=> Has(s, x)
BY DEF ToSet, Has

LEMMA ElementReconciles ==
  ASSUME NEW C, NEW olds, NEW slots, NEW prefix,
         Setting(C, olds, slots, prefix, TRUE), Len(slots) = 1, slots[1] # Hole
  PROVE  Reconciled(C, olds, <<slots[1]>>, prefix, TRUE, TRUE,
                    ReconcileSingleElement(olds, slots[1], prefix))
<1> DEFINE element == slots[1]
           same == {f \in ToSet(olds) : f.key = element.key}
           match == {f \in same : \A g \in same : f.index <= g.index}
<1>1. olds \in Seq(FibersOver(C)) /\ Siblings(olds)
  BY DEF Setting
<1>2. \A k \in 1..Len(olds) : olds[k].index \in Nat \ {0}
  BY <1>1, OldIndexes
<1>3. \A f : f \in same <=> Has(olds, f) /\ f.key = element.key
  BY <1>1, SetHas
<1>4. \A f, g \in match : f = g
  <2> TAKE f, g \in match
  <2>1. Has(olds, f) /\ Has(olds, g) /\ f.index <= g.index /\ g.index <= f.index
    BY <1>3
  <2>2. PICK k \in 1..Len(olds) : olds[k] = f
    BY <2>1 DEF Has
  <2>3. PICK l \in 1..Len(olds) : olds[l] = g
    BY <2>1 DEF Has
  <2>4. olds[k].index = olds[l].index
    BY <1>2, <2>1, <2>2, <2>3
  <2>5. ~(k < l) /\ ~(l < k)
    BY <1>1, <1>2, <2>4 DEF Siblings
  <2> QED BY <2>2, <2>3, <2>5
<1>5. \A f \in match : Has(olds, f) /\ (f.type = element.type => f.key = element.key)
  BY <1>3
<1>6. \A k \in 1..Len(olds) : Fits(olds[k], element, 1) => olds[k] \in match
  <2> SUFFICES ASSUME NEW k \in 1..Len(olds), Fits(olds[k], element, 1)
               PROVE  olds[k] \in match
    OBVIOUS
  <2>1. olds[k] \in same
    BY <1>3 DEF Has, Fits
  <2>2. \A g \in same : olds[k].index <= g.index
    <3> TAKE g \in same
    <3>1. PICK l \in 1..Len(olds) : olds[l] = g
      BY <1>3 DEF Has
    <3>2. olds[k].key = olds[l].key /\ (element.key = NoKey => olds[k].index = 1)
          /\ olds[k].key = element.key
      BY <1>3, <3>1 DEF Fits
    <3>3. CASE element.key = NoKey
      BY <1>2, <3>1, <3>2, <3>3
    <3>4. CASE element.key # NoKey
      BY <1>1, <1>2, <3>1, <3>2, <3>4 DEF Siblings
    <3> QED BY <3>3, <3>4
  <2> QED BY <2>1, <2>2
<1>7. ReconcileSingleElement(olds, element, prefix)
        = ReconcileSingle(olds, match, element, prefix)
  BY DEF ReconcileSingleElement
<1> HIDE DEF match
<1>8. Reconciled(C, olds, <<slots[1]>>, prefix, TRUE, TRUE,
                 ReconcileSingle(olds, match, slots[1], prefix))
  BY <1>4, <1>5, <1>6, SingleReconciles
<1> QED BY <1>7, <1>8

LEMMA TextReconciles ==
  ASSUME NEW C, NEW olds, NEW slots, NEW prefix,
         Setting(C, olds, slots, prefix, TRUE), Len(slots) = 1, slots[1] # Hole,
         TextsHaveNoKey(olds), slots[1].type = "text", slots[1].key = NoKey
  PROVE  Reconciled(C, olds, <<slots[1]>>, prefix, TRUE, TRUE,
                    ReconcileSingleTextNode(olds, slots[1], prefix))
<1> DEFINE element == slots[1]
           match == IF olds = <<>> THEN {} ELSE {olds[1]}
<1>1. olds \in Seq(FibersOver(C)) /\ Siblings(olds)
  BY DEF Setting
<1>2. \A k \in 1..Len(olds) : olds[k].index \in Nat \ {0} /\ 1 \in 1..Len(olds) /\ olds # <<>>
  BY <1>1, OldIndexes
<1>3. olds # <<>> => 1 \in 1..Len(olds)
  BY <1>1
<1>4. \A f, g \in match : f = g
  OBVIOUS
<1>5. \A f \in match : Has(olds, f) /\ (f.type = element.type => f.key = element.key)
  BY <1>3 DEF Has, TextsHaveNoKey
<1>6. \A k \in 1..Len(olds) : Fits(olds[k], element, 1) => olds[k] \in match
  BY <1>1, <1>2 DEF Fits, Siblings
<1>7. ReconcileSingleTextNode(olds, element, prefix)
        = ReconcileSingle(olds, match, element, prefix)
  BY DEF ReconcileSingleTextNode
<1> HIDE DEF match
<1>8. Reconciled(C, olds, <<slots[1]>>, prefix, TRUE, TRUE,
                 ReconcileSingle(olds, match, slots[1], prefix))
  BY <1>4, <1>5, <1>6, SingleReconciles
<1> QED BY <1>7, <1>8

\* A single hole leaves no children.
LEMMA HoleReconciles ==
  ASSUME NEW C, NEW olds \in Seq(FibersOver(C)), Siblings(olds), NEW prefix,
         NEW result, result.children = <<>>, result.deletions = olds
  PROVE  Reconciled(C, olds, <<>>, prefix, TRUE, TRUE, result)
<1>1. \A k \in 1..Len(olds) : UsedOrDeleted(result, olds[k])
  <2> TAKE k \in 1..Len(olds)
  <2>1. Has(olds, olds[k])
    BY DEF Has
  <2>2. Once(olds, olds[k])
    BY <2>1, SiblingsAreOnce
  <2>3. ~Carries(result.children, olds[k].instance)
    BY DEF Carries
  <2> QED BY <2>2, <2>3 DEF UsedOrDeleted
<1>2. Siblings(result.children) /\ InOldOrder(olds, TRUE, result.children)
  BY DEF Siblings, InOldOrder
<1>3. \A k \in 1..Len(result.deletions) : Has(olds, result.deletions[k])
  BY DEF Has
<1> DEFINE elements == <<>>
<1>4. Len(elements) = 0 /\ Len(result.children) = 0
      /\ result.children \in Seq(FibersOver(C)) /\ result.deletions \in Seq(FibersOver(C))
  OBVIOUS
<1> HIDE DEF elements
<1>5. Reconciled(C, olds, elements, prefix, TRUE, TRUE, result)
  <2>1. \A i \in 1..Len(elements) : /\ elements[i] # Hole
                                   /\ Answers(result.children[i], elements[i])
                                   /\ Origin(result.children[i], olds, prefix, TRUE)
    BY <1>4
  <2>2. Len(result.children) = Len(elements)
    BY <1>4
  <2> QED BY <1>1, <1>2, <1>3, <1>4, <2>1, <2>2 DEF Reconciled
<1> QED BY <1>5 DEF elements

LEMMA ChildFibersReconcile ==
  ASSUME NEW C, <<>> \in C, NEW olds \in Seq(FibersOver(C)), Siblings(olds),
         IsFresh(olds, <<"new">>), TextsHaveNoKey(olds), NEW input \in ChildInputs
  PROVE  Reconciled(C, olds, SlotsOf(input), <<"new">>, input.single, TRUE,
                    ReconcileChildFibers(olds, input))
<1> DEFINE slots == input.slots
<1>1. /\ input.single \in BOOLEAN /\ slots \in Seq(ChildElements)
      /\ input.single => Len(slots) = 1
      /\ KeysAreUnique(slots)
      /\ \A i \in 1..Len(slots) : slots[i].type = "text" => slots[i].key = NoKey
  BY InputsAre
<1>2. <<"new">> \in ChildNames
  BY DEF ChildNames
<1>3. Setting(C, olds, slots, <<"new">>, TRUE)
  BY <1>1, <1>2 DEF Setting
<1>4. CASE ~input.single
  BY <1>1, <1>3, <1>4, ArrayReconciles DEF ReconcileChildFibers, SlotsOf
<1>5. CASE input.single
  <2>1. Len(slots) = 1 /\ input.single = TRUE /\ 1 \in 1..Len(slots)
    <3>1. Len(slots) = 1 /\ input.single = TRUE
      BY <1>1, <1>5, Zenon
    <3> QED BY ONLY <3>1
  <2>2. CASE slots[1] = Hole
    <3>1. ReconcileChildFibers(olds, input) = [children |-> <<>>, deletions |-> olds]
      BY <1>5, <2>2 DEF Hole, ReconcileChildFibers
    <3>2. SlotsOf(input) = <<>>
      BY <1>1, <2>1, <2>2, WithoutOne DEF SlotsOf
    <3> DEFINE result == ReconcileChildFibers(olds, input)
    <3>3. result.children = <<>> /\ result.deletions = olds
      BY <3>1
    <3> HIDE DEF result
    <3>4. Reconciled(C, olds, <<>>, <<"new">>, TRUE, TRUE, result)
      BY <3>3, HoleReconciles
    <3> QED BY <2>1, <3>2, <3>4 DEF result
  <2>3. CASE slots[1] # Hole
    <3>1. SlotsOf(input) = <<slots[1]>>
      BY <1>1, <2>1, <2>3, WithoutOne DEF SlotsOf
    <3>2. CASE slots[1].type = "text"
      <4>1. ReconcileChildFibers(olds, input)
              = ReconcileSingleTextNode(olds, slots[1], <<"new">>)
        BY <1>5, <2>3, <3>2 DEF ReconcileChildFibers
      <4>2. Reconciled(C, olds, <<slots[1]>>, <<"new">>, TRUE, TRUE,
                       ReconcileSingleTextNode(olds, slots[1], <<"new">>))
        BY <1>1, <1>3, <2>1, <2>3, <3>2, TextReconciles
      <4> QED BY <2>1, <3>1, <4>1, <4>2
    <3>3. CASE slots[1].type # "text"
      BY <1>3, <1>5, <2>1, <2>3, <3>1, <3>3, ElementReconciles DEF ReconcileChildFibers
    <3> QED BY <3>2, <3>3
  <2> QED BY <2>2, <2>3
<1> QED BY <1>4, <1>5

-----------------------------------------------------------------------------
(* A render: the children, and the groups among them                         *)

LeafFibers == FibersOver({<<>>})
TopFibers == FibersOver(Seq(LeafFibers))

\* The children on screen
Shown(fibers) ==
  /\ fibers \in Seq(TopFibers)
  /\ Siblings(fibers) /\ TextsHaveNoKey(fibers)
  /\ \A i \in 1..Len(fibers) :
       /\ fibers[i].instance = Named(<<i>>)
       /\ fibers[i].type # "group" => fibers[i].children = <<>>
       /\ Siblings(fibers[i].children)
       /\ \A j \in 1..Len(fibers[i].children) :
            /\ fibers[i].children[j].type # "group"
            /\ fibers[i].children[j].instance = Named(<<i, j>>)

\* What a group, or another child, makes of the children it had
Begins(fiber, olds) ==
  /\ fiber.type # "group" => fiber.children = <<>> /\ fiber.deletions = <<>>
  /\ fiber.type = "group" =>
       Reconciled({<<>>}, olds, Without(fiber.props, {Hole}), <<"new", fiber.index>>, FALSE,
                  fiber.reused, fiber)
  /\ \A j \in 1..Len(fiber.children) : fiber.children[j].type # "group"

BeginsFrom(olds, input, child) ==
  /\ child.reused =>
       \E k \in 1..Len(olds) : /\ child.instance = olds[k].instance
                               /\ Continues(child, olds[k], input.single)
                               /\ Begins(child, olds[k].children)
  /\ ~child.reused => /\ child.instance = <<"new", child.index>>
                      /\ \A k \in 1..Len(olds) : ~Continues(child, olds[k], FALSE)
                      /\ Begins(child, <<>>)

Begun(fiber) == IF fiber.type = "group" THEN BeginGroup(fiber) ELSE fiber

Rendering(olds, input) ==
  LET result == ReconcileChildFibers(olds, input)
  IN  [children |-> [i \in DOMAIN result.children |-> Begun(result.children[i])],
       deletions |-> result.deletions,
       input |-> input]

Rendered(olds, input, result) ==
  /\ result.children \in Seq(TopFibers) /\ result.deletions \in Seq(TopFibers)
  /\ Siblings(result.children) /\ TextsHaveNoKey(result.children)
  /\ Len(result.children) = Len(SlotsOf(input))
  /\ \A i \in 1..Len(result.children) :
       /\ Answers(result.children[i], SlotsOf(input)[i])
       /\ BeginsFrom(olds, input, result.children[i])
  /\ InOldOrder(olds, TRUE, result.children)
  /\ \A k \in 1..Len(result.deletions) : Has(olds, result.deletions[k])
  /\ \A k \in 1..Len(olds) : UsedOrDeleted(result, olds[k])

LEMMA NamedIs ==
  ASSUME NEW i \in Nat, NEW j \in Nat
  PROVE  /\ Named(<<i>>) = <<"old", i>> /\ Named(<<i, j>>) = <<"old", i, j>>
         /\ Named(<<i>>) \in ChildNames /\ Named(<<i, j>>) \in ChildNames
<1> DEFINE S == Nat \cup {"old", "new"}
           a == <<"old">> \o <<i>>
           b == <<"old", i>>
           c == <<"old">> \o <<i, j>>
           d == <<"old", i, j>>
<1>1. /\ a \in Seq(S) /\ Len(a) = 2 /\ a[1] = "old" /\ a[2] = i
      /\ c \in Seq(S) /\ Len(c) = 3 /\ c[1] = "old" /\ c[2] = i /\ c[3] = j
  OBVIOUS
<1>2. /\ b \in Seq(S) /\ Len(b) = 2 /\ b[1] = "old" /\ b[2] = i
      /\ d \in Seq(S) /\ Len(d) = 3 /\ d[1] = "old" /\ d[2] = i /\ d[3] = j
  OBVIOUS
<1>3. Named(<<i>>) = a /\ Named(<<i, j>>) = c
  BY DEF Named
<1> HIDE DEF a, b, c, d, S
<1>4. a = b
  BY <1>1, <1>2, SeqEqual
<1>5. c = d
  BY <1>1, <1>2, SeqEqual
<1> QED BY <1>2, <1>3, <1>4, <1>5 DEF b, d, S, ChildNames

LEMMA ShownAreFresh ==
  ASSUME NEW fibers, Shown(fibers)
  PROVE  /\ IsFresh(fibers, <<"new">>)
         /\ \A i \in 1..Len(fibers), n \in Nat : IsFresh(fibers[i].children, <<"new", n>>)
<1>0. fibers \in Seq(TopFibers)
  BY DEF Shown
<1>1. IsFresh(fibers, <<"new">>)
  <2> SUFFICES ASSUME NEW i \in 1..Len(fibers), NEW m \in Nat,
                      fibers[i].instance = <<"new">> \o <<m>>
               PROVE  FALSE
    BY DEF IsFresh
  <2>1. fibers[i].instance = <<"old", i>>
    <3>1. i \in Nat
      OBVIOUS
    <3> QED BY <3>1, NamedIs DEF Shown
  <2>2. <<"old", i>>[1] = "old" /\ (<<"new">> \o <<m>>)[1] = "new"
    OBVIOUS
  <2> QED BY <2>1, <2>2
<1>2. ASSUME NEW i \in 1..Len(fibers), NEW n \in Nat
      PROVE  IsFresh(fibers[i].children, <<"new", n>>)
  <2> SUFFICES ASSUME NEW j \in 1..Len(fibers[i].children), NEW m \in Nat,
                      fibers[i].children[j].instance = <<"new", n>> \o <<m>>
               PROVE  FALSE
    BY DEF IsFresh
  <2>1. fibers[i].children[j].instance = <<"old", i, j>>
    <3>1. i \in Nat /\ j \in Nat
      OBVIOUS
    <3> QED BY <3>1, NamedIs DEF Shown
  <2>2. <<"old", i, j>>[1] = "old" /\ (<<"new", n>> \o <<m>>)[1] = "new"
    OBVIOUS
  <2> QED BY <2>1, <2>2
<1> QED BY <1>1, <1>2

LEMMA WithoutElements ==
  ASSUME NEW S, NEW s \in Seq(S), NEW gone
  PROVE  \A k \in 1..Len(Without(s, gone)) : Has(s, Without(s, gone)[k])
<1>1. PICK h : Picks(h, Without(s, gone), s, gone)
  BY WithoutPicks
<1> QED BY <1>1 DEF Picks, Has

LEMMA LeavesAreElements == LeafElements \subseteq ChildElements
<1>1. {<<>>} \subseteq Seq(LeafElements)
  OBVIOUS
<1> QED BY <1>1 DEF LeafElements, ChildElements

\* beginWork of a group
LEMMA GroupBegins ==
  ASSUME NEW fiber \in TopFibers, fiber.type = "group",
         Siblings(fiber.children), IsFresh(fiber.children, <<"new", fiber.index>>),
         KeysAreUnique(fiber.props),
         \A j \in 1..Len(fiber.props) : fiber.props[j].type # "group",
         NEW new, new = BeginGroup(fiber)
  PROVE  /\ new \in TopFibers
         /\ new.key = fiber.key /\ new.type = fiber.type /\ new.index = fiber.index
         /\ new.instance = fiber.instance /\ new.reused = fiber.reused
         /\ new.placement = fiber.placement /\ new.props = fiber.props
         /\ Begins(new, fiber.children)
<1> DEFINE prefix == <<"new", fiber.index>>
           result == ReconcileChildrenArray(fiber.children, fiber.props, prefix, fiber.reused)
           elements == Without(fiber.props, {Hole})
<1>1. /\ fiber.index \in Nat \ {0} /\ fiber.props \in Seq(LeafElements)
      /\ fiber.children \in Seq(LeafFibers) /\ fiber.reused \in BOOLEAN
  BY DEF TopFibers, FibersOver
<1>2. fiber.props \in Seq(ChildElements)
  BY <1>1, LeavesAreElements
<1>3. prefix \in ChildNames
  BY <1>1 DEF ChildNames
<1>4. Setting({<<>>}, fiber.children, fiber.props, prefix, fiber.reused)
  BY <1>1, <1>2, <1>3 DEF Setting, LeafFibers
<1>5. Reconciled({<<>>}, fiber.children, elements, prefix, FALSE, fiber.reused, result)
  BY <1>4, ArrayReconciles
<1>6. result.children \in Seq(LeafFibers) /\ result.deletions \in Seq(LeafFibers)
  BY <1>5 DEF Reconciled, LeafFibers
<1>7. new = [fiber EXCEPT !.children = result.children, !.deletions = result.deletions]
  BY DEF BeginGroup
<1> HIDE DEF result
<1>8. /\ new \in TopFibers
      /\ new.key = fiber.key /\ new.type = fiber.type /\ new.index = fiber.index
      /\ new.instance = fiber.instance /\ new.reused = fiber.reused
      /\ new.placement = fiber.placement /\ new.props = fiber.props
      /\ new.children = result.children /\ new.deletions = result.deletions
  BY <1>6, <1>7 DEF TopFibers, FibersOver
<1> HIDE DEF elements, prefix
<1>9. Reconciled({<<>>}, fiber.children, elements, prefix, FALSE, fiber.reused, new)
  BY <1>5, <1>8 DEF Reconciled, UsedOrDeleted
<1>10. \A j \in 1..Len(new.children) : new.children[j].type # "group"
  <2> TAKE j \in 1..Len(new.children)
  <2>1. j \in 1..Len(elements) /\ Answers(new.children[j], elements[j])
    BY <1>9 DEF Reconciled
  <2>2. Has(fiber.props, elements[j])
    BY <1>2, <2>1, WithoutElements DEF elements
  <2> QED BY <2>1, <2>2 DEF Has, Answers
<1>11. Begins(new, fiber.children)
  BY <1>8, <1>9, <1>10 DEF Begins, elements, prefix
<1> QED BY <1>8, <1>11

SameButBelow(new, fiber) ==
  /\ new.key = fiber.key /\ new.type = fiber.type /\ new.index = fiber.index
  /\ new.instance = fiber.instance /\ new.reused = fiber.reused
  /\ new.placement = fiber.placement /\ new.props = fiber.props

LEMMA BegunIs ==
  ASSUME NEW fiber \in TopFibers,
         Siblings(fiber.children), IsFresh(fiber.children, <<"new", fiber.index>>),
         KeysAreUnique(fiber.props),
         \A j \in 1..Len(fiber.props) : fiber.props[j].type # "group",
         fiber.type # "group" => fiber.children = <<>> /\ fiber.deletions = <<>>,
         NEW new, new = Begun(fiber)
  PROVE  new \in TopFibers /\ SameButBelow(new, fiber) /\ Begins(new, fiber.children)
<1>1. CASE fiber.type = "group"
  BY <1>1, GroupBegins DEF Begun, SameButBelow
<1>2. CASE fiber.type # "group"
  <2>1. new = fiber
    BY <1>2 DEF Begun
  <2>2. Len(new.children) = 0
    BY <1>2, <2>1
  <2>3. Begins(new, fiber.children)
    <3>1. \A j \in 1..Len(new.children) : new.children[j].type # "group"
      BY <2>2
    <3>2. new.type # "group" /\ new.children = <<>> /\ new.deletions = <<>>
      BY <1>2, <2>1
    <3> QED BY <3>1, <3>2 DEF Begins
  <2> QED BY <2>1, <2>3 DEF SameButBelow
<1> QED BY <1>1, <1>2

LEMMA NoChildren ==
  /\ Siblings(<<>>)
  /\ \A n \in Nat : IsFresh(<<>>, <<"new", n>>)
BY DEF Siblings, IsFresh

LEMMA SlotsAre ==
  ASSUME NEW input \in ChildInputs
  PROVE  \A i \in 1..Len(SlotsOf(input)) :
           LET element == SlotsOf(input)[i]
           IN  /\ element \in ChildElements
               /\ element.type = "text" => element.key = NoKey
               /\ KeysAreUnique(element.children)
               /\ \A j \in 1..Len(element.children) : element.children[j].type # "group"
<1> TAKE i \in 1..Len(SlotsOf(input))
<1>1. input.slots \in Seq(ChildElements)
  BY InputsAre
<1>2. Has(input.slots, SlotsOf(input)[i])
  BY <1>1, WithoutElements DEF SlotsOf
<1>3. PICK k \in 1..Len(input.slots) : input.slots[k] = SlotsOf(input)[i]
  BY <1>2 DEF Has
<1>4. /\ input.slots[k] \in ChildElements
      /\ input.slots[k].type = "text" => input.slots[k].key = NoKey
      /\ KeysAreUnique(input.slots[k].children)
      /\ \A j \in 1..Len(input.slots[k].children) :
                   input.slots[k].children[j].type # "group"
  BY InputsAre
<1> QED BY <1>3, <1>4

\* Every child, before beginWork
LEMMA ChildBegins ==
  ASSUME NEW olds, Shown(olds), NEW input \in ChildInputs, NEW r,
         Reconciled(Seq(LeafFibers), olds, SlotsOf(input), <<"new">>, input.single, TRUE, r),
         NEW i \in 1..Len(r.children), NEW child, child = Begun(r.children[i])
  PROVE  /\ child \in TopFibers /\ SameButBelow(child, r.children[i])
         /\ BeginsFrom(olds, input, child)
<1> DEFINE c == r.children[i]
           element == SlotsOf(input)[i]
<1>1. /\ r.children \in Seq(TopFibers) /\ i \in 1..Len(SlotsOf(input))
      /\ Answers(c, element) /\ Origin(c, olds, <<"new">>, input.single)
  BY DEF Reconciled, TopFibers
<1>2. /\ KeysAreUnique(c.props)
      /\ \A j \in 1..Len(c.props) : c.props[j].type # "group"
  BY <1>1, SlotsAre DEF Answers
<1>3. c \in TopFibers
  BY <1>1
<1>4. c.index \in Nat
  BY <1>3 DEF TopFibers, FibersOver
<1> HIDE DEF c
<1>5. child = Begun(c)
  BY DEF c
<1>6. CASE c.reused
  <2>1. PICK k \in 1..Len(olds) : /\ c.instance = olds[k].instance
                                  /\ c.children = olds[k].children
                                  /\ Continues(c, olds[k], input.single)
    BY <1>1, <1>6 DEF Origin
  <2>2. /\ Siblings(c.children) /\ IsFresh(c.children, <<"new", c.index>>)
    BY <1>4, <2>1, ShownAreFresh DEF Shown
  <2>3. c.type # "group" => c.children = <<>>
    BY <2>1 DEF Shown, Continues
  <2>4. c.deletions = <<>>
    BY <1>1 DEF Origin
  <2>5. child \in TopFibers /\ SameButBelow(child, c) /\ Begins(child, c.children)
    BY <1>2, <1>3, <1>5, <2>2, <2>3, <2>4, BegunIs
  <2>6. child.reused /\ child.instance = olds[k].instance
        /\ Continues(child, olds[k], input.single)
    BY <1>6, <2>1, <2>5 DEF SameButBelow, Continues
  <2> QED BY <2>1, <2>5, <2>6 DEF c, BeginsFrom
<1>7. CASE ~c.reused
  <2>1. /\ c.instance = <<"new">> \o <<c.index>>
        /\ c.children = <<>> /\ c.deletions = <<>>
        /\ \A k \in 1..Len(olds) : ~Continues(c, olds[k], FALSE)
    BY <1>1, <1>7 DEF Origin
  <2>2. child \in TopFibers /\ SameButBelow(child, c) /\ Begins(child, <<>>)
    BY <1>2, <1>3, <1>4, <1>5, <2>1, NoChildren, BegunIs
  <2>3. <<"new">> \o <<c.index>> = <<"new", c.index>>
    <3> DEFINE a == <<"new">> \o <<c.index>>
               b == <<"new", c.index>>
    <3>1. /\ a \in ChildNames /\ b \in ChildNames /\ Len(a) = 2 /\ Len(b) = 2
          /\ a[1] = b[1] /\ a[2] = b[2]
      BY <1>4 DEF ChildNames
    <3> HIDE DEF a, b
    <3>2. \A k \in 1..2 : a[k] = b[k]
      BY <3>1
    <3>3. a = b
      BY <3>1, <3>2, SeqEqual DEF ChildNames
    <3> QED BY <3>3 DEF a, b
  <2>4. /\ ~child.reused /\ child.instance = <<"new", child.index>>
        /\ \A k \in 1..Len(olds) : ~Continues(child, olds[k], FALSE)
    BY <1>7, <2>1, <2>2, <2>3 DEF SameButBelow, Continues
  <2> QED BY <2>2, <2>4 DEF c, BeginsFrom
<1> QED BY <1>6, <1>7

LEMMA RenderingIs ==
  ASSUME NEW olds, Shown(olds), NEW input \in ChildInputs,
         NEW result, result = Rendering(olds, input)
  PROVE  Rendered(olds, input, result)
<1> DEFINE r == ReconcileChildFibers(olds, input)
           C == Seq(LeafFibers)
           N == Len(r.children)
<1>1. Reconciled(C, olds, SlotsOf(input), <<"new">>, input.single, TRUE, r)
  <2>1. <<>> \in C
    OBVIOUS
  <2>2. /\ olds \in Seq(FibersOver(C)) /\ Siblings(olds) /\ TextsHaveNoKey(olds)
        /\ IsFresh(olds, <<"new">>)
    BY ShownAreFresh DEF Shown, TopFibers
  <2> HIDE DEF C, r
  <2> QED BY <2>1, <2>2, ChildFibersReconcile DEF r
<1> HIDE DEF r
<1>2. /\ r.children \in Seq(TopFibers) /\ r.deletions \in Seq(TopFibers)
      /\ Siblings(r.children) /\ N = Len(SlotsOf(input))
      /\ InOldOrder(olds, TRUE, r.children)
      /\ \A k \in 1..Len(r.deletions) : Has(olds, r.deletions[k])
      /\ \A k \in 1..Len(olds) : UsedOrDeleted(r, olds[k])
  BY <1>1 DEF Reconciled, TopFibers
<1>13. N \in Nat
  BY <1>2
<1>14. \A i \in 1..N : Answers(r.children[i], SlotsOf(input)[i])
  BY <1>1, <1>2 DEF Reconciled
<1>3. /\ result.children = [i \in 1..N |-> Begun(r.children[i])]
      /\ result.deletions = r.deletions
  BY <1>2, <1>13 DEF Rendering, r
<1>4. \A i \in 1..N : /\ result.children[i] \in TopFibers
                     /\ SameButBelow(result.children[i], r.children[i])
                     /\ BeginsFrom(olds, input, result.children[i])
  <2> TAKE i \in 1..N
  <2>1. result.children[i] = Begun(r.children[i])
    BY <1>3
  <2> QED BY <1>1, <2>1, ChildBegins
<1>5. \A i \in 1..N : result.children[i] \in TopFibers
                      /\ SameButBelow(result.children[i], r.children[i])
  BY <1>4
<1>6. result.children \in Seq(TopFibers) /\ Len(result.children) = N
  <2> DEFINE f == result.children
             g == [i \in 1..N |-> Begun(r.children[i])]
  <2>1. f = g /\ DOMAIN g = 1..N
    BY <1>3
  <2> HIDE DEF N, g
  <2>2. f = [i \in 1..N |-> f[i]]
    BY <2>1 DEF g
  <2>3. \A i \in 1..N : f[i] \in TopFibers
    BY <1>5
  <2> HIDE DEF f
  <2>4. f \in [1..N -> TopFibers]
    BY <2>2, <2>3
  <2>5. f \in Seq(TopFibers) /\ Len(f) = N
    BY <1>13, <2>4
  <2> QED BY <2>5 DEF f
<1>15. Len(r.children) = N
  OBVIOUS
<1> HIDE DEF N
<1>16. \A i \in 1..N : LET new == result.children[i]
                           old == r.children[i]
                       IN  /\ new.key = old.key /\ new.index = old.index
                           /\ new.instance = old.instance
                           /\ (new.reused <=> old.reused)
                           /\ (new.placement <=> old.placement)
  BY <1>5 DEF SameButBelow
<1>7. Siblings(result.children)
  BY <1>2, <1>6, <1>15, <1>16 DEF Siblings
<1>8. \A i \in 1..N : Answers(result.children[i], SlotsOf(input)[i])
  BY <1>14, <1>5 DEF Answers, SameButBelow
<1>9. TextsHaveNoKey(result.children)
  BY <1>2, <1>6, <1>8, SlotsAre DEF TextsHaveNoKey, Answers
<1>10. InOldOrder(olds, TRUE, result.children)
  <2>1. \A i \in 1..N : ~result.children[i].reused => result.children[i].placement
    BY <1>2, <1>15, <1>16 DEF InOldOrder
  <2>2. ASSUME NEW i \in 1..N, NEW j \in 1..N, i < j,
               ~result.children[i].placement, ~result.children[j].placement,
               NEW k \in 1..Len(olds), NEW l \in 1..Len(olds),
               result.children[i].instance = olds[k].instance,
               result.children[j].instance = olds[l].instance
        PROVE  olds[k].index < olds[l].index
    <3>1. /\ ~r.children[i].placement /\ ~r.children[j].placement
          /\ r.children[i].instance = olds[k].instance
          /\ r.children[j].instance = olds[l].instance
      BY <1>16, <2>2
    <3> QED BY <1>2, <1>15, <2>2, <3>1 DEF InOldOrder
  <2> QED BY <1>6, <2>1, <2>2 DEF InOldOrder
<1>11. \A name : /\ Carries(result.children, name) <=> Carries(r.children, name)
                 /\ CarriesOnce(result.children, name) <=> CarriesOnce(r.children, name)
  <2> TAKE name
  <2>1. \A i \in 1..N : result.children[i].instance = name <=> r.children[i].instance = name
    BY <1>16
  <2>2. Carries(result.children, name) <=> Carries(r.children, name)
    BY <1>6, <1>15, <2>1 DEF Carries
  <2>3. CarriesOnce(result.children, name) <=> CarriesOnce(r.children, name)
    BY <1>6, <1>15, <2>1 DEF CarriesOnce
  <2> QED BY <2>2, <2>3
<1>12. \A k \in 1..Len(olds) : UsedOrDeleted(result, olds[k])
  BY <1>2, <1>3, <1>11 DEF UsedOrDeleted
<1>17. Len(result.children) = Len(SlotsOf(input))
  BY <1>2, <1>6
<1> QED BY <1>2, <1>3, <1>4, <1>6, <1>7, <1>8, <1>9, <1>10, <1>12, <1>17 DEF Rendered

-----------------------------------------------------------------------------
(* Host nodes removed and inserted                                           *)

Before(s, x, y) == \E k, l \in 1..Len(s) : k < l /\ s[k] = x /\ s[l] = y

Distinct(s) == \A k, l \in 1..Len(s) : k # l => s[k] # s[l]

LEMMA WithoutKeeps ==
  ASSUME NEW S, NEW s \in Seq(S), NEW gone, NEW t, t = Without(s, gone)
  PROVE  /\ t \in Seq(S)
         /\ \A x : Has(t, x) <=> Has(s, x) /\ x \notin gone
         /\ Distinct(s) => Distinct(t)
         /\ \A x, y : Before(s, x, y) /\ x \notin gone /\ y \notin gone => Before(t, x, y)
<1>1. t \in Seq(S)
  BY WithoutPicks
<1>2. PICK h : Picks(h, t, s, gone)
  BY WithoutPicks
<1>3. /\ h \in [1..Len(t) -> 1..Len(s)]
      /\ \A k \in 1..Len(t) : t[k] = s[h[k]] /\ s[h[k]] \notin gone
      /\ \A k, l \in 1..Len(t) : k < l => h[k] < h[l]
      /\ \A n \in 1..Len(s) : s[n] \notin gone => \E k \in 1..Len(t) : h[k] = n
  BY <1>2 DEF Picks
<1>4. /\ Len(t) \in Nat /\ Len(s) \in Nat
      /\ \A k \in 1..Len(t) : h[k] \in 1..Len(s) /\ h[k] \in Nat
  BY <1>1, <1>3
<1>5. ASSUME NEW x
      PROVE  Has(t, x) <=> Has(s, x) /\ x \notin gone
  <2>1. Has(t, x) => Has(s, x) /\ x \notin gone
    BY <1>3, <1>4 DEF Has
  <2>2. ASSUME NEW n \in 1..Len(s), s[n] = x, x \notin gone
        PROVE  Has(t, x)
    BY <1>3, <2>2 DEF Has
  <2> QED BY <2>1, <2>2 DEF Has
<1>6. ASSUME Distinct(s), NEW k \in 1..Len(t), NEW l \in 1..Len(t), k # l
      PROVE  t[k] # t[l]
  BY <1>3, <1>4, <1>6 DEF Distinct
<1>7. ASSUME NEW x, NEW y, Before(s, x, y), x \notin gone, y \notin gone
      PROVE  Before(t, x, y)
  <2>1. PICK m, n \in 1..Len(s) : m < n /\ s[m] = x /\ s[n] = y
    BY <1>7 DEF Before
  <2>2. PICK k \in 1..Len(t) : h[k] = m
    BY <1>3, <1>7, <2>1
  <2>3. PICK l \in 1..Len(t) : h[l] = n
    BY <1>3, <1>7, <2>1
  <2>4. k < l
    BY <1>3, <1>4, <2>1, <2>2, <2>3
  <2> QED BY <1>3, <2>1, <2>2, <2>3, <2>4 DEF Before
<1> QED BY <1>1, <1>5, <1>6, <1>7 DEF Distinct

Spliced(others, nodes, p) ==
  SubSeq(others, 1, p - 1) \o nodes \o SubSeq(others, p, Len(others))

IsSpliced(t, S, others, nodes, p) ==
  /\ t \in Seq(S) /\ Len(t) = Len(others) + Len(nodes)
  /\ \A k \in 1..Len(others) : k < p => t[k] = others[k]
  /\ \A k \in 1..Len(others) : k >= p => t[k + Len(nodes)] = others[k]
  /\ \A j \in 1..Len(nodes) : t[p - 1 + j] = nodes[j]

LEMMA InsertShape ==
  ASSUME NEW S, NEW others \in Seq(S), NEW nodes \in Seq(S),
         NEW p \in 1..(Len(others) + 1), NEW t,
         t = Spliced(others, nodes, p)
  PROVE  IsSpliced(t, S, others, nodes, p)
<1> DEFINE a == SubSeq(others, 1, p - 1)
           b == SubSeq(others, p, Len(others))
           M == Len(others)
           L == Len(nodes)
           c == a \o nodes
<1>1. M \in Nat /\ L \in Nat /\ p \in 1..(M + 1) /\ p \in Nat /\ p - 1 \in 0..M /\ p - 1 \in Nat
  OBVIOUS
<1>2. /\ a \in Seq(S) /\ Len(a) = p - 1
      /\ \A k \in 1..(p - 1) : a[k] = others[k]
  OBVIOUS
<1>3. /\ b \in Seq(S) /\ Len(b) = M - p + 1
      /\ \A k \in 1..(M - p + 1) : b[k] = others[p + k - 1]
  OBVIOUS
<1> HIDE DEF a, b
<1>4. /\ c \in Seq(S) /\ Len(c) = p - 1 + L
      /\ \A k \in 1..(p - 1) : c[k] = a[k]
      /\ \A j \in 1..L : c[p - 1 + j] = nodes[j]
  BY <1>1, <1>2, ConcatProperties
<1>5. t = c \o b
  BY DEF a, b, Spliced
<1> HIDE DEF c, L
<1>6. /\ t \in Seq(S) /\ Len(t) = Len(c) + Len(b)
      /\ \A i \in 1..(Len(c) + Len(b)) : t[i] = IF i <= Len(c) THEN c[i] ELSE b[i - Len(c)]
  <2>1. c \in Seq(S) /\ b \in Seq(S)
    BY <1>3, <1>4
  <2> QED BY ONLY <1>5, <2>1, ConcatProperties
<1> HIDE DEF M
<1>7. Len(c) + Len(b) = M + L
  BY <1>1, <1>3, <1>4
<1>8. \A k \in 1..M : k < p => t[k] = others[k]
  BY <1>1, <1>2, <1>4, <1>6, <1>7
<1>9. \A k \in 1..M : k >= p => t[k + L] = others[k]
  BY <1>1, <1>3, <1>4, <1>6, <1>7
<1>10. \A j \in 1..L : t[p - 1 + j] = nodes[j]
  <2> TAKE j \in 1..L
  <2>1. p - 1 + j \in 1..(M + L) /\ p - 1 + j <= p - 1 + L
    BY <1>1
  <2> QED BY <1>4, <1>6, <1>7, <2>1
<1> QED BY <1>6, <1>7, <1>8, <1>9, <1>10 DEF M, L, IsSpliced

\* What InsertBefore makes of the order of the nodes
Inserted(t, host, nodes, before) ==
  /\ Distinct(t)
  /\ \A x : Has(t, x) <=> Has(host, x) \/ Has(nodes, x)
  /\ \A x, y : Before(host, x, y) /\ ~Has(nodes, x) /\ ~Has(nodes, y) => Before(t, x, y)
  /\ \A x, y : Before(nodes, x, y) => Before(t, x, y)
  /\ \A x, y : /\ Has(nodes, x) /\ ~Has(nodes, y) /\ before # <<>>
               /\ y = before \/ Before(host, before, y)
               => Before(t, x, y)
  /\ \A x, y : /\ Has(host, x) /\ ~Has(nodes, x) /\ Has(nodes, y)
               /\ before = <<>> \/ Before(host, x, before)
               => Before(t, x, y)

LEMMA InsertIs ==
  ASSUME NEW S, NEW host \in Seq(S), NEW nodes \in Seq(S), Distinct(host), Distinct(nodes),
         NEW before, before # <<>> => Has(host, before) /\ ~Has(nodes, before),
         NEW t, t = InsertBefore(host, nodes, before)
  PROVE  t \in Seq(S) /\ Inserted(t, host, nodes, before)
<1> DEFINE others == Without(host, ToSet(nodes))
           p == IF before = <<>> THEN Len(others) + 1
                ELSE CHOOSE k \in DOMAIN others : others[k] = before
           M == Len(others)
           L == Len(nodes)
<1>1. \A x : x \in ToSet(nodes) <=> Has(nodes, x)
  BY SetHas
<1>2. /\ others \in Seq(S)
      /\ \A x : Has(others, x) <=> Has(host, x) /\ ~Has(nodes, x)
      /\ Distinct(others)
      /\ \A x, y : Before(host, x, y) /\ ~Has(nodes, x) /\ ~Has(nodes, y)
                     => Before(others, x, y)
  BY <1>1, WithoutKeeps
<1>3. t = Spliced(others, nodes, p)
  BY DEF InsertBefore, Spliced
<1> HIDE DEF others
<1>4. M \in Nat /\ L \in Nat /\ DOMAIN others = 1..M
  BY <1>2
<1>5. /\ p \in 1..(M + 1)
      /\ before = <<>> => p = M + 1
      /\ before # <<>> => p \in 1..M /\ others[p] = before
  <2>1. CASE before = <<>>
    BY <1>4, <2>1
  <2>2. CASE before # <<>>
    <3>1. Has(others, before)
      BY <1>2, <2>2
    <3>2. \E k \in DOMAIN others : others[k] = before
      BY <1>4, <3>1 DEF Has
    <3>3. p \in DOMAIN others /\ others[p] = before
      BY <2>2, <3>2
    <3> QED BY <1>4, <2>2, <3>3
  <2> QED BY <2>1, <2>2
<1> HIDE DEF p
<1>6. /\ t \in Seq(S) /\ Len(t) = M + L
      /\ \A k \in 1..M : k < p => t[k] = others[k]
      /\ \A k \in 1..M : k >= p => t[k + L] = others[k]
      /\ \A j \in 1..L : t[p - 1 + j] = nodes[j]
  <2>1. others \in Seq(S) /\ nodes \in Seq(S) /\ p \in 1..(Len(others) + 1)
    BY <1>2, <1>5
  <2>2. IsSpliced(t, S, others, nodes, p)
    BY <1>3, <2>1, InsertShape
  <2> QED BY <2>2 DEF IsSpliced
<1> DEFINE pos(k) == IF k < p THEN k ELSE k + L
<1>20. M = Len(others) /\ L = Len(nodes)
  OBVIOUS
<1> HIDE DEF M, L
<1>21. p \in Nat \ {0} /\ p <= M + 1
  BY <1>4, <1>5
<1>7. /\ \A k \in 1..M : pos(k) \in 1..(M + L) /\ t[pos(k)] = others[k]
      /\ \A k, l \in 1..M : k < l => pos(k) < pos(l)
      /\ \A k \in 1..M, j \in 1..L : pos(k) # p - 1 + j
      /\ \A j \in 1..L : p - 1 + j \in 1..(M + L)
  BY <1>4, <1>6, <1>21
<1>8. \A n \in 1..(M + L) : (\E k \in 1..M : n = pos(k)) \/ (\E j \in 1..L : n = p - 1 + j)
  <2> TAKE n \in 1..(M + L)
  <2>1. CASE n < p
    BY <1>4, <1>21, <2>1
  <2>2. CASE n >= p /\ n < p + L
    BY <1>4, <1>21, <2>2
  <2>3. CASE n >= p + L
    <3>1. n - L \in 1..M /\ n = pos(n - L)
      BY <1>4, <1>21, <2>3
    <3> QED BY <3>1
  <2> QED BY <1>4, <1>21, <2>1, <2>2, <2>3
<1> HIDE DEF pos
<1>9. \A k \in 1..M : \A j \in 1..L : others[k] # nodes[j]
  BY <1>2, <1>20 DEF Has
<1>10. Distinct(t)
  <2> SUFFICES ASSUME NEW m \in 1..(M + L), NEW n \in 1..(M + L), t[m] = t[n]
               PROVE  m = n
    BY <1>6 DEF Distinct
  <2>1. CASE \E k \in 1..M : m = pos(k)
    <3>1. PICK k \in 1..M : m = pos(k)
      BY <2>1
    <3>2. CASE \E l \in 1..M : n = pos(l)
      BY <1>2, <1>7, <1>20, <3>1, <3>2 DEF Distinct
    <3>3. CASE \E j \in 1..L : n = p - 1 + j
      BY <1>6, <1>7, <1>9, <3>1, <3>3
    <3> QED BY <1>8, <3>2, <3>3
  <2>2. CASE \E i \in 1..L : m = p - 1 + i
    <3>1. PICK i \in 1..L : m = p - 1 + i
      BY <2>2
    <3>2. CASE \E l \in 1..M : n = pos(l)
      BY <1>6, <1>7, <1>9, <3>1, <3>2
    <3>3. CASE \E j \in 1..L : n = p - 1 + j
      BY SMTT(30), <1>6, <1>20, <3>1, <3>3 DEF Distinct
    <3> QED BY <1>8, <3>2, <3>3
  <2> QED BY <1>8, <2>1, <2>2
<1>11. \A x : Has(t, x) <=> Has(others, x) \/ Has(nodes, x)
  <2> TAKE x
  <2>1. Has(t, x) => Has(others, x) \/ Has(nodes, x)
    BY <1>6, <1>7, <1>8, <1>20 DEF Has
  <2>2. Has(others, x) => Has(t, x)
    BY <1>6, <1>7, <1>20 DEF Has
  <2>3. Has(nodes, x) => Has(t, x)
    BY <1>6, <1>7, <1>20 DEF Has
  <2> QED BY <2>1, <2>2, <2>3
<1>12. \A x, y : Before(others, x, y) => Before(t, x, y)
  BY <1>6, <1>7, <1>20 DEF Before
<1>13. \A x, y : Before(nodes, x, y) => Before(t, x, y)
  <2> TAKE x, y
  <2> HAVE Before(nodes, x, y)
  <2>1. PICK i, j \in 1..L : i < j /\ nodes[i] = x /\ nodes[j] = y
    BY <1>20 DEF Before
  <2>2. p - 1 + i < p - 1 + j
    BY <1>21, <2>1
  <2> QED BY <1>6, <1>7, <2>1, <2>2 DEF Before
<1>14. \A x, y : /\ Has(nodes, x) /\ ~Has(nodes, y) /\ before # <<>>
                 /\ y = before \/ Before(host, before, y)
                 => Before(t, x, y)
  <2> SUFFICES ASSUME NEW x, NEW y, Has(nodes, x), ~Has(nodes, y), before # <<>>,
                      y = before \/ Before(host, before, y)
               PROVE  Before(t, x, y)
    OBVIOUS
  <2>1. PICK j \in 1..L : nodes[j] = x
    BY <1>20 DEF Has
  <2>2. PICK k \in 1..M : others[k] = y /\ k >= p
    <3>1. CASE y = before
      BY <1>5, <3>1
    <3>2. CASE Before(host, before, y)
      BY <1>2, <1>5, <1>20, <3>2 DEF Before, Distinct
    <3> QED BY <3>1, <3>2
  <2>3. pos(k) > p - 1 + j
    BY <1>4, <1>21, <2>2 DEF pos
  <2> QED BY <1>6, <1>7, <2>1, <2>2, <2>3 DEF Before
<1>15. \A x, y : /\ Has(host, x) /\ ~Has(nodes, x) /\ Has(nodes, y)
                 /\ before = <<>> \/ Before(host, x, before)
                 => Before(t, x, y)
  <2> SUFFICES ASSUME NEW x, NEW y, Has(host, x), ~Has(nodes, x), Has(nodes, y),
                      before = <<>> \/ Before(host, x, before)
               PROVE  Before(t, x, y)
    OBVIOUS
  <2>1. PICK j \in 1..L : nodes[j] = y
    BY <1>20 DEF Has
  <2>2. PICK k \in 1..M : others[k] = x /\ k < p
    <3>1. CASE before = <<>>
      <4>1. Has(others, x)
        BY <1>2
      <4>2. PICK k \in 1..M : others[k] = x
        BY <1>20, <4>1 DEF Has
      <4>3. k < p
        BY <1>4, <1>5, <3>1
      <4> QED BY <4>2, <4>3
    <3>2. CASE before # <<>> /\ Before(host, x, before)
      <4>1. Before(others, x, before)
        BY <1>2, <3>2
      <4>2. PICK m, n \in 1..M : m < n /\ others[m] = x /\ others[n] = before
        BY <1>20, <4>1 DEF Before
      <4>3. n = p
        BY <1>2, <1>5, <1>20, <3>2, <4>2 DEF Distinct
      <4> QED BY <4>2, <4>3
    <3> QED BY <3>1, <3>2
  <2>3. pos(k) < p - 1 + j
    BY <1>4, <1>21, <2>2 DEF pos
  <2> QED BY <1>6, <1>7, <2>1, <2>2, <2>3 DEF Before
<1> QED BY <1>2, <1>6, <1>10, <1>11, <1>12, <1>13, <1>14, <1>15 DEF Inserted

\* Where the places of a flattened sequence come from
InOrderOf(x, y, s) ==
  \E i, m \in 1..Len(s) : \E j \in 1..Len(s[i]), n \in 1..Len(s[m]) :
    x = s[i][j] /\ y = s[m][n] /\ (i < m \/ (i = m /\ j < n))

FlatAlike(t, u, s, r) ==
  /\ Len(t) = Len(u)
  /\ \A k \in 1..Len(t) : \E i \in 1..Len(s) : \E j \in 1..Len(s[i]) :
       t[k] = s[i][j] /\ u[k] = r[i][j]

LEMMA FlattenPlaces ==
  ASSUME NEW S, NEW s \in Seq(Seq(S))
  PROVE  /\ FlattenSeq(s) \in Seq(S)
         /\ \A k \in 1..Len(FlattenSeq(s)) : \E i \in 1..Len(s) : \E j \in 1..Len(s[i]) :
              FlattenSeq(s)[k] = s[i][j]
         /\ \A i \in 1..Len(s) : \A j \in 1..Len(s[i]) : Has(FlattenSeq(s), s[i][j])
         /\ Len(s) = 0 => Len(FlattenSeq(s)) = 0
<1> DEFINE t == FlattenSeq(s)
<1>1. PICK o : Offsets(o, s)
  BY OffsetsExist
<1>2. t \in Seq(S) /\ Flat(t, s, o)
  BY <1>1, FlattenIs
<1> HIDE DEF t
<1>3. /\ o \in [1..(Len(s) + 1) -> Nat] /\ o[1] = 0
      /\ Len(t) = o[Len(s) + 1]
      /\ \A i \in 1..Len(s) : \A j \in 1..Len(s[i]) : t[o[i] + j] = s[i][j]
  BY <1>2 DEF Flat, Offsets
<1>4. \A k \in 1..Len(t) : \E i \in 1..Len(s) : \E j \in 1..Len(s[i]) : t[k] = s[i][j]
  <2> TAKE k \in 1..Len(t)
  <2>1. k \in 1..o[Len(s) + 1]
    BY <1>3
  <2>2. \E i \in 1..Len(s) : \E j \in 1..Len(s[i]) : k = o[i] + j
    BY <1>1, <2>1, OffsetsCover
  <2> QED BY <1>3, <2>2
<1>5. \A i \in 1..Len(s) : \A j \in 1..Len(s[i]) : Has(t, s[i][j])
  <2> TAKE i \in 1..Len(s)
  <2> TAKE j \in 1..Len(s[i])
  <2>1. /\ \A a, b \in 1..(Len(s) + 1) : a <= b => o[a] <= o[b]
        /\ o[i + 1] = o[i] + Len(s[i])
    BY <1>1, OffsetsGrow DEF Offsets
  <2>2. i \in 1..(Len(s) + 1) /\ i + 1 \in 1..(Len(s) + 1) /\ i + 1 <= Len(s) + 1
        /\ Len(s) + 1 \in 1..(Len(s) + 1) /\ Len(s[i]) \in Nat
    OBVIOUS
  <2>3. o[i] \in Nat /\ o[i + 1] <= o[Len(s) + 1] /\ o[Len(s) + 1] \in Nat
    BY <1>3, <2>1, <2>2
  <2>4. o[i] + j \in 1..Len(t)
    BY <1>3, <2>1, <2>2, <2>3
  <2> QED BY <1>3, <2>4 DEF Has
<1>6. Len(s) = 0 => Len(t) = 0
  BY <1>3
<1> QED BY <1>2, <1>4, <1>5, <1>6 DEF t

LEMMA FlattenOrder ==
  ASSUME NEW S, NEW s \in Seq(Seq(S)),
         NEW k \in 1..Len(FlattenSeq(s)), NEW l \in 1..Len(FlattenSeq(s)), k < l
  PROVE  InOrderOf(FlattenSeq(s)[k], FlattenSeq(s)[l], s)
<1> DEFINE t == FlattenSeq(s)
<1>1. PICK o : Offsets(o, s)
  BY OffsetsExist
<1>2. t \in Seq(S) /\ Flat(t, s, o)
  BY <1>1, FlattenIs
<1>0. k \in 1..Len(t) /\ l \in 1..Len(t)
  OBVIOUS
<1> HIDE DEF t
<1>3. /\ o \in [1..(Len(s) + 1) -> Nat] /\ o[1] = 0
      /\ Len(t) = o[Len(s) + 1]
      /\ \A i \in 1..Len(s) : \A j \in 1..Len(s[i]) : t[o[i] + j] = s[i][j]
  BY <1>2 DEF Flat, Offsets
<1>10. \A x \in 1..o[Len(s) + 1] : \E i \in 1..Len(s) : \E j \in 1..Len(s[i]) : x = o[i] + j
  BY <1>1, OffsetsCover
<1>4. PICK i \in 1..Len(s) : \E j \in 1..Len(s[i]) : k = o[i] + j
  BY <1>0, <1>3, <1>10
<1>5. PICK j \in 1..Len(s[i]) : k = o[i] + j
  BY <1>4
<1>6. PICK m \in 1..Len(s) : \E n \in 1..Len(s[m]) : l = o[m] + n
  BY <1>0, <1>3, <1>10
<1>7. PICK n \in 1..Len(s[m]) : l = o[m] + n
  BY <1>6
<1>8. t[k] = s[i][j] /\ t[l] = s[m][n]
  BY <1>3, <1>5, <1>7
<1>9. i < m \/ (i = m /\ j < n)
  <2>1. \A a, b \in 1..Len(s) : a < b => o[a] + Len(s[a]) <= o[b]
    BY <1>1, OffsetsGrow
  <2>2. o[i] \in Nat /\ o[m] \in Nat
    <3>1. i \in 1..(Len(s) + 1) /\ m \in 1..(Len(s) + 1)
      OBVIOUS
    <3> QED BY <1>3, <3>1
  <2>3. Len(s[i]) \in Nat /\ Len(s[m]) \in Nat
    OBVIOUS
  <2>4. ~(m < i)
    <3> SUFFICES ASSUME m < i
                 PROVE  FALSE
      OBVIOUS
    <3>1. o[m] + Len(s[m]) <= o[i]
      BY <2>1
    <3> QED BY SMTT(30), <1>5, <1>7, <2>2, <2>3, <3>1
  <2>5. i = m => j < n
    BY <1>5, <1>7, <2>2
  <2> QED BY <2>4, <2>5
<1> QED BY <1>8, <1>9 DEF t, InOrderOf

\* Sequences of pieces of the same lengths are flattened alike.
LEMMA FlattenPair ==
  ASSUME NEW S, NEW R, NEW s \in Seq(Seq(S)), NEW r \in Seq(Seq(R)), Len(s) = Len(r),
         \A i \in 1..Len(s) : Len(s[i]) = Len(r[i])
  PROVE  FlatAlike(FlattenSeq(s), FlattenSeq(r), s, r)
<1> DEFINE t == FlattenSeq(s)
           u == FlattenSeq(r)
<1>1. PICK o : Offsets(o, s)
  BY OffsetsExist
<1>2. Offsets(o, r)
  BY <1>1 DEF Offsets
<1>3. Flat(t, s, o) /\ Flat(u, r, o)
  BY <1>1, <1>2, FlattenIs
<1> HIDE DEF t, u
<1>4. /\ o \in [1..(Len(s) + 1) -> Nat]
      /\ Len(t) = o[Len(s) + 1] /\ Len(u) = o[Len(s) + 1]
      /\ \A i \in 1..Len(s) : \A j \in 1..Len(s[i]) : t[o[i] + j] = s[i][j]
      /\ \A i \in 1..Len(s) : \A j \in 1..Len(s[i]) : u[o[i] + j] = r[i][j]
  BY <1>3 DEF Flat, Offsets
<1>6. \A x \in 1..o[Len(s) + 1] : \E i \in 1..Len(s) : \E j \in 1..Len(s[i]) : x = o[i] + j
  BY <1>1, OffsetsCover
<1>5. \A k \in 1..Len(t) : \E i \in 1..Len(s) : \E j \in 1..Len(s[i]) :
        t[k] = s[i][j] /\ u[k] = r[i][j]
  <2> TAKE k \in 1..Len(t)
  <2>1. k \in 1..o[Len(s) + 1]
    BY <1>4
  <2>2. PICK i \in 1..Len(s) : \E j \in 1..Len(s[i]) : k = o[i] + j
    BY <1>6, <2>1
  <2>3. PICK j \in 1..Len(s[i]) : k = o[i] + j
    BY <2>2
  <2>4. t[k] = s[i][j] /\ u[k] = r[i][j]
    BY <1>4, <2>3
  <2> QED BY <2>4
<1> QED BY <1>4, <1>5 DEF t, u, FlatAlike

-----------------------------------------------------------------------------
(* The host nodes of a tree, by their paths                                  *)

HostPaths(children) == {p \in Paths(children) : IsHost(ChildAt(children, p))}

NodeAt(children, p) == ChildAt(children, p).instance

\* w lists the paths of P in the order of the tree.
Lists(w, P) ==
  /\ w \in Seq(P)
  /\ \A p \in P : Has(w, p)
  /\ \A k, l \in 1..Len(w) : k < l => Precedes(w[k], w[l])

PathSet == {<<i>> : i \in Nat} \cup {<<i, j>> : i \in Nat, j \in Nat}

LEMMA PathIs ==
  /\ \A p \in PathSet : p[1] \in Nat /\ Len(p) \in {1, 2} /\ (Len(p) = 2 => p[2] \in Nat)
  /\ \A i \in Nat : <<i>> \in PathSet /\ Len(<<i>>) = 1 /\ <<i>>[1] = i
  /\ \A i, j \in Nat : <<i, j>> \in PathSet /\ Len(<<i, j>>) = 2 /\ <<i, j>>[1] = i
                       /\ <<i, j>>[2] = j
  /\ \A p \in PathSet : /\ Len(p) = 1 => p = <<p[1]>>
                        /\ Len(p) = 2 => p = <<p[1], p[2]>>
BY DEF PathSet

LEMMA PrecedesIs ==
  ASSUME NEW p \in PathSet, NEW q \in PathSet, Precedes(p, q)
  PROVE  ~Precedes(q, p) /\ p # q
BY PathIs DEF Precedes

LEMMA PrecedesThrough ==
  ASSUME NEW p \in PathSet, NEW q \in PathSet, NEW r \in PathSet,
         Precedes(p, q), Precedes(q, r)
  PROVE  Precedes(p, r)
BY PathIs DEF Precedes

LEMMA SubList ==
  ASSUME NEW P, P \subseteq PathSet, NEW w, NEW v, Lists(w, P), Lists(v, P)
  PROVE  \A k \in 1..Len(w) : k \in 1..Len(v) /\ w[k] = v[k]
<1>1. /\ w \in Seq(P) /\ v \in Seq(P) /\ Len(w) \in Nat /\ Len(v) \in Nat
      /\ \A k \in 1..Len(w) : w[k] \in P
      /\ \A k \in 1..Len(v) : v[k] \in P
  BY DEF Lists
<1>2. /\ \A k, l \in 1..Len(w) : k < l => w[k] # w[l] /\ ~Precedes(w[l], w[k])
      /\ \A k, l \in 1..Len(v) : k < l => v[k] # v[l] /\ ~Precedes(v[l], v[k])
  BY <1>1, PrecedesIs DEF Lists
<1> DEFINE Bad == {k \in 1..Len(w) : ~(k \in 1..Len(v) /\ w[k] = v[k])}
<1>3. SUFFICES ASSUME Bad # {}
               PROVE  FALSE
  OBVIOUS
<1>4. PICK k \in Bad : \A m \in Bad : k <= m
  <2>1. Bad \subseteq Nat
    BY <1>1
  <2> HIDE DEF Bad
  <2> QED BY <1>3, <2>1, LeastElement
<1>5. \A m \in 1..Len(w) : m < k => m \in 1..Len(v) /\ w[m] = v[m]
  <2> TAKE m \in 1..Len(w)
  <2> HAVE m < k
  <2>1. m \notin Bad
    BY <1>4
  <2> QED BY <2>1
<1>6. k \in 1..Len(w) /\ w[k] \in P
  BY <1>1
<1>7. PICK l \in 1..Len(v) : v[l] = w[k]
  BY <1>6 DEF Lists, Has
<1>8. l >= k
  BY <1>1, <1>2, <1>5, <1>6, <1>7
<1>9. k \in 1..Len(v) /\ k # l
  BY <1>1, <1>6, <1>7, <1>8
<1>10. v[k] \in P /\ k < l
  BY <1>1, <1>6, <1>8, <1>9
<1>11. PICK m \in 1..Len(w) : w[m] = v[k]
  BY <1>10 DEF Lists, Has
<1>12. Precedes(v[k], v[l]) /\ v[k] # v[l]
  BY <1>2, <1>9, <1>10 DEF Lists
<1>13. CASE m < k
  BY <1>2, <1>5, <1>9, <1>11, <1>13
<1>14. CASE m = k
  BY <1>7, <1>11, <1>12, <1>14
<1>15. CASE m > k
  BY <1>2, <1>6, <1>7, <1>9, <1>10, <1>11, <1>15 DEF Lists
<1> QED BY <1>1, <1>6, <1>13, <1>14, <1>15

LEMMA SameList ==
  ASSUME NEW P, P \subseteq PathSet, NEW w, NEW v, Lists(w, P), Lists(v, P)
  PROVE  w = v
<1>1. /\ w \in Seq(P) /\ v \in Seq(P) /\ Len(w) \in Nat /\ Len(v) \in Nat
  BY DEF Lists
<1>2. \A k \in 1..Len(w) : k \in 1..Len(v) /\ w[k] = v[k]
  BY SubList
<1>3. \A k \in 1..Len(v) : k \in 1..Len(w) /\ v[k] = w[k]
  BY SubList
<1>4. Len(w) = Len(v)
  BY <1>1, <1>2, <1>3
<1> QED BY <1>1, <1>2, <1>4, SeqEqual

\* Groups have children that are none, and the others have none.
Tidy(children) ==
  /\ children \in Seq(TopFibers)
  /\ \A i \in 1..Len(children) :
       /\ children[i].type # "group" => children[i].children = <<>>
       /\ \A j \in 1..Len(children[i].children) : children[i].children[j].type # "group"

LEMMA TidyFibers ==
  ASSUME NEW c, Tidy(c), NEW i \in 1..Len(c)
  PROVE  /\ i \in Nat /\ c[i] \in TopFibers /\ c[i].instance \in ChildNames
         /\ c[i].placement \in BOOLEAN /\ c[i].reused \in BOOLEAN
         /\ c[i].children \in Seq(LeafFibers) /\ c[i].deletions \in Seq(LeafFibers)
         /\ \A j \in 1..Len(c[i].children) :
              /\ j \in Nat /\ c[i].children[j] \in LeafFibers
              /\ c[i].children[j].instance \in ChildNames
              /\ c[i].children[j].placement \in BOOLEAN
              /\ c[i].children[j].children = <<>>
<1>1. i \in Nat /\ c[i] \in TopFibers
  BY DEF Tidy
<1>2. /\ c[i].instance \in ChildNames
      /\ c[i].placement \in BOOLEAN /\ c[i].reused \in BOOLEAN
      /\ c[i].children \in Seq(LeafFibers) /\ c[i].deletions \in Seq(LeafFibers)
  BY <1>1 DEF TopFibers, FibersOver
<1>3. ASSUME NEW j \in 1..Len(c[i].children)
      PROVE  /\ j \in Nat /\ c[i].children[j] \in LeafFibers
             /\ c[i].children[j].instance \in ChildNames
             /\ c[i].children[j].placement \in BOOLEAN
             /\ c[i].children[j].children = <<>>
  <2>1. j \in Nat /\ c[i].children[j] \in LeafFibers
    BY <1>2
  <2> QED BY <2>1 DEF LeafFibers, FibersOver
<1> QED BY <1>1, <1>2, <1>3

LEMMA PathsAre ==
  ASSUME NEW c, Tidy(c)
  PROVE  \A p : p \in Paths(c) <=>
           \E i \in 1..Len(c) : p = <<i>> \/ \E j \in 1..Len(c[i].children) : p = <<i, j>>
<1>1. DOMAIN c = 1..Len(c)
  BY DEF Tidy
<1>2. \A i \in 1..Len(c) : DOMAIN c[i].children = 1..Len(c[i].children)
  <2> TAKE i \in 1..Len(c)
  <2>1. c[i].children \in Seq(LeafFibers)
    BY TidyFibers
  <2> QED BY <2>1
<1> QED BY <1>1, <1>2 DEF Paths

LEMMA PathsSplit ==
  ASSUME NEW c, Tidy(c)
  PROVE  /\ Paths(c) \subseteq PathSet
         /\ \A p \in Paths(c) :
              /\ p[1] \in 1..Len(c) /\ p[1] \in Nat
              /\ Len(p) # 2 => p = <<p[1]>> /\ Len(p) = 1 /\ ChildAt(c, p) = c[p[1]]
              /\ Len(p) = 2 => /\ p[2] \in 1..Len(c[p[1]].children) /\ p[2] \in Nat
                               /\ p = <<p[1], p[2]>>
                               /\ ChildAt(c, p) = c[p[1]].children[p[2]]
         /\ \A i \in 1..Len(c) :
              /\ <<i>> \in Paths(c) /\ ChildAt(c, <<i>>) = c[i]
              /\ \A j \in 1..Len(c[i].children) :
                   <<i, j>> \in Paths(c) /\ ChildAt(c, <<i, j>>) = c[i].children[j]
<1>1. ASSUME NEW i \in 1..Len(c)
      PROVE  /\ i \in Nat /\ <<i>> \in PathSet /\ Len(<<i>>) = 1 /\ <<i>>[1] = i
             /\ ChildAt(c, <<i>>) = c[i]
             /\ \A j \in 1..Len(c[i].children) :
                  /\ j \in Nat /\ <<i, j>> \in PathSet /\ Len(<<i, j>>) = 2
                  /\ <<i, j>>[1] = i /\ <<i, j>>[2] = j
                  /\ ChildAt(c, <<i, j>>) = c[i].children[j]
  BY PathIs DEF ChildAt
<1>2. ASSUME NEW p \in Paths(c)
      PROVE  /\ p \in PathSet /\ p[1] \in 1..Len(c) /\ p[1] \in Nat
             /\ Len(p) # 2 => p = <<p[1]>> /\ Len(p) = 1 /\ ChildAt(c, p) = c[p[1]]
             /\ Len(p) = 2 => /\ p[2] \in 1..Len(c[p[1]].children) /\ p[2] \in Nat
                              /\ p = <<p[1], p[2]>>
                              /\ ChildAt(c, p) = c[p[1]].children[p[2]]
  <2>1. PICK i \in 1..Len(c) : p = <<i>> \/ \E j \in 1..Len(c[i].children) : p = <<i, j>>
    BY PathsAre
  <2>2. CASE p = <<i>>
    BY <1>1, <2>2
  <2>3. CASE \E j \in 1..Len(c[i].children) : p = <<i, j>>
    <3>1. PICK j \in 1..Len(c[i].children) : p = <<i, j>>
      BY <2>3
    <3> QED BY <1>1, <3>1
  <2> QED BY <2>1, <2>2, <2>3
<1>3. \A i \in 1..Len(c) : /\ <<i>> \in Paths(c)
                          /\ \A j \in 1..Len(c[i].children) : <<i, j>> \in Paths(c)
  BY PathsAre
<1> QED BY <1>1, <1>2, <1>3

LEMMA PathsIn ==
  ASSUME NEW c, Tidy(c), NEW i \in 1..Len(c), NEW j \in 1..Len(c[i].children)
  PROVE  /\ <<i>> \in Paths(c) /\ ChildAt(c, <<i>>) = c[i]
         /\ <<i, j>> \in Paths(c) /\ ChildAt(c, <<i, j>>) = c[i].children[j]
BY ONLY Tidy(c), i \in 1..Len(c), j \in 1..Len(c[i].children), PathsSplit

LEMMA HostPathsSplit ==
  ASSUME NEW c, Tidy(c)
  PROVE  /\ HostPaths(c) \subseteq PathSet /\ HostPaths(c) \subseteq Paths(c)
         /\ \A p \in HostPaths(c) :
              /\ p[1] \in 1..Len(c) /\ NodeAt(c, p) \in ChildNames
              /\ Len(p) # 2 => p = <<p[1]>> /\ Len(p) = 1 /\ IsHost(c[p[1]])
              /\ Len(p) = 2 => /\ p[2] \in 1..Len(c[p[1]].children) /\ p = <<p[1], p[2]>>
                               /\ ~IsHost(c[p[1]]) /\ IsHost(c[p[1]].children[p[2]])
         /\ \A i \in 1..Len(c) :
              /\ IsHost(c[i]) => <<i>> \in HostPaths(c) /\ NodeAt(c, <<i>>) = c[i].instance
              /\ \A j \in 1..Len(c[i].children) : IsHost(c[i].children[j]) =>
                   /\ <<i, j>> \in HostPaths(c)
                   /\ NodeAt(c, <<i, j>>) = c[i].children[j].instance
         /\ \A p, q \in HostPaths(c) : p # q => Precedes(p, q) \/ Precedes(q, p)
<1>1. ASSUME NEW p \in HostPaths(c)
      PROVE  /\ p \in PathSet /\ p \in Paths(c) /\ p[1] \in Nat
             /\ p[1] \in 1..Len(c) /\ NodeAt(c, p) \in ChildNames
             /\ Len(p) # 2 => p = <<p[1]>> /\ Len(p) = 1 /\ IsHost(c[p[1]])
             /\ Len(p) = 2 => /\ p[2] \in 1..Len(c[p[1]].children) /\ p = <<p[1], p[2]>>
                              /\ ~IsHost(c[p[1]]) /\ IsHost(c[p[1]].children[p[2]])
  <2>1. p \in Paths(c) /\ IsHost(ChildAt(c, p))
    BY DEF HostPaths
  <2>2. /\ p \in PathSet /\ p[1] \in 1..Len(c) /\ p[1] \in Nat
        /\ Len(p) # 2 => p = <<p[1]>> /\ Len(p) = 1 /\ ChildAt(c, p) = c[p[1]]
        /\ Len(p) = 2 => /\ p[2] \in 1..Len(c[p[1]].children)
                         /\ p = <<p[1], p[2]>>
                         /\ ChildAt(c, p) = c[p[1]].children[p[2]]
    BY <2>1, PathsSplit
  <2>3. Len(p) = 2 => ~IsHost(c[p[1]])
    BY <2>2 DEF Tidy, IsHost
  <2>4. NodeAt(c, p) \in ChildNames
    BY <2>2, TidyFibers DEF NodeAt
  <2> QED BY <2>1, <2>2, <2>3, <2>4
<1>2. \A i \in 1..Len(c) :
        /\ IsHost(c[i]) => <<i>> \in HostPaths(c) /\ NodeAt(c, <<i>>) = c[i].instance
        /\ \A j \in 1..Len(c[i].children) : IsHost(c[i].children[j]) =>
             /\ <<i, j>> \in HostPaths(c)
             /\ NodeAt(c, <<i, j>>) = c[i].children[j].instance
  <2>1. \A p \in Paths(c) : IsHost(ChildAt(c, p)) => p \in HostPaths(c)
    BY DEF HostPaths
  <2>2. \A p : NodeAt(c, p) = ChildAt(c, p).instance
    BY DEF NodeAt
  <2> TAKE i \in 1..Len(c)
  <2>3. <<i>> \in Paths(c) /\ ChildAt(c, <<i>>) = c[i]
    BY PathsSplit
  <2>4. ASSUME NEW j \in 1..Len(c[i].children), IsHost(c[i].children[j])
        PROVE  /\ <<i, j>> \in HostPaths(c)
               /\ NodeAt(c, <<i, j>>) = c[i].children[j].instance
    <3>1. <<i, j>> \in Paths(c) /\ ChildAt(c, <<i, j>>) = c[i].children[j]
      BY ONLY Tidy(c), i \in 1..Len(c), j \in 1..Len(c[i].children), PathsIn
    <3> QED BY <2>1, <2>2, <2>4, <3>1
  <2> QED BY <2>1, <2>2, <2>3, <2>4
<1>3. ASSUME NEW p \in HostPaths(c), NEW q \in HostPaths(c), p # q
      PROVE  Precedes(p, q) \/ Precedes(q, p)
  <2>1. CASE p[1] # q[1]
    BY <1>1, <2>1 DEF Precedes
  <2>2. CASE p[1] = q[1]
    BY <1>1, <1>3, <2>2, PathIs DEF Precedes
  <2> QED BY <2>1, <2>2
<1> QED BY <1>1, <1>2, <1>3

LEMMA HostsIn ==
  ASSUME NEW c, Tidy(c), NEW i \in 1..Len(c), NEW j \in 1..Len(c[i].children),
         IsHost(c[i].children[j])
  PROVE  <<i, j>> \in HostPaths(c) /\ NodeAt(c, <<i, j>>) = c[i].children[j].instance
<1>1. <<i, j>> \in Paths(c) /\ ChildAt(c, <<i, j>>) = c[i].children[j]
  BY PathsIn
<1> QED BY <1>1 DEF HostPaths, NodeAt

\* The nodes are those of the paths of P, in their order.
ListsNodes(w, nodes, children, P) ==
  /\ Lists(w, P)
  /\ nodes \in Seq(ChildNames) /\ Len(nodes) = Len(w)
  /\ \A k \in 1..Len(w) : nodes[k] = NodeAt(children, w[k])

LEMMA FlattenLists ==
  ASSUME NEW c, NEW s \in Seq(Seq(ChildNames)), NEW r \in Seq(Seq(PathSet)), Len(s) = Len(r),
         NEW Q, NEW P, \A x : x \in P <=> \E i \in 1..Len(r) : x \in Q[i],
         P \subseteq PathSet,
         \A i \in 1..Len(r) : ListsNodes(r[i], s[i], c, Q[i]),
         \A i, m \in 1..Len(r) : i < m => \A p \in Q[i], q \in Q[m] : Precedes(p, q)
  PROVE  ListsNodes(FlattenSeq(r), FlattenSeq(s), c, P)
<1> DEFINE w == FlattenSeq(r)
           nodes == FlattenSeq(s)
<1>1. \A i \in 1..Len(r) :
        /\ Len(r[i]) = Len(s[i])
        /\ r[i] \in Seq(Q[i])
        /\ \A j \in 1..Len(r[i]) : r[i][j] \in Q[i] /\ r[i][j] \in P
        /\ \A j \in 1..Len(r[i]) : s[i][j] = NodeAt(c, r[i][j])
        /\ \A x \in Q[i] : Has(r[i], x)
        /\ \A j, l \in 1..Len(r[i]) : j < l => Precedes(r[i][j], r[i][l])
  <2> TAKE i \in 1..Len(r)
  <2>1. ListsNodes(r[i], s[i], c, Q[i])
    OBVIOUS
  <2>2. /\ r[i] \in Seq(Q[i]) /\ Len(r[i]) = Len(s[i])
        /\ \A j \in 1..Len(r[i]) : s[i][j] = NodeAt(c, r[i][j])
        /\ \A x \in Q[i] : Has(r[i], x)
        /\ \A j, l \in 1..Len(r[i]) : j < l => Precedes(r[i][j], r[i][l])
    BY <2>1 DEF ListsNodes, Lists
  <2>3. \A j \in 1..Len(r[i]) : r[i][j] \in Q[i]
    BY <2>2
  <2> QED BY <2>2, <2>3
<1>2. /\ Len(w) = Len(nodes)
      /\ \A k \in 1..Len(w) : \E i \in 1..Len(r) : \E j \in 1..Len(r[i]) :
           w[k] = r[i][j] /\ nodes[k] = s[i][j]
  <2>1. \A i \in 1..Len(r) : Len(r[i]) = Len(s[i])
    BY <1>1
  <2>2. FlatAlike(w, nodes, r, s)
    BY <2>1, FlattenPair
  <2> QED BY <2>2 DEF FlatAlike
<1>3. w \in Seq(PathSet) /\ nodes \in Seq(ChildNames)
  BY FlattenPlaces
<1>4. \A i \in 1..Len(r) : \A j \in 1..Len(r[i]) : Has(w, r[i][j])
  BY FlattenPlaces
<1>5. \A k, l \in 1..Len(w) : k < l => Precedes(w[k], w[l])
  <2> TAKE k, l \in 1..Len(w)
  <2> HAVE k < l
  <2>1. InOrderOf(w[k], w[l], r)
    BY FlattenOrder
  <2>2. PICK i \in 1..Len(r), m \in 1..Len(r) :
               \E j \in 1..Len(r[i]), n \in 1..Len(r[m]) :
                 /\ w[k] = r[i][j] /\ w[l] = r[m][n]
                 /\ i < m \/ (i = m /\ j < n)
    BY <2>1 DEF InOrderOf
  <2>3. PICK j \in 1..Len(r[i]), n \in 1..Len(r[m]) :
          /\ w[k] = r[i][j] /\ w[l] = r[m][n]
          /\ i < m \/ (i = m /\ j < n)
    BY <2>2
  <2>4. r[i][j] \in Q[i] /\ r[m][n] \in Q[m]
    BY <1>1
  <2> HIDE DEF w, nodes
  <2>5. CASE i < m
    BY <2>3, <2>4, <2>5
  <2>6. CASE i = m /\ j < n
    BY <1>1, <2>3, <2>6
  <2> QED BY <2>3, <2>5, <2>6
<1> HIDE DEF w, nodes
<1>6. \A k \in 1..Len(w) : w[k] \in P /\ nodes[k] = NodeAt(c, w[k])
  <2> TAKE k \in 1..Len(w)
  <2>1. PICK i \in 1..Len(r) : \E j \in 1..Len(r[i]) : w[k] = r[i][j] /\ nodes[k] = s[i][j]
    BY <1>2
  <2>2. PICK j \in 1..Len(r[i]) : w[k] = r[i][j] /\ nodes[k] = s[i][j]
    BY <2>1
  <2> QED BY <1>1, <2>2
<1>7. w \in Seq(P)
  BY <1>3, <1>6
<1>8. \A x \in P : Has(w, x)
  <2> TAKE x \in P
  <2>1. PICK i \in 1..Len(r) : x \in Q[i]
    OBVIOUS
  <2>4. ListsNodes(r[i], s[i], c, Q[i])
    BY <2>1
  <2>2. Has(r[i], x)
    BY <2>1, <2>4 DEF ListsNodes, Lists
  <2>3. PICK j \in 1..Len(r[i]) : r[i][j] = x
    BY <2>2 DEF Has
  <2> QED BY <1>4, <2>3
<1> QED BY <1>2, <1>3, <1>5, <1>6, <1>7, <1>8 DEF ListsNodes, Lists, w, nodes

LEMMA OneListed ==
  ASSUME NEW c, NEW p, NodeAt(c, p) \in ChildNames
  PROVE  ListsNodes(<<p>>, <<NodeAt(c, p)>>, c, {p})
<1>1. /\ <<p>> \in Seq({p}) /\ Len(<<p>>) = 1 /\ <<p>>[1] = p
      /\ <<NodeAt(c, p)>> \in Seq(ChildNames) /\ Len(<<NodeAt(c, p)>>) = 1
      /\ <<NodeAt(c, p)>>[1] = NodeAt(c, p)
  OBVIOUS
<1>2. Has(<<p>>, p)
  BY <1>1 DEF Has
<1>3. \A k \in 1..1 : k = 1
  OBVIOUS
<1> QED BY <1>1, <1>2, <1>3 DEF ListsNodes, Lists

LEMMA NoneListed ==
  ASSUME NEW c
  PROVE  ListsNodes(<<>>, <<>>, c, {})
BY DEF ListsNodes, Lists

\* The nodes of one child, at the top or in a group
Under(children, i) == {p \in HostPaths(children) : p[1] = i}

LEMMA ChildNodes ==
  ASSUME NEW c, Tidy(c), NEW i \in 1..Len(c)
  PROVE  \E w : ListsNodes(w, HostNodes(c[i]), c, Under(c, i))
<1>1. CASE IsHost(c[i])
  <2>1. HostNodes(c[i]) = <<NodeAt(c, <<i>>)>>
    BY <1>1, HostPathsSplit DEF HostNodes
  <2>2. Under(c, i) = {<<i>>}
    BY <1>1, HostPathsSplit DEF Under
  <2>3. NodeAt(c, <<i>>) \in ChildNames
    BY <1>1, HostPathsSplit
  <2> QED BY <2>1, <2>2, <2>3, OneListed
<1>2. CASE ~IsHost(c[i])
  <2> DEFINE subs == c[i].children
             N == Len(subs)
             r == [j \in 1..N |-> IF IsHost(subs[j]) THEN <<<<i, j>>>> ELSE <<>>]
             s == [j \in 1..N |-> IF IsHost(subs[j]) THEN <<subs[j].instance>> ELSE <<>>]
             Q == [j \in 1..N |-> IF IsHost(subs[j]) THEN {<<i, j>>} ELSE {}]
  <2>1. N \in Nat /\ DOMAIN subs = 1..N /\ i \in Nat
    BY TidyFibers
  <2>2. HostNodes(c[i]) = FlattenSeq(s)
    BY <1>2, <2>1 DEF HostNodes
  <2>3. \A j \in 1..N : IsHost(subs[j]) => /\ NodeAt(c, <<i, j>>) = subs[j].instance
                                          /\ NodeAt(c, <<i, j>>) \in ChildNames
                                          /\ <<i, j>> \in HostPaths(c)
                                          /\ <<i, j>> \in PathSet
    <3> TAKE j \in 1..N
    <3> HAVE IsHost(subs[j])
    <3>1. NodeAt(c, <<i, j>>) = subs[j].instance /\ <<i, j>> \in HostPaths(c)
      BY HostsIn
    <3> QED BY <3>1, HostPathsSplit
  <2> HIDE DEF N
  <2>4. r \in Seq(Seq(PathSet)) /\ s \in Seq(Seq(ChildNames)) /\ Len(r) = N /\ Len(s) = N
    <3>1. \A j \in 1..N : r[j] \in Seq(PathSet) /\ s[j] \in Seq(ChildNames)
      <4> TAKE j \in 1..N
      <4>1. CASE IsHost(subs[j])
        BY <2>3, <4>1
      <4>2. CASE ~IsHost(subs[j])
        BY <4>2
      <4> QED BY <4>1, <4>2
    <3>2. DOMAIN r = 1..N /\ DOMAIN s = 1..N /\ r = [j \in 1..N |-> r[j]]
          /\ s = [j \in 1..N |-> s[j]]
      OBVIOUS
    <3> HIDE DEF r, s
    <3>3. r \in [1..N -> Seq(PathSet)]
      BY <3>1, <3>2
    <3>4. s \in [1..N -> Seq(ChildNames)]
      BY <3>1, <3>2
    <3>5. r \in Seq(Seq(PathSet)) /\ Len(r) = N
      BY <2>1, <3>3
    <3>6. s \in Seq(Seq(ChildNames)) /\ Len(s) = N
      BY <2>1, <3>4
    <3> QED BY <3>5, <3>6
  <2>5. \A j \in 1..N : ListsNodes(r[j], s[j], c, Q[j])
    <3> TAKE j \in 1..N
    <3>1. CASE IsHost(subs[j])
      BY <2>3, <3>1, OneListed
    <3>2. CASE ~IsHost(subs[j])
      BY <3>2, NoneListed
    <3> QED BY <3>1, <3>2
  <2>6. \A j, m \in 1..N : j < m => \A p \in Q[j], q \in Q[m] : Precedes(p, q)
    BY <2>1, PathIs DEF Precedes
  <2>7. \A x : x \in Under(c, i) <=> \E j \in 1..N : x \in Q[j]
    <3>1. ASSUME NEW x \in Under(c, i)
          PROVE  \E j \in 1..N : x \in Q[j]
      BY <1>2, HostPathsSplit DEF Under, N
    <3>2. ASSUME NEW j \in 1..N, NEW x \in Q[j]
          PROVE  x \in Under(c, i)
      BY <2>3 DEF Under
    <3> QED BY <3>1, <3>2
  <2>8. Under(c, i) \subseteq PathSet
    BY HostPathsSplit DEF Under
  <2> HIDE DEF r, s, Q
  <2>9. ListsNodes(FlattenSeq(r), FlattenSeq(s), c, Under(c, i))
    BY <2>4, <2>5, <2>6, <2>7, <2>8, FlattenLists
  <2> QED BY <2>2, <2>9
<1> QED BY <1>1, <1>2

Tree(children) == FlattenSeq([i \in DOMAIN children |-> HostNodes(children[i])])

LEMMA TreeIs ==
  ASSUME NEW c, Tidy(c)
  PROVE  \E w : ListsNodes(w, Tree(c), c, HostPaths(c))
<1> DEFINE N == Len(c)
           Q == [i \in 1..N |-> Under(c, i)]
           s == [i \in 1..N |-> HostNodes(c[i])]
           r == [i \in 1..N |-> CHOOSE w : ListsNodes(w, HostNodes(c[i]), c, Under(c, i))]
<1>1. N \in Nat /\ DOMAIN c = 1..N
  BY DEF Tidy
<1>2. \A i \in 1..N : ListsNodes(r[i], s[i], c, Q[i])
  <2> TAKE i \in 1..N
  <2>1. \E w : ListsNodes(w, HostNodes(c[i]), c, Under(c, i))
    BY ChildNodes
  <2> QED BY <2>1
<1>3. \A i \in 1..N : Q[i] \subseteq PathSet
  BY HostPathsSplit DEF Under
<1>4. \A x : x \in HostPaths(c) <=> \E i \in 1..N : x \in Q[i]
  BY HostPathsSplit DEF Under
<1>5. \A i, m \in 1..N : i < m => \A p \in Q[i], q \in Q[m] : Precedes(p, q)
  BY DEF Under, Precedes
<1>6. s \in Seq(Seq(ChildNames)) /\ r \in Seq(Seq(PathSet)) /\ Len(s) = N /\ Len(r) = N
  <2>1. \A i \in 1..N : s[i] \in Seq(ChildNames) /\ r[i] \in Seq(PathSet)
    <3> TAKE i \in 1..N
    <3> HIDE DEF r, s, Q
    <3>1. s[i] \in Seq(ChildNames) /\ r[i] \in Seq(Q[i]) /\ Q[i] \subseteq PathSet
      BY <1>2, <1>3 DEF ListsNodes, Lists
    <3> QED BY <3>1
  <2> HIDE DEF N
  <2> QED BY <1>1, <2>1
<1>7. Tree(c) = FlattenSeq(s)
  BY <1>1 DEF Tree
<1>8. HostPaths(c) \subseteq PathSet
  BY HostPathsSplit
<1> HIDE DEF N, Q, s, r
<1>9. ListsNodes(FlattenSeq(r), FlattenSeq(s), c, HostPaths(c))
  BY <1>2, <1>4, <1>5, <1>6, <1>8, FlattenLists
<1> QED BY <1>7, <1>9

\* The host nodes that move with the child at path
Moving(children, path) ==
  {p \in HostPaths(children) : p[1] = path[1] /\ (Len(path) = 2 => p = path)}

LEMMA NodesUnder ==
  ASSUME NEW c, Tidy(c), NEW path \in Paths(c)
  PROVE  \E w : ListsNodes(w, HostNodes(ChildAt(c, path)), c, Moving(c, path))
<1>1. CASE Len(path) = 2
  <2> DEFINE i == path[1]
             j == path[2]
  <2>1. i \in 1..Len(c) /\ j \in 1..Len(c[i].children) /\ path = <<i, j>>
        /\ ChildAt(c, path) = c[i].children[j]
    BY <1>1, PathsSplit
  <2> HIDE DEF i, j
  <2>2. CASE IsHost(c[i].children[j])
    <3>1. path \in HostPaths(c) /\ NodeAt(c, path) = c[i].children[j].instance
      BY <2>1, <2>2, HostsIn
    <3>2. HostNodes(ChildAt(c, path)) = <<NodeAt(c, path)>>
      BY <2>1, <2>2, <3>1 DEF HostNodes
    <3>3. Moving(c, path) = {path}
      BY <1>1, <3>1 DEF Moving
    <3>4. NodeAt(c, path) \in ChildNames
      BY <3>1, HostPathsSplit
    <3> QED BY <3>2, <3>3, <3>4, OneListed
  <2>3. CASE ~IsHost(c[i].children[j])
    <3>1. path \notin HostPaths(c)
      BY <2>1, <2>3 DEF HostPaths
    <3>2. Moving(c, path) = {}
      BY <1>1, <3>1 DEF Moving
    <3>3. c[i].children[j].children = <<>>
      BY <2>1, TidyFibers
    <3>4. HostNodes(ChildAt(c, path)) = <<>>
      <4> DEFINE fiber == c[i].children[j]
                 pieces == [k \in DOMAIN fiber.children |->
                   IF IsHost(fiber.children[k]) THEN <<fiber.children[k].instance>> ELSE <<>>]
      <4>1. HostNodes(fiber) = FlattenSeq(pieces)
        BY <2>3 DEF HostNodes
      <4>2. pieces = <<>>
        BY <3>3
      <4>3. FlattenSeq(<<>>) = <<>>
        <5>1. <<>> \in Seq(Seq(ChildNames)) /\ Len(<<>>) = 0
          OBVIOUS
        <5>2. FlattenSeq(<<>>) \in Seq(ChildNames) /\ Len(FlattenSeq(<<>>)) = 0
          BY <5>1, FlattenPlaces
        <5> QED BY <5>2
      <4> QED BY <2>1, <4>1, <4>2, <4>3
    <3> QED BY <3>2, <3>4, NoneListed
  <2> QED BY <2>2, <2>3
<1>2. CASE Len(path) # 2
  <2>1. path[1] \in 1..Len(c) /\ ChildAt(c, path) = c[path[1]]
    BY <1>2, PathsSplit
  <2>2. Moving(c, path) = Under(c, path[1])
    BY <1>2 DEF Moving, Under
  <2> QED BY <2>1, <2>2, ChildNodes
<1> QED BY <1>1, <1>2

UniqueNodes(children) ==
  \A p, q \in HostPaths(children) : NodeAt(children, p) = NodeAt(children, q) => p = q

IsListed(children, P, nodes) ==
  /\ nodes \in Seq(ChildNames) /\ Distinct(nodes)
  /\ \A p \in P : Has(nodes, NodeAt(children, p))
  /\ \A x : Has(nodes, x) => \E p \in P : x = NodeAt(children, p)
  /\ \A p, q \in P :
       Precedes(p, q) <=> Before(nodes, NodeAt(children, p), NodeAt(children, q))

LEMMA Listed ==
  ASSUME NEW c, Tidy(c), UniqueNodes(c), NEW P \in SUBSET HostPaths(c),
         NEW w, NEW nodes, ListsNodes(w, nodes, c, P)
  PROVE  IsListed(c, P, nodes)
<1>1. /\ w \in Seq(P) /\ nodes \in Seq(ChildNames)
      /\ Len(w) \in Nat /\ Len(nodes) = Len(w)
      /\ \A k \in 1..Len(w) : nodes[k] = NodeAt(c, w[k])
      /\ \A p \in P : Has(w, p)
      /\ \A k, l \in 1..Len(w) : k < l => Precedes(w[k], w[l])
  BY DEF ListsNodes, Lists
<1>2. \A k \in 1..Len(w) : w[k] \in P /\ w[k] \in PathSet /\ w[k] \in HostPaths(c)
  BY <1>1, HostPathsSplit
<1>3. \A k, l \in 1..Len(w) : k < l => w[k] # w[l] /\ ~Precedes(w[l], w[k])
  BY <1>1, <1>2, PrecedesIs
<1>4. \A k, l \in 1..Len(w) : k # l => w[k] # w[l]
  BY <1>1, <1>3
<1>5. Distinct(nodes)
  BY <1>1, <1>2, <1>4 DEF Distinct, UniqueNodes
<1>6. \A p \in P : \E k \in 1..Len(w) : w[k] = p /\ nodes[k] = NodeAt(c, p)
  BY <1>1 DEF Has
<1>7. \A p \in P : Has(nodes, NodeAt(c, p))
  BY <1>1, <1>6 DEF Has
<1>8. \A x : Has(nodes, x) => \E p \in P : x = NodeAt(c, p)
  BY <1>1, <1>2 DEF Has
<1>9. \A p, q \in P : Precedes(p, q) => Before(nodes, NodeAt(c, p), NodeAt(c, q))
  <2> TAKE p, q \in P
  <2> HAVE Precedes(p, q)
  <2>1. PICK k \in 1..Len(w) : w[k] = p /\ nodes[k] = NodeAt(c, p)
    BY <1>6
  <2>2. PICK l \in 1..Len(w) : w[l] = q /\ nodes[l] = NodeAt(c, q)
    BY <1>6
  <2>3. p # q /\ ~Precedes(q, p)
    BY HostPathsSplit, PrecedesIs
  <2>4. k < l
    BY <1>1, <2>1, <2>2, <2>3
  <2> QED BY <1>1, <2>1, <2>2, <2>4 DEF Before
<1>10. \A p, q \in P : Before(nodes, NodeAt(c, p), NodeAt(c, q)) => Precedes(p, q)
  <2> TAKE p, q \in P
  <2> HAVE Before(nodes, NodeAt(c, p), NodeAt(c, q))
  <2>1. PICK k, l \in 1..Len(nodes) :
               k < l /\ nodes[k] = NodeAt(c, p) /\ nodes[l] = NodeAt(c, q)
    BY DEF Before
  <2>2. w[k] = p /\ w[l] = q
    BY <1>1, <1>2, <2>1 DEF UniqueNodes
  <2> QED BY <1>1, <2>1, <2>2
<1> QED BY <1>1, <1>5, <1>7, <1>8, <1>9, <1>10 DEF IsListed

-----------------------------------------------------------------------------
(* getHostSibling                                                            *)

\* A host node that comes after path and stays
Follows(children, path, p) ==
  /\ p \in HostPaths(children) /\ Precedes(path, p)
  /\ ~ChildAt(children, p).placement
  /\ Len(p) = 2 /\ p[1] # path[1] => ~children[p[1]].placement

FirstToFollow(children, path, p) ==
  /\ Follows(children, path, p)
  /\ \A q : Follows(children, path, q) => q = p \/ Precedes(p, q)

LEMMA HostSiblingIs ==
  ASSUME NEW c, Tidy(c), NEW path \in Paths(c), NEW before, before = HostSibling(c, path)
  PROVE  \/ before = <<>> /\ \A p : ~Follows(c, path, p)
         \/ \E b : before = NodeAt(c, b) /\ FirstToFollow(c, path, b)
<1> DEFINE found == {p \in HostPaths(c) : Follows(c, path, p)}
           b == CHOOSE p \in found : \A q \in found : ~Precedes(q, p)
<1>1. before = IF found = {} THEN <<>> ELSE NodeAt(c, b)
  <2> DEFINE Stable(p) ==
               /\ ~ChildAt(c, p).placement
               /\ Len(p) = 2 /\ p[1] # path[1] => ~c[p[1]].placement
             all == {p \in Paths(c) : IsHost(ChildAt(c, p)) /\ Precedes(path, p) /\ Stable(p)}
  <2>1. before = IF all = {} THEN <<>>
                 ELSE ChildAt(c, CHOOSE p \in all : \A q \in all : ~Precedes(q, p)).instance
    BY DEF HostSibling
  <2>2. all = found
    BY DEF HostPaths, Follows
  <2> HIDE DEF all, found
  <2> QED BY <2>1, <2>2 DEF NodeAt
<1>2. \A p \in found : p[1] \in Nat /\ (Len(p) = 2 => p[2] \in Nat) /\ p \in HostPaths(c)
                       /\ Len(p) \in {1, 2}
  BY HostPathsSplit, PathIs
<1>3. CASE found = {}
  BY <1>1, <1>3 DEF Follows
<1>4. CASE found # {}
  <2>1. \E p \in found : \A q \in found : ~Precedes(q, p)
    <3> HIDE DEF found
    <3>1. PICK i \in {p[1] : p \in found} : \A m \in {p[1] : p \in found} : i <= m
      <4>1. {p[1] : p \in found} \subseteq Nat /\ {p[1] : p \in found} # {}
        BY <1>2, <1>4
      <4> QED BY ONLY <4>1, LeastElement
    <3>2. PICK p \in found : p[1] = i
      BY <3>1
    <3>3. \A q \in found : ~(q[1] < p[1])
      BY <1>2, <3>1, <3>2
    <3>4. CASE Len(p) # 2
      BY <3>3, <3>4 DEF Precedes
    <3>5. CASE Len(p) = 2
      <4> DEFINE same == {q \in found : q[1] = i /\ Len(q) = 2}
                 places == {q[2] : q \in same}
      <4>1. places \subseteq Nat /\ places # {}
        BY <1>2, <3>2, <3>5
      <4>2. PICK j \in places : \A m \in places : j <= m
        <5> HIDE DEF places
        <5> QED BY ONLY <4>1, LeastElement
      <4>3. PICK o \in same : o[2] = j
        BY <4>2
      <4>4. \A q \in found : ~Precedes(q, o)
        BY <1>2, <3>2, <3>3, <4>1, <4>2, <4>3 DEF Precedes
      <4> QED BY <4>3, <4>4
    <3> QED BY <3>4, <3>5
  <2>2. b \in found /\ \A q \in found : ~Precedes(q, b)
    BY <2>1
  <2>3. before = NodeAt(c, b)
    BY <1>1, <1>4
  <2> HIDE DEF b
  <2>4. \A q : Follows(c, path, q) => q \in found /\ q \in HostPaths(c)
    BY DEF Follows
  <2>5. b \in HostPaths(c) /\ Follows(c, path, b)
    BY <2>2
  <2>6. \A q : Follows(c, path, q) => q = b \/ Precedes(b, q)
    BY <2>2, <2>4, <2>5, HostPathsSplit
  <2> QED BY <2>3, <2>5, <2>6 DEF FirstToFollow
<1> QED BY <1>3, <1>4

-----------------------------------------------------------------------------
(* Placements that are cleared                                               *)

SameButPlacement(new, old) ==
  /\ new.key = old.key /\ new.type = old.type /\ new.index = old.index
  /\ new.instance = old.instance /\ new.reused = old.reused
  /\ new.props = old.props /\ new.deletions = old.deletions

\* The children but for their placements
Alike(new, old) ==
  /\ new \in Seq(TopFibers) /\ Len(new) = Len(old)
  /\ \A i \in 1..Len(old) :
       /\ SameButPlacement(new[i], old[i])
       /\ Len(new[i].children) = Len(old[i].children)
       /\ \A j \in 1..Len(old[i].children) :
            SameButPlacement(new[i].children[j], old[i].children[j])

Flag(children, p) == ChildAt(children, p).placement

\* Only the placement at path is cleared.
Cleared(new, old, path) ==
  /\ Alike(new, old)
  /\ \A p \in Paths(old) : Flag(new, p) <=> Flag(old, p) /\ p # path

\* CommitPlacement's children
ClearAt(children, path) ==
  IF Len(path) = 1 THEN [children EXCEPT ![path[1]].placement = FALSE]
  ELSE [children EXCEPT ![path[1]].children[path[2]].placement = FALSE]

LEMMA AlikeItself ==
  ASSUME NEW c, Tidy(c)
  PROVE  Alike(c, c)
BY DEF Tidy, Alike, SameButPlacement

LEMMA AlikeThrough ==
  ASSUME NEW a, NEW b, NEW c, Alike(a, b), Alike(b, c)
  PROVE  Alike(a, c)
<1>1. a \in Seq(TopFibers) /\ Len(a) = Len(c) /\ Len(b) = Len(c)
  BY DEF Alike
<1>2. ASSUME NEW i \in 1..Len(c)
      PROVE  /\ SameButPlacement(a[i], c[i])
             /\ Len(a[i].children) = Len(c[i].children)
             /\ \A j \in 1..Len(c[i].children) :
                  SameButPlacement(a[i].children[j], c[i].children[j])
  BY <1>1 DEF Alike, SameButPlacement
<1> QED BY <1>1, <1>2 DEF Alike

LEMMA AlikeIs ==
  ASSUME NEW old, Tidy(old), NEW new, Alike(new, old)
  PROVE  /\ Tidy(new) /\ Len(new) = Len(old)
         /\ Paths(new) = Paths(old) /\ HostPaths(new) = HostPaths(old)
         /\ \A p \in Paths(old) : NodeAt(new, p) = NodeAt(old, p)
         /\ \A i \in 1..Len(old) : /\ new[i].reused = old[i].reused
                                   /\ new[i].deletions = old[i].deletions
                                   /\ Len(new[i].children) = Len(old[i].children)
<1>1. /\ new \in Seq(TopFibers) /\ Len(new) = Len(old)
      /\ \A i \in 1..Len(old) :
           /\ SameButPlacement(new[i], old[i])
           /\ Len(new[i].children) = Len(old[i].children)
           /\ \A j \in 1..Len(old[i].children) :
                SameButPlacement(new[i].children[j], old[i].children[j])
  BY DEF Alike
<1>2. ASSUME NEW i \in 1..Len(new)
      PROVE  /\ new[i].type # "group" => new[i].children = <<>>
             /\ \A j \in 1..Len(new[i].children) : new[i].children[j].type # "group"
  <2>0. i \in 1..Len(old) /\ Len(<<>>) = 0
    BY <1>1
  <2>1. /\ old[i].type # "group" => old[i].children = <<>>
        /\ \A j \in 1..Len(old[i].children) : old[i].children[j].type # "group"
    BY <2>0 DEF Tidy
  <2>2. new[i] \in TopFibers
    BY <1>1
  <2>3. new[i].children \in Seq(LeafFibers)
    BY <2>2 DEF TopFibers, FibersOver
  <2>4. old[i].type # "group" => Len(new[i].children) = 0
    BY <1>1, <2>0, <2>1
  <2>5. new[i].type = old[i].type
    BY <1>1, <2>0 DEF SameButPlacement
  <2>6. ASSUME NEW j \in 1..Len(new[i].children)
        PROVE  new[i].children[j].type # "group"
    BY <1>1, <2>0, <2>1 DEF SameButPlacement
  <2> QED BY <2>3, <2>4, <2>5, <2>6
<1>3. Tidy(new)
  BY <1>1, <1>2 DEF Tidy
<1>4. Paths(new) = Paths(old)
  <2>1. \A p : p \in Paths(old) <=>
          \E i \in 1..Len(old) : p = <<i>> \/ \E j \in 1..Len(old[i].children) : p = <<i, j>>
    BY PathsAre
  <2>2. \A p : p \in Paths(new) <=>
          \E i \in 1..Len(new) : p = <<i>> \/ \E j \in 1..Len(new[i].children) : p = <<i, j>>
    BY <1>3, PathsAre
  <2> QED BY <1>1, <2>1, <2>2
<1>5. ASSUME NEW p \in Paths(old)
      PROVE  /\ NodeAt(new, p) = NodeAt(old, p)
             /\ IsHost(ChildAt(new, p)) <=> IsHost(ChildAt(old, p))
  <2>1. SameButPlacement(ChildAt(new, p), ChildAt(old, p))
    <3>1. CASE Len(p) = 2
      BY <1>1, <3>1, PathsSplit DEF ChildAt
    <3>2. CASE Len(p) # 2
      BY <1>1, <3>2, PathsSplit DEF ChildAt
    <3> QED BY <3>1, <3>2
  <2> QED BY <2>1 DEF SameButPlacement, NodeAt, IsHost
<1>6. HostPaths(new) = HostPaths(old)
  BY <1>4, <1>5 DEF HostPaths
<1>7. \A i \in 1..Len(old) : /\ new[i].reused = old[i].reused
                             /\ new[i].deletions = old[i].deletions
                             /\ Len(new[i].children) = Len(old[i].children)
  BY <1>1 DEF SameButPlacement
<1> QED BY <1>1, <1>3, <1>4, <1>5, <1>6, <1>7

LEMMA ClearIs ==
  ASSUME NEW old, Tidy(old), NEW path \in Paths(old), NEW new, new = ClearAt(old, path)
  PROVE  Cleared(new, old, path)
<1> DEFINE i == path[1]
           j == path[2]
<1>0. /\ path \in PathSet /\ i \in 1..Len(old) /\ old \in Seq(TopFibers) /\ Len(old) \in Nat
      /\ DOMAIN old = 1..Len(old)
  BY PathsSplit DEF Tidy
<1>1. \A k \in 1..Len(old) :
        /\ old[k] \in TopFibers
        /\ old[k].children \in Seq(LeafFibers)
        /\ \A m \in 1..Len(old[k].children) : old[k].children[m] \in LeafFibers
  BY TidyFibers
<1>2. CASE Len(path) = 1
  <2>1. path = <<i>>
    BY <1>2, PathsSplit
  <2> DEFINE top == [old[i] EXCEPT !.placement = FALSE]
  <2>2. new = [old EXCEPT ![i] = top]
    BY <1>2 DEF ClearAt
  <2>3. /\ top \in TopFibers /\ SameButPlacement(top, old[i])
        /\ top.children = old[i].children /\ top.placement = FALSE
    BY <1>0, <1>1 DEF TopFibers, FibersOver, SameButPlacement
  <2> HIDE DEF top, i
  <2>4. /\ new \in Seq(TopFibers) /\ Len(new) = Len(old) /\ new[i] = top
        /\ \A k \in 1..Len(old) : k # i => new[k] = old[k]
    BY <1>0, <2>2, <2>3
  <2>5. Alike(new, old)
    BY <2>3, <2>4 DEF Alike, SameButPlacement
  <2>6. ASSUME NEW p \in Paths(old)
        PROVE  Flag(new, p) <=> Flag(old, p) /\ p # path
    <3>1. /\ p[1] \in 1..Len(old)
          /\ Len(p) # 2 => p = <<p[1]>> /\ Len(p) = 1 /\ ChildAt(old, p) = old[p[1]]
                           /\ ChildAt(new, p) = new[p[1]]
          /\ Len(p) = 2 => /\ p[2] \in 1..Len(old[p[1]].children)
                           /\ ChildAt(old, p) = old[p[1]].children[p[2]]
                           /\ ChildAt(new, p) = new[p[1]].children[p[2]]
      BY PathsSplit DEF ChildAt
    <3>2. Len(p) = 2 => p # path /\ ChildAt(new, p) = ChildAt(old, p)
      <4>1. new[p[1]].children = old[p[1]].children
        BY <2>3, <2>4, <3>1
      <4>2. Len(p) = 2 => ChildAt(new, p) = ChildAt(old, p)
        BY <3>1, <4>1
      <4>3. Len(p) = 2 => p # path
        BY <1>2
      <4> QED BY <4>2, <4>3
    <3>3. Len(p) # 2 /\ p[1] # i => p # path /\ ChildAt(new, p) = ChildAt(old, p)
      BY <2>4, <3>1 DEF i
    <3>4. Len(p) # 2 /\ p[1] = i => p = path /\ ChildAt(new, p) = top
      BY <2>1, <2>4, <3>1
    <3> QED BY <2>3, <3>2, <3>3, <3>4 DEF Flag
  <2> QED BY <2>5, <2>6 DEF Cleared
<1>3. CASE Len(path) # 1
  <2>1. Len(path) = 2 /\ path = <<i, j>> /\ j \in 1..Len(old[i].children)
    BY <1>0, <1>3, PathsSplit
  <2> DEFINE leaf == [old[i].children[j] EXCEPT !.placement = FALSE]
             leaves == [old[i].children EXCEPT ![j] = leaf]
             top == [old[i] EXCEPT !.children = leaves]
  <2>2. new = [old EXCEPT ![i] = top]
    BY <1>3 DEF ClearAt
  <2>3. /\ leaf \in LeafFibers /\ SameButPlacement(leaf, old[i].children[j])
        /\ leaf.placement = FALSE
    BY ZenonT(30), <1>0, <1>1, <2>1 DEF LeafFibers, FibersOver, SameButPlacement
  <2> HIDE DEF leaf, i, j
  <2>4. /\ leaves \in Seq(LeafFibers) /\ Len(leaves) = Len(old[i].children)
        /\ leaves[j] = leaf
        /\ \A m \in 1..Len(old[i].children) : m # j => leaves[m] = old[i].children[m]
    BY <1>0, <1>1, <2>1, <2>3
  <2> HIDE DEF leaves
  <2>5. /\ top \in TopFibers /\ SameButPlacement(top, old[i])
        /\ top.children = leaves /\ top.placement = old[i].placement
    BY <1>0, <1>1, <2>4 DEF TopFibers, FibersOver, SameButPlacement
  <2> HIDE DEF top
  <2>6. /\ new \in Seq(TopFibers) /\ Len(new) = Len(old) /\ new[i] = top
        /\ \A k \in 1..Len(old) : k # i => new[k] = old[k]
    BY <1>0, <2>2, <2>5
  <2>7. Alike(new, old)
    <3> SUFFICES ASSUME NEW k \in 1..Len(old)
                 PROVE  /\ SameButPlacement(new[k], old[k])
                        /\ Len(new[k].children) = Len(old[k].children)
                        /\ \A m \in 1..Len(old[k].children) :
                             SameButPlacement(new[k].children[m], old[k].children[m])
      BY <2>6 DEF Alike
    <3>1. CASE k # i
      BY <2>6, <3>1 DEF SameButPlacement
    <3>2. CASE k = i
      <4>1. \A m \in 1..Len(old[k].children) :
              SameButPlacement(leaves[m], old[k].children[m])
        <5> TAKE m \in 1..Len(old[k].children)
        <5>1. CASE m = j
          BY <2>3, <2>4, <3>2, <5>1
        <5>2. CASE m # j
          BY <2>4, <3>2, <5>2 DEF SameButPlacement
        <5> QED BY <5>1, <5>2
      <4> QED BY <2>4, <2>5, <2>6, <3>2, <4>1
    <3> QED BY <3>1, <3>2
  <2>8. ASSUME NEW p \in Paths(old)
        PROVE  Flag(new, p) <=> Flag(old, p) /\ p # path
    <3>1. /\ p[1] \in 1..Len(old)
          /\ Len(p) # 2 => p = <<p[1]>> /\ Len(p) = 1 /\ ChildAt(old, p) = old[p[1]]
                           /\ ChildAt(new, p) = new[p[1]]
          /\ Len(p) = 2 => /\ p[2] \in 1..Len(old[p[1]].children)
                           /\ p = <<p[1], p[2]>>
                           /\ ChildAt(old, p) = old[p[1]].children[p[2]]
                           /\ ChildAt(new, p) = new[p[1]].children[p[2]]
      BY PathsSplit DEF ChildAt
    <3>2. Len(p) # 2 => p # path /\ (Flag(new, p) <=> Flag(old, p))
      BY <2>1, <2>5, <2>6, <3>1 DEF Flag
    <3>3. Len(p) = 2 /\ p[1] # i => p # path /\ (Flag(new, p) <=> Flag(old, p))
      BY <2>6, <3>1 DEF Flag, i
    <3>4. Len(p) = 2 /\ p[1] = i /\ p[2] # j => p # path /\ (Flag(new, p) <=> Flag(old, p))
      BY <2>4, <2>5, <2>6, <3>1 DEF Flag, j
    <3>5. Len(p) = 2 /\ p[1] = i /\ p[2] = j => p = path /\ ~Flag(new, p)
      BY <2>1, <2>3, <2>4, <2>5, <2>6, <3>1 DEF Flag
    <3> QED BY <3>2, <3>3, <3>4, <3>5
  <2> QED BY <2>7, <2>8 DEF Cleared
<1> QED BY <1>2, <1>3

-----------------------------------------------------------------------------
(* How far the host is                                                       *)

\* A tree to commit: its nodes differ, and nothing is placed in a new group.
Ready(children) ==
  /\ Tidy(children) /\ UniqueNodes(children)
  /\ \A p \in HostPaths(children) : NodeAt(children, p) # <<>>
  /\ \A i \in 1..Len(children) : \A j \in 1..Len(children[i].children) :
       ~children[i].reused => ~Flag(children, <<i, j>>)

\* A host node that is in its place among those that are
Settled(children, p) ==
  ~Flag(children, p) /\ (Len(p) = 2 => ~Flag(children, <<p[1]>>))

\* A host node that is a child of the host parent, be it in a group that is yet to move
Present(children, p) ==
  /\ ~Flag(children, p)
  /\ Len(p) = 2 /\ Flag(children, <<p[1]>>) => children[p[1]].reused

\* How far the host is; gone are the nodes of deletions still to come.
Tracks(host, children, gone) ==
  /\ host \in Seq(ChildNames) /\ Distinct(host)
  /\ \A x : Has(host, x) => x \in gone \/ \E p \in HostPaths(children) : x = NodeAt(children, p)
  /\ \A p \in HostPaths(children) : Present(children, p) => Has(host, NodeAt(children, p))
  /\ \A p, q \in HostPaths(children) :
       Settled(children, p) /\ Settled(children, q) /\ Precedes(p, q) =>
         Before(host, NodeAt(children, p), NodeAt(children, q))

LEMMA ClearKeepsReady ==
  ASSUME NEW old, Ready(old), NEW path \in Paths(old), NEW new, Cleared(new, old, path)
  PROVE  Ready(new)
<1>1. /\ Tidy(new) /\ Len(new) = Len(old)
      /\ Paths(new) = Paths(old) /\ HostPaths(new) = HostPaths(old)
      /\ \A p \in Paths(old) : NodeAt(new, p) = NodeAt(old, p)
      /\ \A i \in 1..Len(old) : /\ new[i].reused = old[i].reused
                                /\ Len(new[i].children) = Len(old[i].children)
  BY AlikeIs DEF Ready, Cleared
<1>2. \A p \in HostPaths(old) : p \in Paths(old)
  BY DEF HostPaths
<1>3. UniqueNodes(new) /\ \A p \in HostPaths(new) : NodeAt(new, p) # <<>>
  BY <1>1, <1>2 DEF UniqueNodes, Ready
<1>4. ASSUME NEW i \in 1..Len(new), NEW j \in 1..Len(new[i].children), ~new[i].reused
      PROVE  ~Flag(new, <<i, j>>)
  BY <1>1, <1>4, PathsIn DEF Ready, Cleared
<1> QED BY <1>1, <1>3, <1>4 DEF Ready

\* A node that follows a placed child is in the host; outside the child's group, or once
\* that is in its place, it is in its place too.
LEMMA FollowersAre ==
  ASSUME NEW c, Ready(c), NEW path \in Paths(c), Flag(c, path),
         NEW b, Follows(c, path, b)
  PROVE  /\ b \in HostPaths(c) /\ Present(c, b)
         /\ b \notin Moving(c, path)
         /\ (Len(path) = 2 /\ Flag(c, <<path[1]>>)) \/ Settled(c, b)
<1>0. Tidy(c)
  BY DEF Ready
<1>1. /\ b \in HostPaths(c) /\ b \in PathSet /\ path \in PathSet
      /\ Precedes(path, b) /\ ~Flag(c, b) /\ b[1] \in 1..Len(c)
      /\ Len(b) = 2 /\ b[1] # path[1] => ~Flag(c, <<b[1]>>)
  BY <1>0, HostPathsSplit, PathsSplit DEF Follows, Flag
<1>2. path # b
  BY <1>1, PrecedesIs
<1>3. /\ path[1] \in 1..Len(c) /\ path[1] \in Nat /\ b[1] \in Nat
      /\ Len(path) = 2 => path[2] \in 1..Len(c[path[1]].children) /\ path = <<path[1], path[2]>>
  BY <1>0, <1>1, PathsSplit
<1>4. CASE b[1] # path[1]
  BY <1>1, <1>4 DEF Moving, Settled, Present
<1>5. CASE b[1] = path[1]
  BY <1>1, <1>2, <1>3, <1>5 DEF Precedes, Ready, Moving, Settled, Present
<1> QED BY <1>4, <1>5

LEMMA MoveKeeps ==
  ASSUME NEW c, Ready(c), NEW path \in Paths(c), Flag(c, path),
         Len(path) = 1 => \A j \in 1..Len(c[path[1]].children) : ~Flag(c, <<path[1], j>>),
         NEW new, Cleared(new, c, path),
         NEW host, NEW gone, Tracks(host, c, gone),
         NEW t, t = InsertBefore(host, HostNodes(ChildAt(c, path)), HostSibling(c, path))
  PROVE  Tracks(t, new, gone)
<1> DEFINE nodes == HostNodes(ChildAt(c, path))
           before == HostSibling(c, path)
           U == Moving(c, path)
           H == HostPaths(c)
           N(p) == NodeAt(c, p)
<1>1. Tidy(c) /\ UniqueNodes(c) /\ \A p \in H : N(p) # <<>>
  BY DEF Ready
<1>2. PICK w : ListsNodes(w, nodes, c, U)
  BY <1>1, NodesUnder
<1>3. /\ nodes \in Seq(ChildNames) /\ Distinct(nodes)
      /\ \A p \in U : Has(nodes, N(p))
      /\ \A x : Has(nodes, x) => \E p \in U : x = N(p)
      /\ \A p, q \in U : Precedes(p, q) => Before(nodes, N(p), N(q))
  <2>1. U \in SUBSET H
    BY DEF Moving
  <2> HIDE DEF nodes, U
  <2>2. IsListed(c, U, nodes)
    BY <1>1, <1>2, <2>1, Listed
  <2> QED BY <2>2 DEF IsListed
<1>4. \/ before = <<>> /\ \A p : ~Follows(c, path, p)
      \/ \E b : before = N(b) /\ FirstToFollow(c, path, b)
  BY <1>1, HostSiblingIs
<1>5. host \in Seq(ChildNames) /\ Distinct(host)
  BY DEF Tracks
<1>6. t = InsertBefore(host, nodes, before)
  OBVIOUS
<1>7. \A p \in U : p \in H
  BY DEF Moving
<1>7a. \A p, q \in H : N(p) = N(q) => p = q
  BY <1>1 DEF UniqueNodes
<1> HIDE DEF nodes, before
<1>8. \A p \in H : Has(nodes, N(p)) <=> p \in U
  <2> HIDE DEF U, H, N
  <2> QED BY <1>3, <1>7, <1>7a
<1>9. before # <<>> => Has(host, before) /\ ~Has(nodes, before)
  BY <1>4, <1>8, FollowersAre DEF FirstToFollow, Tracks
<1>10. t \in Seq(ChildNames) /\ Inserted(t, host, nodes, before)
  BY <1>3, <1>5, <1>6, <1>9, InsertIs
<1>11. /\ HostPaths(new) = H
       /\ \A p \in H : NodeAt(new, p) = N(p) /\ p \in Paths(c)
       /\ \A i \in 1..Len(c) : new[i].reused = c[i].reused
       /\ \A p \in Paths(c) : Flag(new, p) <=> Flag(c, p) /\ p # path
  BY <1>1, AlikeIs DEF Cleared, HostPaths
<1>12. \A p \in H : /\ p[1] \in 1..Len(c) /\ <<p[1]>> \in Paths(c) /\ p[1] \in Nat
                    /\ p \in PathSet
                    /\ Len(p) # 2 => p = <<p[1]>> /\ Len(p) = 1
                    /\ Len(p) = 2 => p[2] \in Nat /\ p = <<p[1], p[2]>>
  <2> TAKE p \in H
  <2>1. p \in Paths(c)
    BY <1>11
  <2> QED BY <1>1, <2>1, PathsSplit
<1>13. /\ path \in PathSet /\ path[1] \in 1..Len(c) /\ path[1] \in Nat
       /\ Len(path) # 2 => path = <<path[1]>> /\ Len(path) = 1
       /\ Len(path) = 2 => path = <<path[1], path[2]>> /\ path[2] \in Nat
  BY <1>1, PathsSplit
\* What does not move is settled only if it was.
<1>14. \A p \in H : p \notin U => /\ Settled(new, p) => Settled(c, p)
                                  /\ Present(new, p) => Present(c, p)
  <2> TAKE p \in H
  <2> HAVE p \notin U
  <2>1. p # path
    BY DEF Moving
  <2>2. Len(p) = 2 => <<p[1]>> # path
    BY DEF Moving
  <2>3. /\ Flag(new, p) <=> Flag(c, p)
        /\ Len(p) = 2 => (Flag(new, <<p[1]>>) <=> Flag(c, <<p[1]>>))
        /\ new[p[1]].reused = c[p[1]].reused
    BY <1>11, <1>12, <2>1, <2>2
  <2> QED BY <2>3 DEF Settled, Present
\* What moves and is settled then was moved with its group, if it is in one.
<1>15. \A p \in U : Settled(new, p) => ~(Len(path) = 2 /\ Flag(c, <<path[1]>>))
  BY <1>7, <1>11, <1>12 DEF Moving, Settled
<1>16. \A p \in U, q \in H : q \notin U =>
         /\ Precedes(p, q) => Precedes(path, q)
         /\ \A b \in H : Precedes(q, p) /\ Precedes(path, b) => Precedes(q, b)
  <2> TAKE p \in U, q \in H
  <2> HAVE q \notin U
  <2>1. p \in H /\ p[1] = path[1] /\ (Len(path) = 2 => p = path)
    BY DEF Moving
  <2>2. Len(path) # 2 => q[1] # path[1]
    BY DEF Moving
  <2>3. Precedes(p, q) => Precedes(path, q)
    BY <2>1, <2>2 DEF Precedes
  <2>4. ASSUME NEW b \in H, Precedes(q, p), Precedes(path, b)
        PROVE  Precedes(q, b)
    <3>1. CASE Len(path) = 2
      BY <1>12, <1>13, <2>1, <2>4, <3>1, PrecedesThrough
    <3>2. CASE Len(path) # 2
      <4>1. q[1] < path[1] /\ path[1] < b[1]
        BY <2>1, <2>2, <2>4, <3>2 DEF Precedes
      <4>2. q[1] \in Nat /\ path[1] \in Nat /\ b[1] \in Nat
        BY <1>12, <1>13
      <4> QED BY <4>1, <4>2 DEF Precedes
    <3> QED BY <3>1, <3>2
  <2> QED BY <2>3, <2>4
<1> HIDE DEF U, H, N
<1>17. \A x : Has(t, x) => x \in gone \/ \E p \in H : x = N(p)
  BY <1>3, <1>7, <1>10 DEF Tracks, H, N, Inserted
<1>18. \A p \in H : Present(new, p) => Has(t, N(p))
  <2> TAKE p \in H
  <2> HAVE Present(new, p)
  <2>1. CASE p \in U
    BY <1>3, <1>10, <2>1 DEF Inserted
  <2>2. CASE p \notin U
    BY <1>10, <1>14, <2>2 DEF Tracks, H, N, Inserted
  <2> QED BY <2>1, <2>2
<1>19. \A p, q \in H :
         Settled(c, p) /\ Settled(c, q) /\ Precedes(p, q) => Before(host, N(p), N(q))
  BY DEF Tracks, H, N
<1>20. ASSUME NEW p \in H, NEW q \in H, Settled(new, p), Settled(new, q), Precedes(p, q)
       PROVE  Before(t, N(p), N(q))
  <2>1. CASE p \in U /\ q \in U
    BY <1>3, <1>10, <1>20, <2>1 DEF Inserted
  <2>2. CASE p \notin U /\ q \notin U
    BY <1>8, <1>10, <1>14, <1>19, <1>20, <2>2 DEF Inserted
  <2>3. CASE p \in U /\ q \notin U
    <3>1. Settled(c, q) /\ Precedes(path, q)
      BY <1>14, <1>16, <1>20, <2>3
    <3>2. Follows(c, path, q)
      BY <3>1 DEF Follows, H, Settled, Flag, ChildAt
    <3>3. PICK b : before = N(b) /\ FirstToFollow(c, path, b)
      BY <1>4, <3>2
    <3>4. Follows(c, path, b) /\ (q = b \/ Precedes(b, q))
      BY <3>2, <3>3 DEF FirstToFollow
    <3>5. b \in H /\ Settled(c, b)
      BY <1>15, <1>20, <2>3, <3>4, FollowersAre DEF H
    <3>6. N(q) = before \/ Before(host, before, N(q))
      BY <1>19, <3>1, <3>3, <3>4, <3>5
    <3>7. before # <<>>
      BY <1>1, <3>3, <3>5
    <3>8. Has(nodes, N(p)) /\ ~Has(nodes, N(q))
      BY <1>8, <2>3
    <3> QED BY <1>10, <3>6, <3>7, <3>8 DEF Inserted
  <2>4. CASE p \notin U /\ q \in U
    <3>1. Settled(c, p)
      BY <1>14, <1>20, <2>4
    <3>2. Has(host, N(p))
      BY <3>1 DEF Tracks, H, N, Present, Settled
    <3>3. ~Has(nodes, N(p)) /\ Has(nodes, N(q))
      BY <1>8, <2>4
    <3>4. before = <<>> \/ Before(host, N(p), before)
      <4> SUFFICES ASSUME before # <<>>
                   PROVE  Before(host, N(p), before)
        OBVIOUS
      <4>1. PICK b : before = N(b) /\ FirstToFollow(c, path, b)
        BY <1>4
      <4>2. Follows(c, path, b) /\ Precedes(path, b)
        BY <4>1 DEF FirstToFollow, Follows
      <4>3. b \in H /\ Settled(c, b)
        BY <1>15, <1>20, <2>4, <4>2, FollowersAre DEF H
      <4>4. Precedes(p, b)
        BY <1>16, <1>20, <2>4, <4>2, <4>3
      <4> QED BY <1>19, <3>1, <4>1, <4>3, <4>4
    <3> QED BY <1>10, <3>2, <3>3, <3>4 DEF Inserted
  <2> QED BY <2>1, <2>2, <2>3, <2>4
<1>21. t \in Seq(ChildNames) /\ Distinct(t)
  BY <1>10 DEF Inserted
<1>22. HostPaths(new) = H /\ \A p \in H : NodeAt(new, p) = N(p)
  BY <1>11
<1> QED BY <1>17, <1>18, <1>20, <1>21, <1>22 DEF Tracks

-----------------------------------------------------------------------------
(* A commit, child by child                                                  *)

Commits == [children : Seq(TopFibers), host : Seq(ChildNames)]

\* A commit of the finished children F on its way
UnderWay(acc, F, gone) ==
  /\ acc \in Commits
  /\ Ready(acc.children) /\ Alike(acc.children, F)
  /\ Tracks(acc.host, acc.children, gone)

\* No placement is set, and that at path is clear.
Clears(new, acc, F, path) ==
  \A p \in Paths(F) : Flag(new.children, p) => Flag(acc.children, p) /\ p # path

LEMMA PlacementStep ==
  ASSUME NEW F, Ready(F), NEW gone, NEW acc, UnderWay(acc, F, gone), NEW path \in Paths(F),
         Len(path) = 1 =>
           \A j \in 1..Len(F[path[1]].children) : ~Flag(acc.children, <<path[1], j>>),
         NEW new, new = CommitPlacement(acc, path)
  PROVE  UnderWay(new, F, gone) /\ Clears(new, acc, F, path)
<1> DEFINE c == acc.children
<1>1. /\ Tidy(F) /\ Ready(c) /\ Tidy(c) /\ Alike(c, F) /\ Tracks(acc.host, c, gone)
      /\ acc \in Commits
  BY DEF UnderWay, Ready
<1>2. Paths(c) = Paths(F) /\ Len(c) = Len(F)
      /\ \A i \in 1..Len(F) : Len(c[i].children) = Len(F[i].children)
  BY <1>1, AlikeIs
<1>3. path[1] \in 1..Len(F) /\ path \in Paths(c)
  BY <1>1, <1>2, PathsSplit
<1>4. CASE ~Flag(c, path)
  BY <1>4 DEF CommitPlacement, Flag, Clears
<1>5. CASE Flag(c, path)
  <2> DEFINE t == InsertBefore(acc.host, HostNodes(ChildAt(c, path)), HostSibling(c, path))
             d == ClearAt(c, path)
  <2>1. new = [children |-> d, host |-> t]
    BY <1>5 DEF CommitPlacement, Flag, ClearAt
  <2>2. Cleared(d, c, path)
    BY <1>1, <1>3, ClearIs
  <2>3. Len(path) = 1 => \A j \in 1..Len(c[path[1]].children) : ~Flag(c, <<path[1], j>>)
    BY <1>2, <1>3
  <2>4. Tracks(t, d, gone)
    BY <1>1, <1>3, <1>5, <2>2, <2>3, MoveKeeps
  <2> HIDE DEF t, d
  <2>5. Ready(d) /\ Alike(d, c)
    BY <1>1, <1>3, <2>2, ClearKeepsReady DEF Cleared
  <2>6. Alike(d, F)
    BY <1>1, <2>5, AlikeThrough
  <2>7. d \in Seq(TopFibers) /\ t \in Seq(ChildNames)
    BY <2>4, <2>6 DEF Alike, Tracks
  <2>8. UnderWay(new, F, gone)
    BY <2>1, <2>4, <2>5, <2>6, <2>7 DEF UnderWay, Commits
  <2>9. Clears(new, acc, F, path)
    BY <1>2, <2>1, <2>2 DEF Clears, Cleared
  <2> QED BY <2>8, <2>9
<1> QED BY <1>4, <1>5

\* The nodes of deleted children
Deleted(deletions) == UNION {ToSet(HostNodes(fiber)) : fiber \in ToSet(deletions)}

LEMMA DeletionsKeep ==
  ASSUME NEW c, NEW host, NEW gone, Tracks(host, c, gone), NEW deletions, NEW rest,
         \A x \in gone : x \in rest \/ x \in Deleted(deletions),
         \A p \in HostPaths(c) : NodeAt(c, p) \notin Deleted(deletions)
  PROVE  /\ Tracks(CommitDeletions(host, deletions), c, rest)
         /\ CommitDeletions(host, deletions) \in Seq(ChildNames)
<1> DEFINE t == CommitDeletions(host, deletions)
           D == Deleted(deletions)
<1>1. t = Without(host, D)
  BY DEF CommitDeletions, Deleted
<1>2. host \in Seq(ChildNames) /\ Distinct(host)
  BY DEF Tracks
<1> HIDE DEF t, D
<1>3. /\ t \in Seq(ChildNames)
      /\ \A x : Has(t, x) <=> Has(host, x) /\ x \notin D
      /\ Distinct(t)
      /\ \A x, y : Before(host, x, y) /\ x \notin D /\ y \notin D => Before(t, x, y)
  BY <1>1, <1>2, WithoutKeeps
<1>4. \A p \in HostPaths(c) : NodeAt(c, p) \notin D
  BY DEF D
<1>5. \A x \in gone : x \in rest \/ x \in D
  BY DEF D
<1>6. Tracks(t, c, rest)
  BY <1>3, <1>4, <1>5 DEF Tracks
<1> QED BY <1>3, <1>6 DEF t

\* The nodes of what the children from the n-th on delete
GoneFrom(F, n) ==
  UNION {Deleted(F[k].deletions) : k \in {m \in 1..Len(F) : m >= n}}

ClearTo(acc, F, n) == \A p \in Paths(F) : p[1] <= n => ~Flag(acc.children, p)

\* What is deleted is not in the tree.
Apart(F) ==
  \A i \in 1..Len(F) : \A p \in HostPaths(F) : NodeAt(F, p) \notin Deleted(F[i].deletions)

\* The children of the i-th child, placed one after the other
PlacesBelow(below, start, i, N) ==
  below = CHOOSE f : f = [j \in 0..N |->
            IF j = 0 THEN start ELSE CommitPlacement(f[j - 1], <<i, j>>)]

LEMMA BelowRuns ==
  ASSUME NEW F, Ready(F), NEW gone, NEW i \in 1..Len(F), NEW start, UnderWay(start, F, gone),
         NEW N, N = Len(F[i].children), NEW below, PlacesBelow(below, start, i, N)
  PROVE  /\ UnderWay(below[N], F, gone)
         /\ \A p \in Paths(F) : Flag(below[N].children, p) => Flag(start.children, p)
         /\ \A j \in 1..N : ~Flag(below[N].children, <<i, j>>)
<1> DEFINE A == {a \in Commits : UnderWay(a, F, gone)}
           Step(a, j) == CommitPlacement(a, <<i, j>>)
           step == [p \in A \X (1..N) |-> Step(p[1], p[2])]
           Next(f) == [j \in 0..N |-> IF j = 0 THEN start ELSE Step(f[j - 1], j)]
<1>0. Tidy(F)
  BY DEF Ready
<1>1. N \in Nat /\ start \in A
  BY <1>0, TidyFibers DEF UnderWay
<1>2. \A j \in 1..N : <<i, j>> \in Paths(F)
  BY <1>0, PathsIn
<1>3. \A a \in A, j \in 1..N : Step(a, j) \in A /\ Clears(Step(a, j), a, F, <<i, j>>)
  <2> SUFFICES ASSUME NEW a \in A, NEW j \in 1..N
               PROVE  Step(a, j) \in A /\ Clears(Step(a, j), a, F, <<i, j>>)
    OBVIOUS
  <2> DEFINE new == Step(a, j)
  <2>1. UnderWay(a, F, gone) /\ new = CommitPlacement(a, <<i, j>>)
    OBVIOUS
  <2>2. <<i, j>> \in Paths(F) /\ Len(<<i, j>>) # 1
    BY <1>2
  <2> HIDE DEF new
  <2>3. UnderWay(new, F, gone) /\ Clears(new, a, F, <<i, j>>)
    BY <2>1, <2>2, PlacementStep
  <2> QED BY <2>3 DEF UnderWay, new
<1>4. step \in [A \X (1..N) -> A]
  <2> HIDE DEF A, Step
  <2> QED BY <1>3
<1>5. PICK g \in [0..N -> A] : Stepwise(g, N, start, step)
  <2> HIDE DEF step, A
  <2> QED BY <1>1, <1>4, StepwiseExists
<1>6. \A n \in 0..N : n # 0 => g[n] = Step(g[n - 1], n)
  <2> TAKE n \in 0..N
  <2> HAVE n # 0
  <2>1. n \in 1..N /\ n - 1 \in 0..N /\ g[n - 1] \in A
    BY <1>1
  <2>2. g[n] = step[<<g[n - 1], n>>]
    <3> HIDE DEF step, A
    <3> QED BY <1>5, <2>1 DEF Stepwise
  <2> HIDE DEF A, Step
  <2> QED BY <2>1, <2>2
<1> HIDE DEF A, Step
<1>7. g = Next(g)
  BY <1>5, <1>6 DEF Stepwise
<1>8. below = Next(below)
  BY <1>7 DEF Step, PlacesBelow
<1>9. /\ below[0] = start
      /\ \A n \in 1..N : below[n] = Step(below[n - 1], n)
  <2>1. 0 \in 0..N /\ \A n \in 1..N : n \in 0..N /\ n # 0
    BY <1>1
  <2> QED BY <1>8, <2>1
<1> HIDE DEF Next, step
<1> DEFINE J(n) == /\ below[n] \in A
                   /\ \A p \in Paths(F) : Flag(below[n].children, p) => Flag(start.children, p)
                   /\ \A j \in 1..n : ~Flag(below[n].children, <<i, j>>)
           Z == {n \in 0..N : J(n)}
<1>10. 0 \in Z
  <2>1. J(0)
    BY <1>1, <1>9
  <2>2. 0 \in 0..N
    BY <1>1
  <2> QED BY <2>1, <2>2
<1>11. ASSUME NEW n \in 0..N, n \in Z, n < N
       PROVE  n + 1 \in Z
  <2>1. J(n)
    BY <1>11
  <2>2. n + 1 \in 1..N /\ n + 1 \in 0..N /\ (n + 1) - 1 = n /\ n \in Nat
    BY <1>1, <1>11
  <2>3. below[n + 1] = Step(below[n], n + 1)
    BY <1>9, <2>2
  <2>4. below[n + 1] \in A /\ Clears(below[n + 1], below[n], F, <<i, n + 1>>)
    BY <1>3, <2>1, <2>2, <2>3
  <2>5. \A j \in 1..(n + 1) : ~Flag(below[n + 1].children, <<i, j>>)
    <3> TAKE j \in 1..(n + 1)
    <3>1. j \in 1..N /\ <<i, j>> \in Paths(F)
      BY <1>2, <2>2
    <3>2. CASE j = n + 1
      BY <2>4, <3>1, <3>2 DEF Clears
    <3>3. CASE j # n + 1
      BY <2>1, <2>2, <2>4, <3>1, <3>3 DEF Clears
    <3> QED BY <3>2, <3>3
  <2>6. \A p \in Paths(F) : Flag(below[n + 1].children, p) => Flag(start.children, p)
    BY <2>1, <2>4 DEF Clears
  <2> QED BY <2>2, <2>4, <2>5, <2>6
<1>12. N \in Z
  <2> HIDE DEF Z
  <2>1. \A n \in 0..N : n \in Z
    BY <1>1, <1>10, <1>11, UpToFrom
  <2> QED BY <1>1, <2>1
<1> QED BY <1>12 DEF A

LEMMA ChildStep ==
  ASSUME NEW F, Ready(F), Apart(F), NEW gone, NEW acc, UnderWay(acc, F, gone),
         NEW i \in 1..Len(F), NEW rest,
         \A x \in gone : x \in rest \/ x \in Deleted(F[i].deletions),
         NEW new, new = CommitChild(acc, i)
  PROVE  /\ UnderWay(new, F, rest)
         /\ \A p \in Paths(F) : Flag(new.children, p) => Flag(acc.children, p) /\ p[1] # i
<1> DEFINE N == Len(F[i].children)
           start == [acc EXCEPT !.host = CommitDeletions(@, F[i].deletions)]
           below == CHOOSE f : f = [j \in 0..N |->
                      IF j = 0 THEN start ELSE CommitPlacement(f[j - 1], <<i, j>>)]
<1>1. /\ Tidy(F) /\ acc \in Commits /\ Ready(acc.children) /\ Alike(acc.children, F)
      /\ Tracks(acc.host, acc.children, gone)
  BY DEF Ready, UnderWay
<1>2. /\ acc.children[i].deletions = F[i].deletions
      /\ Len(acc.children[i].children) = N
      /\ HostPaths(acc.children) = HostPaths(F)
      /\ \A p \in HostPaths(F) : NodeAt(acc.children, p) = NodeAt(F, p)
  BY <1>1, AlikeIs DEF HostPaths
<1>3. new = CommitPlacement(below[N], <<i>>)
  BY <1>2 DEF CommitChild
<1>4. UnderWay(start, F, rest) /\ start.children = acc.children
  BY <1>1, <1>2, DeletionsKeep DEF Apart, Commits, UnderWay
<1>5. /\ UnderWay(below[N], F, rest)
      /\ \A p \in Paths(F) : Flag(below[N].children, p) => Flag(start.children, p)
      /\ \A j \in 1..N : ~Flag(below[N].children, <<i, j>>)
  <2> DEFINE m == N
             b == below
  <2>1. m = Len(F[i].children)
    OBVIOUS
  <2>2. PlacesBelow(b, start, i, m)
    BY DEF PlacesBelow
  <2> HIDE DEF m, b, start
  <2>3. /\ UnderWay(b[m], F, rest)
        /\ \A p \in Paths(F) : Flag(b[m].children, p) => Flag(start.children, p)
        /\ \A j \in 1..m : ~Flag(b[m].children, <<i, j>>)
    BY <1>4, <2>1, <2>2, BelowRuns
  <2> QED BY <2>3 DEF m, b
<1> DEFINE mid == below[N]
<1>6. /\ UnderWay(mid, F, rest) /\ new = CommitPlacement(mid, <<i>>)
      /\ \A p \in Paths(F) : Flag(mid.children, p) => Flag(acc.children, p)
      /\ \A j \in 1..N : ~Flag(mid.children, <<i, j>>)
  <2> HIDE DEF below, start
  <2> QED BY <1>3, <1>4, <1>5
<1> HIDE DEF mid, below, start
<1>7. <<i>> \in Paths(F) /\ <<i>>[1] = i
  BY <1>1, PathsSplit
<1>8. UnderWay(new, F, rest) /\ Clears(new, mid, F, <<i>>)
  BY <1>6, <1>7, PlacementStep
<1>9. ASSUME NEW p \in Paths(F), Flag(new.children, p)
      PROVE  Flag(acc.children, p) /\ p[1] # i
  <2>1. Flag(mid.children, p) /\ p # <<i>>
    BY <1>8, <1>9 DEF Clears
  <2>2. p[1] # i
    BY <1>1, <1>6, <2>1, PathsSplit
  <2> QED BY <1>6, <2>1, <2>2
<1> QED BY <1>8, <1>9

\* The children, committed one after the other
CommitRun(done, start, N) ==
  done = CHOOSE f : f = [i \in 0..N |-> IF i = 0 THEN start ELSE CommitChild(f[i - 1], i)]

LEMMA CommitRuns ==
  ASSUME NEW F, Ready(F), Apart(F), NEW start, UnderWay(start, F, GoneFrom(F, 1)),
         NEW N, N = Len(F), NEW done, CommitRun(done, start, N)
  PROVE  /\ UnderWay(done[N], F, {})
         /\ \A p \in Paths(F) : ~Flag(done[N].children, p)
<1> DEFINE A == {a \in Commits : UnderWay(a, F, GoneFrom(F, 1))}
           Step(a, i) == CommitChild(a, i)
           step == [p \in A \X (1..N) |-> Step(p[1], p[2])]
           Next(f) == [i \in 0..N |-> IF i = 0 THEN start ELSE Step(f[i - 1], i)]
<1>0. Tidy(F)
  BY DEF Ready
<1>1. N \in Nat /\ start \in A
  BY <1>0 DEF UnderWay, Tidy
<1>2. \A a \in A, i \in 1..N : Step(a, i) \in A
  BY ChildStep DEF UnderWay
<1>3. step \in [A \X (1..N) -> A]
  <2> HIDE DEF A, Step
  <2> QED BY <1>2
<1>4. PICK g \in [0..N -> A] : Stepwise(g, N, start, step)
  <2> HIDE DEF step, A
  <2> QED BY <1>1, <1>3, StepwiseExists
<1>5. \A n \in 0..N : n # 0 => g[n] = Step(g[n - 1], n)
  <2> TAKE n \in 0..N
  <2> HAVE n # 0
  <2>1. n \in 1..N /\ n - 1 \in 0..N /\ g[n - 1] \in A
    BY <1>1
  <2>2. g[n] = step[<<g[n - 1], n>>]
    <3> HIDE DEF step, A
    <3> QED BY <1>4, <2>1 DEF Stepwise
  <2> HIDE DEF A, Step
  <2> QED BY <2>1, <2>2
<1> HIDE DEF A, Step
<1>6. g = Next(g)
  BY <1>4, <1>5 DEF Stepwise
<1>7. done = Next(done)
  BY <1>6 DEF Step, CommitRun
<1>8. /\ done[0] = start
      /\ \A n \in 1..N : done[n] = CommitChild(done[n - 1], n)
  BY <1>1, <1>7 DEF Step
<1> HIDE DEF Next, step
<1> DEFINE J(n) == /\ UnderWay(done[n], F, GoneFrom(F, n + 1))
                   /\ ClearTo(done[n], F, n)
           Z == {n \in 0..N : J(n)}
<1>9. \A p \in Paths(F) : p[1] \in 1..N /\ p[1] \in Nat
  BY <1>0, PathsSplit
<1>10. 0 \in Z
  BY <1>1, <1>8, <1>9 DEF ClearTo
<1>11. ASSUME NEW n \in 0..N, n \in Z, n < N
       PROVE  n + 1 \in Z
  <2>1. J(n)
    BY <1>11
  <2>2. n + 1 \in 1..N /\ n + 1 \in 0..N /\ (n + 1) - 1 = n /\ n \in Nat
    BY <1>1, <1>11
  <2>3. done[n + 1] = CommitChild(done[n], n + 1)
    BY <1>8, <2>2
  <2> DEFINE gone == GoneFrom(F, n + 1)
             rest == GoneFrom(F, (n + 1) + 1)
  <2>4. \A x \in gone : x \in rest \/ x \in Deleted(F[n + 1].deletions)
    <3> TAKE x \in gone
    <3>1. PICK k \in 1..Len(F) : k >= n + 1 /\ x \in Deleted(F[k].deletions)
      BY DEF GoneFrom
    <3>2. CASE k = n + 1
      BY <3>1, <3>2
    <3>3. CASE k # n + 1
      BY <1>1, <2>2, <3>1, <3>3 DEF GoneFrom
    <3> QED BY <3>2, <3>3
  <2>5. UnderWay(done[n], F, gone)
    BY <2>1
  <2> DEFINE new == done[n + 1]
  <2> HIDE DEF gone, rest, new
  <2>6. /\ UnderWay(done[n + 1], F, rest)
        /\ \A p \in Paths(F) : Flag(done[n + 1].children, p) =>
             Flag(done[n].children, p) /\ p[1] # n + 1
    <3>1. Ready(F) /\ Apart(F) /\ n + 1 \in 1..Len(F)
      BY <2>2
    <3>2. ASSUME NEW next, next = CommitChild(done[n], n + 1)
          PROVE  /\ UnderWay(next, F, rest)
                 /\ \A p \in Paths(F) : Flag(next.children, p) =>
                      Flag(done[n].children, p) /\ p[1] # n + 1
      BY ONLY <2>4, <2>5, <3>1, <3>2, ChildStep
    <3> QED BY <2>3, <3>2
  <2>7. ClearTo(done[n + 1], F, n + 1)
    BY <1>9, <2>1, <2>2, <2>6 DEF ClearTo
  <2> QED BY <2>2, <2>6, <2>7 DEF rest
<1>12. J(N)
  <2>1. N \in Z
    <3> HIDE DEF Z
    <3>1. \A n \in 0..N : n \in Z
      BY <1>1, <1>10, <1>11, UpToFrom
    <3> QED BY <1>1, <3>1
  <2> QED BY <2>1
<1>13. GoneFrom(F, N + 1) = {}
  BY <1>1 DEF GoneFrom
<1>14. \A p \in Paths(F) : ~Flag(done[N].children, p)
  BY <1>1, <1>9, <1>12 DEF ClearTo
<1> QED BY <1>12, <1>13, <1>14

-----------------------------------------------------------------------------
(* The names of children                                                     *)

\* The names of children: by their old place, or by the slot that created them
Old(k) == <<"old", k>>
OldIn(k, l) == <<"old", k, l>>
New(n) == <<"new", n>>
NewIn(n, m) == <<"new", n, m>>

LEMMA ShortNames ==
  ASSUME NEW k \in Nat, NEW m \in Nat
  PROVE  /\ Old(k) = Old(m) => k = m
         /\ New(k) = New(m) => k = m
         /\ Old(k) # New(m)
         /\ Old(k) # <<>> /\ New(k) # <<>> /\ OldIn(k, m) # <<>> /\ NewIn(k, m) # <<>>
<1>1. /\ Old(k)[1] = "old" /\ Old(k)[2] = k /\ Old(m)[2] = m
      /\ New(k)[2] = k /\ New(m)[2] = m /\ New(m)[1] = "new"
  BY DEF Old, New
<1>2. /\ Len(Old(k)) = 2 /\ Len(New(k)) = 2 /\ Len(OldIn(k, m)) = 3 /\ Len(NewIn(k, m)) = 3
      /\ Len(<<>>) = 0
  BY DEF Old, New, OldIn, NewIn
<1> QED BY <1>1, <1>2

LEMMA LongNames ==
  ASSUME NEW k \in Nat, NEW l \in Nat, NEW m \in Nat, NEW n \in Nat
  PROVE  /\ OldIn(k, l) = OldIn(m, n) => k = m /\ l = n
         /\ NewIn(k, l) = NewIn(m, n) => k = m /\ l = n
         /\ OldIn(k, l) # NewIn(m, n)
<1>1. /\ OldIn(k, l)[1] = "old" /\ OldIn(k, l)[2] = k /\ OldIn(k, l)[3] = l
      /\ OldIn(m, n)[2] = m /\ OldIn(m, n)[3] = n
      /\ NewIn(k, l)[2] = k /\ NewIn(k, l)[3] = l
      /\ NewIn(m, n)[1] = "new" /\ NewIn(m, n)[2] = m /\ NewIn(m, n)[3] = n
  BY DEF OldIn, NewIn
<1> QED BY <1>1

LEMMA ShortIsNotLong ==
  ASSUME NEW k \in Nat, NEW m \in Nat, NEW n \in Nat
  PROVE  /\ Old(k) # OldIn(m, n) /\ Old(k) # NewIn(m, n)
         /\ New(k) # OldIn(m, n) /\ New(k) # NewIn(m, n)
<1>1. /\ Len(Old(k)) = 2 /\ Len(New(k)) = 2 /\ Len(OldIn(m, n)) = 3 /\ Len(NewIn(m, n)) = 3
  BY DEF Old, New, OldIn, NewIn
<1> QED BY <1>1

LEMMA LongerName ==
  ASSUME NEW n \in Nat, NEW m \in Nat
  PROVE  <<"new", n>> \o <<m>> = NewIn(n, m)
<1> DEFINE S == Nat \cup {"old", "new"}
           a == <<"new", n>> \o <<m>>
           b == <<"new", n, m>>
<1>1. /\ a \in Seq(S) /\ Len(a) = 3 /\ a[1] = "new" /\ a[2] = n /\ a[3] = m
  OBVIOUS
<1>2. /\ b \in Seq(S) /\ Len(b) = 3 /\ b[1] = "new" /\ b[2] = n /\ b[3] = m
  OBVIOUS
<1> HIDE DEF a, b, S
<1>3. \A k \in 1..3 : a[k] = b[k]
  BY <1>1, <1>2
<1>4. a = b
  BY <1>1, <1>2, <1>3, SeqEqual
<1> QED BY <1>4 DEF a, b, NewIn

\* The children on screen are named by their places.
LEMMA ShownAreNamed ==
  ASSUME NEW olds, Shown(olds)
  PROVE  /\ Tidy(olds) /\ Siblings(olds)
         /\ \A k \in 1..Len(olds) :
              /\ k \in Nat /\ olds[k].instance = Old(k) /\ Siblings(olds[k].children)
              /\ \A l \in 1..Len(olds[k].children) :
                   l \in Nat /\ olds[k].children[l].instance = OldIn(k, l)
<1>1. Tidy(olds) /\ Siblings(olds)
  BY DEF Shown, Tidy
<1>2. ASSUME NEW k \in 1..Len(olds)
      PROVE  /\ k \in Nat /\ olds[k].instance = Old(k) /\ Siblings(olds[k].children)
             /\ \A l \in 1..Len(olds[k].children) :
                  l \in Nat /\ olds[k].children[l].instance = OldIn(k, l)
  <2>1. k \in Nat /\ \A l \in 1..Len(olds[k].children) : l \in Nat
    OBVIOUS
  <2>2. /\ olds[k].instance = Named(<<k>>) /\ Siblings(olds[k].children)
        /\ \A l \in 1..Len(olds[k].children) : olds[k].children[l].instance = Named(<<k, l>>)
    BY DEF Shown
  <2> QED BY <2>1, <2>2, NamedIs DEF Old, OldIn
<1> QED BY <1>1, <1>2

LEMMA SiblingOrder ==
  ASSUME NEW C, NEW olds \in Seq(FibersOver(C)), Siblings(olds),
         NEW k \in 1..Len(olds), NEW m \in 1..Len(olds), olds[k].index < olds[m].index
  PROVE  k < m
<1>1. olds[k].index \in Nat /\ olds[m].index \in Nat
  <2>1. olds[k] \in FibersOver(C) /\ olds[m] \in FibersOver(C)
    OBVIOUS
  <2> QED BY <2>1 DEF FibersOver
<1>2. m < k => olds[m].index < olds[k].index
  BY DEF Siblings
<1>3. k # m
  BY <1>1
<1> QED BY <1>1, <1>2, <1>3

-----------------------------------------------------------------------------
(* Where the rendered children come from                                     *)

\* A reused child, and the old one it was
Continued(olds, child, k) ==
  /\ k \in 1..Len(olds) /\ child.reused
  /\ child.instance = olds[k].instance /\ child.type = olds[k].type

\* The children of a rendered child, which were prev
LeavesFrom(fiber, prev) ==
  /\ Siblings(fiber.children)
  /\ \A j \in 1..Len(fiber.children) :
       LET leaf == fiber.children[j]
       IN  \/ \E l \in 1..Len(prev) : Continued(prev, leaf, l)
           \/ ~leaf.reused /\ leaf.instance = NewIn(fiber.index, leaf.index)
  /\ InOldOrder(prev, fiber.reused, fiber.children)
  /\ \A k \in 1..Len(fiber.deletions) : Has(prev, fiber.deletions[k])
  /\ fiber.reused => \A l \in 1..Len(prev) : UsedOrDeleted(fiber, prev[l])

LEMMA LeavesAre ==
  ASSUME NEW fiber \in TopFibers, NEW prev \in Seq(LeafFibers), Begins(fiber, prev),
         fiber.type # "group" => prev = <<>>
  PROVE  LeavesFrom(fiber, prev)
<1>1. CASE fiber.type = "group"
  <2> DEFINE elements == Without(fiber.props, {Hole})
             prefix == <<"new", fiber.index>>
  <2>1. Reconciled({<<>>}, prev, elements, prefix, FALSE, fiber.reused, fiber)
    BY <1>1 DEF Begins
  <2>2. fiber.index \in Nat /\ fiber.children \in Seq(LeafFibers)
    BY DEF TopFibers, FibersOver
  <2>3. ASSUME NEW j \in 1..Len(fiber.children)
        PROVE  \/ \E l \in 1..Len(prev) : Continued(prev, fiber.children[j], l)
               \/ /\ ~fiber.children[j].reused
                  /\ fiber.children[j].instance = NewIn(fiber.index, fiber.children[j].index)
    <3> DEFINE leaf == fiber.children[j]
    <3>1. Origin(leaf, prev, prefix, FALSE)
      BY <2>1 DEF Reconciled, leaf
    <3>2. leaf.index \in Nat
      <4>1. leaf \in LeafFibers
        BY <2>2
      <4> QED BY <4>1 DEF LeafFibers, FibersOver
    <3>3. prefix \o <<leaf.index>> = NewIn(fiber.index, leaf.index)
      BY <2>2, <3>2, LongerName
    <3> HIDE DEF leaf, prefix
    <3> QED BY <3>1, <3>3 DEF Origin, Continued, Continues, leaf
  <2> QED BY <2>1, <2>3 DEF LeavesFrom, Reconciled
<1>2. CASE fiber.type # "group"
  BY <1>2 DEF Begins, LeavesFrom, InOldOrder, Siblings
<1> QED BY <1>1, <1>2

\* A rendered child, with what is below it
ComesFrom(olds, child) ==
  \/ \E k \in 1..Len(olds) : Continued(olds, child, k) /\ LeavesFrom(child, olds[k].children)
  \/ ~child.reused /\ child.instance = New(child.index) /\ LeavesFrom(child, <<>>)

RenderedFrom(olds, result) ==
  LET F == result.children
  IN  /\ Tidy(F) /\ Siblings(F)
      /\ \A i \in 1..Len(F) : ComesFrom(olds, F[i]) /\ F[i].index \in Nat
      /\ InOldOrder(olds, TRUE, F)
      /\ result.deletions \in Seq(TopFibers)
      /\ \A k \in 1..Len(result.deletions) : Has(olds, result.deletions[k])
      /\ \A k \in 1..Len(olds) : UsedOrDeleted(result, olds[k])

LEMMA RenderedComes ==
  ASSUME NEW olds, Shown(olds), NEW input, NEW result, Rendered(olds, input, result)
  PROVE  RenderedFrom(olds, result)
<1> DEFINE F == result.children
<1>1. F \in Seq(TopFibers) /\ Tidy(olds)
  BY ShownAreNamed DEF Rendered
<1>2. ASSUME NEW i \in 1..Len(F)
      PROVE  /\ F[i].type # "group" => F[i].children = <<>>
             /\ \A j \in 1..Len(F[i].children) : F[i].children[j].type # "group"
             /\ ComesFrom(olds, F[i])
             /\ F[i].index \in Nat
  <2>1. F[i] \in TopFibers /\ BeginsFrom(olds, input, F[i])
    BY <1>1 DEF Rendered
  <2>2. F[i].reused \in BOOLEAN /\ F[i].index \in Nat
    BY <2>1 DEF TopFibers, FibersOver
  <2> DEFINE fiber == F[i]
  <2> HIDE DEF F
  <2>3. CASE fiber.reused
    <3>1. PICK k \in 1..Len(olds) : /\ fiber.instance = olds[k].instance
                                    /\ Continues(fiber, olds[k], input.single)
                                    /\ Begins(fiber, olds[k].children)
      BY <2>1, <2>3 DEF BeginsFrom
    <3>2. Continued(olds, fiber, k)
      BY <2>3, <3>1 DEF Continued, Continues
    <3>3. /\ olds[k].children \in Seq(LeafFibers)
          /\ fiber.type # "group" => olds[k].children = <<>>
      BY <1>1, <3>2, TidyFibers DEF Tidy, Continued
    <3> HIDE DEF fiber
    <3>4. LeavesFrom(fiber, olds[k].children)
      BY <2>1, <3>1, <3>3, LeavesAre DEF fiber
    <3> QED BY <2>2, <3>1, <3>2, <3>4 DEF Begins, ComesFrom, fiber
  <2>4. CASE ~fiber.reused
    <3>1. fiber.instance = New(fiber.index) /\ Begins(fiber, <<>>)
      BY <2>1, <2>4 DEF BeginsFrom, New
    <3>2. <<>> \in Seq(LeafFibers)
      OBVIOUS
    <3> HIDE DEF fiber
    <3>3. LeavesFrom(fiber, <<>>)
      BY <2>1, <3>1, <3>2, LeavesAre DEF fiber
    <3> QED BY <2>2, <2>4, <3>1, <3>3 DEF Begins, ComesFrom, fiber
  <2> QED BY <2>3, <2>4
<1>3. Tidy(F)
  BY <1>1, <1>2 DEF Tidy
<1> QED BY <1>2, <1>3 DEF Rendered, RenderedFrom

LEMMA TopNames ==
  ASSUME NEW olds, Shown(olds), NEW result, RenderedFrom(olds, result),
         NEW F, F = result.children, NEW i \in 1..Len(F)
  PROVE  \/ /\ F[i].reused
            /\ \E k \in 1..Len(olds) :
                 /\ F[i].instance = Old(k) /\ F[i].type = olds[k].type
                 /\ LeavesFrom(F[i], olds[k].children)
         \/ /\ ~F[i].reused /\ F[i].instance = New(F[i].index)
            /\ LeavesFrom(F[i], <<>>)
<1>1. ComesFrom(olds, F[i])
  BY DEF RenderedFrom
<1>2. \A k \in 1..Len(olds) : olds[k].instance = Old(k)
  BY ShownAreNamed
<1> QED BY <1>1, <1>2 DEF ComesFrom, Continued

LeafNamed(olds, top, leaf) ==
  \/ /\ leaf.reused /\ top.reused
     /\ \E k \in 1..Len(olds) : \E l \in 1..Len(olds[k].children) :
          /\ top.instance = Old(k) /\ leaf.instance = OldIn(k, l)
          /\ leaf.type = olds[k].children[l].type
  \/ ~leaf.reused /\ leaf.instance = NewIn(top.index, leaf.index)

LEMMA LeafNames ==
  ASSUME NEW olds, Shown(olds), NEW result, RenderedFrom(olds, result),
         NEW F, F = result.children, NEW i \in 1..Len(F), NEW j \in 1..Len(F[i].children)
  PROVE  LeafNamed(olds, F[i], F[i].children[j])
<1> DEFINE leaf == F[i].children[j]
<1>1. CASE F[i].reused
  <2>1. PICK k \in 1..Len(olds) : F[i].instance = Old(k) /\ LeavesFrom(F[i], olds[k].children)
    BY <1>1, TopNames
  <2>2. \/ \E l \in 1..Len(olds[k].children) : Continued(olds[k].children, leaf, l)
        \/ ~leaf.reused /\ leaf.instance = NewIn(F[i].index, leaf.index)
    BY <2>1 DEF LeavesFrom
  <2> HIDE DEF leaf
  <2>3. \A l \in 1..Len(olds[k].children) : olds[k].children[l].instance = OldIn(k, l)
    BY ShownAreNamed
  <2> QED BY <1>1, <2>1, <2>2, <2>3 DEF Continued, LeafNamed, leaf
<1>2. CASE ~F[i].reused
  <2>1. LeavesFrom(F[i], <<>>)
    BY <1>2, TopNames
  <2>2. \/ \E l \in 1..Len(<<>>) : Continued(<<>>, leaf, l)
        \/ ~leaf.reused /\ leaf.instance = NewIn(F[i].index, leaf.index)
    BY <2>1 DEF LeavesFrom
  <2>3. ~\E l \in 1..Len(<<>>) : TRUE
    OBVIOUS
  <2> QED BY <2>2, <2>3 DEF LeafNamed
<1> QED BY <1>1, <1>2

LEMMA RenderedIndexes ==
  ASSUME NEW olds, NEW result, RenderedFrom(olds, result),
         NEW F, F = result.children
  PROVE  /\ Tidy(F) /\ Siblings(F)
         /\ \A i \in 1..Len(F) : F[i].index \in Nat /\ Siblings(F[i].children)
         /\ \A i, m \in 1..Len(F) : F[i].index = F[m].index => i = m
         /\ \A i, m \in 1..Len(F) : F[i].instance = F[m].instance => i = m
         /\ \A i \in 1..Len(F) : \A j \in 1..Len(F[i].children) : F[i].children[j].index \in Nat
         /\ \A i \in 1..Len(F) : \A j, n \in 1..Len(F[i].children) :
              F[i].children[j].instance = F[i].children[n].instance => j = n
<1>1. Tidy(F) /\ Siblings(F) /\ \A i \in 1..Len(F) : F[i].index \in Nat
  BY DEF RenderedFrom
<1>2. \A i \in 1..Len(F) : Siblings(F[i].children)
  <2> TAKE i \in 1..Len(F)
  <2>1. ComesFrom(olds, F[i])
    BY DEF RenderedFrom
  <2> QED BY <2>1 DEF ComesFrom, LeavesFrom
<1>3. \A i, m \in 1..Len(F) : F[i].index = F[m].index => i = m
  BY <1>1 DEF Siblings
<1>4. \A i, m \in 1..Len(F) : F[i].instance = F[m].instance => i = m
  BY <1>1 DEF Siblings
<1>5. \A i \in 1..Len(F) : \A j \in 1..Len(F[i].children) : F[i].children[j].index \in Nat
  <2> TAKE i \in 1..Len(F)
  <2> TAKE j \in 1..Len(F[i].children)
  <2>1. F[i].children[j] \in LeafFibers
    BY <1>1, TidyFibers
  <2> QED BY <2>1 DEF LeafFibers, FibersOver
<1>6. \A i \in 1..Len(F) : \A j, n \in 1..Len(F[i].children) :
        F[i].children[j].instance = F[i].children[n].instance => j = n
  BY <1>2 DEF Siblings
<1> QED BY <1>1, <1>2, <1>3, <1>4, <1>5, <1>6

\* No two children, at the top or below, have the same name.
LEMMA LeavesDiffer ==
  ASSUME NEW olds, Shown(olds), NEW result, RenderedFrom(olds, result),
         NEW F, F = result.children,
         NEW i \in 1..Len(F), NEW j \in 1..Len(F[i].children),
         NEW m \in 1..Len(F), NEW n \in 1..Len(F[m].children),
         F[i].children[j].instance = F[m].children[n].instance
  PROVE  i = m /\ j = n
<1> DEFINE t == F[i]
           u == F[m]
           x == F[i].children[j]
           y == F[m].children[n]
<1>1. t.index \in Nat /\ u.index \in Nat /\ x.index \in Nat /\ y.index \in Nat
  BY RenderedIndexes
<1>2. (t.index = u.index => i = m) /\ (t.instance = u.instance => i = m)
  BY RenderedIndexes
<1>3. i = m => j = n
  BY RenderedIndexes
<1>4. LeafNamed(olds, t, x) /\ LeafNamed(olds, u, y)
  BY LeafNames
<1>5. x.instance = y.instance
  OBVIOUS
<1> HIDE DEF t, u, x, y
<1>6. CASE x.reused
  <2>1. PICK k \in 1..Len(olds) : \E l \in 1..Len(olds[k].children) :
               t.instance = Old(k) /\ x.instance = OldIn(k, l)
    BY <1>4, <1>6 DEF LeafNamed
  <2>2. PICK l \in 1..Len(olds[k].children) : t.instance = Old(k) /\ x.instance = OldIn(k, l)
    BY <2>1
  <2>3. k \in Nat /\ l \in Nat
    OBVIOUS
  <2>4. y.instance # NewIn(u.index, y.index)
    BY <1>1, <1>5, <2>2, <2>3, LongNames
  <2>5. PICK r \in 1..Len(olds) : \E s \in 1..Len(olds[r].children) :
               u.instance = Old(r) /\ y.instance = OldIn(r, s)
    BY <1>4, <2>4 DEF LeafNamed
  <2>6. PICK s \in 1..Len(olds[r].children) : u.instance = Old(r) /\ y.instance = OldIn(r, s)
    BY <2>5
  <2>9. r \in Nat /\ s \in Nat
    OBVIOUS
  <2>7. OldIn(k, l) = OldIn(r, s)
    BY <1>5, <2>2, <2>6, Zenon
  <2>8. k = r
    BY <2>3, <2>7, <2>9, LongNames
  <2> QED BY <1>2, <1>3, <2>2, <2>6, <2>8
<1>7. CASE ~x.reused
  <2>1. x.instance = NewIn(t.index, x.index)
    BY <1>4, <1>7 DEF LeafNamed
  <2>2. y.instance = NewIn(u.index, y.index)
    <3> SUFFICES ASSUME y.instance # NewIn(u.index, y.index)
                 PROVE  FALSE
      OBVIOUS
    <3>1. \E k, l \in Nat : y.instance = OldIn(k, l)
      BY <1>4 DEF LeafNamed
    <3>2. PICK k, l \in Nat : y.instance = OldIn(k, l)
      BY <3>1
    <3>3. OldIn(k, l) = NewIn(t.index, x.index)
      BY <1>5, <2>1, <3>2, Zenon
    <3> QED BY <1>1, <3>3, LongNames
  <2>3. t.index = u.index
    <3>1. NewIn(t.index, x.index) = NewIn(u.index, y.index)
      BY <1>5, <2>1, <2>2, Zenon
    <3> QED BY <1>1, <3>1, LongNames
  <2> QED BY <1>2, <1>3, <2>3
<1> QED BY <1>6, <1>7

LEMMA TopIsNoLeaf ==
  ASSUME NEW olds, Shown(olds), NEW result, RenderedFrom(olds, result),
         NEW F, F = result.children,
         NEW i \in 1..Len(F), NEW m \in 1..Len(F), NEW n \in 1..Len(F[m].children)
  PROVE  /\ F[i].instance # F[m].children[n].instance
         /\ F[i].instance # <<>> /\ F[m].children[n].instance # <<>>
<1>1. /\ F[i].index \in Nat /\ F[m].index \in Nat /\ F[m].children[n].index \in Nat
  BY RenderedIndexes
<1>2. \E k \in Nat : F[i].instance = Old(k) \/ F[i].instance = New(k)
  <2>1. \/ \E k \in 1..Len(olds) : F[i].instance = Old(k)
        \/ F[i].instance = New(F[i].index)
    BY TopNames, Zenon
  <2>2. \A k \in 1..Len(olds) : k \in Nat
    OBVIOUS
  <2> QED BY ONLY <1>1, <2>1, <2>2, Zenon
<1>3. \E k, l \in Nat : \/ F[m].children[n].instance = OldIn(k, l)
                        \/ F[m].children[n].instance = NewIn(k, l)
  <2>1. \/ \E k \in 1..Len(olds) : \E l \in 1..Len(olds[k].children) :
             F[m].children[n].instance = OldIn(k, l)
        \/ F[m].children[n].instance = NewIn(F[m].index, F[m].children[n].index)
    <3>1. LeafNamed(olds, F[m], F[m].children[n])
      BY LeafNames
    <3>2. ASSUME NEW top, NEW leaf, LeafNamed(olds, top, leaf)
          PROVE  \/ \E k \in 1..Len(olds) : \E l \in 1..Len(olds[k].children) :
                      leaf.instance = OldIn(k, l)
                 \/ leaf.instance = NewIn(top.index, leaf.index)
      BY Zenon, <3>2 DEF LeafNamed
    <3> QED BY Zenon, <3>1, <3>2
  <2>2. CASE \E k \in 1..Len(olds) : \E l \in 1..Len(olds[k].children) :
               F[m].children[n].instance = OldIn(k, l)
    <3>1. PICK k \in 1..Len(olds) : \E l \in 1..Len(olds[k].children) :
                 F[m].children[n].instance = OldIn(k, l)
      BY <2>2
    <3>2. PICK l \in 1..Len(olds[k].children) : F[m].children[n].instance = OldIn(k, l)
      BY <3>1
    <3>3. k \in Nat /\ l \in Nat
      OBVIOUS
    <3> QED BY Zenon, <3>2, <3>3
  <2>3. CASE F[m].children[n].instance = NewIn(F[m].index, F[m].children[n].index)
    BY Zenon, <1>1, <2>3
  <2> QED BY <2>1, <2>2, <2>3
<1>4. \A k, l, j \in Nat : /\ Old(k) # OldIn(l, j) /\ Old(k) # NewIn(l, j)
                           /\ New(k) # OldIn(l, j) /\ New(k) # NewIn(l, j)
  BY ShortIsNotLong
<1>5. F[i].instance # F[m].children[n].instance
  BY ONLY <1>2, <1>3, <1>4, Zenon
<1>6. /\ \A k \in Nat : Old(k) # <<>> /\ New(k) # <<>>
      /\ \A k, l \in Nat : OldIn(k, l) # <<>> /\ NewIn(k, l) # <<>>
  BY ShortNames
<1>7. F[i].instance # <<>> /\ F[m].children[n].instance # <<>>
  BY ONLY <1>2, <1>3, <1>6, Zenon
<1> QED BY <1>5, <1>7

LEMMA TopIsNamed ==
  ASSUME NEW olds, Shown(olds), NEW result, RenderedFrom(olds, result),
         NEW F, F = result.children, NEW i \in 1..Len(F)
  PROVE  F[i].instance # <<>>
<1>1. (\E k \in 1..Len(olds) : F[i].instance = Old(k)) \/ F[i].instance = New(F[i].index)
  BY TopNames
<1>2. F[i].index \in Nat
  BY RenderedIndexes
<1> QED BY <1>1, <1>2, ShortNames

LEMMA RenderedIsReady ==
  ASSUME NEW olds, Shown(olds), NEW result, RenderedFrom(olds, result),
         NEW F, F = result.children
  PROVE  Ready(F)
<1>1. Tidy(F) /\ \A a, b \in 1..Len(F) : F[a].instance = F[b].instance => a = b
  BY RenderedIndexes
<1>2. ASSUME NEW p \in HostPaths(F)
      PROVE  /\ p[1] \in 1..Len(F)
             /\ Len(p) # 2 => p = <<p[1]>> /\ NodeAt(F, p) = F[p[1]].instance
             /\ Len(p) = 2 => /\ p[2] \in 1..Len(F[p[1]].children) /\ p = <<p[1], p[2]>>
                              /\ NodeAt(F, p) = F[p[1]].children[p[2]].instance
  BY <1>1, PathsSplit DEF HostPaths, NodeAt
<1>3. UniqueNodes(F)
  <2> SUFFICES ASSUME NEW p \in HostPaths(F), NEW q \in HostPaths(F),
                      NodeAt(F, p) = NodeAt(F, q)
               PROVE  p = q
    BY DEF UniqueNodes
  <2>1. CASE Len(p) = 2 /\ Len(q) = 2
    <3>1. p[1] = q[1] /\ p[2] = q[2]
      BY <1>2, <2>1, LeavesDiffer
    <3> QED BY <1>2, <2>1, <3>1, Zenon
  <2>2. CASE Len(p) # 2 /\ Len(q) # 2
    BY <1>1, <1>2, <2>2
  <2>3. CASE Len(p) = 2 /\ Len(q) # 2
    BY <1>2, <2>3, TopIsNoLeaf
  <2>4. CASE Len(p) # 2 /\ Len(q) = 2
    BY <1>2, <2>4, TopIsNoLeaf
  <2> QED BY <2>1, <2>2, <2>3, <2>4
<1>4. \A p \in HostPaths(F) : NodeAt(F, p) # <<>>
  BY <1>2, TopIsNoLeaf, TopIsNamed
<1>5. ASSUME NEW i \in 1..Len(F), NEW j \in 1..Len(F[i].children), ~F[i].reused
      PROVE  ~Flag(F, <<i, j>>)
  <2>1. LeavesFrom(F[i], <<>>)
    BY <1>5, TopNames
  <2>2. ~F[i].children[j].placement
    BY <1>5, <2>1 DEF LeavesFrom, InOldOrder
  <2>3. ChildAt(F, <<i, j>>) = F[i].children[j]
    <3>1. Tidy(F) /\ i \in 1..Len(F) /\ j \in 1..Len(F[i].children)
      BY <1>1
    <3> QED BY ONLY <3>1, PathsIn
  <2> QED BY <2>2, <2>3 DEF Flag
<1> QED BY <1>1, <1>3, <1>4, <1>5 DEF Ready

-----------------------------------------------------------------------------
(* What is deleted                                                           *)

LEMMA OldsAreUnique ==
  ASSUME NEW olds, Shown(olds)
  PROVE  /\ Tidy(olds) /\ UniqueNodes(olds)
         /\ \A o \in HostPaths(olds) :
              /\ o[1] \in 1..Len(olds)
              /\ Len(o) # 2 => /\ o = <<o[1]>> /\ NodeAt(olds, o) = Old(o[1])
                               /\ IsHost(olds[o[1]])
              /\ Len(o) = 2 => /\ o[2] \in 1..Len(olds[o[1]].children) /\ o = <<o[1], o[2]>>
                               /\ NodeAt(olds, o) = OldIn(o[1], o[2])
                               /\ ~IsHost(olds[o[1]]) /\ IsHost(olds[o[1]].children[o[2]])
<1>1. Tidy(olds)
  BY ShownAreNamed
<1>2. ASSUME NEW o \in HostPaths(olds)
      PROVE  /\ o[1] \in 1..Len(olds) /\ o[1] \in Nat
             /\ Len(o) # 2 => /\ o = <<o[1]>> /\ NodeAt(olds, o) = Old(o[1])
                              /\ IsHost(olds[o[1]])
             /\ Len(o) = 2 => /\ o[2] \in 1..Len(olds[o[1]].children) /\ o = <<o[1], o[2]>>
                              /\ NodeAt(olds, o) = OldIn(o[1], o[2]) /\ o[2] \in Nat
                              /\ ~IsHost(olds[o[1]]) /\ IsHost(olds[o[1]].children[o[2]])
  <2>1. /\ o[1] \in 1..Len(olds)
        /\ Len(o) # 2 => o = <<o[1]>> /\ IsHost(olds[o[1]])
        /\ Len(o) = 2 => /\ o[2] \in 1..Len(olds[o[1]].children) /\ o = <<o[1], o[2]>>
                         /\ ~IsHost(olds[o[1]]) /\ IsHost(olds[o[1]].children[o[2]])
    BY <1>1, HostPathsSplit
  <2>2. CASE Len(o) # 2
    <3>1. NodeAt(olds, o) = olds[o[1]].instance
      BY <1>1, <2>1, <2>2, HostPathsSplit
    <3> QED BY <2>1, <2>2, <3>1, ShownAreNamed
  <2>3. CASE Len(o) = 2
    BY <1>1, <2>1, <2>3, HostsIn, ShownAreNamed
  <2> QED BY <2>2, <2>3
<1>3. UniqueNodes(olds)
  <2> SUFFICES ASSUME NEW p \in HostPaths(olds), NEW q \in HostPaths(olds),
                      NodeAt(olds, p) = NodeAt(olds, q)
               PROVE  p = q
    BY DEF UniqueNodes
  <2>1. CASE Len(p) = 2 /\ Len(q) = 2
    BY <1>2, <2>1, LongNames
  <2>2. CASE Len(p) # 2 /\ Len(q) # 2
    BY <1>2, <2>2, ShortNames
  <2>3. CASE Len(p) = 2 /\ Len(q) # 2
    BY <1>2, <2>3, ShortIsNotLong
  <2>4. CASE Len(p) # 2 /\ Len(q) = 2
    BY <1>2, <2>4, ShortIsNotLong
  <2> QED BY <2>1, <2>2, <2>3, <2>4
<1> QED BY <1>1, <1>2, <1>3

LEMMA LeafNodes ==
  ASSUME NEW fiber, fiber.children = <<>>
  PROVE  HostNodes(fiber) = IF IsHost(fiber) THEN <<fiber.instance>> ELSE <<>>
<1>1. CASE IsHost(fiber)
  BY <1>1 DEF HostNodes
<1>2. CASE ~IsHost(fiber)
  <2> DEFINE pieces == [k \in DOMAIN fiber.children |->
               IF IsHost(fiber.children[k]) THEN <<fiber.children[k].instance>> ELSE <<>>]
  <2>1. HostNodes(fiber) = FlattenSeq(pieces)
    BY <1>2 DEF HostNodes
  <2>2. pieces = <<>>
    OBVIOUS
  <2>3. FlattenSeq(<<>>) = <<>>
    <3>1. <<>> \in Seq(Seq(ChildNames)) /\ Len(<<>>) = 0
      OBVIOUS
    <3>2. FlattenSeq(<<>>) \in Seq(ChildNames) /\ Len(FlattenSeq(<<>>)) = 0
      BY <3>1, FlattenPlaces
    <3> QED BY <3>2
  <2> QED BY <1>2, <2>1, <2>2, <2>3
<1> QED BY <1>1, <1>2

LEMMA OneNode ==
  ASSUME NEW fiber, fiber.children = <<>>, NEW x
  PROVE  x \in ToSet(HostNodes(fiber)) <=> IsHost(fiber) /\ x = fiber.instance
<1>1. ToSet(<<fiber.instance>>) = {fiber.instance} /\ ToSet(<<>>) = {}
  BY DEF ToSet
<1> QED BY <1>1, LeafNodes

\* The nodes of old children that are deleted at the top
LEMMA TopDeleted ==
  ASSUME NEW olds, Shown(olds), NEW result, RenderedFrom(olds, result), NEW x
  PROVE  x \in Deleted(result.deletions) <=>
           \E o \in HostPaths(olds) :
             x = NodeAt(olds, o) /\ Has(result.deletions, olds[o[1]])
<1>1. Tidy(olds) /\ UniqueNodes(olds) /\ \A o \in HostPaths(olds) : o[1] \in 1..Len(olds)
  BY OldsAreUnique
<1>2. /\ result.deletions \in Seq(TopFibers)
      /\ \A k \in 1..Len(result.deletions) : Has(olds, result.deletions[k])
  BY DEF RenderedFrom
<1>3. \A fiber : fiber \in ToSet(result.deletions) <=> Has(result.deletions, fiber)
  BY <1>2, SetHas
<1>4. ASSUME NEW k \in 1..Len(olds), NEW y
      PROVE  y \in ToSet(HostNodes(olds[k])) <=>
               \E o \in HostPaths(olds) : o[1] = k /\ y = NodeAt(olds, o)
  <2> DEFINE nodes == HostNodes(olds[k])
             P == Under(olds, k)
  <2>1. PICK w : ListsNodes(w, nodes, olds, P)
    BY <1>1, ChildNodes
  <2>2. P \in SUBSET HostPaths(olds)
    BY DEF Under
  <2> HIDE DEF nodes, P
  <2>3. IsListed(olds, P, nodes)
    BY <1>1, <2>1, <2>2, Listed
  <2>4. /\ nodes \in Seq(ChildNames)
        /\ \A p \in P : Has(nodes, NodeAt(olds, p))
        /\ Has(nodes, y) => \E p \in P : y = NodeAt(olds, p)
    BY <2>3 DEF IsListed
  <2>5. y \in ToSet(nodes) <=> Has(nodes, y)
    BY <2>4, SetHas
  <2> QED BY <2>4, <2>5 DEF nodes, P, Under
<1>5. ASSUME NEW fiber \in ToSet(result.deletions), x \in ToSet(HostNodes(fiber))
      PROVE  \E o \in HostPaths(olds) : x = NodeAt(olds, o) /\ Has(result.deletions, olds[o[1]])
  <2>1. Has(result.deletions, fiber)
    BY <1>3
  <2>2. PICK k \in 1..Len(olds) : olds[k] = fiber
    BY <1>2, <2>1 DEF Has
  <2>3. PICK o \in HostPaths(olds) : o[1] = k /\ x = NodeAt(olds, o)
    BY <1>4, <1>5, <2>2
  <2> QED BY <2>1, <2>2, <2>3
<1>6. ASSUME NEW o \in HostPaths(olds), x = NodeAt(olds, o), Has(result.deletions, olds[o[1]])
      PROVE  x \in Deleted(result.deletions)
  BY <1>1, <1>3, <1>4, <1>6 DEF Deleted
<1> QED BY <1>5, <1>6 DEF Deleted

WasLeafOf(olds, fiber, x) ==
  \E k \in 1..Len(olds) : \E l \in 1..Len(olds[k].children) :
    /\ fiber.reused /\ fiber.instance = Old(k) /\ LeavesFrom(fiber, olds[k].children)
    /\ x = OldIn(k, l) /\ Has(fiber.deletions, olds[k].children[l])

\* The nodes of old children that are deleted in a group
LEMMA LeafDeleted ==
  ASSUME NEW olds, Shown(olds), NEW result, RenderedFrom(olds, result),
         NEW F, F = result.children, NEW i \in 1..Len(F), NEW x, x \in Deleted(F[i].deletions)
  PROVE  WasLeafOf(olds, F[i], x)
<1>1. Tidy(F) /\ Tidy(olds)
  BY OldsAreUnique DEF RenderedFrom
<1>2. F[i].deletions \in Seq(LeafFibers)
  BY <1>1, TidyFibers
<1>3. PICK fiber \in ToSet(F[i].deletions) : x \in ToSet(HostNodes(fiber))
  BY DEF Deleted
<1>4. Has(F[i].deletions, fiber)
  BY <1>2, <1>3, SetHas
<1>5. PICK d \in 1..Len(F[i].deletions) : F[i].deletions[d] = fiber
  BY <1>4 DEF Has
<1>6. F[i].reused
  <2> SUFFICES ASSUME ~F[i].reused
               PROVE  FALSE
    OBVIOUS
  <2>1. LeavesFrom(F[i], <<>>)
    BY TopNames
  <2>2. Has(<<>>, fiber)
    BY <1>5, <2>1 DEF LeavesFrom
  <2>3. ~\E k \in 1..Len(<<>>) : TRUE
    OBVIOUS
  <2> QED BY <2>2, <2>3 DEF Has
<1>7. PICK k \in 1..Len(olds) : F[i].instance = Old(k) /\ LeavesFrom(F[i], olds[k].children)
  BY <1>6, TopNames
<1>8. Has(olds[k].children, fiber)
  BY <1>5, <1>7 DEF LeavesFrom
<1>9. PICK l \in 1..Len(olds[k].children) : olds[k].children[l] = fiber
  BY <1>8 DEF Has
<1>10. fiber.children = <<>> /\ fiber.instance = OldIn(k, l)
  BY <1>1, <1>9, TidyFibers, ShownAreNamed
<1>11. x = OldIn(k, l)
  BY <1>3, <1>10, OneNode
<1> QED BY <1>4, <1>6, <1>7, <1>9, <1>11 DEF WasLeafOf

LEMMA LeafIsDeleted ==
  ASSUME NEW olds, Shown(olds), NEW k \in 1..Len(olds), NEW l \in 1..Len(olds[k].children),
         IsHost(olds[k].children[l]),
         NEW deletions \in Seq(LeafFibers), Has(deletions, olds[k].children[l])
  PROVE  OldIn(k, l) \in Deleted(deletions)
<1> DEFINE leaf == olds[k].children[l]
<1>1. leaf.children = <<>> /\ leaf.instance = OldIn(k, l)
  BY OldsAreUnique, TidyFibers, ShownAreNamed
<1>2. leaf \in ToSet(deletions)
  BY SetHas
<1>3. OldIn(k, l) \in ToSet(HostNodes(leaf))
  BY <1>1, OneNode
<1> QED BY <1>2, <1>3 DEF Deleted

LEMMA NodesAre ==
  ASSUME NEW c, Tidy(c), NEW p \in HostPaths(c)
  PROVE  /\ p[1] \in 1..Len(c)
         /\ Len(p) # 2 => /\ p = <<p[1]>> /\ NodeAt(c, p) = c[p[1]].instance
                          /\ IsHost(c[p[1]]) /\ (Flag(c, p) <=> c[p[1]].placement)
         /\ Len(p) = 2 => /\ p[2] \in 1..Len(c[p[1]].children) /\ p = <<p[1], p[2]>>
                          /\ NodeAt(c, p) = c[p[1]].children[p[2]].instance
                          /\ IsHost(c[p[1]].children[p[2]])
                          /\ (Flag(c, p) <=> c[p[1]].children[p[2]].placement)
                          /\ (Flag(c, <<p[1]>>) <=> c[p[1]].placement)
<1>1. p \in Paths(c) /\ IsHost(ChildAt(c, p))
  BY DEF HostPaths
<1>2. /\ p[1] \in 1..Len(c)
      /\ Len(p) # 2 => p = <<p[1]>> /\ ChildAt(c, p) = c[p[1]]
      /\ Len(p) = 2 => /\ p[2] \in 1..Len(c[p[1]].children) /\ p = <<p[1], p[2]>>
                       /\ ChildAt(c, p) = c[p[1]].children[p[2]]
  BY <1>1, PathsSplit
<1>3. ChildAt(c, <<p[1]>>) = c[p[1]]
  BY <1>2, PathsSplit
<1> QED BY <1>1, <1>2, <1>3 DEF NodeAt, Flag

\* What an old host node is in the rendered tree
LEMMA CameFrom ==
  ASSUME NEW olds, Shown(olds), NEW result, RenderedFrom(olds, result),
         NEW F, F = result.children, NEW p \in HostPaths(F), NEW o \in HostPaths(olds),
         NodeAt(F, p) = NodeAt(olds, o)
  PROVE  /\ F[p[1]].instance = olds[o[1]].instance
         /\ Len(p) = 2 <=> Len(o) = 2
         /\ Len(p) = 2 => F[p[1]].children[p[2]].instance = olds[o[1]].children[o[2]].instance
<1> DEFINE i == p[1]
           j == p[2]
           k == o[1]
           l == o[2]
<1>0. Tidy(F)
  BY DEF RenderedFrom
<1>1. /\ i \in 1..Len(F)
      /\ Len(p) # 2 => NodeAt(F, p) = F[i].instance
      /\ Len(p) = 2 => j \in 1..Len(F[i].children) /\ NodeAt(F, p) = F[i].children[j].instance
  BY <1>0, NodesAre
<1>2. /\ k \in 1..Len(olds) /\ k \in Nat
      /\ Len(o) # 2 => NodeAt(olds, o) = Old(k)
      /\ Len(o) = 2 => /\ l \in 1..Len(olds[k].children) /\ l \in Nat
                       /\ NodeAt(olds, o) = OldIn(k, l)
  BY OldsAreUnique
<1>3. olds[k].instance = Old(k)
  BY <1>2, ShownAreNamed
<1>4. Len(o) = 2 => olds[k].children[l].instance = OldIn(k, l)
  BY <1>2, ShownAreNamed
<1>5. F[i].index \in Nat
  BY <1>1, RenderedIndexes
<1>6. \E m \in Nat : F[i].instance = Old(m) \/ F[i].instance = New(m)
  BY <1>1, <1>5, TopNames
<1>7. Len(p) = 2 => LeafNamed(olds, F[i], F[i].children[j])
  BY <1>1, LeafNames
<1>8. Len(p) = 2 => F[i].children[j].index \in Nat
  BY <1>1, RenderedIndexes
<1> DEFINE t == F[i]
           x == F[i].children[j]
<1> HIDE DEF i, j, k, l, t, x
<1>9. CASE Len(p) # 2 /\ Len(o) # 2
  BY <1>1, <1>2, <1>3, <1>9 DEF i, j, k, l
<1>10. CASE Len(p) # 2 /\ Len(o) = 2
  BY <1>1, <1>2, <1>6, <1>10, ShortIsNotLong
<1>11. CASE Len(p) = 2
  <2>1. /\ x.instance = NodeAt(olds, o) /\ LeafNamed(olds, t, x)
        /\ x.index \in Nat /\ t.index \in Nat
    BY <1>1, <1>5, <1>7, <1>8, <1>11 DEF x, t
  <2>2. x.instance # NewIn(t.index, x.index)
    BY <1>2, <2>1, LongNames, ShortIsNotLong
  <2>3. PICK r \in 1..Len(olds) : \E s \in 1..Len(olds[r].children) :
               t.instance = Old(r) /\ x.instance = OldIn(r, s)
    BY <2>1, <2>2 DEF LeafNamed
  <2>4. PICK s \in 1..Len(olds[r].children) : t.instance = Old(r) /\ x.instance = OldIn(r, s)
    BY <2>3
  <2>5. r \in Nat /\ s \in Nat
    OBVIOUS
  <2>6. Len(o) = 2
    BY <1>2, <2>1, <2>4, <2>5, ShortIsNotLong
  <2>7. OldIn(k, l) = OldIn(r, s)
    BY <1>2, <2>1, <2>4, <2>6
  <2>8. k = r /\ l = s
    BY <1>2, <2>5, <2>6, <2>7, LongNames
  <2> QED BY <1>3, <1>4, <1>11, <2>4, <2>6, <2>8 DEF i, j, k, l, t, x
<1> QED BY <1>9, <1>10, <1>11

\* A child in use is not deleted.
LEMMA UsedAtTop ==
  ASSUME NEW olds, Shown(olds), NEW result, RenderedFrom(olds, result),
         NEW F, F = result.children, NEW p \in HostPaths(F), NEW o \in HostPaths(olds),
         NodeAt(F, p) = NodeAt(olds, o)
  PROVE  ~Has(result.deletions, olds[o[1]])
<1>1. F[p[1]].instance = olds[o[1]].instance
  BY CameFrom
<1>2. p[1] \in 1..Len(F) /\ o[1] \in 1..Len(olds)
  BY NodesAre, OldsAreUnique DEF RenderedFrom
<1>3. Carries(result.children, olds[o[1]].instance)
  BY <1>1, <1>2 DEF Carries
<1>4. UsedOrDeleted(result, olds[o[1]])
  BY <1>2 DEF RenderedFrom
<1> QED BY <1>3, <1>4 DEF UsedOrDeleted

LEMMA RenderedIsApart ==
  ASSUME NEW olds, Shown(olds), NEW result, RenderedFrom(olds, result),
         NEW F, F = result.children
  PROVE  Apart(F)
<1> SUFFICES ASSUME NEW i \in 1..Len(F), NEW p \in HostPaths(F),
                    NodeAt(F, p) \in Deleted(F[i].deletions)
             PROVE  FALSE
  BY DEF Apart
<1> DEFINE x == NodeAt(F, p)
<1>1. Tidy(F) /\ Tidy(olds)
  BY OldsAreUnique DEF RenderedFrom
<1>2. PICK k \in 1..Len(olds) : \E l \in 1..Len(olds[k].children) :
           /\ F[i].reused /\ F[i].instance = Old(k) /\ LeavesFrom(F[i], olds[k].children)
           /\ x = OldIn(k, l) /\ Has(F[i].deletions, olds[k].children[l])
  <2>1. WasLeafOf(olds, F[i], x)
    BY LeafDeleted
  <2> QED BY <2>1 DEF WasLeafOf
<1>3. PICK l \in 1..Len(olds[k].children) :
           /\ F[i].reused /\ F[i].instance = Old(k) /\ LeavesFrom(F[i], olds[k].children)
           /\ x = OldIn(k, l) /\ Has(F[i].deletions, olds[k].children[l])
  BY <1>2
<1>4. k \in Nat /\ l \in Nat
  OBVIOUS
<1>5. olds[k].children[l].instance = x
  BY <1>3, ShownAreNamed
<1>6. ~Carries(F[i].children, x)
  <2>1. UsedOrDeleted(F[i], olds[k].children[l])
    BY <1>3 DEF LeavesFrom
  <2> QED BY <1>3, <1>5, <2>1 DEF UsedOrDeleted, CarriesOnce, Carries
<1>7. /\ p[1] \in 1..Len(F)
      /\ Len(p) # 2 => x = F[p[1]].instance
      /\ Len(p) = 2 => p[2] \in 1..Len(F[p[1]].children)
                       /\ x = F[p[1]].children[p[2]].instance
  BY <1>1, NodesAre
<1> HIDE DEF x
<1>8. CASE Len(p) # 2
  <2>1. \E m \in Nat : x = Old(m) \/ x = New(m)
    <3>1. (\E m \in 1..Len(olds) : x = Old(m)) \/ x = New(F[p[1]].index)
      BY <1>7, <1>8, TopNames
    <3>2. F[p[1]].index \in Nat
      BY <1>7, RenderedIndexes
    <3> QED BY <3>1, <3>2
  <2> QED BY <1>3, <1>4, <2>1, ShortIsNotLong
<1>9. CASE Len(p) = 2
  <2> DEFINE t == F[p[1]]
             leaf == F[p[1]].children[p[2]]
  <2>1. LeafNamed(olds, t, leaf)
    BY <1>7, <1>9, LeafNames
  <2>2. t.index \in Nat /\ leaf.index \in Nat
    BY <1>7, <1>9, RenderedIndexes
  <2>3. leaf.instance = x
    BY <1>7, <1>9
  <2>4. t.instance = F[i].instance => p[1] = i
    BY <1>7, RenderedIndexes
  <2> HIDE DEF t, leaf
  <2>5. x # NewIn(t.index, leaf.index)
    BY <1>3, <1>4, <2>2, LongNames
  <2>6. PICK r \in 1..Len(olds) : \E s \in 1..Len(olds[r].children) :
               t.instance = Old(r) /\ x = OldIn(r, s)
    BY <2>1, <2>3, <2>5 DEF LeafNamed
  <2>7. PICK s \in 1..Len(olds[r].children) : t.instance = Old(r) /\ x = OldIn(r, s)
    BY <2>6
  <2>8. r \in Nat /\ s \in Nat
    OBVIOUS
  <2>9. r = k
    BY <1>3, <1>4, <2>7, <2>8, Zenon, LongNames
  <2>10. p[1] = i
    BY <1>3, <2>4, <2>7, <2>9
  <2>11. Carries(F[i].children, x)
    BY <1>7, <1>9, <2>10 DEF Carries
  <2> QED BY <1>6, <2>11
<1> QED BY <1>8, <1>9

-----------------------------------------------------------------------------
(* What is in its place before the first child is committed                  *)

WasHost(olds, x) == \E o \in HostPaths(olds) : x = NodeAt(olds, o)

LEMMA PresentWas ==
  ASSUME NEW olds, Shown(olds), NEW result, RenderedFrom(olds, result),
         NEW F, F = result.children, NEW p \in HostPaths(F), Present(F, p)
  PROVE  WasHost(olds, NodeAt(F, p))
<1> DEFINE i == p[1]
           j == p[2]
<1>1. Tidy(F) /\ Tidy(olds)
  BY OldsAreUnique DEF RenderedFrom
<1>2. /\ i \in 1..Len(F)
      /\ Len(p) # 2 => /\ NodeAt(F, p) = F[i].instance /\ IsHost(F[i])
                       /\ (Flag(F, p) <=> F[i].placement)
      /\ Len(p) = 2 => /\ j \in 1..Len(F[i].children) /\ p = <<i, j>>
                       /\ NodeAt(F, p) = F[i].children[j].instance
                       /\ IsHost(F[i].children[j])
                       /\ (Flag(F, p) <=> F[i].children[j].placement)
                       /\ (Flag(F, <<i>>) <=> F[i].placement)
  BY <1>1, NodesAre
<1>3. ~F[i].placement => F[i].reused
  BY <1>2 DEF RenderedFrom, InOldOrder
<1>4. CASE Len(p) # 2
  <2>1. F[i].reused
    BY <1>2, <1>3, <1>4 DEF Present
  <2>2. PICK k \in 1..Len(olds) : F[i].instance = Old(k) /\ F[i].type = olds[k].type
    BY <1>2, <2>1, TopNames
  <2>3. IsHost(olds[k])
    BY <1>2, <1>4, <2>2 DEF IsHost
  <2>4. <<k>> \in HostPaths(olds) /\ NodeAt(olds, <<k>>) = olds[k].instance
    BY <1>1, <2>3, HostPathsSplit
  <2>5. olds[k].instance = Old(k)
    BY ShownAreNamed
  <2> QED BY <1>2, <1>4, <2>2, <2>4, <2>5 DEF WasHost
<1>5. CASE Len(p) = 2
  <2> DEFINE leaf == F[i].children[j]
  <2>1. F[i].reused
    BY <1>2, <1>3, <1>5 DEF Present
  <2>2. PICK r \in 1..Len(olds) : LeavesFrom(F[i], olds[r].children)
    BY <1>2, <2>1, TopNames
  <2>3. leaf.reused
    BY <1>2, <1>5, <2>1, <2>2 DEF LeavesFrom, InOldOrder, Present
  <2>4. LeafNamed(olds, F[i], leaf)
    BY <1>2, <1>5, LeafNames
  <2>5. PICK k \in 1..Len(olds) : \E l \in 1..Len(olds[k].children) :
               leaf.instance = OldIn(k, l) /\ leaf.type = olds[k].children[l].type
    BY <2>3, <2>4 DEF LeafNamed
  <2>6. PICK l \in 1..Len(olds[k].children) :
               leaf.instance = OldIn(k, l) /\ leaf.type = olds[k].children[l].type
    BY <2>5
  <2>7. IsHost(olds[k].children[l])
    BY <1>2, <1>5, <2>6 DEF IsHost
  <2>8. <<k, l>> \in HostPaths(olds)
        /\ NodeAt(olds, <<k, l>>) = olds[k].children[l].instance
    BY <1>1, <2>7, HostsIn
  <2>9. olds[k].children[l].instance = OldIn(k, l)
    BY ShownAreNamed
  <2> QED BY <1>2, <1>5, <2>6, <2>8, <2>9 DEF WasHost
<1> QED BY <1>4, <1>5

\* What is in its place is in the order it had.
LEMMA SettledOrder ==
  ASSUME NEW olds, Shown(olds), NEW result, RenderedFrom(olds, result),
         NEW F, F = result.children,
         NEW p \in HostPaths(F), NEW q \in HostPaths(F), Settled(F, p), Settled(F, q),
         Precedes(p, q),
         NEW o \in HostPaths(olds), NodeAt(F, p) = NodeAt(olds, o),
         NEW u \in HostPaths(olds), NodeAt(F, q) = NodeAt(olds, u)
  PROVE  Precedes(o, u)
<1>1. Tidy(F) /\ Tidy(olds)
  BY OldsAreUnique DEF RenderedFrom
<1>2. /\ p[1] \in 1..Len(F) /\ ~F[p[1]].placement
      /\ Len(p) = 2 => p[2] \in 1..Len(F[p[1]].children) /\ ~F[p[1]].children[p[2]].placement
  BY <1>1, NodesAre DEF Settled
<1>3. /\ q[1] \in 1..Len(F) /\ ~F[q[1]].placement
      /\ Len(q) = 2 => q[2] \in 1..Len(F[q[1]].children) /\ ~F[q[1]].children[q[2]].placement
  BY <1>1, NodesAre DEF Settled
<1>4. /\ F[p[1]].instance = olds[o[1]].instance
      /\ Len(p) = 2 <=> Len(o) = 2
      /\ Len(p) = 2 => F[p[1]].children[p[2]].instance = olds[o[1]].children[o[2]].instance
  BY CameFrom
<1>5. /\ F[q[1]].instance = olds[u[1]].instance
      /\ Len(q) = 2 <=> Len(u) = 2
      /\ Len(q) = 2 => F[q[1]].children[q[2]].instance = olds[u[1]].children[u[2]].instance
  BY CameFrom
<1>6. /\ o[1] \in 1..Len(olds) /\ (Len(o) = 2 => o[2] \in 1..Len(olds[o[1]].children))
      /\ u[1] \in 1..Len(olds) /\ (Len(u) = 2 => u[2] \in 1..Len(olds[u[1]].children))
  BY OldsAreUnique
<1>7. olds \in Seq(TopFibers) /\ Siblings(olds)
  BY DEF Shown
<1>8. CASE p[1] < q[1]
  <2>1. olds[o[1]].index < olds[u[1]].index
    BY <1>2, <1>3, <1>4, <1>5, <1>6, <1>8 DEF RenderedFrom, InOldOrder
  <2>2. o[1] < u[1]
    BY <1>6, <1>7, <2>1, SiblingOrder DEF TopFibers
  <2> QED BY <2>2 DEF Precedes
<1>9. CASE ~(p[1] < q[1])
  <2>1. p[1] = q[1] /\ Len(p) = 2 /\ Len(q) = 2 /\ p[2] < q[2]
    BY <1>9 DEF Precedes
  <2>2. o[1] = u[1]
    BY <1>4, <1>5, <1>6, <1>7, <2>1 DEF Siblings
  <2>3. F[p[1]].reused
    BY <1>2 DEF RenderedFrom, InOldOrder
  <2>4. PICK k \in 1..Len(olds) :
               F[p[1]].instance = Old(k) /\ LeavesFrom(F[p[1]], olds[k].children)
    BY <1>2, <2>3, TopNames
  <2>5. k = o[1]
    <3>1. olds[k].instance = olds[o[1]].instance
      BY <1>4, <2>4, ShownAreNamed
    <3> QED BY <1>6, <1>7, <3>1 DEF Siblings
  <2>6. InOldOrder(olds[k].children, F[p[1]].reused, F[p[1]].children)
    BY <2>4 DEF LeavesFrom
  <2>7. olds[k].children[o[2]].index < olds[k].children[u[2]].index
    <3> DEFINE kids == F[p[1]].children
               prev == olds[k].children
    <3>1. /\ p[2] \in 1..Len(kids) /\ q[2] \in 1..Len(kids) /\ p[2] < q[2]
          /\ ~kids[p[2]].placement /\ ~kids[q[2]].placement
      BY <1>2, <1>3, <2>1
    <3>2. kids[p[2]].instance = prev[o[2]].instance /\ kids[q[2]].instance = prev[u[2]].instance
      BY <1>4, <1>5, <2>1, <2>2, <2>5
    <3>3. o[2] \in 1..Len(prev) /\ u[2] \in 1..Len(prev)
      BY <1>4, <1>5, <1>6, <2>1, <2>2, <2>5
    <3>4. InOldOrder(prev, TRUE, kids)
      BY <2>3, <2>6 DEF InOldOrder
    <3> HIDE DEF kids, prev
    <3> QED BY <3>1, <3>2, <3>3, <3>4 DEF InOldOrder, kids, prev
  <2>8. olds[k].children \in Seq(LeafFibers) /\ Siblings(olds[k].children)
    BY <1>1, TidyFibers, ShownAreNamed
  <2>9. o[2] \in 1..Len(olds[k].children) /\ u[2] \in 1..Len(olds[k].children)
    BY <1>4, <1>5, <1>6, <2>1, <2>2, <2>5
  <2>10. o[2] < u[2]
    BY <2>7, <2>8, <2>9, SiblingOrder DEF LeafFibers
  <2> QED BY <1>4, <1>5, <2>1, <2>2, <2>10 DEF Precedes
<1> QED BY <1>8, <1>9

\* What the deletions of the parent leave in the host
LEMMA LeftNodes ==
  ASSUME NEW olds, Shown(olds), NEW result, RenderedFrom(olds, result),
         NEW t, t = CommitDeletions(Tree(olds), result.deletions)
  PROVE  /\ t \in Seq(ChildNames) /\ Distinct(t)
         /\ \A x : Has(t, x) <=>
              \E o \in HostPaths(olds) :
                x = NodeAt(olds, o) /\ ~Has(result.deletions, olds[o[1]])
         /\ \A o, u \in HostPaths(olds) :
              /\ Precedes(o, u) /\ Has(t, NodeAt(olds, o)) /\ Has(t, NodeAt(olds, u))
              => Before(t, NodeAt(olds, o), NodeAt(olds, u))
<1> DEFINE H == Tree(olds)
           D == Deleted(result.deletions)
<1>1. Tidy(olds) /\ UniqueNodes(olds)
  BY OldsAreUnique
<1>2. PICK w : ListsNodes(w, H, olds, HostPaths(olds))
  BY <1>1, TreeIs
<1>3. IsListed(olds, HostPaths(olds), H)
  BY <1>1, <1>2, Listed
<1>4. t = Without(H, D)
  BY DEF CommitDeletions, Deleted
<1>5. \A x : x \in D <=> \E o \in HostPaths(olds) :
                           x = NodeAt(olds, o) /\ Has(result.deletions, olds[o[1]])
  BY TopDeleted
<1> HIDE DEF H, D
<1>6. /\ t \in Seq(ChildNames)
      /\ \A x : Has(t, x) <=> Has(H, x) /\ x \notin D
      /\ Distinct(H) => Distinct(t)
      /\ \A x, y : Before(H, x, y) /\ x \notin D /\ y \notin D => Before(t, x, y)
  BY <1>3, <1>4, WithoutKeeps DEF IsListed
<1>7. ASSUME NEW x
      PROVE  Has(t, x) <=> \E o \in HostPaths(olds) :
                             x = NodeAt(olds, o) /\ ~Has(result.deletions, olds[o[1]])
  BY <1>1, <1>3, <1>5, <1>6 DEF IsListed, UniqueNodes
<1>8. ASSUME NEW o \in HostPaths(olds), NEW u \in HostPaths(olds), Precedes(o, u),
             Has(t, NodeAt(olds, o)), Has(t, NodeAt(olds, u))
      PROVE  Before(t, NodeAt(olds, o), NodeAt(olds, u))
  BY <1>3, <1>6, <1>8 DEF IsListed
<1> QED BY <1>3, <1>6, <1>7, <1>8 DEF IsListed

\* A node that is left is used, or deleted in its group.
LEMMA LeftIsUsed ==
  ASSUME NEW olds, Shown(olds), NEW result, RenderedFrom(olds, result),
         NEW F, F = result.children, NEW o \in HostPaths(olds),
         ~Has(result.deletions, olds[o[1]])
  PROVE  NodeAt(olds, o) \in GoneFrom(F, 1) \/ WasHost(F, NodeAt(olds, o))
<1> DEFINE k == o[1]
           l == o[2]
<1>1. /\ k \in 1..Len(olds) /\ k \in Nat
      /\ Len(o) # 2 => NodeAt(olds, o) = Old(k) /\ IsHost(olds[k])
      /\ Len(o) = 2 => /\ l \in 1..Len(olds[k].children) /\ l \in Nat
                       /\ NodeAt(olds, o) = OldIn(k, l) /\ IsHost(olds[k].children[l])
  BY OldsAreUnique
<1>2. Tidy(F) /\ Tidy(olds)
  BY OldsAreUnique DEF RenderedFrom
<1>3. PICK i \in 1..Len(F) : F[i].instance = Old(k)
  BY <1>1, ShownAreNamed DEF RenderedFrom, Once, Has, UsedOrDeleted, CarriesOnce
<1>4. F[i].index \in Nat
  BY RenderedIndexes
<1>5. F[i].instance # New(F[i].index)
  BY <1>1, <1>3, <1>4, ShortNames
<1>6. PICK m \in 1..Len(olds) : /\ F[i].instance = Old(m) /\ F[i].type = olds[m].type
                               /\ LeavesFrom(F[i], olds[m].children)
  BY <1>5, TopNames
<1>7. m = k
  <2>1. Old(m) = Old(k)
    BY <1>3, <1>6
  <2> QED BY <1>1, <2>1, ShortNames
<1>8. F[i].reused
  BY <1>5, TopNames
<1>9. CASE Len(o) # 2
  <2>1. IsHost(F[i])
    BY <1>1, <1>6, <1>7, <1>9 DEF IsHost
  <2>2. <<i>> \in HostPaths(F) /\ NodeAt(F, <<i>>) = F[i].instance
    BY <1>2, <2>1, HostPathsSplit
  <2> QED BY <1>1, <1>3, <1>9, <2>2 DEF WasHost
<1>10. CASE Len(o) = 2
  <2> DEFINE old == olds[k].children[l]
  <2>1. UsedOrDeleted(F[i], old)
    BY <1>1, <1>6, <1>7, <1>8, <1>10 DEF LeavesFrom
  <2>2. old.instance = OldIn(k, l)
    BY <1>1, <1>10, ShownAreNamed
  <2>3. CASE Once(F[i].deletions, old)
    <3>1. F[i].deletions \in Seq(LeafFibers) /\ Has(F[i].deletions, old)
      BY <1>2, <2>3, TidyFibers DEF Once, Has
    <3>2. OldIn(k, l) \in Deleted(F[i].deletions)
      BY <1>1, <1>10, <3>1, LeafIsDeleted
    <3>3. OldIn(k, l) \in GoneFrom(F, 1)
      BY <3>2 DEF GoneFrom
    <3> QED BY <1>1, <1>10, <3>3
  <2>4. CASE CarriesOnce(F[i].children, old.instance)
    <3>1. PICK j \in 1..Len(F[i].children) : F[i].children[j].instance = OldIn(k, l)
      BY <2>2, <2>4 DEF CarriesOnce
    <3> DEFINE leaf == F[i].children[j]
    <3>2. LeafNamed(olds, F[i], leaf)
      BY LeafNames
    <3>3. leaf.index \in Nat
      BY RenderedIndexes
    <3>4. leaf.instance # NewIn(F[i].index, leaf.index)
      <4>1. \A a, b \in Nat : OldIn(k, l) # NewIn(a, b)
        BY <1>1, <1>10, LongNames
      <4>2. OldIn(k, l) # NewIn(F[i].index, leaf.index)
        BY <1>4, <3>3, <4>1
      <4> QED BY <3>1, <4>2
    <3>5. PICK r \in 1..Len(olds) : \E s \in 1..Len(olds[r].children) :
                 leaf.instance = OldIn(r, s) /\ leaf.type = olds[r].children[s].type
      BY <3>2, <3>4 DEF LeafNamed
    <3>6. PICK s \in 1..Len(olds[r].children) :
                 leaf.instance = OldIn(r, s) /\ leaf.type = olds[r].children[s].type
      BY <3>5
    <3>7. r = k /\ s = l
      <4>1. OldIn(r, s) = OldIn(k, l)
        BY <3>1, <3>6, Zenon
      <4>2. r \in Nat /\ s \in Nat
        OBVIOUS
      <4> QED BY <1>1, <1>10, <4>1, <4>2, LongNames
    <3>8. IsHost(leaf)
      BY <1>1, <1>10, <3>6, <3>7 DEF IsHost
    <3>9. <<i, j>> \in HostPaths(F) /\ NodeAt(F, <<i, j>>) = leaf.instance
      BY <1>2, <3>8, HostsIn
    <3> QED BY <1>1, <1>10, <3>1, <3>9 DEF WasHost
  <2> QED BY <2>1, <2>3, <2>4 DEF UsedOrDeleted
<1> QED BY <1>9, <1>10

LEMMA StartTracks ==
  ASSUME NEW olds, Shown(olds), NEW result, RenderedFrom(olds, result),
         NEW F, F = result.children,
         NEW t, t = CommitDeletions(Tree(olds), result.deletions)
  PROVE  Tracks(t, F, GoneFrom(F, 1))
<1>1. /\ t \in Seq(ChildNames) /\ Distinct(t)
      /\ \A x : Has(t, x) <=>
           \E o \in HostPaths(olds) : x = NodeAt(olds, o) /\ ~Has(result.deletions, olds[o[1]])
      /\ \A o, u \in HostPaths(olds) :
           /\ Precedes(o, u) /\ Has(t, NodeAt(olds, o)) /\ Has(t, NodeAt(olds, u))
           => Before(t, NodeAt(olds, o), NodeAt(olds, u))
  BY LeftNodes
<1>2. ASSUME NEW x, Has(t, x)
      PROVE  x \in GoneFrom(F, 1) \/ \E p \in HostPaths(F) : x = NodeAt(F, p)
  BY <1>1, <1>2, LeftIsUsed DEF WasHost
<1>3. ASSUME NEW p \in HostPaths(F), Present(F, p)
      PROVE  Has(t, NodeAt(F, p)) /\ \E o \in HostPaths(olds) : NodeAt(F, p) = NodeAt(olds, o)
  <2>1. WasHost(olds, NodeAt(F, p))
    BY <1>3, PresentWas
  <2>2. PICK o \in HostPaths(olds) : NodeAt(F, p) = NodeAt(olds, o)
    BY <2>1 DEF WasHost
  <2>3. ~Has(result.deletions, olds[o[1]])
    BY <2>2, UsedAtTop
  <2> QED BY <1>1, <2>2, <2>3
<1>4. ASSUME NEW p \in HostPaths(F), NEW q \in HostPaths(F), Settled(F, p), Settled(F, q),
             Precedes(p, q)
      PROVE  Before(t, NodeAt(F, p), NodeAt(F, q))
  <2>1. Present(F, p) /\ Present(F, q)
    BY <1>4 DEF Settled, Present
  <2>2. PICK o \in HostPaths(olds) : NodeAt(F, p) = NodeAt(olds, o)
    BY <1>3, <2>1
  <2>3. PICK u \in HostPaths(olds) : NodeAt(F, q) = NodeAt(olds, u)
    BY <1>3, <2>1
  <2>4. Precedes(o, u)
    BY <1>4, <2>2, <2>3, SettledOrder
  <2>5. Has(t, NodeAt(F, p)) /\ Has(t, NodeAt(F, q))
    BY <1>3, <2>1
  <2> QED BY <1>1, <2>2, <2>3, <2>4, <2>5
<1> QED BY <1>1, <1>2, <1>3, <1>4 DEF Tracks

-----------------------------------------------------------------------------
(* The end of a commit                                                       *)

\* A host that has the nodes of the tree in their order
LEMMA SameTree ==
  ASSUME NEW c, Tidy(c), UniqueNodes(c), NEW host \in Seq(ChildNames), Distinct(host),
         \A x : Has(host, x) <=> \E p \in HostPaths(c) : x = NodeAt(c, p),
         \A p, q \in HostPaths(c) : Precedes(p, q) => Before(host, NodeAt(c, p), NodeAt(c, q))
  PROVE  host = Tree(c)
<1> DEFINE P == HostPaths(c)
           w == [k \in 1..Len(host) |-> CHOOSE p \in P : host[k] = NodeAt(c, p)]
<1>1. P \subseteq PathSet
  BY HostPathsSplit
<1>2. \A p, q \in P : NodeAt(c, p) = NodeAt(c, q) => p = q
  BY DEF UniqueNodes
<1>3. \A p, q \in P : p # q => Precedes(p, q) \/ Precedes(q, p)
  BY HostPathsSplit
<1>4. \A k \in 1..Len(host) : w[k] \in P /\ host[k] = NodeAt(c, w[k])
  <2> TAKE k \in 1..Len(host)
  <2>1. Has(host, host[k])
    BY DEF Has
  <2>2. \E p \in P : host[k] = NodeAt(c, p)
    BY <2>1
  <2> QED BY <2>2
<1>5. Len(host) \in Nat /\ w \in Seq(P) /\ Len(w) = Len(host)
  BY <1>4
<1> HIDE DEF w, P
<1>6. \A p \in P : Has(w, p)
  <2> SUFFICES ASSUME NEW p \in P
               PROVE  Has(w, p)
    OBVIOUS
  <2>1. Has(host, NodeAt(c, p))
    BY DEF P
  <2>2. PICK k \in 1..Len(host) : host[k] = NodeAt(c, p)
    BY <2>1 DEF Has
  <2>3. w[k] = p
    BY <1>2, <1>4, <2>2
  <2> QED BY <1>5, <2>3 DEF Has
<1>7. \A k, l \in 1..Len(w) : k < l => Precedes(w[k], w[l])
  BY <1>3, <1>4, <1>5 DEF Distinct, P, Before
<1>8. Lists(w, P)
  BY <1>5, <1>6, <1>7 DEF Lists
<1>9. PICK v : ListsNodes(v, Tree(c), c, P)
  BY TreeIs DEF P
<1>10. w = v
  BY <1>1, <1>8, <1>9, SameList DEF ListsNodes
<1>11. /\ Tree(c) \in Seq(ChildNames) /\ Len(Tree(c)) = Len(host)
       /\ \A k \in 1..Len(host) : Tree(c)[k] = NodeAt(c, w[k])
  BY <1>5, <1>9, <1>10 DEF ListsNodes
<1>12. \A k \in 1..Len(host) : Tree(c)[k] = host[k]
  BY <1>4, <1>11
<1> QED BY <1>11, <1>12, SeqEqual

\* The host is the tree again.
LEMMA CommitEnds ==
  ASSUME NEW olds, Shown(olds), NEW result, RenderedFrom(olds, result),
         NEW F, F = result.children,
         NEW t, t = CommitDeletions(Tree(olds), result.deletions),
         NEW start, start = [children |-> F, host |-> t],
         NEW N, N = Len(F), NEW done, CommitRun(done, start, N)
  PROVE  /\ Alike(done[N].children, F)
         /\ done[N].host = Tree(done[N].children)
         /\ \A p \in Paths(F) : ~Flag(done[N].children, p)
<1>1. Ready(F) /\ Apart(F)
  BY RenderedIsReady, RenderedIsApart
<1>2. Tidy(F) /\ F \in Seq(TopFibers)
  BY DEF RenderedFrom, Tidy
<1>3. Tracks(t, F, GoneFrom(F, 1))
  BY StartTracks
<1>4. t \in Seq(ChildNames)
  BY <1>3 DEF Tracks
<1>5. UnderWay(start, F, GoneFrom(F, 1))
  BY <1>1, <1>2, <1>3, <1>4, AlikeItself DEF UnderWay, Commits
<1>6. /\ UnderWay(done[N], F, {})
      /\ \A p \in Paths(F) : ~Flag(done[N].children, p)
  BY <1>1, <1>5, CommitRuns
<1> DEFINE E == done[N].children
           H == done[N].host
<1>7. /\ Ready(E) /\ Alike(E, F) /\ Tracks(H, E, {})
  BY <1>6 DEF UnderWay
<1>8. \A p \in Paths(F) : ~Flag(E, p)
  BY <1>6
<1> HIDE DEF E, H
<1>9. HostPaths(E) = HostPaths(F) /\ Tidy(E)
  BY <1>2, <1>7, AlikeIs
<1>10. ASSUME NEW p \in HostPaths(E)
       PROVE  Settled(E, p) /\ Present(E, p)
  BY <1>2, <1>8, <1>9, HostPathsSplit, PathsSplit DEF Settled, Present
<1>11. \A x : Has(H, x) <=> \E p \in HostPaths(E) : x = NodeAt(E, p)
  BY <1>7, <1>10 DEF Tracks
<1>12. \A p, q \in HostPaths(E) : Precedes(p, q) => Before(H, NodeAt(E, p), NodeAt(E, q))
  BY <1>7, <1>10 DEF Tracks
<1>13. H \in Seq(ChildNames) /\ Distinct(H) /\ UniqueNodes(E)
  BY <1>7 DEF Tracks, Ready
<1>14. H = Tree(E)
  BY <1>9, <1>11, <1>12, <1>13, SameTree
<1> QED BY <1>7, <1>8, <1>14 DEF E, H

-----------------------------------------------------------------------------
(* The children on screen are named by their places                          *)

RenamedLeaf(leaf, i, j) ==
  [leaf EXCEPT !.instance = Named(<<i, j>>), !.reused = FALSE, !.props = <<>>]
RenamedChild(fiber, i) ==
  [fiber EXCEPT !.instance = Named(<<i>>), !.reused = FALSE, !.deletions = <<>>, !.props = <<>>,
                !.children = [j \in DOMAIN @ |-> RenamedLeaf(@[j], i, j)]]
SameButName(new, old) == new.key = old.key /\ new.type = old.type /\ new.index = old.index

LEMMA RenamedLeafIs ==
  ASSUME NEW leaf \in LeafFibers, NEW i \in Nat, NEW j \in Nat,
         NEW new, new = RenamedLeaf(leaf, i, j)
  PROVE  /\ new \in LeafFibers /\ SameButName(new, leaf) /\ new.instance = Named(<<i, j>>)
<1>1. Named(<<i, j>>) \in ChildNames
  BY NamedIs
<1>2. <<>> \in Seq(LeafElements)
  OBVIOUS
<1> DEFINE name == Named(<<i, j>>)
<1>3. new = [leaf EXCEPT !.instance = name, !.reused = FALSE, !.props = <<>>]
  BY DEF RenamedLeaf
<1>4. name \in ChildNames
  BY <1>1
<1> HIDE DEF name
<1>5. new \in LeafFibers /\ SameButName(new, leaf) /\ new.instance = name
  BY <1>2, <1>3, <1>4 DEF LeafFibers, FibersOver, SameButName
<1> QED BY <1>5 DEF name

LEMMA RenamedChildIs ==
  ASSUME NEW fiber \in TopFibers, NEW i \in Nat, NEW new, new = RenamedChild(fiber, i)
  PROVE  /\ new \in TopFibers /\ SameButName(new, fiber) /\ new.instance = Named(<<i>>)
         /\ Len(new.children) = Len(fiber.children)
         /\ fiber.children = <<>> => new.children = <<>>
         /\ \A j \in 1..Len(fiber.children) :
              /\ SameButName(new.children[j], fiber.children[j])
              /\ new.children[j].instance = Named(<<i, j>>)
<1> DEFINE name == Named(<<i>>)
           kids == fiber.children
           leaves == [j \in 1..Len(kids) |-> RenamedLeaf(kids[j], i, j)]
<1>1. name \in ChildNames
  BY NamedIs
<1>2. kids \in Seq(LeafFibers) /\ DOMAIN kids = 1..Len(kids) /\ Len(kids) \in Nat
  BY DEF TopFibers, FibersOver
<1>3. ASSUME NEW j \in 1..Len(kids)
      PROVE  /\ RenamedLeaf(kids[j], i, j) \in LeafFibers
             /\ SameButName(RenamedLeaf(kids[j], i, j), kids[j])
             /\ RenamedLeaf(kids[j], i, j).instance = Named(<<i, j>>)
  BY <1>2, RenamedLeafIs
<1>4. new = [fiber EXCEPT !.instance = name, !.reused = FALSE, !.deletions = <<>>,
                          !.props = <<>>, !.children = leaves]
  BY <1>2 DEF RenamedChild
<1>5. leaves \in [1..Len(kids) -> LeafFibers]
  BY <1>3
<1>6. leaves \in Seq(LeafFibers) /\ Len(leaves) = Len(kids)
  <2> HIDE DEF leaves, kids
  <2> QED BY <1>2, <1>5
<1>7. \A j \in 1..Len(kids) : /\ SameButName(leaves[j], kids[j])
                              /\ leaves[j].instance = Named(<<i, j>>)
  BY <1>3
<1>8. kids = <<>> => leaves = <<>>
  BY <1>6
<1> HIDE DEF leaves, name
<1>9. /\ new \in TopFibers /\ SameButName(new, fiber) /\ new.instance = name
      /\ new.children = leaves
  <2>1. <<>> \in Seq(LeafFibers) /\ <<>> \in Seq(LeafElements)
    OBVIOUS
  <2> QED BY <1>1, <1>4, <1>6, <2>1 DEF TopFibers, FibersOver, SameButName
<1> QED BY <1>6, <1>7, <1>8, <1>9 DEF name

IsRenamed(R, E) ==
  /\ R \in Seq(TopFibers) /\ Len(R) = Len(E)
  /\ \A i \in 1..Len(E) :
       /\ SameButName(R[i], E[i]) /\ R[i].instance = Named(<<i>>)
       /\ Len(R[i].children) = Len(E[i].children)
       /\ E[i].children = <<>> => R[i].children = <<>>
       /\ \A j \in 1..Len(E[i].children) :
            /\ SameButName(R[i].children[j], E[i].children[j])
            /\ R[i].children[j].instance = Named(<<i, j>>)

LEMMA RenamedIs ==
  ASSUME NEW E \in Seq(TopFibers), NEW R, R = Renamed(E)
  PROVE  IsRenamed(R, E)
<1>1. DOMAIN E = 1..Len(E) /\ Len(E) \in Nat
  OBVIOUS
<1>2. R = [i \in 1..Len(E) |-> RenamedChild(E[i], i)]
  BY <1>1 DEF Renamed, RenamedChild, RenamedLeaf
<1>3. ASSUME NEW i \in 1..Len(E)
      PROVE  /\ R[i] = RenamedChild(E[i], i) /\ E[i] \in TopFibers /\ i \in Nat
  BY <1>1, <1>2
<1>4. ASSUME NEW i \in 1..Len(E)
      PROVE  /\ R[i] \in TopFibers
             /\ SameButName(R[i], E[i]) /\ R[i].instance = Named(<<i>>)
             /\ Len(R[i].children) = Len(E[i].children)
             /\ E[i].children = <<>> => R[i].children = <<>>
             /\ \A j \in 1..Len(E[i].children) :
                  /\ SameButName(R[i].children[j], E[i].children[j])
                  /\ R[i].children[j].instance = Named(<<i, j>>)
  BY <1>3, RenamedChildIs
<1>5. R \in [1..Len(E) -> TopFibers]
  BY <1>2, <1>4
<1>6. R \in Seq(TopFibers) /\ Len(R) = Len(E)
  BY <1>1, <1>5
<1> QED BY <1>4, <1>6 DEF IsRenamed

LEMMA RenamedSiblings ==
  ASSUME NEW old, NEW E, NEW R, Siblings(old), Len(E) = Len(old), Len(R) = Len(old),
         \A i \in 1..Len(old) : E[i].key = old[i].key /\ E[i].index = old[i].index,
         \A i \in 1..Len(old) : SameButName(R[i], E[i]),
         \A k, l \in 1..Len(old) : k # l => R[k].instance # R[l].instance
  PROVE  Siblings(R)
BY DEF Siblings, SameButName

\* What was rendered and committed, and is renamed, is a tree on screen.
LEMMA RenamedIsShown ==
  ASSUME NEW olds, NEW result, RenderedFrom(olds, result), TextsHaveNoKey(result.children),
         NEW F, F = result.children, NEW E, Alike(E, F), NEW R, R = Renamed(E)
  PROVE  Shown(R)
<1>1. Tidy(F) /\ Tidy(E) /\ Siblings(F) /\ Len(E) = Len(F)
  BY AlikeIs DEF RenderedFrom
<1>2. \A i \in 1..Len(F) : Siblings(F[i].children)
  BY RenderedIndexes
<1>3. IsRenamed(R, E)
  BY <1>1, RenamedIs DEF Tidy
<1>4. \A k \in 1..Len(F) : R[k].instance = Old(k) /\ k \in Nat
  <2> TAKE k \in 1..Len(F)
  <2>1. k \in Nat /\ R[k].instance = Named(<<k>>)
    BY <1>1, <1>3 DEF IsRenamed
  <2>2. Named(<<k>>) = Old(k)
    BY <2>1, NamedIs DEF Old
  <2> QED BY <2>1, <2>2
<1>5. Siblings(R)
  <2>1. \A k, l \in 1..Len(F) : k # l => R[k].instance # R[l].instance
    BY <1>4, ShortNames
  <2>2. \A i \in 1..Len(F) : E[i].key = F[i].key /\ E[i].index = F[i].index
    BY DEF Alike, SameButPlacement
  <2>3. Len(R) = Len(F) /\ \A i \in 1..Len(F) : SameButName(R[i], E[i])
    BY <1>1, <1>3 DEF IsRenamed
  <2> QED BY <1>1, <2>1, <2>2, <2>3, RenamedSiblings
<1>6. TextsHaveNoKey(R)
  <2>1. \A i \in 1..Len(F) : R[i].key = F[i].key /\ R[i].type = F[i].type
    <3> TAKE i \in 1..Len(F)
    <3>1. SameButName(R[i], E[i])
      BY <1>1, <1>3 DEF IsRenamed
    <3>2. SameButPlacement(E[i], F[i])
      BY DEF Alike
    <3> QED BY <3>1, <3>2 DEF SameButName, SameButPlacement
  <2>2. Len(R) = Len(F)
    BY <1>1, <1>3 DEF IsRenamed
  <2> QED BY <2>1, <2>2 DEF TextsHaveNoKey
<1>7. ASSUME NEW i \in 1..Len(R)
      PROVE  /\ R[i].instance = Named(<<i>>)
             /\ R[i].type # "group" => R[i].children = <<>>
             /\ Siblings(R[i].children)
             /\ \A j \in 1..Len(R[i].children) :
                  /\ R[i].children[j].type # "group"
                  /\ R[i].children[j].instance = Named(<<i, j>>)
  <2>1. i \in 1..Len(E) /\ i \in 1..Len(F) /\ i \in Nat
    BY <1>1, <1>3 DEF IsRenamed
  <2>2. /\ SameButName(R[i], E[i]) /\ R[i].instance = Named(<<i>>)
        /\ Len(R[i].children) = Len(E[i].children)
        /\ E[i].children = <<>> => R[i].children = <<>>
        /\ \A j \in 1..Len(E[i].children) :
             /\ SameButName(R[i].children[j], E[i].children[j])
             /\ R[i].children[j].instance = Named(<<i, j>>)
    BY <1>3, <2>1 DEF IsRenamed
  <2>3. /\ E[i].type # "group" => E[i].children = <<>>
        /\ \A j \in 1..Len(E[i].children) : E[i].children[j].type # "group"
    BY <1>1, <2>1 DEF Tidy
  <2>4. Len(E[i].children) = Len(F[i].children)
    BY <1>1, <2>1, AlikeIs
  <2>5. \A j \in 1..Len(F[i].children) :
          /\ E[i].children[j].key = F[i].children[j].key
          /\ E[i].children[j].index = F[i].children[j].index
    BY <2>1 DEF Alike, SameButPlacement
  <2>6. \A k, l \in 1..Len(F[i].children) : k # l =>
          R[i].children[k].instance # R[i].children[l].instance
    <3> SUFFICES ASSUME NEW k \in 1..Len(F[i].children), NEW l \in 1..Len(F[i].children),
                        k # l
                 PROVE  R[i].children[k].instance # R[i].children[l].instance
      OBVIOUS
    <3>1. k \in Nat /\ l \in Nat
      OBVIOUS
    <3>2. OldIn(i, k) # OldIn(i, l)
      BY <2>1, <3>1, LongNames
    <3> QED BY <2>1, <2>2, <2>4, <3>1, <3>2, NamedIs DEF OldIn
  <2> DEFINE a == F[i].children
             b == E[i].children
             d == R[i].children
  <2>7. /\ Siblings(a) /\ Len(b) = Len(a) /\ Len(d) = Len(a)
        /\ \A j \in 1..Len(a) : b[j].key = a[j].key /\ b[j].index = a[j].index
        /\ \A j \in 1..Len(a) : SameButName(d[j], b[j])
        /\ \A k, l \in 1..Len(a) : k # l => d[k].instance # d[l].instance
    BY <1>2, <2>1, <2>2, <2>4, <2>5, <2>6
  <2>8. Siblings(d)
    <3> HIDE DEF a, b, d
    <3> QED BY <2>7, RenamedSiblings
  <2> QED BY <2>2, <2>3, <2>8 DEF SameButName
<1> QED BY <1>3, <1>5, <1>6, <1>7 DEF Shown, IsRenamed

\* No two children of the rendered tree have the same name.
LEMMA NamesAreUnique ==
  ASSUME NEW olds, Shown(olds), NEW result, RenderedFrom(olds, result),
         NEW F, F = result.children, NEW p \in Paths(F), NEW q \in Paths(F),
         NodeAt(F, p) = NodeAt(F, q)
  PROVE  p = q
<1>1. Tidy(F)
  BY DEF RenderedFrom
<1>2. /\ p[1] \in 1..Len(F)
      /\ Len(p) # 2 => p = <<p[1]>> /\ NodeAt(F, p) = F[p[1]].instance
      /\ Len(p) = 2 => /\ p[2] \in 1..Len(F[p[1]].children) /\ p = <<p[1], p[2]>>
                       /\ NodeAt(F, p) = F[p[1]].children[p[2]].instance
  BY <1>1, PathsSplit DEF NodeAt
<1>3. /\ q[1] \in 1..Len(F)
      /\ Len(q) # 2 => q = <<q[1]>> /\ NodeAt(F, q) = F[q[1]].instance
      /\ Len(q) = 2 => /\ q[2] \in 1..Len(F[q[1]].children) /\ q = <<q[1], q[2]>>
                       /\ NodeAt(F, q) = F[q[1]].children[q[2]].instance
  BY <1>1, PathsSplit DEF NodeAt
<1>4. CASE Len(p) # 2 /\ Len(q) # 2
  BY <1>2, <1>3, <1>4, RenderedIndexes
<1>5. CASE Len(p) = 2 /\ Len(q) = 2
  <2>1. p[1] = q[1] /\ p[2] = q[2]
    BY <1>2, <1>3, <1>5, LeavesDiffer
  <2> QED BY <1>2, <1>3, <1>5, <2>1
<1>6. CASE Len(p) # 2 /\ Len(q) = 2
  BY <1>2, <1>3, <1>6, TopIsNoLeaf
<1>7. CASE Len(p) = 2 /\ Len(q) # 2
  BY <1>2, <1>3, <1>7, TopIsNoLeaf
<1> QED BY <1>4, <1>5, <1>6, <1>7

\* Renaming the nodes of a tree, and of the tree
LEMMA RenamedTree ==
  ASSUME NEW E, Tidy(E), \A p, q \in Paths(E) : NodeAt(E, p) = NodeAt(E, q) => p = q,
         NEW R, R = Renamed(E), Shown(R)
  PROVE  RenamedNodes(Tree(E), E) = Tree(R)
<1>1. Tidy(R) /\ IsRenamed(R, E)
  BY RenamedIs, ShownAreNamed DEF Tidy
<1>2. /\ Len(R) = Len(E)
      /\ \A i \in 1..Len(E) : /\ R[i].type = E[i].type
                              /\ R[i].instance = Named(<<i>>)
                              /\ Len(R[i].children) = Len(E[i].children)
      /\ \A i \in 1..Len(E) : \A j \in 1..Len(E[i].children) :
           /\ R[i].children[j].type = E[i].children[j].type
           /\ R[i].children[j].instance = Named(<<i, j>>)
  BY <1>1 DEF IsRenamed, SameButName
<1>3. Paths(R) = Paths(E)
  <2>1. ASSUME NEW p
        PROVE  p \in Paths(R) <=> p \in Paths(E)
    <3>1. p \in Paths(E) <=>
            \E i \in 1..Len(E) : p = <<i>> \/ \E j \in 1..Len(E[i].children) : p = <<i, j>>
      BY PathsAre
    <3>2. p \in Paths(R) <=>
            \E i \in 1..Len(R) : p = <<i>> \/ \E j \in 1..Len(R[i].children) : p = <<i, j>>
      BY <1>1, PathsAre
    <3>3. ASSUME NEW i \in 1..Len(E)
          PROVE  1..Len(R[i].children) = 1..Len(E[i].children)
      BY <1>2
    <3>4. 1..Len(R) = 1..Len(E)
      BY <1>2
    <3> QED BY <3>1, <3>2, <3>3, <3>4
  <2> QED BY <2>1
<1>4. ASSUME NEW p \in Paths(E)
      PROVE  ChildAt(R, p).type = ChildAt(E, p).type /\ NodeAt(R, p) = Named(p)
  BY <1>1, <1>2, <1>3, PathsSplit DEF NodeAt
<1>5. HostPaths(R) = HostPaths(E)
  BY <1>3, <1>4 DEF HostPaths, IsHost
<1>6. PICK w : ListsNodes(w, Tree(E), E, HostPaths(E))
  BY TreeIs
<1>7. PICK v : ListsNodes(v, Tree(R), R, HostPaths(E))
  BY <1>1, <1>5, TreeIs
<1>8. w = v
  BY <1>6, <1>7, HostPathsSplit, SameList DEF ListsNodes
<1> DEFINE T == Tree(E)
           U == Tree(R)
           N == RenamedNodes(T, E)
           Found(k) == {p \in Paths(E) : ChildAt(E, p).instance = T[k]}
<1>9. /\ T \in Seq(ChildNames) /\ U \in Seq(ChildNames) /\ Len(T) = Len(w) /\ Len(U) = Len(w)
      /\ \A k \in 1..Len(w) : /\ w[k] \in HostPaths(E)
                              /\ T[k] = NodeAt(E, w[k]) /\ U[k] = NodeAt(R, w[k])
  BY <1>6, <1>7, <1>8 DEF ListsNodes, Lists
<1> HIDE DEF T, U
<1>10. N = [k \in 1..Len(w) |-> IF Found(k) = {} THEN T[k] ELSE Named(The(Found(k)))]
  BY <1>9 DEF RenamedNodes
<1>11. ASSUME NEW k \in 1..Len(w)
       PROVE  N[k] = U[k]
  <2>1. w[k] \in Paths(E)
    BY <1>9 DEF HostPaths
  <2>2. Found(k) = {w[k]}
    BY <1>9, <2>1 DEF NodeAt
  <2>3. N[k] = Named(w[k])
    BY <1>10, <2>2, TheOnly
  <2>4. U[k] = Named(w[k])
    BY <1>4, <1>9, <2>1
  <2> QED BY <2>3, <2>4
<1>12. N = [k \in 1..Len(w) |-> U[k]]
  BY <1>10, <1>11
<1>13. U = [k \in 1..Len(w) |-> U[k]]
  BY <1>9
<1> HIDE DEF N
<1>14. N = U
  BY <1>12, <1>13
<1> QED BY <1>14 DEF N, T, U

-----------------------------------------------------------------------------
(* The invariant                                                             *)

ChildrenInv ==
  /\ phase \in {"idle", "finished"}
  /\ Shown(childFibers) /\ hostNodes = Tree(childFibers)
  /\ phase = "finished" => \E input \in ChildInputs : finished = Rendering(childFibers, input)

LEMMA ChildrenStart == ChildrenInit => ChildrenInv
<1> SUFFICES ASSUME ChildrenInit
             PROVE  ChildrenInv
  OBVIOUS
<1>1. childFibers = <<>> /\ hostNodes = <<>> /\ phase = "idle"
  BY DEF ChildrenInit
<1>2. Shown(childFibers)
  BY <1>1 DEF Shown, Siblings, TextsHaveNoKey
<1>3. Tree(childFibers) = <<>>
  <2> DEFINE s == [i \in DOMAIN childFibers |-> HostNodes(childFibers[i])]
  <2>1. s = <<>>
    BY <1>1
  <2>2. s \in Seq(Seq(ChildNames)) /\ Len(s) = 0
    BY <2>1
  <2>3. Tree(childFibers) = FlattenSeq(s)
    BY DEF Tree
  <2> HIDE DEF s
  <2>4. FlattenSeq(s) \in Seq(ChildNames) /\ Len(FlattenSeq(s)) = 0
    BY <2>2, FlattenPlaces
  <2> QED BY <2>3, <2>4
<1> QED BY <1>1, <1>2, <1>3 DEF ChildrenInv

LEMMA RenderingFields ==
  ASSUME NEW olds, NEW input
  PROVE  Rendering(olds, input).input = input
BY DEF Rendering

LEMMA RenderKeeps ==
  ASSUME ChildrenInv, NEW input \in ChildInputs, RenderChildren(input)
  PROVE  ChildrenInv'
<1>1. finished' = Rendering(childFibers, input)
  BY DEF RenderChildren, Rendering, Begun
<1>2. phase' = "finished" /\ childFibers' = childFibers /\ hostNodes' = hostNodes
  BY DEF RenderChildren
<1>3. Shown(childFibers)' /\ (hostNodes = Tree(childFibers))'
  BY <1>2 DEF ChildrenInv
<1>4. finished' = Rendering(childFibers', input)
  BY <1>1, <1>2
<1> QED BY <1>2, <1>3, <1>4 DEF ChildrenInv

LEMMA CommitKeeps ==
  ASSUME ChildrenInv, CommitChildren
  PROVE  ChildrenInv'
<1> DEFINE olds == childFibers
           F == finished.children
           N == Len(F)
           t == CommitDeletions(hostNodes, finished.deletions)
           start == [children |-> F, host |-> t]
           done == CHOOSE f : f = [i \in 0..N |-> IF i = 0 THEN start
                                                  ELSE CommitChild(f[i - 1], i)]
           end == done[N]
           E == end.children
           R == Renamed(E)
<1>1. phase = "finished"
  BY DEF CommitChildren
<1>2. PICK input \in ChildInputs : finished = Rendering(olds, input)
  BY <1>1 DEF ChildrenInv
<1>3. Shown(olds) /\ hostNodes = Tree(olds)
  BY DEF ChildrenInv
<1>4. Rendered(olds, input, finished)
  BY <1>2, <1>3, RenderingIs
<1>5. RenderedFrom(olds, finished) /\ TextsHaveNoKey(finished.children)
  BY <1>3, <1>4, RenderedComes DEF Rendered
<1>6. CommitMutationEffects = end
  BY DEF CommitMutationEffects
<1>7. CommitRun(done, start, N)
  BY DEF CommitRun
<1>8. /\ phase' = "idle" /\ childFibers' = R
      /\ hostNodes' = RenamedNodes(end.host, E)
  BY <1>6 DEF CommitChildren
<1> HIDE DEF done, start, t, N, F, olds
<1>9. Alike(done[N].children, F) /\ done[N].host = Tree(done[N].children)
  BY <1>3, <1>5, <1>7, CommitEnds DEF t, N, F, start
<1>10. Alike(E, F) /\ end.host = Tree(E)
  BY <1>9
<1> HIDE DEF end, E, R
<1>11. F = finished.children /\ R = Renamed(E)
  BY DEF F, R
<1>12. Shown(R)
  BY <1>5, <1>10, <1>11, RenamedIsShown
<1>13. /\ Tidy(F) /\ Tidy(E) /\ Paths(E) = Paths(F)
       /\ \A p \in Paths(F) : NodeAt(E, p) = NodeAt(F, p)
  BY <1>5, <1>10, <1>11, AlikeIs DEF RenderedFrom
<1>14. \A p, q \in Paths(F) : NodeAt(F, p) = NodeAt(F, q) => p = q
  BY <1>3, <1>5, <1>11, NamesAreUnique
<1>15. RenamedNodes(Tree(E), E) = Tree(R)
  BY <1>11, <1>12, <1>13, <1>14, RenamedTree
<1>16. hostNodes' = Tree(R)
  BY <1>8, <1>10, <1>15
<1>17. Shown(childFibers)' /\ (hostNodes = Tree(childFibers))'
  BY <1>8, <1>12, <1>16
<1> QED BY <1>8, <1>17 DEF ChildrenInv

\* What is on screen is tidy, and what is finished is its rendering.
THEOREM ChildrenInvariant == ChildrenSpec => []ChildrenInv
<1>1. ASSUME ChildrenInv, [ChildrenNext]_childrenVars
      PROVE  ChildrenInv'
  <2>1. CASE UNCHANGED childrenVars
    BY <1>1, <2>1 DEF childrenVars, ChildrenInv
  <2>2. CASE \E input \in ChildInputs : RenderChildren(input)
    BY <1>1, <2>2, RenderKeeps
  <2>3. CASE CommitChildren
    BY <1>1, <2>3, CommitKeeps
  <2> QED BY <1>1, <2>1, <2>2, <2>3 DEF ChildrenNext
<1> QED BY <1>1, ChildrenStart, PTL DEF ChildrenSpec

\* The host's nodes are those of the tree, in its order
THEOREM HostNodesFollow == ChildrenSpec => []HostNodesFollowElements
<1>1. ChildrenInv => HostNodesFollowElements
  BY DEF ChildrenInv, HostNodesFollowElements, Tree
<1> QED BY <1>1, ChildrenInvariant, PTL

LEMMA CountOne ==
  ASSUME NEW n \in Nat, NEW P, P \subseteq 1..n,
         \E k \in P : \A l \in P : l = k
  PROVE  Cardinality(P) = 1
<1>1. PICK k \in P : P = {k}
  OBVIOUS
<1> QED BY <1>1, FS_Singleton

LEMMA CountNone ==
  Cardinality({}) = 0
BY FS_EmptySet

LEMMA KeysFollowed ==
  ASSUME NEW input \in ChildInputs, Shown(childFibers),
         Rendered(childFibers, input, finished), finished.input = input
  PROVE  InstancesFollowKeys
<1> DEFINE children == finished.children
           slots == SlotsOf(input)
           single == input.single
<1>1. /\ children \in Seq(TopFibers) /\ finished.deletions \in Seq(TopFibers)
      /\ Len(children) = Len(slots)
      /\ \A i \in 1..Len(children) : /\ Answers(children[i], slots[i])
                                     /\ BeginsFrom(childFibers, input, children[i])
      /\ \A k \in 1..Len(childFibers) : UsedOrDeleted(finished, childFibers[k])
  BY DEF Rendered
<1>2. childFibers \in Seq(TopFibers)
  BY DEF Shown
<1>3. /\ DOMAIN children = 1..Len(children) /\ DOMAIN childFibers = 1..Len(childFibers)
      /\ DOMAIN finished.deletions = 1..Len(finished.deletions)
      /\ Len(children) \in Nat /\ Len(finished.deletions) \in Nat
  BY <1>1, <1>2
<1>4. ASSUME NEW i \in DOMAIN children
      PROVE  /\ children[i].type = slots[i].type /\ children[i].key = slots[i].key
             /\ children[i].reused =>
                  \E k \in DOMAIN childFibers :
                    /\ children[i].instance = childFibers[k].instance
                    /\ Continues(children[i], childFibers[k], single)
             /\ ~children[i].reused =>
                  ~\E k \in DOMAIN childFibers : Continues(children[i], childFibers[k], FALSE)
  BY <1>1, <1>3 DEF Answers, BeginsFrom
<1>5. ASSUME NEW k \in DOMAIN childFibers
      PROVE  Cardinality({i \in DOMAIN children :
                            children[i].instance = childFibers[k].instance})
             + Cardinality({i \in DOMAIN finished.deletions :
                              finished.deletions[i] = childFibers[k]})
             = 1
  <2> DEFINE A == {i \in DOMAIN children : children[i].instance = childFibers[k].instance}
             B == {i \in DOMAIN finished.deletions : finished.deletions[i] = childFibers[k]}
  <2>1. UsedOrDeleted(finished, childFibers[k])
    BY <1>1, <1>3
  <2>2. CASE CarriesOnce(children, childFibers[k].instance)
             /\ ~Has(finished.deletions, childFibers[k])
    <3>1. A \subseteq 1..Len(children) /\ \E n \in A : \A l \in A : l = n
      BY <1>3, <2>2 DEF CarriesOnce
    <3>2. B = {}
      BY <1>3, <2>2 DEF Has
    <3> HIDE DEF A, B
    <3>3. Cardinality(A) = 1
      BY <1>3, <3>1, CountOne
    <3>4. Cardinality(B) = 0
      BY <3>2, CountNone
    <3>5. Cardinality(A) + Cardinality(B) = 1
      BY <3>3, <3>4
    <3> QED BY <3>5 DEF A, B
  <2>3. CASE ~Carries(children, childFibers[k].instance)
             /\ Once(finished.deletions, childFibers[k])
    <3>1. B \subseteq 1..Len(finished.deletions) /\ \E n \in B : \A l \in B : l = n
      BY <1>3, <2>3 DEF Once
    <3>2. A = {}
      BY <1>3, <2>3 DEF Carries
    <3> HIDE DEF A, B
    <3>3. Cardinality(B) = 1
      BY <1>3, <3>1, CountOne
    <3>4. Cardinality(A) = 0
      BY <3>2, CountNone
    <3>5. Cardinality(A) + Cardinality(B) = 1
      BY <3>3, <3>4
    <3> QED BY <3>5 DEF A, B
  <2> QED BY <2>1, <2>2, <2>3 DEF UsedOrDeleted
<1> QED BY <1>1, <1>4, <1>5 DEF InstancesFollowKeys

\* Every child has the instance that its key promises.
THEOREM InstancesFollow == ChildrenSpec => []InstancesFollowKeys
<1>1. ASSUME ChildrenInv
      PROVE  InstancesFollowKeys
  <2>1. CASE phase # "finished"
    BY <2>1 DEF InstancesFollowKeys
  <2>2. CASE phase = "finished"
    BY <1>1, <2>2, RenderingIs, RenderingFields, KeysFollowed DEF ChildrenInv
  <2> QED BY <2>1, <2>2
<1> QED BY <1>1, ChildrenInvariant, PTL
=============================================================================
