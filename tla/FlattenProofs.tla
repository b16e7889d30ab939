----------------------------- MODULE FlattenProofs -----------------------------
(***************************************************************************)
(* What FlattenSeq of the community modules computes: a recursive function,*)
(* so that its values are found by induction over how far it has got.      *)
(***************************************************************************)
EXTENDS Integers, SequencesExt, SequenceTheorems, WellFoundedInduction, TLAPS

(* Induction over a set of numbers.                                        *)
LEMMA FromZero ==
  ASSUME NEW S \in SUBSET Nat, 0 \in S, \A n \in S : n + 1 \in S
  PROVE  S = Nat
<1> SUFFICES ASSUME NEW k \in Nat \ S PROVE FALSE
  OBVIOUS
<1>1. IsWellFoundedOn(OpToRel(<, Nat), Nat)
  BY NatLessThanWellFounded
<1>2. PICK m \in Nat \ S : \A n \in Nat \ S : ~ (<<n, m>> \in OpToRel(<, Nat))
  BY <1>1, WFMin
<1>3. m # 0 /\ m - 1 \in Nat
  OBVIOUS
<1>4. m - 1 \notin S
  <2>1. ASSUME m - 1 \in S PROVE FALSE
    <3>1. (m - 1) + 1 \in S
      BY <2>1
    <3> QED BY <3>1, <1>3
  <2> QED BY <2>1
<1>5. <<m - 1, m>> \in OpToRel(<, Nat)
  BY <1>3 DEF OpToRel
<1> QED BY <1>2, <1>3, <1>4, <1>5

(* What the function in FlattenSeq is at k, when it is g below; there is   *)
(* one.                                                                    *)
Grow(g, P, k) == IF k = 1 THEN P[k] ELSE g[k - 1] \o P[k]

LEMMA FlattenExists ==
  ASSUME NEW P, NEW N \in Nat
  PROVE  \E g : g = [k \in 1 .. N |-> Grow(g, P, k)]
<1> DEFINE S == {n \in Nat : \E g : g = [k \in 1 .. n |-> Grow(g, P, k)]}
<1>1. 0 \in S
  <2> DEFINE g == <<>>
  <2>1. g = [k \in 1 .. 0 |-> Grow(g, P, k)]
    OBVIOUS
  <2> QED BY <2>1
<1>2. ASSUME NEW n \in S PROVE n + 1 \in S
  <2>1. PICK g : g = [k \in 1 .. n |-> Grow(g, P, k)]
    OBVIOUS
  <2> DEFINE h == [k \in 1 .. n + 1 |-> IF k = n + 1 THEN Grow(g, P, n + 1) ELSE g[k]]
  <2>2. ASSUME NEW k \in 1 .. n + 1 PROVE h[k] = Grow(h, P, k)
    <3>1. n \in Nat /\ (k = 1 \/ k - 1 \in 1 .. n)
      OBVIOUS
    <3>2. k # 1 => h[k - 1] = g[k - 1]
      BY <3>1
    <3>3. Grow(h, P, k) = Grow(g, P, k)
      BY <3>2 DEF Grow
    <3>4. CASE k = n + 1
      BY <3>3, <3>4
    <3>5. CASE k # n + 1
      <4>1. k \in 1 .. n
        BY <3>1, <3>5
      <4>2. g[k] = Grow(g, P, k)
        BY <2>1, <4>1
      <4> QED BY <4>2, <3>3, <3>5
    <3> QED BY <3>4, <3>5
  <2> HIDE DEF h
  <2>3. h = [k \in 1 .. n + 1 |-> h[k]]
    BY DEF h
  <2>4. h = [k \in 1 .. n + 1 |-> Grow(h, P, k)]
    BY <2>2, <2>3
  <2> QED BY <2>4
<1>3. S = Nat
  <2> HIDE DEF S
  <2>1. S \in SUBSET Nat
    BY DEF S
  <2> QED BY <1>1, <1>2, <2>1, FromZero
<1> QED BY <1>3

(* FlattenSeq joins the sequences one after the other.                     *)
LEMMA FlattenPrefixes ==
  ASSUME NEW R, NEW N \in Nat, NEW P \in [1 .. N -> Seq(R)]
  PROVE  \E g \in [0 .. N -> Seq(R)] :
           /\ g[0] = <<>>
           /\ \A k \in 1 .. N : g[k] = g[k - 1] \o P[k]
           /\ g[N] = FlattenSeq(P)
<1>1. Len(P) = N
  OBVIOUS
<1>2. CASE N = 0
  <2>1. FlattenSeq(P) = P /\ P = <<>>
    BY <1>1, <1>2 DEF FlattenSeq
  <2> DEFINE g == [k \in 0 .. N |-> <<>>]
  <2>2. g \in [0 .. N -> Seq(R)] /\ g[0] = <<>> /\ g[N] = <<>>
    BY <1>2
  <2>3. \A k \in 1 .. N : g[k] = g[k - 1] \o P[k]
    BY <1>2
  <2> HIDE DEF g
  <2> QED BY <2>1, <2>2, <2>3
<1>3. CASE N # 0
  <2> DEFINE F(u) == u = [k \in 1 .. Len(P) |-> IF k = 1 THEN P[k] ELSE u[k - 1] \o P[k]]
             flatten == CHOOSE u : F(u)
  <2>1. F(flatten)
    <3>1. PICK g : g = [k \in 1 .. N |-> Grow(g, P, k)]
      BY FlattenExists
    <3>2. F(g)
      BY <1>1, <3>1 DEF Grow
    <3> HIDE DEF F
    <3> QED BY <3>2
  <2>2. FlattenSeq(P) = flatten[N]
    BY <1>1, <1>3 DEF FlattenSeq
  <2> HIDE DEF flatten
  <2>3. ASSUME NEW k \in 1 .. N
        PROVE  flatten[k] = IF k = 1 THEN P[k] ELSE flatten[k - 1] \o P[k]
    <3>1. flatten = [j \in 1 .. Len(P) |-> IF j = 1 THEN P[j] ELSE flatten[j - 1] \o P[j]]
      BY <2>1
    <3>2. k \in 1 .. Len(P)
      BY <1>1
    <3> QED BY <3>1, <3>2, Zenon
  <2> HIDE DEF F
  <2> DEFINE S == {n \in Nat : n \in 1 .. N => flatten[n] \in Seq(R)}
  <2>4. 0 \in S
    OBVIOUS
  <2>5. ASSUME NEW n \in S PROVE n + 1 \in S
    <3> SUFFICES ASSUME n + 1 \in 1 .. N PROVE flatten[n + 1] \in Seq(R)
      OBVIOUS
    <3>1. P[n + 1] \in Seq(R)
      OBVIOUS
    <3>2. CASE n = 0
      BY <2>3, <3>1, <3>2
    <3>3. CASE n # 0
      <4>1. n \in 1 .. N /\ n + 1 # 1 /\ (n + 1) - 1 = n
        BY <3>3
      <4>2. flatten[n] \in Seq(R)
        BY <4>1
      <4>3. flatten[n + 1] = flatten[n] \o P[n + 1]
        BY <2>3, <4>1
      <4> QED BY <3>1, <4>2, <4>3
    <3> QED BY <3>2, <3>3
  <2>6. S = Nat
    <3> HIDE DEF S
    <3>1. S \in SUBSET Nat
      BY DEF S
    <3> QED BY <2>4, <2>5, <3>1, FromZero
  <2> DEFINE g == [k \in 0 .. N |-> IF k = 0 THEN <<>> ELSE flatten[k]]
  <2>7. \A k \in 1 .. N : flatten[k] \in Seq(R)
    BY <2>6
  <2> HIDE DEF S
  <2>8. g \in [0 .. N -> Seq(R)]
    <3>1. ASSUME NEW k \in 0 .. N PROVE g[k] \in Seq(R)
      BY <2>7
    <3> QED BY <3>1
  <2>9. ASSUME NEW k \in 1 .. N PROVE g[k] = g[k - 1] \o P[k]
    <3>1. P[k] \in Seq(R) /\ g[k] = flatten[k]
      OBVIOUS
    <3>2. CASE k = 1
      <4>1. g[k - 1] = <<>> /\ flatten[k] = P[k]
        BY <2>3, <3>2
      <4> HIDE DEF g
      <4> QED BY <3>1, <4>1
    <3>3. CASE k # 1
      <4>1. k - 1 \in 0 .. N /\ k - 1 # 0
        BY <3>3
      <4>2. g[k - 1] = flatten[k - 1]
        BY <4>1
      <4> HIDE DEF g
      <4> QED BY <2>3, <3>1, <3>3, <4>2
    <3> QED BY <3>2, <3>3
  <2>10. g[0] = <<>> /\ g[N] = FlattenSeq(P)
    BY <1>3, <2>2
  <2> HIDE DEF g
  <2> QED BY <2>8, <2>9, <2>10
<1> QED BY <1>2, <1>3

LEMMA FlattenType ==
  ASSUME NEW R, NEW N \in Nat, NEW P \in [1 .. N -> Seq(R)]
  PROVE  FlattenSeq(P) \in Seq(R)
<1>1. PICK g \in [0 .. N -> Seq(R)] :
        /\ g[0] = <<>>
        /\ \A k \in 1 .. N : g[k] = g[k - 1] \o P[k]
        /\ g[N] = FlattenSeq(P)
  BY FlattenPrefixes
<1>2. g[N] \in Seq(R)
  OBVIOUS
<1> QED BY <1>1, <1>2

LEMMA FlattenEmpty ==
  ASSUME NEW N \in Nat, NEW P, P = [k \in 1 .. N |-> <<>>]
  PROVE  FlattenSeq(P) = <<>>
<1>1. P \in [1 .. N -> Seq({})]
  OBVIOUS
<1>2. FlattenSeq(P) \in Seq({})
  BY <1>1, FlattenType
<1> QED BY <1>2

(* One sequence more at the end.                                           *)
LEMMA FlattenOneMore ==
  ASSUME NEW R, NEW N \in Nat, NEW P \in [1 .. N -> Seq(R)],
         NEW Q \in [1 .. N + 1 -> Seq(R)], \A k \in 1 .. N : Q[k] = P[k]
  PROVE  FlattenSeq(Q) = FlattenSeq(P) \o Q[N + 1]
<1>1. PICK g \in [0 .. N -> Seq(R)] :
        /\ g[0] = <<>>
        /\ \A k \in 1 .. N : g[k] = g[k - 1] \o P[k]
        /\ g[N] = FlattenSeq(P)
  BY FlattenPrefixes
<1>2. PICK h \in [0 .. N + 1 -> Seq(R)] :
        /\ h[0] = <<>>
        /\ \A k \in 1 .. N + 1 : h[k] = h[k - 1] \o Q[k]
        /\ h[N + 1] = FlattenSeq(Q)
  <2>1. N + 1 \in Nat
    OBVIOUS
  <2> QED BY <2>1, FlattenPrefixes, Zenon
<1>4. ASSUME NEW n \in Nat, n + 1 <= N, h[n] = g[n] PROVE h[n + 1] = g[n + 1]
  <2>1. n + 1 \in 1 .. N /\ n + 1 \in 1 .. N + 1 /\ (n + 1) - 1 = n
    BY <1>4
  <2>2. h[n + 1] = h[n] \o Q[n + 1] /\ g[n + 1] = g[n] \o P[n + 1]
    BY <1>1, <1>2, <2>1
  <2> QED BY <1>4, <2>1, <2>2
<1>6. h[N] = g[N]
  <2> DEFINE S == {n \in Nat : n <= N => h[n] = g[n]}
  <2>1. 0 \in S
    BY <1>1, <1>2
  <2>2. ASSUME NEW n \in S PROVE n + 1 \in S
    BY <1>4
  <2>3. S \in SUBSET Nat
    OBVIOUS
  <2> HIDE DEF S
  <2>4. N \in S
    BY <2>1, <2>2, <2>3, FromZero
  <2> QED BY <2>4 DEF S
<1>7. N + 1 \in 1 .. N + 1 /\ (N + 1) - 1 = N
  OBVIOUS
<1>8. h[N + 1] = h[N] \o Q[N + 1]
  BY <1>2, <1>7
<1> QED BY <1>1, <1>2, <1>6, <1>8

(* The last sequence that is not empty is put in place.                    *)
LEMMA FlattenFills ==
  ASSUME NEW R, NEW N \in Nat, NEW P \in [1 .. N -> Seq(R)], NEW Q \in [1 .. N -> Seq(R)],
         NEW i \in 1 .. N, \A k \in 1 .. N : k < i => Q[k] = P[k],
         P[i] = <<>>, \A k \in 1 .. N : k > i => P[k] = <<>> /\ Q[k] = <<>>
  PROVE  FlattenSeq(Q) = FlattenSeq(P) \o Q[i]
<1>1. PICK g \in [0 .. N -> Seq(R)] :
        /\ g[0] = <<>>
        /\ \A k \in 1 .. N : g[k] = g[k - 1] \o P[k]
        /\ g[N] = FlattenSeq(P)
  BY FlattenPrefixes
<1>2. PICK h \in [0 .. N -> Seq(R)] :
        /\ h[0] = <<>>
        /\ \A k \in 1 .. N : h[k] = h[k - 1] \o Q[k]
        /\ h[N] = FlattenSeq(Q)
  BY FlattenPrefixes
<1> DEFINE Same(n) == (n < i => h[n] = g[n]) /\ (n >= i => h[n] = g[n] \o Q[i])
<1>4. ASSUME NEW n \in Nat, n + 1 <= N, Same(n) PROVE Same(n + 1)
  <2>1. n + 1 \in 1 .. N /\ (n + 1) - 1 = n /\ n \in 0 .. N /\ n + 1 \in 0 .. N
    BY <1>4
  <2>2. h[n + 1] = h[n] \o Q[n + 1] /\ g[n + 1] = g[n] \o P[n + 1]
    BY <1>1, <1>2, <2>1
  <2>3. g[n] \in Seq(R) /\ Q[i] \in Seq(R)
    BY <2>1
  <2>4. CASE n + 1 < i
    <3>1. Q[n + 1] = P[n + 1] /\ h[n] = g[n]
      BY <1>4, <2>1, <2>4
    <3> QED BY <2>1, <2>2, <2>4, <3>1
  <2>5. CASE n + 1 = i
    <3>1. n < i
      BY <2>5
    <3>2. h[n] = g[n] /\ P[n + 1] = <<>> /\ Q[n + 1] = Q[i]
      BY <1>4, <2>5, <3>1
    <3>3. g[n + 1] = g[n]
      BY <2>2, <2>3, <3>2, ConcatEmptySeq
    <3>4. ~(n + 1 < i)
      BY <2>5
    <3> QED BY <2>2, <2>5, <3>2, <3>3, <3>4
  <2>6. CASE n + 1 > i
    <3>0. n >= i /\ i \in 1 .. N
      BY <2>6
    <3>1. h[n] = g[n] \o Q[i] /\ P[n + 1] = <<>> /\ Q[n + 1] = <<>>
      BY <1>4, <2>1, <2>6, <3>0
    <3>2. g[n + 1] = g[n]
      BY <2>2, <2>3, <3>1, ConcatEmptySeq
    <3>3. g[n] \o Q[i] \in Seq(R)
      BY <2>3, ConcatProperties
    <3>4. h[n + 1] = g[n] \o Q[i]
      BY <2>2, <3>1, <3>3, ConcatEmptySeq
    <3> QED BY <2>6, <3>2, <3>4
  <2> HIDE DEF Same
  <2> QED BY <2>4, <2>5, <2>6
<1>5. Same(0)
  BY <1>1, <1>2
<1>6. h[N] = g[N] \o Q[i]
  <2> DEFINE S == {n \in Nat : n <= N => Same(n)}
  <2> HIDE DEF Same
  <2>1. 0 \in S
    BY <1>5
  <2>2. ASSUME NEW n \in S PROVE n + 1 \in S
    BY <1>4
  <2>3. S \in SUBSET Nat
    OBVIOUS
  <2> HIDE DEF S
  <2>4. N \in S
    BY <2>1, <2>2, <2>3, FromZero
  <2>5. Same(N)
    BY <2>4 DEF S
  <2>6. N >= i
    OBVIOUS
  <2> QED BY <2>5, <2>6 DEF Same
<1> QED BY <1>1, <1>2, <1>6

Join(a, b) == a \o b

LEMMA Regroup ==
  ASSUME NEW R
  PROVE  \A a, b, c \in Seq(R) : Join(Join(a, b), c) = Join(a, Join(b, c))
<1>1. ASSUME NEW a \in Seq(R), NEW b \in Seq(R), NEW c \in Seq(R)
      PROVE  (a \o b) \o c = a \o (b \o c)
  BY ConcatAssociative
<1> QED BY <1>1 DEF Join

(* The first sequence that is not empty comes first.                       *)
Splits(P, i, Q) == FlattenSeq(P) = P[i] \o FlattenSeq(Q)

LEMMA FlattenTakesFirst ==
  ASSUME NEW R, NEW N \in Nat, NEW P \in [1 .. N -> Seq(R)], NEW Q \in [1 .. N -> Seq(R)],
         NEW i \in 1 .. N, \A k \in 1 .. N : k < i => P[k] = <<>> /\ Q[k] = <<>>,
         Q[i] = <<>>, \A k \in 1 .. N : k > i => P[k] = Q[k]
  PROVE  Splits(P, i, Q)
<1>1. PICK g \in [0 .. N -> Seq(R)] :
        /\ g[0] = <<>>
        /\ \A k \in 1 .. N : g[k] = g[k - 1] \o P[k]
        /\ g[N] = FlattenSeq(P)
  BY FlattenPrefixes
<1>2. PICK h \in [0 .. N -> Seq(R)] :
        /\ h[0] = <<>>
        /\ \A k \in 1 .. N : h[k] = h[k - 1] \o Q[k]
        /\ h[N] = FlattenSeq(Q)
  BY FlattenPrefixes
<1> DEFINE Same(n) == /\ n < i => g[n] = <<>>
                      /\ n <= i => h[n] = <<>>
                      /\ n >= i => g[n] = P[i] \o h[n]
<1>3. ASSUME NEW n \in Nat, n + 1 <= N, Same(n) PROVE Same(n + 1)
  <2>1. n + 1 \in 1 .. N /\ (n + 1) - 1 = n /\ n \in 0 .. N /\ n + 1 \in 0 .. N
    BY <1>3
  <2>2. h[n + 1] = h[n] \o Q[n + 1] /\ g[n + 1] = g[n] \o P[n + 1]
    BY <1>1, <1>2, <2>1
  <2>3. g[n] \in Seq(R) /\ h[n] \in Seq(R) /\ P[n + 1] \in Seq(R) /\ Q[n + 1] \in Seq(R)
        /\ P[i] \in Seq(R)
    BY <2>1
  <2>4. CASE n + 1 < i
    <3>0. n < i /\ n <= i /\ n + 1 <= i
      BY <2>4
    <3>1. g[n] = <<>> /\ h[n] = <<>> /\ P[n + 1] = <<>> /\ Q[n + 1] = <<>>
      BY <1>3, <2>1, <2>4, <3>0
    <3> QED BY <2>1, <2>2, <2>4, <3>1, EmptySeq, ConcatEmptySeq
  <2>5. CASE n + 1 = i
    <3>0. n < i /\ n <= i /\ n + 1 <= i
      BY <2>5
    <3>1. g[n] = <<>> /\ h[n] = <<>> /\ Q[n + 1] = <<>>
      BY <1>3, <2>1, <2>5, <3>0
    <3>2. h[n + 1] = <<>>
      BY <2>2, <3>1, EmptySeq, ConcatEmptySeq
    <3>3. g[n + 1] = P[i] /\ P[i] \o h[n + 1] = P[i]
      BY <2>2, <2>3, <2>5, <3>1, <3>2, ConcatEmptySeq
    <3> QED BY <2>5, <3>2, <3>3
  <2>6. CASE n + 1 > i
    <3>0. n >= i /\ i \in 1 .. N
      BY <2>6
    <3>1. g[n] = P[i] \o h[n] /\ P[n + 1] = Q[n + 1]
      BY <1>3, <2>1, <2>6, <3>0
    <3>2. (P[i] \o h[n]) \o Q[n + 1] = P[i] \o (h[n] \o Q[n + 1])
      <4>1. PICK a \in Seq(R), b \in Seq(R), c \in Seq(R) :
              a = P[i] /\ b = h[n] /\ c = Q[n + 1]
        BY <2>3
      <4>2. Join(Join(a, b), c) = Join(a, Join(b, c))
        BY Regroup
      <4> QED BY <4>1, <4>2 DEF Join
    <3> QED BY <2>2, <2>6, <3>1, <3>2
  <2> HIDE DEF Same
  <2> QED BY <2>4, <2>5, <2>6
<1>5. Same(0)
  BY <1>1, <1>2
<1>6. g[N] = P[i] \o h[N]
  <2> DEFINE S == {n \in Nat : n <= N => Same(n)}
  <2> HIDE DEF Same
  <2>1. 0 \in S
    BY <1>5
  <2>2. ASSUME NEW n \in S PROVE n + 1 \in S
    BY <1>3
  <2>3. S \in SUBSET Nat
    OBVIOUS
  <2> HIDE DEF S
  <2>4. N \in S
    BY <2>1, <2>2, <2>3, FromZero
  <2>5. Same(N)
    BY <2>4 DEF S
  <2>6. N >= i
    OBVIOUS
  <2> QED BY <2>5, <2>6 DEF Same
<1> QED BY <1>1, <1>2, <1>6 DEF Splits

(* As long as all of them, and made again of its slices: e[k] is where     *)
(* sequence k ends.                                                        *)
LEMMA FlattenLength ==
  ASSUME NEW R, NEW N \in Nat, NEW P \in [1 .. N -> Seq(R)], NEW e \in [0 .. N -> Nat],
         e[0] = 0, \A k \in 1 .. N : e[k] = e[k - 1] + Len(P[k])
  PROVE  Len(FlattenSeq(P)) = e[N]
<1>1. PICK g \in [0 .. N -> Seq(R)] :
        /\ g[0] = <<>>
        /\ \A k \in 1 .. N : g[k] = g[k - 1] \o P[k]
        /\ g[N] = FlattenSeq(P)
  BY FlattenPrefixes
<1>2. ASSUME NEW n \in Nat, n + 1 <= N, Len(g[n]) = e[n] PROVE Len(g[n + 1]) = e[n + 1]
  <2>1. n + 1 \in 1 .. N /\ (n + 1) - 1 = n /\ n \in 0 .. N
    BY <1>2
  <2>2. g[n + 1] = g[n] \o P[n + 1] /\ e[n + 1] = e[n] + Len(P[n + 1])
    BY <1>1, <2>1
  <2>3. g[n] \in Seq(R) /\ P[n + 1] \in Seq(R)
    BY <2>1
  <2>4. Len(g[n] \o P[n + 1]) = Len(g[n]) + Len(P[n + 1])
    BY <2>3, ConcatProperties, Zenon
  <2> QED BY <1>2, <2>2, <2>4
<1>3. Len(g[N]) = e[N]
  <2> DEFINE S == {n \in Nat : n <= N => Len(g[n]) = e[n]}
  <2>1. 0 \in S
    BY <1>1
  <2>2. ASSUME NEW n \in S PROVE n + 1 \in S
    BY <1>2
  <2>3. S \in SUBSET Nat
    OBVIOUS
  <2> HIDE DEF S
  <2>4. N \in S
    BY <2>1, <2>2, <2>3, FromZero
  <2> QED BY <2>4 DEF S
<1> QED BY <1>1, <1>3

LEMMA Adjacent ==
  ASSUME NEW R, NEW s \in Seq(R), NEW m \in Nat, NEW n \in Nat, m <= n, n <= Len(s)
  PROVE  SubSeq(s, 1, m) \o SubSeq(s, m + 1, n) = SubSeq(s, 1, n)
<1>1. 1 \in 1 .. Len(s) + 1 /\ m \in 1 - 1 .. Len(s) /\ n \in m .. Len(s)
  OBVIOUS
<1> QED BY <1>1, ConcatAdjacentSubSeq, Zenon

LEMMA UpToTheLast ==
  ASSUME NEW N \in Nat, NEW e \in [0 .. N -> Nat], \A k \in 1 .. N : e[k - 1] <= e[k]
  PROVE  \A k \in 0 .. N : e[k] <= e[N]
<1> DEFINE D == {m \in Nat : m <= N => e[N - m] <= e[N]}
<1>1. 0 \in D
  OBVIOUS
<1>2. ASSUME NEW m \in Nat, m + 1 <= N, e[N - m] <= e[N] PROVE e[N - (m + 1)] <= e[N]
  <2>1. N - m \in 1 .. N /\ N - (m + 1) = (N - m) - 1
        /\ N - m \in 0 .. N /\ (N - m) - 1 \in 0 .. N
    BY <1>2
  <2>2. e[(N - m) - 1] <= e[N - m]
    BY <2>1
  <2>3. e[N - m] \in Nat /\ e[(N - m) - 1] \in Nat /\ e[N] \in Nat
    BY <2>1
  <2> QED BY <1>2, <2>1, <2>2, <2>3
<1>3. ASSUME NEW m \in D PROVE m + 1 \in D
  BY <1>2
<1>4. D \in SUBSET Nat
  OBVIOUS
<1> HIDE DEF D
<1>5. D = Nat
  BY <1>1, <1>3, <1>4, FromZero
<1> TAKE k \in 0 .. N
<1>6. N - k \in Nat /\ N - k <= N /\ N - (N - k) = k
  OBVIOUS
<1>7. N - k \in D
  BY <1>5, <1>6
<1>8. e[N - (N - k)] <= e[N]
  BY <1>6, <1>7 DEF D
<1> QED BY <1>6, <1>8

LEMMA FlattenSlices ==
  ASSUME NEW R, NEW N \in Nat, NEW P \in [1 .. N -> Seq(R)], NEW e \in [0 .. N -> Nat],
         e[0] = 0, \A k \in 1 .. N : e[k - 1] <= e[k],
         NEW s \in Seq(R), e[N] <= Len(s),
         \A k \in 1 .. N : P[k] = SubSeq(s, e[k - 1] + 1, e[k])
  PROVE  FlattenSeq(P) = SubSeq(s, 1, e[N])
<1>1. PICK g \in [0 .. N -> Seq(R)] :
        /\ g[0] = <<>>
        /\ \A k \in 1 .. N : g[k] = g[k - 1] \o P[k]
        /\ g[N] = FlattenSeq(P)
  BY FlattenPrefixes
<1>2. ASSUME NEW k \in 0 .. N PROVE e[k] <= Len(s)
  <2>1. e[k] <= e[N]
    BY UpToTheLast
  <2> QED BY <2>1
<1>3. ASSUME NEW n \in Nat, n + 1 <= N, g[n] = SubSeq(s, 1, e[n])
      PROVE  g[n + 1] = SubSeq(s, 1, e[n + 1])
  <2>1. n + 1 \in 1 .. N /\ (n + 1) - 1 = n /\ n \in 0 .. N /\ n + 1 \in 0 .. N
    BY <1>3
  <2>2. g[n + 1] = g[n] \o P[n + 1] /\ P[n + 1] = SubSeq(s, e[n] + 1, e[n + 1])
    BY <1>1, <2>1
  <2>3. e[n] \in Nat /\ e[n + 1] \in Nat /\ e[n] <= e[n + 1] /\ e[n + 1] <= Len(s)
    BY <1>2, <2>1
  <2>4. SubSeq(s, 1, e[n]) \o SubSeq(s, e[n] + 1, e[n + 1]) = SubSeq(s, 1, e[n + 1])
    BY <2>3, Adjacent
  <2> QED BY <1>3, <2>2, <2>4
<1>4. g[N] = SubSeq(s, 1, e[N])
  <2> DEFINE S == {n \in Nat : n <= N => g[n] = SubSeq(s, 1, e[n])}
  <2>1. 0 \in S
    BY <1>1
  <2>2. ASSUME NEW n \in S PROVE n + 1 \in S
    <3> SUFFICES ASSUME n + 1 <= N PROVE g[n + 1] = SubSeq(s, 1, e[n + 1])
      OBVIOUS
    <3>1. n \in Nat /\ n <= N /\ (n <= N => g[n] = SubSeq(s, 1, e[n]))
      OBVIOUS
    <3> HIDE DEF S
    <3> QED BY <1>3, <3>1
  <2>3. S \in SUBSET Nat
    OBVIOUS
  <2> HIDE DEF S
  <2>4. N \in S
    BY <2>1, <2>2, <2>3, FromZero
  <2> QED BY <2>4 DEF S
<1> QED BY <1>1, <1>4

(* f is in s, behind the first a elements.                                 *)
Found(f, s, a) == a + Len(f) <= Len(s) /\ \A k \in 1 .. Len(f) : s[a + k] = f[k]

LEMMA StillThere ==
  ASSUME NEW R, NEW s \in Seq(R), NEW q \in Seq(R), NEW f \in Seq(R), NEW a \in Nat,
         Found(f, s, a)
  PROVE  Found(f, s \o q, a)
<1>1. Len(s) \in Nat /\ Len(q) \in Nat /\ Len(f) \in Nat
  BY LenProperties
<1>2. /\ Len(s \o q) = Len(s) + Len(q)
      /\ \A k \in 1 .. Len(s) + Len(q) : (s \o q)[k] = IF k <= Len(s) THEN s[k] ELSE q[k - Len(s)]
  BY ConcatProperties
<1>3. \A k \in 1 .. Len(f) : a + k \in 1 .. Len(s) + Len(q) /\ a + k <= Len(s)
  BY <1>1 DEF Found
<1> QED BY <1>1, <1>2, <1>3 DEF Found

LEMMA PutBehind ==
  ASSUME NEW R, NEW s \in Seq(R), NEW f \in Seq(R)
  PROVE  Found(f, s \o f, Len(s))
<1>1. Len(s) \in Nat /\ Len(f) \in Nat
  BY LenProperties
<1>2. /\ Len(s \o f) = Len(s) + Len(f)
      /\ \A k \in 1 .. Len(s) + Len(f) : (s \o f)[k] = IF k <= Len(s) THEN s[k] ELSE f[k - Len(s)]
  BY ConcatProperties
<1>3. \A k \in 1 .. Len(f) : /\ Len(s) + k \in 1 .. Len(s) + Len(f)
                             /\ ~(Len(s) + k <= Len(s)) /\ (Len(s) + k) - Len(s) = k
  BY <1>1
<1> QED BY <1>1, <1>2, <1>3 DEF Found

LEMMA FlattenHolds ==
  ASSUME NEW R, NEW N \in Nat, NEW P \in [1 .. N -> Seq(R)], NEW e \in [0 .. N -> Nat],
         e[0] = 0, \A k \in 1 .. N : e[k] = e[k - 1] + Len(P[k]), NEW i \in 1 .. N
  PROVE  Found(P[i], FlattenSeq(P), e[i - 1])
<1>1. PICK g \in [0 .. N -> Seq(R)] :
        /\ g[0] = <<>>
        /\ \A k \in 1 .. N : g[k] = g[k - 1] \o P[k]
        /\ g[N] = FlattenSeq(P)
  BY FlattenPrefixes
<1> DEFINE Keeps(n) == /\ n < i => Len(g[n]) = e[n]
                       /\ n >= i => Found(P[i], g[n], e[i - 1])
<1>2. ASSUME NEW n \in Nat, n + 1 <= N, Keeps(n) PROVE Keeps(n + 1)
  <2>1. n + 1 \in 1 .. N /\ (n + 1) - 1 = n /\ n \in 0 .. N /\ n + 1 \in 0 .. N
        /\ i - 1 \in 0 .. N
    BY <1>2
  <2>2. PICK s \in Seq(R), q \in Seq(R) : s = g[n] /\ q = P[n + 1]
    BY <2>1
  <2>3. g[n + 1] = s \o q /\ e[n + 1] = e[n] + Len(q)
    BY <1>1, <2>1, <2>2
  <2>4. CASE n + 1 < i
    <3>1. Len(s) = e[n]
      BY <1>2, <2>1, <2>2, <2>4
    <3>2. Len(s \o q) = Len(s) + Len(q)
      BY ConcatProperties
    <3> QED BY <2>1, <2>3, <2>4, <3>1, <3>2
  <2>5. CASE n + 1 = i
    <3>0. n < i /\ n = i - 1
      BY <2>5
    <3>1. n < i /\ n = i - 1 /\ q = P[i]
      BY <2>2, <2>5, <3>0, Zenon
    <3>2. Len(s) = e[i - 1]
      BY <1>2, <2>2, <3>1
    <3>3. Found(q, s \o q, Len(s))
      BY PutBehind
    <3> QED BY <2>1, <2>3, <2>5, <3>1, <3>2, <3>3
  <2>6. CASE n + 1 > i
    <3>1. n >= i
      BY <2>1, <2>6
    <3>2. PICK f \in Seq(R), a \in Nat : f = P[i] /\ a = e[i - 1]
      BY <2>1
    <3>3. Found(f, s, a)
      BY <1>2, <2>2, <3>1, <3>2
    <3>4. Found(f, s \o q, a)
      BY <3>3, StillThere
    <3> QED BY <2>3, <2>6, <3>2, <3>4
  <2> HIDE DEF Keeps
  <2> QED BY <2>1, <2>4, <2>5, <2>6
<1>3. Keeps(0)
  BY <1>1, EmptySeq
<1>4. Keeps(N)
  <2> DEFINE S == {n \in Nat : n <= N => Keeps(n)}
  <2> HIDE DEF Keeps
  <2>1. 0 \in S
    BY <1>3
  <2>2. ASSUME NEW n \in S PROVE n + 1 \in S
    BY <1>2
  <2>3. S \in SUBSET Nat
    OBVIOUS
  <2> HIDE DEF S
  <2>4. N \in S
    BY <2>1, <2>2, <2>3, FromZero
  <2> QED BY <2>4 DEF S
<1> QED BY <1>1, <1>4

(* The sequences again, each from its place.                               *)
LEMMA FlattenGivesBack ==
  ASSUME NEW R, NEW N \in Nat, NEW P \in [1 .. N -> Seq(R)], NEW e \in [0 .. N -> Nat],
         e[0] = 0, \A k \in 1 .. N : e[k] = e[k - 1] + Len(P[k])
  PROVE  \A i \in 1 .. N : SubSeq(FlattenSeq(P), e[i - 1] + 1, e[i]) = P[i]
<1> SUFFICES ASSUME NEW i \in 1 .. N
             PROVE  SubSeq(FlattenSeq(P), e[i - 1] + 1, e[i]) = P[i]
  OBVIOUS
<1>1. PICK s \in Seq(R) : s = FlattenSeq(P)
  BY FlattenType
<1>2. PICK f \in Seq(R), a \in Nat : f = P[i] /\ a = e[i - 1]
  <2>1. i - 1 \in 0 .. N
    OBVIOUS
  <2> QED BY <2>1
<1>3. Found(f, s, a)
  BY <1>1, <1>2, FlattenHolds
<1>4. PICK m \in Nat : m = Len(f)
  BY LenProperties
<1>5. e[i] = a + m
  BY <1>2, <1>4
<1>6. a + m <= Len(s) /\ \A k \in 1 .. m : s[a + k] = f[k]
  BY <1>3, <1>4 DEF Found
<1>7. SubSeq(s, a + 1, a + m) \in Seq(R) /\ Len(SubSeq(s, a + 1, a + m)) = m
      /\ \A k \in 1 .. m : SubSeq(s, a + 1, a + m)[k] = s[a + k]
  <2>1. \A k \in a + 1 .. a + m : s[k] \in R
    BY <1>6, ElementOfSeq, LenProperties
  <2>2. a + 1 \in Int /\ a + m \in Int /\ (a + m) - (a + 1) + 1 = m
    OBVIOUS
  <2>3. /\ SubSeq(s, a + 1, a + m) \in Seq(R)
        /\ Len(SubSeq(s, a + 1, a + m)) = IF a + 1 <= a + m THEN (a + m) - (a + 1) + 1 ELSE 0
        /\ \A k \in 1 .. (a + m) - (a + 1) + 1 : SubSeq(s, a + 1, a + m)[k] = s[a + 1 + k - 1]
    BY <2>1, <2>2, SubSeqProperties
  <2> QED BY <2>2, <2>3
<1>8. SubSeq(s, a + 1, a + m) = f
  BY <1>4, <1>6, <1>7, SeqEqual
<1> QED BY <1>1, <1>2, <1>5, <1>8

(* The first sequence, and then the others.                                *)
Summed(P, N, R) ==
  \E g \in [0 .. N -> Seq(R)] :
    /\ g[0] = <<>>
    /\ \A k \in 1 .. N : g[k] = g[k - 1] \o P[k]
    /\ g[N] = FlattenSeq(P)

LEMMA FlattenSums ==
  ASSUME NEW R, NEW N \in Nat, NEW P \in [1 .. N -> Seq(R)]
  PROVE  Summed(P, N, R)
BY FlattenPrefixes DEF Summed

LEMMA FlattenRest ==
  ASSUME NEW R, NEW N \in Nat, NEW M \in Nat, M = N + 1,
         NEW P \in [1 .. M -> Seq(R)], NEW Q \in [1 .. N -> Seq(R)],
         \A k \in 1 .. N : Q[k] = P[k + 1]
  PROVE  Splits(P, 1, Q)
<1>0. Summed(P, M, R) /\ Summed(Q, N, R)
  BY FlattenSums
<1>1. PICK g \in [0 .. M -> Seq(R)] :
        /\ g[0] = <<>>
        /\ \A k \in 1 .. M : g[k] = g[k - 1] \o P[k]
        /\ g[M] = FlattenSeq(P)
  BY <1>0 DEF Summed
<1>2. PICK h \in [0 .. N -> Seq(R)] :
        /\ h[0] = <<>>
        /\ \A k \in 1 .. N : h[k] = h[k - 1] \o Q[k]
        /\ h[N] = FlattenSeq(Q)
  BY <1>0 DEF Summed
<1>3. PICK f \in Seq(R) : f = P[1]
  OBVIOUS
<1> DEFINE Same(n) == g[n + 1] = Join(f, h[n])
           S == {n \in Nat : n <= N => Same(n)}
<1>4. 0 \in S
  <2>1. g[1] = g[0] \o f
    <3>1. 1 \in 1 .. M /\ 1 - 1 = 0
      OBVIOUS
    <3>2. g[1] = g[1 - 1] \o P[1]
      BY <1>1, <3>1, Zenon
    <3> QED BY <1>3, <3>1, <3>2
  <2>2. g[1] = f /\ f \o h[0] = f
    BY <1>1, <1>2, <2>1, ConcatEmptySeq
  <2>3. Same(0)
    BY <2>2 DEF Join
  <2> HIDE DEF Same
  <2> QED BY <2>3
<1>5. ASSUME NEW n \in S PROVE n + 1 \in S
  <2> SUFFICES ASSUME n + 1 <= N PROVE Same(n + 1)
    OBVIOUS
  <2>1. /\ n \in Nat /\ n <= N /\ n + 1 \in 1 .. N /\ (n + 1) + 1 \in 1 .. M
        /\ (n + 1) - 1 = n /\ ((n + 1) + 1) - 1 = n + 1 /\ n \in 0 .. N
    OBVIOUS
  <2>2. g[n + 1] = Join(f, h[n])
    BY <2>1
  <2>3. PICK q \in Seq(R) : q = Q[n + 1] /\ q = P[(n + 1) + 1]
    BY <2>1
  <2>4. g[(n + 1) + 1] = Join(g[n + 1], q) /\ h[n + 1] = Join(h[n], q)
    BY <1>1, <1>2, <2>1, <2>3 DEF Join
  <2>5. h[n] \in Seq(R)
    BY <2>1
  <2>6. Join(Join(f, h[n]), q) = Join(f, Join(h[n], q))
    BY <2>3, <2>5, Regroup
  <2> QED BY <2>2, <2>4, <2>6
<1>6. S = Nat
  <2> HIDE DEF S
  <2>1. S \in SUBSET Nat
    BY DEF S
  <2> QED BY <1>4, <1>5, <2>1, FromZero
<1>7. Same(N)
  <2>1. N \in S
    <3> HIDE DEF S
    <3> QED BY <1>6
  <2> HIDE DEF Same
  <2> QED BY <2>1
<1> QED BY <1>1, <1>2, <1>3, <1>7 DEF Join, Splits
=============================================================================
