---------------------------- MODULE ParserProofs ----------------------------
(***************************************************************************)
(* The tables the parser makes and what is written of them, for any        *)
(* configuration that is accepted and any messages: the columns are        *)
(* aligned, the name is valid and terminated, the time axis is real, no    *)
(* message is lost without a trace, none leaves a mark on the next one, a  *)
(* partial result is the clean result of the steps that succeeded, and     *)
(* what a batch pushes is, row by row, what its messages give alone and    *)
(* the filter lets pass.                                                   *)
(***************************************************************************)
EXTENDS Parser, SumTheorems, SequenceTheorems, TLAPS

-----------------------------------------------------------------------------
(* Recursion over a sequence.                                               *)

(* A function that is made step by step, and stays in a set. *)
StepByStep(n, V, b, F, f) ==
  f \in [0..n -> V] /\ f[0] = b /\ \A k \in 1..n : f[k] = F[k][f[k - 1]]

(* There is such a function. *)
LEMMA Recursion ==
  ASSUME NEW n \in Nat, NEW V, NEW b \in V, NEW F, \A k \in 1..n : \A v \in V : F[k][v] \in V
  PROVE  \E f : StepByStep(n, V, b, F, f)
<1> DEFINE Made(j) == \E f \in [0..j -> V] : f[0] = b /\ \A k \in 1..j : f[k] = F[k][f[k - 1]]
           S == {j \in 0..n : Made(j)}
<1>1. 0 \in S
  <2>1. PICK f : f = [k \in 0..0 |-> b]
    OBVIOUS
  <2>2. f \in [0..0 -> V] /\ f[0] = b /\ \A k \in 1..0 : f[k] = F[k][f[k - 1]]
    BY <2>1
  <2> QED
    BY <2>2
<1>2. ASSUME NEW j \in 0..n - 1, j \in S PROVE j + 1 \in S
  <2>1. PICK f \in [0..j -> V] : f[0] = b /\ \A k \in 1..j : f[k] = F[k][f[k - 1]]
    BY <1>2
  <2>2. f[j] \in V /\ j + 1 \in 1..n
    BY <2>1
  <2>3. PICK v : v = F[j + 1][f[j]]
    OBVIOUS
  <2>4. v \in V
    BY <2>2, <2>3
  <2>5. PICK g : g = [k \in 0..j + 1 |-> IF k = j + 1 THEN v ELSE f[k]]
    OBVIOUS
  <2>6. g \in [0..j + 1 -> V]
    <3>1. \A k \in 0..j + 1 : k # j + 1 => k \in 0..j
      OBVIOUS
    <3> QED
      BY <2>1, <2>4, <2>5, <3>1
  <2>7. \A k \in 0..j : g[k] = f[k]
    BY <2>5
  <2>8. g[0] = b /\ g[j + 1] = v
    BY <2>1, <2>5, <2>7
  <2>9. ASSUME NEW k \in 1..j + 1 PROVE g[k] = F[k][g[k - 1]]
    <3>1. CASE k = j + 1
      <4>1. g[k - 1] = f[j]
        BY <2>7, <3>1
      <4> QED
        BY <2>3, <2>8, <3>1, <4>1
    <3>2. CASE k # j + 1
      <4>1. k \in 1..j /\ k \in 0..j /\ k - 1 \in 0..j
        BY <3>2
      <4> QED
        BY <2>1, <2>7, <4>1
    <3> QED
      BY <3>1, <3>2
  <2>10. Made(j + 1)
    BY <2>6, <2>8, <2>9
  <2> QED
    BY <2>2, <2>10
<1>3. \A j \in 0..n : j \in S
  <2> HIDE DEF S
  <2> QED
    BY <1>1, <1>2, BoundedInduction
<1>4. Made(n)
  BY <1>3
<1> QED
  BY <1>4 DEF StepByStep

(* What holds at first and from step to step holds of all that is made. *)
LEMMA RecursionIn ==
  ASSUME NEW n \in Nat, NEW V, NEW f, f[0] \in V, \A k \in 1..n : f[k - 1] \in V => f[k] \in V
  PROVE  \A k \in 0..n : f[k] \in V
<1> DEFINE S == {k \in 0..n : f[k] \in V}
<1>1. 0 \in S
  OBVIOUS
<1>2. ASSUME NEW k \in 0..n - 1, k \in S PROVE k + 1 \in S
  <2>1. k + 1 \in 1..n /\ (k + 1) - 1 = k
    OBVIOUS
  <2>2. f[(k + 1) - 1] \in V => f[k + 1] \in V
    BY <2>1
  <2> QED
    BY <1>2, <2>1, <2>2
<1>3. \A k \in 0..n : k \in S
  <2> HIDE DEF S
  <2> QED
    BY <1>1, <1>2, BoundedInduction
<1> QED
  BY <1>3

(* What FlattenSeq joins, one sequence after the other. *)
Joins(S, ss, f) ==
  /\ f \in [0..Len(ss) -> Seq(S)]
  /\ f[0] = <<>>
  /\ \A k \in 1..Len(ss) : f[k] = f[k - 1] \o ss[k]
  /\ FlattenSeq(ss) = f[Len(ss)]

(* The recursion of FlattenSeq. *)
Flattens(ss, g) == g = [i \in 1..Len(ss) |-> IF i = 1 THEN ss[i] ELSE g[i - 1] \o ss[i]]

(* FlattenSeq joins what it is given. *)
LEMMA FlattenJoins ==
  ASSUME NEW S, NEW ss \in Seq(Seq(S))
  PROVE  \E f : Joins(S, ss, f)
<1>1. PICK n, V, e : n = Len(ss) /\ V = Seq(S) /\ e = <<>>
  OBVIOUS
<1>2. n \in Nat /\ DOMAIN ss = 1..n /\ \A k \in 1..n : ss[k] \in V
  BY <1>1
<1>3. e \in V /\ \A s \in V : e \o s = s
  BY <1>1, ConcatEmptySeq, EmptySeq
<1>4. \A s, t \in V : s \o t \in V
  BY <1>1, ConcatProperties
<1>5. PICK F : F = [k \in 1..n |-> [s \in V |-> s \o ss[k]]]
  OBVIOUS
<1>6. \A k \in 1..n : \A s \in V : F[k][s] = s \o ss[k] /\ F[k][s] \in V
  BY <1>2, <1>4, <1>5
<1>7. PICK f : StepByStep(n, V, e, F, f)
  <2>1. \A k \in 1..n : \A s \in V : F[k][s] \in V
    BY <1>6
  <2>2. n \in Nat
    BY <1>2
  <2>3. e \in V
    BY <1>3
  <2> QED
    BY <2>1, <2>2, <2>3, Recursion
<1> USE <1>7 DEF StepByStep
<1>8. \A k \in 1..n : f[k - 1] \in V /\ f[k] = f[k - 1] \o ss[k]
  <2>1. \A k \in 1..n : k - 1 \in 0..n
    BY <1>2
  <2> QED
    BY <1>6, <1>7, <2>1
<1>9. FlattenSeq(ss) = f[n]
  <2>1. CASE n = 0
    <3>1. FlattenSeq(ss) = ss
      BY <1>1, <2>1 DEF FlattenSeq
    <3>2. ss = e
      BY <1>1, <2>1, EmptySeq
    <3> QED
      BY <1>7, <2>1, <3>1, <3>2
  <2>2. CASE n # 0
    <3>1. PICK g : g = CHOOSE x : Flattens(ss, x)
      OBVIOUS
    <3>2. FlattenSeq(ss) = g[n]
      BY <1>1, <2>2, <3>1 DEF FlattenSeq, Flattens
    <3>3. PICK h : h = [i \in 1..n |-> f[i]]
      OBVIOUS
    <3>4. h = [i \in 1..n |-> IF i = 1 THEN ss[i] ELSE h[i - 1] \o ss[i]]
      <4>1. ASSUME NEW i \in 1..n PROVE h[i] = IF i = 1 THEN ss[i] ELSE h[i - 1] \o ss[i]
        <5>1. h[i] = f[i - 1] \o ss[i]
          BY <1>8, <3>3
        <5>2. CASE i = 1
          <6>1. i - 1 = 0 /\ ss[i] \in V
            BY <1>2, <5>2
          <6>2. h[i] = e \o ss[i]
            BY <1>7, <5>1, <6>1
          <6> QED
            BY <1>3, <5>2, <6>1, <6>2
        <5>3. CASE i # 1
          <6>1. h[i - 1] = f[i - 1]
            BY <1>2, <3>3, <5>3
          <6> QED
            BY <5>1, <5>3, <6>1
        <5> QED
          BY <5>2, <5>3
      <4> QED
        BY <3>3, <4>1
    <3>5. Flattens(ss, h)
      BY <1>1, <3>4 DEF Flattens
    <3>6. Flattens(ss, g)
      BY <3>1, <3>5
    <3>7. g = [i \in 1..n |-> IF i = 1 THEN ss[i] ELSE g[i - 1] \o ss[i]]
      BY <1>1, <3>6 DEF Flattens
    <3>8. \A i \in 1..n : g[i] = IF i = 1 THEN ss[i] ELSE g[i - 1] \o ss[i]
      BY <3>7
    <3> DEFINE T == {k \in 0..n : k = 0 \/ g[k] = f[k]}
    <3>9. 0 \in T
      BY <1>2
    <3>10. ASSUME NEW k \in 0..n - 1, k \in T PROVE k + 1 \in T
      <4>1. k + 1 \in 1..n /\ (k + 1) - 1 = k
        BY <1>2
      <4>2. f[k + 1] = f[k] \o ss[k + 1]
        BY <1>8, <4>1
      <4>3. CASE k = 0
        <5>1. f[k + 1] = ss[k + 1]
          BY <1>2, <1>3, <1>7, <4>1, <4>2, <4>3
        <5>2. g[k + 1] = ss[k + 1]
          BY <3>8, <4>1, <4>3
        <5> QED
          BY <4>1, <5>1, <5>2
      <4>4. CASE k # 0
        <5>1. PICK m : m = k + 1
          OBVIOUS
        <5>2. m \in 1..n /\ m # 1 /\ m - 1 = k
          BY <4>1, <4>4, <5>1
        <5>3. g[m] = g[m - 1] \o ss[m]
          BY <3>8, <5>2
        <5>4. g[k] = f[k]
          BY <3>10, <4>4
        <5>5. g[m] = f[m]
          BY <4>2, <5>1, <5>2, <5>3, <5>4
        <5> QED
          BY <4>1, <5>1, <5>5
      <4> QED
        BY <4>3, <4>4
    <3>11. \A k \in 0..n : k \in T
      <4> HIDE DEF T
      <4> QED
        BY <1>2, <3>9, <3>10, BoundedInduction
    <3>12. g[n] = f[n]
      BY <1>2, <2>2, <3>11
    <3> QED
      BY <3>2, <3>12
  <2> QED
    BY <2>1, <2>2
<1>10. Joins(S, ss, f)
  BY <1>1, <1>7, <1>8, <1>9 DEF Joins
<1> QED
  BY <1>10

-----------------------------------------------------------------------------
(* Adding up what the elements of a sequence weigh.                         *)

(* What its elements weigh, and the sum. *)
Weights(F, s) == [i \in 1..Len(s) |-> F[s[i]]]
Tally(F, s) == SumOver(Weights(F, s), 1..Len(s))

(* The first numbers are finitely many. *)
LEMMA FirstNumbers == \A n \in Int : IsFiniteSet(1..n)
<1>1. ASSUME NEW n \in Int PROVE IsFiniteSet(1..n)
  <2>1. 1 \in Int
    OBVIOUS
  <2> QED
    BY <2>1, FS_Interval
<1> QED
  BY <1>1

(* A function on the first numbers is a sequence. *)
LEMMA FunctionSequence ==
  ASSUME NEW n \in Nat, NEW T, NEW s \in [1..n -> T]
  PROVE  s \in Seq(T) /\ Sequence(s) /\ Len(s) = n /\ DOMAIN s = 1..n
<1>1. s \in Seq(T) /\ Len(s) = n /\ DOMAIN s = 1..n
  OBVIOUS
<1>2. \A i \in 1..n : s[i] \in ToSet(s)
  BY <1>1 DEF ToSet
<1>3. s \in [1..n -> ToSet(s)]
  BY <1>1, <1>2
<1>4. s \in Seq(ToSet(s))
  <2>1. PICK U : U = ToSet(s)
    OBVIOUS
  <2> QED
    BY <1>3, <2>1
<1> QED
  BY <1>1, <1>4 DEF Sequence

(* Its elements may come from any set. *)
LEMMA SeqSequence ==
  ASSUME NEW S, NEW s \in Seq(S)
  PROVE  Sequence(s) /\ Len(s) \in Nat /\ DOMAIN s = 1..Len(s) /\ \A i \in 1..Len(s) : s[i] \in S
<1>1. Len(s) \in Nat /\ s \in [1..Len(s) -> S]
  BY LenProperties
<1>2. PICK n : n = Len(s)
  OBVIOUS
<1>3. n \in Nat /\ s \in [1..n -> S]
  BY <1>1, <1>2
<1>4. Sequence(s)
  BY <1>3, FunctionSequence
<1> QED
  BY <1>1, <1>4

(* The length and the places of a sequence. *)
LEMMA SequenceLen ==
  ASSUME NEW s, Sequence(s)
  PROVE  Len(s) \in Nat /\ DOMAIN s = 1..Len(s) /\ s = [i \in 1..Len(s) |-> s[i]]
<1>1. PICK S : S = ToSet(s)
  OBVIOUS
<1>2. s \in Seq(S)
  BY <1>1 DEF Sequence
<1>3. Len(s) \in Nat /\ s \in [1..Len(s) -> S] /\ DOMAIN s = 1..Len(s)
  BY <1>2, LenProperties
<1> QED
  BY <1>3

(* A tally is an integer. *)
LEMMA TallyType ==
  ASSUME NEW S, NEW F, \A x \in S : F[x] \in Int, NEW s \in Seq(S)
  PROVE  Tally(F, s) \in Int
<1>1. PICK n, W : n = Len(s) /\ W = Weights(F, s)
  OBVIOUS
<1>2. n \in Nat /\ \A i \in 1..n : W[i] \in Int
  BY <1>1 DEF Weights
<1>3. IsFiniteSet(1..n)
  BY <1>2, FS_Interval
<1>4. SumOver(W, 1..n) \in Int
  BY <1>2, <1>3, SumType
<1> QED
  BY <1>1, <1>4 DEF Tally

(* The tally of two sequences joined is that of the one and the other. *)
LEMMA TallyConcat ==
  ASSUME NEW S, NEW F, \A x \in S : F[x] \in Int, NEW s \in Seq(S), NEW t \in Seq(S)
  PROVE  Tally(F, s \o t) = Tally(F, s) + Tally(F, t)
<1>1. PICK u, m, n, U, V, W : /\ u = s \o t /\ m = Len(s) /\ n = Len(t)
                              /\ U = Weights(F, u) /\ V = Weights(F, s) /\ W = Weights(F, t)
  OBVIOUS
<1>2. m \in Nat /\ n \in Nat /\ u \in Seq(S) /\ Len(u) = m + n
  BY <1>1, ConcatProperties
<1>3. /\ \A i \in 1..m : u[i] = s[i]
      /\ \A i \in 1..n : u[m + i] = t[i]
  <2>1. \A i \in 1..m + n : u[i] = IF i <= m THEN s[i] ELSE t[i - m]
    BY <1>1, ConcatProperties
  <2>2. ASSUME NEW i \in 1..m PROVE u[i] = s[i]
    BY <1>2, <2>1
  <2>3. ASSUME NEW i \in 1..n PROVE u[m + i] = t[i]
    <3>1. m + i \in 1..m + n /\ ~(m + i <= m) /\ (m + i) - m = i
      BY <1>2
    <3> QED
      BY <2>1, <3>1
  <2> QED
    BY <2>2, <2>3
<1>4. \A i \in 1..m : V[i] \in Int /\ U[i] = V[i]
  BY <1>1, <1>2, <1>3 DEF Weights
<1>5. \A i \in 1..n : W[i] \in Int /\ U[m + i] = W[i]
  BY <1>1, <1>2, <1>3 DEF Weights
<1>6. \A i \in 1..m + n : U[i] \in Int
  BY <1>1, <1>2 DEF Weights
<1>7. \A k \in 0..n : IsFiniteSet(1..k) /\ IsFiniteSet(1..m + k)
  BY <1>2, FirstNumbers
<1>8. SumOver(V, 1..m) \in Int
  <2>1. IsFiniteSet(1..m)
    BY <1>2, FS_Interval
  <2> QED
    BY <1>4, <2>1, SumType
<1>9. \A k \in 0..n : SumOver(W, 1..k) \in Int
  <2>1. ASSUME NEW k \in 0..n PROVE SumOver(W, 1..k) \in Int
    <3>1. IsFiniteSet(1..k) /\ \A i \in 1..k : W[i] \in Int
      BY <1>2, <1>5, <1>7
    <3> QED
      BY <3>1, SumType
  <2> QED
    BY <2>1
<1> DEFINE I == {k \in 0..n : SumOver(U, 1..m + k) = SumOver(V, 1..m) + SumOver(W, 1..k)}
<1>10. 0 \in I
  <2>1. 1..0 = {} /\ 1..m + 0 = 1..m /\ IsFiniteSet(1..0) /\ IsFiniteSet(1..m)
    <3>1. 1..0 = {} /\ 1..m + 0 = 1..m
      BY <1>2
    <3>2. m \in Int /\ 0 \in Int
      BY <1>2
    <3> QED
      BY <3>1, <3>2, FirstNumbers
  <2>2. SumOver(W, 1..0) = 0
    BY <2>1, SumAt
  <2>3. SumOver(U, 1..m) = SumOver(V, 1..m)
    <3>1. \A i \in 1..m : U[i] = V[i]
      BY <1>4
    <3>2. IsFiniteSet(1..m)
      BY <2>1
    <3> QED
      BY <3>1, <3>2, SumSame
  <2> QED
    BY <1>2, <1>8, <2>1, <2>2, <2>3
<1>11. ASSUME NEW k \in 0..n - 1, k \in I PROVE k + 1 \in I
  <2>1. PICK p, q : p = k + 1 /\ q = m + p
    OBVIOUS
  <2>2. p \in 1..n /\ p \in Nat /\ p > 0 /\ q \in Nat /\ q > 0 /\ p - 1 = k /\ q - 1 = m + k /\ k \in 0..n
    BY <1>2, <2>1
  <2>3. SumOver(W, 1..p) = W[p] + SumOver(W, 1..p - 1)
    <3>1. \A i \in 1..p : W[i] \in Int
      BY <1>2, <1>5, <2>2
    <3> QED
      BY <2>2, <3>1, SumLast
  <2>4. SumOver(U, 1..q) = U[q] + SumOver(U, 1..q - 1)
    <3>1. \A i \in 1..q : U[i] \in Int
      BY <1>2, <1>6, <2>1, <2>2
    <3> QED
      BY <2>2, <3>1, SumLast
  <2>5. U[q] = W[p] /\ W[p] \in Int
    BY <1>5, <2>1, <2>2
  <2>6. SumOver(U, 1..q) = W[p] + (SumOver(V, 1..m) + SumOver(W, 1..k))
    BY <1>11, <2>2, <2>4, <2>5
  <2>7. SumOver(U, 1..q) = SumOver(V, 1..m) + SumOver(W, 1..p)
    <3>1. PICK a, b, w : a = SumOver(V, 1..m) /\ b = SumOver(W, 1..k) /\ w = W[p]
      OBVIOUS
    <3>2. a \in Int /\ b \in Int /\ w \in Int
      BY <1>8, <1>9, <2>2, <2>5, <3>1
    <3>3. SumOver(W, 1..p) = w + b
      BY <2>2, <2>3, <3>1
    <3>4. SumOver(U, 1..q) = w + (a + b)
      BY <2>6, <3>1
    <3> QED
      BY <3>1, <3>2, <3>3, <3>4
  <2> QED
    BY <2>1, <2>2, <2>7
<1>12. n \in I
  <2>1. \A k \in 0..n : k \in I
    <3> HIDE DEF I
    <3> QED
      BY <1>2, <1>10, <1>11, BoundedInduction
  <2> QED
    BY <1>2, <2>1
<1> QED
  BY <1>1, <1>2, <1>12 DEF Tally

(* The tally of an empty sequence, and of one element. *)
LEMMA TallyOne ==
  ASSUME NEW S, NEW F, \A x \in S : F[x] \in Int
  PROVE  Tally(F, <<>>) = 0 /\ \A x \in S : Tally(F, <<x>>) = F[x]
<1>1. Tally(F, <<>>) = 0
  <2>1. PICK W, e : W = Weights(F, e) /\ e = <<>>
    OBVIOUS
  <2>2. 1..Len(e) = {} /\ IsFiniteSet({})
    BY <2>1, FS_EmptySet
  <2>3. SumOver(W, {}) = 0
    BY <2>2, SumAt
  <2> QED
    BY <2>1, <2>2, <2>3 DEF Tally
<1>2. ASSUME NEW x \in S PROVE Tally(F, <<x>>) = F[x]
  <2>1. PICK W, s : W = Weights(F, s) /\ s = <<x>>
    OBVIOUS
  <2>2. Len(s) = 1 /\ s[1] = x
    BY <2>1
  <2>3. W[1] = F[x] /\ \A i \in 1..1 : W[i] \in Int
    BY <2>1, <2>2 DEF Weights
  <2>4. SumOver(W, 1..1) = W[1] + SumOver(W, 1..1 - 1)
    <3>1. PICK n : n = 1
      OBVIOUS
    <3>2. n \in Nat /\ n > 0 /\ \A i \in 1..n : W[i] \in Int
      BY <2>3, <3>1
    <3>3. SumOver(W, 1..n) = W[n] + SumOver(W, 1..n - 1)
      BY <3>2, SumLast
    <3> QED
      BY <3>1, <3>3
  <2>5. 1..1 - 1 = {} /\ IsFiniteSet({})
    BY FS_EmptySet
  <2>6. SumOver(W, {}) = 0
    BY <2>5, SumAt
  <2>7. SumOver(W, 1..1) = F[x]
    BY <2>3, <2>4, <2>5, <2>6
  <2> QED
    BY <2>1, <2>2, <2>7 DEF Tally
<1> QED
  BY <1>1, <1>2

(* The tally of what is flattened is that of its parts. *)
LEMMA TallyFlat ==
  ASSUME NEW S, NEW F, \A x \in S : F[x] \in Int, NEW ss \in Seq(Seq(S)),
         NEW G, \A i \in 1..Len(ss) : G[i] = Tally(F, ss[i])
  PROVE  FlattenSeq(ss) \in Seq(S) /\ Tally(F, FlattenSeq(ss)) = SumOver(G, 1..Len(ss))
<1>1. PICK f : Joins(S, ss, f)
  BY FlattenJoins
<1>2. PICK n : n = Len(ss)
  OBVIOUS
<1>3. /\ n \in Nat /\ f \in [0..n -> Seq(S)] /\ f[0] = <<>> /\ FlattenSeq(ss) = f[n]
      /\ \A k \in 1..n : f[k] = f[k - 1] \o ss[k]
  BY <1>1, <1>2 DEF Joins
<1>4. \A k \in 1..n : ss[k] \in Seq(S) /\ G[k] = Tally(F, ss[k]) /\ G[k] \in Int
  <2>1. \A k \in 1..n : ss[k] \in Seq(S) /\ G[k] = Tally(F, ss[k])
    BY <1>2
  <2> QED
    BY <2>1, TallyType
<1>5. \A k \in 0..n : SumOver(G, 1..k) \in Int
  <2>1. ASSUME NEW k \in 0..n PROVE SumOver(G, 1..k) \in Int
    <3>1. IsFiniteSet(1..k) /\ \A i \in 1..k : G[i] \in Int
      BY <1>3, <1>4, FirstNumbers
    <3> QED
      BY <3>1, SumType
  <2> QED
    BY <2>1
<1> DEFINE I == {k \in 0..n : Tally(F, f[k]) = SumOver(G, 1..k)}
<1>6. 0 \in I
  <2>1. Tally(F, f[0]) = 0
    <3>1. \A x \in S : F[x] \in Int
      OBVIOUS
    <3> QED
      BY <1>3, <3>1, TallyOne
  <2>2. 1..0 = {} /\ IsFiniteSet({})
    BY FS_EmptySet
  <2>3. SumOver(G, {}) = 0
    BY <2>2, SumAt
  <2> QED
    BY <1>3, <2>1, <2>2, <2>3
<1>7. ASSUME NEW k \in 0..n - 1, k \in I PROVE k + 1 \in I
  <2>1. PICK p : p = k + 1
    OBVIOUS
  <2>2. p \in 1..n /\ p \in Nat /\ p > 0 /\ p - 1 = k /\ k \in 0..n
    BY <1>3, <2>1
  <2>3. f[p] = f[k] \o ss[p] /\ f[k] \in Seq(S) /\ ss[p] \in Seq(S)
    BY <1>3, <1>4, <2>2
  <2>4. Tally(F, f[k] \o ss[p]) = Tally(F, f[k]) + Tally(F, ss[p])
    <3>1. PICK a, b : a = f[k] /\ b = ss[p]
      OBVIOUS
    <3>2. a \in Seq(S) /\ b \in Seq(S)
      BY <2>3, <3>1
    <3>3. \A x \in S : F[x] \in Int
      OBVIOUS
    <3>4. Tally(F, a \o b) = Tally(F, a) + Tally(F, b)
      BY <3>2, <3>3, TallyConcat
    <3> QED
      BY <3>1, <3>4
  <2>5. SumOver(G, 1..p) = G[p] + SumOver(G, 1..p - 1)
    <3>1. \A i \in 1..p : G[i] \in Int
      BY <1>3, <1>4, <2>2
    <3> QED
      BY <2>2, <3>1, SumLast
  <2>6. Tally(F, f[p]) = SumOver(G, 1..p)
    <3>1. PICK a, b : a = SumOver(G, 1..k) /\ b = G[p]
      OBVIOUS
    <3>2. a \in Int /\ b \in Int
      BY <1>4, <1>5, <2>2, <3>1
    <3>3. Tally(F, f[p]) = a + b
      BY <1>4, <1>7, <2>2, <2>3, <2>4, <3>1
    <3>4. SumOver(G, 1..p) = b + a
      BY <2>2, <2>5, <3>1
    <3> QED
      BY <3>2, <3>3, <3>4
  <2> QED
    BY <2>1, <2>2, <2>6
<1>8. n \in I
  <2>1. \A k \in 0..n : k \in I
    <3> HIDE DEF I
    <3> QED
      BY <1>3, <1>6, <1>7, BoundedInduction
  <2> QED
    BY <1>3, <2>1
<1> QED
  BY <1>2, <1>3, <1>8

(* The selected elements are those of the sequence at the positions selected. *)
Portion(s, K) == [i \in 1..Len(s) |-> IF i \in K THEN <<s[i]>> ELSE <<>>]

(* A portion is a sequence of sequences of the same elements. *)
LEMMA PortionType ==
  ASSUME NEW S, NEW s \in Seq(S), NEW K
  PROVE  /\ Portion(s, K) \in Seq(Seq(S)) /\ Len(Portion(s, K)) = Len(s)
         /\ Selected(s, K) = FlattenSeq(Portion(s, K))
<1>1. PICK n, p : n = Len(s) /\ p = Portion(s, K)
  OBVIOUS
<1>2. n \in Nat /\ p = [i \in 1..n |-> IF i \in K THEN <<s[i]>> ELSE <<>>]
  BY <1>1 DEF Portion
<1>3. \A i \in 1..n : <<s[i]>> \in Seq(S) /\ <<>> \in Seq(S)
  BY <1>1
<1>4. p \in [1..n -> Seq(S)]
  BY <1>2, <1>3
<1>5. p \in Seq(Seq(S)) /\ Len(p) = n
  <2>1. PICK T : T = Seq(S)
    OBVIOUS
  <2>2. p \in [1..n -> T]
    BY <1>4, <2>1
  <2> QED
    BY <1>2, <2>1, <2>2, FunctionSequence
<1> QED
  BY <1>1, <1>5 DEF Selected, Portion

(* The tally of the selected elements leaves the others out. *)
LEMMA TallySelected ==
  ASSUME NEW S, NEW F, \A x \in S : F[x] \in Int, NEW s \in Seq(S), NEW K,
         NEW G, \A i \in 1..Len(s) : G[i] = IF i \in K THEN F[s[i]] ELSE 0
  PROVE  Selected(s, K) \in Seq(S) /\ Tally(F, Selected(s, K)) = SumOver(G, 1..Len(s))
<1>1. PICK ss : ss = Portion(s, K)
  OBVIOUS
<1>2. ss \in Seq(Seq(S)) /\ Len(ss) = Len(s) /\ Selected(s, K) = FlattenSeq(ss)
  BY <1>1, PortionType
<1>3. ASSUME NEW i \in 1..Len(ss) PROVE G[i] = Tally(F, ss[i])
  <2>1. ss[i] = IF i \in K THEN <<s[i]>> ELSE <<>>
    BY <1>1, <1>2, <1>3 DEF Portion
  <2>2. s[i] \in S /\ G[i] = IF i \in K THEN F[s[i]] ELSE 0
    BY <1>2
  <2>3. Tally(F, <<>>) = 0 /\ \A x \in S : Tally(F, <<x>>) = F[x]
    BY TallyOne
  <2> QED
    BY <2>1, <2>2, <2>3
<1>4. \A x \in S : F[x] \in Int
  OBVIOUS
<1>5. FlattenSeq(ss) \in Seq(S) /\ Tally(F, FlattenSeq(ss)) = SumOver(G, 1..Len(ss))
  BY <1>2, <1>3, <1>4, TallyFlat
<1> QED
  BY <1>2, <1>5

(* How often an element occurs is a tally. *)
Occurrences(s, x) == Cardinality({i \in 1..Len(s) : s[i] = x})

(* It is the tally of a weight of 1 for that element. *)
LEMMA OccurrencesTally ==
  ASSUME NEW S, NEW s \in Seq(S), NEW x, NEW F, \A y \in S : F[y] = IF y = x THEN 1 ELSE 0
  PROVE  Occurrences(s, x) = Tally(F, s)
<1>1. PICK n, W : n = Len(s) /\ W = Weights(F, s)
  OBVIOUS
<1>2. n \in Nat /\ \A i \in 1..n : W[i] = (IF s[i] = x THEN 1 ELSE 0) /\ W[i] \in Int
  BY <1>1 DEF Weights
<1> DEFINE At(k) == {i \in 1..k : s[i] = x}
           I == {k \in 0..n : IsFiniteSet(At(k)) /\ Cardinality(At(k)) = SumOver(W, 1..k)}
<1>3. 0 \in I
  <2>1. At(0) = {} /\ 1..0 = {}
    OBVIOUS
  <2>2. IsFiniteSet({}) /\ Cardinality({}) = 0
    BY FS_EmptySet
  <2>3. SumOver(W, {}) = 0
    BY <2>2, SumAt
  <2> QED
    BY <1>2, <2>1, <2>2, <2>3
<1>4. ASSUME NEW k \in 0..n - 1, k \in I PROVE k + 1 \in I
  <2>1. PICK p, A : p = k + 1 /\ A = At(k)
    OBVIOUS
  <2>2. p \in 1..n /\ p \in Nat /\ p > 0 /\ p - 1 = k /\ p \in 0..n
    BY <1>2, <2>1
  <2>3. SumOver(W, 1..p) = W[p] + SumOver(W, 1..p - 1)
    <3>1. \A i \in 1..p : W[i] \in Int
      BY <1>2, <2>2
    <3> QED
      BY <2>2, <3>1, SumLast
  <2>4. IsFiniteSet(A) /\ Cardinality(A) = SumOver(W, 1..k) /\ Cardinality(A) \in Nat
    <3>1. IsFiniteSet(A) /\ Cardinality(A) = SumOver(W, 1..k)
      BY <1>4, <2>1
    <3> QED
      BY <3>1, FS_CardinalityType
  <2>5. p \notin A
    BY <2>1
  <2>6. CASE s[p] = x
    <3>1. At(p) = A \cup {p}
      BY <1>2, <2>1, <2>2, <2>6
    <3>2. IsFiniteSet(A \cup {p}) /\ Cardinality(A \cup {p}) = Cardinality(A) + 1
      BY <2>4, <2>5, FS_AddElement
    <3>3. W[p] = 1
      BY <1>2, <2>2, <2>6
    <3>4. Cardinality(At(p)) = SumOver(W, 1..p)
      <4>1. PICK a : a = Cardinality(A)
        OBVIOUS
      <4>2. a \in Nat /\ SumOver(W, 1..p) = 1 + a /\ Cardinality(At(p)) = a + 1
        BY <2>2, <2>3, <2>4, <3>1, <3>2, <3>3, <4>1
      <4> QED
        BY <4>2
    <3> QED
      BY <2>1, <2>2, <3>1, <3>2, <3>4
  <2>7. CASE s[p] # x
    <3>1. At(p) = A
      BY <1>2, <2>1, <2>2, <2>7
    <3>2. W[p] = 0
      BY <1>2, <2>2, <2>7
    <3>3. Cardinality(At(p)) = SumOver(W, 1..p)
      <4>1. PICK a : a = Cardinality(A)
        OBVIOUS
      <4>2. a \in Nat /\ SumOver(W, 1..p) = 0 + a /\ Cardinality(At(p)) = a
        BY <2>2, <2>3, <2>4, <3>1, <3>2, <4>1
      <4> QED
        BY <4>2
    <3> QED
      BY <2>1, <2>2, <2>4, <3>1, <3>3
  <2> QED
    BY <2>6, <2>7
<1>5. n \in I
  <2>1. \A k \in 0..n : k \in I
    <3> HIDE DEF I
    <3> QED
      BY <1>2, <1>3, <1>4, BoundedInduction
  <2> QED
    BY <1>2, <2>1
<1> QED
  BY <1>1, <1>5 DEF Occurrences, Tally

(* What is flattened has the occurrences of its parts. *)
LEMMA OccurrencesFlat ==
  ASSUME NEW S, NEW ss \in Seq(Seq(S)), NEW x,
         NEW G, \A i \in 1..Len(ss) : G[i] = Occurrences(ss[i], x)
  PROVE  FlattenSeq(ss) \in Seq(S) /\ Occurrences(FlattenSeq(ss), x) = SumOver(G, 1..Len(ss))
<1>1. PICK F : F = [y \in S |-> IF y = x THEN 1 ELSE 0]
  OBVIOUS
<1>2. \A y \in S : F[y] = IF y = x THEN 1 ELSE 0
  BY <1>1
<1>3. \A y \in S : F[y] \in Int
  BY <1>2
<1>4. \A t \in Seq(S) : Occurrences(t, x) = Tally(F, t)
  BY <1>2, OccurrencesTally
<1>5. \A i \in 1..Len(ss) : G[i] = Tally(F, ss[i])
  <2>1. \A i \in 1..Len(ss) : ss[i] \in Seq(S)
    OBVIOUS
  <2> QED
    BY <1>4, <2>1
<1>6. FlattenSeq(ss) \in Seq(S) /\ Tally(F, FlattenSeq(ss)) = SumOver(G, 1..Len(ss))
  BY <1>3, <1>5, TallyFlat
<1> QED
  BY <1>4, <1>6

(* So has what is selected. *)
LEMMA OccurrencesSelected ==
  ASSUME NEW S, NEW s \in Seq(S), NEW K, NEW x,
         NEW G, \A i \in 1..Len(s) : G[i] = IF i \in K /\ s[i] = x THEN 1 ELSE 0
  PROVE  Selected(s, K) \in Seq(S) /\ Occurrences(Selected(s, K), x) = SumOver(G, 1..Len(s))
<1>1. PICK F : F = [y \in S |-> IF y = x THEN 1 ELSE 0]
  OBVIOUS
<1>2. \A y \in S : F[y] = IF y = x THEN 1 ELSE 0
  BY <1>1
<1>3. \A y \in S : F[y] \in Int
  BY <1>2
<1>4. \A t \in Seq(S) : Occurrences(t, x) = Tally(F, t)
  BY <1>2, OccurrencesTally
<1>5. \A i \in 1..Len(s) : G[i] = IF i \in K THEN F[s[i]] ELSE 0
  <2>1. \A i \in 1..Len(s) : s[i] \in S
    OBVIOUS
  <2> QED
    BY <1>2, <2>1
<1>6. Selected(s, K) \in Seq(S) /\ Tally(F, Selected(s, K)) = SumOver(G, 1..Len(s))
  BY <1>3, <1>5, TallySelected
<1> QED
  BY <1>4, <1>6

(* What is selected is of the kind that is selected. *)
LEMMA SelectedIn ==
  ASSUME NEW S, NEW s \in Seq(S), NEW K, NEW U, \A i \in 1..Len(s) : i \in K => s[i] \in U
  PROVE  Selected(s, K) \in Seq(U)
<1>1. PICK n, p, T : n = Len(s) /\ p = Portion(s, K) /\ T = Seq(U)
  OBVIOUS
<1>2. n \in Nat /\ p = [i \in 1..n |-> IF i \in K THEN <<s[i]>> ELSE <<>>]
  BY <1>1 DEF Portion
<1>3. ASSUME NEW i \in 1..n PROVE (IF i \in K THEN <<s[i]>> ELSE <<>>) \in T
  <2>1. CASE i \in K
    <3>1. s[i] \in U
      BY <1>1, <2>1
    <3>2. <<s[i]>> \in Seq(U)
      BY <3>1
    <3> QED
      BY <1>1, <2>1, <3>2
  <2>2. CASE i \notin K
    BY <1>1, <2>2, EmptySeq
  <2> QED
    BY <2>1, <2>2
<1>4. p \in [1..n -> T]
  BY <1>2, <1>3
<1>5. p \in Seq(T) /\ Len(p) = n
  BY <1>2, <1>4, FunctionSequence
<1>6. p \in Seq(Seq(U))
  BY <1>1, <1>5
<1>7. PICK f : Joins(U, p, f)
  BY <1>6, FlattenJoins
<1>8. FlattenSeq(p) \in Seq(U)
  <2>1. FlattenSeq(p) = f[n] /\ f \in [0..n -> Seq(U)] /\ n \in 0..n
    BY <1>2, <1>5, <1>7 DEF Joins
  <2> QED
    BY <2>1
<1> QED
  BY <1>1, <1>8 DEF Selected, Portion

(* splitExplodeSpec leaves steps that are steps of the configuration. *)
LEMMA StepsOf ==
  ASSUME NEW c \in Configs
  PROVE  /\ Len(Steps(c)) \in Nat /\ DOMAIN Steps(c) = 1..Len(Steps(c))
         /\ ToSet(Steps(c)) \subseteq ToSet(c.transformations)
<1>1. PICK ts, S, K : ts = c.transformations /\ S = ToSet(ts) /\ K = (1..Len(ts)) \ Explodes(c)
  OBVIOUS
<1>2. ts \in Seq(S)
  BY <1>1, ConfigsAssumption DEF Sequence
<1>3. \A i \in 1..Len(ts) : i \in K => ts[i] \in S
  BY <1>2
<1>4. Selected(ts, K) \in Seq(S)
  BY <1>2, <1>3, SelectedIn
<1>5. PICK r : r = Steps(c)
  OBVIOUS
<1>6. r \in Seq(S)
  BY <1>1, <1>4, <1>5 DEF Steps
<1>7. Len(r) \in Nat /\ DOMAIN r = 1..Len(r) /\ \A i \in 1..Len(r) : r[i] \in S
  BY <1>6, SeqSequence
<1>8. ToSet(r) \subseteq S
  BY <1>7 DEF ToSet
<1> QED
  BY <1>1, <1>5, <1>7, <1>8

-----------------------------------------------------------------------------
(* A table is aligned with the columns of a configuration. *)
Aligned(c, table) ==
  /\ DOMAIN table.index # {}
  /\ \A k \in DOMAIN c.columns :
       /\ DOMAIN table.columns[k] = DOMAIN table.index
       /\ \A row \in DOMAIN table.index :
            TypeOf(table.columns[k][row]) = GoType(c.columns[k].type)

(* The elements of an array all have the type of the column they go to. *)
Typed(c, elements) == \A i \in DOMAIN elements : TypeOf(elements[i]) = ElementType(c)

(* A table has these rows, at a start and at multiples of an interval from it. *)
OnAxis(table, rows, start, interval) ==
  /\ DOMAIN table.index = rows
  /\ \A i \in rows : table.index[i] = start + Wrap((i - 1) * interval)

(* A null sentinel has the type of its column. *)
LEMMA NullType ==
  ASSUME NEW type \in ColumnTypes
  PROVE  TypeOf(NullOf(type)) = GoType(type)
<1>1. CASE type = "timestamp"
  BY <1>1 DEF NullOf, GoType, TypeOf
<1>2. CASE type = "double"
  BY <1>2 DEF NullOf, GoType, TypeOf
<1>3. CASE type = "int64"
  BY <1>3 DEF NullOf, GoType, TypeOf
<1>4. CASE type = "blob"
  BY <1>4 DEF NullOf, GoType, TypeOf
<1>5. CASE type = "string" \/ type = "symbol"
  BY <1>5 DEF NullOf, GoType, TypeOf
<1> QED
  BY <1>1, <1>2, <1>3, <1>4, <1>5 DEF ColumnTypes

(* A broadcast column has a value of its type in each of the rows. *)
LEMMA BroadcastAligned ==
  ASSUME NEW fields, NEW col, col.type \in ColumnTypes, NEW rows
  PROVE  LET b == Broadcast(fields, col, rows)
         IN DOMAIN b = rows /\ \A row \in rows : TypeOf(b[row]) = GoType(col.type)
<1>1. TypeOf(NullOf(col.type)) = GoType(col.type)
  BY NullType
<1> QED
  BY <1>1 DEF Broadcast

(* An int64 that has not overflowed is itself. *)
LEMMA WrapInt64 ==
  ASSUME NEW n \in 0..MaxInt64
  PROVE  Wrap(n) = n
<1>1. MaxInt64 \in Nat
  BY ParserAssumption
<1>2. n + MaxInt64 + 1 \in 0..(2 * (MaxInt64 + 1) - 1)
  BY <1>1
<1>3. ASSUME NEW d \in Nat \ {0}, NEW x \in 0..(d - 1) PROVE x % d = x
  OBVIOUS
<1>4. (n + MaxInt64 + 1) % (2 * (MaxInt64 + 1)) = n + MaxInt64 + 1
  BY <1>1, <1>2, <1>3
<1> QED
  BY <1>1, <1>4 DEF Wrap
(* The columns of an accepted configuration have names of their own. *)
LEMMA ColumnTypeOf ==
  ASSUME NEW c, ValidateSchema(c), NEW k \in DOMAIN c.columns
  PROVE  /\ c.columns[k].type \in ColumnTypes /\ c.columns[k].name # ""
         /\ ColumnType(c, c.columns[k].name) = c.columns[k].type
<1>1. c.columns[k] \in ToSet(c.columns)
  BY DEF ToSet
<1>2. ASSUME NEW col \in ToSet(c.columns), col.name = c.columns[k].name
      PROVE  col = c.columns[k]
  BY <1>2 DEF ToSet, ValidateSchema
<1> QED
  BY <1>1, <1>2 DEF ValidateSchema, ColumnType

-----------------------------------------------------------------------------
(* The three ways a result comes about.                                     *)

(* The table of createWriterTable has one row. *)
LEMMA WriterTable ==
  ASSUME NEW c, ValidateSchema(c), NEW st
  PROVE  Aligned(c, CreateWriterTable(c, st)) /\ DOMAIN CreateWriterTable(c, st).index = {1}
<1>1. PICK t : t = CreateWriterTable(c, st)
  OBVIOUS
<1>2. PICK x : t.index = <<x>>
  BY <1>1 DEF CreateWriterTable
<1>3. DOMAIN t.index = {1}
  BY <1>2
<1>4. ASSUME NEW k \in DOMAIN c.columns
      PROVE  /\ DOMAIN t.columns[k] = {1}
             /\ \A row \in {1} : TypeOf(t.columns[k][row]) = GoType(c.columns[k].type)
  <2>1. t.columns[k] = Broadcast(st.fields, c.columns[k], {1})
    BY <1>1 DEF CreateWriterTable
  <2>2. c.columns[k].type \in ColumnTypes
    BY ColumnTypeOf
  <2> QED
    BY <2>1, <2>2, BroadcastAligned
<1> QED
  BY <1>1, <1>3, <1>4 DEF Aligned

(* The elements of an array have the type of the column they go to. *)
LEMMA ArrayElements ==
  ASSUME NEW c, NEW value, IsArray(c, value)
  PROVE  /\ TypeOf(value) \in {"list", "floats", "ints"}
         /\ DOMAIN ResolveArray(c, value) = DOMAIN value[2]
         /\ Typed(c, ResolveArray(c, value))
<1>1. TypeOf(value) \in {"list", "floats", "ints"}
  BY DEF IsArray
<1>2. DOMAIN ResolveArray(c, value) = DOMAIN value[2]
  BY DEF ResolveArray
<1>3. ASSUME NEW i \in DOMAIN value[2]
      PROVE  TypeOf(ResolveArray(c, value)[i]) = ElementType(c)
  <2>1. CASE TypeOf(value) = "list"
    <3>1. TypeOf(value[2][i]) = ElementType(c)
      BY <2>1 DEF IsArray
    <3>2. ResolveArray(c, value)[i] = value[2][i]
      BY <2>1 DEF ResolveArray
    <3> QED
      BY <3>1, <3>2
  <2>2. CASE TypeOf(value) # "list"
    BY <2>2 DEF ResolveArray, TypeOf
  <2> QED
    BY <2>1, <2>2
<1> QED
  BY <1>1, <1>2, <1>3 DEF Typed

(* The table of an array that is not empty. *)
LEMMA ExplodedTable ==
  ASSUME NEW c, ValidateSchema(c), CompileExplodeSpec(c), HasExplode(c), NEW st, NEW elements,
         DOMAIN elements # {}, Typed(c, elements),
         NEW start, NEW interval,
         NEW t, t = CreateExplodedWriterTable(c, st, elements, start, interval)
  PROVE  Aligned(c, t) /\ OnAxis(t, DOMAIN elements, start, interval)
<1>1. t = CreateExplodedWriterTable(c, st, elements, start, interval)
  OBVIOUS
<1>2. PICK rows, e : rows = DOMAIN elements /\ e = Explode(c)
  OBVIOUS
<1>3. t.index = [i \in rows |-> start + Wrap((i - 1) * interval)]
  BY <1>1, <1>2 DEF CreateExplodedWriterTable, BuildExplodedIndex
<1>4. ASSUME NEW k \in DOMAIN c.columns
      PROVE  /\ DOMAIN t.columns[k] = rows
             /\ \A row \in rows : TypeOf(t.columns[k][row]) = GoType(c.columns[k].type)
  <2>1. PICK col : col = c.columns[k]
    OBVIOUS
  <2>2. t.columns[k] = IF col.name = e.target THEN elements
                       ELSE IF col.name = e.ordinal THEN [i \in rows |-> <<"int64", i - 1>>]
                       ELSE Broadcast(st.fields, col, rows)
    BY <1>1, <1>2, <2>1 DEF CreateExplodedWriterTable
  <2>3. col.type \in ColumnTypes
    BY <2>1, ColumnTypeOf
  <2>4. col.name # "" /\ ColumnType(c, col.name) = col.type
    BY <2>1, ColumnTypeOf
  <2>5. CASE col.name = e.target
    <3>1. GoType(col.type) = ElementType(c)
      BY <1>2, <2>4, <2>5 DEF ElementType
    <3> QED
      BY <1>2, <2>1, <2>2, <2>5, <3>1 DEF Typed
  <2>6. CASE col.name # e.target /\ col.name = e.ordinal
    <3>1. col.type = "int64"
      BY <1>2, <2>6, <2>4 DEF CompileExplodeSpec, CompileExplodeColumns
    <3>2. GoType(col.type) = "int64"
      BY <3>1 DEF GoType
    <3>3. t.columns[k] = [i \in rows |-> <<"int64", i - 1>>]
      BY <2>2, <2>6
    <3> QED
      BY <2>1, <3>2, <3>3 DEF TypeOf
  <2>7. CASE col.name # e.target /\ col.name # e.ordinal
    <3>1. t.columns[k] = Broadcast(st.fields, col, rows)
      BY <2>2, <2>7
    <3> QED
      BY <2>1, <2>3, <3>1, BroadcastAligned
  <2> QED
    BY <2>5, <2>6, <2>7
<1>5. DOMAIN t.index = rows
  BY <1>3
<1>6. \A i \in rows : t.index[i] = start + Wrap((i - 1) * interval)
  BY <1>3
<1>7. Aligned(c, t)
  BY <1>2, <1>4, <1>5 DEF Aligned
<1> QED
  BY <1>1, <1>2, <1>5, <1>6, <1>7 DEF OnAxis
(* An interval that is resolved is positive, wherever it comes from. *)
LEMMA IntervalPositive ==
  ASSUME NEW interval, CompileExplodeInterval(interval), NEW fields, NEW n,
         ResolveInterval(interval, fields, n) # Failed
  PROVE  ResolveInterval(interval, fields, n)[2] > 0
<1>1. CASE interval[1] = "value"
  BY <1>1 DEF ResolveInterval, CompileExplodeInterval
<1>2. CASE interval[1] = "by_length"
  <2>1. n \in DOMAIN interval[2] /\ ResolveInterval(interval, fields, n) = <<"int64", interval[2][n]>>
    BY <1>2 DEF ResolveInterval
  <2>2. interval[2][n] > 0
    BY <1>2, <2>1 DEF CompileExplodeInterval
  <2> QED
    BY <2>1, <2>2
<1>3. CASE interval[1] = "source"
  <2>1. PICK value, unit : value = Lookup(fields, interval[2]) /\ unit = Units[interval[3]]
    OBVIOUS
  <2>2. ResolveInterval(interval, fields, n) = ResolveSourcedInterval(value, unit)
    BY <1>3, <2>1 DEF ResolveInterval
  <2>3. unit \in 1..4
    <3>1. interval[3] \in {"ns", "us", "ms", "s"}
      BY <1>3 DEF CompileExplodeInterval, Units
    <3> QED
      BY <2>1, <3>1 DEF Units
  <2>4. CASE TypeOf(value) = "int64"
    <3>1. /\ value[2] \in 1..(MaxInt64 \div unit)
          /\ ResolveSourcedInterval(value, unit) = <<"int64", value[2] * unit>>
      BY <2>2, <2>4 DEF ResolveSourcedInterval
    <3>2. value[2] \in Int /\ value[2] > 0
      BY <3>1
    <3>3. value[2] * unit > 0
      BY <2>3, <3>2
    <3> QED
      BY <2>2, <3>1, <3>3
  <2>5. CASE TypeOf(value) = "float64"
    <3>1. /\ value[2] * unit \in 1..MaxInt64
          /\ ResolveSourcedInterval(value, unit) = <<"int64", value[2] * unit>>
      BY <2>2, <2>5 DEF ResolveSourcedInterval
    <3> QED
      BY <2>2, <3>1
  <2>6. CASE TypeOf(value) \notin {"int64", "float64"}
    BY <2>2, <2>6 DEF ResolveSourcedInterval
  <2> QED
    BY <2>4, <2>5, <2>6
<1> QED
  BY <1>1, <1>2, <1>3 DEF CompileExplodeInterval

(* parseExploded: an error, an empty array, or a table of a row per element. *)
LEMMA ExplodedResult ==
  ASSUME NEW c, NEW st
  PROVE  LET e == Explode(c)
             value == Lookup(st.fields, e.source)
             start == Lookup(st.fields, e.start)
             interval == ResolveInterval(e.interval, st.fields, Len(value[2]))
             elements == ResolveArray(c, value)
             r == ParseExploded(c, st)
         IN \/ r.outcome = "unusable" /\ r.tables = <<>>
            \/ /\ r.outcome # "unusable" /\ IsArray(c, value)
               /\ elements = <<>> /\ r.tables = <<>>
            \/ /\ r.outcome # "unusable" /\ IsArray(c, value)
               /\ elements # <<>> /\ TypeOf(start) = "time" /\ interval # Failed
               /\ r.tables = <<CreateExplodedWriterTable(c, st, elements, start[2], interval[2])>>
<1> DEFINE e == Explode(c)
           value == Lookup(st.fields, e.source)
           start == Lookup(st.fields, e.start)
           interval == ResolveInterval(e.interval, st.fields, Len(value[2]))
           elements == ResolveArray(c, value)
           table == CreateExplodedWriterTable(c, st, elements, start[2], interval[2])
           failed == Unusable([st EXCEPT !.errors = Append(@, 0)])
<1>1. ParseExploded(c, st) =
        IF ~IsArray(c, value) THEN failed
        ELSE IF elements = <<>> THEN Parsed(<<>>, st)
        ELSE IF TypeOf(start) # "time" \/ interval = Failed THEN failed
        ELSE Parsed(<<table>>, st)
  BY DEF ParseExploded
<1>2. failed.outcome = "unusable" /\ failed.tables = <<>>
  BY DEF Unusable, Result
<1>3. ASSUME NEW tables
      PROVE  Parsed(tables, st).outcome # "unusable" /\ Parsed(tables, st).tables = tables
  BY DEF Parsed, Result
<1> HIDE DEF value, start, interval, elements, table, failed
<1>4. \/ ParseExploded(c, st) = failed
      \/ IsArray(c, value) /\ elements = <<>> /\ ParseExploded(c, st) = Parsed(<<>>, st)
      \/ /\ IsArray(c, value) /\ elements # <<>> /\ TypeOf(start) = "time" /\ interval # Failed
         /\ ParseExploded(c, st) = Parsed(<<table>>, st)
  BY <1>1
<1>5. \/ ParseExploded(c, st).outcome = "unusable" /\ ParseExploded(c, st).tables = <<>>
      \/ /\ ParseExploded(c, st).outcome # "unusable" /\ IsArray(c, value)
         /\ elements = <<>> /\ ParseExploded(c, st).tables = <<>>
      \/ /\ ParseExploded(c, st).outcome # "unusable" /\ IsArray(c, value)
         /\ elements # <<>> /\ TypeOf(start) = "time" /\ interval # Failed
         /\ ParseExploded(c, st).tables = <<table>>
  BY <1>2, <1>3, <1>4
<1> QED
  BY <1>5 DEF value, start, interval, elements, table
(* Materialize: what the properties say of a single result. *)
LEMMA MaterializedTables ==
  ASSUME NEW c, Accepted(c), NEW st, NEW table \in ToSet(Materialize(c, st).tables)
  PROVE  /\ Aligned(c, table)
         /\ CheckStructuralFloor(c, st)
         /\ ~HasExplode(c) => table = CreateWriterTable(c, st)
         /\ HasExplode(c) =>
              LET e == Explode(c)
                  value == Lookup(st.fields, e.source)
                  start == Lookup(st.fields, e.start)
                  interval == ResolveInterval(e.interval, st.fields, Len(value[2]))
              IN /\ IsArray(c, value) /\ TypeOf(start) = "time" /\ interval[2] > 0
                 /\ OnAxis(table, DOMAIN value[2], start[2], interval[2])
<1>1. ValidateSchema(c) /\ CompileExplodeSpec(c)
  BY DEF Accepted
<1>2. ASSUME NEW x PROVE ToSet(<<x>>) = {x}
  BY DEF ToSet
<1>3. ToSet(<<>>) = {}
  BY DEF ToSet
<1>4. CheckStructuralFloor(c, st)
  <2>1. ASSUME NEW s PROVE Unusable(s).tables = <<>>
    BY DEF Unusable, Result
  <2> QED
    BY <1>3, <2>1 DEF Materialize
<1>5. CASE ~HasExplode(c)
  <2>1. Materialize(c, st).tables = <<CreateWriterTable(c, st)>>
    BY <1>4, <1>5 DEF Materialize, Parsed, Result
  <2> QED
    BY <1>1, <1>2, <1>4, <1>5, <2>1, WriterTable
<1>6. CASE HasExplode(c)
  <2> DEFINE e == Explode(c)
             value == Lookup(st.fields, e.source)
             start == Lookup(st.fields, e.start)
             interval == ResolveInterval(e.interval, st.fields, Len(value[2]))
             elements == ResolveArray(c, value)
  <2>1. Materialize(c, st) = ParseExploded(c, st)
    BY <1>4, <1>6 DEF Materialize
  <2>2. ParseExploded(c, st).tables # <<>>
    BY <1>3, <2>1
  <2>3. /\ IsArray(c, value) /\ elements # <<>> /\ TypeOf(start) = "time" /\ interval # Failed
        /\ ParseExploded(c, st).tables
             = <<CreateExplodedWriterTable(c, st, elements, start[2], interval[2])>>
    BY <2>2, ExplodedResult
  <2>4. table = CreateExplodedWriterTable(c, st, elements, start[2], interval[2])
    BY <1>2, <2>1, <2>3
  <2>5. DOMAIN elements = DOMAIN value[2] /\ Typed(c, elements)
    BY <2>3, ArrayElements
  <2>6. DOMAIN elements # {}
    BY <2>3 DEF ResolveArray
  <2>7. interval[2] > 0
    <3>1. CompileExplodeInterval(e.interval)
      BY <1>1, <1>6 DEF CompileExplodeSpec, CompileExplodeColumns
    <3> QED
      BY <2>3, <3>1, IntervalPositive
  <2> HIDE DEF value, start, interval, elements
  <2>8. Aligned(c, table) /\ OnAxis(table, DOMAIN elements, start[2], interval[2])
    BY <1>1, <1>6, <2>4, <2>5, <2>6, ExplodedTable
  <2> QED
    BY <1>4, <1>6, <2>3, <2>5, <2>7, <2>8 DEF value, start, interval
<1> QED
  BY <1>5, <1>6

(* What a result says of its tables. *)
LEMMA MaterializedOutcome ==
  ASSUME NEW c, NEW st
  PROVE  LET r == Materialize(c, st)
             value == Lookup(st.fields, Explode(c).source)
         IN /\ r.outcome = "unusable" => r.tables = <<>>
            /\ r.outcome # "unusable" /\ ~HasExplode(c) => r.tables = <<CreateWriterTable(c, st)>>
            /\ r.outcome # "unusable" /\ HasExplode(c) =>
                 /\ IsArray(c, value)
                 /\ ToSet(r.tables) = {} => DOMAIN value[2] = {}
<1>1. ASSUME NEW s PROVE Unusable(s).tables = <<>> /\ Unusable(s).outcome = "unusable"
  BY DEF Unusable, Result
<1>2. ASSUME NEW t PROVE Parsed(t, st).tables = t /\ Parsed(t, st).outcome # "unusable"
  BY DEF Parsed, Result
<1>3. CASE ~CheckStructuralFloor(c, st)
  BY <1>1, <1>3 DEF Materialize
<1>4. CASE CheckStructuralFloor(c, st) /\ ~HasExplode(c)
  BY <1>2, <1>4 DEF Materialize
<1>5. CASE CheckStructuralFloor(c, st) /\ HasExplode(c)
  <2> DEFINE value == Lookup(st.fields, Explode(c).source)
             r == ParseExploded(c, st)
  <2>1. Materialize(c, st) = r
    BY <1>5 DEF Materialize
  <2>2. \/ r.outcome = "unusable" /\ r.tables = <<>>
        \/ r.outcome # "unusable" /\ IsArray(c, value) /\ ResolveArray(c, value) = <<>>
        \/ r.outcome # "unusable" /\ IsArray(c, value) /\ \E x : r.tables = <<x>>
    BY ExplodedResult
  <2>3. ResolveArray(c, value) = <<>> => DOMAIN value[2] = {}
    BY DEF ResolveArray
  <2>4. ASSUME NEW x PROVE ToSet(<<x>>) # {}
    BY DEF ToSet
  <2> HIDE DEF value, r
  <2>5. /\ r.outcome = "unusable" => r.tables = <<>>
        /\ r.outcome # "unusable" =>
             IsArray(c, value) /\ (ToSet(r.tables) = {} => DOMAIN value[2] = {})
    BY <2>2, <2>3, <2>4
  <2> QED
    BY <1>5, <2>1, <2>5 DEF value
<1> QED
  BY <1>3, <1>4, <1>5
-----------------------------------------------------------------------------
(* A result that is no table's: the message is reported unusable. *)
Refused(r) == r.outcome = "unusable" /\ r.tables = <<>>

(* Only what an accepted configuration makes of a message is a result, and   *)
(* the last one is made of the state that is still there.                    *)
ResultsInv ==
  /\ Sequence(results)
  /\ phase \in {"load", "rejected"} => results = <<>>
  /\ phase \notin {"load", "rejected"} => Accepted(config)
  /\ ColumnsAligned
  /\ JustParsed => Refused(Last(results)) \/ Last(results) = Materialize(config, state)

(* t is s with one more element at its end. *)
Grown(s, r, t) ==
  /\ Sequence(t) /\ Last(t) = r
  /\ \A i \in DOMAIN t : t[i] = r \/ (i \in DOMAIN s /\ t[i] = s[i])

(* The results after one more message. *)
LEMMA AppendResult ==
  ASSUME NEW s, Sequence(s), NEW r
  PROVE  Grown(s, r, Append(s, r))
<1> DEFINE t == Append(s, r)
<1>1. PICK S : S = ToSet(s) \cup {r}
  OBVIOUS
<1>2. s \in Seq(S) /\ r \in S
  BY <1>1 DEF Sequence
<1>3. /\ t \in Seq(S) /\ Len(t) = Len(s) + 1 /\ t[Len(s) + 1] = r /\ Len(s) \in Nat
      /\ \A i \in 1..Len(s) : t[i] = s[i]
  BY <1>2, AppendProperties
<1>4. DOMAIN t = 1..Len(t) /\ DOMAIN s = 1..Len(s)
  BY <1>2, <1>3
<1>5. Sequence(t)
  BY <1>3, <1>4 DEF Sequence, ToSet
<1>6. Last(t) = r
  BY <1>3 DEF Last
<1>7. \A i \in DOMAIN t : t[i] = r \/ (i \in DOMAIN s /\ t[i] = s[i])
  BY <1>3, <1>4
<1> QED
  BY <1>5, <1>6, <1>7 DEF Grown

(* A step that ends a message adds one result. *)
LEMMA NewResult ==
  ASSUME ResultsInv, NEW r, results' = Append(results, r), UNCHANGED config, Accepted(config),
         \A table \in ToSet(r.tables) : Aligned(config, table),
         Refused(r) \/ r = Materialize(config', state'),
         phase' \notin {"load", "rejected"}
  PROVE  ResultsInv'
<1>1. Grown(results, r, results')
  <2>1. Sequence(results)
    BY DEF ResultsInv
  <2> QED
    BY <2>1, AppendResult
<1>2. ColumnsAligned'
  BY <1>1 DEF Grown, ResultsInv, ColumnsAligned, Aligned
<1> QED
  BY <1>1, <1>2 DEF Grown, ResultsInv, JustParsed

(* There are no results yet. *)
LEMMA InitResults == Init => ResultsInv
<1> SUFFICES ASSUME Init PROVE ResultsInv
  OBVIOUS
<1>1. results = <<>> /\ phase = "load"
  BY DEF Init
<1>2. Sequence(<<>>) /\ DOMAIN <<>> = {}
  BY DEF Sequence, ToSet
<1> QED
  BY <1>1, <1>2 DEF ResultsInv, ColumnsAligned, JustParsed

(* The results of messages that are not usable. *)
LEMMA RefusedResult ==
  ASSUME ResultsInv, NEW st, results' = Append(results, Unusable(st)), UNCHANGED config,
         phase \notin {"load", "rejected"}, phase' \notin {"load", "rejected"}
  PROVE  ResultsInv'
<1>1. PICK r : r = Unusable(st)
  OBVIOUS
<1>2. Refused(r)
  BY <1>1 DEF Refused, Unusable, Result
<1>3. ToSet(r.tables) = {}
  BY <1>2 DEF Refused, ToSet
<1> QED
  BY <1>1, <1>2, <1>3, NewResult DEF ResultsInv

(* Every step keeps what is known of the results. *)
LEMMA StepResults ==
  ASSUME ResultsInv, [Next]_vars
  PROVE  ResultsInv'
<1>1. CASE Load
  BY <1>1 DEF Load, ResultsInv, ColumnsAligned, JustParsed
<1>2. ASSUME NEW m, Begin(m) PROVE ResultsInv'
  BY <1>2 DEF Begin, ResultsInv, ColumnsAligned, JustParsed
<1>3. ASSUME NEW m, ParseEmpty(m) PROVE ResultsInv'
  <2>1. PICK st : results' = Append(results, Unusable(st))
    BY <1>3 DEF ParseEmpty
  <2> QED
    BY <1>3, <2>1, RefusedResult DEF ParseEmpty
<1>4. CASE StepSucceeds \/ FieldStepFails
  BY <1>4 DEF StepSucceeds, FieldStepFails, ResultsInv, ColumnsAligned, JustParsed
<1>5. CASE StructuralStepFails
  <2>1. PICK st : results' = Append(results, Unusable(st))
    BY <1>5 DEF StructuralStepFails
  <2> QED
    BY <1>5, <2>1, RefusedResult DEF StructuralStepFails
<1>6. CASE Finish
  <2>1. PICK r : r = Materialize(config, state)
    OBVIOUS
  <2>2. /\ phase = "step" /\ phase' = "ready" /\ UNCHANGED <<config, state>>
        /\ results' = Append(results, r)
    BY <1>6, <2>1 DEF Finish
  <2>3. Accepted(config)
    BY <2>2 DEF ResultsInv
  <2>4. \A table \in ToSet(r.tables) : Aligned(config, table)
    BY <2>1, <2>3, MaterializedTables
  <2>5. r = Materialize(config', state')
    BY <2>1, <2>2
  <2> QED
    BY <2>2, <2>3, <2>4, <2>5, NewResult
<1>7. CASE Write
  BY <1>7 DEF Write, ResultsInv, ColumnsAligned, JustParsed
<1>8. CASE NextBatch
  <2>1. results' = <<>> /\ phase = "written" /\ phase' = "ready" /\ UNCHANGED config
    BY <1>8 DEF NextBatch
  <2>2. Sequence(<<>>) /\ DOMAIN <<>> = {}
    BY DEF Sequence, ToSet
  <2> QED
    BY <2>1, <2>2 DEF ResultsInv, ColumnsAligned, JustParsed
<1>9. CASE Rejected \/ UNCHANGED vars
  BY <1>9 DEF Rejected, vars, ResultsInv, ColumnsAligned, JustParsed
<1> QED
  BY <1>1, <1>2, <1>3, <1>4, <1>5, <1>6, <1>7, <1>8, <1>9 DEF Next

(* Every table made so far is aligned, and the last result is a refusal or   *)
(* the materialization of the parse state that is left.                      *)
THEOREM ResultsInvariant == Spec => []ResultsInv
BY InitResults, StepResults, PTL DEF Spec

(* In every table that is made, of one row or of an array, each column has   *)
(* exactly one value per row, of the column's own type, for any accepted      *)
(* configuration and any messages.                                           *)
THEOREM ColumnsAreAligned == Spec => []ColumnsAligned
BY ResultsInvariant, PTL DEF ResultsInv

(* No row is given a made-up time: an extracted index is a time that was     *)
(* found, and exploded rows stand at multiples of a positive interval from    *)
(* their start as far as the offsets are int64s.                             *)
THEOREM TimesAreReal == Spec => []TimeAxis
<1>1. ResultsInv => TimeAxis
  <2> SUFFICES ASSUME ResultsInv, JustParsed, NEW table \in ToSet(Last(results).tables)
               PROVE  /\ HasStep(config, "extract_index") =>
                           /\ TypeOf(Field(state.fields, <<"$timestamp">>)) = "time"
                           /\ table.index = <<state.fields["$timestamp"][2]>>
                      /\ HasExplode(config) =>
                           LET e == Explode(config)
                               n == Len(Lookup(state.fields, e.source)[2])
                               interval == ResolveInterval(e.interval, state.fields, n)[2]
                               start == Lookup(state.fields, e.start)
                           IN /\ TypeOf(start) = "time" /\ interval > 0
                              /\ \A i \in DOMAIN table.index :
                                   (i - 1) * interval \in 0..MaxInt64 =>
                                     table.index[i] = start[2] + (i - 1) * interval
    BY DEF TimeAxis
  <2>1. Accepted(config)
    BY DEF ResultsInv, JustParsed
  <2>2. Last(results) = Materialize(config, state)
    BY DEF ResultsInv, Refused, ToSet
  <2>3. PICK c, st : c = config /\ st = state
    OBVIOUS
  <2>4. Accepted(c) /\ table \in ToSet(Materialize(c, st).tables)
    BY <2>1, <2>2, <2>3
  <2>5. CASE HasExplode(c)
    <3> DEFINE e == Explode(c)
               value == Lookup(st.fields, e.source)
               start == Lookup(st.fields, e.start)
               interval == ResolveInterval(e.interval, st.fields, Len(value[2]))[2]
    <3>1. ~HasStep(c, "extract_index")
      BY <2>4, <2>5 DEF Accepted, CompileExplodeSpec, CompileExplodeColumns
    <3>2. /\ TypeOf(start) = "time" /\ interval > 0
          /\ OnAxis(table, DOMAIN value[2], start[2], interval)
      BY <2>4, <2>5, MaterializedTables
    <3> HIDE DEF value, start, interval
    <3>3. ASSUME NEW i \in DOMAIN table.index, (i - 1) * interval \in 0..MaxInt64
          PROVE  table.index[i] = start[2] + (i - 1) * interval
      <4>1. table.index[i] = start[2] + Wrap((i - 1) * interval)
        BY <3>2 DEF OnAxis
      <4>2. Wrap((i - 1) * interval) = (i - 1) * interval
        BY <3>3, WrapInt64
      <4> QED
        BY <4>1, <4>2
    <3>4. /\ TypeOf(start) = "time" /\ interval > 0
          /\ \A i \in DOMAIN table.index :
               (i - 1) * interval \in 0..MaxInt64 =>
                 table.index[i] = start[2] + (i - 1) * interval
      BY <3>2, <3>3
    <3> QED
      BY <2>3, <3>1, <3>4 DEF value, start, interval
  <2>6. CASE ~HasExplode(c)
    <3>1. CheckStructuralFloor(c, st) /\ table = CreateWriterTable(c, st)
      BY <2>4, <2>6, MaterializedTables
    <3>2. PICK time : time = Field(st.fields, <<"$timestamp">>)
      OBVIOUS
    <3>3. ASSUME HasStep(c, "extract_index")
          PROVE  TypeOf(time) = "time" /\ table.index = <<time[2]>>
      <4>1. TypeOf(time) = "time"
        BY <3>1, <3>2, <3>3 DEF CheckStructuralFloor
      <4>2. table.index = <<IF TypeOf(time) = "time" THEN time[2] ELSE Now>>
        BY <3>1, <3>2 DEF CreateWriterTable
      <4> QED
        BY <4>1, <4>2
    <3>4. TypeOf(time) = "time" => time = st.fields["$timestamp"]
      BY <3>2 DEF Field, Absent, TypeOf
    <3> QED
      BY <2>3, <2>6, <3>2, <3>3, <3>4
  <2> QED
    BY <2>5, <2>6
<1> QED
  BY <1>1, ResultsInvariant, PTL

(* Every message gives its row, or a row for every element of its array, or  *)
(* is reported unusable and gives none.                                      *)
THEOREM NothingIsLost == Spec => []NothingLostSilently
<1>1. ResultsInv => NothingLostSilently
  <2> SUFFICES ASSUME ResultsInv, JustParsed PROVE NothingLostSilently
    BY DEF NothingLostSilently
  <2> DEFINE r == Last(results)
             rows == UNION {DOMAIN table.index : table \in ToSet(r.tables)}
             array == Lookup(state.fields, Explode(config).source)
  <2>1. Accepted(config) /\ (Refused(r) \/ r = Materialize(config, state))
    BY DEF ResultsInv, JustParsed
  <2>2. r.outcome = "unusable" => r.tables = <<>>
    BY <2>1, MaterializedOutcome DEF Refused
  <2>3. ASSUME r.outcome # "unusable"
        PROVE  r = Materialize(config, state)
    BY <2>1, <2>3 DEF Refused
  <2>4. ASSUME r.outcome # "unusable", HasExplode(config)
        PROVE  TypeOf(array) \in {"list", "floats", "ints"} /\ rows = DOMAIN array[2]
    <3>1. IsArray(config, array) /\ (ToSet(r.tables) = {} => DOMAIN array[2] = {})
      BY <2>3, <2>4, MaterializedOutcome
    <3>2. TypeOf(array) \in {"list", "floats", "ints"}
      BY <3>1, ArrayElements
    <3>3. ASSUME NEW table \in ToSet(r.tables) PROVE DOMAIN table.index = DOMAIN array[2]
      BY <2>1, <2>3, <2>4, MaterializedTables DEF OnAxis
    <3>4. rows = DOMAIN array[2]
      <4> HIDE DEF r, array
      <4> QED
        BY <3>1, <3>3
    <3> QED
      BY <3>2, <3>4
  <2>5. ASSUME r.outcome # "unusable", ~HasExplode(config)
        PROVE  rows = {1}
    <3>1. r.tables = <<CreateWriterTable(config, state)>>
      BY <2>3, <2>5, MaterializedOutcome
    <3>2. DOMAIN CreateWriterTable(config, state).index = {1}
      BY <2>1, WriterTable DEF Accepted
    <3> QED
      BY <3>1, <3>2 DEF ToSet
  <2> QED
    BY <2>2, <2>4, <2>5 DEF NothingLostSilently
<1> QED
  BY <1>1, ResultsInvariant, PTL

-----------------------------------------------------------------------------
(* Parse has no memory.  The run of the pipeline over a message of its own   *)
(* is a recursive function; that it exists takes an induction over the steps. *)

(* r says where the pipeline is after each of the first n steps. *)
Follows(steps, skipped, m, n, r) ==
  r = [k \in 0..n |->
         IF k = 0 THEN [stopped |-> FALSE, st |-> [NoState EXCEPT !.data = m.data, !.subject = m.subject]]
         ELSE AfterStep(steps, skipped, k, r[k - 1])]

(* A run of no steps exists. *)
LEMMA FollowsStart ==
  ASSUME NEW steps, NEW skipped, NEW m
  PROVE  \E r : Follows(steps, skipped, m, 0, r)
<1>1. PICK a : a = [stopped |-> FALSE, st |-> [NoState EXCEPT !.data = m.data, !.subject = m.subject]]
  OBVIOUS
<1>2. PICK r : r = [k \in 0..0 |-> a]
  OBVIOUS
<1>3. r = [k \in 0..0 |-> IF k = 0 THEN a ELSE AfterStep(steps, skipped, k, r[k - 1])]
  BY <1>2
<1> QED
  BY <1>1, <1>3 DEF Follows

(* A run can be prolonged by one step. *)
LEMMA FollowsNext ==
  ASSUME NEW steps, NEW skipped, NEW m, NEW n \in Nat, NEW r, Follows(steps, skipped, m, n, r)
  PROVE  \E q : Follows(steps, skipped, m, n + 1, q)
<1>1. PICK a : a = [stopped |-> FALSE, st |-> [NoState EXCEPT !.data = m.data, !.subject = m.subject]]
  OBVIOUS
<1>2. r = [k \in 0..n |-> IF k = 0 THEN a ELSE AfterStep(steps, skipped, k, r[k - 1])]
  BY <1>1 DEF Follows
<1>3. PICK z : z = AfterStep(steps, skipped, n + 1, r[n])
  OBVIOUS
<1>4. PICK q : q = [k \in 0..n + 1 |-> IF k = n + 1 THEN z ELSE r[k]]
  OBVIOUS
<1>5. ASSUME NEW k \in 0..n + 1
      PROVE  q[k] = IF k = 0 THEN a ELSE AfterStep(steps, skipped, k, q[k - 1])
  <2>1. CASE k = 0
    BY <1>2, <1>4, <2>1
  <2>2. CASE k \in 1..n
    <3>1. q[k] = r[k] /\ q[k - 1] = r[k - 1]
      BY <1>4, <2>2
    <3>2. r[k] = AfterStep(steps, skipped, k, r[k - 1])
      BY <1>2, <2>2
    <3> QED
      BY <2>2, <3>1, <3>2
  <2>3. CASE k = n + 1
    <3>1. q[k] = z /\ q[k - 1] = r[n] /\ k # 0
      BY <1>4, <2>3
    <3> QED
      BY <1>3, <2>3, <3>1
  <2> QED
    BY <2>1, <2>2, <2>3
<1>6. DOMAIN q = 0..n + 1 /\ q = [k \in 0..n + 1 |-> q[k]]
  BY <1>4
<1>7. q = [k \in 0..n + 1 |-> IF k = 0 THEN a ELSE AfterStep(steps, skipped, k, q[k - 1])]
  BY <1>5, <1>6
<1> QED
  BY <1>1, <1>7 DEF Follows

(* So a run of any number of steps exists. *)
LEMMA FollowsExists ==
  ASSUME NEW steps, NEW skipped, NEW m, NEW n \in Nat
  PROVE  \E r : Follows(steps, skipped, m, n, r)
<1> DEFINE T == {k \in Nat : ~ \E r : Follows(steps, skipped, m, k, r)}
<1> SUFFICES ASSUME T # {} PROVE FALSE
  BY DEF T
<1>1. PICK k \in T : \A j \in T : k <= j
  <2>1. T \subseteq Nat
    OBVIOUS
  <2> QED
    BY <2>1, LeastOf
<1>2. k \in Nat /\ k # 0
  BY FollowsStart
<1>3. k - 1 \in Nat /\ k - 1 \notin T
  BY <1>1, <1>2
<1>4. PICK r : Follows(steps, skipped, m, k - 1, r)
  BY <1>3
<1>5. \E q : Follows(steps, skipped, m, (k - 1) + 1, q)
  BY <1>3, <1>4, FollowsNext
<1>6. (k - 1) + 1 = k
  BY <1>2
<1>7. \E q : Follows(steps, skipped, m, k, q)
  BY <1>5, <1>6
<1> QED
  BY <1>1, <1>7

(* A run starts from the message alone, and takes step after step. *)
RunOver(steps, skipped, m, A) ==
  /\ A[0] = [stopped |-> FALSE, st |-> [NoState EXCEPT !.data = m.data, !.subject = m.subject]]
  /\ \A k \in 1..Len(steps) : A[k] = AfterStep(steps, skipped, k, A[k - 1])

(* After, which is chosen, is such a run. *)
LEMMA AfterAt ==
  ASSUME NEW steps, Len(steps) \in Nat, NEW skipped, NEW m
  PROVE  RunOver(steps, skipped, m, After(steps, skipped, m))
<1> DEFINE A == After(steps, skipped, m)
<1>1. A = CHOOSE r : Follows(steps, skipped, m, Len(steps), r)
  BY DEF After, Follows
<1>2. Follows(steps, skipped, m, Len(steps), A)
  BY <1>1, FollowsExists
<1>3. PICK a : a = [stopped |-> FALSE, st |-> [NoState EXCEPT !.data = m.data, !.subject = m.subject]]
  OBVIOUS
<1> HIDE DEF A
<1>4. A = [k \in 0..Len(steps) |-> IF k = 0 THEN a ELSE AfterStep(steps, skipped, k, A[k - 1])]
  BY <1>2, <1>3 DEF Follows
<1>5. A[0] = a
  BY <1>4
<1>6. \A k \in 1..Len(steps) : A[k] = AfterStep(steps, skipped, k, A[k - 1])
  BY <1>4
<1> QED
  BY <1>3, <1>5, <1>6 DEF A, RunOver

(* Past a structural step that failed nothing more happens. *)
LEMMA StoppedForGood ==
  ASSUME NEW steps, Len(steps) \in Nat, NEW skipped, NEW m,
         NEW k \in 0..Len(steps), After(steps, skipped, m)[k].stopped
  PROVE  Ran(steps, skipped, m) = After(steps, skipped, m)[k]
<1>1. PICK A, N : A = After(steps, skipped, m) /\ N = Len(steps)
  OBVIOUS
<1>2. N \in Nat /\ k \in 0..N /\ A[k].stopped
      /\ \A i \in 1..N : A[i] = AfterStep(steps, skipped, i, A[i - 1])
  <2>1. RunOver(steps, skipped, m, A)
    BY <1>1, AfterAt
  <2> QED
    BY <1>1, <2>1 DEF RunOver
<1> DEFINE T == {i \in Nat : i \in k..N /\ A[i] # A[k]}
<1>3. T = {}
  <2> SUFFICES ASSUME T # {} PROVE FALSE
    OBVIOUS
  <2>1. PICK i \in T : \A j \in T : i <= j
    <3>1. T \subseteq Nat
      OBVIOUS
    <3> QED
      BY <3>1, LeastOf
  <2>2. i \in 1..N /\ i > k /\ i - 1 \in k..N /\ i - 1 \in Nat
    BY <1>2
  <2>3. A[i - 1] = A[k]
    BY <2>1, <2>2
  <2>4. A[i] = AfterStep(steps, skipped, i, A[i - 1])
    BY <1>2, <2>2
  <2>5. A[i] = A[i - 1]
    BY <1>2, <2>3, <2>4 DEF AfterStep
  <2> QED
    BY <2>3, <2>5
<1>4. N \in k..N /\ N \in Nat
  BY <1>2
<1>5. A[N] = A[k]
  BY <1>3, <1>4
<1> QED
  BY <1>1, <1>5 DEF Ran

(* What an Append leaves in place. *)
Longer(s, x, t) ==
  /\ Sequence(t) /\ Len(s) \in Nat /\ Len(t) = Len(s) + 1
  /\ t[Len(s) + 1] = x /\ Last(t) = x
  /\ \A i \in 1..Len(s) : t[i] = s[i]

(* One more element, and those before it are where they were. *)
LEMMA AppendLonger ==
  ASSUME NEW s, Sequence(s), NEW x
  PROVE  Longer(s, x, Append(s, x))
<1> DEFINE t == Append(s, x)
<1>1. PICK S : S = ToSet(s) \cup {x}
  OBVIOUS
<1>2. s \in Seq(S) /\ x \in S
  BY <1>1 DEF Sequence
<1>3. /\ t \in Seq(S) /\ Len(t) = Len(s) + 1 /\ t[Len(s) + 1] = x /\ Len(s) \in Nat
      /\ \A i \in 1..Len(s) : t[i] = s[i]
  BY <1>2, AppendProperties
<1>4. Sequence(t) /\ Last(t) = x
  BY <1>2, AppendResult DEF Grown
<1> QED
  BY <1>3, <1>4 DEF Longer

(* Each result is that of its message alone; the message at hand is where a  *)
(* run of its own would be.                                                  *)
OwnRun ==
  phase = "step" =>
    /\ next \in 1..Len(Steps(config)) + 1
    /\ Last(batch).data # EmptyPayload
    /\ After(Steps(config), {}, Last(batch))[next - 1] = [stopped |-> FALSE, st |-> state]

HistoryInv ==
  /\ config \in Configs
  /\ Sequence(batch) /\ Sequence(results)
  /\ Len(batch) = IF phase = "step" THEN Len(results) + 1 ELSE Len(results)
  /\ HistoryFree
  /\ OwnRun

(* Before the first message there is nothing to compare. *)
LEMMA InitHistory == Init => HistoryInv
<1> SUFFICES ASSUME Init PROVE HistoryInv
  OBVIOUS
<1>1. results = <<>> /\ batch = <<>> /\ phase = "load" /\ config \in Configs
  BY DEF Init
<1>2. Sequence(<<>>) /\ Len(<<>>) = 0
  BY DEF Sequence, ToSet
<1>3. HistoryFree
  BY <1>1, <1>2 DEF HistoryFree
<1> QED
  BY <1>1, <1>2, <1>3 DEF HistoryInv, OwnRun

(* A message that ends where it ends alone adds its own result. *)
LEMMA OwnResult ==
  ASSUME HistoryInv, phase = "step", phase' = "ready", UNCHANGED <<config, batch>>,
         NEW r, results' = Append(results, r), r = ParseAlone(config, Last(batch))
  PROVE  HistoryInv'
<1>1. Longer(results, r, results')
  BY AppendLonger DEF HistoryInv
<1>2. Len(batch) = Len(results) + 1 /\ Last(batch) = batch[Len(batch)]
  BY DEF HistoryInv, Last
<1>3. HistoryFree'
  <2> SUFFICES ASSUME NEW i \in 1..Len(results') PROVE results'[i] = ParseAlone(config', batch'[i])
    BY DEF HistoryFree
  <2>1. CASE i \in 1..Len(results)
    BY <1>1, <2>1 DEF Longer, HistoryInv, HistoryFree
  <2>2. CASE i = Len(results) + 1
    BY <1>1, <1>2, <2>2 DEF Longer
  <2> QED
    BY <1>1, <2>1, <2>2 DEF Longer
<1> QED
  BY <1>1, <1>2, <1>3 DEF HistoryInv, Longer, OwnRun

(* Every step keeps the results those of the messages alone. *)
LEMMA StepHistory ==
  ASSUME HistoryInv, [Next]_vars
  PROVE  HistoryInv'
<1>0. PICK steps, m : steps = Steps(config) /\ m = Last(batch)
  OBVIOUS
<1>a. Len(steps) \in Nat
  BY <1>0, StepsOf DEF HistoryInv
<1>b. PICK A : A = After(steps, {}, m) /\ RunOver(steps, {}, m, A)
  BY <1>a, AfterAt
<1>c. phase = "step" => /\ next \in 1..Len(steps) + 1 /\ m.data # EmptyPayload
                        /\ A[next - 1] = [stopped |-> FALSE, st |-> state]
  BY <1>0, <1>b DEF HistoryInv, OwnRun
<1>1. CASE Load \/ Rejected \/ Write \/ UNCHANGED vars
  BY <1>1 DEF Load, Rejected, Write, vars, HistoryInv, HistoryFree, OwnRun
<1>2. ASSUME NEW x, Begin(x) PROVE HistoryInv'
  <2>1. /\ phase = "ready" /\ phase' = "step" /\ batch' = Append(batch, x) /\ x.data # EmptyPayload
        /\ state' = NewParseState(x) /\ next' = 1 /\ UNCHANGED <<config, results>>
    BY <1>2 DEF Begin
  <2>2. Longer(batch, x, batch')
    BY <2>1, AppendLonger DEF HistoryInv
  <2>3. HistoryFree'
    BY <2>1, <2>2 DEF Longer, HistoryFree, HistoryInv
  <2>4. RunOver(steps, {}, x, After(steps, {}, x))
    BY <1>a, AfterAt
  <2>5. After(steps, {}, x)[0] = [stopped |-> FALSE, st |-> NewParseState(x)]
    BY <2>4 DEF RunOver, NewParseState
  <2>6. OwnRun'
    BY <1>0, <1>a, <2>1, <2>2, <2>5 DEF OwnRun, Longer
  <2> QED
    BY <2>1, <2>2, <2>3, <2>6 DEF HistoryInv, Longer
<1>3. ASSUME NEW x, ParseEmpty(x) PROVE HistoryInv'
  <2>1. PICK r : r = Unusable([NoState EXCEPT !.errors = <<0>>])
    OBVIOUS
  <2>2. /\ phase = "ready" /\ phase' = "ready" /\ batch' = Append(batch, x) /\ x.data = EmptyPayload
        /\ results' = Append(results, r) /\ UNCHANGED config
    BY <1>3, <2>1 DEF ParseEmpty
  <2>3. Longer(batch, x, batch') /\ Longer(results, r, results')
    BY <2>2, AppendLonger DEF HistoryInv
  <2>4. r = ParseAlone(config, x)
    BY <2>1, <2>2 DEF ParseAlone
  <2>5. HistoryFree'
    <3> SUFFICES ASSUME NEW i \in 1..Len(results') PROVE results'[i] = ParseAlone(config', batch'[i])
      BY DEF HistoryFree
    <3>1. CASE i \in 1..Len(results)
      BY <2>2, <2>3, <3>1 DEF Longer, HistoryInv, HistoryFree
    <3>2. CASE i = Len(results) + 1
      BY <2>2, <2>3, <2>4, <3>2 DEF Longer, HistoryInv
    <3> QED
      BY <2>3, <3>1, <3>2 DEF Longer
  <2> QED
    BY <2>2, <2>3, <2>5 DEF HistoryInv, Longer, OwnRun
<1>4. CASE StepSucceeds \/ FieldStepFails
  <2>1. /\ phase = "step" /\ next <= Len(steps) /\ next' = next + 1
        /\ UNCHANGED <<config, phase, batch, results>>
    BY <1>0, <1>4 DEF StepSucceeds, FieldStepFails
  <2>2. next \in 1..Len(steps)
    BY <1>a, <1>c, <2>1
  <2>3. A[next] = AfterStep(steps, {}, next, [stopped |-> FALSE, st |-> state])
    BY <1>b, <1>c, <2>1, <2>2 DEF RunOver
  <2>4. A[next] = [stopped |-> FALSE, st |-> state']
    <3>1. CASE StepSucceeds
      BY <1>0, <2>3, <3>1 DEF AfterStep, StepSucceeds, Run, Current
    <3>2. CASE FieldStepFails
      <4>1. IsStructuralStep(steps[next]) = FALSE
        BY <1>0, <3>2 DEF FieldStepFails, Current, IsStructuralStep
      <4> QED
        BY <1>0, <2>3, <3>2, <4>1 DEF AfterStep, FieldStepFails, Run, Current, WithError
    <3> QED
      BY <1>4, <3>1, <3>2
  <2>5. OwnRun'
    BY <1>0, <1>a, <1>b, <1>c, <2>1, <2>2, <2>4 DEF OwnRun
  <2> QED
    BY <2>1, <2>5 DEF HistoryInv, HistoryFree
<1>5. CASE StructuralStepFails
  <2>1. PICK st : st = WithError(Run.st)
    OBVIOUS
  <2>2. /\ phase = "step" /\ phase' = "ready" /\ next <= Len(steps)
        /\ results' = Append(results, Unusable(st)) /\ UNCHANGED <<config, batch>>
    BY <1>0, <1>5, <2>1 DEF StructuralStepFails
  <2>3. next \in 1..Len(steps)
    BY <1>a, <1>c, <2>2
  <2>4. A[next] = AfterStep(steps, {}, next, [stopped |-> FALSE, st |-> state])
    BY <1>b, <1>c, <2>2, <2>3 DEF RunOver
  <2>5. A[next] = [stopped |-> TRUE, st |-> st]
    BY <1>0, <1>5, <2>1, <2>4
    DEF AfterStep, StructuralStepFails, Run, Current, WithError, IsStructuralStep
  <2>6. Ran(steps, {}, m) = [stopped |-> TRUE, st |-> st]
    BY <1>a, <1>b, <2>3, <2>5, StoppedForGood
  <2>7. Unusable(st) = ParseAlone(config, m)
    BY <1>0, <1>c, <2>2, <2>6 DEF ParseAlone
  <2> QED
    BY <1>0, <2>2, <2>7, OwnResult
<1>6. CASE Finish
  <2>1. /\ phase = "step" /\ phase' = "ready" /\ next > Len(steps)
        /\ results' = Append(results, Materialize(config, state)) /\ UNCHANGED <<config, batch>>
    BY <1>0, <1>6 DEF Finish
  <2>2. next - 1 = Len(steps)
    BY <1>a, <1>c, <2>1
  <2>3. Ran(steps, {}, m) = [stopped |-> FALSE, st |-> state]
    BY <1>b, <1>c, <2>1, <2>2 DEF Ran
  <2>4. Materialize(config, state) = ParseAlone(config, m)
    BY <1>0, <1>c, <2>1, <2>3 DEF ParseAlone
  <2> QED
    BY <1>0, <2>1, <2>4, OwnResult
<1>7. CASE NextBatch
  <2>1. results' = <<>> /\ batch' = <<>> /\ phase' = "ready" /\ UNCHANGED config
    BY <1>7 DEF NextBatch
  <2>2. Sequence(<<>>) /\ Len(<<>>) = 0
    BY DEF Sequence, ToSet
  <2>3. HistoryFree'
    BY <2>1, <2>2 DEF HistoryFree
  <2> QED
    BY <2>1, <2>2, <2>3 DEF HistoryInv, OwnRun
<1> QED
  BY <1>1, <1>2, <1>3, <1>4, <1>5, <1>6, <1>7 DEF Next

(* HistoryInv is an invariant of the parser. *)
THEOREM HistoryInvariant == Spec => []HistoryInv
BY InitHistory, StepHistory, PTL DEF Spec

(* Parse, newParseState: whatever was parsed before it, the result of a      *)
(* message is that of the message alone, for any configuration, any messages *)
(* and batches of any size.                                                  *)
THEOREM ResultsAreHistoryFree == Spec => []HistoryFree
BY HistoryInvariant, PTL DEF HistoryInv

-----------------------------------------------------------------------------
(* A failed step contributes nothing: no step looks at the errors so far, or *)
(* changes them, and one that fails leaves everything as it was.             *)

State(d, j, f, e) == [data |-> d, subject |-> j, fields |-> f, errors |-> e]

(* A field that is set changes the fields only. *)
LEMMA PutState ==
  ASSUME NEW d, NEW j, NEW f, NEW e, NEW target, NEW value
  PROVE  Put(State(d, j, f, e), target, value) = State(d, j, With(f, target, value), e)
<1>1. PICK g : g = With(f, target, value)
  OBVIOUS
<1>2. [State(d, j, f, e) EXCEPT !.fields = g] = State(d, j, g, e)
  BY DEF State
<1>3. State(d, j, f, e).fields = f
  BY DEF State
<1> QED
  BY <1>1, <1>2, <1>3 DEF Put

(* So does a set of fields. *)
LEMMA PutAllState ==
  ASSUME NEW d, NEW j, NEW f, NEW e, NEW fields
  PROVE  PutAll(State(d, j, f, e), fields) = State(d, j, Overlay(f, fields), e)
<1>1. PICK g : g = Overlay(f, fields)
  OBVIOUS
<1>2. [State(d, j, f, e) EXCEPT !.fields = g] = State(d, j, g, e)
  BY DEF State
<1>3. State(d, j, f, e).fields = f
  BY DEF State
<1> QED
  BY <1>1, <1>2, <1>3 DEF PutAll

(* What a step makes of a state with the errors e. *)
Makes(ok, d, j, f, e) == [ok |-> ok, st |-> State(d, j, f, e)]

(* It does so whatever the errors: ok and the data and fields left are given. *)
Keeping(ok, d, f, d2, f2) == ok \in BOOLEAN /\ (~ok => d2 = d /\ f2 = f)

(* A failure leaves the parse state as it is. *)
LEMMA ErrMakes ==
  ASSUME NEW d, NEW j, NEW f
  PROVE  Keeping(FALSE, d, f, d, f) /\ \A e : Err(State(d, j, f, e)) = Makes(FALSE, d, j, f, e)
BY DEF Keeping, Err, Makes

(* A success leaves the parse state it made. *)
LEMMA OkMakes ==
  ASSUME NEW d, NEW j, NEW f, NEW d2, NEW f2
  PROVE  Keeping(TRUE, d, f, d2, f2) /\ \A e : Ok(State(d2, j, f2, e)) = Makes(TRUE, d2, j, f2, e)
BY DEF Keeping, Ok, Makes

(* The parts of a parse state. *)
LEMMA StateOf ==
  ASSUME NEW d, NEW j, NEW f, NEW e
  PROVE  LET st == State(d, j, f, e)
         IN  st.data = d /\ st.subject = j /\ st.fields = f /\ st.errors = e
BY DEF State

(* Storing a value depends on the fields and never on the errors. *)
LEMMA StoreMakes ==
  ASSUME NEW d, NEW j, NEW f, NEW target, NEW value
  PROVE  \E ok, f2 : /\ Keeping(ok, d, f, d, f2)
                     /\ \A e : Store(State(d, j, f, e), target, value) = Makes(ok, d, j, f2, e)
<1>1. PICK g : g = With(f, target, value)
  OBVIOUS
<1>2. CASE TypeOf(value) \in {"absent", "failed"}
  <2>1. \A e : Store(State(d, j, f, e), target, value) = Makes(FALSE, d, j, f, e)
    BY <1>2, ErrMakes DEF Store
  <2> QED
    BY <2>1, ErrMakes
<1>3. CASE TypeOf(value) \notin {"absent", "failed"}
  <2>1. \A e : Store(State(d, j, f, e), target, value) = Makes(TRUE, d, j, g, e)
    <3> SUFFICES ASSUME NEW e PROVE Store(State(d, j, f, e), target, value) = Makes(TRUE, d, j, g, e)
      OBVIOUS
    <3>1. Put(State(d, j, f, e), target, value) = State(d, j, g, e)
      BY <1>1, PutState
    <3> QED
      BY <1>3, <3>1, OkMakes DEF Store
  <2> QED
    BY <2>1, OkMakes
<1> QED
  BY <1>2, <1>3

(* Decompress neither reads nor writes the errors. *)
LEMMA DecompressMakes ==
  ASSUME NEW s, NEW d, NEW j, NEW f
  PROVE  \E ok, d2, f2 : /\ Keeping(ok, d, f, d2, f2)
                         /\ \A e : Decompress(s, State(d, j, f, e)) = Makes(ok, d2, j, f2, e)
<1>1. \A e : State(d, j, f, e).data = d
  BY StateOf
<1>2. CASE d.kind = "empty"
  <2>1. \A e : Decompress(s, State(d, j, f, e)) = Ok(State(d, j, f, e))
    BY <1>1, <1>2 DEF Decompress
  <2>2. \A e : Ok(State(d, j, f, e)) = Makes(TRUE, d, j, f, e)
    BY OkMakes
  <2>3. Keeping(TRUE, d, f, d, f)
    BY DEF Keeping
  <2> QED
    BY <2>1, <2>2, <2>3
<1>3. CASE d.kind # "empty" /\ d.kind = "gzip"
  <2>1. PICK d2 : d2 = d.fields.inner
    OBVIOUS
  <2>2. \A e : [State(d, j, f, e) EXCEPT !.data = d2] = State(d2, j, f, e)
    BY DEF State
  <2>3. \A e : Decompress(s, State(d, j, f, e)) = Ok([State(d, j, f, e) EXCEPT !.data = d2])
    BY <1>1, <1>3, <2>1 DEF Decompress
  <2>4. \A e : Decompress(s, State(d, j, f, e)) = Ok(State(d2, j, f, e))
    BY <2>2, <2>3
  <2>9. \A e : Ok(State(d2, j, f, e)) = Makes(TRUE, d2, j, f, e)
    BY OkMakes
  <2>10. Keeping(TRUE, d, f, d2, f)
    BY DEF Keeping
  <2> QED
    BY <2>4, <2>9, <2>10
<1>4. CASE d.kind # "empty" /\ d.kind # "gzip"
  <2>1. \A e : Decompress(s, State(d, j, f, e)) = Err(State(d, j, f, e))
    BY <1>1, <1>4 DEF Decompress
  <2>2. \A e : Err(State(d, j, f, e)) = Makes(FALSE, d, j, f, e)
    BY ErrMakes
  <2>3. Keeping(FALSE, d, f, d, f)
    BY DEF Keeping
  <2> QED
    BY <2>1, <2>2, <2>3
<1> QED
  BY <1>2, <1>3, <1>4

(* ParseJSON neither reads nor writes the errors. *)
LEMMA ParseJSONMakes ==
  ASSUME NEW s, NEW d, NEW j, NEW f
  PROVE  \E ok, d2, f2 : /\ Keeping(ok, d, f, d2, f2)
                         /\ \A e : ParseJSON(s, State(d, j, f, e)) = Makes(ok, d2, j, f2, e)
<1>1. \A e : State(d, j, f, e).data = d
  BY StateOf
<1>2. CASE d.kind = "json"
  <2>1. PICK g : g = Overlay(f, d.fields)
    OBVIOUS
  <2>2. \A e : PutAll(State(d, j, f, e), d.fields) = State(d, j, g, e)
    BY <2>1, PutAllState
  <2>3. \A e : ParseJSON(s, State(d, j, f, e)) = Ok(State(d, j, g, e))
    BY <1>1, <1>2, <2>2 DEF ParseJSON
  <2>9. \A e : Ok(State(d, j, g, e)) = Makes(TRUE, d, j, g, e)
    BY OkMakes
  <2>10. Keeping(TRUE, d, f, d, g)
    BY DEF Keeping
  <2> QED
    BY <2>3, <2>9, <2>10
<1>3. CASE d.kind # "json"
  <2>1. \A e : ParseJSON(s, State(d, j, f, e)) = Err(State(d, j, f, e))
    BY <1>1, <1>3 DEF ParseJSON
  <2>2. \A e : Err(State(d, j, f, e)) = Makes(FALSE, d, j, f, e)
    BY ErrMakes
  <2>3. Keeping(FALSE, d, f, d, f)
    BY DEF Keeping
  <2> QED
    BY <2>1, <2>2, <2>3
<1> QED
  BY <1>2, <1>3

(* ParseProtobuf neither reads nor writes the errors. *)
LEMMA ParseProtobufMakes ==
  ASSUME NEW s, NEW d, NEW j, NEW f
  PROVE  \E ok, d2, f2 : /\ Keeping(ok, d, f, d2, f2)
                         /\ \A e : ParseProtobuf(s, State(d, j, f, e)) = Makes(ok, d2, j, f2, e)
<1>1. \A e : State(d, j, f, e).data = d /\ State(d, j, f, e).fields = f
  BY StateOf
<1>2. PICK value : \A e : ResolveProtoSource(s, State(d, j, f, e)) = value
  BY <1>1 DEF ResolveProtoSource
<1>3. PICK decoded : decoded = IF value[2].kind = "proto" THEN value[2].fields ELSE <<>>
  OBVIOUS
<1>4. \A e : ParseProtobuf(s, State(d, j, f, e)) =
               IF TypeOf(value) # "bytes" THEN Err(State(d, j, f, e))
               ELSE IF value[2].kind \notin {"proto", "other"} THEN Err(State(d, j, f, e))
               ELSE IF s.target # "" THEN Ok(Put(State(d, j, f, e), s.target, <<"map", decoded>>))
               ELSE Ok(PutAll(State(d, j, f, e), decoded))
  <2>1. SUFFICES ASSUME NEW e
                 PROVE  ParseProtobuf(s, State(d, j, f, e)) =
                          IF TypeOf(value) # "bytes" THEN Err(State(d, j, f, e))
                          ELSE IF value[2].kind \notin {"proto", "other"} THEN Err(State(d, j, f, e))
                          ELSE IF s.target # "" THEN Ok(Put(State(d, j, f, e), s.target, <<"map", decoded>>))
                          ELSE Ok(PutAll(State(d, j, f, e), decoded))
    OBVIOUS
  <2>2. PICK st : st = State(d, j, f, e)
    OBVIOUS
  <2>3. ResolveProtoSource(s, st) = value
    BY <1>2, <2>2
  <2> QED
    BY <1>3, <2>2, <2>3 DEF ParseProtobuf
<1>5. CASE TypeOf(value) # "bytes" \/ value[2].kind \notin {"proto", "other"}
  <2>1. \A e : ParseProtobuf(s, State(d, j, f, e)) = Err(State(d, j, f, e))
    BY <1>4, <1>5
  <2>2. \A e : Err(State(d, j, f, e)) = Makes(FALSE, d, j, f, e)
    BY ErrMakes
  <2>3. Keeping(FALSE, d, f, d, f)
    BY DEF Keeping
  <2> QED
    BY <2>1, <2>2, <2>3
<1>6. CASE TypeOf(value) = "bytes" /\ value[2].kind \in {"proto", "other"} /\ s.target # ""
  <2>1. PICK g : g = With(f, s.target, <<"map", decoded>>)
    OBVIOUS
  <2>2. \A e : Put(State(d, j, f, e), s.target, <<"map", decoded>>) = State(d, j, g, e)
    BY <2>1, PutState
  <2>3. \A e : ParseProtobuf(s, State(d, j, f, e)) = Ok(State(d, j, g, e))
    BY <1>4, <1>6, <2>2
  <2>9. \A e : Ok(State(d, j, g, e)) = Makes(TRUE, d, j, g, e)
    BY OkMakes
  <2>10. Keeping(TRUE, d, f, d, g)
    BY DEF Keeping
  <2> QED
    BY <2>3, <2>9, <2>10
<1>7. CASE TypeOf(value) = "bytes" /\ value[2].kind \in {"proto", "other"} /\ s.target = ""
  <2>1. PICK g : g = Overlay(f, decoded)
    OBVIOUS
  <2>2. \A e : PutAll(State(d, j, f, e), decoded) = State(d, j, g, e)
    BY <2>1, PutAllState
  <2>3. \A e : ParseProtobuf(s, State(d, j, f, e)) = Ok(State(d, j, g, e))
    BY <1>4, <1>7, <2>2
  <2>9. \A e : Ok(State(d, j, g, e)) = Makes(TRUE, d, j, g, e)
    BY OkMakes
  <2>10. Keeping(TRUE, d, f, d, g)
    BY DEF Keeping
  <2> QED
    BY <2>3, <2>9, <2>10
<1> QED
  BY <1>5, <1>6, <1>7

(* ExtractTime neither reads nor writes the errors. *)
LEMMA ExtractTimeMakes ==
  ASSUME NEW s, NEW d, NEW j, NEW f
  PROVE  \E ok, d2, f2 : /\ Keeping(ok, d, f, d2, f2)
                         /\ \A e : ExtractTime(s, State(d, j, f, e)) = Makes(ok, d2, j, f2, e)
<1>1. \A e : State(d, j, f, e).fields = f
  BY StateOf
<1>2. PICK target, value :
        /\ target = IF s.step = "extract_index" THEN "$timestamp" ELSE s.target
        /\ value = ConvertToTimestamp(Field(f, s.source), s.format)
  OBVIOUS
<1>3. \A e : ExtractTime(s, State(d, j, f, e)) = Store(State(d, j, f, e), target, value)
  BY <1>1, <1>2 DEF ExtractTime
<1> QED
  BY <1>3, StoreMakes

(* ExtractField neither reads nor writes the errors. *)
LEMMA ExtractFieldMakes ==
  ASSUME NEW s, NEW d, NEW j, NEW f
  PROVE  \E ok, d2, f2 : /\ Keeping(ok, d, f, d2, f2)
                         /\ \A e : ExtractField(s, State(d, j, f, e)) = Makes(ok, d2, j, f2, e)
<1>1. \A e : State(d, j, f, e).fields = f
  BY StateOf
<1>2. PICK value : value = ConvertFieldValue(Lookup(f, s.source), s.type)
  OBVIOUS
<1>3. PICK ok, f2 : /\ Keeping(ok, d, f, d, f2)
                    /\ \A e : Store(State(d, j, f, e), s.target, value) = Makes(ok, d, j, f2, e)
  BY StoreMakes
<1>4. \A e : ExtractField(s, State(d, j, f, e)) =
               IF s.on_error = "skip" THEN Ok(Makes(ok, d, j, f2, e).st) ELSE Makes(ok, d, j, f2, e)
  BY <1>1, <1>2, <1>3 DEF ExtractField
<1>5. \A e : Makes(ok, d, j, f2, e).st = State(d, j, f2, e)
  BY DEF Makes
<1>6. CASE s.on_error = "skip"
  <2>1. \A e : ExtractField(s, State(d, j, f, e)) = Ok(State(d, j, f2, e))
    BY <1>4, <1>5, <1>6
  <2>2. \A e : Ok(State(d, j, f2, e)) = Makes(TRUE, d, j, f2, e)
    BY OkMakes
  <2>3. Keeping(TRUE, d, f, d, f2)
    BY DEF Keeping
  <2> QED
    BY <2>1, <2>2, <2>3
<1>7. CASE s.on_error # "skip"
  BY <1>3, <1>4, <1>7
<1> QED
  BY <1>6, <1>7

(* SafeParseNumber neither reads nor writes the errors. *)
LEMMA SafeParseNumberMakes ==
  ASSUME NEW s, NEW d, NEW j, NEW f
  PROVE  \E ok, d2, f2 : /\ Keeping(ok, d, f, d2, f2)
                         /\ \A e : SafeParseNumber(s, State(d, j, f, e)) = Makes(ok, d2, j, f2, e)
<1>1. \A e : State(d, j, f, e).fields = f
  BY StateOf
<1>2. PICK found, value : found = Lookup(f, s.source) /\ value = ConvertFieldValue(found, "float64")
  OBVIOUS
<1>3. PICK ok, f2 : /\ Keeping(ok, d, f, d, f2)
                    /\ \A e : Store(State(d, j, f, e), s.target, value) = Makes(ok, d, j, f2, e)
  BY StoreMakes
<1>4. PICK g : g = With(f, s.target, Nil)
  OBVIOUS
<1>5. \A e : /\ Makes(ok, d, j, f2, e).st = State(d, j, f2, e) /\ Makes(ok, d, j, f2, e).ok = ok
             /\ Put(State(d, j, f, e), s.target, Nil) = State(d, j, g, e)
  BY <1>4, PutState DEF Makes
<1>6. CASE s.on_error = "skip"
  <2>1. \A e : SafeParseNumber(s, State(d, j, f, e)) = Ok(State(d, j, f2, e))
    BY <1>1, <1>2, <1>3, <1>5, <1>6 DEF SafeParseNumber
  <2>9. \A e : Ok(State(d, j, f2, e)) = Makes(TRUE, d, j, f2, e)
    BY OkMakes
  <2>10. Keeping(TRUE, d, f, d, f2)
    BY DEF Keeping
  <2> QED
    BY <2>1, <2>9, <2>10
<1>7. CASE s.on_error = "null" /\ ~ok /\ TypeOf(found) # "absent"
  <2>1. \A e : SafeParseNumber(s, State(d, j, f, e)) = Ok(State(d, j, g, e))
    BY <1>1, <1>2, <1>3, <1>5, <1>7 DEF SafeParseNumber
  <2>9. \A e : Ok(State(d, j, g, e)) = Makes(TRUE, d, j, g, e)
    BY OkMakes
  <2>10. Keeping(TRUE, d, f, d, g)
    BY DEF Keeping
  <2> QED
    BY <2>1, <2>9, <2>10
<1>8. CASE s.on_error # "skip" /\ ~ (s.on_error = "null" /\ ~ok /\ TypeOf(found) # "absent")
  <2>1. \A e : SafeParseNumber(s, State(d, j, f, e)) = Makes(ok, d, j, f2, e)
    BY <1>1, <1>2, <1>3, <1>5, <1>8 DEF SafeParseNumber
  <2> QED
    BY <1>3, <2>1
<1> QED
  BY <1>6, <1>7, <1>8

(* ExtractMapEntry neither reads nor writes the errors. *)
LEMMA ExtractMapEntryMakes ==
  ASSUME NEW s, NEW d, NEW j, NEW f
  PROVE  \E ok, d2, f2 : /\ Keeping(ok, d, f, d2, f2)
                         /\ \A e : ExtractMapEntry(s, State(d, j, f, e)) = Makes(ok, d2, j, f2, e)
<1>1. \A e : State(d, j, f, e).fields = f
  BY StateOf
<1>2. PICK value : value = Lookup(f, s.source)
  OBVIOUS
<1>3. PICK key : key = LexFirst(DOMAIN value[2])
  OBVIOUS
<1> DEFINE refused == \/ TypeOf(value) # "map"
                      \/ DOMAIN value[2] = {}
                      \/ Cardinality(DOMAIN value[2]) > 1 /\ s.on_multiple = "fail"
                      \/ s.allowed_keys # Absent /\ key \notin s.allowed_keys[2]
<1>4. CASE refused
  <2>1. \A e : ExtractMapEntry(s, State(d, j, f, e)) = Err(State(d, j, f, e))
    BY <1>1, <1>2, <1>3, <1>4 DEF ExtractMapEntry
  <2>2. \A e : Err(State(d, j, f, e)) = Makes(FALSE, d, j, f, e)
    BY ErrMakes
  <2>3. Keeping(FALSE, d, f, d, f)
    BY DEF Keeping
  <2> QED
    BY <2>1, <2>2, <2>3
<1>5. CASE ~refused
  <2>1. PICK k, v : k = CoerceMapKey(key) /\ v = value[2][key]
    OBVIOUS
  <2>2. PICK g : g = With(f, s.key_target, k)
    OBVIOUS
  <2>3. PICK h : h = With(g, s.value_target, v)
    OBVIOUS
  <2>4. \A e : /\ Put(State(d, j, f, e), s.key_target, k) = State(d, j, g, e)
               /\ Put(State(d, j, g, e), s.value_target, v) = State(d, j, h, e)
    BY <2>2, <2>3, PutState
  <2>5. \A e : ExtractMapEntry(s, State(d, j, f, e)) =
                 Ok(Put(Put(State(d, j, f, e), s.key_target, k), s.value_target, v))
    BY <1>1, <1>2, <1>3, <1>5, <2>1 DEF ExtractMapEntry
  <2>6. \A e : ExtractMapEntry(s, State(d, j, f, e)) = Ok(State(d, j, h, e))
    BY <2>4, <2>5
  <2>7. \A e : Ok(State(d, j, h, e)) = Makes(TRUE, d, j, h, e)
    BY OkMakes
  <2>8. Keeping(TRUE, d, f, d, h)
    BY DEF Keeping
  <2> QED
    BY <2>6, <2>7, <2>8
<1> QED
  BY <1>4, <1>5

(* ExtractSubject neither reads nor writes the errors. *)
LEMMA ExtractSubjectMakes ==
  ASSUME NEW s, NEW d, NEW j, NEW f
  PROVE  \E ok, d2, f2 : /\ Keeping(ok, d, f, d2, f2)
                         /\ \A e : ExtractSubject(s, State(d, j, f, e)) = Makes(ok, d2, j, f2, e)
<1>1. \A e : State(d, j, f, e).subject = j
  BY StateOf
<1>2. PICK part : part = IF s.segment = Absent THEN <<"string", j>>
                         ELSE PartAt(Split(j, Dot), s.segment[2])
  OBVIOUS
<1>3. PICK value : value = IF part = Failed THEN Failed ELSE <<"string", Trim(part[2], s.trim)>>
  OBVIOUS
<1>4. \A e : ExtractSubject(s, State(d, j, f, e)) = Store(State(d, j, f, e), s.target, value)
  BY <1>1, <1>2, <1>3 DEF ExtractSubject
<1> QED
  BY <1>4, StoreMakes

(* ExtractTable neither reads nor writes the errors. *)
LEMMA ExtractTableMakes ==
  ASSUME NEW s, NEW d, NEW j, NEW f
  PROVE  \E ok, d2, f2 : /\ Keeping(ok, d, f, d2, f2)
                         /\ \A e : ExtractTable(s, State(d, j, f, e)) = Makes(ok, d2, j, f2, e)
<1>1. \A e : State(d, j, f, e).fields = f
  BY StateOf
<1>2. PICK name : name = IF s.value # Absent THEN s.value
                         ELSE Field(f, IF s.source = <<>> THEN <<"$table">> ELSE s.source)
  OBVIOUS
<1>3. PICK value : value = <<"string", Append(name[2], Nul)>>
  OBVIOUS
<1>4. \A e : ExtractTable(s, State(d, j, f, e)) =
               IF TypeOf(name) # "string" THEN Err(State(d, j, f, e))
               ELSE IF ~ValidTableName(name[2]) THEN Err(State(d, j, f, e))
               ELSE Ok(Put(State(d, j, f, e), "$table", value))
  BY <1>1, <1>2, <1>3 DEF ExtractTable
<1>5. CASE TypeOf(name) # "string" \/ ~ValidTableName(name[2])
  <2>1. \A e : ExtractTable(s, State(d, j, f, e)) = Err(State(d, j, f, e))
    BY <1>4, <1>5
  <2>2. \A e : Err(State(d, j, f, e)) = Makes(FALSE, d, j, f, e)
    BY ErrMakes
  <2>3. Keeping(FALSE, d, f, d, f)
    BY DEF Keeping
  <2> QED
    BY <2>1, <2>2, <2>3
<1>6. CASE TypeOf(name) = "string" /\ ValidTableName(name[2])
  <2>1. PICK g : g = With(f, "$table", value)
    OBVIOUS
  <2>2. \A e : Put(State(d, j, f, e), "$table", value) = State(d, j, g, e)
    BY <2>1, PutState
  <2>3. \A e : ExtractTable(s, State(d, j, f, e)) = Ok(State(d, j, g, e))
    BY <1>4, <1>6, <2>2
  <2>4. \A e : Ok(State(d, j, g, e)) = Makes(TRUE, d, j, g, e)
    BY OkMakes
  <2>5. Keeping(TRUE, d, f, d, g)
    BY DEF Keeping
  <2> QED
    BY <2>3, <2>4, <2>5
<1> QED
  BY <1>5, <1>6

(* ComputeField neither reads nor writes the errors. *)
LEMMA ComputeFieldMakes ==
  ASSUME NEW s, NEW d, NEW j, NEW f
  PROVE  \E ok, d2, f2 : /\ Keeping(ok, d, f, d2, f2)
                         /\ \A e : ComputeField(s, State(d, j, f, e)) = Makes(ok, d2, j, f2, e)
<1>1. \A e : State(d, j, f, e).fields = f
  BY StateOf
<1> DEFINE Value(g) ==
      LET text == RequireString(g, s.source)
      IN  CASE s.operation = "concat" -> ConcatFields(s, g)
            [] s.operation = "str" -> StrField(Lookup(g, s.source))
            [] s.operation \in {"split", "slice", "hash"} ->
                 IF text = Failed THEN Failed
                 ELSE CASE s.operation = "split" -> SplitField(s, text[2])
                        [] s.operation = "slice" -> SliceField(s, text[2])
                        [] s.operation = "hash" -> HashField(text[2])
<1>2. ASSUME NEW st PROVE ComputeField(s, st) = Store(st, s.target, Value(st.fields))
  BY DEF ComputeField
<1> HIDE DEF Value
<1>3. \A e : ComputeField(s, State(d, j, f, e)) = Store(State(d, j, f, e), s.target, Value(f))
  BY <1>1, <1>2
<1> QED
  BY <1>3, StoreMakes

(* Unpack neither reads nor writes the errors. *)
LEMMA UnpackMakes ==
  ASSUME NEW s, NEW d, NEW j, NEW f
  PROVE  \E ok, d2, f2 : /\ Keeping(ok, d, f, d2, f2)
                         /\ \A e : Unpack(s, State(d, j, f, e)) = Makes(ok, d2, j, f2, e)
<1>1. \A e : State(d, j, f, e).fields = f
  BY StateOf
<1>2. PICK value : value = Lookup(f, s.source)
  OBVIOUS
<1>3. PICK scale : scale = IF s.scale = Absent THEN <<"float64", 1>>
                           ELSE IF s.scale[1] = "source" THEN Lookup(f, s.scale[2]) ELSE s.scale
  OBVIOUS
<1> DEFINE Array(v, x) ==
      <<IF UnpackIsFloat(s) THEN "floats" ELSE "ints",
        [i \in 1..Len(v[2].elements) |->
           IF UnpackIsFloat(s) THEN v[2].elements[i] * x[2] ELSE Wrap(v[2].elements[i])]>>
    Scale(g) == IF s.scale = Absent THEN <<"float64", 1>>
                ELSE IF s.scale[1] = "source" THEN Lookup(g, s.scale[2]) ELSE s.scale
<1>a. ASSUME NEW st
      PROVE  Unpack(s, st) =
               IF TypeOf(Lookup(st.fields, s.source)) # "bytes" THEN Err(st)
               ELSE IF Lookup(st.fields, s.source)[2].odd \/ ~ValidScale(Scale(st.fields)) THEN Err(st)
               ELSE Ok(Put(st, s.target, Array(Lookup(st.fields, s.source), Scale(st.fields))))
  BY DEF Unpack
<1>b. scale = Scale(f)
  BY <1>3
<1> HIDE DEF Array, Scale
<1>4. PICK array : array = Array(value, scale)
  OBVIOUS
<1>5. \A e : Unpack(s, State(d, j, f, e)) =
               IF TypeOf(value) # "bytes" THEN Err(State(d, j, f, e))
               ELSE IF value[2].odd \/ ~ValidScale(scale) THEN Err(State(d, j, f, e))
               ELSE Ok(Put(State(d, j, f, e), s.target, array))
  BY <1>1, <1>2, <1>4, <1>a, <1>b
<1>6. CASE TypeOf(value) # "bytes" \/ value[2].odd \/ ~ValidScale(scale)
  <2>1. \A e : Unpack(s, State(d, j, f, e)) = Err(State(d, j, f, e))
    BY <1>5, <1>6
  <2>2. \A e : Err(State(d, j, f, e)) = Makes(FALSE, d, j, f, e)
    BY ErrMakes
  <2>3. Keeping(FALSE, d, f, d, f)
    BY DEF Keeping
  <2> QED
    BY <2>1, <2>2, <2>3
<1>7. CASE ~ (TypeOf(value) # "bytes" \/ value[2].odd \/ ~ValidScale(scale))
  <2>1. PICK g : g = With(f, s.target, array)
    OBVIOUS
  <2>2. \A e : Put(State(d, j, f, e), s.target, array) = State(d, j, g, e)
    BY <2>1, PutState
  <2>3. \A e : Unpack(s, State(d, j, f, e)) = Ok(State(d, j, g, e))
    BY <1>5, <1>7, <2>2
  <2>4. \A e : Ok(State(d, j, g, e)) = Makes(TRUE, d, j, g, e)
    BY OkMakes
  <2>5. Keeping(TRUE, d, f, d, g)
    BY DEF Keeping
  <2> QED
    BY <2>3, <2>4, <2>5
<1> QED
  BY <1>6, <1>7

(* So it is for every step a pipeline may have. *)
StepMakes(s, d, j, f) ==
  \E ok, d2, f2 : /\ Keeping(ok, d, f, d2, f2)
                  /\ \A e : RunStep(s, State(d, j, f, e)) = Makes(ok, d2, j, f2, e)

(* No step of the registry reads or writes the errors, and one that fails    *)
(* leaves the parse state as it found it.                                    *)
LEMMA RunStepMakes ==
  ASSUME NEW s, s.step \in StepRegistry, NEW d, NEW j, NEW f
  PROVE  StepMakes(s, d, j, f)
<1> USE DEF StepMakes
<1>1. CASE s.step = "decompress"
  <2>1. \A st : RunStep(s, st) = Decompress(s, st)
    BY <1>1 DEF RunStep
  <2> QED
    BY <2>1, DecompressMakes
<1>2. CASE s.step = "parse_json"
  <2>1. \A st : RunStep(s, st) = ParseJSON(s, st)
    BY <1>2 DEF RunStep
  <2> QED
    BY <2>1, ParseJSONMakes
<1>3. CASE s.step = "parse_protobuf"
  <2>1. \A st : RunStep(s, st) = ParseProtobuf(s, st)
    BY <1>3 DEF RunStep
  <2> QED
    BY <2>1, ParseProtobufMakes
<1>4. CASE s.step = "extract_field"
  <2>1. \A st : RunStep(s, st) = ExtractField(s, st)
    BY <1>4 DEF RunStep
  <2> QED
    BY <2>1, ExtractFieldMakes
<1>5. CASE s.step = "extract_map_entry"
  <2>1. \A st : RunStep(s, st) = ExtractMapEntry(s, st)
    BY <1>5 DEF RunStep
  <2> QED
    BY <2>1, ExtractMapEntryMakes
<1>6. CASE s.step = "extract_subject"
  <2>1. \A st : RunStep(s, st) = ExtractSubject(s, st)
    BY <1>6 DEF RunStep
  <2> QED
    BY <2>1, ExtractSubjectMakes
<1>7. CASE s.step = "extract_table"
  <2>1. \A st : RunStep(s, st) = ExtractTable(s, st)
    BY <1>7 DEF RunStep
  <2> QED
    BY <2>1, ExtractTableMakes
<1>8. CASE s.step = "compute_field"
  <2>1. \A st : RunStep(s, st) = ComputeField(s, st)
    BY <1>8 DEF RunStep
  <2> QED
    BY <2>1, ComputeFieldMakes
<1>9. CASE s.step = "safe_parse_number"
  <2>1. \A st : RunStep(s, st) = SafeParseNumber(s, st)
    BY <1>9 DEF RunStep
  <2> QED
    BY <2>1, SafeParseNumberMakes
<1>10. CASE s.step = "unpack"
  <2>1. \A st : RunStep(s, st) = Unpack(s, st)
    BY <1>10 DEF RunStep
  <2> QED
    BY <2>1, UnpackMakes
<1>11. CASE s.step \in {"extract_index", "extract_timestamp"}
  <2>1. \A st : RunStep(s, st) = ExtractTime(s, st)
    BY <1>11 DEF RunStep
  <2> QED
    BY <2>1, ExtractTimeMakes
<1> QED
  BY <1>1, <1>2, <1>3, <1>4, <1>5, <1>6, <1>7, <1>8, <1>9, <1>10, <1>11 DEF StepRegistry

(* Neither does what is made of the state at the end look at the errors,     *)
(* except to call a parse partial.                                           *)
OkWithoutErrors(c, d, j, f, e) ==
  /\ Materialize(c, State(d, j, f, e)).errors = e
  /\ Materialize(c, State(d, j, f, <<>>)) =
       [Materialize(c, State(d, j, f, e)) EXCEPT !.outcome = "ok", !.errors = <<>>]

(* A partial result is, but for its outcome and its errors, that of the same *)
(* fields without errors.                                                    *)
LEMMA MaterializeMakes ==
  ASSUME NEW c, NEW d, NEW j, NEW f, NEW e, Materialize(c, State(d, j, f, e)).outcome = "partial"
  PROVE  OkWithoutErrors(c, d, j, f, e)
<1> DEFINE Name(g) == LET name == g["$table"][2] IN IF Last(name) = Nul THEN name ELSE Append(name, Nul)
           Floor(g) == LET name == Field(g, <<"$table">>)
                       IN  /\ HasStep(c, "extract_index") => TypeOf(Field(g, <<"$timestamp">>)) = "time"
                           /\ TypeOf(name) = "string"
                           /\ ValidTableName(name[2])
           Table(g) == LET timestamp == Field(g, <<"$timestamp">>)
                       IN  [name |-> Name(g),
                            index |-> <<IF TypeOf(timestamp) = "time" THEN timestamp[2] ELSE Now>>,
                            columns |-> [k \in DOMAIN c.columns |-> Broadcast(g, c.columns[k], {1})]]
<1>1. ASSUME NEW st PROVE /\ CheckStructuralFloor(c, st) <=> Floor(st.fields)
                          /\ CreateWriterTable(c, st) = Table(st.fields)
  BY DEF CheckStructuralFloor, CreateWriterTable, TableName
<1> DEFINE Exploded(g, elements, start, interval) ==
             LET rows == DOMAIN elements
                 x == Explode(c)
                 column(col) ==
                   IF col.name = x.target THEN elements
                   ELSE IF col.name = x.ordinal THEN [i \in rows |-> <<"int64", i - 1>>]
                   ELSE Broadcast(g, col, rows)
             IN  [name |-> Name(g),
                  index |-> BuildExplodedIndex(start, interval, rows),
                  columns |-> [k \in DOMAIN c.columns |-> column(c.columns[k])]]
<1>2. ASSUME NEW st, NEW elements, NEW start, NEW interval
      PROVE  CreateExplodedWriterTable(c, st, elements, start, interval) =
               Exploded(st.fields, elements, start, interval)
  BY DEF CreateExplodedWriterTable, TableName
<1> HIDE DEF Name, Floor, Table, Exploded
<1>3. PICK value : value = Lookup(f, Explode(c).source)
  OBVIOUS
<1>4. PICK start, elements, interval :
        /\ start = Lookup(f, Explode(c).start)
        /\ elements = ResolveArray(c, value)
        /\ interval = ResolveInterval(Explode(c).interval, f, Len(value[2]))
  OBVIOUS
<1>5. PICK table : table = Exploded(f, elements, start[2], interval[2])
  OBVIOUS
<1>6. ASSUME NEW x
      PROVE  LET st == State(d, j, f, x)
                 failed == Unusable([st EXCEPT !.errors = Append(@, 0)])
             IN  Materialize(c, st) =
                   IF ~Floor(f) THEN failed
                   ELSE IF ~HasExplode(c) THEN Parsed(<<Table(f)>>, st)
                   ELSE IF ~IsArray(c, value) THEN failed
                   ELSE IF elements = <<>> THEN Parsed(<<>>, st)
                   ELSE IF TypeOf(start) # "time" \/ interval = Failed THEN failed
                   ELSE Parsed(<<table>>, st)
  <2>1. PICK st : st = State(d, j, f, x)
    OBVIOUS
  <2>2. st.fields = f
    BY <2>1, StateOf
  <2>3. PICK failed : failed = Unusable([st EXCEPT !.errors = Append(@, 0)])
    OBVIOUS
  <2>4. ParseExploded(c, st) = IF ~IsArray(c, value) THEN failed
                               ELSE IF elements = <<>> THEN Parsed(<<>>, st)
                               ELSE IF TypeOf(start) # "time" \/ interval = Failed THEN failed
                               ELSE Parsed(<<table>>, st)
    BY <1>2, <1>3, <1>4, <1>5, <2>2, <2>3 DEF ParseExploded
  <2>5. Materialize(c, st) = IF ~Floor(f) THEN failed
                             ELSE IF HasExplode(c) THEN ParseExploded(c, st)
                             ELSE Parsed(<<Table(f)>>, st)
    BY <1>1, <2>2, <2>3 DEF Materialize
  <2> QED
    BY <2>1, <2>3, <2>4, <2>5
<1>7. \A st : Unusable(st).outcome # "partial"
  BY DEF Unusable, Result
<1>8. PICK tables : \A x : Materialize(c, State(d, j, f, x)) = Parsed(tables, State(d, j, f, x))
  <2>1. CASE ~HasExplode(c)
    BY <1>6, <1>7, <2>1
  <2>2. CASE HasExplode(c) /\ elements = <<>>
    BY <1>6, <1>7, <2>2
  <2>3. CASE HasExplode(c) /\ elements # <<>>
    BY <1>6, <1>7, <2>3
  <2> QED
    BY <2>1, <2>2, <2>3
<1>9. \A x : Parsed(tables, State(d, j, f, x)) =
               [outcome |-> IF x = <<>> THEN "ok" ELSE "partial", tables |-> tables, errors |-> x]
  BY StateOf DEF Parsed, Result
<1>10. PICK r, q : r = Materialize(c, State(d, j, f, e)) /\ q = Materialize(c, State(d, j, f, <<>>))
  OBVIOUS
<1>11. r = [outcome |-> IF e = <<>> THEN "ok" ELSE "partial", tables |-> tables, errors |-> e]
  BY <1>8, <1>9, <1>10
<1>12. q = [outcome |-> "ok", tables |-> tables, errors |-> <<>>]
  BY <1>8, <1>9, <1>10
<1>13. r.errors = e /\ q = [r EXCEPT !.outcome = "ok", !.errors = <<>>]
  <2>1. PICK o, nil : o = (IF e = <<>> THEN "ok" ELSE "partial") /\ nil = <<>>
    OBVIOUS
  <2>2. r = [outcome |-> o, tables |-> tables, errors |-> e]
    BY <1>11, <2>1
  <2>3. q = [outcome |-> "ok", tables |-> tables, errors |-> nil]
    BY <1>12, <2>1
  <2>4. [r EXCEPT !.outcome = "ok"] = [outcome |-> "ok", tables |-> tables, errors |-> e] /\ r.errors = e
    BY <2>2
  <2>5. PICK p : p = [outcome |-> "ok", tables |-> tables, errors |-> e]
    OBVIOUS
  <2>6. [p EXCEPT !.errors = nil] = q
    BY <2>3, <2>5
  <2>7. [r EXCEPT !.outcome = "ok", !.errors = nil] = [p EXCEPT !.errors = nil]
    BY <2>4, <2>5
  <2>8. r.errors = e /\ q = [r EXCEPT !.outcome = "ok", !.errors = nil]
    BY <2>4, <2>6, <2>7
  <2> QED
    BY <2>1, <2>8
<1> QED
  BY <1>10, <1>13 DEF OkWithoutErrors

(* A parse starts with no fields and no errors. *)
LEMMA FirstState ==
  ASSUME NEW m
  PROVE  [NoState EXCEPT !.data = m.data, !.subject = m.subject] = State(m.data, m.subject, <<>>, <<>>)
<1>1. PICK p, nil, d, j : p = EmptyPayload /\ nil = <<>> /\ d = m.data /\ j = m.subject
  OBVIOUS
<1>2. NoState = State(p, nil, nil, nil)
  BY <1>1 DEF NoState, State
<1>3. [State(p, nil, nil, nil) EXCEPT !.data = d, !.subject = j] = State(d, j, nil, nil)
  <2>1. [State(p, nil, nil, nil) EXCEPT !.data = d] = State(d, nil, nil, nil)
    BY DEF State
  <2>2. [State(d, nil, nil, nil) EXCEPT !.subject = j] = State(d, j, nil, nil)
    BY DEF State
  <2> QED
    BY <2>1, <2>2
<1> QED
  BY <1>1, <1>2, <1>3

(* The elements of a sequence after one more. *)
LEMMA AppendSet ==
  ASSUME NEW s, Sequence(s), NEW x
  PROVE  Sequence(Append(s, x)) /\ ToSet(Append(s, x)) = ToSet(s) \cup {x}
<1>1. PICK t : t = Append(s, x)
  OBVIOUS
<1>2. Longer(s, x, t)
  BY <1>1, AppendLonger
<1>3. DOMAIN t = 1..Len(s) + 1 /\ DOMAIN s = 1..Len(s) /\ Len(s) \in Nat
  BY <1>2 DEF Longer, Sequence
<1>4. ToSet(t) = ToSet(s) \cup {x}
  BY <1>2, <1>3 DEF Longer, ToSet
<1> QED
  BY <1>1, <1>2, <1>4 DEF Longer

(* The steps among the first k that fail. *)
FailedSteps(steps, A, k) == {i \in 1..k : ~RunStep(steps[i], A[i - 1].st).ok}

(* In a run that is not stopped the errors are the steps that failed. *)
LEMMA ErrorsAreFailedSteps ==
  ASSUME NEW steps, Len(steps) \in Nat, NEW m, NEW A,
         \A k \in 1..Len(steps) : steps[k].step \in StepRegistry,
         RunOver(steps, {}, m, A),
         \A k \in 0..Len(steps) : ~A[k].stopped
  PROVE  \A k \in 0..Len(steps) :
           \E d, f, e : /\ A[k] = [stopped |-> FALSE, st |-> State(d, m.subject, f, e)]
                        /\ Sequence(e) /\ ToSet(e) = FailedSteps(steps, A, k)
<1> DEFINE Good(k) ==
             \E d, f, e : /\ A[k] = [stopped |-> FALSE, st |-> State(d, m.subject, f, e)]
                          /\ Sequence(e) /\ ToSet(e) = FailedSteps(steps, A, k)
           S == {k \in Nat : Good(k)}
<1>1. 0 \in S
  <2>1. A[0] = [stopped |-> FALSE, st |-> State(m.data, m.subject, <<>>, <<>>)]
    BY FirstState DEF RunOver
  <2>2. Sequence(<<>>) /\ ToSet(<<>>) = {} /\ FailedSteps(steps, A, 0) = {}
    BY DEF Sequence, ToSet, FailedSteps
  <2> QED
    BY <2>1, <2>2
<1>2. ASSUME NEW k \in 0..Len(steps) - 1, k \in S PROVE k + 1 \in S
  <2>1. PICK d, f, e : /\ A[k] = [stopped |-> FALSE, st |-> State(d, m.subject, f, e)]
                       /\ Sequence(e) /\ ToSet(e) = FailedSteps(steps, A, k)
    BY <1>2
  <2>2. PICK s, j : s = steps[k + 1] /\ j = m.subject
    OBVIOUS
  <2>3. k + 1 \in 1..Len(steps) /\ (k + 1) - 1 = k /\ k \in Nat /\ k + 1 \in Nat
    OBVIOUS
  <2>4. PICK ok, d2, f2 : /\ Keeping(ok, d, f, d2, f2)
                          /\ \A x : RunStep(s, State(d, j, f, x)) = Makes(ok, d2, j, f2, x)
    <3>1. s.step \in StepRegistry
      BY <2>2, <2>3
    <3>2. StepMakes(s, d, j, f)
      BY <3>1, RunStepMakes
    <3> QED
      BY <3>2 DEF StepMakes
  <2>5. A[k].stopped = FALSE /\ A[k].st = State(d, j, f, e)
    BY <2>1, <2>2
  <2>6. PICK run : run = RunStep(s, A[k].st) /\ run.ok = ok /\ run.st = State(d2, j, f2, e)
    BY <2>4, <2>5 DEF Makes
  <2>7. FailedSteps(steps, A, k + 1) = FailedSteps(steps, A, k) \cup (IF ok THEN {} ELSE {k + 1})
    BY <2>2, <2>3, <2>6 DEF FailedSteps
  <2>8. A[k + 1] = AfterStep(steps, {}, k + 1, A[k])
    BY <2>3 DEF RunOver
  <2>9. CASE ok
    <3>1. A[k + 1] = [stopped |-> FALSE, st |-> State(d2, j, f2, e)]
      BY <2>2, <2>5, <2>6, <2>8, <2>9 DEF AfterStep
    <3> QED
      BY <2>1, <2>2, <2>3, <2>7, <2>9, <3>1
  <2>10. CASE ~ok
    <3>1. PICK e2 : e2 = Append(e, k + 1)
      OBVIOUS
    <3>2. Sequence(e2) /\ ToSet(e2) = ToSet(e) \cup {k + 1}
      BY <2>1, <3>1, AppendSet
    <3>3. [State(d2, j, f2, e) EXCEPT !.errors = Append(@, k + 1)] = State(d2, j, f2, e2)
      <4>1. [State(d2, j, f2, e) EXCEPT !.errors = e2] = State(d2, j, f2, e2)
        BY DEF State
      <4>2. State(d2, j, f2, e).errors = e
        BY StateOf
      <4> QED
        BY <3>1, <4>1, <4>2
    <3>4. A[k + 1] = [stopped |-> IsStructuralStep(s), st |-> State(d2, j, f2, e2)]
      BY <2>2, <2>5, <2>6, <2>8, <2>10, <3>3 DEF AfterStep
    <3>5. ~A[k + 1].stopped
      BY <2>3
    <3>6. IsStructuralStep(s) = FALSE
      <4>1. IsStructuralStep(s) \in BOOLEAN
        BY DEF IsStructuralStep
      <4>2. A[k + 1].stopped = IsStructuralStep(s)
        BY <3>4
      <4> QED
        BY <3>5, <4>1, <4>2
    <3> QED
      BY <2>1, <2>2, <2>3, <2>7, <2>10, <3>2, <3>4, <3>6
  <2> QED
    BY <2>4, <2>9, <2>10 DEF Keeping
<1> HIDE DEF S
<1>3. \A k \in 0..Len(steps) : k \in S
  BY <1>1, <1>2, BoundedInduction
<1> QED
  BY <1>3 DEF S

(* Without the steps that fail, the run makes the same of the message, and   *)
(* has no error.                                                             *)
LEMMA CleanRun ==
  ASSUME NEW steps, Len(steps) \in Nat, NEW m, NEW A, NEW B, NEW E,
         \A k \in 1..Len(steps) : steps[k].step \in StepRegistry,
         RunOver(steps, {}, m, A), RunOver(steps, E, m, B),
         \A k \in 0..Len(steps) : ~A[k].stopped,
         E = FailedSteps(steps, A, Len(steps))
  PROVE  \E d, f, e : /\ A[Len(steps)] = [stopped |-> FALSE, st |-> State(d, m.subject, f, e)]
                      /\ B[Len(steps)] = [stopped |-> FALSE, st |-> State(d, m.subject, f, <<>>)]
<1> DEFINE Same(k) ==
             \E d, f, e : /\ A[k] = [stopped |-> FALSE, st |-> State(d, m.subject, f, e)]
                          /\ B[k] = [stopped |-> FALSE, st |-> State(d, m.subject, f, <<>>)]
           S == {k \in Nat : Same(k)}
<1>1. 0 \in S
  <2>1. /\ A[0] = [stopped |-> FALSE, st |-> State(m.data, m.subject, <<>>, <<>>)]
        /\ B[0] = [stopped |-> FALSE, st |-> State(m.data, m.subject, <<>>, <<>>)]
    BY FirstState DEF RunOver
  <2> QED
    BY <2>1
<1>2. ASSUME NEW k \in 0..Len(steps) - 1, k \in S PROVE k + 1 \in S
  <2>1. PICK d, f, e : /\ A[k] = [stopped |-> FALSE, st |-> State(d, m.subject, f, e)]
                       /\ B[k] = [stopped |-> FALSE, st |-> State(d, m.subject, f, <<>>)]
    BY <1>2
  <2>2. PICK s, j, nil : s = steps[k + 1] /\ j = m.subject /\ nil = <<>>
    OBVIOUS
  <2>3. k + 1 \in 1..Len(steps) /\ k + 1 \in 0..Len(steps) /\ (k + 1) - 1 = k /\ k + 1 \in Nat
    OBVIOUS
  <2>4. PICK ok, d2, f2 : /\ Keeping(ok, d, f, d2, f2)
                          /\ \A x : RunStep(s, State(d, j, f, x)) = Makes(ok, d2, j, f2, x)
    <3>1. s.step \in StepRegistry
      BY <2>2, <2>3
    <3>2. StepMakes(s, d, j, f)
      BY <3>1, RunStepMakes
    <3> QED
      BY <3>2 DEF StepMakes
  <2>5. /\ A[k].stopped = FALSE /\ A[k].st = State(d, j, f, e)
        /\ B[k].stopped = FALSE /\ B[k].st = State(d, j, f, nil)
    BY <2>1, <2>2
  <2>6. PICK run, clean : /\ run = RunStep(s, A[k].st) /\ run.ok = ok /\ run.st = State(d2, j, f2, e)
                          /\ clean = RunStep(s, B[k].st) /\ clean.ok = ok /\ clean.st = State(d2, j, f2, nil)
    BY <2>4, <2>5 DEF Makes
  <2>7. k + 1 \in E <=> ~ok
    BY <2>2, <2>3, <2>6 DEF FailedSteps
  <2>8. A[k + 1] = AfterStep(steps, {}, k + 1, A[k]) /\ B[k + 1] = AfterStep(steps, E, k + 1, B[k])
    BY <2>3 DEF RunOver
  <2>9. CASE ok
    <3>1. A[k + 1] = [stopped |-> FALSE, st |-> State(d2, j, f2, e)]
      BY <2>2, <2>5, <2>6, <2>8, <2>9 DEF AfterStep
    <3>2. B[k + 1] = [stopped |-> FALSE, st |-> State(d2, j, f2, nil)]
      BY <2>2, <2>5, <2>6, <2>7, <2>8, <2>9 DEF AfterStep
    <3> QED
      BY <2>2, <2>3, <3>1, <3>2
  <2>10. CASE ~ok
    <3>1. PICK e2 : e2 = Append(e, k + 1)
      OBVIOUS
    <3>2. [State(d2, j, f2, e) EXCEPT !.errors = Append(@, k + 1)] = State(d2, j, f2, e2)
      <4>1. [State(d2, j, f2, e) EXCEPT !.errors = e2] = State(d2, j, f2, e2)
        BY DEF State
      <4>2. State(d2, j, f2, e).errors = e
        BY StateOf
      <4> QED
        BY <3>1, <4>1, <4>2
    <3>3. A[k + 1] = [stopped |-> IsStructuralStep(s), st |-> State(d2, j, f2, e2)]
      BY <2>2, <2>5, <2>6, <2>8, <2>10, <3>2 DEF AfterStep
    <3>4. ~A[k + 1].stopped
      BY <2>3
    <3>5. IsStructuralStep(s) = FALSE
      <4>1. IsStructuralStep(s) \in BOOLEAN
        BY DEF IsStructuralStep
      <4>2. A[k + 1].stopped = IsStructuralStep(s)
        BY <3>3
      <4> QED
        BY <3>4, <4>1, <4>2
    <3>6. d2 = d /\ f2 = f
      BY <2>4, <2>10 DEF Keeping
    <3>7. B[k + 1] = B[k]
      BY <2>7, <2>8, <2>10 DEF AfterStep
    <3> QED
      BY <2>1, <2>2, <2>3, <3>3, <3>5, <3>6, <3>7
  <2> QED
    BY <2>4, <2>9, <2>10 DEF Keeping
<1> HIDE DEF S
<1>3. \A k \in 0..Len(steps) : k \in S
  BY <1>1, <1>2, BoundedInduction
<1>4. Len(steps) \in S
  BY <1>3
<1> QED
  BY <1>4 DEF S

(* The steps of a configuration that is accepted are those of the registry. *)
LEMMA StepsRegistered ==
  ASSUME NEW c \in Configs, Accepted(c)
  PROVE  Len(Steps(c)) \in Nat /\ \A k \in 1..Len(Steps(c)) : Steps(c)[k].step \in StepRegistry
<1>1. Len(Steps(c)) \in Nat /\ DOMAIN Steps(c) = 1..Len(Steps(c))
  BY StepsOf
<1>2. ASSUME NEW k \in 1..Len(Steps(c)) PROVE Steps(c)[k].step \in StepRegistry
  <2>1. PICK s : s = Steps(c)[k]
    OBVIOUS
  <2>2. s \in ToSet(Steps(c))
    BY <1>1, <2>1 DEF ToSet
  <2>3. MakeStep(s)
    BY <2>2 DEF Accepted, CompilePipeline
  <2> QED
    BY <2>1, <2>3 DEF MakeStep, StepRegistry
<1> QED
  BY <1>1, <1>2

(* runPipeline: a field step that fails contributes nothing.  The rows of a  *)
(* partial parse are those of a pipeline without the steps that failed, which *)
(* has no error to report, for any accepted configuration and any message.    *)
THEOREM PartialParsesAreClean == Spec => []PartialIsClean
<1>1. HistoryInv /\ ResultsInv => PartialIsClean
  <2> SUFFICES ASSUME HistoryInv, ResultsInv, JustParsed, Last(results).outcome = "partial"
               PROVE  LET r == Last(results)
                          ran == Ran(Steps(config), ToSet(r.errors), Last(batch))
                      IN  /\ ~ran.stopped
                          /\ Materialize(config, ran.st) = [r EXCEPT !.outcome = "ok", !.errors = <<>>]
    BY DEF PartialIsClean
  <2>1. PICK c, m, r, steps : c = config /\ m = Last(batch) /\ r = Last(results) /\ steps = Steps(config)
    OBVIOUS
  <2>2. r = ParseAlone(c, m)
    <3>1. Len(results) = Len(batch) /\ Len(results) \in Nat /\ results # <<>>
      BY DEF HistoryInv, JustParsed, Sequence
    <3>2. Len(results) \in 1..Len(results)
      BY <3>1 DEF HistoryInv, Sequence
    <3>3. results[Len(results)] = ParseAlone(config, batch[Len(results)])
      BY <3>2 DEF HistoryInv, HistoryFree
    <3> QED
      BY <2>1, <3>1, <3>3 DEF Last
  <2>3. /\ Accepted(c) /\ c \in Configs
        /\ Len(steps) \in Nat /\ \A k \in 1..Len(steps) : steps[k].step \in StepRegistry
    <3>1. Accepted(c) /\ c \in Configs
      BY <2>1 DEF ResultsInv, HistoryInv, JustParsed
    <3> QED
      BY <2>1, <3>1, StepsRegistered
  <2>4. PICK A : A = After(steps, {}, m) /\ RunOver(steps, {}, m, A)
    BY <2>3, AfterAt
  <2>5. r.outcome = "partial" /\ \A st : Unusable(st).outcome # "partial"
    BY <2>1 DEF Unusable, Result
  <2>6. Ran(steps, {}, m) = A[Len(steps)]
    BY <2>4 DEF Ran
  <2>7. ~A[Len(steps)].stopped /\ r = Materialize(c, A[Len(steps)].st)
    BY <2>1, <2>2, <2>5, <2>6 DEF ParseAlone
  <2>8. \A k \in 0..Len(steps) : ~A[k].stopped
    BY <2>3, <2>4, <2>6, <2>7, StoppedForGood
  <2>9. PICK E : E = FailedSteps(steps, A, Len(steps))
    OBVIOUS
  <2>10. PICK B : B = After(steps, E, m) /\ RunOver(steps, E, m, B)
    BY <2>3, AfterAt
  <2>11. PICK d, f, e : /\ A[Len(steps)] = [stopped |-> FALSE, st |-> State(d, m.subject, f, e)]
                        /\ B[Len(steps)] = [stopped |-> FALSE, st |-> State(d, m.subject, f, <<>>)]
    BY <2>3, <2>4, <2>8, <2>9, <2>10, CleanRun
  <2>12. r = Materialize(c, State(d, m.subject, f, e))
    BY <2>7, <2>11
  <2>13. /\ r.errors = e
         /\ Materialize(c, State(d, m.subject, f, <<>>)) = [r EXCEPT !.outcome = "ok", !.errors = <<>>]
    <3>1. PICK j : j = m.subject
      OBVIOUS
    <3>2. Materialize(c, State(d, j, f, e)).outcome = "partial"
      BY <2>5, <2>12, <3>1
    <3>3. OkWithoutErrors(c, d, j, f, e)
      BY <3>2, MaterializeMakes
    <3> QED
      BY <2>12, <3>1, <3>3 DEF OkWithoutErrors
  <2>14. ToSet(e) = E
    <3>1. Len(steps) \in 0..Len(steps)
      BY <2>3
    <3>2. PICK d1, f1, e1 : /\ A[Len(steps)] = [stopped |-> FALSE, st |-> State(d1, m.subject, f1, e1)]
                            /\ ToSet(e1) = E
      BY <2>3, <2>4, <2>8, <2>9, <3>1, ErrorsAreFailedSteps
    <3>3. State(d1, m.subject, f1, e1) = State(d, m.subject, f, e)
      BY <2>11, <3>2
    <3>4. e1 = e
      BY <3>3 DEF State
    <3> QED
      BY <3>2, <3>4
  <2>15. Ran(steps, ToSet(r.errors), m) = [stopped |-> FALSE, st |-> State(d, m.subject, f, <<>>)]
    BY <2>10, <2>11, <2>13, <2>14 DEF Ran
  <2> QED
    BY <2>1, <2>13, <2>15
<1> QED
  BY <1>1, HistoryInvariant, ResultsInvariant, PTL

-----------------------------------------------------------------------------
(* The rows of merged tables.                                               *)

(* What FlattenSeq joins, element by element: f[k] is the first k sequences. *)
Piecewise(ss, n, f) ==
  /\ FlattenSeq(ss) = f[n]
  /\ Len(f[0]) = 0
  /\ \A k \in 0..n : Sequence(f[k])
  /\ \A k \in 1..n :
       /\ Len(f[k]) = Len(f[k - 1]) + Len(ss[k])
       /\ \A i \in 1..Len(f[k]) :
            f[k][i] = IF i <= Len(f[k - 1]) THEN f[k - 1][i] ELSE ss[k][i - Len(f[k - 1])]

(* Sequences of sequences have their elements in one set. *)
LEMMA NestedSequence ==
  ASSUME NEW n \in Nat, NEW ss, ss = [i \in 1..n |-> ss[i]], \A i \in 1..n : Sequence(ss[i])
  PROVE  \E S : ss \in Seq(Seq(S)) /\ Len(ss) = n
<1>1. PICK S : S = UNION {ToSet(ss[i]) : i \in 1..n}
  OBVIOUS
<1>2. ASSUME NEW i \in 1..n PROVE ss[i] \in Seq(S)
  <2>1. PICK t, T : t = ss[i] /\ T = ToSet(t)
    OBVIOUS
  <2>2. t \in Seq(T) /\ T \subseteq S
    BY <1>1, <2>1 DEF Sequence
  <2>3. t \in Seq(S)
    BY <2>2, SeqMonotonic
  <2> QED
    BY <2>1, <2>3
<1>3. PICK U : U = Seq(S)
  OBVIOUS
<1>4. ss \in [1..n -> U]
  BY <1>2, <1>3
<1>5. ss \in Seq(U) /\ Len(ss) = n
  BY <1>4, FunctionSequence
<1> QED
  BY <1>3, <1>5

(* Flattened sequences of any kind can be taken piece by piece. *)
LEMMA FlattenAt ==
  ASSUME NEW n \in Nat, NEW ss, ss = [i \in 1..n |-> ss[i]], \A i \in 1..n : Sequence(ss[i])
  PROVE  \E f : Piecewise(ss, n, f)
<1>1. PICK S : ss \in Seq(Seq(S)) /\ Len(ss) = n
  BY NestedSequence
<1>2. PICK f : Joins(S, ss, f)
  BY <1>1, FlattenJoins
<1>3. /\ f \in [0..n -> Seq(S)] /\ f[0] = <<>> /\ FlattenSeq(ss) = f[n]
      /\ \A k \in 1..n : f[k] = f[k - 1] \o ss[k] /\ ss[k] \in Seq(S)
  BY <1>1, <1>2 DEF Joins
<1>4. \A k \in 0..n : f[k] \in Seq(S)
  BY <1>3
<1>5. \A k \in 0..n : Sequence(f[k])
  BY <1>4, SeqSequence
<1>6. ASSUME NEW k \in 1..n
      PROVE  /\ Len(f[k]) = Len(f[k - 1]) + Len(ss[k])
             /\ \A i \in 1..Len(f[k]) :
                  f[k][i] = IF i <= Len(f[k - 1]) THEN f[k - 1][i] ELSE ss[k][i - Len(f[k - 1])]
  <2>1. PICK a, b, u : a = f[k - 1] /\ b = ss[k] /\ u = f[k]
    OBVIOUS
  <2>2. k - 1 \in 0..n
    OBVIOUS
  <2>3. a \in Seq(S) /\ b \in Seq(S) /\ u = a \o b
    BY <1>3, <1>4, <2>1, <2>2
  <2>4. Len(u) = Len(a) + Len(b) /\ \A i \in 1..Len(a) + Len(b) : u[i] = IF i <= Len(a) THEN a[i] ELSE b[i - Len(a)]
    BY <2>3, ConcatProperties
  <2> QED
    BY <2>1, <2>4
<1>7. Len(f[0]) = 0
  BY <1>3
<1>8. Piecewise(ss, n, f)
  BY <1>3, <1>5, <1>6, <1>7 DEF Piecewise
<1> QED
  BY <1>8

(* The columns of a table and its index have the same rows. *)
Tabular(c, t) ==
  /\ Sequence(t.index) /\ Sequence(t.columns) /\ Len(t.columns) = Len(c.columns)
  /\ \A k \in 1..Len(c.columns) : Sequence(t.columns[k]) /\ Len(t.columns[k]) = Len(t.index)

(* A row of a table whose columns are aligned with the index. *)
RowOf(t, i) == <<t.name, t.index[i], [k \in 1..Len(t.columns) |-> t.columns[k][i]]>>

(* In such a table no value is missing. *)
LEMMA RowsAt ==
  ASSUME NEW c, NEW t, Tabular(c, t)
  PROVE  /\ Rows(t) = [i \in 1..Len(t.index) |-> RowOf(t, i)]
         /\ Sequence(Rows(t)) /\ Len(Rows(t)) = Len(t.index) /\ Len(t.index) \in Nat
<1>1. PICK n, m : n = Len(t.index) /\ m = Len(t.columns)
  OBVIOUS
<1>2. n \in Nat /\ m = Len(c.columns) /\ \A k \in 1..m : Len(t.columns[k]) = n
  <2>1. PICK s : s = t.index
    OBVIOUS
  <2>2. Len(s) \in Nat
    BY <2>1, SequenceLen DEF Tabular
  <2> QED
    BY <1>1, <2>1, <2>2 DEF Tabular
<1>3. ASSUME NEW i \in 1..n
      PROVE  [k \in 1..m |-> IF i <= Len(t.columns[k]) THEN t.columns[k][i] ELSE <<"missing", 0>>] =
             [k \in 1..m |-> t.columns[k][i]]
  <2>1. \A k \in 1..m : i <= Len(t.columns[k])
    BY <1>2
  <2> QED
    BY <2>1
<1>4. ASSUME NEW i \in 1..n
      PROVE  <<t.name, t.index[i],
               [k \in 1..m |-> IF i <= Len(t.columns[k]) THEN t.columns[k][i] ELSE <<"missing", 0>>]>> = RowOf(t, i)
  BY <1>1, <1>3 DEF RowOf
<1>5. Rows(t) = [i \in 1..n |-> RowOf(t, i)]
  BY <1>1, <1>4 DEF Rows
<1>6. PICK r, T : r = Rows(t) /\ T = {RowOf(t, i) : i \in 1..n}
  OBVIOUS
<1>7. r \in [1..n -> T]
  BY <1>5, <1>6
<1>8. Sequence(r) /\ Len(r) = n
  BY <1>2, <1>7, FunctionSequence
<1> QED
  BY <1>1, <1>2, <1>5, <1>6, <1>8

(* The parts of a group of tables. *)
IndexParts(group) == [i \in 1..Len(group) |-> group[i].index]
ColumnParts(group, k) == [i \in 1..Len(group) |-> group[i].columns[k]]
RowParts(group) == [i \in 1..Len(group) |-> Rows(group[i])]

(* What MergeSingleTableWriters makes of a group. *)
Merges(c, group, w) ==
  /\ w.index = FlattenSeq(IndexParts(group))
  /\ w.columns = [k \in 1..Len(c.columns) |-> FlattenSeq(ColumnParts(group, k))]

(* The rows of a merged table are the rows of its parts, one after the      *)
(* other: the values of the columns stay with the index of their row.       *)
LEMMA MergedRows ==
  ASSUME NEW c, Len(c.columns) \in Nat, NEW group, Sequence(group), NEW name,
         \A i \in 1..Len(group) : Tabular(c, group[i]) /\ group[i].name = name,
         NEW w, w.name = name, Merges(c, group, w)
  PROVE  Tabular(c, w) /\ Rows(w) = FlattenSeq(RowParts(group))
<1>1. PICK n, m, X, R : n = Len(group) /\ m = Len(c.columns) /\ X = IndexParts(group) /\ R = RowParts(group)
  OBVIOUS
<1>2. n \in Nat /\ m \in Nat
  BY <1>1, SequenceLen
<1>3. \A i \in 1..n : /\ X[i] = group[i].index /\ Sequence(X[i]) /\ Len(X[i]) \in Nat
                      /\ R[i] = Rows(group[i]) /\ Sequence(R[i]) /\ Len(R[i]) = Len(X[i])
                      /\ R[i] = [r \in 1..Len(X[i]) |-> RowOf(group[i], r)]
  <2>1. ASSUME NEW i \in 1..n
        PROVE  /\ X[i] = group[i].index /\ Sequence(X[i]) /\ Len(X[i]) \in Nat
               /\ R[i] = Rows(group[i]) /\ Sequence(R[i]) /\ Len(R[i]) = Len(X[i])
               /\ R[i] = [r \in 1..Len(X[i]) |-> RowOf(group[i], r)]
    <3>1. PICK t : t = group[i]
      OBVIOUS
    <3>2. Tabular(c, t)
      BY <1>1, <3>1
    <3>3. X[i] = t.index /\ R[i] = Rows(t)
      BY <1>1, <3>1 DEF IndexParts, RowParts
    <3>4. /\ Rows(t) = [r \in 1..Len(t.index) |-> RowOf(t, r)] /\ Sequence(Rows(t))
          /\ Len(Rows(t)) = Len(t.index) /\ Len(t.index) \in Nat
      BY <3>2, RowsAt
    <3>5. Sequence(t.index)
      BY <3>2 DEF Tabular
    <3> QED
      BY <3>1, <3>3, <3>4, <3>5
  <2> QED
    BY <2>1
<1>4. PICK fx : Piecewise(X, n, fx)
  <2>1. X = [i \in 1..n |-> X[i]]
    BY <1>1 DEF IndexParts
  <2>2. \A i \in 1..n : Sequence(X[i])
    BY <1>3
  <2> QED
    BY <1>2, <2>1, <2>2, FlattenAt
<1>5. PICK fr : Piecewise(R, n, fr)
  <2>1. R = [i \in 1..n |-> R[i]]
    BY <1>1 DEF RowParts
  <2>2. \A i \in 1..n : Sequence(R[i])
    BY <1>3
  <2> QED
    BY <1>2, <2>1, <2>2, FlattenAt
<1>6. ASSUME NEW j \in 1..m, NEW i \in 1..n
      PROVE  /\ ColumnParts(group, j)[i] = group[i].columns[j]
             /\ Sequence(ColumnParts(group, j)[i]) /\ Len(ColumnParts(group, j)[i]) = Len(X[i])
  <2>1. ColumnParts(group, j)[i] = group[i].columns[j]
    BY <1>1 DEF ColumnParts
  <2>2. Sequence(group[i].columns[j]) /\ Len(group[i].columns[j]) = Len(group[i].index)
    BY <1>1 DEF Tabular
  <2> QED
    BY <1>3, <2>1, <2>2
<1>7. PICK C : C = [j \in 1..m |-> CHOOSE f : Piecewise(ColumnParts(group, j), n, f)]
  OBVIOUS
<1>8. \A j \in 1..m : Piecewise(ColumnParts(group, j), n, C[j])
  <2>1. ASSUME NEW j \in 1..m PROVE \E f : Piecewise(ColumnParts(group, j), n, f)
    <3>1. PICK p : p = ColumnParts(group, j)
      OBVIOUS
    <3>2. p = [i \in 1..n |-> p[i]]
      BY <1>1, <3>1 DEF ColumnParts
    <3>3. \A i \in 1..n : Sequence(p[i])
      BY <1>6, <3>1
    <3>4. \E f : Piecewise(p, n, f)
      BY <1>2, <3>2, <3>3, FlattenAt
    <3> QED
      BY <3>1, <3>4
  <2> QED
    BY <1>7, <2>1
<1> DEFINE Row(k, i) == <<name, fx[k][i], [j \in 1..m |-> C[j][k][i]]>>
           I == {k \in 0..n : /\ Len(fr[k]) = Len(fx[k]) /\ \A j \in 1..m : Len(C[j][k]) = Len(fx[k])
                              /\ \A i \in 1..Len(fx[k]) : fr[k][i] = Row(k, i)}
<1>9. \A k \in 0..n : Len(fx[k]) \in Nat
  BY <1>4, SequenceLen DEF Piecewise
<1>10. 0 \in I
  <2>1. Len(fr[0]) = 0 /\ Len(fx[0]) = 0 /\ \A j \in 1..m : Len(C[j][0]) = 0
    BY <1>4, <1>5, <1>8 DEF Piecewise
  <2> QED
    BY <1>2, <2>1
<1>11. ASSUME NEW k \in 0..n - 1, k \in I PROVE k + 1 \in I
  <2>1. PICK p, t : p = k + 1 /\ t = group[p]
    OBVIOUS
  <2>2. p \in 1..n /\ p \in 0..n /\ p - 1 = k /\ k \in 0..n
    BY <1>2, <2>1
  <2>3. PICK L, q : L = Len(fx[k]) /\ q = Len(X[p])
    OBVIOUS
  <2>4. L \in Nat /\ q \in Nat
    BY <1>3, <1>9, <2>2, <2>3
  <2>5. /\ Len(fx[p]) = L + q
        /\ \A i \in 1..L + q : fx[p][i] = IF i <= L THEN fx[k][i] ELSE X[p][i - L]
    BY <1>4, <2>2, <2>3 DEF Piecewise
  <2>6. /\ Len(fr[k]) = L /\ \A j \in 1..m : Len(C[j][k]) = L
        /\ \A i \in 1..L : fr[k][i] = Row(k, i)
    BY <1>11, <2>3
  <2>7. /\ Len(fr[p]) = L + q
        /\ \A i \in 1..L + q : fr[p][i] = IF i <= L THEN fr[k][i] ELSE R[p][i - L]
    <3>1. Len(R[p]) = q
      BY <1>3, <2>2, <2>3
    <3> QED
      BY <1>5, <2>2, <2>6, <3>1 DEF Piecewise
  <2>8. ASSUME NEW j \in 1..m
        PROVE  /\ Len(C[j][p]) = L + q
               /\ \A i \in 1..L + q : C[j][p][i] = IF i <= L THEN C[j][k][i] ELSE t.columns[j][i - L]
    <3>1. PICK P, f : P = ColumnParts(group, j) /\ f = C[j]
      OBVIOUS
    <3>2. Piecewise(P, n, f) /\ P[p] = t.columns[j] /\ Len(P[p]) = q /\ Len(f[k]) = L
      BY <1>6, <1>8, <2>1, <2>2, <2>3, <2>6, <3>1
    <3>3. /\ Len(f[p]) = L + q
          /\ \A i \in 1..L + q : f[p][i] = IF i <= L THEN f[k][i] ELSE P[p][i - L]
      BY <2>2, <3>2 DEF Piecewise
    <3> QED
      BY <3>1, <3>2, <3>3
  <2>9. ASSUME NEW i \in 1..L + q PROVE fr[p][i] = Row(p, i)
    <3>1. CASE i <= L
      <4>1. i \in 1..L
        BY <2>4, <3>1
      <4>2. fr[p][i] = Row(k, i)
        BY <2>6, <2>7, <3>1, <4>1
      <4>3. [j \in 1..m |-> C[j][p][i]] = [j \in 1..m |-> C[j][k][i]]
        BY <2>8, <3>1
      <4>4. fx[p][i] = fx[k][i]
        BY <2>5, <3>1
      <4> QED
        BY <4>2, <4>3, <4>4
    <3>2. CASE ~(i <= L)
      <4>1. PICK r : r = i - L
        OBVIOUS
      <4>2. r \in 1..q
        BY <2>4, <3>2, <4>1
      <4>3. fr[p][i] = RowOf(t, r)
        <5>1. fr[p][i] = R[p][r]
          BY <2>7, <3>2, <4>1
        <5>2. R[p][r] = RowOf(t, r)
          BY <1>3, <2>1, <2>2, <2>3, <4>2
        <5> QED
          BY <5>1, <5>2
      <4>4. [j \in 1..m |-> C[j][p][i]] = [j \in 1..m |-> t.columns[j][r]]
        BY <2>8, <3>2, <4>1
      <4>5. fx[p][i] = t.index[r]
        BY <1>3, <2>1, <2>2, <2>5, <3>2, <4>1
      <4>6. t.name = name /\ Len(t.columns) = m
        BY <1>1, <2>1, <2>2 DEF Tabular
      <4>7. RowOf(t, r) = <<name, t.index[r], [j \in 1..m |-> t.columns[j][r]]>>
        BY <4>6 DEF RowOf
      <4> QED
        BY <4>3, <4>4, <4>5, <4>7
    <3> QED
      BY <3>1, <3>2
  <2>10. Len(fr[p]) = Len(fx[p]) /\ \A j \in 1..m : Len(C[j][p]) = Len(fx[p])
    BY <2>5, <2>7, <2>8
  <2>11. \A i \in 1..Len(fx[p]) : fr[p][i] = Row(p, i)
    BY <2>5, <2>9
  <2> QED
    BY <2>1, <2>2, <2>10, <2>11
<1>12. n \in I
  <2>1. \A k \in 0..n : k \in I
    <3> HIDE DEF I
    <3> QED
      BY <1>2, <1>10, <1>11, BoundedInduction
  <2>2. n \in 0..n
    BY <1>2
  <2> HIDE DEF I
  <2> QED
    BY <2>1, <2>2
<1>13. w.index = fx[n] /\ FlattenSeq(R) = fr[n] /\ n \in 0..n
  BY <1>1, <1>2, <1>4, <1>5 DEF Piecewise, Merges
<1>14. w.columns = [j \in 1..m |-> C[j][n]] /\ Sequence(w.columns) /\ Len(w.columns) = m
  <2>1. \A j \in 1..m : FlattenSeq(ColumnParts(group, j)) = C[j][n]
    BY <1>8 DEF Piecewise
  <2>2. PICK v, T : v = w.columns /\ T = {C[j][n] : j \in 1..m}
    OBVIOUS
  <2>3. v = [j \in 1..m |-> C[j][n]]
    BY <1>1, <2>1, <2>2 DEF Merges
  <2>4. v \in [1..m -> T]
    BY <2>2, <2>3
  <2>5. Sequence(v) /\ Len(v) = m
    BY <1>2, <2>4, FunctionSequence
  <2> QED
    BY <2>2, <2>3, <2>5
<1>15. Tabular(c, w)
  <2>1. Sequence(w.index) /\ \A j \in 1..m : Sequence(w.columns[j])
    BY <1>4, <1>8, <1>13, <1>14 DEF Piecewise
  <2>2. \A j \in 1..m : Len(w.columns[j]) = Len(w.index)
    BY <1>12, <1>13, <1>14
  <2> QED
    BY <1>1, <1>14, <2>1, <2>2 DEF Tabular
<1>16. Rows(w) = fr[n]
  <2>1. PICK L, s : L = Len(w.index) /\ s = fr[n]
    OBVIOUS
  <2>2. Rows(w) = [i \in 1..L |-> RowOf(w, i)]
    BY <1>15, <2>1, RowsAt
  <2>3. s = [i \in 1..L |-> s[i]]
    <3>1. Sequence(s)
      BY <1>5, <1>13, <2>1 DEF Piecewise
    <3>2. Len(s) = L
      BY <1>12, <1>13, <2>1
    <3> QED
      BY <3>1, <3>2, SequenceLen
  <2>4. ASSUME NEW i \in 1..L PROVE RowOf(w, i) = s[i]
    <3>1. s[i] = Row(n, i)
      BY <1>12, <1>13, <2>1
    <3>2. [j \in 1..Len(w.columns) |-> w.columns[j][i]] = [j \in 1..m |-> C[j][n][i]]
      BY <1>14
    <3> QED
      BY <1>13, <3>1, <3>2 DEF RowOf
  <2> QED
    BY <2>1, <2>2, <2>3, <2>4
<1> QED
  BY <1>1, <1>13, <1>15, <1>16

(* Something is selected where there is a position to select. *)
LEMMA SelectedSome ==
  ASSUME NEW S, NEW s \in Seq(S), NEW K, NEW j \in 1..Len(s), j \in K
  PROVE  Len(Selected(s, K)) \in Nat /\ Len(Selected(s, K)) > 0
<1>1. PICK n, t : n = Len(s) /\ t = Selected(s, K)
  OBVIOUS
<1>2. PICK F, G : F = [x \in S |-> 1] /\ G = [i \in 1..n |-> IF i \in K THEN 1 ELSE 0]
  OBVIOUS
<1>3. n \in Nat /\ (\A x \in S : F[x] \in Int) /\ \A i \in 1..Len(s) : G[i] = IF i \in K THEN F[s[i]] ELSE 0
  BY <1>1, <1>2
<1>4. t \in Seq(S) /\ Tally(F, t) = SumOver(G, 1..n)
  <2>1. \A x \in S : F[x] \in Int
    BY <1>3
  <2>2. \A i \in 1..Len(s) : G[i] = IF i \in K THEN F[s[i]] ELSE 0
    BY <1>3
  <2>3. Selected(s, K) \in Seq(S) /\ Tally(F, Selected(s, K)) = SumOver(G, 1..Len(s))
    BY <2>1, <2>2, TallySelected
  <2> QED
    BY <1>1, <2>3
<1>5. t # <<>>
  <2>1. SUFFICES ASSUME t = <<>> PROVE FALSE
    OBVIOUS
  <2>2. \A x \in S : F[x] \in Int
    BY <1>3
  <2>3. Tally(F, <<>>) = 0
    BY <2>2, TallyOne
  <2>4. SumOver(G, 1..n) = 0
    BY <1>4, <2>1, <2>3
  <2>5. IsFiniteSet(1..n) /\ \A i \in 1..n : G[i] \in Nat
    BY <1>2, <1>3, FirstNumbers
  <2>6. \A i \in 1..n : G[i] = 0
    BY <2>4, <2>5, SumNat
  <2> QED
    BY <1>1, <1>2, <2>6
<1>6. Len(t) \in Nat \ {0}
  BY <1>4, <1>5, EmptySeq
<1> QED
  BY <1>1, <1>6

(* An enumeration of a set has each element once. *)
LEMMA SetToSeqIs ==
  ASSUME NEW W, IsFiniteSet(W)
  PROVE  /\ SetToSeq(W) \in Seq(W)
         /\ \A i, j \in 1..Len(SetToSeq(W)) : SetToSeq(W)[i] = SetToSeq(W)[j] => i = j
         /\ \A w \in W : \E i \in 1..Len(SetToSeq(W)) : SetToSeq(W)[i] = w
<1>1. PICK n, s : n = Cardinality(W) /\ s = SetToSeq(W)
  OBVIOUS
<1>2. n \in Nat /\ ExistsBijection(1..n, W)
  BY <1>1, FS_CardinalityType
<1>3. \E f \in [1..n -> W] : IsInjective(f)
  BY <1>2 DEF ExistsBijection, Bijection, Injection
<1>4. s \in [1..n -> W] /\ IsInjective(s)
  BY <1>1, <1>3 DEF SetToSeq
<1>5. s \in Seq(W) /\ Len(s) = n
  BY <1>2, <1>4, FunctionSequence
<1>6. \A i, j \in 1..n : s[i] = s[j] => i = j
  BY <1>4 DEF IsInjective
<1>7. s \in Surjection(1..n, W)
  <2>1. s \in Injection(1..n, W)
    BY <1>4 DEF Injection
  <2>2. IsFiniteSet(1..n) /\ Cardinality(1..n) = n
    <3>1. 1 \in Int /\ n \in Int
      BY <1>2
    <3>2. IsFiniteSet(1..n) /\ Cardinality(1..n) = IF 1 > n THEN 0 ELSE n - 1 + 1
      BY <3>1, FS_Interval
    <3> QED
      BY <1>2, <3>2
  <2>3. PICK D : D = 1..n
    OBVIOUS
  <2>4. s \in Injection(D, W) /\ Cardinality(D) = Cardinality(W)
    BY <1>1, <2>1, <2>2, <2>3
  <2>5. s \in Surjection(D, W)
    BY <2>4, FS_Injection
  <2> QED
    BY <2>3, <2>5
<1>8. \A w \in W : \E i \in 1..n : s[i] = w
  BY <1>7 DEF Surjection
<1> QED
  BY <1>1, <1>5, <1>6, <1>8

(* The rows of a table carry its name. *)
LEMMA OtherName ==
  ASSUME NEW c, NEW t, Tabular(c, t), NEW x, t.name # x[1]
  PROVE  Occurrences(Rows(t), x) = 0
<1>1. PICK r, n : r = Rows(t) /\ n = Len(t.index)
  OBVIOUS
<1>2. r = [i \in 1..n |-> RowOf(t, i)] /\ Len(r) = n
  BY <1>1, RowsAt
<1>3. \A i \in 1..n : RowOf(t, i)[1] = t.name
  BY DEF RowOf
<1>4. {i \in 1..Len(r) : r[i] = x} = {}
  BY <1>2, <1>3
<1> QED
  BY <1>1, <1>4, FS_EmptySet DEF Occurrences

(* Tables that are well-formed and whose rows come from a set. *)
Tables(c, T, S) == \A t \in T : Tabular(c, t) /\ Rows(t) \in Seq(S)

(* How often each of them has a row. *)
Having(T, x, N) == \A t \in T : N[t] = Occurrences(Rows(t), x)

(* A merged table has a name, and a row so many times. *)
MergedAs(c, w, name, S, x, k) ==
  w.name = name /\ Tabular(c, w) /\ Rows(w) \in Seq(S) /\ Occurrences(Rows(w), x) = k

(* In a merged table a row occurs as often as in its parts. *)
LEMMA MergedOccurrences ==
  ASSUME NEW c, Len(c.columns) \in Nat, NEW T, NEW S, Tables(c, T, S),
         NEW x, NEW N, Having(T, x, N), NEW name, \A t \in T : t.name = name,
         NEW group \in Seq(T), Len(group) > 0
  PROVE  MergedAs(c, MergeSingleTableWriters(c, group), name, S, x, Tally(N, group))
<1>0. PICK w : w = MergeSingleTableWriters(c, group)
  OBVIOUS
<1>1. w.name = group[1].name /\ Merges(c, group, w)
  BY <1>0 DEF MergeSingleTableWriters, Merges, IndexParts, ColumnParts
<1>2. PICK n : n = Len(group)
  OBVIOUS
<1>3. n \in Nat /\ Sequence(group) /\ \A i \in 1..n : group[i] \in T
  BY <1>2, SeqSequence
<1>4. w.name = name
  BY <1>1, <1>2, <1>3
<1>5. Tabular(c, w) /\ Rows(w) = FlattenSeq(RowParts(group))
  <2>1. \A i \in 1..Len(group) : Tabular(c, group[i]) /\ group[i].name = name
    BY <1>2, <1>3 DEF Tables
  <2>2. Merges(c, group, w)
    BY <1>1
  <2>3. Sequence(group)
    BY <1>3
  <2>4. Len(c.columns) \in Nat
    OBVIOUS
  <2> QED
    BY <1>4, <2>1, <2>2, <2>3, <2>4, MergedRows
<1>6. PICK ss, G, V : ss = RowParts(group) /\ G = [i \in 1..n |-> N[group[i]]] /\ V = Seq(S)
  OBVIOUS
<1>7. ss \in Seq(V) /\ Len(ss) = n /\ \A i \in 1..n : ss[i] = Rows(group[i])
  <2>1. ss = [i \in 1..n |-> Rows(group[i])]
    BY <1>2, <1>6 DEF RowParts
  <2>2. \A i \in 1..n : Rows(group[i]) \in V
    BY <1>3, <1>6 DEF Tables
  <2>3. ss \in [1..n -> V]
    BY <2>1, <2>2
  <2> QED
    BY <1>3, <2>1, <2>3, FunctionSequence
<1>8. FlattenSeq(ss) \in Seq(S) /\ Occurrences(FlattenSeq(ss), x) = SumOver(G, 1..Len(ss))
  <2>1. ss \in Seq(Seq(S))
    BY <1>6, <1>7
  <2>2. \A i \in 1..Len(ss) : G[i] = Occurrences(ss[i], x)
    BY <1>3, <1>6, <1>7 DEF Having
  <2> QED
    BY <2>1, <2>2, OccurrencesFlat
<1>9. Tally(N, group) = SumOver(G, 1..n)
  BY <1>2, <1>6 DEF Tally, Weights
<1> QED
  BY <1>0, <1>4, <1>5, <1>6, <1>7, <1>8, <1>9 DEF MergedAs

-----------------------------------------------------------------------------
(* What is pushed has the rows that pass the filter.                        *)

(* The rows of a table that pass the filter, looking at every row. *)
PassingRows(c, table) == Selected(Rows(table), {row \in 1..Len(table.index) : Keeps(c, table, row)})

(* The filter tells no two rows of a table apart. *)
Uniform(c, t) == \A row \in 1..Len(t.index) : Keeps(c, t, row) = Keeps(c, t, 1)

(* The occurrences of an element are counted. *)
LEMMA OccurrencesType ==
  ASSUME NEW S, NEW s \in Seq(S), NEW x
  PROVE  Occurrences(s, x) \in Nat
<1>1. PICK n, K : n = Len(s) /\ K = {i \in 1..n : s[i] = x}
  OBVIOUS
<1>2. n \in Int
  BY <1>1
<1>3. IsFiniteSet(1..n)
  BY <1>2, FirstNumbers
<1>4. IsFiniteSet(K)
  BY <1>1, <1>3, FS_Subset
<1>5. Cardinality(K) \in Nat
  BY <1>4, FS_CardinalityType
<1> QED
  BY <1>1, <1>5 DEF Occurrences

(* All rows of a table pass, or none. *)
LEMMA PassingOccurrences ==
  ASSUME NEW c, NEW t, Tabular(c, t), Uniform(c, t), NEW S, Rows(t) \in Seq(S), NEW x
  PROVE  /\ PassingRows(c, t) \in Seq(S)
         /\ Occurrences(PassingRows(c, t), x) = IF Keeps(c, t, 1) THEN Occurrences(Rows(t), x) ELSE 0
<1>1. PICK n, s, K : n = Len(t.index) /\ s = Rows(t) /\ K = {row \in 1..n : Keeps(c, t, row)}
  OBVIOUS
<1>2. s \in Seq(S) /\ Len(s) = n /\ n \in Nat /\ PassingRows(c, t) = Selected(s, K)
  BY <1>1, RowsAt DEF PassingRows
<1>3. PICK G : G = [i \in 1..n |-> IF i \in K /\ s[i] = x THEN 1 ELSE 0]
  OBVIOUS
<1>4. Selected(s, K) \in Seq(S) /\ Occurrences(Selected(s, K), x) = SumOver(G, 1..n)
  <2>1. \A i \in 1..Len(s) : G[i] = IF i \in K /\ s[i] = x THEN 1 ELSE 0
    BY <1>2, <1>3
  <2>2. s \in Seq(S)
    BY <1>2
  <2>3. Selected(s, K) \in Seq(S) /\ Occurrences(Selected(s, K), x) = SumOver(G, 1..Len(s))
    BY <2>1, <2>2, OccurrencesSelected
  <2> QED
    BY <1>2, <2>3
<1>5. IsFiniteSet(1..n)
  BY <1>2, FirstNumbers
<1>6. CASE Keeps(c, t, 1)
  <2>1. \A i \in 1..n : i \in K
    BY <1>1, <1>6 DEF Uniform
  <2>2. PICK F, W : F = [y \in S |-> IF y = x THEN 1 ELSE 0] /\ W = Weights(F, s)
    OBVIOUS
  <2>3. \A y \in S : F[y] = IF y = x THEN 1 ELSE 0
    BY <2>2
  <2>4. s \in Seq(S)
    BY <1>2
  <2>5. Occurrences(s, x) = Tally(F, s)
    BY <2>3, <2>4, OccurrencesTally
  <2>6. Tally(F, s) = SumOver(W, 1..n)
    BY <1>2, <2>2 DEF Tally
  <2>7. \A i \in 1..n : G[i] = W[i]
    <3>1. \A i \in 1..n : W[i] = F[s[i]] /\ s[i] \in S
      BY <1>2, <2>2 DEF Weights
    <3> QED
      BY <1>3, <2>1, <2>3, <3>1
  <2>8. SumOver(G, 1..n) = SumOver(W, 1..n)
    BY <1>5, <2>7, SumSame
  <2> QED
    BY <1>1, <1>2, <1>4, <1>6, <2>5, <2>6, <2>8
<1>7. CASE ~Keeps(c, t, 1)
  <2>1. \A i \in 1..n : i \notin K
    BY <1>1, <1>7 DEF Uniform
  <2>2. \A i \in 1..n : G[i] = 0 /\ G[i] \in Nat
    BY <1>3, <2>1
  <2>3. SumOver(G, 1..n) = 0
    BY <1>5, <2>2, SumNat
  <2> QED
    BY <1>1, <1>2, <1>4, <1>7, <2>3
<1> QED
  BY <1>6, <1>7

(* What passes of all tables one by one is what Apply keeps of them. *)
LEMMA AloneOccurrences ==
  ASSUME NEW c, NEW T, NEW S, Tables(c, T, S), \A t \in T : Uniform(c, t),
         NEW A \in Seq(T), NEW x, NEW N, Having(T, x, N)
  PROVE  LET alone == FlattenSeq([i \in 1..Len(A) |-> PassingRows(c, A[i])])
         IN  /\ Apply(c, A) \in Seq(T) /\ alone \in Seq(S)
             /\ Occurrences(alone, x) = Tally(N, Apply(c, A))
<1>1. PICK n, ss, K, V, G : /\ n = Len(A) /\ ss = [i \in 1..n |-> PassingRows(c, A[i])] /\ V = Seq(S)
                            /\ K = {i \in 1..n : Keeps(c, A[i], 1)}
                            /\ G = [i \in 1..n |-> IF i \in K THEN N[A[i]] ELSE 0]
  OBVIOUS
<1>2. n \in Nat /\ \A i \in 1..n : A[i] \in T
  BY <1>1
<1>3. \A t \in T : N[t] \in Int
  <2>1. ASSUME NEW t \in T PROVE N[t] \in Int
    <3>1. PICK r : r = Rows(t)
      OBVIOUS
    <3>2. r \in Seq(S) /\ N[t] = Occurrences(r, x)
      BY <3>1 DEF Tables, Having
    <3>3. Occurrences(r, x) \in Nat
      BY <3>2, OccurrencesType
    <3> QED
      BY <3>2, <3>3
  <2> QED
    BY <2>1
<1>4. ASSUME NEW i \in 1..n PROVE ss[i] \in V /\ G[i] = Occurrences(ss[i], x)
  <2>1. PICK t : t = A[i]
    OBVIOUS
  <2>2. Tabular(c, t) /\ Uniform(c, t) /\ Rows(t) \in Seq(S) /\ N[t] = Occurrences(Rows(t), x)
    BY <1>2, <2>1 DEF Tables, Having
  <2>3. /\ PassingRows(c, t) \in Seq(S)
        /\ Occurrences(PassingRows(c, t), x) = IF Keeps(c, t, 1) THEN Occurrences(Rows(t), x) ELSE 0
    BY <2>2, PassingOccurrences
  <2>4. ss[i] = PassingRows(c, t) /\ (i \in K <=> Keeps(c, t, 1)) /\ G[i] = IF i \in K THEN N[t] ELSE 0
    BY <1>1, <2>1
  <2> QED
    BY <1>1, <2>2, <2>3, <2>4
<1>5. ss \in Seq(V) /\ Len(ss) = n
  <2>1. ss \in [1..n -> V]
    BY <1>1, <1>4
  <2> QED
    BY <1>2, <2>1, FunctionSequence
<1>6. FlattenSeq(ss) \in Seq(S) /\ Occurrences(FlattenSeq(ss), x) = SumOver(G, 1..n)
  <2>1. ss \in Seq(Seq(S))
    BY <1>1, <1>5
  <2>2. \A i \in 1..Len(ss) : G[i] = Occurrences(ss[i], x)
    BY <1>4, <1>5
  <2>3. FlattenSeq(ss) \in Seq(S) /\ Occurrences(FlattenSeq(ss), x) = SumOver(G, 1..Len(ss))
    BY <2>1, <2>2, OccurrencesFlat
  <2> QED
    BY <1>5, <2>3
<1>7. Selected(A, K) \in Seq(T) /\ Tally(N, Selected(A, K)) = SumOver(G, 1..n)
  <2>1. \A i \in 1..Len(A) : G[i] = IF i \in K THEN N[A[i]] ELSE 0
    BY <1>1
  <2>2. Selected(A, K) \in Seq(T) /\ Tally(N, Selected(A, K)) = SumOver(G, 1..Len(A))
    BY <1>3, <2>1, TallySelected
  <2> QED
    BY <1>1, <2>2
<1>8. Apply(c, A) = Selected(A, K)
  BY <1>1 DEF Apply
<1> QED
  BY <1>1, <1>6, <1>7, <1>8

(* The tables of one name. *)
Group(B, name) == Selected(B, {i \in 1..Len(B) : B[i].name = name})
(* The names of the tables. *)
Names(B) == {B[i].name : i \in 1..Len(B)}

(* What is merged of one name. *)
LEMMA GroupMerged ==
  ASSUME NEW c, Len(c.columns) \in Nat, NEW T, NEW S, Tables(c, T, S), NEW B \in Seq(T),
         NEW x, NEW N, Having(T, x, N), NEW name \in Names(B)
  PROVE  MergedAs(c, MergeSingleTableWriters(c, Group(B, name)), name, S, x, Tally(N, Group(B, name)))
<1>1. PICK K, U, g : /\ K = {i \in 1..Len(B) : B[i].name = name} /\ U = {t \in T : t.name = name}
                     /\ g = Group(B, name)
  OBVIOUS
<1>2. g = Selected(B, K)
  BY <1>1 DEF Group
<1>3. g \in Seq(U)
  <2>1. \A i \in 1..Len(B) : i \in K => B[i] \in U
    BY <1>1
  <2>2. Selected(B, K) \in Seq(U)
    BY <2>1, SelectedIn
  <2> QED
    BY <1>2, <2>2
<1>4. Len(g) > 0
  <2>1. PICK j \in 1..Len(B) : j \in K
    BY <1>1 DEF Names
  <2>2. Len(Selected(B, K)) > 0
    BY <2>1, SelectedSome
  <2> QED
    BY <1>2, <2>2
<1>5. \A t \in U : t.name = name
  BY <1>1
<1>6. Tables(c, U, S)
  BY <1>1 DEF Tables
<1>7. Having(U, x, N)
  BY <1>1 DEF Having
<1>8. Len(c.columns) \in Nat
  OBVIOUS
<1>9. MergedAs(c, MergeSingleTableWriters(c, g), name, S, x, Tally(N, g))
  BY <1>3, <1>4, <1>5, <1>6, <1>7, <1>8, MergedOccurrences
<1> QED
  BY <1>1, <1>9

(* Only the tables of its name have a row. *)
LEMMA GroupTally ==
  ASSUME NEW c, NEW T, NEW S, Tables(c, T, S), NEW B \in Seq(T), NEW x, NEW N, Having(T, x, N)
  PROVE  /\ Tally(N, Group(B, x[1])) = Tally(N, B)
         /\ x[1] \notin Names(B) => Tally(N, B) = 0
<1>1. PICK n, K, G, W : /\ n = Len(B) /\ K = {i \in 1..n : B[i].name = x[1]}
                        /\ G = [i \in 1..n |-> IF i \in K THEN N[B[i]] ELSE 0] /\ W = Weights(N, B)
  OBVIOUS
<1>2. n \in Nat /\ \A i \in 1..n : B[i] \in T
  BY <1>1
<1>3. \A t \in T : N[t] \in Nat /\ (t.name # x[1] => N[t] = 0)
  <2>1. ASSUME NEW t \in T PROVE N[t] \in Nat /\ (t.name # x[1] => N[t] = 0)
    <3>1. PICK r : r = Rows(t)
      OBVIOUS
    <3>2. r \in Seq(S) /\ N[t] = Occurrences(r, x) /\ Tabular(c, t)
      BY <3>1 DEF Tables, Having
    <3>3. Occurrences(r, x) \in Nat
      BY <3>2, OccurrencesType
    <3>4. t.name # x[1] => Occurrences(Rows(t), x) = 0
      BY <3>2, OtherName
    <3> QED
      BY <3>1, <3>2, <3>3, <3>4
  <2> QED
    BY <2>1
<1>4. \A i \in 1..n : G[i] = W[i] /\ W[i] = N[B[i]]
  <2>1. \A i \in 1..n : W[i] = N[B[i]]
    BY <1>1 DEF Weights
  <2>2. \A i \in 1..n : i \notin K => N[B[i]] = 0
    BY <1>1, <1>2, <1>3
  <2> QED
    BY <1>1, <2>1, <2>2
<1>5. IsFiniteSet(1..n)
  BY <1>2, FirstNumbers
<1>6. SumOver(G, 1..n) = SumOver(W, 1..n)
  <2>1. \A i \in 1..n : G[i] = W[i]
    BY <1>4
  <2> QED
    BY <1>5, <2>1, SumSame
<1>7. Tally(N, Selected(B, K)) = SumOver(G, 1..n)
  <2>1. \A i \in 1..Len(B) : G[i] = IF i \in K THEN N[B[i]] ELSE 0
    BY <1>1
  <2>2. \A t \in T : N[t] \in Int
    BY <1>3
  <2>3. Tally(N, Selected(B, K)) = SumOver(G, 1..Len(B))
    BY <2>1, <2>2, TallySelected
  <2> QED
    BY <1>1, <2>3
<1>8. Tally(N, B) = SumOver(W, 1..n)
  BY <1>1 DEF Tally
<1>9. ASSUME x[1] \notin Names(B) PROVE Tally(N, B) = 0
  <2>1. \A i \in 1..n : W[i] = 0 /\ W[i] \in Nat
    <3>1. \A i \in 1..n : B[i].name # x[1]
      BY <1>1, <1>9 DEF Names
    <3> QED
      BY <1>2, <1>3, <1>4, <3>1
  <2>2. SumOver(W, 1..n) = 0
    BY <1>5, <2>1, SumNat
  <2> QED
    BY <1>8, <2>2
<1>10. Tally(N, Group(B, x[1])) = Tally(N, B)
  BY <1>1, <1>6, <1>7, <1>8 DEF Group
<1> QED
  BY <1>9, <1>10

(* The merged tables, one for each name. *)
LEMMA MergeIs ==
  ASSUME NEW c, NEW B
  PROVE  MergeWriterTables(c, B) = {MergeSingleTableWriters(c, Group(B, name)) : name \in Names(B)}
BY DEF MergeWriterTables, Group, Names

(* They are finitely many. *)
LEMMA MergeFinite ==
  ASSUME NEW c, NEW T, NEW B \in Seq(T)
  PROVE  IsFiniteSet(MergeWriterTables(c, B))
<1>1. PICK n, W, f : /\ n = Len(B) /\ W = MergeWriterTables(c, B)
                     /\ f = [i \in 1..n |-> MergeSingleTableWriters(c, Group(B, B[i].name))]
  OBVIOUS
<1>2. W = {MergeSingleTableWriters(c, Group(B, name)) : name \in Names(B)}
  BY <1>1, MergeIs
<1>3. \A i \in 1..n : B[i].name \in Names(B)
  BY <1>1 DEF Names
<1>4. \A name \in Names(B) : \E i \in 1..n : name = B[i].name
  BY <1>1 DEF Names
<1>5. f \in [1..n -> W]
  BY <1>1, <1>2, <1>3
<1>6. \A w \in W : \E i \in 1..n : f[i] = w
  BY <1>1, <1>2, <1>4
<1>7. f \in Surjection(1..n, W)
  BY <1>5, <1>6 DEF Surjection
<1>8. n \in Int
  BY <1>1
<1>9. PICK D : D = 1..n
  OBVIOUS
<1>10. IsFiniteSet(D) /\ f \in Surjection(D, W)
  BY <1>7, <1>8, <1>9, FirstNumbers
<1>11. IsFiniteSet(W)
  BY <1>10, FS_Surjection
<1> QED
  BY <1>1, <1>11

(* What is pushed has a row as often as the tables that were merged. *)
LEMMA PushedOccurrences ==
  ASSUME NEW c, Len(c.columns) \in Nat, NEW T, NEW S, Tables(c, T, S), NEW B \in Seq(T),
         NEW x, NEW N, Having(T, x, N),
         NEW P, P = SetToSeq(MergeWriterTables(c, B))
  PROVE  LET rows == FlattenSeq([i \in 1..Len(P) |-> Rows(P[i])])
         IN  rows \in Seq(S) /\ Occurrences(rows, x) = Tally(N, B)
<1>1. PICK W, n, ss, G, V : /\ W = MergeWriterTables(c, B) /\ n = Len(P) /\ ss = [i \in 1..n |-> Rows(P[i])]
                            /\ G = [i \in 1..n |-> Occurrences(Rows(P[i]), x)] /\ V = Seq(S)
  OBVIOUS
<1>2. W = {MergeSingleTableWriters(c, Group(B, name)) : name \in Names(B)}
  BY <1>1, MergeIs
<1>3. /\ P \in Seq(W) /\ n \in Nat
      /\ \A i, j \in 1..n : P[i] = P[j] => i = j
      /\ \A w \in W : \E i \in 1..n : P[i] = w
  <2>1. IsFiniteSet(W)
    BY <1>1, MergeFinite
  <2>2. P = SetToSeq(W)
    BY <1>1
  <2>3. /\ P \in Seq(W)
        /\ \A i, j \in 1..Len(P) : P[i] = P[j] => i = j
        /\ \A w \in W : \E i \in 1..Len(P) : P[i] = w
    BY <2>1, <2>2, SetToSeqIs
  <2>4. Len(P) \in Nat
    BY <2>3, SeqSequence
  <2> QED
    BY <1>1, <2>3, <2>4
<1>4. \A name \in Names(B) :
        MergedAs(c, MergeSingleTableWriters(c, Group(B, name)), name, S, x, Tally(N, Group(B, name)))
  <2>1. Len(c.columns) \in Nat
    OBVIOUS
  <2> QED
    BY <2>1, GroupMerged
<1>5. ASSUME NEW i \in 1..n
      PROVE  \E name \in Names(B) : /\ P[i] = MergeSingleTableWriters(c, Group(B, name))
                                    /\ MergedAs(c, P[i], name, S, x, Tally(N, Group(B, name)))
  <2>1. P[i] \in W
    BY <1>1, <1>3
  <2>2. PICK name \in Names(B) : P[i] = MergeSingleTableWriters(c, Group(B, name))
    BY <1>2, <2>1
  <2> QED
    BY <1>4, <2>2
<1>6. \A i \in 1..n : /\ ss[i] \in V /\ G[i] = Occurrences(ss[i], x)
                      /\ Tabular(c, P[i]) /\ G[i] \in Nat
  <2>1. ASSUME NEW i \in 1..n
        PROVE  /\ ss[i] \in V /\ G[i] = Occurrences(ss[i], x)
               /\ Tabular(c, P[i]) /\ G[i] \in Nat
    <3>1. PICK r : r = Rows(P[i])
      OBVIOUS
    <3>2. r \in Seq(S) /\ Tabular(c, P[i])
      BY <1>5, <3>1 DEF MergedAs
    <3>3. Occurrences(r, x) \in Nat
      BY <3>2, OccurrencesType
    <3> QED
      BY <1>1, <3>1, <3>2, <3>3
  <2> QED
    BY <2>1
<1>7. FlattenSeq(ss) \in Seq(S) /\ Occurrences(FlattenSeq(ss), x) = SumOver(G, 1..n)
  <2>1. ss \in [1..n -> V]
    BY <1>1, <1>6
  <2>2. ss \in Seq(V) /\ Len(ss) = n
    BY <1>3, <2>1, FunctionSequence
  <2>3. ss \in Seq(Seq(S))
    BY <1>1, <2>2
  <2>4. \A i \in 1..Len(ss) : G[i] = Occurrences(ss[i], x)
    BY <1>6, <2>2
  <2>5. FlattenSeq(ss) \in Seq(S) /\ Occurrences(FlattenSeq(ss), x) = SumOver(G, 1..Len(ss))
    BY <2>3, <2>4, OccurrencesFlat
  <2> QED
    BY <2>2, <2>5
<1>8. \A i \in 1..n : P[i].name # x[1] => G[i] = 0
  <2>1. ASSUME NEW i \in 1..n, P[i].name # x[1] PROVE G[i] = 0
    <3>1. Occurrences(Rows(P[i]), x) = 0
      BY <1>6, <2>1, OtherName
    <3> QED
      BY <1>1, <3>1
  <2> QED
    BY <2>1
<1>9. Tally(N, Group(B, x[1])) = Tally(N, B) /\ (x[1] \notin Names(B) => Tally(N, B) = 0)
  BY GroupTally
<1>10. IsFiniteSet(1..n) /\ \A i \in 1..n : G[i] \in Int
  BY <1>3, <1>6, FirstNumbers
<1>11. CASE x[1] \in Names(B)
  <2>1. PICK w : w = MergeSingleTableWriters(c, Group(B, x[1]))
    OBVIOUS
  <2>2. w \in W
    BY <1>2, <1>11, <2>1
  <2>3. PICK j \in 1..n : P[j] = w
    BY <1>3, <2>2
  <2>4. G[j] = Tally(N, B)
    <3>1. MergedAs(c, w, x[1], S, x, Tally(N, Group(B, x[1])))
      BY <1>4, <1>11, <2>1
    <3>2. Occurrences(Rows(w), x) = Tally(N, Group(B, x[1]))
      BY <3>1 DEF MergedAs
    <3> QED
      BY <1>1, <1>9, <2>3, <3>2
  <2>5. ASSUME NEW i \in 1..n, i # j PROVE G[i] = 0
    <3>1. PICK name \in Names(B) : /\ P[i] = MergeSingleTableWriters(c, Group(B, name))
                                   /\ MergedAs(c, P[i], name, S, x, Tally(N, Group(B, name)))
      BY <1>5
    <3>2. P[i] # w
      BY <1>3, <2>3, <2>5
    <3>3. name # x[1]
      BY <2>1, <3>1, <3>2
    <3>4. P[i].name = name
      BY <3>1 DEF MergedAs
    <3> QED
      BY <1>8, <3>3, <3>4
  <2>6. SumOver(G, 1..n) = SumOver(G, {j})
    <3>1. PICK Z, D : Z = {j} /\ D = 1..n
      OBVIOUS
    <3>2. IsFiniteSet(D) /\ (\A i \in D : G[i] \in Int) /\ Z \in SUBSET D /\ \A i \in D \ Z : G[i] = 0
      BY <1>10, <2>5, <3>1
    <3>3. SumOver(G, D) = SumOver(G, Z)
      BY <3>2, SumZeros
    <3> QED
      BY <3>1, <3>3
  <2>7. SumOver(G, {j}) = G[j]
    <3>1. PICK Z : Z = {j}
      OBVIOUS
    <3>2. IsFiniteSet(Z) /\ (\A i \in Z : G[i] \in Int) /\ j \in Z /\ Z \ {j} = {} /\ IsFiniteSet({})
      BY <1>10, <3>1, FS_Singleton, FS_EmptySet
    <3>3. SumOver(G, Z) = G[j] + SumOver(G, Z \ {j})
      BY <3>2, SumAdd
    <3>4. PICK E : E = Z \ {j}
      OBVIOUS
    <3>5. E = {} /\ IsFiniteSet(E)
      BY <3>2, <3>4
    <3>6. SumOver(G, E) = 0
      BY <3>5, SumAt
    <3>7. G[j] \in Int /\ SumOver(G, Z) = G[j] + SumOver(G, E)
      BY <1>10, <3>3, <3>4
    <3> QED
      BY <3>1, <3>6, <3>7
  <2> QED
    BY <1>1, <1>7, <2>4, <2>6, <2>7
<1>12. CASE x[1] \notin Names(B)
  <2>1. \A i \in 1..n : G[i] = 0
    <3>1. ASSUME NEW i \in 1..n PROVE G[i] = 0
      <4>1. P[i].name \in Names(B)
        BY <1>5 DEF MergedAs
      <4> QED
        BY <1>8, <1>12, <4>1
    <3> QED
      BY <3>1
  <2>2. \A i \in 1..n : G[i] \in Nat
    BY <1>6
  <2>3. SumOver(G, 1..n) = 0
    BY <1>10, <2>1, <2>2, SumNat
  <2> QED
    BY <1>1, <1>7, <1>9, <1>12, <2>3
<1> QED
  BY <1>11, <1>12

(* What is written of the tables is what passes of them one by one. *)
LEMMA SameWritten ==
  ASSUME NEW c, Len(c.columns) \in Nat, NEW A, Sequence(A),
         \A i \in 1..Len(A) : Tabular(c, A[i]) /\ Uniform(c, A[i]),
         NEW P, P = SetToSeq(MergeWriterTables(c, Apply(c, A)))
  PROVE  SameRows(FlattenSeq([i \in 1..Len(A) |-> PassingRows(c, A[i])]),
                  FlattenSeq([i \in 1..Len(P) |-> Rows(P[i])]))
<1>1. PICK T, S, r1, r2 : /\ T = ToSet(A) /\ S = UNION {ToSet(Rows(t)) : t \in T}
                          /\ r1 = FlattenSeq([i \in 1..Len(A) |-> PassingRows(c, A[i])])
                          /\ r2 = FlattenSeq([i \in 1..Len(P) |-> Rows(P[i])])
  OBVIOUS
<1>2. A \in Seq(T)
  BY <1>1 DEF Sequence
<1>3. \A t \in T : Tabular(c, t) /\ Uniform(c, t)
  <2>1. DOMAIN A = 1..Len(A)
    BY SequenceLen
  <2> QED
    BY <1>1, <2>1 DEF ToSet
<1>4. Tables(c, T, S)
  <2>1. ASSUME NEW t \in T PROVE Rows(t) \in Seq(S)
    <3>1. PICK r, U : r = Rows(t) /\ U = ToSet(r)
      OBVIOUS
    <3>2. Sequence(r)
      BY <1>3, <3>1, RowsAt
    <3>3. r \in Seq(U) /\ U \subseteq S
      BY <1>1, <3>1, <3>2 DEF Sequence
    <3>4. r \in Seq(S)
      BY <3>3, SeqMonotonic
    <3> QED
      BY <3>1, <3>4
  <2> QED
    BY <1>3, <2>1 DEF Tables
<1>5. ASSUME NEW x PROVE Occurrences(r1, x) = Occurrences(r2, x)
  <2>1. PICK N : N = [t \in T |-> Occurrences(Rows(t), x)]
    OBVIOUS
  <2>2. Having(T, x, N)
    BY <2>1 DEF Having
  <2>3. \A t \in T : Uniform(c, t)
    BY <1>3
  <2>4. PICK B : B = Apply(c, A)
    OBVIOUS
  <2>5. B \in Seq(T) /\ Occurrences(r1, x) = Tally(N, B)
    BY <1>1, <1>2, <1>4, <2>2, <2>3, <2>4, AloneOccurrences
  <2>6. P = SetToSeq(MergeWriterTables(c, B))
    BY <2>4
  <2>7. Len(c.columns) \in Nat
    OBVIOUS
  <2>8. Occurrences(FlattenSeq([i \in 1..Len(P) |-> Rows(P[i])]), x) = Tally(N, B)
    <3>1. B \in Seq(T)
      BY <2>5
    <3> QED
      BY <1>4, <2>2, <2>6, <2>7, <3>1, PushedOccurrences
  <2> QED
    BY <1>1, <2>5, <2>8
<1>6. SameRows(r1, r2)
  BY <1>5 DEF SameRows, Occurrences
<1> QED
  BY <1>1, <1>6

-----------------------------------------------------------------------------
(* The fields are what their types say.                                     *)

WellFields(fields) == \A x \in DOMAIN fields : WellTyped(fields[x])

(* A value of another type says nothing of its payload. *)
LEMMA PlainTyped ==
  ASSUME NEW v, TypeOf(v) \notin {"string", "floats", "ints", "list", "map", "bytes"}
  PROVE  WellTyped(v)
BY DEF WellTyped

(* A text is a well-typed string. *)
LEMMA TextTyped ==
  ASSUME NEW text, Sequence(text)
  PROVE  WellTyped(<<"string", text>>)
<1>1. PICK v : v = <<"string", text>>
  OBVIOUS
<1>2. v[1] = "string" /\ v[2] = text
  BY <1>1
<1>3. TypeOf(v) = "string"
  BY <1>2 DEF TypeOf
<1>4. WellTyped(v)
  BY <1>2, <1>3 DEF WellTyped
<1> QED
  BY <1>1, <1>4

(* So are the marks for no value. *)
LEMMA AbsentTyped == WellTyped(Absent) /\ WellTyped(Failed) /\ WellTyped(Nil)
<1>1. TypeOf(Absent) = "absent" /\ TypeOf(Failed) = "failed" /\ TypeOf(Nil) = "nil"
  BY DEF TypeOf, Absent, Failed, Nil
<1> QED
  BY <1>1, PlainTyped

(* What a lookup can find on its way. *)
Found(fields) == {Absent} \cup {fields[x] : x \in DOMAIN fields} \cup Values

(* All of it is well typed. *)
LEMMA FoundTyped ==
  ASSUME NEW f, WellFields(f), NEW v \in Found(f)
  PROVE  WellTyped(v)
BY AbsentTyped, ValuesAssumption DEF Found, WellFields

(* Going down a segment finds it. *)
LEMMA DescendFinds ==
  ASSUME NEW f, WellFields(f), NEW v, v = <<"map", f>> \/ v \in Found(f), NEW segment
  PROVE  Descend(v, segment) \in Found(f)
<1>1. CASE TypeOf(v) = "map" /\ segment \in DOMAIN v[2]
  <2>1. Descend(v, segment) = v[2][segment]
    BY <1>1 DEF Descend
  <2>2. CASE v = <<"map", f>>
    <3>1. v[2] = f
      BY <2>2
    <3> QED
      BY <1>1, <2>1, <3>1 DEF Found
  <2>3. CASE v \in Found(f)
    <3>1. WellTyped(v)
      BY <2>3, FoundTyped
    <3>2. MapOfValues(v[2])
      BY <1>1, <3>1 DEF WellTyped
    <3>3. v[2][segment] \in Values
      BY <1>1, <3>2 DEF MapOfValues
    <3> QED
      BY <2>1, <3>3 DEF Found
  <2> QED
    BY <2>2, <2>3
<1>2. CASE ~(TypeOf(v) = "map" /\ segment \in DOMAIN v[2])
  <2>1. Descend(v, segment) = Absent
    BY <1>2 DEF Descend
  <2> QED
    BY <2>1 DEF Found
<1> QED
  BY <1>1, <1>2

(* The recursion of Lookup. *)
Looks(f, path, g) == g = [i \in 0..Len(path) |-> IF i = 0 THEN <<"map", f>> ELSE Descend(g[i - 1], path[i])]

(* So does a path of any length. *)
LEMMA LookupFinds ==
  ASSUME NEW f, WellFields(f), NEW path, Path(path)
  PROVE  Lookup(f, path) \in Found(f)
<1>1. PICK n, b, V, g : /\ n = Len(path) /\ b = <<"map", f>> /\ V = {b} \cup Found(f)
                        /\ g = CHOOSE x : Looks(f, path, x)
  OBVIOUS
<1>2. n \in Nat /\ n # 0
  <2>1. n \in Nat
    BY <1>1, SequenceLen DEF Path
  <2>2. PICK S : S = ToSet(path)
    OBVIOUS
  <2>3. path \in Seq(S) /\ path # <<>>
    BY <2>2 DEF Path, Sequence
  <2>4. Len(path) \in Nat \ {0}
    BY <2>3, EmptySeq
  <2> QED
    BY <1>1, <2>1, <2>4
<1>3. Lookup(f, path) = g[n]
  BY <1>1 DEF Lookup, Looks
<1>4. \A v \in V : \A segment : Descend(v, segment) \in Found(f)
  BY <1>1, DescendFinds
<1>5. PICK F : F = [k \in 1..n |-> [v \in V |-> Descend(v, path[k])]]
  OBVIOUS
<1>6. \A k \in 1..n : \A v \in V : F[k][v] = Descend(v, path[k]) /\ F[k][v] \in V
  BY <1>1, <1>4, <1>5
<1>7. PICK h : StepByStep(n, V, b, F, h)
  <2>1. n \in Nat /\ b \in V
    BY <1>1, <1>2
  <2>2. \A k \in 1..n : \A v \in V : F[k][v] \in V
    BY <1>6
  <2> QED
    BY <2>1, <2>2, Recursion
<1>8. Looks(f, path, h)
  <2>1. h \in [0..n -> V] /\ h[0] = b /\ \A k \in 1..n : h[k] = F[k][h[k - 1]]
    BY <1>7 DEF StepByStep
  <2>2. ASSUME NEW i \in 0..n PROVE h[i] = IF i = 0 THEN b ELSE Descend(h[i - 1], path[i])
    <3>1. CASE i = 0
      BY <2>1, <3>1
    <3>2. CASE i # 0
      <4>1. i \in 1..n /\ i - 1 \in 0..n
        BY <1>2, <3>2
      <4> QED
        BY <1>6, <2>1, <3>2, <4>1
    <3> QED
      BY <3>1, <3>2
  <2>3. h = [i \in 0..n |-> IF i = 0 THEN b ELSE Descend(h[i - 1], path[i])]
    BY <2>1, <2>2
  <2> QED
    BY <1>1, <2>3 DEF Looks
<1>9. Looks(f, path, g)
  BY <1>1, <1>8
<1>10. g[0] = b /\ \A k \in 1..n : g[k] = Descend(g[k - 1], path[k])
  <2>1. g = [i \in 0..n |-> IF i = 0 THEN b ELSE Descend(g[i - 1], path[i])]
    BY <1>1, <1>9 DEF Looks
  <2> QED
    BY <1>2, <2>1
<1>11. \A k \in 0..n : g[k] \in V
  <2>1. g[0] \in V
    BY <1>1, <1>10
  <2>2. \A k \in 1..n : g[k - 1] \in V => g[k] \in V
    BY <1>1, <1>4, <1>10
  <2>3. n \in Nat
    BY <1>2
  <2> QED
    BY <2>1, <2>2, <2>3, RecursionIn
<1>12. g[n] \in Found(f)
  <2>1. n \in 1..n /\ n - 1 \in 0..n
    BY <1>2
  <2> QED
    BY <1>4, <1>10, <1>11, <2>1
<1> QED
  BY <1>3, <1>12

(* compileFieldPath: what a path finds is well typed. *)
LEMMA LookupTyped ==
  ASSUME NEW f, WellFields(f), NEW path, Path(path)
  PROVE  WellTyped(Lookup(f, path))
BY LookupFinds, FoundTyped

(* A field is well typed. *)
LEMMA FieldTyped ==
  ASSUME NEW f, WellFields(f), NEW path
  PROVE  WellTyped(Field(f, path))
BY AbsentTyped DEF Field, WellFields

(* One more field, or several. *)
LEMMA PutAllFields ==
  ASSUME NEW f, WellFields(f), NEW d, WellFields(d)
  PROVE  WellFields(Overlay(f, d))
<1>1. PICK g : g = Overlay(f, d)
  OBVIOUS
<1>2. /\ DOMAIN g = DOMAIN d \cup DOMAIN f
      /\ \A x \in DOMAIN g : (x \in DOMAIN d /\ g[x] = d[x]) \/ (x \in DOMAIN f /\ g[x] = f[x])
  BY <1>1 DEF Overlay
<1>3. WellFields(g)
  BY <1>2 DEF WellFields
<1> QED
  BY <1>1, <1>3

(* A field that is set. *)
LEMMA PutFields ==
  ASSUME NEW f, WellFields(f), NEW target, NEW v, WellTyped(v)
  PROVE  WellFields(With(f, target, v))
<1>1. PICK d : d = [k \in {target} |-> v]
  OBVIOUS
<1>2. WellFields(d)
  BY <1>1 DEF WellFields
<1> QED
  BY <1>1, <1>2, PutAllFields DEF With

(* The fields of a decoded map. *)
LEMMA MapFields ==
  ASSUME NEW d, MapOfValues(d)
  PROVE  WellFields(d)
BY ValuesAssumption DEF MapOfValues, WellFields

(* Short texts. *)
LEMMA ShortSequence ==
  /\ Sequence(<<>>)
  /\ \A x : Sequence(<<x>>)
  /\ \A x, y : Sequence(<<x, y>>)
<1>1. Sequence(<<>>)
  <2>1. PICK S, s : S = {} /\ s = <<>>
    OBVIOUS
  <2>2. s \in Seq(S)
    BY <2>1
  <2> QED
    BY <2>1, <2>2, SeqSequence
<1>2. ASSUME NEW x PROVE Sequence(<<x>>)
  <2>1. PICK S, s : S = {x} /\ s = <<x>>
    OBVIOUS
  <2>2. s \in Seq(S)
    BY <2>1
  <2> QED
    BY <2>1, <2>2, SeqSequence
<1>3. ASSUME NEW x, NEW y PROVE Sequence(<<x, y>>)
  <2>1. PICK S, s : S = {x, y} /\ s = <<x, y>>
    OBVIOUS
  <2>2. s \in Seq(S)
    BY <2>1
  <2> QED
    BY <2>1, <2>2, SeqSequence
<1> QED
  BY <1>1, <1>2, <1>3

(* A text for every value. *)
LEMMA FormattedText ==
  ASSUME NEW v, WellTyped(v)
  PROVE  Sequence(Formatted(v))
<1>1. CASE TypeOf(v) = "string"
  <2>1. Formatted(v) = v[2]
    BY <1>1 DEF Formatted
  <2> QED
    BY <1>1, <2>1 DEF WellTyped
<1>2. CASE TypeOf(v) # "string"
  <2>1. \/ \E x : Formatted(v) = <<x>>
        \/ \E x, y : Formatted(v) = <<x, y>>
    BY <1>2 DEF Formatted
  <2> QED
    BY <2>1, ShortSequence
<1> QED
  BY <1>1, <1>2

(* The bytes of a text decode to nothing. *)
LEMMA BytesTyped ==
  ASSUME NEW text
  PROVE  WellTyped(<<"bytes", BytesOf(text)>>)
<1>1. PICK d, v : d = BytesOf(text) /\ v = <<"bytes", d>>
  OBVIOUS
<1>2. d.elements = <<>> /\ d.kind \in {"empty", "other", "text"}
  BY <1>1 DEF BytesOf, Payload
<1>3. Decodable(d)
  BY <1>2, ShortSequence DEF Decodable
<1>4. v[1] = "bytes" /\ v[2] = d
  BY <1>1
<1>5. WellTyped(v)
  BY <1>3, <1>4 DEF WellTyped, TypeOf
<1> QED
  BY <1>1, <1>5

(* What a conversion gives. *)
LEMMA ConvertIs ==
  ASSUME NEW v, NEW type
  PROVE  LET r == ConvertFieldValue(v, type)
         IN  \/ r \in {v, Absent, Failed, <<"string", Formatted(v)>>, <<"bytes", BytesOf(v[2])>>}
             \/ \E x : r \in {<<"int64", x>>, <<"float64", x>>, <<"bool", x>>}
BY DEF ConvertFieldValue, ToInt64

(* A number of any type is well typed. *)
LEMMA NumberTyped ==
  ASSUME NEW x, NEW type \in {"int64", "float64", "bool", "time"}
  PROVE  WellTyped(<<type, x>>)
<1>1. TypeOf(<<type, x>>) = type
  BY DEF TypeOf
<1> QED
  BY <1>1, PlainTyped

(* convertFieldValue makes well-typed values of well-typed values. *)
LEMMA ConvertTyped ==
  ASSUME NEW v, WellTyped(v), NEW type
  PROVE  WellTyped(ConvertFieldValue(v, type))
<1>1. PICK r : r = ConvertFieldValue(v, type)
  OBVIOUS
<1>2. \/ r \in {v, Absent, Failed, <<"string", Formatted(v)>>, <<"bytes", BytesOf(v[2])>>}
      \/ \E x : r \in {<<"int64", x>>, <<"float64", x>>, <<"bool", x>>}
  BY <1>1, ConvertIs
<1>3. WellTyped(<<"string", Formatted(v)>>)
  BY FormattedText, TextTyped
<1>4. WellTyped(<<"bytes", BytesOf(v[2])>>)
  BY BytesTyped
<1>5. \A x : WellTyped(<<"int64", x>>) /\ WellTyped(<<"float64", x>>) /\ WellTyped(<<"bool", x>>)
  BY NumberTyped
<1> QED
  BY <1>1, <1>2, <1>3, <1>4, <1>5, AbsentTyped

(* So does convertToTimestamp. *)
LEMMA TimeTyped ==
  ASSUME NEW v, WellTyped(v), NEW format
  PROVE  WellTyped(ConvertToTimestamp(v, format))
<1>1. PICK r : r = ConvertToTimestamp(v, format)
  OBVIOUS
<1>2. r \in {Absent, Failed, v} \/ \E x : r = <<"time", x>>
  BY <1>1 DEF ConvertToTimestamp, ParseEpoch, EpochIntToTime, EpochFloatToTime
<1>3. \A x : WellTyped(<<"time", x>>)
  BY NumberTyped
<1> QED
  BY <1>1, <1>2, <1>3, AbsentTyped

(* The recursion of Split. *)
Splits(text, separator, g) ==
  g = [i \in 0..Len(text) |-> IF i = 0 THEN <<<<>>>> ELSE SplitToken(g[i - 1], text[i], separator)]

(* A token is added to the last part or begins another. *)
LEMMA SplitTokenTyped ==
  ASSUME NEW T, NEW parts \in Seq(Seq(T)), parts # <<>>, NEW token \in T, NEW separator
  PROVE  SplitToken(parts, token, separator) \in Seq(Seq(T)) /\ SplitToken(parts, token, separator) # <<>>
<1>1. PICK V, e, n : V = Seq(T) /\ e = <<>> /\ n = Len(parts)
  OBVIOUS
<1>2. parts \in Seq(V) /\ e \in V /\ n \in Nat \ {0}
  BY <1>1, EmptySeq
<1>3. CASE token = separator
  <2>1. SplitToken(parts, token, separator) = Append(parts, e)
    BY <1>1, <1>3 DEF SplitToken
  <2>2. Append(parts, e) \in Seq(V) /\ Append(parts, e) # <<>>
    BY <1>2, AppendProperties
  <2> QED
    BY <1>1, <2>1, <2>2
<1>4. CASE token # separator
  <2>1. PICK a : a = Append(parts[n], token)
    OBVIOUS
  <2>2. parts[n] \in V /\ n \in 1..Len(parts)
    BY <1>1, <1>2
  <2>3. a \in V
    BY <1>1, <2>1, <2>2, AppendProperties
  <2>4. SplitToken(parts, token, separator) = [parts EXCEPT ![n] = a]
    BY <1>1, <1>4, <2>1 DEF SplitToken
  <2>5. [parts EXCEPT ![n] = a] \in Seq(V) /\ Len([parts EXCEPT ![n] = a]) = n
    BY <1>1, <1>2, <2>2, <2>3, ExceptSeq
  <2>6. [parts EXCEPT ![n] = a] # <<>>
    <3>1. Len(<<>>) = 0
      OBVIOUS
    <3> QED
      BY <1>2, <2>5, <3>1
  <2> QED
    BY <1>1, <2>4, <2>5, <2>6
<1> QED
  BY <1>3, <1>4

(* The parts of a text are texts of its tokens. *)
LEMMA SplitTyped ==
  ASSUME NEW text, Sequence(text), NEW separator
  PROVE  Split(text, separator) \in Seq(Seq(ToSet(text)))
<1>1. PICK n, T, b, V, g : /\ n = Len(text) /\ T = ToSet(text) /\ b = <<<<>>>>
                           /\ V = {p \in Seq(Seq(T)) : p # <<>>}
                           /\ g = CHOOSE x : Splits(text, separator, x)
  OBVIOUS
<1>2. n \in Nat /\ \A k \in 1..n : text[k] \in T
  <2>1. text \in Seq(T)
    BY <1>1 DEF Sequence
  <2> QED
    BY <1>1, <2>1, SeqSequence
<1>3. Split(text, separator) = g[n]
  BY <1>1 DEF Split, Splits
<1>4. b \in V
  <2>1. PICK U, e : U = Seq(T) /\ e = <<>>
    OBVIOUS
  <2>2. e \in U
    BY <2>1, EmptySeq
  <2>3. b = <<e>> /\ <<e>> \in Seq(U) /\ Len(<<e>>) = 1
    BY <1>1, <2>1, <2>2
  <2>4. b # <<>>
    <3>1. Len(<<>>) = 0
      OBVIOUS
    <3> QED
      BY <2>3, <3>1
  <2> QED
    BY <1>1, <2>1, <2>3, <2>4
<1>5. \A v \in V : \A token \in T : SplitToken(v, token, separator) \in V
  BY <1>1, SplitTokenTyped
<1>6. PICK F : F = [k \in 1..n |-> [v \in V |-> SplitToken(v, text[k], separator)]]
  OBVIOUS
<1>7. \A k \in 1..n : \A v \in V : F[k][v] = SplitToken(v, text[k], separator) /\ F[k][v] \in V
  BY <1>2, <1>5, <1>6
<1>8. PICK h : StepByStep(n, V, b, F, h)
  <2>1. n \in Nat /\ b \in V
    BY <1>2, <1>4
  <2>2. \A k \in 1..n : \A v \in V : F[k][v] \in V
    BY <1>7
  <2> QED
    BY <2>1, <2>2, Recursion
<1>9. Splits(text, separator, h)
  <2>1. h \in [0..n -> V] /\ h[0] = b /\ \A k \in 1..n : h[k] = F[k][h[k - 1]]
    BY <1>8 DEF StepByStep
  <2>2. ASSUME NEW i \in 0..n PROVE h[i] = IF i = 0 THEN b ELSE SplitToken(h[i - 1], text[i], separator)
    <3>1. CASE i = 0
      BY <2>1, <3>1
    <3>2. CASE i # 0
      <4>1. i \in 1..n /\ i - 1 \in 0..n
        BY <1>2, <3>2
      <4> QED
        BY <1>7, <2>1, <3>2, <4>1
    <3> QED
      BY <3>1, <3>2
  <2>3. h = [i \in 0..n |-> IF i = 0 THEN b ELSE SplitToken(h[i - 1], text[i], separator)]
    BY <2>1, <2>2
  <2> QED
    BY <1>1, <2>3 DEF Splits
<1>10. Splits(text, separator, g)
  BY <1>1, <1>9
<1>11. g[0] = b /\ \A k \in 1..n : g[k] = SplitToken(g[k - 1], text[k], separator)
  <2>1. g = [i \in 0..n |-> IF i = 0 THEN b ELSE SplitToken(g[i - 1], text[i], separator)]
    BY <1>1, <1>10 DEF Splits
  <2> QED
    BY <1>2, <2>1
<1>12. \A k \in 0..n : g[k] \in V
  <2>1. g[0] \in V
    BY <1>4, <1>11
  <2>2. \A k \in 1..n : g[k - 1] \in V => g[k] \in V
    BY <1>2, <1>5, <1>11
  <2>3. n \in Nat
    BY <1>2
  <2> QED
    BY <2>1, <2>2, <2>3, RecursionIn
<1>13. g[n] \in V
  BY <1>2, <1>12
<1> QED
  BY <1>1, <1>3, <1>13

(* A part of a text that is split is a text. *)
LEMMA PartTyped ==
  ASSUME NEW T, NEW parts \in Seq(Seq(T)), NEW index
  PROVE  PartAt(parts, index) = Failed \/ \E t : PartAt(parts, index) = <<"string", t>> /\ Sequence(t)
<1>1. PICK n, i : n = Len(parts) /\ i = IF index < 0 THEN index + n ELSE index
  OBVIOUS
<1>2. n \in Nat /\ \A k \in 1..n : parts[k] \in Seq(T)
  BY <1>1
<1>3. CASE i \in 0..(n - 1)
  <2>1. PICK t : t = parts[i + 1]
    OBVIOUS
  <2>2. i + 1 \in 1..n
    BY <1>2, <1>3
  <2>3. Sequence(t)
    BY <1>2, <2>1, <2>2, SeqSequence
  <2>4. PartAt(parts, index) = <<"string", t>>
    BY <1>1, <1>3, <2>1 DEF PartAt
  <2> QED
    BY <2>3, <2>4
<1>4. CASE i \notin 0..(n - 1)
  BY <1>1, <1>4 DEF PartAt
<1> QED
  BY <1>3, <1>4

(* What is cut out of a text is a text. *)
LEMMA CutText ==
  ASSUME NEW text, Sequence(text), NEW m \in Int, NEW n \in Int, m >= 1, n <= Len(text)
  PROVE  Sequence(SubSeq(text, m, n))
<1>1. PICK S : S = ToSet(text)
  OBVIOUS
<1>2. text \in Seq(S)
  BY <1>1 DEF Sequence
<1>3. \A i \in m..n : text[i] \in S
  BY <1>2
<1>4. SubSeq(text, m, n) \in Seq(S)
  BY <1>3, SubSeqProperties
<1> QED
  BY <1>4, SeqSequence

(* What trimming leaves is a text. *)
LEMMA TrimText ==
  ASSUME NEW text, Sequence(text), NEW cutset
  PROVE  Sequence(Trim(text, cutset))
<1>1. PICK n, inside : n = Len(text) /\ inside = {i \in 1..n : text[i] \notin cutset}
  OBVIOUS
<1>2. n \in Nat
  BY <1>1, SequenceLen
<1>3. CASE inside = {}
  BY <1>1, <1>3, ShortSequence DEF Trim
<1>4. CASE inside # {}
  <2>1. inside \subseteq Nat /\ inside \subseteq Int /\ inside \subseteq 1..n
    BY <1>1, <1>2
  <2>2. PICK a \in inside : \A j \in inside : a <= j
    BY <1>4, <2>1, LeastOf
  <2>3. Min(inside) = a
    BY <2>1, <2>2, MinIs
  <2>4. IsFiniteSet(inside)
    <3>1. IsFiniteSet(1..n)
      BY <1>2, FirstNumbers
    <3> QED
      BY <2>1, <3>1, FS_Subset
  <2>5. PICK b \in inside : \A j \in inside : j <= b
    BY <1>4, <2>1, <2>4, GreatestOf
  <2>6. Max(inside) = b
    BY <2>1, <2>5, MaxIs
  <2>7. a \in Int /\ b \in Int /\ a >= 1 /\ b <= Len(text)
    BY <1>1, <1>2, <2>1
  <2>8. Sequence(SubSeq(text, a, b))
    BY <2>7, CutText
  <2> QED
    BY <1>1, <1>4, <2>3, <2>6, <2>8 DEF Trim
<1> QED
  BY <1>3, <1>4

(* clampSliceIndex: a clamped index is a position in the text. *)
LEMMA ClampIn ==
  ASSUME NEW index \in Int, NEW n \in Nat
  PROVE  ClampSliceIndex(index, n) \in 0..n
BY DEF ClampSliceIndex

(* A slice is a text, whatever its indices. *)
LEMMA SliceText ==
  ASSUME NEW s, s.start \in Int, s.end # Absent => s.end[2] \in Int, NEW text, Sequence(text)
  PROVE  WellTyped(SliceField(s, text))
<1>1. PICK n, a, b : /\ n = Len(text) /\ a = ClampSliceIndex(s.start, n)
                     /\ b = IF s.end = Absent THEN n ELSE ClampSliceIndex(s.end[2], n)
  OBVIOUS
<1>2. n \in Nat
  BY <1>1, SequenceLen
<1>3. a \in 0..n
  BY <1>1, <1>2, ClampIn
<1>4. b \in 0..n
  <2>1. CASE s.end = Absent
    BY <1>1, <1>2, <2>1
  <2>2. CASE s.end # Absent
    <3>1. PICK k : k = s.end[2]
      OBVIOUS
    <3>2. k \in Int
      BY <2>2, <3>1
    <3>3. ClampSliceIndex(k, n) \in 0..n
      BY <1>2, <3>2, ClampIn
    <3> QED
      BY <1>1, <2>2, <3>1, <3>3
  <2> QED
    BY <2>1, <2>2
<1>5. PICK m : m = a + 1
  OBVIOUS
<1>6. m \in Int /\ b \in Int /\ m >= 1 /\ b <= Len(text)
  BY <1>1, <1>2, <1>3, <1>4, <1>5
<1>7. Sequence(SubSeq(text, m, b))
  BY <1>6, CutText
<1>8. SliceField(s, text) = <<"string", SubSeq(text, m, b)>>
  BY <1>1, <1>5 DEF SliceField
<1> QED
  BY <1>7, <1>8, TextTyped

(* A text that is required is one, or there is a failure. *)
LEMMA RequiredText ==
  ASSUME NEW f, WellFields(f), NEW path, Path(path)
  PROVE  LET text == RequireString(f, path) IN text = Failed \/ (text # Failed /\ Sequence(text[2]))
<1>1. PICK v : v = Lookup(f, path)
  OBVIOUS
<1>2. WellTyped(v)
  BY <1>1, LookupTyped
<1>3. RequireString(f, path) = IF TypeOf(v) = "string" THEN v ELSE Failed
  BY <1>1 DEF RequireString
<1>4. CASE TypeOf(v) = "string"
  <2>1. Sequence(v[2])
    BY <1>2, <1>4 DEF WellTyped
  <2> QED
    BY <1>3, <1>4, <2>1
<1>5. CASE TypeOf(v) # "string"
  BY <1>3, <1>5
<1> QED
  BY <1>4, <1>5

(* What is concatenated. *)
TypedPart(part) == IF part[1] = "literal" THEN Sequence(part[2]) ELSE Path(part[2])
PartText(f, part) == IF part[1] = "literal" THEN <<"string", part[2]>> ELSE RequireString(f, part[2])

(* A part is a text, or there is a failure. *)
LEMMA PartTexts ==
  ASSUME NEW f, WellFields(f), NEW part, TypedPart(part)
  PROVE  PartText(f, part) = Failed \/ Sequence(PartText(f, part)[2])
<1>1. CASE part[1] = "literal"
  <2>1. PartText(f, part)[2] = part[2] /\ Sequence(part[2])
    BY <1>1 DEF PartText, TypedPart
  <2> QED
    BY <2>1
<1>2. CASE part[1] # "literal"
  <2>1. PICK p, r : p = part[2] /\ r = RequireString(f, p)
    OBVIOUS
  <2>2. Path(p) /\ PartText(f, part) = r
    BY <1>2, <2>1 DEF PartText, TypedPart
  <2>3. r = Failed \/ Sequence(r[2])
    BY <2>1, <2>2, RequiredText
  <2> QED
    BY <2>2, <2>3
<1> QED
  BY <1>1, <1>2

(* The recursion of ConcatFields. *)
Concats(s, f, g) ==
  g = [i \in 0..Len(s.parts) |-> IF i = 0 THEN <<"string", <<>>>> ELSE ConcatPart(f, g[i - 1], s.parts[i])]

(* The concatenation of parts is a text or a failure. *)
LEMMA ConcatTyped ==
  ASSUME NEW f, WellFields(f), NEW s, Sequence(s.parts), \A i \in DOMAIN s.parts : TypedPart(s.parts[i])
  PROVE  WellTyped(ConcatFields(s, f))
<1>1. PICK p, n, T, b, V, g : /\ p = s.parts /\ n = Len(p) /\ T = UNION {ToSet(PartText(f, p[i])[2]) : i \in 1..n}
                              /\ b = <<"string", <<>>>> /\ V = {Failed} \cup {<<"string", t>> : t \in Seq(T)}
                              /\ g = CHOOSE x : Concats(s, f, x)
  OBVIOUS
<1>2. n \in Nat /\ \A k \in 1..n : TypedPart(p[k])
  BY <1>1, SequenceLen
<1>3. ConcatFields(s, f) = g[n]
  BY <1>1 DEF ConcatFields, Concats
<1>4. b \in V
  <2>1. <<>> \in Seq(T)
    BY EmptySeq
  <2> QED
    BY <1>1, <2>1
<1>5. ASSUME NEW k \in 1..n, NEW v \in V PROVE ConcatPart(f, v, p[k]) \in V
  <2>1. PICK t : t = PartText(f, p[k])
    OBVIOUS
  <2>2. ConcatPart(f, v, p[k]) = IF Failed \in {v, t} THEN Failed ELSE <<"string", v[2] \o t[2]>>
    BY <2>1 DEF ConcatPart, PartText
  <2>3. CASE Failed \in {v, t}
    BY <1>1, <2>2, <2>3
  <2>4. CASE Failed \notin {v, t}
    <3>1. PICK u, w : u = v[2] /\ w = t[2]
      OBVIOUS
    <3>2. u \in Seq(T)
      BY <1>1, <2>4, <3>1
    <3>3. w \in Seq(T)
      <4>1. Sequence(w)
        BY <1>2, <2>1, <2>4, <3>1, PartTexts
      <4>2. PICK S : S = ToSet(w)
        OBVIOUS
      <4>3. w \in Seq(S) /\ S \subseteq T
        BY <1>1, <2>1, <3>1, <4>1, <4>2 DEF Sequence
      <4> QED
        BY <4>3, SeqMonotonic
    <3>4. u \o w \in Seq(T)
      BY <3>2, <3>3, ConcatProperties
    <3> QED
      BY <1>1, <2>2, <2>4, <3>1, <3>4
  <2> QED
    BY <2>3, <2>4
<1>6. PICK F : F = [k \in 1..n |-> [v \in V |-> ConcatPart(f, v, p[k])]]
  OBVIOUS
<1>7. \A k \in 1..n : \A v \in V : F[k][v] = ConcatPart(f, v, p[k]) /\ F[k][v] \in V
  BY <1>5, <1>6
<1>8. PICK h : StepByStep(n, V, b, F, h)
  <2>1. n \in Nat /\ b \in V
    BY <1>2, <1>4
  <2>2. \A k \in 1..n : \A v \in V : F[k][v] \in V
    BY <1>7
  <2> QED
    BY <2>1, <2>2, Recursion
<1>9. Concats(s, f, h)
  <2>1. h \in [0..n -> V] /\ h[0] = b /\ \A k \in 1..n : h[k] = F[k][h[k - 1]]
    BY <1>8 DEF StepByStep
  <2>2. ASSUME NEW i \in 0..n PROVE h[i] = IF i = 0 THEN b ELSE ConcatPart(f, h[i - 1], p[i])
    <3>1. CASE i = 0
      BY <2>1, <3>1
    <3>2. CASE i # 0
      <4>1. i \in 1..n /\ i - 1 \in 0..n
        BY <1>2, <3>2
      <4> QED
        BY <1>7, <2>1, <3>2, <4>1
    <3> QED
      BY <3>1, <3>2
  <2>3. h = [i \in 0..n |-> IF i = 0 THEN b ELSE ConcatPart(f, h[i - 1], p[i])]
    BY <2>1, <2>2
  <2> QED
    BY <1>1, <2>3 DEF Concats
<1>10. Concats(s, f, g)
  BY <1>1, <1>9
<1>11. g[0] = b /\ \A k \in 1..n : g[k] = ConcatPart(f, g[k - 1], p[k])
  <2>1. g = [i \in 0..n |-> IF i = 0 THEN b ELSE ConcatPart(f, g[i - 1], p[i])]
    BY <1>1, <1>10 DEF Concats
  <2> QED
    BY <1>2, <2>1
<1>12. \A k \in 0..n : g[k] \in V
  <2>1. g[0] \in V
    BY <1>4, <1>11
  <2>2. \A k \in 1..n : g[k - 1] \in V => g[k] \in V
    BY <1>2, <1>5, <1>11
  <2>3. n \in Nat
    BY <1>2
  <2> QED
    BY <2>1, <2>2, <2>3, RecursionIn
<1>13. g[n] \in V
  BY <1>2, <1>12
<1>14. \A t \in Seq(T) : WellTyped(<<"string", t>>)
  BY SeqSequence, TextTyped
<1>15. \A v \in V : WellTyped(v)
  BY <1>1, <1>14, AbsentTyped
<1> QED
  BY <1>3, <1>13, <1>15

-----------------------------------------------------------------------------
(* The steps leave fields that are what their types say.                    *)

(* A parse state whose fields are what their types say. *)
WellState(st) ==
  /\ st = State(st.data, st.subject, st.fields, st.errors)
  /\ Decodable(st.data) /\ Sequence(st.subject) /\ WellFields(st.fields)

(* A state made of such parts. *)
LEMMA WellStateOf ==
  ASSUME NEW d, Decodable(d), NEW j, Sequence(j), NEW f, WellFields(f), NEW e
  PROVE  WellState(State(d, j, f, e))
<1>1. PICK st : st = State(d, j, f, e)
  OBVIOUS
<1>2. st.data = d /\ st.subject = j /\ st.fields = f /\ st.errors = e
  BY <1>1, StateOf
<1>3. WellState(st)
  BY <1>1, <1>2 DEF WellState
<1> QED
  BY <1>1, <1>3

(* A well-typed field can be set, *)
LEMMA PutWell ==
  ASSUME NEW st, WellState(st), NEW target, NEW v, WellTyped(v)
  PROVE  WellState(Put(st, target, v))
<1>1. PICK d, j, f, e : d = st.data /\ j = st.subject /\ f = st.fields /\ e = st.errors
  OBVIOUS
<1>2. st = State(d, j, f, e) /\ Decodable(d) /\ Sequence(j) /\ WellFields(f)
  BY <1>1 DEF WellState
<1>3. Put(st, target, v) = State(d, j, With(f, target, v), e)
  BY <1>2, PutState
<1>4. WellFields(With(f, target, v))
  BY <1>2, PutFields
<1> QED
  BY <1>2, <1>3, <1>4, WellStateOf

(* or several at once. *)
LEMMA PutAllWell ==
  ASSUME NEW st, WellState(st), NEW g, WellFields(g)
  PROVE  WellState(PutAll(st, g))
<1>1. PICK d, j, f, e : d = st.data /\ j = st.subject /\ f = st.fields /\ e = st.errors
  OBVIOUS
<1>2. st = State(d, j, f, e) /\ Decodable(d) /\ Sequence(j) /\ WellFields(f)
  BY <1>1 DEF WellState
<1>3. PutAll(st, g) = State(d, j, Overlay(f, g), e)
  BY <1>2, PutAllState
<1>4. WellFields(Overlay(f, g))
  BY <1>2, PutAllFields
<1> QED
  BY <1>2, <1>3, <1>4, WellStateOf

(* A step returns the state it is given, with its verdict. *)
LEMMA OkErrState ==
  ASSUME NEW st
  PROVE  Ok(st).st = st /\ Err(st).st = st
BY DEF Ok, Err

(* A value that is stored, or refused. *)
LEMMA StoreWell ==
  ASSUME NEW st, WellState(st), NEW target, NEW v, WellTyped(v)
  PROVE  WellState(Store(st, target, v).st)
<1>1. CASE TypeOf(v) \in {"absent", "failed"}
  <2>1. Store(st, target, v) = Err(st)
    BY <1>1 DEF Store
  <2> QED
    BY <2>1, OkErrState
<1>2. CASE TypeOf(v) \notin {"absent", "failed"}
  <2>1. Store(st, target, v) = Ok(Put(st, target, v))
    BY <1>2 DEF Store
  <2>2. WellState(Put(st, target, v))
    BY PutWell
  <2> QED
    BY <2>1, <2>2, OkErrState
<1> QED
  BY <1>1, <1>2

(* The payload of a gzip is decodable in its turn. *)
LEMMA DecompressWell ==
  ASSUME NEW s, NEW st, WellState(st)
  PROVE  WellState(Decompress(s, st).st)
<1>1. CASE st.data.kind = "gzip"
  <2>1. PICK d, j, f, e : d = st.data /\ j = st.subject /\ f = st.fields /\ e = st.errors
    OBVIOUS
  <2>2. st = State(d, j, f, e) /\ Decodable(d) /\ Sequence(j) /\ WellFields(f)
    BY <2>1 DEF WellState
  <2>3. PICK i, v : i = d.fields.inner /\ v = <<"bytes", i>>
    OBVIOUS
  <2>4. v \in Values
    BY <1>1, <2>1, <2>2, <2>3 DEF Decodable
  <2>5. WellTyped(v)
    BY <2>4, ValuesAssumption
  <2>6. v[1] = "bytes" /\ v[2] = i
    BY <2>3
  <2>7. Decodable(i)
    BY <2>5, <2>6 DEF WellTyped, TypeOf
  <2>8. [st EXCEPT !.data = @.fields.inner] = State(i, j, f, e)
    BY <2>1, <2>2, <2>3 DEF State
  <2>9. Decompress(s, st) = Ok([st EXCEPT !.data = @.fields.inner])
    BY <1>1 DEF Decompress
  <2>10. WellState(State(i, j, f, e))
    BY <2>2, <2>7, WellStateOf
  <2> QED
    BY <2>8, <2>9, <2>10, OkErrState
<1>2. CASE st.data.kind # "gzip"
  <2>1. Decompress(s, st) = Ok(st) \/ Decompress(s, st) = Err(st)
    BY <1>2 DEF Decompress
  <2> QED
    BY <2>1, OkErrState
<1> QED
  BY <1>1, <1>2

(* The fields of a JSON object are values. *)
LEMMA ParseJSONWell ==
  ASSUME NEW s, NEW st, WellState(st)
  PROVE  WellState(ParseJSON(s, st).st)
<1>1. CASE st.data.kind = "json"
  <2>1. PICK g : g = st.data.fields
    OBVIOUS
  <2>2. MapOfValues(g)
    BY <1>1, <2>1 DEF WellState, Decodable
  <2>3. WellState(PutAll(st, g))
    BY <2>2, MapFields, PutAllWell
  <2>4. ParseJSON(s, st) = Ok(PutAll(st, g))
    BY <1>1, <2>1 DEF ParseJSON
  <2> QED
    BY <2>3, <2>4, OkErrState
<1>2. CASE st.data.kind # "json"
  BY <1>2, OkErrState DEF ParseJSON
<1> QED
  BY <1>1, <1>2

(* So are those of a protobuf message, wherever its bytes are. *)
LEMMA ParseProtobufWell ==
  ASSUME NEW s, s.source = <<>> \/ Path(s.source), NEW st, WellState(st)
  PROVE  WellState(ParseProtobuf(s, st).st)
<1>1. PICK v, g : /\ v = ResolveProtoSource(s, st)
                  /\ g = IF v[2].kind = "proto" THEN v[2].fields ELSE <<>>
  OBVIOUS
<1>2. \/ TypeOf(v) # "bytes" /\ ParseProtobuf(s, st) = Err(st)
      \/ TypeOf(v) = "bytes" /\ ParseProtobuf(s, st) \in {Err(st), Ok(Put(st, s.target, <<"map", g>>)), Ok(PutAll(st, g))}
  BY <1>1 DEF ParseProtobuf
<1>3. CASE TypeOf(v) # "bytes"
  BY <1>2, <1>3, OkErrState
<1>4. CASE TypeOf(v) = "bytes"
  <2>1. Decodable(v[2])
    <3>1. CASE s.source = <<>>
      <4>1. v[2] = st.data
        BY <1>1, <3>1 DEF ResolveProtoSource
      <4> QED
        BY <4>1 DEF WellState
    <3>2. CASE s.source # <<>>
      <4>1. PICK f, p, w : f = st.fields /\ p = s.source /\ w = Lookup(f, p)
        OBVIOUS
      <4>2. WellFields(f) /\ Path(p)
        BY <3>2, <4>1 DEF WellState
      <4>3. WellTyped(w)
        BY <4>1, <4>2, LookupTyped
      <4>4. v = IF TypeOf(w) = "string" THEN <<"bytes", BytesOf(w[2])>> ELSE w
        BY <1>1, <3>2, <4>1 DEF ResolveProtoSource
      <4>5. WellTyped(v)
        BY <4>3, <4>4, BytesTyped
      <4> QED
        BY <1>4, <4>5 DEF WellTyped
    <3> QED
      BY <3>1, <3>2
  <2>2. MapOfValues(g)
    <3>1. CASE v[2].kind = "proto"
      BY <1>1, <2>1, <3>1 DEF Decodable
    <3>2. CASE v[2].kind # "proto"
      <4>1. g = <<>>
        BY <1>1, <3>2
      <4>2. DOMAIN g = {}
        BY <4>1
      <4> QED
        BY <4>2 DEF MapOfValues
    <3> QED
      BY <3>1, <3>2
  <2>3. WellState(PutAll(st, g))
    BY <2>2, MapFields, PutAllWell
  <2>4. WellTyped(<<"map", g>>)
    <3>1. PICK w : w = <<"map", g>>
      OBVIOUS
    <3>2. w[1] = "map" /\ w[2] = g
      BY <3>1
    <3>3. WellTyped(w)
      BY <2>2, <3>2 DEF WellTyped, TypeOf
    <3> QED
      BY <3>1, <3>3
  <2>5. WellState(Put(st, s.target, <<"map", g>>))
    BY <2>4, PutWell
  <2> QED
    BY <1>2, <1>4, <2>3, <2>5, OkErrState
<1> QED
  BY <1>3, <1>4

(* extract_index and extract_timestamp store a time. *)
LEMMA ExtractTimeWell ==
  ASSUME NEW s, NEW st, WellState(st)
  PROVE  WellState(ExtractTime(s, st).st)
<1>1. PICK t, f, v, w : /\ t = (IF s.step = "extract_index" THEN "$timestamp" ELSE s.target)
                        /\ f = st.fields /\ v = Field(f, s.source) /\ w = ConvertToTimestamp(v, s.format)
  OBVIOUS
<1>2. WellFields(f)
  BY <1>1 DEF WellState
<1>3. WellTyped(v)
  BY <1>1, <1>2, FieldTyped
<1>4. WellTyped(w)
  BY <1>1, <1>3, TimeTyped
<1>5. ExtractTime(s, st) = Store(st, t, w)
  BY <1>1 DEF ExtractTime
<1> QED
  BY <1>4, <1>5, StoreWell

(* extract_field stores what convertFieldValue makes. *)
LEMMA ExtractFieldWell ==
  ASSUME NEW s, Path(s.source), NEW st, WellState(st)
  PROVE  WellState(ExtractField(s, st).st)
<1>1. PICK f, p, v, w, r : /\ f = st.fields /\ p = s.source /\ v = Lookup(f, p) /\ w = ConvertFieldValue(v, s.type)
                           /\ r = Store(st, s.target, w)
  OBVIOUS
<1>2. WellFields(f) /\ Path(p)
  BY <1>1 DEF WellState
<1>3. WellTyped(v)
  BY <1>1, <1>2, LookupTyped
<1>4. WellTyped(w)
  BY <1>1, <1>3, ConvertTyped
<1>5. WellState(r.st)
  BY <1>1, <1>4, StoreWell
<1>6. ExtractField(s, st) = Ok(r.st) \/ ExtractField(s, st) = r
  BY <1>1 DEF ExtractField
<1> QED
  BY <1>5, <1>6, OkErrState

(* safe_parse_number stores a number or a null. *)
LEMMA SafeParseNumberWell ==
  ASSUME NEW s, Path(s.source), NEW st, WellState(st)
  PROVE  WellState(SafeParseNumber(s, st).st)
<1>1. PICK f, p, v, w, r : /\ f = st.fields /\ p = s.source /\ v = Lookup(f, p) /\ w = ConvertFieldValue(v, "float64")
                           /\ r = Store(st, s.target, w)
  OBVIOUS
<1>2. WellFields(f) /\ Path(p)
  BY <1>1 DEF WellState
<1>3. WellTyped(v)
  BY <1>1, <1>2, LookupTyped
<1>4. WellTyped(w)
  BY <1>1, <1>3, ConvertTyped
<1>5. WellState(r.st)
  BY <1>1, <1>4, StoreWell
<1>6. SafeParseNumber(s, st) \in {Ok(r.st), r, Ok(Put(st, s.target, Nil))}
  BY <1>1 DEF SafeParseNumber
<1>7. WellState(Put(st, s.target, Nil))
  BY AbsentTyped, PutWell
<1> QED
  BY <1>5, <1>6, <1>7, OkErrState

(* The least key of a map is one of its keys. *)
LEMMA LexFirstIn ==
  ASSUME NEW K, K \subseteq ToSet(SortedKeys), K # {}
  PROVE  LexFirst(K) \in K
<1>1. PICK n, I : n = Len(SortedKeys) /\ I = {i \in 1..n : SortedKeys[i] \in K}
  OBVIOUS
<1>2. n \in Nat /\ DOMAIN SortedKeys = 1..n
  BY <1>1, ValuesAssumption, SequenceLen
<1>3. I # {}
  BY <1>1, <1>2 DEF ToSet
<1>4. I \subseteq Nat /\ I \subseteq Int
  BY <1>1, <1>2
<1>5. PICK i \in I : \A j \in I : i <= j
  BY <1>3, <1>4, LeastOf
<1>6. Min(I) = i
  BY <1>4, <1>5, MinIs
<1>7. LexFirst(K) = SortedKeys[i]
  BY <1>1, <1>6 DEF LexFirst
<1> QED
  BY <1>1, <1>5, <1>7

(* A key is an integer or a text. *)
LEMMA KeyTyped ==
  ASSUME NEW key
  PROVE  WellTyped(CoerceMapKey(key))
<1>1. CASE key \in DOMAIN KeyNumbers
  <2>1. CoerceMapKey(key) = <<"int64", KeyNumbers[key]>>
    BY <1>1 DEF CoerceMapKey
  <2> QED
    BY <2>1, NumberTyped
<1>2. CASE key \notin DOMAIN KeyNumbers
  <2>1. PICK x : x = <<"name", 10 + SelectInSeq(SortedKeys, LAMBDA k : k = key)>>
    OBVIOUS
  <2>2. CoerceMapKey(key) = <<"string", <<x>>>>
    BY <1>2, <2>1 DEF CoerceMapKey
  <2> QED
    BY <2>2, ShortSequence, TextTyped
<1> QED
  BY <1>1, <1>2

(* extract_map_entry stores a key of the map and its value. *)
LEMMA ExtractMapEntryWell ==
  ASSUME NEW s, Path(s.source), NEW st, WellState(st)
  PROVE  WellState(ExtractMapEntry(s, st).st)
<1>1. PICK f, p, v, key : /\ f = st.fields /\ p = s.source /\ v = Lookup(f, p)
                          /\ key = LexFirst(DOMAIN v[2])
  OBVIOUS
<1>2. WellFields(f) /\ Path(p)
  BY <1>1 DEF WellState
<1>3. WellTyped(v)
  BY <1>1, <1>2, LookupTyped
<1>4. \/ ExtractMapEntry(s, st) = Err(st)
      \/ /\ TypeOf(v) = "map" /\ DOMAIN v[2] # {}
         /\ ExtractMapEntry(s, st) = Ok(Put(Put(st, s.key_target, CoerceMapKey(key)), s.value_target, v[2][key]))
  BY <1>1 DEF ExtractMapEntry
<1>5. CASE TypeOf(v) = "map" /\ DOMAIN v[2] # {}
  <2>1. PICK K : K = DOMAIN v[2]
    OBVIOUS
  <2>2. MapOfValues(v[2])
    BY <1>3, <1>5 DEF WellTyped
  <2>3. K \subseteq ToSet(SortedKeys) /\ K # {}
    BY <1>5, <2>1, <2>2 DEF MapOfValues
  <2>4. key \in K
    BY <1>1, <2>1, <2>3, LexFirstIn
  <2>5. WellTyped(v[2][key])
    BY <2>1, <2>2, <2>4, ValuesAssumption DEF MapOfValues
  <2>6. PICK r : r = Put(st, s.key_target, CoerceMapKey(key))
    OBVIOUS
  <2>7. WellState(r)
    BY <2>6, KeyTyped, PutWell
  <2>8. WellState(Put(r, s.value_target, v[2][key]))
    BY <2>5, <2>7, PutWell
  <2> QED
    BY <1>4, <2>6, <2>8, OkErrState
<1>6. CASE ~(TypeOf(v) = "map" /\ DOMAIN v[2] # {})
  BY <1>4, <1>6, OkErrState
<1> QED
  BY <1>5, <1>6

(* extract_subject stores a text. *)
LEMMA ExtractSubjectWell ==
  ASSUME NEW s, NEW st, WellState(st)
  PROVE  WellState(ExtractSubject(s, st).st)
<1>1. PICK j, v, w : /\ j = st.subject
                     /\ v = IF s.segment = Absent THEN <<"string", j>> ELSE PartAt(Split(j, Dot), s.segment[2])
                     /\ w = IF v = Failed THEN Failed ELSE <<"string", Trim(v[2], s.trim)>>
  OBVIOUS
<1>2. Sequence(j)
  BY <1>1 DEF WellState
<1>3. v = Failed \/ Sequence(v[2])
  <2>1. CASE s.segment = Absent
    <3>1. v[2] = j
      BY <1>1, <2>1
    <3> QED
      BY <1>2, <3>1
  <2>2. CASE s.segment # Absent
    <3>1. PICK T, parts, i : T = ToSet(j) /\ parts = Split(j, Dot) /\ i = s.segment[2]
      OBVIOUS
    <3>2. parts \in Seq(Seq(T))
      BY <1>2, <3>1, SplitTyped
    <3>3. v = Failed \/ \E t : v = <<"string", t>> /\ Sequence(t)
      BY <1>1, <2>2, <3>1, <3>2, PartTyped
    <3> QED
      BY <3>3
  <2> QED
    BY <2>1, <2>2
<1>4. WellTyped(w)
  <2>1. CASE v = Failed
    BY <1>1, <2>1, AbsentTyped
  <2>2. CASE v # Failed
    <3>1. Sequence(Trim(v[2], s.trim))
      BY <1>3, <2>2, TrimText
    <3> QED
      BY <1>1, <2>2, <3>1, TextTyped
  <2> QED
    BY <2>1, <2>2
<1>5. ExtractSubject(s, st) = Store(st, s.target, w)
  BY <1>1 DEF ExtractSubject
<1> QED
  BY <1>4, <1>5, StoreWell

(* A text with one token more. *)
LEMMA AppendText ==
  ASSUME NEW t, Sequence(t), NEW x
  PROVE  Sequence(Append(t, x))
<1>1. PICK S : S = ToSet(t) \cup {x}
  OBVIOUS
<1>2. t \in Seq(ToSet(t))
  BY DEF Sequence
<1>3. t \in Seq(S)
  <2>1. ToSet(t) \subseteq S
    BY <1>1
  <2>2. PICK T : T = ToSet(t)
    OBVIOUS
  <2> QED
    BY <1>2, <2>1, <2>2
<1>4. Append(t, x) \in Seq(S)
  BY <1>1, <1>3, AppendProperties
<1> QED
  BY <1>4, SeqSequence

(* extract_table stores a terminated name. *)
LEMMA ExtractTableWell ==
  ASSUME NEW s, WellTyped(s.value), NEW st, WellState(st)
  PROVE  WellState(ExtractTable(s, st).st)
<1>1. PICK f, p, v : /\ f = st.fields /\ p = (IF s.source = <<>> THEN <<"$table">> ELSE s.source)
                     /\ v = IF s.value # Absent THEN s.value ELSE Field(f, p)
  OBVIOUS
<1>2. WellFields(f)
  BY <1>1 DEF WellState
<1>3. WellTyped(v)
  BY <1>1, <1>2, FieldTyped
<1>4. \/ ExtractTable(s, st) = Err(st)
      \/ TypeOf(v) = "string" /\ ExtractTable(s, st) = Ok(Put(st, "$table", <<"string", Append(v[2], Nul)>>))
  BY <1>1 DEF ExtractTable
<1>5. CASE TypeOf(v) = "string"
  <2>1. Sequence(v[2])
    BY <1>3, <1>5 DEF WellTyped
  <2>2. WellTyped(<<"string", Append(v[2], Nul)>>)
    BY <2>1, AppendText, TextTyped
  <2>3. WellState(Put(st, "$table", <<"string", Append(v[2], Nul)>>))
    BY <2>2, PutWell
  <2> QED
    BY <1>4, <2>3, OkErrState
<1>6. CASE TypeOf(v) # "string"
  BY <1>4, <1>6, OkErrState
<1> QED
  BY <1>5, <1>6

(* split, slice and hash make texts of texts. *)
LEMMA ComputeTexts ==
  ASSUME NEW s, s.operation \in {"split", "slice", "hash"},
         s.operation = "slice" => s.start \in Int /\ (s.end # Absent => s.end[2] \in Int),
         NEW text, text = Failed \/ Sequence(text[2])
  PROVE  WellTyped(IF text = Failed THEN Failed
                   ELSE CASE s.operation = "split" -> SplitField(s, text[2])
                          [] s.operation = "slice" -> SliceField(s, text[2])
                          [] s.operation = "hash" -> HashField(text[2]))
<1>1. PICK w : w = IF text = Failed THEN Failed
                   ELSE CASE s.operation = "split" -> SplitField(s, text[2])
                          [] s.operation = "slice" -> SliceField(s, text[2])
                          [] s.operation = "hash" -> HashField(text[2])
  OBVIOUS
<1>2. CASE text = Failed
  BY <1>1, <1>2, AbsentTyped
<1>3. CASE text # Failed
  <2>1. Sequence(text[2])
    BY <1>3
  <2>2. CASE s.operation = "split"
    <3>1. w = SplitField(s, text[2])
      BY <1>1, <1>3, <2>2
    <3>2. PICK T, parts, i, t : T = ToSet(t) /\ parts = Split(t, s.separator) /\ i = s.index /\ t = text[2]
      OBVIOUS
    <3>3. parts \in Seq(Seq(T))
      BY <2>1, <3>2, SplitTyped
    <3>4. w = PartAt(parts, i)
      BY <3>1, <3>2 DEF SplitField
    <3>5. w = Failed \/ \E x : w = <<"string", x>> /\ Sequence(x)
      BY <3>3, <3>4, PartTyped
    <3>6. WellTyped(w)
      BY <3>5, AbsentTyped, TextTyped
    <3> QED
      BY <1>1, <3>6
  <2>3. CASE s.operation = "slice"
    <3>1. w = SliceField(s, text[2])
      BY <1>1, <1>3, <2>3
    <3>2. s.start \in Int /\ (s.end # Absent => s.end[2] \in Int)
      BY <2>3
    <3>3. WellTyped(w)
      BY <2>1, <3>1, <3>2, SliceText
    <3> QED
      BY <1>1, <3>3
  <2>4. CASE s.operation = "hash"
    <3>1. w = HashField(text[2])
      BY <1>1, <1>3, <2>4
    <3>2. PICK x : x = <<"hash", text[2]>>
      OBVIOUS
    <3>3. w = <<"string", <<x>>>>
      BY <3>1, <3>2 DEF HashField
    <3>4. WellTyped(w)
      BY <3>3, ShortSequence, TextTyped
    <3> QED
      BY <1>1, <3>4
  <2> QED
    BY <2>2, <2>3, <2>4
<1> QED
  BY <1>2, <1>3

(* str makes a text or fails. *)
LEMMA StrTyped ==
  ASSUME NEW v, WellTyped(v)
  PROVE  WellTyped(StrField(v))
<1>1. WellTyped(<<"string", Formatted(v)>>)
  BY FormattedText, TextTyped
<1> QED
  BY <1>1, AbsentTyped DEF StrField

(* compute_field stores a text. *)
LEMMA ComputeFieldWell ==
  ASSUME NEW s, s.step = "compute_field", TypedOptions(s), MakeComputeField(s), NEW st, WellState(st)
  PROVE  WellState(ComputeField(s, st).st)
<1>1. PICK f, p, text, w :
        /\ f = st.fields /\ p = s.source /\ text = RequireString(f, p)
        /\ w = CASE s.operation = "concat" -> ConcatFields(s, f)
                 [] s.operation = "str" -> StrField(Lookup(f, p))
                 [] s.operation \in {"split", "slice", "hash"} ->
                      IF text = Failed THEN Failed
                      ELSE CASE s.operation = "split" -> SplitField(s, text[2])
                             [] s.operation = "slice" -> SliceField(s, text[2])
                             [] s.operation = "hash" -> HashField(text[2])
  OBVIOUS
<1>2. WellFields(f)
  BY <1>1 DEF WellState
<1>3. s.operation \in {"concat", "split", "hash", "slice", "str"}
  BY DEF MakeComputeField
<1>4. /\ s.operation # "concat" => Path(p)
      /\ s.operation = "concat" => Sequence(s.parts) /\ \A i \in DOMAIN s.parts : TypedPart(s.parts[i])
      /\ s.operation = "slice" => s.start \in Int /\ (s.end # Absent => s.end[2] \in Int)
  BY <1>1 DEF TypedOptions, TypedPart
<1>5. WellTyped(w)
  <2>1. CASE s.operation = "concat"
    <3>1. w = ConcatFields(s, f)
      BY <1>1, <2>1
    <3> QED
      BY <1>2, <1>4, <2>1, <3>1, ConcatTyped
  <2>2. CASE s.operation = "str"
    <3>1. w = StrField(Lookup(f, p))
      BY <1>1, <2>2
    <3>2. Path(p)
      BY <1>4, <2>2
    <3>3. WellTyped(Lookup(f, p))
      BY <1>2, <3>2, LookupTyped
    <3> QED
      BY <3>1, <3>3, StrTyped
  <2>3. CASE s.operation \in {"split", "slice", "hash"}
    <3>1. Path(p)
      BY <1>4, <2>3
    <3>2. text = Failed \/ Sequence(text[2])
      BY <1>1, <1>2, <3>1, RequiredText
    <3>3. w = IF text = Failed THEN Failed
              ELSE CASE s.operation = "split" -> SplitField(s, text[2])
                     [] s.operation = "slice" -> SliceField(s, text[2])
                     [] s.operation = "hash" -> HashField(text[2])
      BY <1>1, <2>3
    <3>4. s.operation = "slice" => s.start \in Int /\ (s.end # Absent => s.end[2] \in Int)
      BY <1>4
    <3> QED
      BY <2>3, <3>2, <3>3, <3>4, ComputeTexts
  <2> QED
    BY <1>3, <2>1, <2>2, <2>3
<1>6. ComputeField(s, st) = Store(st, s.target, w)
  BY <1>1 DEF ComputeField
<1> QED
  BY <1>5, <1>6, StoreWell

(* A typed array is a sequence. *)
LEMMA ArrayTyped ==
  ASSUME NEW type \in {"floats", "ints"}, NEW a, Sequence(a)
  PROVE  WellTyped(<<type, a>>)
<1>1. PICK v : v = <<type, a>>
  OBVIOUS
<1>2. v[1] = type /\ v[2] = a
  BY <1>1
<1>3. WellTyped(v)
  BY <1>2 DEF WellTyped, TypeOf
<1> QED
  BY <1>1, <1>3

(* unpack stores a typed array with an element per element unpacked. *)
LEMMA UnpackWell ==
  ASSUME NEW s, Path(s.source), NEW st, WellState(st)
  PROVE  WellState(Unpack(s, st).st)
<1>1. PICK f, p, v, scale, elements, type, a :
        /\ f = st.fields /\ p = s.source /\ v = Lookup(f, p)
        /\ scale = (IF s.scale = Absent THEN <<"float64", 1>>
                    ELSE IF s.scale[1] = "source" THEN Lookup(f, s.scale[2]) ELSE s.scale)
        /\ elements = v[2].elements
        /\ type = (IF UnpackIsFloat(s) THEN "floats" ELSE "ints")
        /\ a = [i \in 1..Len(elements) |-> IF UnpackIsFloat(s) THEN elements[i] * scale[2] ELSE Wrap(elements[i])]
  OBVIOUS
<1>2. WellFields(f) /\ Path(p)
  BY <1>1 DEF WellState
<1>3. WellTyped(v)
  BY <1>1, <1>2, LookupTyped
<1>4. \/ Unpack(s, st) = Err(st)
      \/ TypeOf(v) = "bytes" /\ Unpack(s, st) = Ok(Put(st, s.target, <<type, a>>))
  BY <1>1 DEF Unpack
<1>5. CASE TypeOf(v) = "bytes"
  <2>1. Sequence(elements)
    BY <1>1, <1>3, <1>5 DEF WellTyped, Decodable
  <2>2. PICK n : n = Len(elements)
    OBVIOUS
  <2>3. n \in Nat
    BY <2>1, <2>2, SequenceLen
  <2>4. PICK T : T = {a[i] : i \in 1..n}
    OBVIOUS
  <2>5. a \in [1..n -> T]
    BY <1>1, <2>2, <2>4
  <2>6. Sequence(a)
    BY <2>3, <2>5, FunctionSequence
  <2>7. type \in {"floats", "ints"}
    BY <1>1
  <2>8. WellTyped(<<type, a>>)
    BY <2>6, <2>7, ArrayTyped
  <2>9. WellState(Put(st, s.target, <<type, a>>))
    BY <2>8, PutWell
  <2> QED
    BY <1>4, <2>9, OkErrState
<1>6. CASE TypeOf(v) # "bytes"
  BY <1>4, <1>6, OkErrState
<1> QED
  BY <1>5, <1>6

(* A step leaves fields that are what their types say. *)
LEMMA RunStepWell ==
  ASSUME NEW s, s.step \in StepRegistry, TypedOptions(s), MakeStep(s), NEW st, WellState(st)
  PROVE  WellState(RunStep(s, st).st)
<1>1. CASE s.step = "decompress"
  BY <1>1, DecompressWell DEF RunStep
<1>2. CASE s.step = "parse_json"
  BY <1>2, ParseJSONWell DEF RunStep
<1>3. CASE s.step = "parse_protobuf"
  <2>1. s.source = <<>> \/ Path(s.source)
    BY <1>3 DEF TypedOptions
  <2>2. RunStep(s, st) = ParseProtobuf(s, st)
    BY <1>3 DEF RunStep
  <2> QED
    BY <2>1, <2>2, ParseProtobufWell
<1>4. CASE s.step \in {"extract_index", "extract_timestamp"}
  BY <1>4, ExtractTimeWell DEF RunStep
<1>5. CASE s.step \in {"extract_field", "extract_map_entry", "safe_parse_number", "unpack"}
  <2>1. Path(s.source)
    BY <1>5 DEF TypedOptions
  <2>2. RunStep(s, st) \in {ExtractField(s, st), ExtractMapEntry(s, st), SafeParseNumber(s, st), Unpack(s, st)}
    BY <1>5 DEF RunStep
  <2> QED
    BY <2>1, <2>2, ExtractFieldWell, ExtractMapEntryWell, SafeParseNumberWell, UnpackWell
<1>6. CASE s.step = "extract_subject"
  BY <1>6, ExtractSubjectWell DEF RunStep
<1>7. CASE s.step = "extract_table"
  <2>1. WellTyped(s.value)
    BY <1>7 DEF TypedOptions
  <2>2. RunStep(s, st) = ExtractTable(s, st)
    BY <1>7 DEF RunStep
  <2> QED
    BY <2>1, <2>2, ExtractTableWell
<1>8. CASE s.step = "compute_field"
  <2>1. MakeComputeField(s)
    BY <1>8 DEF MakeStep
  <2>2. RunStep(s, st) = ComputeField(s, st)
    BY <1>8 DEF RunStep
  <2> QED
    BY <1>8, <2>1, <2>2, ComputeFieldWell
<1> QED
  BY <1>1, <1>2, <1>3, <1>4, <1>5, <1>6, <1>7, <1>8 DEF StepRegistry

-----------------------------------------------------------------------------
(* The tables.                                                              *)

(* The name of a table is terminated, and valid without its terminator. *)
Named(t) == Last(t.name) = Nul /\ ValidTableName(Front(t.name))

(* A valid name ends in a terminator, whether or not it already did. *)
LEMMA Terminated ==
  ASSUME NEW name, Sequence(name), ValidTableName(name),
         NEW r, r = IF Last(name) = Nul THEN name ELSE Append(name, Nul)
  PROVE  Last(r) = Nul /\ ValidTableName(Front(r))
<1>1. PICK S, n, nul : S = ToSet(name) \cup {Nul} /\ n = Len(name) /\ nul = Nul
  OBVIOUS
<1>2. name \in Seq(S)
  <2>1. PICK T : T = ToSet(name)
    OBVIOUS
  <2>2. name \in Seq(T) /\ T \subseteq S
    BY <1>1, <2>1 DEF Sequence
  <2> QED
    BY <2>2
<1>3. n \in Nat \ {0}
  <2>1. name # <<>>
    BY DEF ValidTableName
  <2> QED
    BY <1>1, <1>2, <2>1, EmptySeq
<1>4. ASSUME NEW x \in Seq(S), Len(x) >= 1, x[1] = name[1] PROVE ValidTableName(x)
  <2>1. x # <<>>
    BY <1>4
  <2> QED
    BY <1>4, <2>1 DEF ValidTableName
<1>5. nul[1] = "nul"
  BY <1>1 DEF Nul
<1>6. CASE Last(name) = Nul
  <2>1. r = name /\ name[n] = nul
    BY <1>1, <1>6 DEF Last
  <2>2. n # 1
    <3>1. name[1][1] # "nul"
      BY DEF ValidTableName
    <3> QED
      BY <1>5, <2>1, <3>1
  <2>3. PICK x : x = SubSeq(name, 1, n - 1)
    OBVIOUS
  <2>4. x \in Seq(S) /\ Len(x) = n - 1 /\ x[1] = name[1]
    BY <1>1, <1>2, <1>3, <2>2, <2>3, SubSeqProperties
  <2>5. ValidTableName(x)
    BY <1>3, <1>4, <2>2, <2>4
  <2>6. Front(r) = x
    BY <1>1, <2>1, <2>3 DEF Front
  <2> QED
    BY <1>6, <2>1, <2>5, <2>6
<1>7. CASE Last(name) # Nul
  <2>1. r = Append(name, nul) /\ nul \in S
    BY <1>1, <1>7
  <2>2. /\ r \in Seq(S) /\ Len(r) = n + 1 /\ r[n + 1] = nul
        /\ \A i \in 1..n : r[i] = name[i]
    BY <1>1, <1>2, <2>1, AppendProperties
  <2>3. PICK x : x = SubSeq(r, 1, n)
    OBVIOUS
  <2>4. x \in Seq(S) /\ Len(x) = n /\ x[1] = r[1]
    BY <1>3, <2>2, <2>3, SubSeqProperties
  <2>5. ValidTableName(x)
    BY <1>3, <1>4, <2>2, <2>4
  <2>6. Front(r) = x
    <3>1. Len(r) - 1 = n
      BY <1>3, <2>2
    <3> QED
      BY <2>3, <3>1 DEF Front
  <2>7. Last(r) = nul
    BY <2>2 DEF Last
  <2> QED
    BY <1>1, <2>5, <2>6, <2>7
<1> QED
  BY <1>6, <1>7

(* What a map's own index finds at a single key. *)
LEMMA FieldAt ==
  ASSUME NEW f, NEW key
  PROVE  Field(f, <<key>>) = IF key \in DOMAIN f THEN f[key] ELSE Absent
<1>1. PICK p : p = <<key>>
  OBVIOUS
<1>2. Len(p) = 1 /\ p[1] = key
  BY <1>1
<1> QED
  BY <1>1, <1>2 DEF Field

(* TableName: the floor and the types of the fields make a name. *)
LEMMA TableNamed ==
  ASSUME NEW c, NEW st, WellState(st), CheckStructuralFloor(c, st)
  PROVE  Last(TableName(st)) = Nul /\ ValidTableName(Front(TableName(st)))
<1>1. PICK f, key, v, name, r : /\ f = st.fields /\ key = "$table" /\ v = Field(f, <<key>>)
                                /\ name = v[2] /\ r = TableName(st)
  OBVIOUS
<1>2. TypeOf(v) = "string" /\ ValidTableName(name)
  BY <1>1 DEF CheckStructuralFloor
<1>3. v = f[key]
  <2>1. TypeOf(Absent) # "string"
    BY DEF TypeOf, Absent
  <2> QED
    BY <1>1, <1>2, <2>1, FieldAt
<1>4. WellTyped(v)
  BY <1>1, FieldTyped DEF WellState
<1>5. Sequence(name)
  BY <1>1, <1>2, <1>4 DEF WellTyped
<1>6. r = IF Last(name) = Nul THEN name ELSE Append(name, Nul)
  BY <1>1, <1>3 DEF TableName
<1>7. Last(r) = Nul /\ ValidTableName(Front(r))
  BY <1>2, <1>5, <1>6, Terminated
<1> QED
  BY <1>1, <1>7

(* The rows 1 to n, with a value in every column. *)
Shaped(c, t, n) ==
  /\ n \in Nat
  /\ t.index = [i \in 1..n |-> t.index[i]]
  /\ t.columns = [k \in DOMAIN c.columns |-> t.columns[k]]
  /\ \A k \in DOMAIN c.columns : t.columns[k] = [i \in 1..n |-> t.columns[k][i]]

(* A function on 1..n is a sequence. *)
LEMMA MadeSequence ==
  ASSUME NEW n \in Nat, NEW s, s = [i \in 1..n |-> s[i]]
  PROVE  Sequence(s) /\ Len(s) = n /\ DOMAIN s = 1..n
<1>1. PICK T : T = {s[i] : i \in 1..n}
  OBVIOUS
<1>2. s \in [1..n -> T]
  BY <1>1
<1> QED
  BY <1>2, FunctionSequence

(* Such a table has columns aligned with its index. *)
LEMMA ShapedTabular ==
  ASSUME NEW c, Sequence(c.columns), NEW t, NEW n, Shaped(c, t, n)
  PROVE  Tabular(c, t) /\ Len(t.index) = n
<1>1. PICK cs, m, x, y : cs = c.columns /\ m = Len(cs) /\ x = t.index /\ y = t.columns
  OBVIOUS
<1>2. m \in Nat /\ DOMAIN cs = 1..m
  BY <1>1, SequenceLen
<1>3. n \in Nat
  BY DEF Shaped
<1>4. Sequence(x) /\ Len(x) = n
  <2>1. x = [i \in 1..n |-> x[i]]
    BY <1>1 DEF Shaped
  <2> QED
    BY <1>3, <2>1, MadeSequence
<1>5. Sequence(y) /\ Len(y) = m
  <2>1. y = [k \in 1..m |-> y[k]]
    BY <1>1, <1>2 DEF Shaped
  <2> QED
    BY <1>2, <2>1, MadeSequence
<1>6. ASSUME NEW k \in 1..m PROVE Sequence(y[k]) /\ Len(y[k]) = n
  <2>1. PICK z : z = y[k]
    OBVIOUS
  <2>2. z = [i \in 1..n |-> z[i]]
    BY <1>1, <1>2, <2>1 DEF Shaped
  <2> QED
    BY <1>3, <2>1, <2>2, MadeSequence
<1> QED
  BY <1>1, <1>4, <1>5, <1>6 DEF Tabular

(* createWriterTable makes one row. *)
LEMMA WriterShaped ==
  ASSUME NEW c, NEW st
  PROVE  Shaped(c, CreateWriterTable(c, st), 1)
<1>1. PICK t : t = CreateWriterTable(c, st)
  OBVIOUS
<1>2. PICK x : t.index = <<x>>
  BY <1>1 DEF CreateWriterTable
<1>3. t.index = [i \in 1..1 |-> t.index[i]]
  BY <1>2
<1>4. t.columns = [k \in DOMAIN c.columns |-> Broadcast(st.fields, c.columns[k], {1})]
  BY <1>1 DEF CreateWriterTable
<1>5. ASSUME NEW f, NEW col PROVE Broadcast(f, col, {1}) = [i \in 1..1 |-> Broadcast(f, col, {1})[i]]
  BY DEF Broadcast
<1>6. \A k \in DOMAIN c.columns : t.columns[k] = [i \in 1..1 |-> t.columns[k][i]]
  BY <1>4, <1>5
<1>7. t.columns = [k \in DOMAIN c.columns |-> t.columns[k]]
  BY <1>4
<1>8. Shaped(c, t, 1)
  BY <1>3, <1>6, <1>7 DEF Shaped
<1> QED
  BY <1>1, <1>8

(* Only the columns of explode differ from row to row. *)
Broadcasts(c, t, n) ==
  \A k \in DOMAIN c.columns :
    c.columns[k].name \notin {Explode(c).target, Explode(c).ordinal} => \E x : t.columns[k] = [i \in 1..n |-> x]

(* createExplodedWriterTable makes a row per element. *)
LEMMA ExplodedShaped ==
  ASSUME NEW c, NEW st, NEW n \in Nat, NEW elements, DOMAIN elements = 1..n, elements = [i \in 1..n |-> elements[i]],
         NEW start, NEW interval, NEW t, t = CreateExplodedWriterTable(c, st, elements, start, interval)
  PROVE  Shaped(c, t, n) /\ Broadcasts(c, t, n)
<1>1. PICK e, rows, f : e = Explode(c) /\ rows = DOMAIN elements /\ f = st.fields
  OBVIOUS
<1>2. rows = 1..n
  BY <1>1
<1>3. t.index = [i \in 1..n |-> start + Wrap((i - 1) * interval)]
  BY <1>1, <1>2 DEF CreateExplodedWriterTable, BuildExplodedIndex
<1>4. t.columns = [k \in DOMAIN c.columns |->
                     IF c.columns[k].name = e.target THEN elements
                     ELSE IF c.columns[k].name = e.ordinal THEN [i \in rows |-> <<"int64", i - 1>>]
                     ELSE Broadcast(f, c.columns[k], rows)]
  BY <1>1 DEF CreateExplodedWriterTable
<1>5. ASSUME NEW col PROVE \E x : Broadcast(f, col, rows) = [i \in 1..n |-> x]
  <2>1. PICK v, x : v = Field(f, <<col.name>>) /\ x = IF TypeOf(v) = GoType(col.type) THEN v ELSE NullOf(col.type)
    OBVIOUS
  <2>2. Broadcast(f, col, rows) = [i \in 1..n |-> x]
    BY <1>2, <2>1 DEF Broadcast
  <2> QED
    BY <2>2
<1>6. ASSUME NEW k \in DOMAIN c.columns
      PROVE  /\ t.columns[k] = [i \in 1..n |-> t.columns[k][i]]
             /\ c.columns[k].name \notin {e.target, e.ordinal} => \E x : t.columns[k] = [i \in 1..n |-> x]
  <2>1. PICK col, y : col = c.columns[k] /\ y = t.columns[k]
    OBVIOUS
  <2>2. CASE col.name = e.target
    <3>1. y = elements
      BY <1>4, <2>1, <2>2
    <3> QED
      BY <2>1, <2>2, <3>1
  <2>3. CASE col.name # e.target /\ col.name = e.ordinal
    <3>1. y = [i \in rows |-> <<"int64", i - 1>>]
      BY <1>4, <2>1, <2>3
    <3>2. y = [i \in 1..n |-> y[i]]
      BY <1>2, <3>1
    <3> QED
      BY <2>1, <2>3, <3>2
  <2>4. CASE col.name # e.target /\ col.name # e.ordinal
    <3>1. y = Broadcast(f, col, rows)
      BY <1>4, <2>1, <2>4
    <3>2. PICK x : y = [i \in 1..n |-> x]
      BY <1>5, <3>1
    <3>3. y = [i \in 1..n |-> y[i]]
      BY <3>2
    <3> QED
      BY <2>1, <3>2, <3>3
  <2> QED
    BY <2>2, <2>3, <2>4
<1>7. t.columns = [k \in DOMAIN c.columns |-> t.columns[k]]
  BY <1>4
<1>8. t.index = [i \in 1..n |-> t.index[i]]
  BY <1>3
<1>9. Shaped(c, t, n)
  BY <1>6, <1>7, <1>8 DEF Shaped
<1>10. Broadcasts(c, t, n)
  BY <1>1, <1>6 DEF Broadcasts
<1> QED
  BY <1>9, <1>10

(* The columns a filter may name. *)
LEMMA FilteredColumns ==
  ASSUME NEW c, NewFilter(c), HasExplode(c), NEW entry \in ToSet(c.filters.match)
  PROVE  entry.column \notin {Explode(c).target, Explode(c).ordinal}
<1>1. c.filters.match # <<>>
  <2>1. ToSet(<<>>) = {}
    BY DEF ToSet
  <2> QED
    BY <2>1
<1>2. entry.column \notin ExplodedColumnNames(c)
  BY <1>1 DEF NewFilter
<1> QED
  BY <1>2 DEF ExplodedColumnNames

(* A filter cannot tell the rows of an array apart: it names no such column. *)
LEMMA ExplodedUniform ==
  ASSUME NEW c, Sequence(c.columns), NewFilter(c), HasExplode(c), NEW t, NEW n \in Nat, Len(t.index) = n, Broadcasts(c, t, n)
  PROVE  Uniform(c, t)
<1>1. PICK m : m = Len(c.columns)
  OBVIOUS
<1>2. DOMAIN c.columns = 1..m
  BY <1>1, SequenceLen
<1>3. ASSUME NEW row \in 1..n PROVE Keeps(c, t, row) = Keeps(c, t, 1)
  <2>1. ASSUME NEW entry \in ToSet(c.filters.match), NEW i \in 1..m, c.columns[i].name = entry.column
        PROVE  t.columns[i][row] = t.columns[i][1]
    <3>1. c.columns[i].name \notin {Explode(c).target, Explode(c).ordinal}
      BY <2>1, FilteredColumns
    <3>2. PICK x : t.columns[i] = [j \in 1..n |-> x]
      BY <1>2, <3>1 DEF Broadcasts
    <3>3. 1 \in 1..n
      BY <1>3
    <3> QED
      BY <3>2, <3>3
  <2>2. RowMatches(c, t, row) = RowMatches(c, t, 1)
    BY <1>1, <2>1 DEF RowMatches
  <2> QED
    BY <2>2 DEF Keeps
<1> QED
  BY <1>3 DEF Uniform

(* What can be written: a terminated name, a value per column and row, and   *)
(* rows that pass the filter together or not at all.                         *)
Writable(c, t) == Named(t) /\ Tabular(c, t) /\ Uniform(c, t)

(* The table of a message that is one row. *)
LEMMA WriterWritable ==
  ASSUME NEW c, Sequence(c.columns), NEW st, WellState(st), CheckStructuralFloor(c, st)
  PROVE  Writable(c, CreateWriterTable(c, st))
<1>1. PICK t : t = CreateWriterTable(c, st)
  OBVIOUS
<1>2. Tabular(c, t) /\ Len(t.index) = 1
  BY <1>1, WriterShaped, ShapedTabular
<1>3. Uniform(c, t)
  BY <1>2 DEF Uniform
<1>4. t.name = TableName(st)
  BY <1>1 DEF CreateWriterTable
<1>5. Named(t)
  BY <1>4, TableNamed DEF Named
<1> QED
  BY <1>1, <1>2, <1>3, <1>5 DEF Writable

(* The table of a message that is an array. *)
LEMMA ExplodedWritable ==
  ASSUME NEW c, Sequence(c.columns), NewFilter(c), HasExplode(c), NEW st, WellState(st), CheckStructuralFloor(c, st),
         NEW n \in Nat, NEW elements, DOMAIN elements = 1..n, elements = [i \in 1..n |-> elements[i]], NEW start, NEW interval
  PROVE  Writable(c, CreateExplodedWriterTable(c, st, elements, start, interval))
<1>1. PICK t : t = CreateExplodedWriterTable(c, st, elements, start, interval)
  OBVIOUS
<1>2. Shaped(c, t, n) /\ Broadcasts(c, t, n)
  BY <1>1, ExplodedShaped
<1>3. Tabular(c, t) /\ Len(t.index) = n
  BY <1>2, ShapedTabular
<1>4. Uniform(c, t)
  BY <1>2, <1>3, ExplodedUniform
<1>5. t.name = TableName(st)
  BY <1>1 DEF CreateExplodedWriterTable
<1>6. Named(t)
  BY <1>5, TableNamed DEF Named
<1> QED
  BY <1>1, <1>3, <1>4, <1>6 DEF Writable

(* The explode step of an accepted configuration is the last one. *)
LEMMA ExplodePath ==
  ASSUME NEW c \in Configs, SplitExplodeSpec(c), HasExplode(c)
  PROVE  Path(Explode(c).source)
<1>1. PICK ts, n : ts = c.transformations /\ n = Len(ts)
  OBVIOUS
<1>2. DOMAIN ts = 1..n
  BY <1>1, ConfigsAssumption, SequenceLen
<1>3. PICK i \in Explodes(c) : ~ts[i].bare
  BY <1>1 DEF HasExplode
<1>4. i \in 1..n /\ ts[i].step = "explode" /\ i = n
  BY <1>1, <1>3 DEF Explodes, SplitExplodeSpec
<1>5. PICK s : s = ts[i]
  OBVIOUS
<1>6. s \in ToSet(ts)
  BY <1>2, <1>4, <1>5 DEF ToSet
<1>7. TypedOptions(s)
  BY <1>1, <1>6, ConfigsAssumption
<1>8. Explode(c) = s
  BY <1>1, <1>4, <1>5 DEF Explode, Last
<1>9. Path(s.source)
  BY <1>3, <1>4, <1>5, <1>7 DEF TypedOptions
<1> QED
  BY <1>8, <1>9

(* An array that is found is a sequence. *)
Numbered(a) == \E n \in Nat : DOMAIN a = 1..n /\ a = [i \in 1..n |-> a[i]]

(* The array that explode resolves has its elements at 1 to n. *)
LEMMA ArraySequence ==
  ASSUME NEW c, NEW v, WellTyped(v), IsArray(c, v), NEW a, a = ResolveArray(c, v)
  PROVE  Numbered(a)
<1>1. TypeOf(v) \in {"list", "floats", "ints"}
  BY DEF IsArray
<1>2. Sequence(v[2])
  <2>1. CASE TypeOf(v) = "list"
    <3>1. v[2] \in Seq(Values)
      BY <2>1 DEF WellTyped
    <3> QED
      BY <3>1, SeqSequence
  <2>2. CASE TypeOf(v) # "list"
    BY <1>1, <2>2 DEF WellTyped
  <2> QED
    BY <2>1, <2>2
<1>3. PICK n : n = Len(v[2])
  OBVIOUS
<1>4. n \in Nat /\ DOMAIN v[2] = 1..n
  BY <1>2, <1>3, SequenceLen
<1>5. DOMAIN a = 1..n /\ a = [i \in 1..n |-> a[i]]
  BY <1>4 DEF ResolveArray
<1> QED
  BY <1>4, <1>5 DEF Numbered

(* Every table that is made can be written. *)
LEMMA MaterializedWritable ==
  ASSUME NEW c \in Configs, Accepted(c), NEW st, WellState(st)
  PROVE  LET ts == Materialize(c, st).tables
         IN  ts = <<>> \/ \E t : ts = <<t>> /\ Writable(c, t)
<1>1. PICK ts, e : ts = Materialize(c, st).tables /\ e = <<>>
  OBVIOUS
<1>2. Sequence(c.columns) /\ NewFilter(c) /\ SplitExplodeSpec(c)
  BY ConfigsAssumption DEF Accepted
<1>3. CASE ~CheckStructuralFloor(c, st)
  <2>1. \A x : Unusable(x).tables = <<>>
    BY DEF Unusable, Result
  <2>2. ts = <<>>
    BY <1>1, <1>3, <2>1 DEF Materialize
  <2> QED
    BY <1>1, <2>2
<1>4. CASE CheckStructuralFloor(c, st) /\ ~HasExplode(c)
  <2>1. PICK t : t = CreateWriterTable(c, st)
    OBVIOUS
  <2>2. ts = <<t>>
    BY <1>1, <1>4, <2>1 DEF Materialize, Parsed, Result
  <2>3. Writable(c, t)
    BY <1>2, <1>4, <2>1, WriterWritable
  <2> QED
    BY <1>1, <2>2, <2>3
<1>5. CASE CheckStructuralFloor(c, st) /\ HasExplode(c)
  <2>1. PICK p, f, v, start, interval, a :
          /\ p = Explode(c).source /\ f = st.fields
          /\ v = Lookup(f, p) /\ start = Lookup(f, Explode(c).start)
          /\ interval = ResolveInterval(Explode(c).interval, f, Len(v[2]))
          /\ a = ResolveArray(c, v)
    OBVIOUS
  <2>2. ts = ParseExploded(c, st).tables
    BY <1>1, <1>5 DEF Materialize
  <2>3. ts = <<>> \/ (IsArray(c, v) /\ ts = <<CreateExplodedWriterTable(c, st, a, start[2], interval[2])>>)
    BY <2>1, <2>2, ExplodedResult
  <2>4. CASE IsArray(c, v) /\ ts = <<CreateExplodedWriterTable(c, st, a, start[2], interval[2])>>
    <3>1. Path(p)
      BY <1>2, <1>5, <2>1, ExplodePath
    <3>2. WellTyped(v)
      <4>1. WellFields(f)
        BY <2>1 DEF WellState
      <4> QED
        BY <2>1, <3>1, <4>1, LookupTyped
    <3>3. PICK n \in Nat : DOMAIN a = 1..n /\ a = [i \in 1..n |-> a[i]]
      <4>1. Numbered(a)
        BY <2>1, <2>4, <3>2, ArraySequence
      <4> QED
        BY <4>1 DEF Numbered
    <3>4. PICK x, y, t : x = start[2] /\ y = interval[2] /\ t = CreateExplodedWriterTable(c, st, a, x, y)
      OBVIOUS
    <3>5. Writable(c, t)
      BY <1>2, <1>5, <3>3, <3>4, ExplodedWritable
    <3>6. ts = <<t>>
      BY <2>4, <3>4
    <3> QED
      BY <1>1, <3>5, <3>6
  <2> QED
    BY <1>1, <2>3, <2>4
<1> QED
  BY <1>3, <1>4, <1>5

-----------------------------------------------------------------------------
(* The fields are what their types say at every step, and every table of     *)
(* every result can be written.                                              *)
WritableTables(c, r) == Sequence(r.tables) /\ \A t \in ToSet(r.tables) : Writable(c, t)

(* The parse state at hand. *)
FieldsTyped == WellState(state)

(* The results of the batch. *)
TablesWritable == \A i \in DOMAIN results : WritableTables(config, results[i])

(* FieldsTyped is what makes TablesWritable inductive. *)
TablesInv == FieldsTyped /\ TablesWritable

(* The state without a message. *)
LEMMA NoStateWell == WellState(NoState)
<1>1. PICK d, e : d = EmptyPayload /\ e = <<>>
  OBVIOUS
<1>2. NoState = State(d, e, e, e)
  BY <1>1 DEF NoState, State
<1>3. Decodable(d)
  BY <1>1, ShortSequence DEF Decodable, EmptyPayload, Payload
<1>4. Sequence(e) /\ WellFields(e)
  BY <1>1, ShortSequence DEF WellFields
<1> QED
  BY <1>2, <1>3, <1>4, WellStateOf

(* There is no message and no table yet. *)
LEMMA InitTables == Init => TablesInv
<1> SUFFICES ASSUME Init PROVE TablesInv
  OBVIOUS
<1>1. state = NoState /\ DOMAIN results = {}
  BY DEF Init
<1> QED
  BY <1>1, NoStateWell DEF TablesInv, FieldsTyped, TablesWritable

(* An error that is noted leaves the fields alone. *)
LEMMA ErrorWell ==
  ASSUME NEW st, WellState(st)
  PROVE  WellState(WithError(st))
<1>1. PICK d, j, f, e, x : /\ d = st.data /\ j = st.subject /\ f = st.fields /\ e = st.errors
                           /\ x = Append(e, next)
  OBVIOUS
<1>2. st = State(d, j, f, e) /\ Decodable(d) /\ Sequence(j) /\ WellFields(f)
  BY <1>1 DEF WellState
<1>3. WithError(st) = State(d, j, f, x)
  <2>1. WithError(st) = [st EXCEPT !.errors = x]
    BY <1>1 DEF WithError
  <2> QED
    BY <1>2, <2>1 DEF State
<1> QED
  BY <1>2, <1>3, WellStateOf

(* The step at hand is one its factory has accepted. *)
LEMMA CurrentWell ==
  ASSUME HistoryInv, ResultsInv, FieldsTyped, phase = "step", next <= Len(Steps(config))
  PROVE  WellState(Run.st)
<1>1. PICK c, steps, s, st : c = config /\ steps = Steps(c) /\ s = steps[next] /\ st = state
  OBVIOUS
<1>2. c \in Configs /\ Accepted(c) /\ next \in 1..Len(steps) + 1 /\ WellState(st)
  BY <1>1 DEF HistoryInv, ResultsInv, OwnRun, FieldsTyped
<1>3. Len(steps) \in Nat /\ DOMAIN steps = 1..Len(steps) /\ ToSet(steps) \subseteq ToSet(c.transformations)
  BY <1>1, <1>2, StepsOf
<1>4. next \in 1..Len(steps)
  BY <1>1, <1>2, <1>3
<1>5. s \in ToSet(steps)
  BY <1>1, <1>3, <1>4 DEF ToSet
<1>6. s.step \in StepRegistry
  BY <1>1, <1>2, <1>4, StepsRegistered
<1>7. TypedOptions(s)
  BY <1>2, <1>3, <1>5, ConfigsAssumption
<1>8. MakeStep(s)
  BY <1>1, <1>2, <1>5 DEF Accepted, CompilePipeline
<1>9. WellState(RunStep(s, st).st)
  BY <1>2, <1>6, <1>7, <1>8, RunStepWell
<1> QED
  BY <1>1, <1>9 DEF Run, Current

(* A result that is added. *)
LEMMA NewTables ==
  ASSUME TablesWritable, Sequence(results), NEW r, results' = Append(results, r), UNCHANGED config,
         WritableTables(config, r)
  PROVE  TablesWritable'
<1>1. Grown(results, r, results')
  BY AppendResult
<1> QED
  BY <1>1 DEF Grown, TablesWritable

(* A result has no table or one. *)
LEMMA ResultTables ==
  ASSUME NEW c, NEW r, r.tables = <<>> \/ \E t : r.tables = <<t>> /\ Writable(c, t)
  PROVE  WritableTables(c, r)
<1>1. CASE r.tables = <<>>
  <2>1. ToSet(<<>>) = {}
    BY DEF ToSet
  <2> QED
    BY <1>1, <2>1, ShortSequence DEF WritableTables
<1>2. ASSUME NEW t, r.tables = <<t>>, Writable(c, t) PROVE WritableTables(c, r)
  <2>1. ToSet(<<t>>) = {t}
    BY DEF ToSet
  <2> QED
    BY <1>2, <2>1, ShortSequence DEF WritableTables
<1> QED
  BY <1>1, <1>2

(* A message that is refused has none. *)
LEMMA UnusableTables ==
  ASSUME NEW c, NEW st
  PROVE  WritableTables(c, Unusable(st))
<1>1. PICK r : r = Unusable(st)
  OBVIOUS
<1>2. r.tables = <<>>
  BY <1>1 DEF Unusable, Result
<1> QED
  BY <1>1, <1>2, ResultTables

(* Every step keeps the fields typed and the tables writable. *)
LEMMA StepTables ==
  ASSUME TablesInv, HistoryInv, ResultsInv, [Next]_vars
  PROVE  TablesInv'
<1>0. FieldsTyped /\ TablesWritable /\ Sequence(results)
  BY DEF TablesInv, HistoryInv
<1>1. CASE Load \/ Rejected \/ Write \/ UNCHANGED vars
  <2>1. UNCHANGED <<config, state, results>>
    BY <1>1 DEF Load, Rejected, Write, vars
  <2> QED
    BY <1>0, <2>1 DEF TablesInv, FieldsTyped, TablesWritable
<1>2. ASSUME NEW m \in Messages(config), Begin(m) PROVE TablesInv'
  <2>1. state' = NewParseState(m) /\ UNCHANGED <<config, results>>
    BY <1>2 DEF Begin
  <2>2. PICK d, j, e : d = m.data /\ j = m.subject /\ e = <<>>
    OBVIOUS
  <2>3. NewParseState(m) = State(d, j, e, e)
    BY <2>2, FirstState DEF NewParseState
  <2>4. Decodable(d) /\ Sequence(j)
    BY <1>2, <2>2, ValuesAssumption DEF HistoryInv
  <2>5. WellFields(e)
    BY <2>2 DEF WellFields
  <2>6. WellState(State(d, j, e, e))
    BY <2>4, <2>5, WellStateOf
  <2> QED
    BY <1>0, <2>1, <2>3, <2>6 DEF TablesInv, FieldsTyped, TablesWritable
<1>3. ASSUME NEW m, ParseEmpty(m) PROVE TablesInv'
  <2>1. PICK st : results' = Append(results, Unusable(st))
    BY <1>3 DEF ParseEmpty
  <2>2. state' = NoState /\ UNCHANGED config
    BY <1>3 DEF ParseEmpty
  <2>3. TablesWritable'
    BY <1>0, <2>1, <2>2, UnusableTables, NewTables
  <2> QED
    BY <2>2, <2>3, NoStateWell DEF TablesInv, FieldsTyped
<1>4. CASE StepSucceeds
  <2>1. phase = "step" /\ next <= Len(Steps(config)) /\ state' = Run.st /\ UNCHANGED <<config, results>>
    BY <1>4 DEF StepSucceeds
  <2>2. WellState(Run.st)
    BY <1>0, <2>1, CurrentWell
  <2> QED
    BY <1>0, <2>1, <2>2 DEF TablesInv, FieldsTyped, TablesWritable
<1>5. CASE FieldStepFails
  <2>1. phase = "step" /\ next <= Len(Steps(config)) /\ state' = WithError(Run.st) /\ UNCHANGED <<config, results>>
    BY <1>5 DEF FieldStepFails
  <2>2. WellState(WithError(Run.st))
    BY <1>0, <2>1, CurrentWell, ErrorWell
  <2> QED
    BY <1>0, <2>1, <2>2 DEF TablesInv, FieldsTyped, TablesWritable
<1>6. CASE StructuralStepFails
  <2>1. phase = "step" /\ next <= Len(Steps(config)) /\ state' = WithError(Run.st) /\ UNCHANGED config
    BY <1>6 DEF StructuralStepFails
  <2>2. WellState(WithError(Run.st))
    BY <1>0, <2>1, CurrentWell, ErrorWell
  <2>3. PICK st : results' = Append(results, Unusable(st))
    BY <1>6 DEF StructuralStepFails
  <2>4. TablesWritable'
    BY <1>0, <2>1, <2>3, UnusableTables, NewTables
  <2> QED
    BY <2>1, <2>2, <2>4 DEF TablesInv, FieldsTyped
<1>7. CASE Finish
  <2>1. PICK r, c, st : r = Materialize(c, st) /\ c = config /\ st = state
    OBVIOUS
  <2>2. phase = "step" /\ results' = Append(results, r) /\ UNCHANGED <<config, state>>
    BY <1>7, <2>1 DEF Finish
  <2>3. c \in Configs /\ Accepted(c) /\ WellState(st)
    BY <1>0, <2>1, <2>2 DEF HistoryInv, ResultsInv, FieldsTyped
  <2>4. WritableTables(config, r)
    <3>1. r.tables = <<>> \/ \E t : r.tables = <<t>> /\ Writable(c, t)
      BY <2>1, <2>3, MaterializedWritable
    <3> QED
      BY <2>1, <3>1, ResultTables
  <2>5. TablesWritable'
    BY <1>0, <2>2, <2>4, NewTables
  <2> QED
    BY <1>0, <2>2, <2>5 DEF TablesInv, FieldsTyped
<1>8. CASE NextBatch
  <2>1. results' = <<>> /\ UNCHANGED <<config, state>>
    BY <1>8 DEF NextBatch
  <2>2. DOMAIN <<>> = {}
    OBVIOUS
  <2> QED
    BY <1>0, <2>1, <2>2 DEF TablesInv, FieldsTyped, TablesWritable
<1> QED
  BY <1>1, <1>2, <1>3, <1>4, <1>5, <1>6, <1>7, <1>8 DEF Next

(* After every step the fields of the message at hand are what their types    *)
(* say, and every table of every result has a terminated valid name, columns  *)
(* aligned with its index and rows that the filter keeps or drops together.   *)
THEOREM TablesInvariant == Spec => []TablesInv
BY InitTables, StepTables, HistoryInvariant, ResultsInvariant, PTL DEF Spec

(* createWriterTable and its explode counterpart: the columns of every table  *)
(* are aligned with its index, and its name is valid and ends in a terminator, *)
(* whether extract_table set the name or a field did, for any accepted         *)
(* configuration and any messages.                                            *)
THEOREM RowsAreAligned == Spec => []RowsAligned
<1>1. TablesInv /\ ColumnsAligned => RowsAligned
  BY DEF TablesInv, TablesWritable, WritableTables, Writable, Named, RowsAligned
<1> QED
  BY <1>1, TablesInvariant, ColumnsAreAligned, PTL

-----------------------------------------------------------------------------
(* What is pushed is made of the results at hand. *)
PushedInv ==
  phase = "written" => written = MergeWriterTables(config, Apply(config, ValidTables(config, results)))

(* Only Write pushes, and NextBatch forgets the batch as a whole. *)
LEMMA StepPushed ==
  ASSUME PushedInv, [Next]_vars
  PROVE  PushedInv'
<1>1. CASE Write
  BY <1>1 DEF Write, PushedInv
<1>2. CASE Load
  BY <1>2 DEF Load, PushedInv
<1>3. CASE Rejected \/ UNCHANGED vars
  BY <1>3 DEF Rejected, vars, PushedInv
<1>4. CASE (\E m \in Messages(config) : Begin(m)) \/ (\E m \in Messages(config) : ParseEmpty(m))
  BY <1>4 DEF Begin, ParseEmpty, PushedInv
<1>5. CASE StepSucceeds \/ FieldStepFails \/ StructuralStepFails \/ Finish \/ NextBatch
  BY <1>5 DEF StepSucceeds, FieldStepFails, StructuralStepFails, Finish, NextBatch, PushedInv
<1> QED
  BY <1>1, <1>2, <1>3, <1>4, <1>5 DEF Next

(* parseMessages, Apply and MergeWriterTables: what is written is the merge  *)
(* of the tables of the batch's own results that pass the filter.            *)
THEOREM PushedInvariant == Spec => []PushedInv
<1>1. Init => PushedInv
  BY DEF Init, PushedInv
<1> QED
  BY <1>1, StepPushed, PTL DEF Spec

(* The tables of a batch are a sequence of tables that can be written. *)
LEMMA ValidWritable ==
  ASSUME NEW c, NEW rs, Sequence(rs), \A i \in 1..Len(rs) : WritableTables(c, rs[i])
  PROVE  LET A == ValidTables(c, rs)
         IN  Sequence(A) /\ \A i \in 1..Len(A) : Writable(c, A[i])
<1>0. PICK n, e : n = Len(rs) /\ e = <<>>
  OBVIOUS
<1>1. PICK S, ss : /\ S = UNION {ToSet(rs[i].tables) : i \in 1..n}
                   /\ ss = [i \in 1..n |->
                              IF c.parse_error_action = "fail" /\ rs[i].outcome # "ok" THEN e ELSE rs[i].tables]
  OBVIOUS
<1>2. n \in Nat
  BY <1>0, SequenceLen
<1>3. \A t \in S : Writable(c, t)
  BY <1>0, <1>1 DEF WritableTables
<1>4. ASSUME NEW i \in 1..n PROVE ss[i] \in Seq(S)
  <2>1. PICK t, T : t = rs[i].tables /\ T = ToSet(t)
    OBVIOUS
  <2>2. t \in Seq(T)
    BY <1>0, <2>1 DEF WritableTables, Sequence
  <2>3. T \subseteq S
    BY <1>1, <2>1
  <2>4. t \in Seq(S)
    BY <2>2, <2>3
  <2>5. e \in Seq(S)
    BY <1>0
  <2> QED
    BY <1>1, <2>1, <2>4, <2>5
<1>5. ss \in Seq(Seq(S)) /\ Len(ss) = n
  <2>1. PICK V : V = Seq(S)
    OBVIOUS
  <2>2. ss \in [1..n -> V]
    BY <1>1, <1>4, <2>1
  <2> QED
    BY <1>2, <2>1, <2>2, FunctionSequence
<1>6. PICK f : Joins(S, ss, f)
  BY <1>5, FlattenJoins
<1>7. PICK A : A = FlattenSeq(ss)
  OBVIOUS
<1>8. A \in Seq(S)
  BY <1>2, <1>5, <1>6, <1>7 DEF Joins
<1>9. Sequence(A) /\ \A i \in 1..Len(A) : A[i] \in S
  BY <1>8, SeqSequence
<1>10. ValidTables(c, rs) = A
  BY <1>0, <1>1, <1>7 DEF ValidTables
<1> QED
  BY <1>3, <1>9, <1>10

(* The results of a whole batch are those of its messages alone. *)
LEMMA AloneResults ==
  ASSUME HistoryInv, phase # "step"
  PROVE  [i \in 1..Len(batch) |-> ParseAlone(config, batch[i])] = results
<1>1. PICK rs, b, c, n : rs = results /\ b = batch /\ c = config /\ n = Len(rs)
  OBVIOUS
<1>2. Sequence(rs) /\ Len(b) = n /\ \A i \in 1..n : rs[i] = ParseAlone(c, b[i])
  BY <1>1 DEF HistoryInv, HistoryFree
<1>3. rs = [i \in 1..n |-> rs[i]]
  BY <1>1, <1>2, SequenceLen
<1>4. [i \in 1..n |-> ParseAlone(c, b[i])] = [i \in 1..n |-> rs[i]]
  BY <1>2
<1> QED
  BY <1>1, <1>2, <1>3, <1>4

(* What a batch writes is, row by row and as many times, what its messages   *)
(* give alone, less the rows the filter rejects when it looks at every row:  *)
(* filtering by row 0 and merging tables of one name neither lose, add nor   *)
(* rewire a row, for batches of any size and any accepted configuration.     *)
THEOREM WrittenIsExact == Spec => []WrittenExactly
<1>1. HistoryInv /\ ResultsInv /\ TablesInv /\ PushedInv => WrittenExactly
  <2> SUFFICES ASSUME HistoryInv, ResultsInv, TablesInv, PushedInv, phase = "written" PROVE WrittenExactly
    BY DEF WrittenExactly
  <2>1. PICK c, rs, A, P : /\ c = config /\ rs = results /\ A = ValidTables(c, rs)
                           /\ P = SetToSeq(written)
    OBVIOUS
  <2>2. ValidTables(config, [i \in 1..Len(batch) |-> ParseAlone(config, batch[i])]) = A
    BY <2>1, AloneResults
  <2>3. Sequence(rs) /\ \A i \in 1..Len(rs) : WritableTables(c, rs[i])
    <3>1. Sequence(rs)
      BY <2>1 DEF HistoryInv
    <3>2. DOMAIN rs = 1..Len(rs)
      BY <3>1, SequenceLen
    <3> QED
      BY <2>1, <3>1, <3>2 DEF TablesInv, TablesWritable
  <2>4. Sequence(A) /\ \A i \in 1..Len(A) : Writable(c, A[i])
    BY <2>1, <2>3, ValidWritable
  <2>5. \A i \in 1..Len(A) : Tabular(c, A[i]) /\ Uniform(c, A[i])
    BY <2>4 DEF Writable
  <2>6. Len(c.columns) \in Nat
    <3>1. Sequence(c.columns)
      BY <2>1, ConfigsAssumption DEF HistoryInv
    <3> QED
      BY <3>1, SequenceLen
  <2>7. P = SetToSeq(MergeWriterTables(c, Apply(c, A)))
    BY <2>1 DEF PushedInv
  <2>8. SameRows(FlattenSeq([i \in 1..Len(A) |-> PassingRows(c, A[i])]),
                 FlattenSeq([i \in 1..Len(P) |-> Rows(P[i])]))
    BY <2>4, <2>5, <2>6, <2>7, SameWritten
  <2> QED
    BY <2>1, <2>2, <2>8 DEF WrittenExactly, PassingRows
<1> QED
  BY <1>1, HistoryInvariant, ResultsInvariant, TablesInvariant, PushedInvariant, PTL
=============================================================================
