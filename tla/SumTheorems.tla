-------------------------------- MODULE SumTheorems --------------------------------
(***************************************************************************)
(* The laws of SumOver.  The function that MapThenSumSet defines by        *)
(* recursion exists and is unique on the subsets of a finite set; each law *)
(* follows by induction.  An induction is written as the search for a      *)
(* least counterexample: WFMin gives the least element of a set of natural *)
(* numbers (LeastOf), and of the subsets of a finite set that violate a    *)
(* law one has least cardinality (SubsetInduction).                        *)
(***************************************************************************)
EXTENDS Sums, FiniteSetTheorems, WellFoundedInduction, TLAPS

(* Induction over a set of natural numbers. *)
LEMMA LeastOf ==
  ASSUME NEW T, T \subseteq Nat, T # {}
  PROVE  \E n \in T : \A m \in T : n <= m
<1> DEFINE R == OpToRel(<, Nat)
<1>1. IsWellFoundedOn(R, Nat)
  BY NatLessThanWellFounded
<1>2. \A m, n \in Nat : m < n => <<m, n>> \in R
  BY DEF OpToRel
<1> HIDE DEF R
<1>3. PICK n \in T : \A m \in T : ~ (<<m, n>> \in R)
  BY <1>1, WFMin
<1>4. n \in Nat /\ \A m \in T : m \in Nat
  OBVIOUS
<1>5. \A m \in T : ~ (m < n)
  BY <1>2, <1>3, <1>4
<1>6. \A m \in T : n <= m
  BY <1>4, <1>5
<1> QED
  BY <1>6

(* Induction up to a bound, for the elements of a set. *)
LEMMA BoundedInduction ==
  ASSUME NEW N \in Nat, NEW S, 0 \in S, \A k \in 0..N - 1 : k \in S => k + 1 \in S
  PROVE  \A k \in 0..N : k \in S
<1> DEFINE T == {k \in Nat : k <= N /\ k \notin S}
<1> SUFFICES ASSUME T # {} PROVE FALSE
  OBVIOUS
<1>1. PICK k \in T : \A i \in T : k <= i
  <2>1. T \subseteq Nat
    OBVIOUS
  <2> QED
    BY <2>1, LeastOf
<1>2. k \in Nat /\ k # 0 /\ k <= N /\ k \notin S
  OBVIOUS
<1>3. k - 1 \in 0..N - 1 /\ k - 1 \in Nat /\ k - 1 \notin T
  BY <1>1, <1>2
<1>4. (k - 1) + 1 \in S
  BY <1>2, <1>3
<1> QED
  BY <1>2, <1>4

(* The recursive function of MapThenSumSet, of the elements of f. *)
Adds(f, S, g) ==
  g = [s \in SUBSET S |->
         IF s = {} THEN 0
         ELSE LET x == CHOOSE x \in s : TRUE IN f[x] + g[s \ {x}]]

(* The sum is the value of that function. *)
LEMMA SumIs ==
  ASSUME NEW f, NEW S
  PROVE  SumOver(f, S) = (CHOOSE g : Adds(f, S, g))[S]
BY DEF SumOver, MapThenSumSet, MapThenFoldSet, Adds

(* The element that is added first. *)
Chosen(s) == CHOOSE x \in s : TRUE

(* What such a function is at a set. *)
LEMMA AddsAt ==
  ASSUME NEW f, NEW S, NEW g, Adds(f, S, g), NEW s, s \subseteq S
  PROVE  /\ s = {} => g[s] = 0
         /\ s # {} => Chosen(s) \in s /\ g[s] = f[Chosen(s)] + g[s \ {Chosen(s)}]
<1>1. g[s] = IF s = {} THEN 0 ELSE f[Chosen(s)] + g[s \ {Chosen(s)}]
  BY DEF Adds, Chosen
<1>0. s # {} => Chosen(s) \in s
  BY DEF Chosen
<1>2. CASE s = {}
  BY <1>1, <1>2
<1>3. CASE s # {}
  BY <1>0, <1>1, <1>3
<1> QED
  BY <1>2, <1>3

(* Two of them agree where both are defined. *)
LEMMA AddsUnique ==
  ASSUME NEW f, NEW S, NEW T, NEW g, NEW h, IsFiniteSet(S),
         Adds(f, S, g), Adds(f, T, h), NEW s, s \subseteq S, s \subseteq T
  PROVE  g[s] = h[s]
<1> DEFINE Bad == {n \in Nat : \E t \in SUBSET (S \cap T) : Cardinality(t) = n /\ g[t] # h[t]}
<1>1. SUFFICES ASSUME g[s] # h[s] PROVE FALSE
  OBVIOUS
<1>2. IsFiniteSet(s) /\ Cardinality(s) \in Nat
  BY FS_Subset, FS_CardinalityType
<1>3. Bad # {}
  BY <1>1, <1>2
<1>4. PICK n \in Bad : \A m \in Bad : n <= m
  BY <1>3, LeastOf
<1>5. PICK t \in SUBSET (S \cap T) : Cardinality(t) = n /\ g[t] # h[t]
  BY <1>4
<1>6. t # {}
  BY <1>5, AddsAt
<1> DEFINE x == Chosen(t)
<1> HIDE DEF x
<1>7. x \in t /\ g[t] = f[x] + g[t \ {x}] /\ h[t] = f[x] + h[t \ {x}]
  BY <1>6, AddsAt DEF x
<1>8. g[t \ {x}] # h[t \ {x}]
  BY <1>5, <1>7
<1>9. IsFiniteSet(t)
  BY FS_Subset
<1>10. Cardinality(t \ {x}) = n - 1 /\ Cardinality(t \ {x}) \in Nat
  BY <1>5, <1>7, <1>9, FS_RemoveElement, FS_CardinalityType
<1>11. n - 1 \in Bad
  BY <1>8, <1>10
<1> QED
  BY <1>4, <1>11

(* There is one for every finite set. *)
LEMMA AddsExists ==
  ASSUME NEW f, NEW S, IsFiniteSet(S)
  PROVE  \E g : Adds(f, S, g)
<1> DEFINE Bad == {n \in Nat : \E T \in SUBSET S : Cardinality(T) = n /\ ~ \E g : Adds(f, T, g)}
<1>1. SUFFICES ASSUME ~ \E g : Adds(f, S, g) PROVE FALSE
  OBVIOUS
<1>2. Cardinality(S) \in Nat
  BY FS_CardinalityType
<1>3. Bad # {}
  BY <1>1, <1>2
<1>4. PICK n \in Bad : \A m \in Bad : n <= m
  BY <1>3, LeastOf
<1>5. PICK T \in SUBSET S : Cardinality(T) = n /\ ~ \E g : Adds(f, T, g)
  BY <1>4
<1>6. IsFiniteSet(T)
  BY FS_Subset
<1> DEFINE Of(t) == CHOOSE g : Adds(f, t, g)
           G == [t \in SUBSET T |->
                   IF t = {} THEN 0
                   ELSE f[Chosen(t)] + Of(t \ {Chosen(t)})[t \ {Chosen(t)}]]
<1>7. ASSUME NEW t \in SUBSET T, t # T PROVE Adds(f, t, Of(t))
  <2>1. IsFiniteSet(t) /\ Cardinality(t) \in Nat /\ Cardinality(t) < n
    BY <1>5, <1>6, <1>7, FS_Subset, FS_CardinalityType
  <2>2. Cardinality(t) \notin Bad
    BY <2>1, <1>4
  <2>3. \E g : Adds(f, t, g)
    BY <2>1, <2>2
  <2> QED
    BY <2>3
<1>8. ASSUME NEW t \in SUBSET T, t # T PROVE G[t] = Of(t)[t]
  <2>1. Adds(f, t, Of(t))
    BY <1>7, <1>8
  <2>2. CASE t = {}
    BY <2>1, <2>2, AddsAt
  <2>3. CASE t # {}
    <3> DEFINE x == Chosen(t)
    <3>1. x \in t /\ Of(t)[t] = f[x] + Of(t)[t \ {x}]
      <4> HIDE DEF Of
      <4> QED
        BY <2>1, <2>3, AddsAt
    <3>2. Adds(f, t \ {x}, Of(t \ {x}))
      <4>1. t \ {x} \in SUBSET T /\ t \ {x} # T
        BY <3>1
      <4> QED
        BY <1>7, <4>1
    <3>3. IsFiniteSet(t)
      BY <1>6, FS_Subset
    <3>4. Of(t)[t \ {x}] = Of(t \ {x})[t \ {x}]
      BY <2>1, <3>2, <3>3, AddsUnique
    <3>5. G[t] = f[x] + Of(t \ {x})[t \ {x}]
      BY <2>3, <3>1
    <3> QED
      BY <3>1, <3>4, <3>5
  <2> QED
    BY <2>2, <2>3
<1>9. ASSUME NEW t \in SUBSET T, t # {}
      PROVE  G[t] = f[Chosen(t)] + G[t \ {Chosen(t)}]
  <2>1. Chosen(t) \in t
    BY <1>9 DEF Chosen
  <2>2. t \ {Chosen(t)} \in SUBSET T /\ t \ {Chosen(t)} # T
    BY <2>1
  <2>3. G[t \ {Chosen(t)}] = Of(t \ {Chosen(t)})[t \ {Chosen(t)}]
    BY <1>8, <2>2
  <2>4. G[t] = f[Chosen(t)] + Of(t \ {Chosen(t)})[t \ {Chosen(t)}]
    BY <1>9
  <2> QED
    BY <2>3, <2>4
<1>10. Adds(f, T, G)
  <2>1. \A t \in SUBSET T : G[t] = IF t = {} THEN 0 ELSE f[Chosen(t)] + G[t \ {Chosen(t)}]
    <3>1. G[{}] = 0
      OBVIOUS
    <3> HIDE DEF G
    <3> QED
      BY <1>9, <3>1
  <2>2. G = [t \in SUBSET T |-> G[t]]
    OBVIOUS
  <2> HIDE DEF G
  <2>3. G = [t \in SUBSET T |-> IF t = {} THEN 0 ELSE f[Chosen(t)] + G[t \ {Chosen(t)}]]
    BY <2>1, <2>2
  <2> QED
    BY <2>3 DEF Adds, Chosen
<1> QED
  BY <1>5, <1>10

(* A sum, one element at a time. *)
LEMMA SumAt ==
  ASSUME NEW f, NEW S, IsFiniteSet(S)
  PROVE  /\ S = {} => SumOver(f, S) = 0
         /\ S # {} => Chosen(S) \in S /\ SumOver(f, S) = f[Chosen(S)] + SumOver(f, S \ {Chosen(S)})
<1> DEFINE Of(T) == CHOOSE g : Adds(f, T, g)
<1>1. \A T : IsFiniteSet(T) => Adds(f, T, Of(T))
  BY AddsExists
<1>2. \A T : SumOver(f, T) = Of(T)[T]
  BY SumIs
<1> HIDE DEF Of
<1>3. CASE S = {}
  BY <1>1, <1>2, <1>3, AddsAt
<1>4. CASE S # {}
  <2> DEFINE T == S \ {Chosen(S)}
  <2>1. Chosen(S) \in S /\ Of(S)[S] = f[Chosen(S)] + Of(S)[T]
    BY <1>1, <1>4, AddsAt
  <2>2. IsFiniteSet(T) /\ T \subseteq S
    BY FS_RemoveElement
  <2> HIDE DEF T
  <2>3. Of(S)[T] = Of(T)[T]
    BY <1>1, <2>2, AddsUnique
  <2> QED
    BY <1>2, <2>1, <2>3 DEF T
<1> QED
  BY <1>3, <1>4

(* Induction over the subsets of a finite set. *)
LEMMA SubsetInduction ==
  ASSUME NEW S, IsFiniteSet(S), NEW P,
         \A T \in SUBSET S : (\A U \in SUBSET T : U # T => U \in P) => T \in P
  PROVE  S \in P
<1> DEFINE Bad == {n \in Nat : \E T \in SUBSET S : Cardinality(T) = n /\ T \notin P}
<1>1. SUFFICES ASSUME S \notin P PROVE FALSE
  OBVIOUS
<1>2. Cardinality(S) \in Nat
  BY FS_CardinalityType
<1>3. Bad # {}
  BY <1>1, <1>2
<1>4. PICK n \in Bad : \A m \in Bad : n <= m
  BY <1>3, LeastOf
<1>5. PICK T \in SUBSET S : Cardinality(T) = n /\ T \notin P
  BY <1>4
<1>6. IsFiniteSet(T)
  BY FS_Subset
<1>7. PICK U \in SUBSET T : U # T /\ U \notin P
  BY <1>5
<1>8. IsFiniteSet(U) /\ Cardinality(U) \in Nat /\ Cardinality(U) < n
  BY <1>5, <1>6, <1>7, FS_Subset, FS_CardinalityType
<1>9. Cardinality(U) \in Bad
  BY <1>7, <1>8
<1> QED
  BY <1>4, <1>8, <1>9

(* A sum of integers is one. *)
LEMMA SumType ==
  ASSUME NEW f, NEW S, IsFiniteSet(S), \A x \in S : f[x] \in Int
  PROVE  SumOver(f, S) \in Int
<1> DEFINE P == {T \in SUBSET S : SumOver(f, T) \in Int}
<1>1. ASSUME NEW T \in SUBSET S, \A U \in SUBSET T : U # T => U \in P
      PROVE  T \in P
  <2>1. IsFiniteSet(T)
    BY FS_Subset
  <2>2. CASE T = {}
    <3>1. SumOver(f, T) = 0
      BY <2>1, <2>2, SumAt
    <3> QED
      BY <3>1
  <2>3. CASE T # {}
    <3>1. Chosen(T) \in T /\ SumOver(f, T) = f[Chosen(T)] + SumOver(f, T \ {Chosen(T)})
      BY <2>1, <2>3, SumAt
    <3>2. SumOver(f, T \ {Chosen(T)}) \in Int
      BY <1>1, <3>1
    <3> QED
      BY <3>1, <3>2
  <2> QED
    BY <2>2, <2>3
<1>2. S \in P
  <2> HIDE DEF P
  <2> QED
    BY <1>1, SubsetInduction
<1> QED
  BY <1>2

(* Any element may be added last. *)
LEMMA SumAdd ==
  ASSUME NEW f, NEW S, IsFiniteSet(S), \A x \in S : f[x] \in Int, NEW a \in S
  PROVE  SumOver(f, S) = f[a] + SumOver(f, S \ {a})
<1> DEFINE P == {T \in SUBSET S : \A x \in T : SumOver(f, T) = f[x] + SumOver(f, T \ {x})}
<1>1. ASSUME NEW T \in SUBSET S, \A U \in SUBSET T : U # T => U \in P
      PROVE  T \in P
  <2> SUFFICES ASSUME NEW x \in T
               PROVE  SumOver(f, T) = f[x] + SumOver(f, T \ {x})
    OBVIOUS
  <2> DEFINE y == Chosen(T)
             U == T \ {x, y}
  <2>1. IsFiniteSet(T)
    BY FS_Subset
  <2>2. y \in T /\ SumOver(f, T) = f[y] + SumOver(f, T \ {y})
    BY <2>1, SumAt
  <2> HIDE DEF y
  <2>3. CASE x = y
    BY <2>2, <2>3
  <2>4. CASE x # y
    <3>1. (T \ {y}) \ {x} = U /\ (T \ {x}) \ {y} = U
      OBVIOUS
    <3>2. SumOver(f, T \ {y}) = f[x] + SumOver(f, (T \ {y}) \ {x})
      BY <1>1, <2>2, <2>4
    <3>3. SumOver(f, T \ {x}) = f[y] + SumOver(f, (T \ {x}) \ {y})
      BY <1>1, <2>2, <2>4
    <3>6. SumOver(f, T \ {y}) = f[x] + SumOver(f, U) /\ SumOver(f, T \ {x}) = f[y] + SumOver(f, U)
      <4> HIDE DEF U
      <4> QED
        BY <3>1, <3>2, <3>3
    <3>4. IsFiniteSet(U) /\ U \subseteq S
      BY <2>1, FS_Subset
    <3> HIDE DEF U
    <3>5. SumOver(f, U) \in Int /\ f[x] \in Int /\ f[y] \in Int
      BY <3>4, <2>2, SumType
    <3> QED
      BY <2>2, <3>5, <3>6
  <2> QED
    BY <2>3, <2>4
<1>2. S \in P
  <2> HIDE DEF P
  <2> QED
    BY <1>1, SubsetInduction
<1> QED
  BY <1>2

(* Only the values at the elements matter. *)
LEMMA SumSame ==
  ASSUME NEW f, NEW g, NEW S, IsFiniteSet(S), \A x \in S : f[x] = g[x]
  PROVE  SumOver(f, S) = SumOver(g, S)
<1> DEFINE P == {T \in SUBSET S : SumOver(f, T) = SumOver(g, T)}
<1>1. ASSUME NEW T \in SUBSET S, \A U \in SUBSET T : U # T => U \in P
      PROVE  T \in P
  <2>1. IsFiniteSet(T)
    BY FS_Subset
  <2>2. CASE T = {}
    BY <2>1, <2>2, SumAt
  <2>3. CASE T # {}
    <3> DEFINE y == Chosen(T)
    <3>1. y \in T /\ SumOver(f, T) = f[y] + SumOver(f, T \ {y}) /\ SumOver(g, T) = g[y] + SumOver(g, T \ {y})
      BY <2>1, <2>3, SumAt
    <3>2. SumOver(f, T \ {y}) = SumOver(g, T \ {y})
      BY <1>1, <3>1
    <3> QED
      BY <3>1, <3>2
  <2> QED
    BY <2>2, <2>3
<1>2. S \in P
  <2> HIDE DEF P
  <2> QED
    BY <1>1, SubsetInduction
<1> QED
  BY <1>2

(* A sum in which one value changes. *)
LEMMA SumUpdate ==
  ASSUME NEW f, NEW g, NEW S, IsFiniteSet(S), NEW a \in S,
         \A x \in S : f[x] \in Int /\ g[x] \in Int,
         \A x \in S \ {a} : f[x] = g[x]
  PROVE  SumOver(g, S) = SumOver(f, S) - f[a] + g[a]
<1>1. SumOver(f, S) = f[a] + SumOver(f, S \ {a})
  BY SumAdd
<1>2. SumOver(g, S) = g[a] + SumOver(g, S \ {a})
  BY SumAdd
<1>3. IsFiniteSet(S \ {a})
  BY FS_RemoveElement
<1>4. SumOver(f, S \ {a}) = SumOver(g, S \ {a})
  BY <1>3, SumSame
<1>5. SumOver(f, S \ {a}) \in Int
  BY <1>3, SumType
<1> QED
  BY <1>1, <1>2, <1>4, <1>5

(* A sum of natural numbers, some of them positive or none. *)
LEMMA SumNat ==
  ASSUME NEW f, NEW S, IsFiniteSet(S), \A x \in S : f[x] \in Nat
  PROVE  /\ SumOver(f, S) \in Nat
         /\ SumOver(f, S) = 0 <=> \A x \in S : f[x] = 0
<1> DEFINE Zero(T) == \A x \in T : f[x] = 0
           P == {T \in SUBSET S : SumOver(f, T) \in Nat /\ (SumOver(f, T) = 0 <=> Zero(T))}
<1>1. ASSUME NEW T \in SUBSET S, \A U \in SUBSET T : U # T => U \in P
      PROVE  T \in P
  <2>1. IsFiniteSet(T)
    BY FS_Subset
  <2>2. CASE T = {}
    <3>1. SumOver(f, T) = 0
      BY <2>1, <2>2, SumAt
    <3> QED
      BY <2>2, <3>1
  <2>3. CASE T # {}
    <3> DEFINE y == Chosen(T)
    <3>1. y \in T /\ SumOver(f, T) = f[y] + SumOver(f, T \ {y})
      BY <2>1, <2>3, SumAt
    <3> HIDE DEF y
    <3>2. SumOver(f, T \ {y}) \in Nat /\ (SumOver(f, T \ {y}) = 0 <=> Zero(T \ {y}))
      <4>1. T \ {y} \in SUBSET T /\ T \ {y} # T
        BY <3>1
      <4>2. T \ {y} \in P
        BY <1>1, <4>1
      <4> HIDE DEF Zero
      <4> QED
        BY <4>2
    <3>3. f[y] \in Nat
      BY <3>1
    <3>4. SumOver(f, T) \in Nat
      BY <3>1, <3>2, <3>3
    <3>5. SumOver(f, T) = 0 <=> f[y] = 0 /\ SumOver(f, T \ {y}) = 0
      BY <3>1, <3>2, <3>3
    <3>6. Zero(T) <=> f[y] = 0 /\ Zero(T \ {y})
      BY <3>1
    <3> HIDE DEF Zero
    <3> QED
      BY <3>2, <3>4, <3>5, <3>6
  <2> QED
    BY <2>2, <2>3
<1>2. S \in P
  <2> HIDE DEF P
  <2> QED
    BY <1>1, SubsetInduction
<1>3. SumOver(f, S) \in Nat /\ (SumOver(f, S) = 0 <=> Zero(S))
  <2> HIDE DEF Zero
  <2> QED
    BY <1>2
<1> QED
  BY <1>3

(* Zeros may be left out. *)
LEMMA SumZeros ==
  ASSUME NEW f, NEW S, IsFiniteSet(S), \A x \in S : f[x] \in Int,
         NEW Z \in SUBSET S, \A x \in S \ Z : f[x] = 0
  PROVE  SumOver(f, S) = SumOver(f, Z)
<1> DEFINE P == {T \in SUBSET S : SumOver(f, T) = SumOver(f, T \cap Z)}
<1>1. ASSUME NEW T \in SUBSET S, \A U \in SUBSET T : U # T => U \in P
      PROVE  T \in P
  <2>1. IsFiniteSet(T) /\ IsFiniteSet(T \cap Z)
    BY FS_Subset
  <2>2. CASE T \subseteq Z
    <3>1. T \cap Z = T
      BY <2>2
    <3> QED
      BY <3>1
  <2>3. CASE ~(T \subseteq Z)
    <3>1. PICK y \in T : y \notin Z
      BY <2>3
    <3>2. SumOver(f, T) = f[y] + SumOver(f, T \ {y})
      BY <2>1, SumAdd
    <3>3. SumOver(f, T \ {y}) = SumOver(f, (T \ {y}) \cap Z)
      BY <1>1
    <3>4. (T \ {y}) \cap Z = T \cap Z
      BY <3>1
    <3>5. f[y] = 0
      BY <3>1
    <3>6. SumOver(f, T \cap Z) \in Int
      BY <2>1, SumType
    <3>7. SumOver(f, T) = 0 + SumOver(f, T \cap Z)
      BY <3>2, <3>3, <3>4, <3>5
    <3> QED
      BY <3>6, <3>7
  <2> QED
    BY <2>2, <2>3
<1>2. S \in P
  <2> HIDE DEF P
  <2> QED
    BY <1>1, SubsetInduction
<1>3. S \cap Z = Z
  OBVIOUS
<1> QED
  BY <1>2, <1>3

(* Sums of the same elements add up. *)
LEMMA SumPlus ==
  ASSUME NEW f, NEW g, NEW h, NEW S, IsFiniteSet(S),
         \A x \in S : f[x] \in Int /\ g[x] \in Int /\ h[x] = f[x] + g[x]
  PROVE  SumOver(h, S) = SumOver(f, S) + SumOver(g, S)
<1> DEFINE P == {T \in SUBSET S : SumOver(h, T) = SumOver(f, T) + SumOver(g, T)}
<1>1. ASSUME NEW T \in SUBSET S, \A U \in SUBSET T : U # T => U \in P
      PROVE  T \in P
  <2>1. IsFiniteSet(T)
    BY FS_Subset
  <2>2. CASE T = {}
    <3>1. SumOver(f, T) = 0 /\ SumOver(g, T) = 0 /\ SumOver(h, T) = 0
      BY <2>1, <2>2, SumAt
    <3> QED
      BY <3>1
  <2>3. CASE T # {}
    <3> DEFINE y == Chosen(T)
    <3>1. /\ y \in T
          /\ SumOver(f, T) = f[y] + SumOver(f, T \ {y})
          /\ SumOver(g, T) = g[y] + SumOver(g, T \ {y})
          /\ SumOver(h, T) = h[y] + SumOver(h, T \ {y})
      BY <2>1, <2>3, SumAt
    <3> HIDE DEF y
    <3>2. SumOver(h, T \ {y}) = SumOver(f, T \ {y}) + SumOver(g, T \ {y})
      BY <1>1, <3>1
    <3>3. IsFiniteSet(T \ {y})
      BY <2>1, FS_RemoveElement
    <3>4. SumOver(f, T \ {y}) \in Int /\ SumOver(g, T \ {y}) \in Int
      BY <3>3, SumType
    <3>5. f[y] \in Int /\ g[y] \in Int /\ h[y] = f[y] + g[y]
      BY <3>1
    <3> QED
      BY <3>1, <3>2, <3>4, <3>5
  <2> QED
    BY <2>2, <2>3
<1>2. S \in P
  <2> HIDE DEF P
  <2> QED
    BY <1>1, SubsetInduction
<1> QED
  BY <1>2

(* The sum of a sequence, without its last element. *)
LEMMA SumLast ==
  ASSUME NEW f, NEW n \in Nat, n > 0, \A i \in 1..n : f[i] \in Int
  PROVE  SumOver(f, 1..n) = f[n] + SumOver(f, 1..n - 1)
<1>1. PICK S : S = 1..n
  OBVIOUS
<1>4. IsFiniteSet(1..n)
  BY FS_Interval
<1>2. n \in S /\ S \ {n} = 1..n - 1 /\ IsFiniteSet(S) /\ \A x \in S : f[x] \in Int
  BY <1>1, <1>4
<1>3. SumOver(f, S) = f[n] + SumOver(f, S \ {n})
  BY <1>2, SumAdd
<1> QED
  BY <1>1, <1>2, <1>3

(* The sum of a sequence, without its head. *)
LEMMA SumTail ==
  ASSUME NEW f, NEW g, NEW n \in Nat,
         \A i \in 1..n + 1 : f[i] \in Int, \A i \in 1..n : g[i] = f[i + 1]
  PROVE  SumOver(f, 1..n + 1) = f[1] + SumOver(g, 1..n)
<1> DEFINE Bad == {k \in Nat : k <= n /\ SumOver(f, 1..k + 1) # f[1] + SumOver(g, 1..k)}
<1>1. SUFFICES ASSUME Bad # {} PROVE FALSE
  OBVIOUS
<1>2. PICK k \in Bad : \A m \in Bad : k <= m
  BY <1>1, LeastOf
<1>3. k \in Nat /\ k <= n /\ SumOver(f, 1..k + 1) # f[1] + SumOver(g, 1..k)
  OBVIOUS
<1>4. IsFiniteSet(1..k + 1) /\ IsFiniteSet(1..k)
  BY <1>3, FS_Interval
<1>5. /\ \A i \in 1..k + 1 : f[i] \in Int
      /\ \A i \in 1..k : g[i] \in Int
  BY <1>3
<1>6. SumOver(f, 1..k + 1) = f[k + 1] + SumOver(f, 1..k)
  <2>1. k + 1 \in Nat /\ k + 1 > 0 /\ (k + 1) - 1 = k
    BY <1>3
  <2> QED
    BY <1>5, <2>1, SumLast
<1>7. CASE k = 0
  <2>1. 1..k = {}
    BY <1>7
  <2>2. SumOver(f, 1..k) = 0 /\ SumOver(g, 1..k) = 0
    BY <1>4, <2>1, SumAt
  <2> QED
    BY <1>3, <1>5, <1>6, <1>7, <2>2
<1>8. CASE k # 0
  <2>1. SumOver(g, 1..k) = g[k] + SumOver(g, 1..k - 1)
    BY <1>3, <1>5, <1>8, SumLast
  <2>2. k - 1 \in Nat /\ k - 1 <= n /\ k - 1 \notin Bad /\ (k - 1) + 1 = k
    BY <1>2, <1>3, <1>8
  <2>3. SumOver(f, 1..k) = f[1] + SumOver(g, 1..k - 1)
    BY <2>2
  <2>4. g[k] = f[k + 1] /\ f[1] \in Int /\ f[k + 1] \in Int
    BY <1>3, <1>5, <1>8
  <2>5. IsFiniteSet(1..k - 1) /\ \A i \in 1..k - 1 : g[i] \in Int
    BY <1>3, <1>5, <1>8, FS_Interval
  <2>6. SumOver(g, 1..k - 1) \in Int
    BY <2>5, SumType
  <2> QED
    BY <1>3, <1>6, <2>1, <2>3, <2>4, <2>6
<1> QED
  BY <1>7, <1>8

(* A sum grows with its values. *)
LEMMA SumLeq ==
  ASSUME NEW f, NEW g, NEW S, IsFiniteSet(S),
         \A x \in S : f[x] \in Int /\ g[x] \in Int /\ f[x] <= g[x]
  PROVE  SumOver(f, S) <= SumOver(g, S)
<1>1. PICK h : h = [x \in S |-> g[x] - f[x]]
  OBVIOUS
<1>2. \A x \in S : h[x] \in Nat /\ h[x] \in Int /\ g[x] = f[x] + h[x]
  BY <1>1
<1>3. SumOver(g, S) = SumOver(f, S) + SumOver(h, S)
  BY <1>2, SumPlus
<1>4. SumOver(h, S) \in Nat /\ SumOver(f, S) \in Int
  BY <1>2, SumNat, SumType
<1> QED
  BY <1>3, <1>4

(* The same values under other names, and zeros. *)
LEMMA SumReindex ==
  ASSUME NEW f, NEW g, NEW h, NEW S, NEW M, IsFiniteSet(S), IsFiniteSet(M),
         \A m \in M : g[m] \in Int,
         \A x \in S : h[x] \in M /\ f[x] = g[h[x]],
         \A x, y \in S : h[x] = h[y] => x = y,
         \A m \in M : (\E x \in S : h[x] = m) \/ g[m] = 0
  PROVE  SumOver(f, S) = SumOver(g, M)
<1> DEFINE Image(T) == {h[x] : x \in T}
           P == {T \in SUBSET S : SumOver(f, T) = SumOver(g, Image(T))}
<1>1. ASSUME NEW T \in SUBSET S, \A U \in SUBSET T : U # T => U \in P
      PROVE  T \in P
  <2>1. IsFiniteSet(T) /\ Image(T) \subseteq M
    BY FS_Subset
  <2>2. IsFiniteSet(Image(T)) /\ \A m \in Image(T) : g[m] \in Int
    BY <2>1, FS_Subset
  <2>3. CASE T = {}
    <3>1. Image(T) = {}
      BY <2>3
    <3>2. SumOver(f, T) = 0 /\ SumOver(g, Image(T)) = 0
      BY <2>1, <2>2, <2>3, <3>1, SumAt
    <3> QED
      BY <3>2
  <2>4. CASE T # {}
    <3>1. PICK y : y \in T
      BY <2>4
    <3>2. h[y] \in Image(T) /\ f[y] = g[h[y]] /\ \A x \in T : f[x] \in Int
      BY <2>2, <3>1
    <3>3. Image(T) \ {h[y]} = Image(T \ {y})
      BY <3>1
    <3>4. SumOver(f, T) = f[y] + SumOver(f, T \ {y})
      BY <2>1, <3>1, <3>2, SumAdd
    <3>5. SumOver(g, Image(T)) = g[h[y]] + SumOver(g, Image(T) \ {h[y]})
      <4> HIDE DEF Image
      <4> QED
        BY <2>2, <3>2, SumAdd
    <3>6. SumOver(f, T \ {y}) = SumOver(g, Image(T \ {y}))
      BY <1>1, <3>1
    <3> QED
      BY <3>2, <3>3, <3>4, <3>5, <3>6
  <2> QED
    BY <2>3, <2>4
<1>2. S \in P
  <2> HIDE DEF P
  <2> QED
    BY <1>1, SubsetInduction
<1>3. Image(S) \in SUBSET M /\ \A m \in M \ Image(S) : g[m] = 0
  OBVIOUS
<1>4. SumOver(f, S) = SumOver(g, Image(S))
  BY <1>2
<1> HIDE DEF Image
<1>5. SumOver(g, M) = SumOver(g, Image(S))
  BY <1>3, SumZeros
<1> QED
  BY <1>4, <1>5

(* The entries of a table of numbers at y. *)
Column(F, S, y) == [x \in S |-> F[x][y]]

(* Such a table, summed by rows or by columns. *)
LEMMA SumSwap ==
  ASSUME NEW F, NEW S, NEW T, IsFiniteSet(S), IsFiniteSet(T),
         \A x \in S : \A y \in T : F[x][y] \in Int,
         NEW R, \A x \in S : R[x] = SumOver(F[x], T),
         NEW C, \A y \in T : C[y] = SumOver(Column(F, S, y), S)
  PROVE  SumOver(R, S) = SumOver(C, T)
<1> DEFINE Col(y) == Column(F, S, y)
           Cols(A) == [y \in T |-> SumOver(Col(y), A)]
           P == {A \in SUBSET S : SumOver(R, A) = SumOver(Cols(A), T)}
<1>0. \A y \in T : \A x \in S : Col(y)[x] = F[x][y] /\ Col(y)[x] \in Int
  BY DEF Column
<1>a. \A x \in S : R[x] \in Int
  BY SumType
<1> HIDE DEF Col
<1>b. ASSUME NEW A \in SUBSET S PROVE \A y \in T : Cols(A)[y] \in Int
  <2>1. IsFiniteSet(A)
    BY FS_Subset
  <2> QED
    BY <1>0, <2>1, SumType
<1>1. ASSUME NEW A \in SUBSET S, \A B \in SUBSET A : B # A => B \in P
      PROVE  A \in P
  <2>1. IsFiniteSet(A)
    BY FS_Subset
  <2>2. CASE A = {}
    <3>1. \A y \in T : Cols(A)[y] = 0
      BY <2>1, <2>2, SumAt
    <3>2. PICK c : c = Cols(A)
      OBVIOUS
    <3>3. SumOver(c, T) = 0
      BY <3>1, <3>2, SumNat
    <3>4. SumOver(R, A) = 0
      BY <2>1, <2>2, SumAt
    <3> QED
      BY <3>2, <3>3, <3>4
  <2>3. CASE A # {}
    <3>1. PICK z : z \in A
      BY <2>3
    <3>2. PICK B : B = A \ {z}
      OBVIOUS
    <3>3. B \in SUBSET S /\ B \in P /\ IsFiniteSet(B)
      BY <1>1, <2>1, <3>1, <3>2, FS_Subset
    <3>4. SumOver(R, A) = R[z] + SumOver(R, B)
      BY <1>a, <2>1, <3>1, <3>2, SumAdd
    <3>5. \A y \in T : SumOver(Col(y), A) = Col(y)[z] + SumOver(Col(y), B)
      BY <1>0, <2>1, <3>1, <3>2, SumAdd
    <3>6. PICK a, b : a = Cols(A) /\ b = Cols(B)
      OBVIOUS
    <3>7. \A y \in T : F[z][y] \in Int /\ b[y] \in Int /\ a[y] = F[z][y] + b[y]
      <4>1. \A y \in T : b[y] \in Int
        BY <1>b, <3>3, <3>6
      <4>2. \A y \in T : a[y] = F[z][y] + b[y]
        BY <1>0, <3>1, <3>5, <3>6
      <4> QED
        BY <3>1, <4>1, <4>2
    <3>8. SumOver(a, T) = SumOver(F[z], T) + SumOver(b, T)
      BY <3>7, SumPlus
    <3>9. SumOver(R, B) = SumOver(b, T)
      BY <3>3, <3>6
    <3>10. R[z] = SumOver(F[z], T)
      BY <3>1
    <3> QED
      BY <3>4, <3>6, <3>8, <3>9, <3>10
  <2> QED
    BY <2>2, <2>3
<1>2. S \in P
  <2> HIDE DEF P
  <2> QED
    BY <1>1, SubsetInduction
<1>3. PICK a : a = Cols(S)
  OBVIOUS
<1>4. \A y \in T : a[y] = C[y]
  BY <1>3 DEF Col
<1>5. SumOver(a, T) = SumOver(C, T)
  BY <1>4, SumSame
<1> QED
  BY <1>2, <1>3, <1>5

(* A part of a set of natural numbers has no larger a sum. *)
LEMMA SumSubset ==
  ASSUME NEW f, NEW S, IsFiniteSet(S), \A x \in S : f[x] \in Nat, NEW T \in SUBSET S
  PROVE  SumOver(f, T) <= SumOver(f, S)
<1>1. PICK g : g = [x \in S |-> IF x \in T THEN f[x] ELSE 0]
  OBVIOUS
<1>2. /\ \A x \in S : g[x] \in Int /\ f[x] \in Int /\ g[x] <= f[x]
      /\ \A x \in S \ T : g[x] = 0
      /\ \A x \in T : g[x] = f[x]
  BY <1>1
<1>3. SumOver(g, S) = SumOver(g, T)
  BY <1>2, SumZeros
<1>4. SumOver(g, T) = SumOver(f, T)
  <2>1. IsFiniteSet(T)
    BY FS_Subset
  <2> QED
    BY <1>2, <2>1, SumSame
<1>5. SumOver(g, S) <= SumOver(f, S)
  BY <1>2, SumLeq
<1> QED
  BY <1>3, <1>4, <1>5

(* A finite set of integers has a greatest element. *)
LEMMA GreatestOf ==
  ASSUME NEW S, IsFiniteSet(S), S \subseteq Int, S # {}
  PROVE  \E g \in S : \A x \in S : x <= g
<1> DEFINE P == {T \in SUBSET S : T = {} \/ \E g \in T : \A x \in T : x <= g}
<1>1. ASSUME NEW T \in SUBSET S, \A U \in SUBSET T : U # T => U \in P
      PROVE  T \in P
  <2>1. SUFFICES ASSUME T # {} PROVE \E g \in T : \A x \in T : x <= g
    OBVIOUS
  <2>2. PICK a : a \in T
    BY <2>1
  <2>3. PICK U : U = T \ {a}
    OBVIOUS
  <2>4. U \in P
    BY <1>1, <2>2, <2>3
  <2>5. CASE U = {}
    <3>1. \A x \in T : x <= a
      BY <2>2, <2>3, <2>5
    <3> QED
      BY <2>2, <3>1
  <2>6. CASE U # {}
    <3>1. PICK g \in U : \A x \in U : x <= g
      BY <2>4, <2>6
    <3>2. g \in Int /\ a \in Int /\ g \in T /\ \A x \in T : x \in Int /\ (x = a \/ x <= g)
      BY <2>2, <2>3, <3>1
    <3>3. CASE a <= g
      <4>1. \A x \in T : x <= g
        BY <3>2, <3>3
      <4> QED
        BY <3>2, <4>1
    <3>4. CASE g <= a
      <4>1. \A x \in T : x <= a
        BY <3>2, <3>4
      <4> QED
        BY <2>2, <4>1
    <3> QED
      BY <3>2, <3>3, <3>4
  <2> QED
    BY <2>5, <2>6
<1>2. S \in P
  <2> HIDE DEF P
  <2> QED
    BY <1>1, SubsetInduction
<1> QED
  BY <1>2

(* The least element is the minimum. *)
LEMMA MinIs ==
  ASSUME NEW S, S \subseteq Int, NEW i \in S, \A j \in S : i <= j
  PROVE  Min(S) = i
<1>1. PICK k : k = Min(S)
  OBVIOUS
<1>2. k \in S /\ \A y \in S : k <= y
  BY <1>1 DEF Min
<1>3. k \in Int /\ i \in Int /\ k <= i /\ i <= k
  BY <1>2
<1> QED
  BY <1>1, <1>3

(* The greatest element is the maximum. *)
LEMMA MaxIs ==
  ASSUME NEW S, S \subseteq Int, NEW i \in S, \A j \in S : j <= i
  PROVE  Max(S) = i
<1>1. PICK k : k = Max(S)
  OBVIOUS
<1>2. k \in S /\ \A y \in S : k >= y
  BY <1>1 DEF Max
<1>3. k \in Int /\ i \in Int /\ k <= i /\ i <= k
  BY <1>2
<1> QED
  BY <1>1, <1>3
=============================================================================
