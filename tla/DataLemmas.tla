------------------------------ MODULE DataLemmas ------------------------------
(***************************************************************************)
(* Lemmas about data that the proofs of the analysis rest on: induction    *)
(* over the natural numbers, greatest elements and sums of finite sets,    *)
(* sequences, and the two ways of rounding.                                *)
(***************************************************************************)
EXTENDS Rounding, FiniteSets, FiniteSetsExt, Sequences, FiniteSetTheorems,
        SequenceTheorems, WellFoundedInduction, TLAPS

-----------------------------------------------------------------------------
(* Natural numbers.                                                        *)

Below == {pair \in Nat \X Nat : pair[1] < pair[2]}

\* There is no endless way down in the natural numbers.
LEMMA BelowWellFounded == IsWellFoundedOn(Below, Nat)
BY NatLessThanWellFounded DEF OpToRel, Below

\* A set of natural numbers that is not empty has a least element.
LEMMA Least ==
    ASSUME NEW T \in SUBSET Nat, T # {}
    PROVE  \E least \in T : \A n \in T : least <= n
<1>1. PICK least \in T : \A n \in T : ~ (<<n, least>> \in Below)
  BY BelowWellFounded, WFMin
<1>2. ASSUME NEW n \in T PROVE least <= n
  <2>1. <<n, least>> \in Nat \X Nat /\ n \in Nat /\ least \in Nat
    OBVIOUS
  <2>2. ~(n < least)
    BY <1>1, <2>1 DEF Below
  <2> QED
    BY <2>1, <2>2
<1> QED
  BY <1>2

\* A set of natural numbers with 0 in it, and n + 1 with n, has them all.
LEMMA Induction ==
    ASSUME NEW T \in SUBSET Nat, 0 \in T, \A n \in T : n + 1 \in T
    PROVE  T = Nat
<1> SUFFICES ASSUME Nat \ T # {} PROVE FALSE
  OBVIOUS
<1>1. PICK least \in Nat \ T : \A n \in Nat \ T : least <= n
  BY Least
<1>2. least # 0 /\ least - 1 \in Nat /\ least - 1 \notin Nat \ T
  BY <1>1
<1> QED
  BY <1>1, <1>2

-----------------------------------------------------------------------------
(* Finite sets.                                                            *)

\* The subsets of a finite set, one element less, and none.
LEMMA Sizes ==
    ASSUME NEW S, IsFiniteSet(S), NEW s \in SUBSET S
    PROVE  /\ IsFiniteSet(s) /\ Cardinality(s) \in Nat
           /\ Cardinality(s) <= Cardinality(S) /\ Cardinality(S) \in Nat
           /\ Cardinality(s) = 0 <=> s = {}
           /\ \A x \in s : Cardinality(s \ {x}) = Cardinality(s) - 1
<1>1. IsFiniteSet(s) /\ Cardinality(s) \in Nat /\ Cardinality(S) \in Nat /\ Cardinality(s) <= Cardinality(S)
  BY FS_Subset, FS_CardinalityType
<1>2. Cardinality(s) = 0 <=> s = {}
  BY <1>1, FS_EmptySet
<1>3. \A x \in s : Cardinality(s \ {x}) = Cardinality(s) - 1
  BY <1>1, FS_RemoveElement
<1> QED
  BY <1>1, <1>2, <1>3

\* A part of a finite set is smaller unless it is the whole.
LEMMA PartsOf ==
    ASSUME NEW S, IsFiniteSet(S), NEW A \in SUBSET S
    PROVE  /\ IsFiniteSet(A) /\ Cardinality(A) \in Nat /\ Cardinality(S) \in Nat
           /\ Cardinality(A) <= Cardinality(S)
           /\ Cardinality(A) = Cardinality(S) <=> A = S
           /\ Cardinality(S) = 0 <=> S = {}
BY FS_Subset, FS_CardinalityType, FS_EmptySet

\* A finite set that is not empty has an element where a function is greatest.
LEMMA Greatest ==
    ASSUME NEW S, IsFiniteSet(S), S # {}, NEW f \in [S -> Int]
    PROVE  \E x \in S : \A y \in S : f[y] <= f[x]
<1> DEFINE Has(s) == s # {} => \E x \in s : \A y \in s : f[y] <= f[x]
           T == {n \in Nat : \A s \in SUBSET S : Cardinality(s) = n => Has(s)}
<1>1. 0 \in T
  BY Sizes
<1>2. ASSUME NEW n \in T PROVE n + 1 \in T
  <2>1. ASSUME NEW s \in SUBSET S, Cardinality(s) = n + 1 PROVE Has(s)
    <3>1. PICK z \in s : TRUE
      BY <2>1, Sizes
    <3>2. Has(s \ {z})
      <4>1. Cardinality(s \ {z}) = n
        BY <2>1, Sizes
      <4> QED
        BY <4>1
    <3>3. CASE s \ {z} = {}
      BY <3>3, <3>1
    <3>4. CASE s \ {z} # {}
      <4>1. PICK x \in s \ {z} : \A y \in s \ {z} : f[y] <= f[x]
        BY <3>2, <3>4
      <4>2. CASE f[z] <= f[x]
        BY <4>1, <4>2
      <4>3. CASE f[z] > f[x]
        BY <4>1, <4>3
      <4> QED
        BY <4>2, <4>3
    <3> QED
      BY <3>3, <3>4
  <2> QED
    BY <2>1
<1>3. T = Nat
  <2> HIDE DEF T
  <2>1. T \in SUBSET Nat
    BY DEF T
  <2> QED
    BY <2>1, <1>1, <1>2, Induction
<1>4. Cardinality(S) \in T
  BY <1>3, Sizes
<1> QED
  BY <1>4

\* A finite set of integers that is not empty has the Max and the Min.
LEMMA Extremes ==
    ASSUME NEW S \in SUBSET Int, IsFiniteSet(S), S # {}
    PROVE  /\ Max(S) \in S /\ \A n \in S : n <= Max(S)
           /\ Min(S) \in S /\ \A n \in S : Min(S) <= n
<1>1. \E x \in S : \A y \in S : x >= y
  <2>1. [n \in S |-> n] \in [S -> Int]
    OBVIOUS
  <2>2. \E x \in S : \A y \in S : [n \in S |-> n][y] <= [n \in S |-> n][x]
    BY <2>1, Greatest
  <2> QED
    BY <2>2
<1>2. \E x \in S : \A y \in S : x =< y
  <2>1. [n \in S |-> 0 - n] \in [S -> Int]
    OBVIOUS
  <2>2. \E x \in S : \A y \in S : [n \in S |-> 0 - n][y] <= [n \in S |-> 0 - n][x]
    BY <2>1, Greatest
  <2> QED
    BY <2>2
<1>3. Max(S) \in S /\ \A n \in S : Max(S) >= n
  BY <1>1 DEF Max
<1>4. Min(S) \in S /\ \A n \in S : Min(S) =< n
  BY <1>2 DEF Min
<1> QED
  BY <1>3, <1>4

-----------------------------------------------------------------------------
(* Sums: what a fold of + over a finite set computes.                      *)

Pick(s) == CHOOSE x \in s : TRUE

\* What a fold picks of a set is in it.
LEMMA Picked == \A s : s # {} => Pick(s) \in s
BY DEF Pick

Accumulates(S, W, F) ==
    /\ F \in [SUBSET S -> Nat]
    /\ \A s \in SUBSET S : F[s] = IF s = {} THEN 0 ELSE W[Pick(s)] + F[s \ {Pick(s)}]

\* A function that does what the fold says exists, on all subsets at once.
LEMMA AccumulationExists ==
    ASSUME NEW S, IsFiniteSet(S), NEW W \in [S -> Nat]
    PROVE  \E F : Accumulates(S, W, F)
<1> DEFINE Next(F, s) == IF s = {} THEN 0 ELSE W[Pick(s)] + F[s \ {Pick(s)}]
           Holds(F, n) == \A s \in SUBSET S : Cardinality(s) <= n => F[s] = Next(F, s)
           T == {n \in Nat : \E F \in [SUBSET S -> Nat] : Holds(F, n)}
<1>1. \A s \in SUBSET S : IsFiniteSet(s) /\ Cardinality(s) \in Nat /\ Cardinality(s) <= Cardinality(S)
  BY FS_Subset, FS_CardinalityType
<1>2. \A s \in SUBSET S : s # {} => Cardinality(s \ {Pick(s)}) = Cardinality(s) - 1
  BY <1>1, Picked, FS_RemoveElement
<1>3. \A F \in [SUBSET S -> Nat], s \in SUBSET S : Next(F, s) \in Nat
  BY Picked
<1>4. 0 \in T
  <2>1. \A s \in SUBSET S : Cardinality(s) <= 0 => s = {}
    BY <1>1, FS_EmptySet
  <2> DEFINE Zero == [s \in SUBSET S |-> 0]
  <2>2. Zero \in [SUBSET S -> Nat] /\ Holds(Zero, 0)
    BY <2>1
  <2> QED
    BY <2>2
<1>5. ASSUME NEW n \in T PROVE n + 1 \in T
  <2>1. PICK F \in [SUBSET S -> Nat] : Holds(F, n)
    BY <1>5
  <2> DEFINE G == [s \in SUBSET S |-> Next(F, s)]
  <2>2. G \in [SUBSET S -> Nat]
    BY <1>3
  <2>3. ASSUME NEW s \in SUBSET S, Cardinality(s) <= n + 1 PROVE G[s] = Next(G, s)
    <3>1. CASE s = {}
      BY <3>1
    <3>2. CASE s # {}
      <4> DEFINE rest == s \ {Pick(s)}
      <4>1. rest \in SUBSET S /\ Cardinality(rest) <= n
        BY <3>2, <2>3, <1>1, <1>2
      <4>2. F[rest] = Next(F, rest)
        BY <4>1, <2>1
      <4>3. G[rest] = Next(F, rest)
        BY <4>1
      <4> QED
        BY <3>2, <4>2, <4>3
    <3> QED
      BY <3>1, <3>2
  <2>4. Holds(G, n + 1)
    BY <2>3
  <2>5. n + 1 \in Nat
    OBVIOUS
  <2> HIDE DEF G, Holds
  <2>6. \E H \in [SUBSET S -> Nat] : Holds(H, n + 1)
    BY <2>2, <2>4
  <2> QED
    BY <2>5, <2>6
<1>6. T = Nat
  <2> HIDE DEF T
  <2>1. T \in SUBSET Nat
    BY DEF T
  <2> QED
    BY <2>1, <1>4, <1>5, Induction
<1>7. Cardinality(S) \in T
  BY <1>6, <1>1
<1>8. PICK F \in [SUBSET S -> Nat] : Holds(F, Cardinality(S))
  BY <1>7
<1>9. Accumulates(S, W, F)
  BY <1>1, <1>8 DEF Accumulates
<1> QED
  BY <1>9

Sums(S, W, G) ==
    /\ G \in [SUBSET S -> Nat]
    /\ G[{}] = 0
    /\ \A s \in SUBSET S : \A x \in s : G[s] = W[x] + G[s \ {x}]

\* the function that a fold chooses
Folds(S, W, F) ==
    F = [s \in SUBSET S |->
            IF s = {} THEN 0
            ELSE W[Pick(s)] + F[s \ {Pick(s)}]]

\* The order in which elements are added does not matter.
LEMMA FoldIsSum ==
    ASSUME NEW S, IsFiniteSet(S), NEW W \in [S -> Nat],
           NEW F, Accumulates(S, W, F)
    PROVE  Sums(S, W, F)
<1> USE DEF Accumulates
<1> DEFINE Any(n) == \A s \in SUBSET S : Cardinality(s) = n => \A x \in s : F[s] = W[x] + F[s \ {x}]
           T == {n \in Nat : Any(n)}
<1>1. F[{}] = 0
  OBVIOUS
<1>2. 0 \in T
  BY Sizes
<1>3. ASSUME NEW n \in T PROVE n + 1 \in T
  <2>1. ASSUME NEW s \in SUBSET S, Cardinality(s) = n + 1, NEW x \in s
        PROVE  F[s] = W[x] + F[s \ {x}]
    <3> DEFINE p == Pick(s)
    <3>1. p \in s /\ F[s] = W[p] + F[s \ {p}]
      BY <2>1, Picked
    <3>2. CASE x = p
      BY <3>1, <3>2
    <3>3. CASE x # p
      <4> HIDE DEF p
      <4>1. Cardinality(s \ {p}) = n /\ Cardinality(s \ {x}) = n
        BY <2>1, <3>1, Sizes
      <4>2. F[s \ {p}] = W[x] + F[(s \ {p}) \ {x}]
        BY <3>1, <3>3, <4>1
      <4>3. F[s \ {x}] = W[p] + F[(s \ {x}) \ {p}]
        BY <3>1, <3>3, <4>1
      <4> DEFINE rest == F[(s \ {x}) \ {p}]
      <4>4. (s \ {p}) \ {x} = (s \ {x}) \ {p}
        OBVIOUS
      <4>5. F[s \ {p}] = W[x] + rest
        BY <4>2, <4>4
      <4>6. W[x] \in Nat /\ W[p] \in Nat /\ rest \in Nat
        BY <3>1
      <4> HIDE DEF rest
      <4> QED
        BY <3>1, <4>3, <4>5, <4>6 DEF rest
    <3> QED
      BY <3>2, <3>3
  <2>2. Any(n + 1)
    BY <2>1
  <2> QED
    BY <2>2
<1>4. T = Nat
  <2> HIDE DEF T
  <2>1. T \in SUBSET Nat
    BY DEF T
  <2> QED
    BY <2>1, <1>2, <1>3, Induction
<1>5. ASSUME NEW s \in SUBSET S, NEW x \in s PROVE F[s] = W[x] + F[s \ {x}]
  <2>1. Cardinality(s) \in T
    BY <1>4, Sizes
  <2> QED
    BY <2>1
<1> QED
  BY <1>1, <1>5 DEF Sums

\* Sums exist.
LEMMA SumsExist ==
    ASSUME NEW S, IsFiniteSet(S), NEW W \in [S -> Nat]
    PROVE  \E G : Sums(S, W, G)
<1>3. PICK F : Accumulates(S, W, F)
  BY AccumulationExists
<1>4. Sums(S, W, F)
  BY <1>3, FoldIsSum
<1> QED
  BY <1>4

\* What a fold computes is the sum.
LEMMA SumsUnique ==
    ASSUME NEW S, IsFiniteSet(S), NEW W \in [S -> Nat], NEW G, Sums(S, W, G),
           NEW A \in SUBSET S, NEW F, Folds(A, W, F)
    PROVE  F[A] = G[A]
<1> DEFINE T == {n \in Nat : \A s \in SUBSET A : Cardinality(s) = n => F[s] = G[s]}
<1>2. \A s \in SUBSET A : F[s] = IF s = {} THEN 0 ELSE W[Pick(s)] + F[s \ {Pick(s)}]
  BY DEF Folds
<1>3. 0 \in T
  BY <1>2, Sizes DEF Sums
<1>4. ASSUME NEW n \in T PROVE n + 1 \in T
  <2>1. ASSUME NEW s \in SUBSET A, Cardinality(s) = n + 1 PROVE F[s] = G[s]
    <3>1. s # {} /\ Pick(s) \in s /\ Cardinality(s \ {Pick(s)}) = n
      BY <2>1, Picked, Sizes
    <3>2. F[s \ {Pick(s)}] = G[s \ {Pick(s)}]
      BY <3>1
    <3>3. G[s] = W[Pick(s)] + G[s \ {Pick(s)}]
      BY <3>1 DEF Sums
    <3> QED
      BY <1>2, <3>1, <3>2, <3>3
  <2> QED
    BY <2>1
<1>5. T = Nat
  <2> HIDE DEF T
  <2>1. T \in SUBSET Nat
    BY DEF T
  <2> QED
    BY <2>1, <1>3, <1>4, Induction
<1>6. Cardinality(A) \in T
  BY <1>5, Sizes
<1> QED
  BY <1>6

\* Sums of the subsets of a part are what the fold over that part says.
LEMMA FoldsExist ==
    ASSUME NEW S, IsFiniteSet(S), NEW W \in [S -> Nat], NEW G, Sums(S, W, G), NEW A \in SUBSET S
    PROVE  Folds(A, W, [s \in SUBSET A |-> G[s]])
<1> DEFINE F == [s \in SUBSET A |-> G[s]]
<1>1. ASSUME NEW s \in SUBSET A PROVE F[s] = IF s = {} THEN 0 ELSE W[Pick(s)] + F[s \ {Pick(s)}]
  BY Picked DEF Sums
<1>2. F = [s \in SUBSET A |-> IF s = {} THEN 0 ELSE W[Pick(s)] + F[s \ {Pick(s)}]]
  <2> HIDE DEF F
  <2>1. F = [s \in SUBSET A |-> F[s]]
    BY DEF F
  <2> QED
    BY <1>1, <2>1
<1>3. Folds(A, W, F)
  BY <1>2 DEF Folds
<1> QED
  BY <1>3

\* There is one sum of each subset.
LEMMA SumsEqual ==
    ASSUME NEW S, IsFiniteSet(S), NEW W \in [S -> Nat], NEW G, Sums(S, W, G), NEW H, Sums(S, W, H),
           NEW A \in SUBSET S
    PROVE  G[A] = H[A]
<1>1. Folds(A, W, [s \in SUBSET A |-> H[s]])
  BY FoldsExist
<1>2. [s \in SUBSET A |-> H[s]][A] = G[A]
  BY <1>1, SumsUnique
<1> QED
  BY <1>2

\* The sum of two sets without a common element is the sum of their sums.
LEMMA SumOfTwo ==
    ASSUME NEW S, IsFiniteSet(S), NEW W \in [S -> Nat], NEW G, Sums(S, W, G),
           NEW A \in SUBSET S, NEW B \in SUBSET S, A \cap B = {}
    PROVE  G[A \cup B] = G[A] + G[B]
<1> DEFINE T == {n \in Nat : \A s \in SUBSET A : Cardinality(s) = n => G[s \cup B] = G[s] + G[B]}
<1>1. \A s \in SUBSET S : G[s] \in Nat
  BY DEF Sums
<1>2. 0 \in T
  <2>1. G[{} \cup B] = G[{}] + G[B]
    BY <1>1 DEF Sums
  <2> QED
    BY <2>1, Sizes
<1>3. ASSUME NEW n \in T PROVE n + 1 \in T
  <2>1. ASSUME NEW s \in SUBSET A, Cardinality(s) = n + 1 PROVE G[s \cup B] = G[s] + G[B]
    <3>1. PICK x \in s : TRUE
      BY <2>1, Sizes
    <3>2. Cardinality(s \ {x}) = n
      BY <2>1, Sizes
    <3>3. G[(s \ {x}) \cup B] = G[s \ {x}] + G[B]
      BY <3>2
    <3>4. G[s] = W[x] + G[s \ {x}]
      BY DEF Sums
    <3>5. (s \cup B) \ {x} = (s \ {x}) \cup B
      OBVIOUS
    <3>6. G[s \cup B] = W[x] + G[(s \ {x}) \cup B]
      <4>1. s \cup B \in SUBSET S /\ x \in s \cup B
        OBVIOUS
      <4>2. G[s \cup B] = W[x] + G[(s \cup B) \ {x}]
        BY <4>1 DEF Sums
      <4> QED
        BY <3>5, <4>2
    <3>7. W[x] \in Nat /\ G[s \ {x}] \in Nat /\ G[B] \in Nat
      BY <1>1
    <3> QED
      BY <3>3, <3>4, <3>6, <3>7
  <2> QED
    BY <2>1
<1>5. T = Nat
  <2> HIDE DEF T
  <2>1. T \in SUBSET Nat
    BY DEF T
  <2> QED
    BY <2>1, <1>2, <1>3, Induction
<1>6. Cardinality(A) \in T
  BY <1>5, Sizes
<1> QED
  BY <1>6

-----------------------------------------------------------------------------
(* Sequences.                                                              *)

\* One character, and the front of a sequence.
LEMMA Single == ASSUME NEW S, NEW e \in S PROVE <<e>> \in Seq(S) /\ Len(<<e>>) = 1
OBVIOUS

\* What the first m elements of a sequence are.
LEMMA Fronts ==
    ASSUME NEW S, NEW s \in Seq(S), NEW m \in Nat, m <= Len(s)
    PROVE  /\ SubSeq(s, 1, m) \in Seq(S) /\ Len(SubSeq(s, 1, m)) = m
           /\ \A i \in 1 .. m : SubSeq(s, 1, m)[i] = s[i]
BY SubSeqProperties

\* A sequence is empty if its length is 0, and has a last element if not.
LEMMA NotEmpty ==
    ASSUME NEW S, NEW s \in Seq(S)
    PROVE  /\ Len(s) \in Nat /\ (Len(s) = 0 <=> s = <<>>)
           /\ s # <<>> => s[Len(s)] \in S
BY EmptySeq

-----------------------------------------------------------------------------
(* Rounding.                                                               *)

\* What \div and % compute.
LEMMA Division ==
    ASSUME NEW n \in Nat, NEW b \in Nat \ {0}
    PROVE  /\ n \div b \in Nat /\ n % b \in 0 .. b - 1
           /\ n = b * (n \div b) + (n % b)
OBVIOUS

\* A percentage is at most half a point away.
LEMMA PercentsNear ==
    ASSUME NEW a \in Nat, NEW b \in Nat \ {0}
    PROVE  /\ Percents(a, b) # {}
           /\ \A p \in Percents(a, b) : p \in Nat /\ 200 * a <= b * (2 * p + 1) /\ b * (2 * p) <= 200 * a + b
<1> DEFINE low == (100 * a) \div b
           rest == (100 * a) % b
<1>1. /\ low \in Nat /\ rest \in 0 .. b - 1
      /\ 100 * a = b * low + rest
  <2>1. 100 * a \in Nat
    OBVIOUS
  <2> QED
    BY ONLY <2>1, b \in Nat \ {0}, Division, Zenon
<1> HIDE DEF low, rest
<1>2. Percents(a, b) = IF 2 * rest < b THEN {low} ELSE IF 2 * rest > b THEN {low + 1} ELSE {low, low + 1}
  BY DEF Percents, low, rest
<1>3. b * (2 * low) = 2 * (b * low) /\ b * (2 * low + 1) = 2 * (b * low) + b
      /\ b * (2 * (low + 1)) = 2 * (b * low) + 2 * b /\ b * (2 * (low + 1) + 1) = 2 * (b * low) + 3 * b
      /\ b * low \in Nat
  BY <1>1
<1> DEFINE bl == b * low
<1> HIDE DEF bl
<1>4. 200 * a = 2 * bl + 2 * rest /\ bl \in Nat
  BY <1>1, <1>3 DEF bl
<1>5. ASSUME NEW p \in Percents(a, b)
      PROVE  p \in Nat /\ 200 * a <= b * (2 * p + 1) /\ b * (2 * p) <= 200 * a + b
  <2>1. CASE p = low /\ 2 * rest <= b
    BY <2>1, <1>1, <1>3, <1>4 DEF bl
  <2>2. CASE p = low + 1 /\ 2 * rest >= b
    BY <2>2, <1>1, <1>3, <1>4 DEF bl
  <2> QED
    BY <1>1, <1>2, <1>5, <2>1, <2>2
<1> QED
  BY <1>2, <1>5

\* All of it is 100 percent.
LEMMA FullScore ==
    ASSUME NEW b \in Nat \ {0}
    PROVE  Percents(b, b) = {100}
<1>1. (100 * b) \div b = 100 /\ (100 * b) % b = 0
  OBVIOUS
<1> QED
  BY <1>1 DEF Percents

\* 100 percent may be said when what is missing is a 200th part at most.
LEMMA FullConceals ==
    ASSUME NEW a \in Nat, NEW b \in Nat \ {0}, 100 \in Percents(a, b)
    PROVE  200 * (b - a) <= b
BY PercentsNear

\* 0 percent may be said when what is there is a 200th part at most.
LEMMA ZeroConceals ==
    ASSUME NEW a \in Nat, NEW b \in Nat \ {0}, 0 \in Percents(a, b)
    PROVE  200 * a <= b
BY PercentsNear

\* A part of the whole is 0 to 100 percent.
LEMMA PercentsInRange ==
    ASSUME NEW a \in Nat, NEW b \in Nat \ {0}, a <= b, NEW p \in Percents(a, b)
    PROVE  p \in 0 .. 100
<1>1. p \in Nat /\ b * (2 * p) <= 200 * a + b
  BY PercentsNear
<1>2. CASE p >= 101
  <2>1. b * (2 * p) >= b * 202
    BY <1>1, <1>2
  <2> QED
    BY <1>1, <2>1
<1> QED
  BY <1>1, <1>2

\* More is never less percent, whichever way the middles are rounded.
LEMMA PercentsGrow ==
    ASSUME NEW a \in Nat, NEW c \in Nat, NEW b \in Nat \ {0}, a < c,
           NEW p \in Percents(a, b), NEW q \in Percents(c, b)
    PROVE  p <= q
<1>1. p \in Nat /\ b * (2 * p) <= 200 * a + b
  BY PercentsNear
<1>2. q \in Nat /\ 200 * c <= b * (2 * q + 1)
  BY PercentsNear
<1>3. CASE p >= q + 1
  <2>1. b * (2 * p) >= b * (2 * q + 2)
    BY <1>1, <1>2, <1>3
  <2>2. b * (2 * q + 2) = b * (2 * q + 1) + b
    BY <1>2
  <2> QED
    BY <1>1, <1>2, <2>1, <2>2
<1> QED
  BY <1>1, <1>2, <1>3

\* Of at most 200 things, one that is missing keeps the score from being 100.
LEMMA SmallGapsShow ==
    ASSUME NEW a \in Nat, NEW b \in Nat \ {0}, a < b, b <= 200
    PROVE  Percents(a, b) # {100}
<1>1. CASE 100 \in Percents(a, b)
  <2>1. 200 * (b - a) <= b
    BY <1>1, FullConceals
  <2>2. a = 199 /\ b = 200
    BY <2>1
  <2>3. Percents(199, 200) = {99, 100}
    BY DEF Percents
  <2> QED
    BY <2>2, <2>3
<1> QED
  BY <1>1

\* A mean that is rounded stays between integers that bound it.
LEMMA HalfEvenBetween ==
    ASSUME NEW low \in Nat, NEW high \in Nat, NEW n \in Nat, 100 * low <= n, n <= 100 * high
    PROVE  low <= HalfEven(n) /\ HalfEven(n) <= high
<1>1. /\ n \div 100 \in Nat /\ n % 100 \in 0 .. 99
      /\ n = 100 * (n \div 100) + (n % 100)
  OBVIOUS
<1>2. HalfEven(n) \in {n \div 100, (n \div 100) + 1} /\ (n % 100 = 0 => HalfEven(n) = n \div 100)
  BY <1>1 DEF HalfEven
<1> QED
  BY <1>1, <1>2
===============================================================================
