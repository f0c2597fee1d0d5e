---------------------------- MODULE BasicLemmas ----------------------------
(***************************************************************************)
(* Facts about extreme elements of sets of numbers and about sums over     *)
(* finite sets that the proofs of this project share.                      *)
(***************************************************************************)
EXTENDS Integers, Sequences, FiniteSetsExt, FiniteSetTheorems, SequenceTheorems,
        WellFoundedInduction, TLAPS

(* A set of numbers bounded below has a least element, which is its Min.   *)
LEMMA MinFacts ==
  ASSUME NEW S \in SUBSET Nat, S # {}
  PROVE  Min(S) \in S /\ \A y \in S : Min(S) <= y
<1> DEFINE R == OpToRel(<, Nat)
<1>1. \E x \in S : \A y \in S : ~ (<<y, x>> \in R)
  <2> HIDE DEF R
  <2> QED BY NatLessThanWellFounded, WFMin DEF R
<1>2. \A x, y \in Nat : y < x => <<y, x>> \in R
  BY DEF OpToRel
<1>3. \E x \in S : \A y \in S : x <= y
  <2> HIDE DEF R
  <2>1. PICK x \in S : \A y \in S : ~ (<<y, x>> \in R)
    BY <1>1
  <2>2. \A y \in S : x \in Nat /\ y \in Nat /\ ~ (y < x)
    BY <2>1, <1>2
  <2>3. \A y \in S : x <= y
    BY <2>2
  <2> QED BY <2>3
<1> QED BY <1>3 DEF Min

(* A bounded set of numbers has a greatest element, which is its Max.      *)
LEMMA MaxFacts ==
  ASSUME NEW n \in Nat, NEW S \in SUBSET (0 .. n), S # {}
  PROVE  Max(S) \in S /\ \A y \in S : Max(S) >= y
<1> DEFINE T == {n - x : x \in S}
<1>1. T \in SUBSET Nat /\ T # {}
  <2>1. \A x \in S : x \in 0 .. n /\ n - x \in Nat
    OBVIOUS
  <2> QED BY <2>1
<1>2. Min(T) \in T /\ \A y \in T : Min(T) <= y
  <2> HIDE DEF T
  <2> QED BY <1>1, MinFacts
<1>3. PICK x \in S : Min(T) = n - x
  BY <1>2
<1>4. \A y \in S : x >= y
  <2> TAKE y \in S
  <2>1. n - y \in T
    OBVIOUS
  <2>2. n - x <= n - y
    BY <1>2, <1>3, <2>1
  <2> QED BY <2>2, x \in 0 .. n, y \in 0 .. n
<1> QED BY <1>4 DEF Max
-----------------------------------------------------------------------------
(* Sums over finite sets, as the folds of the community modules form them. *)

AnyOf(s) == CHOOSE x \in s : TRUE
SumStep(w, f, s) == IF s = {} THEN 0 ELSE w[AnyOf(s)] + f[s \ {AnyOf(s)}]
IsSum(w, f, A) == f = [s \in SUBSET A |-> SumStep(w, f, s)]

(* The sums over the subsets of a finite set exist: those over the subsets *)
(* of one more element continue those over the smaller ones.               *)
LEMMA SumExists ==
  ASSUME NEW A, IsFiniteSet(A), NEW w
  PROVE  \E f : IsSum(w, f, A)
<1> DEFINE Upto(n) == {s \in SUBSET A : Cardinality(s) <= n}
           Good(n) == \E f : /\ DOMAIN f = Upto(n)
                             /\ \A s \in Upto(n) : f[s] = SumStep(w, f, s)
           Bad == {n \in Nat : ~ Good(n)}
<1>1. \A s \in SUBSET A : /\ IsFiniteSet(s) /\ Cardinality(s) \in Nat
                          /\ Cardinality(s) <= Cardinality(A)
                          /\ Cardinality(s) = 0 => s = {}
  BY FS_Subset, FS_CardinalityType, FS_EmptySet
<1>2. \A s \in SUBSET A : s # {} => /\ s \ {AnyOf(s)} \in SUBSET A
                                    /\ Cardinality(s \ {AnyOf(s)}) = Cardinality(s) - 1
  <2> SUFFICES ASSUME NEW s \in SUBSET A, s # {}
               PROVE  Cardinality(s \ {AnyOf(s)}) = Cardinality(s) - 1
    OBVIOUS
  <2>1. AnyOf(s) \in s
    BY DEF AnyOf
  <2> QED BY <1>1, <2>1, FS_RemoveElement
<1>3. Good(0)
  <2> DEFINE f == [s \in Upto(0) |-> 0]
  <2>1. \A s \in Upto(0) : s = {}
    BY <1>1
  <2>2. \A s \in Upto(0) : f[s] = SumStep(w, f, s)
    BY <2>1 DEF SumStep
  <2>3. DOMAIN f = Upto(0)
    OBVIOUS
  <2> HIDE DEF f, Upto
  <2> QED BY <2>2, <2>3
<1>4. ASSUME NEW n \in Nat, Good(n)
      PROVE  Good(n + 1)
  <2>1. PICK f : DOMAIN f = Upto(n) /\ \A s \in Upto(n) : f[s] = SumStep(w, f, s)
    BY <1>4
  <2> DEFINE g == [s \in Upto(n + 1) |-> IF s \in Upto(n) THEN f[s] ELSE SumStep(w, f, s)]
  <2>2. Upto(n) \subseteq Upto(n + 1)
    BY <1>1
  <2>3. \A s \in Upto(n + 1) : s # {} => s \ {AnyOf(s)} \in Upto(n)
    BY <1>1, <1>2
  <2>4. DOMAIN g = Upto(n + 1) /\ \A s \in Upto(n + 1) : g[s] = SumStep(w, f, s)
    BY <2>1
  <2>5. \A s \in Upto(n) : g[s] = f[s]
    BY <2>2
  <2> HIDE DEF g, Upto
  <2>6. \A s \in Upto(n + 1) : SumStep(w, f, s) = SumStep(w, g, s)
    BY <2>3, <2>5 DEF SumStep
  <2> QED BY <2>4, <2>6
<1>5. Bad = {}
  <2> SUFFICES ASSUME Bad # {} PROVE FALSE
    OBVIOUS
  <2>1. Min(Bad) \in Bad /\ \A y \in Bad : Min(Bad) <= y
    <3> HIDE DEF Good
    <3> QED BY MinFacts
  <2> DEFINE m == Min(Bad)
  <2> HIDE DEF Good, m
  <2>2. m \in Nat /\ ~ Good(m) /\ \A n \in Nat : ~ Good(n) => m <= n
    BY <2>1 DEF m
  <2>3. m # 0 /\ m - 1 \in Nat
    BY <1>3, <2>2
  <2>4. Good(m - 1)
    BY <2>2, <2>3
  <2>5. Good(m - 1 + 1)
    BY <1>4, <2>3, <2>4
  <2> QED BY <2>2, <2>5
<1>6. Good(Cardinality(A)) /\ Upto(Cardinality(A)) = SUBSET A
  <2>1. Cardinality(A) \in Nat
    BY FS_CardinalityType
  <2> QED BY <1>1, <1>5, <2>1
<1>7. PICK f : DOMAIN f = SUBSET A /\ \A s \in SUBSET A : f[s] = SumStep(w, f, s)
  BY <1>6
<1>8. IsSum(w, [s \in SUBSET A |-> f[s]], A)
  <2> DEFINE g == [s \in SUBSET A |-> f[s]]
  <2>1. \A s \in SUBSET A : SumStep(w, g, s) = SumStep(w, f, s)
    BY <1>2 DEF SumStep
  <2>2. g = [s \in SUBSET A |-> SumStep(w, g, s)]
    BY <1>7, <2>1
  <2> QED BY <2>2 DEF IsSum
<1> QED BY <1>8

(* Sums of natural numbers are natural numbers.                            *)
LEMMA SumTyped ==
  ASSUME NEW A, IsFiniteSet(A), NEW w, \A x \in A : w[x] \in Nat, NEW f, IsSum(w, f, A)
  PROVE  f[A] \in Nat
<1> DEFINE Wrong == {s \in SUBSET A : f[s] \notin Nat}
           Bad == {Cardinality(s) : s \in Wrong}
<1>1. \A s \in SUBSET A : IsFiniteSet(s) /\ Cardinality(s) \in Nat
  BY FS_Subset, FS_CardinalityType
<1>2. \A s \in SUBSET A : f[s] = SumStep(w, f, s)
  BY DEF IsSum
<1>3. Wrong = {}
  <2> SUFFICES ASSUME Wrong # {} PROVE FALSE
    OBVIOUS
  <2>1. Bad \in SUBSET Nat /\ Bad # {}
    BY <1>1
  <2>2. PICK s \in Wrong : \A r \in Wrong : Cardinality(s) <= Cardinality(r)
    <3>1. Min(Bad) \in Bad /\ \A y \in Bad : Min(Bad) <= y
      <4> HIDE DEF Bad
      <4> QED BY <2>1, MinFacts
    <3> QED BY <3>1
  <2>3. s # {}
    <3>1. {} \in SUBSET A /\ SumStep(w, f, {}) = 0
      BY DEF SumStep
    <3>2. f[{}] = 0
      BY <1>2, <3>1
    <3>3. f[s] \notin Nat
      BY <2>2
    <3> QED BY <3>2, <3>3, 0 \in Nat, Zenon
  <2>4. AnyOf(s) \in s
    BY <2>3 DEF AnyOf
  <2>5. s \ {AnyOf(s)} \in SUBSET A /\ Cardinality(s \ {AnyOf(s)}) = Cardinality(s) - 1
    BY <1>1, <2>4, FS_RemoveElement
  <2>6. f[s \ {AnyOf(s)}] \in Nat
    <3>1. ~ (Cardinality(s) <= Cardinality(s) - 1)
      BY <1>1
    <3> QED BY <2>2, <2>5, <3>1
  <2>7. f[s] = w[AnyOf(s)] + f[s \ {AnyOf(s)}]
    BY <1>2, <2>3 DEF SumStep
  <2> QED BY <2>4, <2>6, <2>7
<1> QED BY <1>3
=============================================================================
