------------------------------ MODULE SumProofs ------------------------------
(***************************************************************************)
(* What SumFunction adds up. The induction runs over the subsets of a      *)
(* finite set, by a minimal one that is not as it should be.               *)
(***************************************************************************)
EXTENDS FiniteSetsExt, FiniteSetTheorems, TLAPS

\* Of a family of subsets of a finite set one is minimal.
LEMMA MinimalSubset ==
    ASSUME NEW S, IsFiniteSet(S), NEW B \in SUBSET SUBSET S, B # {}
    PROVE  \E T \in B : \A U \in B : U \subseteq T => U = T
<1>1. IsWellFoundedOn(StrictSubsetOrdering(S), SUBSET S)
  BY FS_StrictSubsetOrderingWellFounded, FS_FiniteSubsetsOfFinite
<1>2. PICK T \in B : \A U \in B : ~ (<<U, T>> \in StrictSubsetOrdering(S))
  BY <1>1, WFMin
<1>3. QED
  BY <1>2 DEF StrictSubsetOrdering

\* Induction over the subsets of a finite set: a family that has the empty set
\* and, with a set, the sets of one element more has them all.
LEMMA SubsetInduction ==
    ASSUME NEW S, IsFiniteSet(S), NEW G \in SUBSET SUBSET S,
           {} \in G,
           \A T \in SUBSET S : \A x \in T : T \ {x} \in G => T \in G
    PROVE  G = SUBSET S
<1> DEFINE B == (SUBSET S) \ G
<1>1. SUFFICES ASSUME B # {} PROVE FALSE
  <2>1. B = {} => SUBSET S \subseteq G
    OBVIOUS
  <2>2. QED
    BY <2>1
<1>2. PICK T \in B : \A U \in B : U \subseteq T => U = T
  <2>1. B \in SUBSET SUBSET S
    OBVIOUS
  <2> HIDE DEF B
  <2>2. QED
    BY <1>1, <2>1, MinimalSubset
<1>3. T # {}
  BY <1>2
<1>4. PICK x \in T : TRUE
  BY <1>3
<1>5. T \ {x} \in SUBSET S /\ T \ {x} \subseteq T /\ T \ {x} # T
  BY <1>4, <1>2
<1>6. T \ {x} \in G
  BY <1>5, <1>2
<1>7. QED
  BY <1>6, <1>4, <1>2

\* A measure of the subsets of S that counts b[x] for every element x.
Additive(g, b, S) ==
    /\ g \in [SUBSET S -> Nat]
    /\ g[{}] = 0
    /\ \A T \in SUBSET S : \A x \in T : g[T] = b[x] + g[T \ {x}]

\* There is one, whatever the natural numbers b.
LEMMA AdditiveExists ==
    ASSUME NEW S, IsFiniteSet(S), NEW b \in [S -> Nat]
    PROVE  \E g : Additive(g, b, S)
<1> DEFINE G == {T \in SUBSET S : \E g : Additive(g, b, T)}
<1>1. {} \in G
  <2> DEFINE g == [T \in SUBSET {} |-> 0]
  <2>1. Additive(g, b, {})
    BY DEF Additive
  <2>2. QED
    BY <2>1
<1>2. ASSUME NEW T \in SUBSET S, NEW x \in T, T \ {x} \in G
      PROVE  T \in G
  <2>1. PICK g : Additive(g, b, T \ {x})
    BY <1>2
  <2> DEFINE h == [U \in SUBSET T |->
                      IF x \in U THEN b[x] + g[U \ {x}] ELSE g[U]]
  <2>2. \A U \in SUBSET T : /\ U \ {x} \in SUBSET (T \ {x})
                            /\ x \notin U => U \in SUBSET (T \ {x})
    OBVIOUS
  <2>3. b[x] \in Nat /\ g \in [SUBSET (T \ {x}) -> Nat] /\ g[{}] = 0
    BY <2>1 DEF Additive
  <2>4. h \in [SUBSET T -> Nat]
    BY <2>2, <2>3
  <2>5. h[{}] = 0
    BY <2>3
  <2>6. ASSUME NEW U \in SUBSET T, NEW y \in U
        PROVE  h[U] = b[y] + h[U \ {y}]
    <3>1. CASE y = x
      BY <3>1, <2>2
    <3>2. CASE y # x
      <4>1. U \ {y} \in SUBSET T /\ b[y] \in Nat
        OBVIOUS
      <4>2. CASE x \in U
        <5> DEFINE V == U \ {x}
        <5>1. V \in SUBSET (T \ {x}) /\ y \in V
          BY <3>2
        <5>2. g[V] = b[y] + g[V \ {y}]
          BY <5>1, <2>1 DEF Additive
        <5>3. (U \ {y}) \ {x} = V \ {y} /\ x \in U \ {y}
          BY <4>2, <3>2
        <5>4. h[U] = b[x] + g[V] /\ h[U \ {y}] = b[x] + g[V \ {y}]
          BY <4>1, <4>2, <5>3
        <5>5. g[V \ {y}] \in Nat
          BY <5>1, <2>3
        <5> HIDE DEF h, V
        <5>6. QED
          BY <5>2, <5>4, <5>5, <4>1, <2>3
      <4>3. CASE x \notin U
        <5>1. U \in SUBSET (T \ {x}) /\ x \notin U \ {y}
          BY <4>3
        <5>2. g[U] = b[y] + g[U \ {y}]
          BY <5>1, <2>1 DEF Additive
        <5>3. h[U] = g[U] /\ h[U \ {y}] = g[U \ {y}]
          BY <4>1, <4>3, <5>1
        <5>4. QED
          BY <5>2, <5>3
      <4>4. QED
        BY <4>2, <4>3
    <3>3. QED
      BY <3>1, <3>2
  <2> HIDE DEF h
  <2>7. Additive(h, b, T)
    BY <2>4, <2>5, <2>6 DEF Additive
  <2>8. QED
    BY <2>7
<1> HIDE DEF G
<1>3. G \in SUBSET SUBSET S
  BY DEF G
<1>4. G = SUBSET S
  BY <1>1, <1>2, <1>3, SubsetInduction
<1>5. QED
  BY <1>4 DEF G

\* What the fold of SumFunction is the CHOOSE of.
Folds(iter, b, S) ==
    iter = [s \in SUBSET S |->
               IF s = {} THEN 0
               ELSE b[CHOOSE x \in s : TRUE] + iter[s \ {CHOOSE x \in s : TRUE}]]

\* The fold is the additive measure, and there is no other.
LEMMA FoldIsAdditive ==
    ASSUME NEW S, IsFiniteSet(S), NEW b \in [S -> Nat], NEW g, Additive(g, b, S),
           NEW iter
    PROVE  Folds(iter, b, S) <=> iter = g
<1>1. \A s \in SUBSET S : s # {} => (CHOOSE x \in s : TRUE) \in s
  OBVIOUS
<1>2. Folds(g, b, S)
  <2>1. \A s \in SUBSET S :
           g[s] = IF s = {} THEN 0
                  ELSE b[CHOOSE x \in s : TRUE] + g[s \ {CHOOSE x \in s : TRUE}]
    BY <1>1 DEF Additive
  <2>2. g = [s \in SUBSET S |-> g[s]]
    BY DEF Additive
  <2>3. QED
    BY <2>1, <2>2 DEF Folds
<1>3. ASSUME Folds(iter, b, S) PROVE iter = g
  <2> DEFINE B == {s \in SUBSET S : iter[s] # g[s]}
  <2>1. iter = [s \in SUBSET S |-> iter[s]] /\ g = [s \in SUBSET S |-> g[s]]
    BY <1>3 DEF Folds, Additive
  <2>2. \A s \in SUBSET S :
           iter[s] = IF s = {} THEN 0
                     ELSE b[CHOOSE x \in s : TRUE] + iter[s \ {CHOOSE x \in s : TRUE}]
    BY <1>3 DEF Folds
  <2>3. CASE B = {}
    <3>1. \A s \in SUBSET S : iter[s] = g[s]
      BY <2>3
    <3>2. QED
      BY <2>1, <3>1
  <2>4. CASE B # {}
    <3>1. B \in SUBSET SUBSET S
      OBVIOUS
    <3>2. PICK T \in B : \A U \in B : U \subseteq T => U = T
      <4> HIDE DEF B
      <4>1. QED
        BY <2>4, <3>1, MinimalSubset
    <3>3. T \in SUBSET S /\ iter[T] # g[T]
      BY <3>2
    <3>4. T # {}
      <4>1. {} \in SUBSET S
        OBVIOUS
      <4>2. iter[{}] = 0 /\ g[{}] = 0
        BY <2>2, <4>1 DEF Additive
      <4>3. QED
        BY <3>3, <4>2
    <3>5. PICK x : x = (CHOOSE y \in T : TRUE) /\ x \in T
      BY <3>4
    <3>6. iter[T] = b[x] + iter[T \ {x}]
      BY <2>2, <3>3, <3>4, <3>5
    <3>7. g[T] = b[x] + g[T \ {x}]
      BY <3>3, <3>5 DEF Additive
    <3>8. T \ {x} \in SUBSET S /\ T \ {x} \notin B
      BY <3>2, <3>3, <3>5
    <3>9. iter[T \ {x}] = g[T \ {x}]
      BY <3>8
    <3>10. QED
      BY <3>3, <3>6, <3>7, <3>9
  <2>5. QED
    BY <2>3, <2>4
<1>4. QED
  BY <1>2, <1>3

\* SumFunction is the additive measure of the whole domain.
LEMMA SumIsAdditive ==
    ASSUME NEW S, IsFiniteSet(S), NEW b \in [S -> Nat], NEW g, Additive(g, b, S)
    PROVE  SumFunction(b) = g[S]
<1>1. \A iter : Folds(iter, b, S) <=> iter = g
  BY FoldIsAdditive
<1>2. (CHOOSE iter : Folds(iter, b, S)) = g
  BY <1>1
<1>3. SumFunction(b) = (CHOOSE iter : Folds(iter, b, S))[S]
  BY DEF SumFunction, SumFunctionOnSet, FoldFunctionOnSet, MapThenFoldSet, Folds
<1>4. QED
  BY <1>2, <1>3

\* A sum of natural numbers is one.
LEMMA SumIsNat ==
    ASSUME NEW S, IsFiniteSet(S), NEW b \in [S -> Nat]
    PROVE  SumFunction(b) \in Nat
<1>1. PICK g : Additive(g, b, S)
  BY AdditiveExists
<1>2. SumFunction(b) = g[S]
  BY <1>1, SumIsAdditive
<1>3. QED
  BY <1>1, <1>2 DEF Additive

\* Nothing adds up to 0.
LEMMA SumOfNothing ==
    ASSUME NEW S, S = {}, NEW b \in [S -> Nat]
    PROVE  SumFunction(b) = 0
<1>1. IsFiniteSet(S)
  BY FS_EmptySet
<1>2. PICK g : Additive(g, b, S)
  BY <1>1, AdditiveExists
<1>3. SumFunction(b) = g[S]
  BY <1>1, <1>2, SumIsAdditive
<1>4. QED
  BY <1>2, <1>3 DEF Additive

\* One summand taken out of a sum.
LEMMA SumWithout ==
    ASSUME NEW S, IsFiniteSet(S), NEW b \in [S -> Nat], NEW x \in S
    PROVE  SumFunction(b) = b[x] + SumFunction([y \in S \ {x} |-> b[y]])
<1> DEFINE c == [y \in S \ {x} |-> b[y]]
<1>1. PICK g : Additive(g, b, S)
  BY AdditiveExists
<1> DEFINE h == [T \in SUBSET (S \ {x}) |-> g[T]]
<1>2. IsFiniteSet(S \ {x}) /\ c \in [S \ {x} -> Nat]
  BY FS_RemoveElement
<1>3. Additive(h, c, S \ {x})
  <2>1. h \in [SUBSET (S \ {x}) -> Nat] /\ h[{}] = 0
    BY <1>1 DEF Additive
  <2>2. ASSUME NEW T \in SUBSET (S \ {x}), NEW y \in T
        PROVE  h[T] = c[y] + h[T \ {y}]
    <3>1. T \in SUBSET S /\ T \ {y} \in SUBSET (S \ {x}) /\ y \in S \ {x}
      OBVIOUS
    <3>2. g[T] = b[y] + g[T \ {y}]
      BY <1>1, <3>1 DEF Additive
    <3>3. QED
      BY <3>1, <3>2
  <2> HIDE DEF h, c
  <2>3. QED
    BY <2>1, <2>2 DEF Additive
<1>4. h[S \ {x}] = g[S \ {x}]
  OBVIOUS
<1>5. SumFunction(c) = h[S \ {x}]
  <2> HIDE DEF h, c
  <2>1. QED
    BY <1>2, <1>3, SumIsAdditive
<1>6. SumFunction(b) = g[S] /\ g[S] = b[x] + g[S \ {x}]
  <2>1. S \in SUBSET S
    OBVIOUS
  <2>2. QED
    BY <2>1, <1>1, SumIsAdditive DEF Additive
<1>7. QED
  BY <1>4, <1>5, <1>6

\* Summands renamed one to one add up to the same.
LEMMA SumRenamed ==
    ASSUME NEW S, IsFiniteSet(S), NEW T, NEW b \in [T -> Nat],
           NEW f \in [S -> T],
           \A y \in T : \E x \in S : f[x] = y,
           \A x, y \in S : f[x] = f[y] => x = y
    PROVE  SumFunction(b) = SumFunction([x \in S |-> b[f[x]]])
<1> DEFINE c == [x \in S |-> b[f[x]]]
<1> DEFINE Image(U) == {f[x] : x \in U}
<1>1. Image(S) = T
  OBVIOUS
<1>2. IsFiniteSet(T)
  <2>1. f \in Surjection(S, T)
    BY DEF Surjection
  <2>2. QED
    BY <2>1, FS_Surjection
<1>3. PICK g : Additive(g, b, T)
  BY <1>2, AdditiveExists
<1> DEFINE h == [U \in SUBSET S |-> g[Image(U)]]
<1>4. \A U \in SUBSET S : Image(U) \in SUBSET T
  OBVIOUS
<1>5. c \in [S -> Nat]
  OBVIOUS
<1>6. Additive(h, c, S)
  <2>1. h \in [SUBSET S -> Nat]
    <3> HIDE DEF Image
    <3>1. QED
      BY <1>3, <1>4 DEF Additive
  <2>2. h[{}] = 0
    <3>1. Image({}) = {} /\ {} \in SUBSET S
      OBVIOUS
    <3> HIDE DEF Image
    <3>2. QED
      BY <3>1, <1>3 DEF Additive
  <2>3. ASSUME NEW U \in SUBSET S, NEW x \in U
        PROVE  h[U] = c[x] + h[U \ {x}]
    <3>1. Image(U \ {x}) = Image(U) \ {f[x]} /\ f[x] \in Image(U)
      OBVIOUS
    <3>2. U \ {x} \in SUBSET S /\ x \in S
      OBVIOUS
    <3>3. h[U] = g[Image(U)] /\ h[U \ {x}] = g[Image(U \ {x})] /\ c[x] = b[f[x]]
      <4> HIDE DEF Image
      <4>1. QED
        BY <3>2
    <3> HIDE DEF Image, h, c
    <3>4. g[Image(U)] = b[f[x]] + g[Image(U) \ {f[x]}]
      BY <3>1, <1>3, <1>4 DEF Additive
    <3>5. QED
      BY <3>1, <3>3, <3>4
  <2> HIDE DEF h, c, Image
  <2>4. QED
    BY <2>1, <2>2, <2>3 DEF Additive
<1>7. h[S] = g[T]
  <2>1. h[S] = g[Image(S)]
    <3> HIDE DEF Image
    <3>1. QED
      OBVIOUS
  <2>2. QED
    BY <1>1, <2>1
<1>8. SumFunction(b) = g[T]
  BY <1>2, <1>3, SumIsAdditive
<1>9. SumFunction(c) = h[S]
  <2> HIDE DEF h, c, Image
  <2>1. QED
    BY <1>5, <1>6, SumIsAdditive
<1>10. QED
  BY <1>7, <1>8, <1>9
=============================================================================
