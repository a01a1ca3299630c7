----------------------------- MODULE SumTheorems -----------------------------
(***************************************************************************)
(* Facts about least and greatest members, sums over finite sets and folds *)
(* over sequences, for the proofs of the components.                       *)
(***************************************************************************)
EXTENDS Integers, Sequences, FiniteSets, FiniteSetsExt, SequencesExt,
        FiniteSetTheorems, WellFoundedInduction, SequenceTheorems, TLAPS

-----------------------------------------------------------------------------
(* Sums *)

\* MapThenSumSet as a sum over a set, with its table of partial sums.
Some(S) == CHOOSE x \in S : TRUE
SumStep(f, g, s) == IF s = {} THEN 0 ELSE f[Some(s)] + g[s \ {Some(s)}]
IsSums(f, g, S) == g = [s \in SUBSET S |-> SumStep(f, g, s)]
Sums(f, S) == CHOOSE g : IsSums(f, g, S)
Sum(f, S) == Sums(f, S)[S]

\* What CHOOSE picks of a set that is not empty is in it.
LEMMA SomeIsIn ==
  ASSUME NEW S, S # {}
  PROVE  Some(S) \in S
  BY DEF Some

\* Sets of subsets of a finite set have a smallest element: the way to argue by
\* induction here, on the smallest set for which a claim fails.
LEMMA SmallestSet ==
  ASSUME NEW S, IsFiniteSet(S), NEW B \in SUBSET SUBSET S, B # {}
  PROVE  \E s \in B : \A t \in B : t \subseteq s => t = s
<1>1. SUBSET S = FiniteSubsetsOf(S)
  BY FS_FiniteSubsetsOfFinite
<1>2. IsWellFoundedOn(StrictSubsetOrdering(S), SUBSET S)
  BY <1>1, FS_StrictSubsetOrderingWellFounded
<1>3. PICK s \in B : \A t \in B : <<t, s>> \notin StrictSubsetOrdering(S)
  BY <1>2, WFMin, Zenon
<1>4. \A t \in B : t \subseteq s => t = s
  BY <1>3 DEF StrictSubsetOrdering
<1> QED BY <1>4

\* Two tables of the sums of f agree wherever both are defined.
LEMMA SumsAgree ==
  ASSUME NEW f, NEW S, NEW T, NEW g, NEW h, IsFiniteSet(S),
         IsSums(f, g, S), IsSums(f, h, T)
  PROVE  \A s \in SUBSET S : s \subseteq T => g[s] = h[s]
<1> DEFINE B == {s \in SUBSET S : s \subseteq T /\ g[s] # h[s]}
<1> SUFFICES ASSUME B # {} PROVE FALSE
  OBVIOUS
<1>1. PICK s \in B : \A t \in B : t \subseteq s => t = s
  <2>1. B \in SUBSET SUBSET S
    OBVIOUS
  <2> HIDE DEF B
  <2> QED BY <2>1, SmallestSet
<1>2. g[s] = SumStep(f, g, s) /\ h[s] = SumStep(f, h, s)
  BY DEF IsSums
<1>3. s # {}
  BY <1>2 DEF SumStep
<1> DEFINE t == s \ {Some(s)}
<1>4. t \subseteq s /\ t # s
  BY <1>3, SomeIsIn
<1>5. g[t] = h[t]
  BY <1>1, <1>4
<1>6. g[s] = h[s]
  BY <1>2, <1>3, <1>5 DEF SumStep
<1> QED BY <1>6

\* There is such a table.
LEMMA SumsExist ==
  ASSUME NEW f, NEW S, IsFiniteSet(S)
  PROVE  IsSums(f, Sums(f, S), S)
<1> DEFINE B == {s \in SUBSET S : ~IsSums(f, Sums(f, s), s)}
<1> SUFFICES ASSUME B # {} PROVE FALSE
  OBVIOUS
<1>1. PICK s \in B : \A t \in B : t \subseteq s => t = s
  <2>1. B \in SUBSET SUBSET S
    OBVIOUS
  <2> HIDE DEF B
  <2> QED BY <2>1, SmallestSet
<1>2. \A t \in SUBSET s : t # s => IsSums(f, Sums(f, t), t)
  BY <1>1
<1>3. \A t \in SUBSET s : IsFiniteSet(t)
  BY FS_Subset
<1> DEFINE g == [t \in SUBSET s |->
                   IF t = s THEN SumStep(f, [u \in SUBSET s |-> Sum(f, u)], s)
                   ELSE Sum(f, t)]
<1>4. \A t \in SUBSET s : g[t] = SumStep(f, g, t)
  <2> SUFFICES ASSUME NEW t \in SUBSET s PROVE g[t] = SumStep(f, g, t)
    OBVIOUS
  <2> DEFINE u == t \ {Some(t)}
  <2>1. CASE t = {}
    <3>1. t # s => t \in SUBSET t /\ IsSums(f, Sums(f, t), t)
      BY <1>2
    <3>2. t # s => Sum(f, t) = SumStep(f, Sums(f, t), t)
      BY <3>1 DEF IsSums, Sum
    <3> QED BY <2>1, <3>2 DEF SumStep
  <2>2. CASE t # {} /\ t = s
    <3>1. u \in SUBSET s /\ u # s
      BY <2>2, SomeIsIn
    <3>2. g[u] = Sum(f, u) /\ g[s] = f[Some(s)] + Sum(f, u)
      BY <2>2, <3>1 DEF SumStep
    <3> QED BY <2>2, <3>2 DEF SumStep
  <2>3. CASE t # {} /\ t # s
    <3>1. u \in SUBSET t /\ u # t /\ u \in SUBSET s /\ u # s
      BY <2>3, SomeIsIn
    <3>2. IsSums(f, Sums(f, t), t) /\ IsSums(f, Sums(f, u), u)
      BY <1>2, <2>3, <3>1
    <3>3. Sums(f, t)[u] = Sum(f, u)
      BY <1>3, <3>1, <3>2, SumsAgree DEF Sum
    <3>4. Sum(f, t) = f[Some(t)] + Sums(f, t)[u]
      BY <2>3, <3>2 DEF IsSums, Sum, SumStep
    <3>5. g[t] = Sum(f, t) /\ g[u] = Sum(f, u)
      BY <2>3, <3>1
    <3> QED BY <2>3, <3>3, <3>4, <3>5 DEF SumStep
  <2> QED BY <2>1, <2>2, <2>3
<1>5. IsSums(f, g, s)
  BY <1>4 DEF IsSums
<1>6. IsSums(f, Sums(f, s), s)
  BY <1>5 DEF Sums
<1> QED BY <1>6

\* A sum is its first term and the rest.
LEMMA SumUnfolds ==
  ASSUME NEW f, NEW S, IsFiniteSet(S)
  PROVE  Sum(f, S) = IF S = {} THEN 0 ELSE f[Some(S)] + Sum(f, S \ {Some(S)})
<1> DEFINE t == S \ {Some(S)}
<1>1. IsSums(f, Sums(f, S), S) /\ IsSums(f, Sums(f, t), t) /\ IsFiniteSet(t)
  BY SumsExist, FS_Subset
<1>2. Sum(f, S) = IF S = {} THEN 0 ELSE f[Some(S)] + Sums(f, S)[t]
  BY <1>1 DEF IsSums, Sum, SumStep
<1>3. Sums(f, S)[t] = Sum(f, t)
  BY <1>1, SumsAgree DEF Sum
<1> QED BY <1>2, <1>3

\* A sum of natural numbers is one.
LEMMA SumIsNat ==
  ASSUME NEW f, NEW S, IsFiniteSet(S), \A x \in S : f[x] \in Nat
  PROVE  Sum(f, S) \in Nat
<1> DEFINE B == {s \in SUBSET S : Sum(f, s) \notin Nat}
<1> SUFFICES ASSUME B # {} PROVE FALSE
  OBVIOUS
<1>1. PICK s \in B : \A t \in B : t \subseteq s => t = s
  <2>1. B \in SUBSET SUBSET S
    OBVIOUS
  <2> HIDE DEF B
  <2> QED BY <2>1, SmallestSet
<1> DEFINE t == s \ {Some(s)}
<1>2. Sum(f, s) = IF s = {} THEN 0 ELSE f[Some(s)] + Sum(f, t)
  BY FS_Subset, SumUnfolds
<1>3. CASE s = {}
  BY <1>2, <1>3
<1>4. CASE s # {}
  <2>1. t \in SUBSET S /\ t # s /\ t \subseteq s /\ f[Some(s)] \in Nat
    BY <1>4, SomeIsIn
  <2>2. Sum(f, t) \in Nat
    BY <1>1, <2>1
  <2> QED BY <1>2, <1>4, <2>1, <2>2
<1> QED BY <1>3, <1>4

\* The order in which a sum takes its terms does not matter.
LEMMA SumTakesAny ==
  ASSUME NEW f, NEW S, IsFiniteSet(S), \A x \in S : f[x] \in Nat
  PROVE  \A x \in S : Sum(f, S) = f[x] + Sum(f, S \ {x})
<1> DEFINE B == {s \in SUBSET S : \E x \in s : Sum(f, s) # f[x] + Sum(f, s \ {x})}
<1> SUFFICES ASSUME B # {} PROVE FALSE
  OBVIOUS
<1>1. PICK s \in B : \A t \in B : t \subseteq s => t = s
  <2>1. B \in SUBSET SUBSET S
    OBVIOUS
  <2> HIDE DEF B
  <2> QED BY <2>1, SmallestSet
<1>2. PICK x \in s : Sum(f, s) # f[x] + Sum(f, s \ {x})
  OBVIOUS
<1> DEFINE y == Some(s)
<1> DEFINE t == s \ {x, y}
<1>3. y \in s /\ IsFiniteSet(s) /\ IsFiniteSet(t) /\ t \subseteq S
  BY <1>2, SomeIsIn, FS_Subset
<1>4. Sum(f, s) = f[y] + Sum(f, s \ {y})
  BY <1>2, <1>3, SumUnfolds
<1>5. x # y
  BY <1>2, <1>4
<1>6. Sum(f, s \ {y}) = f[x] + Sum(f, t)
  <2>1. s \ {y} \in SUBSET S /\ s \ {y} \subseteq s /\ s \ {y} # s /\ x \in s \ {y}
    BY <1>3, <1>5
  <2>2. (s \ {y}) \ {x} = t
    OBVIOUS
  <2> QED BY <1>1, <2>1, <2>2
<1>7. Sum(f, s \ {x}) = f[y] + Sum(f, t)
  <2>1. s \ {x} \in SUBSET S /\ s \ {x} \subseteq s /\ s \ {x} # s /\ y \in s \ {x}
    BY <1>3, <1>5
  <2>2. (s \ {x}) \ {y} = t
    OBVIOUS
  <2> QED BY <1>1, <2>1, <2>2
<1>8. f[x] \in Nat /\ f[y] \in Nat /\ Sum(f, t) \in Nat
  BY <1>3, SumIsNat
<1>9. Sum(f, s) = f[x] + Sum(f, s \ {x})
  BY <1>4, <1>6, <1>7, <1>8
<1> QED BY <1>2, <1>9

\* Equal terms give equal sums.
LEMMA SumOfSameTerms ==
  ASSUME NEW f, NEW g, NEW S, IsFiniteSet(S), \A x \in S : f[x] = g[x]
  PROVE  Sum(f, S) = Sum(g, S)
<1> DEFINE B == {s \in SUBSET S : Sum(f, s) # Sum(g, s)}
<1> SUFFICES ASSUME B # {} PROVE FALSE
  OBVIOUS
<1>1. PICK s \in B : \A t \in B : t \subseteq s => t = s
  <2>1. B \in SUBSET SUBSET S
    OBVIOUS
  <2> HIDE DEF B
  <2> QED BY <2>1, SmallestSet
<1> DEFINE t == s \ {Some(s)}
<1>2. /\ Sum(f, s) = IF s = {} THEN 0 ELSE f[Some(s)] + Sum(f, t)
      /\ Sum(g, s) = IF s = {} THEN 0 ELSE g[Some(s)] + Sum(g, t)
  BY FS_Subset, SumUnfolds
<1>3. CASE s = {}
  BY <1>2, <1>3
<1>4. CASE s # {}
  <2>1. t \in SUBSET S /\ t # s /\ t \subseteq s /\ f[Some(s)] = g[Some(s)]
    BY <1>4, SomeIsIn
  <2>2. Sum(f, t) = Sum(g, t)
    BY <1>1, <2>1
  <2> QED BY <1>2, <1>4, <2>1, <2>2
<1> QED BY <1>3, <1>4

\* Terms that are 0 add up to 0.
LEMMA SumOfNothing ==
  ASSUME NEW f, NEW S, IsFiniteSet(S), \A x \in S : f[x] = 0
  PROVE  Sum(f, S) = 0
<1> DEFINE B == {s \in SUBSET S : Sum(f, s) # 0}
<1> SUFFICES ASSUME B # {} PROVE FALSE
  OBVIOUS
<1>1. PICK s \in B : \A t \in B : t \subseteq s => t = s
  <2>1. B \in SUBSET SUBSET S
    OBVIOUS
  <2> HIDE DEF B
  <2> QED BY <2>1, SmallestSet
<1> DEFINE t == s \ {Some(s)}
<1>2. Sum(f, s) = IF s = {} THEN 0 ELSE f[Some(s)] + Sum(f, t)
  BY FS_Subset, SumUnfolds
<1>3. CASE s = {}
  BY <1>2, <1>3
<1>4. CASE s # {}
  <2>1. t \in SUBSET S /\ t # s /\ t \subseteq s /\ f[Some(s)] = 0
    BY <1>4, SomeIsIn
  <2>2. Sum(f, t) = 0
    BY <1>1, <2>1
  <2> QED BY <1>2, <1>4, <2>1, <2>2
<1> QED BY <1>3, <1>4

-----------------------------------------------------------------------------
(* Least and greatest numbers *)

\* A set of numbers that is not empty has a least: the way to argue by
\* induction on a position, on the first one for which a claim fails.
LEMMA LeastNumber ==
  ASSUME NEW B \in SUBSET Nat, B # {}
  PROVE  \E m \in B : \A k \in B : m <= k
<1>1. PICK m \in B : \A k \in B : <<k, m>> \notin OpToRel(<, Nat)
  BY NatLessThanWellFounded, WFMin, Zenon
<1>2. \A k \in B : ~(k < m)
  BY <1>1 DEF OpToRel
<1> QED BY <1>2

\* Min finds it.
LEMMA MinIsLeast ==
  ASSUME NEW S \in SUBSET Nat, S # {}
  PROVE  Min(S) \in S /\ \A x \in S : Min(S) <= x
  BY LeastNumber DEF Min

\* Max finds the greatest of a bounded set.
LEMMA MaxIsGreatest ==
  ASSUME NEW n \in Nat, NEW S \in SUBSET (1..n), S # {}
  PROVE  Max(S) \in S /\ \A x \in S : x <= Max(S)
<1> DEFINE B == {n - x : x \in S}
<1>1. PICK m \in B : \A k \in B : m <= k
  <2>1. \A x \in S : n - x \in Nat
    OBVIOUS
  <2>2. B \in SUBSET Nat /\ B # {}
    BY <2>1
  <2> HIDE DEF B
  <2> QED BY <2>2, LeastNumber
<1>2. PICK x \in S : m = n - x
  OBVIOUS
<1>3. \A y \in S : y <= x
  <2> SUFFICES ASSUME NEW y \in S PROVE y <= x
    OBVIOUS
  <2>1. m <= n - y
    BY <1>1
  <2> QED BY <1>2, <2>1
<1> QED BY <1>2, <1>3 DEF Max

-----------------------------------------------------------------------------
(* Comparisons *)

\* A sum is no greater than another one when every term of it has a term of its
\* own there that is no smaller.
LEMMA SumDominates ==
  ASSUME NEW f, NEW S, IsFiniteSet(S), \A x \in S : f[x] \in Nat,
         NEW g, NEW T, IsFiniteSet(T), \A y \in T : g[y] \in Nat,
         NEW h, \A x \in S : h[x] \in T /\ f[x] <= g[h[x]],
         \A x, y \in S : h[x] = h[y] => x = y
  PROVE  Sum(f, S) <= Sum(g, T)
<1> DEFINE Over(s, t) == (\A x \in s : h[x] \in t) => Sum(f, s) <= Sum(g, t)
<1> DEFINE B == {s \in SUBSET S : \E t \in SUBSET T : ~Over(s, t)}
<1>1. CASE B = {}
  <2>1. S \notin B
    BY <1>1
  <2>2. Over(S, T)
    BY <2>1
  <2> QED BY <2>2
<1>2. CASE B # {}
  <2>1. PICK s \in B : \A u \in B : u \subseteq s => u = s
    <3>1. B \in SUBSET SUBSET S
      OBVIOUS
    <3> HIDE DEF B
    <3> QED BY <1>2, <3>1, SmallestSet
  <2>2. PICK t \in SUBSET T : (\A x \in s : h[x] \in t) /\ ~(Sum(f, s) <= Sum(g, t))
    OBVIOUS
  <2>3. s \in SUBSET S /\ IsFiniteSet(s) /\ IsFiniteSet(t)
    BY FS_Subset
  <2>4. Sum(f, s) \in Nat /\ Sum(g, t) \in Nat
    BY <2>3, SumIsNat
  <2>5. s # {}
    <3> SUFFICES ASSUME s = {} PROVE FALSE
      OBVIOUS
    <3>1. Sum(f, s) = 0
      BY <2>3, SumUnfolds
    <3> QED BY <2>2, <2>4, <3>1
  <2> DEFINE x == Some(s)
  <2> DEFINE u == s \ {x}
  <2> DEFINE v == t \ {h[x]}
  <2>6. x \in s /\ h[x] \in t /\ f[x] <= g[h[x]] /\ f[x] \in Nat /\ g[h[x]] \in Nat
    BY <2>2, <2>3, <2>5, SomeIsIn
  <2>7. Sum(f, s) = f[x] + Sum(f, u)
    BY <2>3, <2>6, SumTakesAny
  <2>8. Sum(g, t) = g[h[x]] + Sum(g, v)
    <3>1. \A y \in t : g[y] \in Nat
      OBVIOUS
    <3> HIDE DEF x
    <3> QED BY <2>3, <2>6, <3>1, SumTakesAny
  <2>9. u \in SUBSET S /\ v \in SUBSET T /\ u \subseteq s /\ u # s /\ \A y \in u : h[y] \in v
    BY <2>2, <2>3, <2>6
  <2>10. u \notin B
    BY <2>1, <2>9
  <2>11. Sum(f, u) <= Sum(g, v)
    BY <2>9, <2>10
  <2>12. Sum(f, u) \in Nat /\ Sum(g, v) \in Nat
    <3>1. IsFiniteSet(u) /\ IsFiniteSet(v)
      BY <2>3, FS_Subset
    <3> QED BY <2>9, <3>1, SumIsNat
  <2> HIDE DEF x, u, v
  <2> QED BY <2>2, <2>4, <2>6, <2>7, <2>8, <2>11, <2>12
<1> QED BY <1>1, <1>2

\* What a function gives for the members of a finite set is finite.
LEMMA ImageIsFinite ==
  ASSUME NEW S, IsFiniteSet(S), NEW f
  PROVE  IsFiniteSet({f[x] : x \in S})
<1> DEFINE T == {f[x] : x \in S}
<1> DEFINE g == [x \in S |-> f[x]]
<1>1. g \in Surjection(S, T)
  BY DEF Surjection
<1> HIDE DEF g, T
<1>2. IsFiniteSet(T)
  BY <1>1, FS_Surjection
<1> QED BY <1>2 DEF T

-----------------------------------------------------------------------------
(* Folds over sequences *)

\* A step of a fold over the first positions of a sequence, with its table of
\* the parts: the fold of the others, and the last position among them.
FoldStep(base, op, g, s) ==
    IF s = {} THEN base ELSE op[<<g[s \ {Max(s)}], Max(s)>>]

IsFold(n, V, base, op, g) ==
    /\ g \in [SUBSET (1..n) -> V]
    /\ \A s \in SUBSET (1..n) : g[s] = FoldStep(base, op, g, s)

\* There is such a table for every step that keeps within a set.
LEMMA FoldExists ==
  ASSUME NEW n \in Nat, NEW V, NEW base \in V, NEW op \in [V \X (1..n) -> V]
  PROVE  \E g : IsFold(n, V, base, op, g)
<1> DEFINE B == {k \in 0..n : ~\E g : IsFold(k, V, base, op, g)}
<1>1. CASE B = {}
  <2>1. n \notin B /\ n \in 0..n
    BY <1>1
  <2> QED BY <2>1
<1>2. CASE B # {}
  <2>1. PICK k \in B : \A j \in B : k <= j
    <3>1. B \in SUBSET Nat
      OBVIOUS
    <3> HIDE DEF B
    <3> QED BY <1>2, <3>1, LeastNumber
  <2>2. k # 0
    <3> SUFFICES ASSUME k = 0 PROVE FALSE
      OBVIOUS
    <3> DEFINE g == [s \in SUBSET (1..k) |-> base]
    <3>1. SUBSET (1..k) = {{}}
      OBVIOUS
    <3>2. IsFold(k, V, base, op, g)
      BY <3>1 DEF FoldStep, IsFold
    <3> QED BY <3>2
  <2>3. k - 1 \in 0..n /\ k - 1 \notin B /\ k \in 1..n
    <3>1. k \in 0..n
      OBVIOUS
    <3> HIDE DEF B
    <3>2. k - 1 \in 0..n /\ k \in 1..n /\ ~(k <= k - 1)
      BY <2>2, <3>1
    <3> QED BY <2>1, <3>2
  <2>4. PICK f : IsFold(k - 1, V, base, op, f)
    BY <2>3
  <2> DEFINE D == SUBSET (1..k)
  <2> DEFINE E == SUBSET (1..(k - 1))
  <2>5. /\ E \subseteq D
        /\ \A s \in D : k \in s => s \ {k} \in E /\ Max(s) = k
        /\ \A s \in D : k \notin s => s \in E
    <3>1. E \subseteq D /\ \A s \in D : k \notin s => s \in E
      BY <2>3
    <3>2. ASSUME NEW s \in D, k \in s PROVE s \ {k} \in E /\ Max(s) = k
      <4>1. Max(s) \in s /\ \A x \in s : x <= Max(s)
        <5>1. k \in Nat /\ s \in SUBSET (1..k) /\ s # {}
          BY <2>3, <3>2
        <5> QED BY <5>1, MaxIsGreatest
      <4>2. \A x \in s : x \in 1..k
        OBVIOUS
      <4>3. Max(s) = k
        <5>1. Max(s) \in 1..k /\ k <= Max(s)
          BY <3>2, <4>1, <4>2
        <5> QED BY <2>3, <5>1
      <4>4. \A x \in s \ {k} : x \in 1..(k - 1)
        BY <2>3, <4>2
      <4> QED BY <4>3, <4>4
    <3> QED BY <3>1, <3>2
  <2>6. \A s \in E : s # {} => s \ {Max(s)} \in E
    OBVIOUS
  <2> DEFINE g == [s \in D |-> IF k \in s THEN op[<<f[s \ {k}], k>>] ELSE f[s]]
  <2>7. f \in [E -> V] /\ \A s \in E : f[s] = FoldStep(base, op, f, s)
    BY <2>4 DEF IsFold
  <2>8. \A s \in E : k \notin s
    BY <2>3
  <2> HIDE DEF D, E
  <2>9. g \in [D -> V]
    <3> SUFFICES ASSUME NEW s \in D
                 PROVE  (IF k \in s THEN op[<<f[s \ {k}], k>>] ELSE f[s]) \in V
      OBVIOUS
    <3>1. CASE k \in s
      <4>1. f[s \ {k}] \in V
        BY <2>5, <2>7, <3>1
      <4> QED BY <2>3, <3>1, <4>1
    <3>2. CASE k \notin s
      BY <2>5, <2>7, <3>2
    <3> QED BY <3>1, <3>2
  <2>10. \A s \in E : g[s] = f[s]
    BY <2>5, <2>8
  <2>11. ASSUME NEW s \in D PROVE g[s] = FoldStep(base, op, g, s)
    <3>1. CASE k \in s
      <4>1. g[s] = op[<<f[s \ {k}], k>>] /\ s \ {k} \in E /\ Max(s) = k
        BY <2>5, <3>1
      <4>2. g[s \ {k}] = f[s \ {k}]
        BY <2>10, <4>1
      <4> HIDE DEF g
      <4> QED BY <3>1, <4>1, <4>2 DEF FoldStep
    <3>2. CASE k \notin s
      <4>1. s \in E /\ g[s] = f[s] /\ f[s] = FoldStep(base, op, f, s)
        BY <2>5, <2>7, <2>10, <3>2
      <4>2. s # {} => g[s \ {Max(s)}] = f[s \ {Max(s)}]
        BY <2>6, <2>10, <4>1
      <4> HIDE DEF g
      <4> QED BY <4>1, <4>2 DEF FoldStep
    <3> QED BY <3>1, <3>2
  <2>12. IsFold(k, V, base, op, g)
    <3> HIDE DEF g
    <3> QED BY <2>9, <2>11 DEF D, IsFold
  <2> QED BY <2>1, <2>12
<1> QED BY <1>1, <1>2

-----------------------------------------------------------------------------
(* Folds over sequences, taken from either end *)

\* A fold over a sequence, with its table of the parts: the step takes what has
\* been folded and the next member.
FoldsTo(op, base, q, g, s) ==
    IF s = {} THEN base ELSE op[<<g[s \ {Max(s)}], q[Max(s)]>>]

StaysIn(op, V, X) == op \in [V \X X -> V]

\* Sequences with the same beginning, and tables for it.
Same(n, q, r) == \A i \in 1..n : q[i] = r[i]

Agree(n, g, h) == \A s \in SUBSET (1..n) : g[s] = h[s]

IsTable(n, op, base, q, g) ==
    \A s \in SUBSET (1..n) : g[s] = FoldsTo(op, base, q, g, s)

FoldTable(op, base, q) ==
    CHOOSE g : g = [s \in SUBSET (1..Len(q)) |-> FoldsTo(op, base, q, g, s)]

Folded(op, base, q) == FoldTable(op, base, q)[1..Len(q)]

\* The last of some positions is one of them.
LEMMA LastIsIn ==
  ASSUME NEW n \in Nat, NEW s \in SUBSET (1..n), s # {}
  PROVE  Max(s) \in s /\ s \ {Max(s)} \in SUBSET (1..n) /\ s \ {Max(s)} # s
<1>1. Max(s) \in s
  BY MaxIsGreatest
<1> QED BY <1>1

\* Two tables over sequences with the same beginning agree on it.
LEMMA TablesAgree ==
  ASSUME NEW n \in Nat, NEW op, NEW base, NEW q, NEW r, Same(n, q, r),
         NEW g, IsTable(n, op, base, q, g), NEW h, IsTable(n, op, base, r, h)
  PROVE  Agree(n, g, h)
<1> DEFINE S == 1..n
<1> DEFINE B == {s \in SUBSET S : g[s] # h[s]}
<1> SUFFICES ASSUME B # {} PROVE FALSE
  BY DEF Agree
<1>1. PICK s \in B : \A t \in B : t \subseteq s => t = s
  <2>1. B \in SUBSET SUBSET S /\ IsFiniteSet(S)
    BY FS_Interval
  <2> HIDE DEF B, S
  <2> QED BY <2>1, SmallestSet
<1>2. g[s] = FoldsTo(op, base, q, g, s) /\ h[s] = FoldsTo(op, base, r, h, s)
  BY DEF IsTable
<1>3. CASE s = {}
  BY <1>2, <1>3 DEF FoldsTo
<1>4. CASE s # {}
  <2> DEFINE t == s \ {Max(s)}
  <2>1. Max(s) \in s /\ t \in SUBSET S /\ t # s
    BY <1>4, LastIsIn
  <2>2. g[t] = h[t] /\ q[Max(s)] = r[Max(s)]
    BY <1>1, <2>1 DEF Same
  <2> QED BY <1>2, <1>4, <2>2 DEF FoldsTo
<1> QED BY <1>3, <1>4

\* A fold whose step keeps within a set has its table there.
LEMMA FoldHasTable ==
  ASSUME NEW V, NEW X, NEW base \in V, NEW op, StaysIn(op, V, X), NEW q \in Seq(X)
  PROVE  /\ Len(q) \in Nat
         /\ FoldTable(op, base, q) \in [SUBSET (1..Len(q)) -> V]
         /\ IsTable(Len(q), op, base, q, FoldTable(op, base, q))
<1> DEFINE n == Len(q)
           f == [y \in V \X (1..n) |-> op[<<y[1], q[y[2]]>>]]
<1>1. n \in Nat /\ \A i \in 1..n : q[i] \in X
  OBVIOUS
<1> HIDE DEF n
<1>2. f \in [V \X (1..n) -> V] /\ \A v \in V, i \in 1..n : f[<<v, i>>] = op[<<v, q[i]>>]
  BY <1>1 DEF StaysIn
<1> HIDE DEF f
<1>3. PICK h : IsFold(n, V, base, f, h)
  BY <1>1, <1>2, FoldExists
<1>4. h \in [SUBSET (1..n) -> V] /\ \A s \in SUBSET (1..n) : h[s] = FoldStep(base, f, h, s)
  BY <1>3 DEF IsFold
<1>5. \A s \in SUBSET (1..n) : FoldStep(base, f, h, s) = FoldsTo(op, base, q, h, s)
  <2> SUFFICES ASSUME NEW s \in SUBSET (1..n)
               PROVE  FoldStep(base, f, h, s) = FoldsTo(op, base, q, h, s)
    OBVIOUS
  <2>1. CASE s = {}
    BY <2>1 DEF FoldStep, FoldsTo
  <2>2. CASE s # {}
    <3>1. Max(s) \in 1..n /\ h[s \ {Max(s)}] \in V
      BY <1>1, <1>4, <2>2, LastIsIn
    <3> QED BY <1>2, <2>2, <3>1 DEF FoldStep, FoldsTo
  <2> QED BY <2>1, <2>2
<1>6. h = [s \in SUBSET (1..n) |-> FoldsTo(op, base, q, h, s)]
  BY <1>4, <1>5
<1> DEFINE G == FoldTable(op, base, q)
<1>7. G = [s \in SUBSET (1..n) |-> FoldsTo(op, base, q, G, s)]
  BY <1>6 DEF FoldTable, n
<1> HIDE DEF G
<1>8. IsTable(n, op, base, q, G) /\ IsTable(n, op, base, q, h)
  BY <1>6, <1>7 DEF IsTable
<1>9. Agree(n, G, h)
  <2>1. Same(n, q, q)
    BY DEF Same
  <2> QED BY <1>1, <1>8, <2>1, TablesAgree
<1>10. G \in [SUBSET (1..n) -> V]
  BY <1>4, <1>7, <1>9 DEF Agree
<1> QED BY <1>1, <1>8, <1>10 DEF G, n

\* A fold keeps within the set.
LEMMA FoldedIsIn ==
  ASSUME NEW V, NEW X, NEW base \in V, NEW op, StaysIn(op, V, X), NEW q \in Seq(X)
  PROVE  Folded(op, base, q) \in V
<1> DEFINE n == Len(q)
           g == FoldTable(op, base, q)
<1>1. n \in Nat /\ g \in [SUBSET (1..n) -> V]
  BY FoldHasTable
<1> HIDE DEF g, n
<1> QED BY <1>1 DEF Folded, g, n

\* It starts from the base.
LEMMA FoldedNothing ==
  ASSUME NEW V, NEW X, NEW base \in V, NEW op, StaysIn(op, V, X)
  PROVE  Folded(op, base, <<>>) = base
<1>1. <<>> \in Seq(X) /\ Len(<<>>) = 0 /\ 1..0 = {}
  OBVIOUS
<1>2. IsTable(0, op, base, <<>>, FoldTable(op, base, <<>>))
  BY <1>1, FoldHasTable
<1> QED BY <1>1, <1>2 DEF IsTable, FoldsTo, Folded

\* It takes what is added at the end.
LEMMA FoldedAppend ==
  ASSUME NEW V, NEW X, NEW base \in V, NEW op, StaysIn(op, V, X), NEW q \in Seq(X), NEW x \in X
  PROVE  Folded(op, base, Append(q, x)) = op[<<Folded(op, base, q), x>>]
<1> DEFINE n == Len(q)
           g == FoldTable(op, base, q)
           r == Append(q, x)
           m == Len(r)
           h == FoldTable(op, base, r)
<1>1. n \in Nat /\ IsTable(n, op, base, q, g)
  BY FoldHasTable
<1>2. r \in Seq(X) /\ m = n + 1 /\ r[m] = x /\ \A i \in 1..n : r[i] = q[i]
  OBVIOUS
<1> HIDE DEF r
<1>3. m \in Nat /\ IsTable(m, op, base, r, h)
  BY <1>2, FoldHasTable
<1> HIDE DEF g, h, m, n
<1>4. 1..m # {} /\ 1..n \in SUBSET (1..m) /\ (1..m) \ {m} = 1..n /\ m \in 1..m
  <2>1. \A i \in Int : i \in 1..m <=> i \in 1..n \/ i = m
    BY <1>1, <1>2
  <2>2. m \in 1..m /\ m \notin 1..n
    BY <1>1, <1>2
  <2> QED BY <2>1, <2>2
<1>5. Max(1..m) = m
  <2>1. Max(1..m) \in 1..m /\ \A y \in 1..m : y <= Max(1..m)
    BY <1>3, <1>4, MaxIsGreatest
  <2> QED BY <1>3, <1>4, <2>1
<1>6. h[1..m] = op[<<h[1..n], x>>]
  <2>1. h[1..m] = FoldsTo(op, base, r, h, 1..m)
    BY <1>3 DEF IsTable
  <2> QED BY <1>2, <1>4, <1>5, <2>1 DEF FoldsTo
<1>7. IsTable(n, op, base, r, h)
  <2>1. \A s \in SUBSET (1..n) : s \in SUBSET (1..m)
    BY <1>4
  <2> QED BY <1>3, <2>1 DEF IsTable
<1>8. Agree(n, g, h)
  <2>1. Same(n, q, r)
    BY <1>2 DEF Same
  <2>2. IsTable(n, op, base, q, g)
    BY <1>1
  <2> HIDE DEF r, m
  <2> QED BY <1>1, <1>7, <2>1, <2>2, TablesAgree, Zenon
<1> QED BY <1>6, <1>8 DEF Agree, Folded, g, h, m, n, r

\* It takes the first one first.
LEMMA FoldedTail ==
  ASSUME NEW V, NEW X, NEW base \in V, NEW op, StaysIn(op, V, X), NEW q \in Seq(X), q # <<>>
  PROVE  Folded(op, base, q) = Folded(op, op[<<base, Head(q)>>], Tail(q))
<1> DEFINE Holds(p) == Folded(op, base, p) = Folded(op, op[<<base, Head(p)>>], Tail(p))
<1> DEFINE B == {k \in Nat : \E p \in Seq(X) : p # <<>> /\ Len(p) = k /\ ~Holds(p)}
<1> SUFFICES ASSUME ~Holds(q) PROVE FALSE
  OBVIOUS
<1>9. ASSUME NEW b \in V, NEW p \in Seq(X), NEW x \in X
      PROVE  Folded(op, b, Append(p, x)) = op[<<Folded(op, b, p), x>>]
  <2> HIDE DEF Holds, B
  <2> QED BY FoldedAppend
<1>10. \A b \in V : Folded(op, b, <<>>) = b
  <2> HIDE DEF Holds, B
  <2> QED BY FoldedNothing, Zenon
<1>1. PICK k \in B : \A j \in B : k <= j
  <2>1. Len(q) \in B
    <3>1. Len(q) \in Nat
      OBVIOUS
    <3> HIDE DEF Holds
    <3> QED BY <3>1
  <2>2. B # {} /\ B \in SUBSET Nat
    BY <2>1
  <2> HIDE DEF B
  <2> QED BY <2>2, LeastNumber
<1>2. PICK p \in Seq(X) : p # <<>> /\ Len(p) = k /\ ~Holds(p)
  OBVIOUS
<1>3. k \in Nat /\ k # 0
  BY <1>2
<1> DEFINE r == SubSeq(p, 1, k - 1)
           x == p[k]
<1>4. r \in Seq(X) /\ x \in X /\ p = Append(r, x) /\ Len(r) = k - 1
  BY <1>2, <1>3
<1> DEFINE c == op[<<base, Head(p)>>]
<1>5. Head(p) \in X /\ c \in V
  BY <1>2 DEF StaysIn
<1>6. Folded(op, base, p) = op[<<Folded(op, base, r), x>>]
  <2> HIDE DEF r, x
  <2> QED BY <1>4, <1>9
<1>7. CASE r = <<>>
  <2>1. Tail(p) = <<>> /\ Head(p) = x /\ Tail(p) \in Seq(X)
    <3> HIDE DEF r, x
    <3>1. p = <<x>>
      BY <1>4, <1>7
    <3> QED BY <1>4, <3>1
  <2>2. Folded(op, base, r) = base
    <3> HIDE DEF r
    <3> QED BY <1>7, <1>10
  <2>3. Folded(op, c, Tail(p)) = c
    <3> HIDE DEF c
    <3> QED BY <1>5, <1>10, <2>1
  <2> QED BY <1>2, <1>6, <2>1, <2>2, <2>3
<1>8. CASE r # <<>>
  <2>1. Head(p) = Head(r) /\ Tail(p) = Append(Tail(r), x) /\ Tail(r) \in Seq(X)
    <3> HIDE DEF r, x
    <3> QED BY <1>4, <1>8
  <2>2. Holds(r)
    <3>1. k - 1 \in Nat /\ ~(k <= k - 1)
      BY <1>3
    <3>2. k - 1 \notin B
      BY <1>1, <3>1
    <3> QED BY <1>4, <1>8, <3>1, <3>2
  <2>3. Folded(op, c, Tail(p)) = op[<<Folded(op, c, Tail(r)), x>>]
    <3> HIDE DEF r, x, c
    <3>1. Folded(op, c, Append(Tail(r), x)) = op[<<Folded(op, c, Tail(r)), x>>]
      BY <1>4, <1>5, <1>9, <2>1
    <3> QED BY <2>1, <3>1
  <2> HIDE DEF r, x
  <2> QED BY <1>2, <1>6, <2>1, <2>2, <2>3
<1> QED BY <1>7, <1>8

-----------------------------------------------------------------------------
(* Totals of sequences *)

Total(q) == Sum(q, DOMAIN q)

\* A total of naturals is one.
LEMMA TotalIsNat ==
  ASSUME NEW q \in Seq(Nat)
  PROVE  Total(q) \in Nat /\ (q = <<>> => Total(q) = 0)
<1>1. DOMAIN q = 1..Len(q) /\ \A i \in DOMAIN q : q[i] \in Nat
  OBVIOUS
<1>2. IsFiniteSet(DOMAIN q)
  BY <1>1, FS_Interval
<1>3. Sum(q, DOMAIN q) \in Nat
  BY <1>1, <1>2, SumIsNat
<1>4. ASSUME q = <<>> PROVE Sum(q, DOMAIN q) = 0
  <2>1. DOMAIN q = {}
    BY <1>4
  <2> QED BY <1>2, <2>1, SumUnfolds
<1> QED BY <1>3, <1>4 DEF Total

\* The last one adds to it.
LEMMA TotalOfAppend ==
  ASSUME NEW q \in Seq(Nat), NEW n \in Nat
  PROVE  Total(Append(q, n)) = Total(q) + n
<1> DEFINE r == Append(q, n)
           m == Len(q) + 1
<1>1. /\ r \in Seq(Nat) /\ DOMAIN r = 1..m /\ DOMAIN q = 1..Len(q) /\ r[m] = n
      /\ \A i \in DOMAIN q : r[i] = q[i]
  OBVIOUS
<1>2. /\ Len(q) \in Nat /\ m \in DOMAIN r /\ DOMAIN r \ {m} = DOMAIN q
      /\ \A i \in DOMAIN r : r[i] \in Nat
  BY <1>1
<1>3. IsFiniteSet(DOMAIN r) /\ IsFiniteSet(DOMAIN q)
  BY <1>1, <1>2, FS_Interval
<1> HIDE DEF r, m
<1>4. Sum(r, DOMAIN r) = n + Sum(r, DOMAIN q)
  <2>1. \A x \in DOMAIN r : Sum(r, DOMAIN r) = r[x] + Sum(r, DOMAIN r \ {x})
    BY <1>2, <1>3, SumTakesAny
  <2>2. Sum(r, DOMAIN r) = r[m] + Sum(r, DOMAIN r \ {m})
    BY <1>2, <2>1
  <2> QED BY <1>1, <1>2, <2>2
<1>5. Sum(r, DOMAIN q) = Sum(q, DOMAIN q)
  BY <1>1, <1>3, SumOfSameTerms, ZenonT(40)
<1>6. Sum(q, DOMAIN q) \in Nat
  BY TotalIsNat DEF Total
<1> QED BY <1>4, <1>5, <1>6 DEF Total, r

\* The first one is taken from it.
LEMMA TotalOfTail ==
  ASSUME NEW q \in Seq(Nat), q # <<>>
  PROVE  Total(q) = Head(q) + Total(Tail(q))
<1> DEFINE t == Tail(q)
           S == DOMAIN q \ {1}
           T == DOMAIN t
           f == [i \in Int |-> i - 1]
           g == [i \in Int |-> i + 1]
<1>1. /\ t \in Seq(Nat) /\ DOMAIN q = 1..Len(q) /\ T = 1..(Len(q) - 1)
      /\ Len(q) \in Nat \ {0} /\ Head(q) = q[1]
      /\ \A i \in T : t[i] = q[i + 1]
  OBVIOUS
<1>2. /\ S = 2..Len(q) /\ 1 \in DOMAIN q
      /\ \A i \in DOMAIN q : q[i] \in Nat
      /\ \A i \in T : t[i] \in Nat
  BY <1>1
<1>3. IsFiniteSet(DOMAIN q) /\ IsFiniteSet(S) /\ IsFiniteSet(T)
  <2>1. 2 \in Int /\ 1 \in Int /\ Len(q) \in Int /\ Len(q) - 1 \in Int
    BY <1>1
  <2>2. IsFiniteSet(1..Len(q)) /\ IsFiniteSet(2..Len(q)) /\ IsFiniteSet(1..(Len(q) - 1))
    BY <2>1, FS_Interval
  <2> QED BY <1>1, <1>2, <2>2, Zenon
<1>4. \A x \in S : f[x] \in T /\ q[x] <= t[f[x]]
  BY <1>1, <1>2
<1>5. \A x, y \in S : f[x] = f[y] => x = y
  BY <1>2
<1>6. \A x \in T : g[x] \in S /\ t[x] <= q[g[x]]
  BY <1>1, <1>2
<1>7. \A x, y \in T : g[x] = g[y] => x = y
  BY <1>1
<1>8. \A x \in S : q[x] \in Nat
  BY <1>2
<1> HIDE DEF t, S, T, f, g
<1>9. Sum(q, S) <= Sum(t, T)
  BY <1>2, <1>3, <1>4, <1>5, <1>8, SumDominates
<1>10. Sum(t, T) <= Sum(q, S)
  BY <1>2, <1>3, <1>6, <1>7, <1>8, SumDominates
<1>11. Sum(q, DOMAIN q) = q[1] + Sum(q, S)
  BY <1>2, <1>3, SumTakesAny DEF S
<1>12. Sum(q, S) \in Nat /\ Sum(t, T) \in Nat
  BY <1>2, <1>3, <1>8, SumIsNat
<1> QED BY <1>1, <1>9, <1>10, <1>11, <1>12 DEF Total, T, t

\* What the members of a sequence amount to, each by its own number.
Amount(f, q) == Total([i \in 1..Len(q) |-> f[q[i]]])

\* An amount follows what is added at one end and taken at the other.
LEMMA AmountOf ==
  ASSUME NEW S, NEW f \in [S -> Nat], NEW q \in Seq(S)
  PROVE  /\ Amount(f, q) \in Nat
         /\ q = <<>> => Amount(f, q) = 0
         /\ \A x \in S : Amount(f, Append(q, x)) = Amount(f, q) + f[x]
         /\ q # <<>> => Amount(f, q) = f[Head(q)] + Amount(f, Tail(q))
<1> DEFINE Values(p) == [i \in 1..Len(p) |-> f[p[i]]]
<1>1. \A p \in Seq(S) : Values(p) \in Seq(Nat)
  OBVIOUS
<1>2. Amount(f, q) \in Nat /\ (q = <<>> => Amount(f, q) = 0)
  <2>1. q = <<>> => Values(q) = <<>>
    OBVIOUS
  <2>2. Values(q) \in Seq(Nat)
    BY <1>1
  <2> HIDE DEF Values
  <2>3. Total(Values(q)) \in Nat /\ (Values(q) = <<>> => Total(Values(q)) = 0)
    BY <2>2, TotalIsNat
  <2> QED BY <2>1, <2>3 DEF Amount, Values
<1>3. ASSUME NEW x \in S
      PROVE  Amount(f, Append(q, x)) = Amount(f, q) + f[x]
  <2>1. Values(Append(q, x)) = Append(Values(q), f[x])
    OBVIOUS
  <2>2. Values(q) \in Seq(Nat) /\ f[x] \in Nat
    BY <1>1
  <2> HIDE DEF Values
  <2>3. Total(Append(Values(q), f[x])) = Total(Values(q)) + f[x]
    BY <2>2, TotalOfAppend
  <2> QED BY <2>1, <2>3 DEF Amount, Values
<1>4. ASSUME q # <<>>
      PROVE  Amount(f, q) = f[Head(q)] + Amount(f, Tail(q))
  <2>1. /\ Values(q) # <<>> /\ Head(Values(q)) = f[Head(q)]
        /\ Values(Tail(q)) = Tail(Values(q))
    BY <1>4
  <2>2. Values(q) \in Seq(Nat)
    BY <1>1
  <2> HIDE DEF Values
  <2>3. Total(Values(q)) = Head(Values(q)) + Total(Tail(Values(q)))
    BY <2>1, <2>2, TotalOfTail
  <2> QED BY <2>1, <2>3 DEF Amount, Values
<1> QED BY <1>2, <1>3, <1>4

=============================================================================
