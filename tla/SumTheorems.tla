---------------------------- MODULE SumTheorems ----------------------------
(***************************************************************************)
(* Facts about SumFunctionOnSet, the sum of a function over a finite set:  *)
(* the materialised heads of the control services are such sums over the   *)
(* reservations.  The library's induction theorems take a predicate as a   *)
(* parameter; here every induction is the choice of a minimal element of   *)
(* the set of counterexamples instead.                                     *)
(***************************************************************************)
EXTENDS FiniteSetTheorems, TLAPS

\* A nonempty set of subsets of a finite set has a minimal element.
LEMMA MinimalSubset ==
  ASSUME NEW S, IsFiniteSet(S), NEW B \in SUBSET (SUBSET S), B # {}
  PROVE  \E T \in B : \A U \in B : U \subseteq T => U = T
<1>1. IsWellFoundedOn(StrictSubsetOrdering(S), SUBSET S)
  BY FS_StrictSubsetOrderingWellFounded, FS_FiniteSubsetsOfFinite, Zenon
<1>2. PICK T \in B : \A U \in B : ~(<<U, T>> \in StrictSubsetOrdering(S))
  BY <1>1, WFMin, Zenon
<1>3. ASSUME NEW U \in B, U \subseteq T PROVE U = T
  <2>1. ~(<<U, T>> \in StrictSubsetOrdering(S))
    BY <1>2
  <2>2. <<U, T>> \in (SUBSET S) \X (SUBSET S)
    OBVIOUS
  <2> QED BY <1>3, <2>1, <2>2 DEF StrictSubsetOrdering
<1> QED BY <1>3

-----------------------------------------------------------------------------
(* The recursion equation                                                  *)

Chosen(s) == CHOOSE x \in s : TRUE

SumStep(f, s, g) == IF s = {} THEN 0 ELSE f[Chosen(s)] + g[s \ {Chosen(s)}]

\* g is the recursive function by which SumFunctionOnSet(f, S) is defined.
IsSum(f, S, g) == g = [s \in SUBSET S |-> SumStep(f, s, g)]

\* A nonempty set has the element that the fold takes next.
LEMMA ChosenElement ==
  ASSUME NEW s, s # {}
  PROVE  Chosen(s) \in s
BY Zenon DEF Chosen

\* The library's fold is a value of the recursive function.
LEMMA SumUnfolds ==
  ASSUME NEW f, NEW S
  PROVE  SumFunctionOnSet(f, S) = (CHOOSE g : IsSum(f, S, g))[S]
BY Zenon DEF SumFunctionOnSet, FoldFunctionOnSet, MapThenFoldSet, IsSum, SumStep, Chosen

\* Two such functions agree wherever both are defined.
LEMMA SumUnique ==
  ASSUME NEW f, NEW U, NEW V, NEW g, NEW h, IsSum(f, U, g), IsSum(f, V, h),
         NEW W, IsFiniteSet(W), W \subseteq U, W \subseteq V
  PROVE  g[W] = h[W]
<1> DEFINE B == {T \in SUBSET W : g[T] # h[T]}
<1>1. SUFFICES ASSUME g[W] # h[W] PROVE FALSE
  OBVIOUS
<1>2. W \in B /\ B \in SUBSET (SUBSET W)
  BY <1>1
<1>3. PICK T \in B : \A X \in B : X \subseteq T => X = T
  <2> HIDE DEF B
  <2> QED BY <1>2, MinimalSubset
<1>4. T \in SUBSET U /\ T \in SUBSET V
  OBVIOUS
<1>5. g[T] = SumStep(f, T, g) /\ h[T] = SumStep(f, T, h)
  BY <1>4, Zenon DEF IsSum
<1>6. T # {}
  BY <1>3, <1>5 DEF SumStep
<1>7. Chosen(T) \in T
  BY <1>6, ChosenElement
<1>8. g[T \ {Chosen(T)}] = h[T \ {Chosen(T)}]
  BY <1>3, <1>7
<1> QED BY <1>3, <1>5, <1>6, <1>8 DEF SumStep

\* Such a function exists for every finite set.
LEMMA SumExists ==
  ASSUME NEW f, NEW S, IsFiniteSet(S)
  PROVE  \E g : IsSum(f, S, g)
<1> DEFINE B == {T \in SUBSET S : ~\E g : IsSum(f, T, g)}
           G(T) == CHOOSE g : IsSum(f, T, g)
<1>1. SUFFICES ASSUME ~\E g : IsSum(f, S, g) PROVE FALSE
  OBVIOUS
<1>2. S \in B /\ B \in SUBSET (SUBSET S)
  BY <1>1
<1>3. PICK T \in B : \A X \in B : X \subseteq T => X = T
  <2> HIDE DEF B
  <2> QED BY <1>2, MinimalSubset
<1>4. ASSUME NEW U \in SUBSET T, U # T PROVE IsSum(f, U, G(U)) /\ IsFiniteSet(U)
  <2>1. U \notin B /\ U \in SUBSET S
    BY <1>3, <1>4
  <2>2. IsFiniteSet(U)
    BY <2>1, FS_Subset
  <2> QED BY <2>1, <2>2
<1>5. \A U \in SUBSET T : U # T => IsSum(f, U, G(U)) /\ IsFiniteSet(U)
  BY <1>4
<1> DEFINE Rest(s) == s \ {Chosen(s)}
           g == [s \in SUBSET T |-> IF s = {} THEN 0 ELSE f[Chosen(s)] + G(Rest(s))[Rest(s)]]
<1> HIDE DEF G
<1>6. ASSUME NEW s \in SUBSET T PROVE g[s] = SumStep(f, s, g)
  <2>1. CASE s = {}
    BY <2>1 DEF SumStep
  <2>2. CASE s # {}
    <3> DEFINE r == Rest(s)
    <3>1. Chosen(s) \in s
      BY <2>2, ChosenElement
    <3>2. r \in SUBSET T /\ r # T
      BY <3>1
    <3>3. g[s] = f[Chosen(s)] + G(r)[r]
      BY <2>2
    <3>4. G(r)[r] = g[r]
      <4>1. IsSum(f, r, G(r))
        BY <1>5, <3>2
      <4>2. G(r)[r] = SumStep(f, r, G(r))
        <5> HIDE DEF r
        <5>1. r \in SUBSET r
          OBVIOUS
        <5> QED BY <4>1, <5>1, Zenon DEF IsSum
      <4>3. CASE r = {}
        <5>1. g[r] = 0
          BY <3>2, <4>3
        <5> QED BY <4>2, <4>3, <5>1 DEF SumStep
      <4>4. CASE r # {}
        <5> DEFINE q == Rest(r)
        <5>1. q \in SUBSET T /\ q # T /\ q \subseteq r
          BY <3>2
        <5>2. IsSum(f, q, G(q)) /\ IsFiniteSet(q)
          BY <1>5, <5>1
        <5>3. G(r)[q] = G(q)[q]
          <6> HIDE DEF q, r
          <6> QED BY <4>1, <5>1, <5>2, SumUnique
        <5>4. g[r] = f[Chosen(r)] + G(q)[q]
          BY <3>2, <4>4
        <5> QED BY <4>2, <4>4, <5>3, <5>4 DEF SumStep
      <4> QED BY <4>3, <4>4
    <3> HIDE DEF g
    <3> QED BY <2>2, <3>3, <3>4 DEF SumStep
  <2> QED BY <2>1, <2>2
<1>7. IsSum(f, T, g)
  <2>1. g = [s \in SUBSET T |-> g[s]]
    OBVIOUS
  <2> HIDE DEF g
  <2>2. [s \in SUBSET T |-> g[s]] = [s \in SUBSET T |-> SumStep(f, s, g)]
    BY <1>6, Zenon
  <2> QED BY <2>1, <2>2, Zenon DEF IsSum
<1> QED BY <1>3, <1>7

\* The sum over a subset is the value of the whole set's function there.
LEMMA SumOfSubset ==
  ASSUME NEW f, NEW S, IsFiniteSet(S), NEW T \in SUBSET S
  PROVE  /\ IsFiniteSet(T)
         /\ IsSum(f, S, CHOOSE g : IsSum(f, S, g))
         /\ SumFunctionOnSet(f, T) = (CHOOSE g : IsSum(f, S, g))[T]
<1>1. IsFiniteSet(T)
  BY FS_Subset
<1> DEFINE g == CHOOSE h : IsSum(f, S, h)
           k == CHOOSE h : IsSum(f, T, h)
<1>2. IsSum(f, S, g)
  BY SumExists, Zenon
<1>3. IsSum(f, T, k)
  BY <1>1, SumExists, Zenon
<1>4. SumFunctionOnSet(f, T) = k[T]
  BY SumUnfolds, Zenon
<1> HIDE DEF g, k
<1>5. g[T] = k[T]
  BY <1>1, <1>2, <1>3, SumUnique
<1> QED BY <1>1, <1>2, <1>4, <1>5 DEF g

\* Nothing adds up to 0.
LEMMA SumEmpty ==
  ASSUME NEW f
  PROVE  SumFunctionOnSet(f, {}) = 0
<1> DEFINE g == CHOOSE h : IsSum(f, {}, h)
<1>1. IsSum(f, {}, g) /\ SumFunctionOnSet(f, {}) = g[{}]
  BY SumOfSubset, FS_EmptySet, Zenon
<1> HIDE DEF g
<1>2. g[{}] = SumStep(f, {}, g)
  BY <1>1, Zenon DEF IsSum
<1> QED BY <1>1, <1>2 DEF SumStep

\* The recursion equation of the sum.
LEMMA SumChosen ==
  ASSUME NEW f, NEW S, IsFiniteSet(S), S # {}
  PROVE  SumFunctionOnSet(f, S) = f[Chosen(S)] + SumFunctionOnSet(f, S \ {Chosen(S)})
<1> DEFINE g == CHOOSE h : IsSum(f, S, h)
           r == S \ {Chosen(S)}
<1>1. IsSum(f, S, g) /\ SumFunctionOnSet(f, S) = g[S]
  BY SumOfSubset, Zenon
<1>2. r \in SUBSET S
  OBVIOUS
<1>3. SumFunctionOnSet(f, r) = g[r]
  <2> HIDE DEF r
  <2> QED BY <1>2, SumOfSubset, Zenon
<1> HIDE DEF g
<1>4. g[S] = SumStep(f, S, g)
  BY <1>1, Zenon DEF IsSum
<1> QED BY <1>1, <1>3, <1>4 DEF SumStep

-----------------------------------------------------------------------------
(* Type, congruence and splitting                                          *)

\* A sum of integers is an integer.
LEMMA SumInt ==
  ASSUME NEW f, NEW S, IsFiniteSet(S), \A x \in S : f[x] \in Int
  PROVE  SumFunctionOnSet(f, S) \in Int
<1> DEFINE B == {T \in SUBSET S : SumFunctionOnSet(f, T) \notin Int}
<1>1. SUFFICES ASSUME SumFunctionOnSet(f, S) \notin Int PROVE FALSE
  OBVIOUS
<1>2. S \in B /\ B \in SUBSET (SUBSET S)
  BY <1>1
<1>3. PICK T \in B : \A X \in B : X \subseteq T => X = T
  <2> HIDE DEF B
  <2> QED BY <1>2, MinimalSubset
<1>4. T # {} /\ IsFiniteSet(T)
  <2>1. SumFunctionOnSet(f, {}) \in Int
    BY SumEmpty
  <2> QED BY <2>1, FS_Subset
<1>5. Chosen(T) \in T
  BY <1>4, ChosenElement
<1>6. SumFunctionOnSet(f, T \ {Chosen(T)}) \in Int
  BY <1>3, <1>5
<1> QED BY <1>4, <1>5, <1>6, SumChosen

\* A sum of naturals is a natural number.
LEMMA SumNat ==
  ASSUME NEW f, NEW S, IsFiniteSet(S), \A x \in S : f[x] \in Nat
  PROVE  SumFunctionOnSet(f, S) \in Nat
<1> DEFINE B == {T \in SUBSET S : SumFunctionOnSet(f, T) \notin Nat}
<1>1. SUFFICES ASSUME SumFunctionOnSet(f, S) \notin Nat PROVE FALSE
  OBVIOUS
<1>2. S \in B /\ B \in SUBSET (SUBSET S)
  BY <1>1
<1>3. PICK T \in B : \A X \in B : X \subseteq T => X = T
  <2> HIDE DEF B
  <2> QED BY <1>2, MinimalSubset
<1>4. T # {} /\ IsFiniteSet(T)
  <2>1. SumFunctionOnSet(f, {}) \in Nat
    BY SumEmpty
  <2> QED BY <2>1, FS_Subset
<1>5. Chosen(T) \in T
  BY <1>4, ChosenElement
<1>6. SumFunctionOnSet(f, T \ {Chosen(T)}) \in Nat
  BY <1>3, <1>5
<1> QED BY <1>4, <1>5, <1>6, SumChosen

\* Functions that agree on the set have the same sum over it.
LEMMA SumCongruent ==
  ASSUME NEW f, NEW g, NEW S, IsFiniteSet(S), \A x \in S : f[x] = g[x]
  PROVE  SumFunctionOnSet(f, S) = SumFunctionOnSet(g, S)
<1> DEFINE B == {T \in SUBSET S : SumFunctionOnSet(f, T) # SumFunctionOnSet(g, T)}
<1>1. SUFFICES ASSUME SumFunctionOnSet(f, S) # SumFunctionOnSet(g, S) PROVE FALSE
  OBVIOUS
<1>2. S \in B /\ B \in SUBSET (SUBSET S)
  BY <1>1
<1>3. PICK T \in B : \A X \in B : X \subseteq T => X = T
  <2> HIDE DEF B
  <2> QED BY <1>2, MinimalSubset
<1>4. T # {} /\ IsFiniteSet(T)
  BY SumEmpty, FS_Subset
<1>5. Chosen(T) \in T
  BY <1>4, ChosenElement
<1>6. SumFunctionOnSet(f, T \ {Chosen(T)}) = SumFunctionOnSet(g, T \ {Chosen(T)})
  BY <1>3, <1>5
<1>7. /\ SumFunctionOnSet(f, T) = f[Chosen(T)] + SumFunctionOnSet(f, T \ {Chosen(T)})
      /\ SumFunctionOnSet(g, T) = g[Chosen(T)] + SumFunctionOnSet(g, T \ {Chosen(T)})
  BY <1>4, SumChosen
<1> QED BY <1>5, <1>6, <1>7

\* Any element can be taken out of a sum, not only the chosen one.
LEMMA SumRemove ==
  ASSUME NEW f, NEW S, IsFiniteSet(S), \A x \in S : f[x] \in Int, NEW y \in S
  PROVE  /\ SumFunctionOnSet(f, S) = f[y] + SumFunctionOnSet(f, S \ {y})
         /\ SumFunctionOnSet(f, S) \in Int /\ SumFunctionOnSet(f, S \ {y}) \in Int
<1> DEFINE Sum(T) == SumFunctionOnSet(f, T)
           B == {T \in SUBSET S : \E z \in T : ~(Sum(T) = f[z] + Sum(T \ {z}))}
<1>1. ASSUME NEW T \in SUBSET S PROVE Sum(T) \in Int /\ IsFiniteSet(T)
  BY FS_Subset, SumInt
<1>2. ASSUME NEW T \in SUBSET S, T # {}
      PROVE  Chosen(T) \in T /\ Sum(T) = f[Chosen(T)] + Sum(T \ {Chosen(T)})
  BY <1>1, <1>2, ChosenElement, SumChosen
<1> HIDE DEF Sum
<1>3. ASSUME Sum(S) # f[y] + Sum(S \ {y}) PROVE FALSE
  <2>1. S \in B /\ B \in SUBSET (SUBSET S)
    BY <1>3
  <2>2. PICK T \in B : \A X \in B : X \subseteq T => X = T
    <3> HIDE DEF B
    <3> QED BY <2>1, MinimalSubset
  <2>3. PICK z \in T : ~(Sum(T) = f[z] + Sum(T \ {z}))
    BY <2>2
  <2> DEFINE c == Chosen(T)
  <2>4. c \in T /\ Sum(T) = f[c] + Sum(T \ {c})
    BY <1>2
  <2> HIDE DEF c
  <2>5. z # c
    BY <2>3, <2>4
  <2>6. T \ {c} \notin B /\ T \ {c} \in SUBSET S /\ z \in T \ {c}
    BY <2>2, <2>4, <2>5
  <2>7. T \ {z} \notin B /\ T \ {z} \in SUBSET S /\ c \in T \ {z}
    BY <2>2, <2>4, <2>5
  <2>8. Sum(T \ {c}) = f[z] + Sum((T \ {c}) \ {z})
    BY <2>6
  <2>9. Sum(T \ {z}) = f[c] + Sum((T \ {z}) \ {c})
    BY <2>7
  <2>10. (T \ {c}) \ {z} = (T \ {z}) \ {c} /\ (T \ {z}) \ {c} \in SUBSET S
    OBVIOUS
  <2>11. Sum((T \ {z}) \ {c}) \in Int /\ f[c] \in Int /\ f[z] \in Int
    BY <1>1, <2>4, <2>10
  <2>12. PICK m \in Int : m = Sum((T \ {z}) \ {c}) /\ m = Sum((T \ {c}) \ {z})
    BY <2>10, <2>11
  <2>13. Sum(T) = f[c] + (f[z] + m)
    BY <2>4, <2>8, <2>12
  <2>14. f[z] + Sum(T \ {z}) = f[z] + (f[c] + m)
    BY <2>9, <2>12
  <2>15. f[c] + (f[z] + m) = f[z] + (f[c] + m)
    BY <2>11
  <2> QED BY <2>3, <2>13, <2>14, <2>15
<1>4. Sum(S) \in Int /\ Sum(S \ {y}) \in Int
  BY <1>1
<1> QED BY <1>3, <1>4 DEF Sum

\* The sum over one element.
LEMMA SumSingleton ==
  ASSUME NEW f, NEW y, f[y] \in Int
  PROVE  SumFunctionOnSet(f, {y}) = f[y]
<1>1. IsFiniteSet({y}) /\ {y} \ {y} = {}
  BY FS_Singleton
<1>2. SumFunctionOnSet(f, {y}) = f[y] + SumFunctionOnSet(f, {y} \ {y})
  BY <1>1, SumRemove
<1> QED BY <1>1, <1>2, SumEmpty

\* The sum of a pointwise sum.
LEMMA SumPointwise ==
  ASSUME NEW f, NEW g, NEW h, NEW S, IsFiniteSet(S),
         \A x \in S : f[x] \in Int /\ g[x] \in Int /\ h[x] = f[x] + g[x]
  PROVE  SumFunctionOnSet(h, S) = SumFunctionOnSet(f, S) + SumFunctionOnSet(g, S)
<1> DEFINE F(T) == SumFunctionOnSet(f, T)
           G(T) == SumFunctionOnSet(g, T)
           H(T) == SumFunctionOnSet(h, T)
           B == {T \in SUBSET S : ~(H(T) = F(T) + G(T))}
<1>1. ASSUME NEW T \in SUBSET S PROVE F(T) \in Int /\ G(T) \in Int /\ IsFiniteSet(T)
  BY FS_Subset, SumInt
<1>2. ASSUME NEW T \in SUBSET S, T # {}
      PROVE  /\ Chosen(T) \in T
             /\ F(T) = f[Chosen(T)] + F(T \ {Chosen(T)})
             /\ G(T) = g[Chosen(T)] + G(T \ {Chosen(T)})
             /\ H(T) = h[Chosen(T)] + H(T \ {Chosen(T)})
  BY <1>1, <1>2, ChosenElement, SumChosen
<1>3. F({}) = 0 /\ G({}) = 0 /\ H({}) = 0
  BY SumEmpty
<1> HIDE DEF F, G, H
<1>4. ASSUME ~(H(S) = F(S) + G(S)) PROVE FALSE
  <2>1. S \in B /\ B \in SUBSET (SUBSET S)
    BY <1>4
  <2>2. PICK T \in B : \A X \in B : X \subseteq T => X = T
    <3> HIDE DEF B
    <3> QED BY <2>1, MinimalSubset
  <2>3. T # {}
    <3>1. H({}) = F({}) + G({})
      BY <1>3
    <3> QED BY <2>2, <3>1
  <2> DEFINE c == Chosen(T)
             r == T \ {c}
  <2>4. c \in T /\ F(T) = f[c] + F(r) /\ G(T) = g[c] + G(r) /\ H(T) = h[c] + H(r)
    BY <1>2, <2>3
  <2> HIDE DEF c
  <2>5. r \notin B /\ r \in SUBSET S
    BY <2>2, <2>4
  <2>6. H(r) = F(r) + G(r) /\ F(r) \in Int /\ G(r) \in Int
    BY <1>1, <2>5
  <2>7. f[c] \in Int /\ g[c] \in Int /\ h[c] = f[c] + g[c]
    BY <2>4
  <2> HIDE DEF r
  <2>8. H(T) = F(T) + G(T)
    BY <2>4, <2>6, <2>7
  <2> QED BY <2>2, <2>8
<1> QED BY <1>4 DEF F, G, H

\* Only elements whose value is not 0 count.
LEMMA SumSupport ==
  ASSUME NEW f, NEW S, IsFiniteSet(S), \A x \in S : f[x] \in Int,
         NEW T \in SUBSET S, \A x \in S \ T : f[x] = 0
  PROVE  SumFunctionOnSet(f, S) = SumFunctionOnSet(f, T)
<1> DEFINE Sum(U) == SumFunctionOnSet(f, U)
           B == {U \in SUBSET S : T \subseteq U /\ ~(Sum(U) = Sum(T))}
<1>1. ASSUME NEW U \in SUBSET S, NEW y \in U
      PROVE  Sum(U) = f[y] + Sum(U \ {y}) /\ Sum(U \ {y}) \in Int
  BY FS_Subset, SumRemove
<1> HIDE DEF Sum
<1>2. ASSUME ~(Sum(S) = Sum(T)) PROVE FALSE
  <2>1. S \in B /\ B \in SUBSET (SUBSET S)
    BY <1>2
  <2>2. PICK U \in B : \A X \in B : X \subseteq U => X = U
    <3> HIDE DEF B
    <3> QED BY <2>1, MinimalSubset
  <2>3. PICK y \in U : y \notin T
    <3>1. T \subseteq U /\ U # T
      BY <2>2
    <3> QED BY <3>1
  <2>4. Sum(U) = f[y] + Sum(U \ {y}) /\ Sum(U \ {y}) \in Int /\ f[y] = 0
    BY <1>1, <2>3
  <2>5. Sum(U \ {y}) = Sum(T)
    BY <2>2, <2>3
  <2> QED BY <2>2, <2>4, <2>5
<1> QED BY <1>2 DEF Sum

\* Zeros add up to 0.
LEMMA SumZero ==
  ASSUME NEW f, NEW S, IsFiniteSet(S), \A x \in S : f[x] = 0
  PROVE  SumFunctionOnSet(f, S) = 0
BY SumSupport, SumEmpty

\* Sums are monotone.
LEMMA SumMonotone ==
  ASSUME NEW f, NEW g, NEW S, IsFiniteSet(S),
         \A x \in S : f[x] \in Int /\ g[x] \in Int /\ f[x] <= g[x]
  PROVE  SumFunctionOnSet(f, S) <= SumFunctionOnSet(g, S)
<1> DEFINE d == [x \in S |-> g[x] - f[x]]
<1>1. \A x \in S : d[x] \in Nat /\ f[x] \in Int /\ g[x] = f[x] + d[x]
  OBVIOUS
<1> HIDE DEF d
<1>2. SumFunctionOnSet(d, S) \in Nat
  BY <1>1, SumNat
<1>3. SumFunctionOnSet(f, S) \in Int
  BY SumInt
<1>4. SumFunctionOnSet(g, S) = SumFunctionOnSet(f, S) + SumFunctionOnSet(d, S)
  BY <1>1, SumPointwise
<1> QED BY <1>2, <1>3, <1>4

\* On A, the function g differs from f on S only, and there by d.
DiffersBy(f, g, A, S, d) ==
  /\ \A x \in A : f[x] \in Int
  /\ \A x \in S : d[x] \in Int /\ g[x] = f[x] + d[x]
  /\ \A x \in A \ S : g[x] = f[x]

\* The sums then differ by the sum of d.
LEMMA SumChange ==
  ASSUME NEW f, NEW g, NEW d, NEW A, IsFiniteSet(A), NEW S \in SUBSET A, DiffersBy(f, g, A, S, d)
  PROVE  /\ SumFunctionOnSet(g, A) = SumFunctionOnSet(f, A) + SumFunctionOnSet(d, S)
         /\ SumFunctionOnSet(f, A) \in Int /\ SumFunctionOnSet(d, S) \in Int
<1> DEFINE e == [x \in A |-> IF x \in S THEN d[x] ELSE 0]
<1>1. \A x \in A : f[x] \in Int /\ e[x] \in Int /\ g[x] = f[x] + e[x]
  BY DEF DiffersBy
<1>2. \A x \in S : e[x] = d[x]
  OBVIOUS
<1>3. \A x \in A \ S : e[x] = 0
  OBVIOUS
<1> HIDE DEF e
<1>4. IsFiniteSet(S)
  BY FS_Subset
<1>5. SumFunctionOnSet(g, A) = SumFunctionOnSet(f, A) + SumFunctionOnSet(e, A)
  BY <1>1, SumPointwise
<1>6. SumFunctionOnSet(e, A) = SumFunctionOnSet(e, S)
  <2>1. \A x \in A : e[x] \in Int
    BY <1>1
  <2> QED BY <1>3, <2>1, SumSupport
<1>7. SumFunctionOnSet(e, S) = SumFunctionOnSet(d, S)
  BY <1>2, <1>4, SumCongruent
<1>8. SumFunctionOnSet(f, A) \in Int
  BY SumInt DEF DiffersBy
<1>9. SumFunctionOnSet(d, S) \in Int
  BY <1>4, SumInt DEF DiffersBy
<1> QED BY <1>5, <1>6, <1>7, <1>8, <1>9

\* The sum of the opposite values.
LEMMA SumOpposite ==
  ASSUME NEW f, NEW g, NEW S, IsFiniteSet(S), \A x \in S : f[x] \in Int /\ g[x] = -f[x]
  PROVE  SumFunctionOnSet(g, S) = -SumFunctionOnSet(f, S)
<1> DEFINE z == [x \in S |-> 0]
<1>1. \A x \in S : f[x] \in Int /\ g[x] \in Int /\ z[x] = f[x] + g[x]
  OBVIOUS
<1>2. \A x \in S : z[x] = 0
  OBVIOUS
<1> HIDE DEF z
<1>3. SumFunctionOnSet(z, S) = SumFunctionOnSet(f, S) + SumFunctionOnSet(g, S)
  BY <1>1, SumPointwise
<1>4. SumFunctionOnSet(z, S) = 0
  BY <1>2, SumZero
<1>5. SumFunctionOnSet(f, S) \in Int
  BY SumInt
<1>6. SumFunctionOnSet(g, S) \in Int
  <2>1. \A x \in S : g[x] \in Int
    BY <1>1
  <2> QED BY <2>1, SumInt
<1> QED BY <1>3, <1>4, <1>5, <1>6

-----------------------------------------------------------------------------
(* Largest elements                                                        *)

\* A finite nonempty set of naturals has a largest element.
LEMMA LargestElement ==
  ASSUME NEW S, IsFiniteSet(S), S # {}, \A x \in S : x \in Nat
  PROVE  \E x \in S : \A y \in S : x >= y
<1> DEFINE B == {T \in SUBSET S : T # {} /\ ~(\E x \in T : \A y \in T : x >= y)}
<1>1. SUFFICES ASSUME ~(\E x \in S : \A y \in S : x >= y) PROVE FALSE
  OBVIOUS
<1>2. S \in B /\ B \in SUBSET (SUBSET S)
  BY <1>1
<1>3. PICK T \in B : \A X \in B : X \subseteq T => X = T
  <2> HIDE DEF B
  <2> QED BY <1>2, MinimalSubset
<1>4. T # {} /\ T \in SUBSET S /\ ~(\E x \in T : \A y \in T : x >= y)
  OBVIOUS
<1>5. PICK x \in T : TRUE
  BY <1>4
<1>6. CASE T \ {x} = {}
  BY <1>4, <1>5, <1>6
<1>7. CASE T \ {x} # {}
  <2>1. T \ {x} \notin B /\ T \ {x} \in SUBSET S
    BY <1>3, <1>4, <1>5
  <2>2. PICK z \in T \ {x} : \A y \in T \ {x} : z >= y
    BY <1>7, <2>1
  <2>3. x \in Nat /\ z \in Nat
    BY <1>4, <1>5
  <2>4. CASE x >= z
    <3>1. \A y \in T : y \in Nat
      BY <1>4
    <3>2. \A y \in T : x >= y
      BY <2>2, <2>3, <2>4, <3>1
    <3> QED BY <1>4, <1>5, <3>2
  <2>5. CASE z > x
    <3>1. \A y \in T : z >= y
      BY <2>2, <2>3, <2>5
    <3> QED BY <1>4, <2>2, <3>1
  <2> QED BY <2>3, <2>4, <2>5
<1> QED BY <1>6, <1>7

-----------------------------------------------------------------------------
(* Naturals                                                                *)

\* A set that has 0 and the successor of each of its naturals has them all.
LEMMA NaturalsInSet ==
  ASSUME NEW G, 0 \in G, \A i \in Nat : i \in G => i + 1 \in G
  PROVE  \A n \in Nat : n \in G
<1> SUFFICES ASSUME NEW n \in Nat, n \notin G PROVE FALSE
  OBVIOUS
<1> DEFINE K == {k \in 0..n : n - k \notin G}
<1>1. IsFiniteSet(K)
  <2>1. IsFiniteSet(0..n)
    BY FS_Interval
  <2>2. K \subseteq 0..n
    OBVIOUS
  <2> HIDE DEF K
  <2> QED BY <2>1, <2>2, FS_Subset
<1>2. K # {} /\ \A x \in K : x \in Nat
  <2>1. 0 \in K
    OBVIOUS
  <2> QED BY <2>1
<1>3. PICK k \in K : \A y \in K : k >= y
  <2> HIDE DEF K
  <2> QED BY <1>1, <1>2, LargestElement
<1>4. k \in 0..n /\ n - k \notin G /\ n - k \in Nat
  OBVIOUS
<1>5. n - k # 0
  BY <1>4
<1>6. k + 1 \notin K /\ k + 1 \in 0..n
  BY <1>3, <1>4, <1>5
<1>7. n - (k + 1) \in G /\ n - (k + 1) \in Nat /\ (n - (k + 1)) + 1 = n - k
  BY <1>4, <1>6
<1> QED BY <1>4, <1>7

=============================================================================
