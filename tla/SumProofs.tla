------------------------------ MODULE SumProofs ------------------------------
(***************************************************************************)
(* Facts about the sums the specifications balance the stock with          *)
(* (SumFunctionOnSet of the community modules).  The induction theorems of *)
(* the library take an operator as a parameter, which the provers cannot   *)
(* instantiate; what serves here is that strict inclusion is well founded  *)
(* on the finite subsets of a set, so that of the subsets for which a      *)
(* claim fails there would be a smallest one.                              *)
(***************************************************************************)
EXTENDS Integers, Functions, FiniteSetTheorems, WellFoundedInduction, TLAPS

\* The element a fold takes out of a set first.
Taken(S) == CHOOSE x \in S : TRUE
\* g is a table of the sums of f over the subsets of S.
AddsUp(g, f, S) ==
  g = [s \in SUBSET S |-> IF s = {} THEN 0 ELSE f[Taken(s)] + g[s \ {Taken(s)}]]

\* Among some subsets of a finite set there is one with no smaller one: the
\* form in which induction over finite sets is used below.
LEMMA SmallestSubset ==
  ASSUME NEW S, IsFiniteSet(S), NEW T, T \subseteq SUBSET S, T # {}
  PROVE  \E U \in T : \A V \in T : V \subseteq U => V = U
<1>1. IsWellFoundedOn(StrictSubsetOrdering(S), FiniteSubsetsOf(S))
  BY FS_StrictSubsetOrderingWellFounded
<1>2. T \subseteq FiniteSubsetsOf(S)
  BY FS_FiniteSubsetsOfFinite
<1>3. PICK U \in T : \A V \in T : <<V, U>> \notin StrictSubsetOrdering(S)
  BY <1>1, <1>2, WFMin, Zenon
<1>4. ASSUME NEW V \in T, V \subseteq U, V # U PROVE FALSE
  BY <1>2, <1>3, <1>4 DEF StrictSubsetOrdering
<1> QED BY <1>4

\* The element that a fold takes out of a set is one of it.
LEMMA TakenIn == ASSUME NEW S, S # {} PROVE Taken(S) \in S
BY DEF Taken

\* Two tables of partial sums agree where both are defined.
LEMMA SumsAgree ==
  ASSUME NEW f, NEW S, IsFiniteSet(S), NEW T, NEW g, NEW h, AddsUp(g, f, S), AddsUp(h, f, T),
         NEW U, U \subseteq S, U \subseteq T
  PROVE  g[U] = h[U]
<1> DEFINE Bad == {V \in SUBSET U : g[V] # h[V]}
<1> SUFFICES ASSUME g[U] # h[U] PROVE FALSE
  OBVIOUS
<1>1. IsFiniteSet(U)
  BY FS_Subset
<1>2. PICK V \in Bad : \A W \in Bad : W \subseteq V => W = V
  <2>1. Bad # {} /\ Bad \subseteq SUBSET U
    OBVIOUS
  <2> HIDE DEF Bad
  <2> QED BY <1>1, <2>1, SmallestSubset
<1>3. g[V] = IF V = {} THEN 0 ELSE f[Taken(V)] + g[V \ {Taken(V)}]
  BY DEF AddsUp
<1>4. h[V] = IF V = {} THEN 0 ELSE f[Taken(V)] + h[V \ {Taken(V)}]
  BY DEF AddsUp
<1>5. V # {} => g[V \ {Taken(V)}] = h[V \ {Taken(V)}]
  <2> SUFFICES ASSUME V # {}, V \ {Taken(V)} \in Bad PROVE FALSE
    OBVIOUS
  <2> QED BY <1>2, TakenIn
<1> QED BY <1>3, <1>4, <1>5

\* The recursive definition of a fold defines something: there is a table of
\* the partial sums of every finite set.
LEMMA SumsExist ==
  ASSUME NEW f, NEW S, IsFiniteSet(S)
  PROVE  \E g : AddsUp(g, f, S)
<1> DEFINE Bad == {V \in SUBSET S : ~ \E g : AddsUp(g, f, V)}
<1> SUFFICES ASSUME ~ \E g : AddsUp(g, f, S) PROVE FALSE
  OBVIOUS
<1>2. PICK V \in Bad : \A W \in Bad : W \subseteq V => W = V
  <2>1. Bad # {} /\ Bad \subseteq SUBSET S
    OBVIOUS
  <2> HIDE DEF Bad
  <2> QED BY <2>1, SmallestSubset
<1> DEFINE part(W) == CHOOSE g : AddsUp(g, f, W)
           total(W) == IF W = {} THEN 0 ELSE f[Taken(W)] + part(W \ {Taken(W)})[W \ {Taken(W)}]
           h == [W \in SUBSET V |-> total(W)]
<1>3. ASSUME NEW W \in SUBSET V, W # V PROVE AddsUp(part(W), f, W)
  <2>1. \E g : AddsUp(g, f, W)
    BY <1>2, <1>3
  <2> QED BY <2>1
<1>4. ASSUME NEW W \in SUBSET V, W # {}
      PROVE  h[W \ {Taken(W)}] = part(W \ {Taken(W)})[W \ {Taken(W)}]
  <2> DEFINE X == W \ {Taken(W)}
  <2>1. X \in SUBSET V /\ X # V /\ IsFiniteSet(X)
    BY <1>4, TakenIn, FS_Subset
  <2>2. AddsUp(part(X), f, X)
    BY <2>1, <1>3
  <2>3. part(X)[X] = IF X = {} THEN 0 ELSE f[Taken(X)] + part(X)[X \ {Taken(X)}]
    <3> HIDE DEF part
    <3> QED BY <2>2 DEF AddsUp
  <2>4. CASE X = {}
    <3> HIDE DEF part
    <3> QED BY <2>1, <2>3, <2>4
  <2>5. CASE X # {}
    <3> DEFINE Y == X \ {Taken(X)}
    <3>1. Y \in SUBSET V /\ Y # V /\ IsFiniteSet(Y) /\ Y \subseteq X
      BY <2>1, <2>5, TakenIn, FS_Subset
    <3>2. AddsUp(part(Y), f, Y)
      BY <3>1, <1>3
    <3>3. part(X)[Y] = part(Y)[Y]
      <4>1. Y \subseteq Y
        OBVIOUS
      <4> HIDE DEF part, X, Y
      <4> QED BY <2>1, <2>2, <3>1, <3>2, <4>1, SumsAgree
    <3>4. h[X] = f[Taken(X)] + part(Y)[Y]
      <4> HIDE DEF part
      <4> QED BY <2>1, <2>5
    <3>5. part(X)[X] = f[Taken(X)] + part(X)[Y]
      BY <2>3, <2>5
    <3> HIDE DEF part, h, Y
    <3>6. h[X] = part(X)[X]
      BY <3>3, <3>4, <3>5
    <3> QED BY <3>6
  <2> QED BY <2>4, <2>5
<1>5. AddsUp(h, f, V)
  <2>1. \A W \in SUBSET V : h[W] = IF W = {} THEN 0 ELSE f[Taken(W)] + h[W \ {Taken(W)}]
    <3> TAKE W \in SUBSET V
    <3>1. h[W] = total(W)
      OBVIOUS
    <3> HIDE DEF part, h
    <3> QED BY <3>1, <1>4
  <2>2. h = [W \in SUBSET V |-> h[W]]
    OBVIOUS
  <2> HIDE DEF h
  <2> QED BY <2>1, <2>2 DEF AddsUp
<1> HIDE DEF h
<1> QED BY <1>2, <1>5

\* The sum of a finite set is read from such a table.
LEMMA SumUnfold ==
  ASSUME NEW f, NEW S, IsFiniteSet(S)
  PROVE  \E g : AddsUp(g, f, S) /\ SumFunctionOnSet(f, S) = g[S]
<1> DEFINE it == CHOOSE g : AddsUp(g, f, S)
<1>1. AddsUp(it, f, S)
  BY SumsExist
<1>2. SumFunctionOnSet(f, S) = it[S]
  BY DEF SumFunctionOnSet, FoldFunctionOnSet, MapThenFoldSet, AddsUp, Taken
<1> QED BY <1>1, <1>2

\* What the recursive definition says of the sum.
LEMMA SumStep ==
  ASSUME NEW f, NEW S, IsFiniteSet(S)
  PROVE  SumFunctionOnSet(f, S) =
           IF S = {} THEN 0 ELSE f[Taken(S)] + SumFunctionOnSet(f, S \ {Taken(S)})
<1>1. PICK g : AddsUp(g, f, S) /\ SumFunctionOnSet(f, S) = g[S]
  BY SumUnfold
<1>2. g[S] = IF S = {} THEN 0 ELSE f[Taken(S)] + g[S \ {Taken(S)}]
  BY <1>1 DEF AddsUp
<1>3. CASE S = {}
  BY <1>1, <1>2, <1>3
<1>4. CASE S # {}
  <2> DEFINE T == S \ {Taken(S)}
  <2>1. IsFiniteSet(T) /\ T \subseteq S /\ T \subseteq T
    BY FS_Subset
  <2>2. PICK h : AddsUp(h, f, T) /\ SumFunctionOnSet(f, T) = h[T]
    BY <2>1, SumUnfold
  <2>3. g[T] = h[T]
    <3> HIDE DEF T
    <3> QED BY <1>1, <2>1, <2>2, SumsAgree
  <2> QED BY <1>1, <1>2, <1>4, <2>2, <2>3
<1> QED BY <1>3, <1>4

\* Nothing adds up to 0.
LEMMA SumEmpty == ASSUME NEW f PROVE SumFunctionOnSet(f, {}) = 0
BY SumStep, FS_EmptySet

\* A finite sum of integers is an integer.
LEMMA SumType ==
  ASSUME NEW f, NEW S, IsFiniteSet(S), \A x \in S : f[x] \in Int
  PROVE  SumFunctionOnSet(f, S) \in Int
<1> DEFINE Bad == {V \in SUBSET S : SumFunctionOnSet(f, V) \notin Int}
<1> SUFFICES ASSUME Bad # {} PROVE FALSE
  OBVIOUS
<1>1. PICK V \in Bad : \A W \in Bad : W \subseteq V => W = V
  <2>1. Bad \subseteq SUBSET S
    OBVIOUS
  <2> HIDE DEF Bad
  <2> QED BY <2>1, SmallestSubset
<1>2. IsFiniteSet(V)
  BY FS_Subset
<1>3. V # {}
  BY SumEmpty
<1>4. V \ {Taken(V)} \in SUBSET S /\ V \ {Taken(V)} \notin Bad
  BY <1>1, <1>3, TakenIn
<1> QED BY <1>2, <1>3, <1>4, SumStep, TakenIn

\* The sum does not depend on the order in which elements are taken out.
LEMMA SumRemove ==
  ASSUME NEW f, NEW S, IsFiniteSet(S), \A x \in S : f[x] \in Int, NEW x \in S
  PROVE  SumFunctionOnSet(f, S) = f[x] + SumFunctionOnSet(f, S \ {x})
<1> DEFINE Sum(V) == SumFunctionOnSet(f, V)
           Bad == {V \in SUBSET S : \E y \in V : Sum(V) # f[y] + Sum(V \ {y})}
<1> SUFFICES ASSUME Bad # {} PROVE FALSE
  OBVIOUS
<1>1. PICK V \in Bad : \A W \in Bad : W \subseteq V => W = V
  <2>1. Bad \subseteq SUBSET S
    OBVIOUS
  <2> HIDE DEF Bad
  <2> QED BY <2>1, SmallestSubset
<1>2. PICK y \in V : Sum(V) # f[y] + Sum(V \ {y})
  OBVIOUS
<1> DEFINE z == Taken(V)
<1>3. z \in V
  BY <1>2, TakenIn
<1>4. \A W \in SUBSET S : IsFiniteSet(W) /\ Sum(W) \in Int
  <2> TAKE W \in SUBSET S
  <2>1. IsFiniteSet(W)
    BY FS_Subset
  <2> QED BY <2>1, SumType
<1>5. Sum(V) = f[z] + Sum(V \ {z})
  BY <1>2, <1>4, SumStep
<1> HIDE DEF Sum, z
<1>6. y # z
  BY <1>2, <1>5
<1>7. ASSUME NEW a \in V, NEW b \in V, a # b
      PROVE  Sum(V \ {a}) = f[b] + Sum((V \ {a}) \ {b})
  <2> DEFINE W == V \ {a}
  <2>1. W \in SUBSET S /\ W \subseteq V /\ W # V /\ b \in W
    BY <1>7
  <2>2. W \notin Bad
    BY <1>1, <2>1
  <2> HIDE DEF W
  <2> QED BY <2>1, <2>2 DEF W
<1>8. /\ Sum(V \ {z}) = f[y] + Sum((V \ {z}) \ {y})
      /\ Sum(V \ {y}) = f[z] + Sum((V \ {y}) \ {z})
  BY <1>3, <1>6, <1>7
<1>9. (V \ {z}) \ {y} = (V \ {y}) \ {z} /\ (V \ {y}) \ {z} \in SUBSET S
  OBVIOUS
<1>10. f[y] \in Int /\ f[z] \in Int /\ Sum((V \ {y}) \ {z}) \in Int
  BY <1>3, <1>4, <1>9
<1>11. Sum((V \ {z}) \ {y}) = Sum((V \ {y}) \ {z})
  BY <1>9, Zenon
<1> QED BY <1>2, <1>5, <1>8, <1>10, <1>11

\* A new element adds its value.
LEMMA SumAdd ==
  ASSUME NEW f, NEW S, IsFiniteSet(S), NEW x, x \notin S, \A y \in S \cup {x} : f[y] \in Int
  PROVE  SumFunctionOnSet(f, S \cup {x}) = f[x] + SumFunctionOnSet(f, S)
<1>1. IsFiniteSet(S \cup {x}) /\ x \in S \cup {x} /\ (S \cup {x}) \ {x} = S
  BY FS_AddElement
<1>2. SumFunctionOnSet(f, S \cup {x}) = f[x] + SumFunctionOnSet(f, (S \cup {x}) \ {x})
  <2> DEFINE T == S \cup {x}
  <2>1. IsFiniteSet(T) /\ x \in T /\ \A y \in T : f[y] \in Int
    BY <1>1
  <2> HIDE DEF T
  <2>2. SumFunctionOnSet(f, T) = f[x] + SumFunctionOnSet(f, T \ {x})
    BY <2>1, SumRemove
  <2> QED BY <2>2 DEF T
<1> QED BY <1>1, <1>2, Zenon

\* The sum depends only on the values over the set.
LEMMA SumSame ==
  ASSUME NEW f, NEW g, NEW S, IsFiniteSet(S), \A x \in S : f[x] = g[x]
  PROVE  SumFunctionOnSet(f, S) = SumFunctionOnSet(g, S)
<1> DEFINE Bad == {V \in SUBSET S : SumFunctionOnSet(f, V) # SumFunctionOnSet(g, V)}
<1> SUFFICES ASSUME Bad # {} PROVE FALSE
  OBVIOUS
<1>1. PICK V \in Bad : \A W \in Bad : W \subseteq V => W = V
  <2>1. Bad \subseteq SUBSET S
    OBVIOUS
  <2> HIDE DEF Bad
  <2> QED BY <2>1, SmallestSubset
<1>2. IsFiniteSet(V)
  BY FS_Subset
<1>3. V # {}
  BY SumEmpty
<1>4. V \ {Taken(V)} \in SUBSET S /\ V \ {Taken(V)} \notin Bad
  BY <1>1, <1>3, TakenIn
<1>5. SumFunctionOnSet(f, V \ {Taken(V)}) = SumFunctionOnSet(g, V \ {Taken(V)})
  BY <1>4
<1>6. f[Taken(V)] = g[Taken(V)]
  BY <1>3, TakenIn
<1>7. /\ SumFunctionOnSet(f, V) = f[Taken(V)] + SumFunctionOnSet(f, V \ {Taken(V)})
      /\ SumFunctionOnSet(g, V) = g[Taken(V)] + SumFunctionOnSet(g, V \ {Taken(V)})
  BY <1>2, <1>3, SumStep, Zenon
<1> QED BY <1>5, <1>6, <1>7

\* When one value changes, the sum changes by the difference.
LEMMA SumChange ==
  ASSUME NEW f, NEW g, NEW S, IsFiniteSet(S), NEW x \in S,
         \A y \in S : f[y] \in Int /\ g[y] \in Int,
         \A y \in S \ {x} : f[y] = g[y]
  PROVE  SumFunctionOnSet(g, S) = SumFunctionOnSet(f, S) + g[x] - f[x]
<1>1. IsFiniteSet(S \ {x})
  BY FS_RemoveElement
<1>2. SumFunctionOnSet(f, S \ {x}) = SumFunctionOnSet(g, S \ {x})
  BY <1>1, SumSame
<1>3. SumFunctionOnSet(f, S \ {x}) \in Int
  BY <1>1, SumType
<1>4. SumFunctionOnSet(f, S) = f[x] + SumFunctionOnSet(f, S \ {x})
  BY SumRemove
<1>5. SumFunctionOnSet(g, S) = g[x] + SumFunctionOnSet(g, S \ {x})
  BY SumRemove
<1> QED BY <1>2, <1>3, <1>4, <1>5

\* A sum of naturals is a natural.
LEMMA SumNotNegative ==
  ASSUME NEW f, NEW S, IsFiniteSet(S), \A x \in S : f[x] \in Nat
  PROVE  SumFunctionOnSet(f, S) \in Nat
<1> DEFINE Bad == {V \in SUBSET S : SumFunctionOnSet(f, V) \notin Nat}
<1> SUFFICES ASSUME Bad # {} PROVE FALSE
  OBVIOUS
<1>1. PICK V \in Bad : \A W \in Bad : W \subseteq V => W = V
  <2>1. Bad \subseteq SUBSET S
    OBVIOUS
  <2> HIDE DEF Bad
  <2> QED BY <2>1, SmallestSubset
<1>2. IsFiniteSet(V)
  BY FS_Subset
<1>3. V # {}
  BY SumEmpty
<1>4. V \ {Taken(V)} \in SUBSET S /\ V \ {Taken(V)} \notin Bad
  BY <1>1, <1>3, TakenIn
<1> QED BY <1>2, <1>3, <1>4, SumStep, TakenIn

\* The sum over two disjoint sets.
LEMMA SumUnion ==
  ASSUME NEW f, NEW S, NEW T, IsFiniteSet(S), IsFiniteSet(T), S \cap T = {},
         \A x \in S \cup T : f[x] \in Int
  PROVE  SumFunctionOnSet(f, S \cup T) = SumFunctionOnSet(f, S) + SumFunctionOnSet(f, T)
<1> DEFINE Sum(V) == SumFunctionOnSet(f, V)
           Bad == {V \in SUBSET T : Sum(S \cup V) # Sum(S) + Sum(V)}
<1> SUFFICES ASSUME Bad # {} PROVE FALSE
  OBVIOUS
<1>1. PICK V \in Bad : \A W \in Bad : W \subseteq V => W = V
  <2>1. Bad \subseteq SUBSET T
    OBVIOUS
  <2> HIDE DEF Bad
  <2> QED BY <2>1, SmallestSubset
<1>2. IsFiniteSet(V) /\ IsFiniteSet(S \cup V)
  BY FS_Subset, FS_Union
<1>3. V # {}
  <2>1. Sum(S) \in Int
    BY SumType
  <2> QED BY <2>1, SumEmpty
<1>4. PICK x \in V : TRUE
  BY <1>3
<1>5. V \ {x} \in SUBSET T /\ V \ {x} \notin Bad
  BY <1>1
<1>6. Sum(V) = f[x] + Sum(V \ {x})
  BY <1>2, SumRemove
<1>7. Sum(S \cup V) = f[x] + Sum((S \cup V) \ {x})
  <2> DEFINE W == S \cup V
  <2>1. IsFiniteSet(W) /\ x \in W /\ \A y \in W : f[y] \in Int
    BY <1>2
  <2> HIDE DEF W
  <2>2. SumFunctionOnSet(f, W) = f[x] + SumFunctionOnSet(f, W \ {x})
    BY <2>1, SumRemove
  <2> QED BY <2>2 DEF W
<1>8. (S \cup V) \ {x} = S \cup (V \ {x})
  OBVIOUS
<1>10. Sum(S \cup (V \ {x})) = Sum(S) + Sum(V \ {x})
  BY <1>5
<1>11. Sum(S \cup V) # Sum(S) + Sum(V)
  OBVIOUS
<1>9. f[x] \in Int /\ Sum(S) \in Int /\ Sum(V \ {x}) \in Int
  BY <1>2, SumType, FS_RemoveElement
<1> HIDE DEF Sum
<1>12. Sum(S \cup V) = f[x] + Sum(S \cup (V \ {x}))
  BY <1>7, <1>8, Zenon
<1> QED BY <1>6, <1>9, <1>10, <1>11, <1>12

\* A finite set has finitely many values under a function.
LEMMA ImageFinite ==
  ASSUME NEW S, IsFiniteSet(S), NEW f
  PROVE  IsFiniteSet({f[x] : x \in S})
<1> DEFINE T == {f[x] : x \in S}
           g == [x \in S |-> f[x]]
<1>1. g \in Surjection(S, T)
  BY DEF Surjection
<1> HIDE DEF T, g
<1>2. IsFiniteSet(T)
  BY <1>1, FS_Surjection
<1> QED BY <1>2 DEF T

\* A sum of zeros is zero.
LEMMA SumZero ==
  ASSUME NEW f, NEW S, IsFiniteSet(S), \A x \in S : f[x] = 0
  PROVE  SumFunctionOnSet(f, S) = 0
<1> DEFINE Bad == {V \in SUBSET S : SumFunctionOnSet(f, V) # 0}
<1> SUFFICES ASSUME Bad # {} PROVE FALSE
  OBVIOUS
<1>1. PICK V \in Bad : \A W \in Bad : W \subseteq V => W = V
  <2>1. Bad \subseteq SUBSET S
    OBVIOUS
  <2> HIDE DEF Bad
  <2> QED BY <2>1, SmallestSubset
<1>2. IsFiniteSet(V)
  BY FS_Subset
<1>3. V # {}
  BY SumEmpty
<1>4. Taken(V) \in V /\ f[Taken(V)] = 0
  BY <1>3, TakenIn
<1>5. SumFunctionOnSet(f, V \ {Taken(V)}) = 0
  BY <1>1, <1>4
<1>6. SumFunctionOnSet(f, V) = f[Taken(V)] + SumFunctionOnSet(f, V \ {Taken(V)})
  BY <1>2, <1>3, SumStep
<1> QED BY <1>4, <1>5, <1>6

\* A finite set of integers that is not empty has a largest element.
LEMMA LargestExists ==
  ASSUME NEW S, IsFiniteSet(S), \A y \in S : y \in Int, S # {}
  PROVE  \E x \in S : \A y \in S : x >= y
<1> DEFINE Bad == {V \in SUBSET S : V # {} /\ ~ \E x \in V : \A y \in V : x >= y}
<1> SUFFICES ASSUME Bad # {} PROVE FALSE
  OBVIOUS
<1>1. PICK V \in Bad : \A W \in Bad : W \subseteq V => W = V
  <2>1. Bad \subseteq SUBSET S
    OBVIOUS
  <2> HIDE DEF Bad
  <2> QED BY <2>1, SmallestSubset
<1>2. PICK z \in V : TRUE
  OBVIOUS
<1>3. CASE V = {z}
  BY <1>3
<1>4. CASE V # {z}
  <2>1. V \ {z} \notin Bad
    BY <1>1, <1>2
  <2>2. PICK x \in V \ {z} : \A y \in V \ {z} : x >= y
    BY <1>2, <1>4, <2>1
  <2>3. CASE x >= z
    BY <2>2, <2>3
  <2>4. CASE ~(x >= z)
    BY <1>2, <2>2, <2>4
  <2> QED BY <2>3, <2>4
<1> QED BY <1>3, <1>4
=============================================================================
