------------------------------ MODULE FiniteSums ------------------------------
(***************************************************************************)
(* Facts about least numbers and about sums over finite sets, which the    *)
(* models write with MapThenSumSet.  Induction is by contradiction: of the *)
(* numbers, or of the subsets of a finite set, for which a claim fails     *)
(* there is a minimal one.                                                 *)
(***************************************************************************)
EXTENDS FiniteSetsExt, FiniteSetTheorems, TLAPS

\* A set of naturals that is not empty has a least element.
LEMMA LeastNatural ==
  ASSUME NEW T \in SUBSET Nat, T # {}
  PROVE  \E n \in T : \A m \in T : n <= m
<1> DEFINE R == OpToRel(<, Nat)
<1>1. IsWellFoundedOn(R, Nat)
  BY NatLessThanWellFounded
<1>2. PICK n \in T : \A m \in T : ~ (<<m, n>> \in R)
  <2> HIDE DEF R
  <2> QED BY <1>1, WFMin
<1>3. \A m \in T : ~ (m < n)
  BY <1>2 DEF OpToRel
<1> QED BY <1>3

\* A set of subsets of a finite set that is not empty has a minimal element.
LEMMA MinimalSubset ==
  ASSUME NEW S, IsFiniteSet(S), NEW T \in SUBSET SUBSET S, T # {}
  PROVE  \E U \in T : \A V \in T : V \subseteq U => V = U
<1> DEFINE R == StrictSubsetOrdering(S)
<1>1. IsWellFoundedOn(R, SUBSET S)
  BY FS_StrictSubsetOrderingWellFounded, FS_FiniteSubsetsOfFinite
<1>2. PICK U \in T : \A V \in T : ~ (<<V, U>> \in R)
  <2> HIDE DEF R
  <2> QED BY <1>1, WFMin
<1> QED BY <1>2 DEF StrictSubsetOrdering

-----------------------------------------------------------------------------
(* The function that MapThenSumSet evaluates                               *)

OneOf(s) == CHOOSE x \in s : TRUE

SumStep(g, f, s) == IF s = {} THEN 0 ELSE f[OneOf(s)] + g[s \ {OneOf(s)}]

Sums(g, f, S) == g = [s \in SUBSET S |-> SumStep(g, f, s)]

\* The element of a set that is taken first.
LEMMA OneOfElement ==
  ASSUME NEW s, s # {}
  PROVE  OneOf(s) \in s
BY DEF OneOf

\* The recursion has a solution for the subsets of a finite set.
LEMMA SumsExist ==
  ASSUME NEW S, IsFiniteSet(S), NEW f \in [S -> Nat]
  PROVE  \E g \in [SUBSET S -> Nat] : Sums(g, f, S)
<1> DEFINE Upto(g, n) == \A s \in SUBSET S : Cardinality(s) <= n => g[s] = SumStep(g, f, s)
           Failing == {n \in Nat : ~ \E g \in [SUBSET S -> Nat] : Upto(g, n)}
<1>1. \A s \in SUBSET S : IsFiniteSet(s) /\ Cardinality(s) \in Nat
  BY FS_Subset, FS_CardinalityType
<1>2. Failing = {}
  <2> SUFFICES ASSUME Failing # {}
               PROVE  FALSE
    OBVIOUS
  <2>1. PICK n \in Failing : \A m \in Failing : n <= m
    <3>1. Failing \in SUBSET Nat
      OBVIOUS
    <3> HIDE DEF Failing
    <3> QED BY <3>1, LeastNatural
  <2>2. n # 0
    <3> DEFINE zero == [s \in SUBSET S |-> 0]
    <3>1. \A s \in SUBSET S : Cardinality(s) <= 0 => zero[s] = SumStep(zero, f, s)
      BY <1>1, FS_EmptySet DEF SumStep
    <3>2. zero \in [SUBSET S -> Nat]
      OBVIOUS
    <3> HIDE DEF zero
    <3> QED BY <2>1, <3>1, <3>2
  <2>3. n - 1 \in Nat /\ n - 1 \notin Failing
    <3>1. n \in Nat
      OBVIOUS
    <3> HIDE DEF Failing
    <3> QED BY <2>1, <2>2, <3>1
  <2>4. PICK g \in [SUBSET S -> Nat] : Upto(g, n - 1)
    BY <2>3
  <2> DEFINE h == [s \in SUBSET S |-> IF Cardinality(s) <= n - 1 THEN g[s] ELSE SumStep(g, f, s)]
  <2>5. h \in [SUBSET S -> Nat]
    <3>1. \A s \in SUBSET S : SumStep(g, f, s) \in Nat
      BY OneOfElement DEF SumStep
    <3> QED BY <3>1
  <2>6. ASSUME NEW s \in SUBSET S, Cardinality(s) <= n
        PROVE  h[s] = SumStep(h, f, s)
    <3>1. CASE s = {}
      <4>1. h[s] = g[s] /\ g[s] = SumStep(g, f, s)
        BY <2>2, <2>3, <2>4, <3>1, FS_EmptySet
      <4> QED BY <3>1, <4>1 DEF SumStep
    <3>2. CASE s # {}
      <4> DEFINE rest == s \ {OneOf(s)}
      <4>1. Cardinality(rest) = Cardinality(s) - 1
        BY <1>1, <3>2, OneOfElement, FS_RemoveElement
      <4>2. h[rest] = g[rest]
        BY <1>1, <2>6, <4>1
      <4>3. SumStep(h, f, s) = SumStep(g, f, s)
        BY <3>2, <4>2 DEF SumStep
      <4>4. h[s] = SumStep(g, f, s)
        BY <2>4
      <4> QED BY <4>3, <4>4
    <3> QED BY <3>1, <3>2
  <2>7. Upto(h, n)
    BY <2>6
  <2> QED BY <2>1, <2>5, <2>7
<1>3. Cardinality(S) \in Nat
  BY FS_CardinalityType
<1>4. PICK g \in [SUBSET S -> Nat] : Upto(g, Cardinality(S))
  BY <1>2, <1>3
<1>5. \A s \in SUBSET S : Cardinality(s) <= Cardinality(S)
  BY FS_Subset
<1>6. \A s \in SUBSET S : g[s] = SumStep(g, f, s)
  BY <1>4, <1>5
<1> QED BY <1>6 DEF Sums

\* What it is for a set depends on the values of the set's own elements.
LEMMA SumsAgree ==
  ASSUME NEW S, NEW T, NEW U, IsFiniteSet(U), U \subseteq S, U \subseteq T,
         NEW f, NEW h, \A x \in U : f[x] = h[x],
         NEW a, Sums(a, f, S), NEW b, Sums(b, h, T)
  PROVE  a[U] = b[U]
<1> DEFINE Failing == {V \in SUBSET U : a[V] # b[V]}
<1> SUFFICES ASSUME Failing # {}
             PROVE  FALSE
  OBVIOUS
<1>1. PICK V \in Failing : \A W \in Failing : W \subseteq V => W = V
  <2>1. Failing \in SUBSET SUBSET U
    OBVIOUS
  <2> HIDE DEF Failing
  <2> QED BY <2>1, MinimalSubset
<1>2. a[V] = SumStep(a, f, V) /\ b[V] = SumStep(b, h, V)
  BY DEF Sums
<1>3. V # {}
  BY <1>2 DEF SumStep
<1>4. a[V \ {OneOf(V)}] = b[V \ {OneOf(V)}]
  BY <1>1, <1>3, OneOfElement
<1>5. f[OneOf(V)] = h[OneOf(V)]
  BY <1>3, OneOfElement
<1> QED BY <1>1, <1>2, <1>3, <1>4, <1>5 DEF SumStep

\* Any element may be taken from the set first.
LEMMA SumsRemove ==
  ASSUME NEW S, IsFiniteSet(S), NEW f \in [S -> Nat], NEW g \in [SUBSET S -> Nat], Sums(g, f, S),
         NEW x \in S
  PROVE  g[S] = f[x] + g[S \ {x}]
<1> DEFINE Removes(V, y) == g[V] = f[y] + g[V \ {y}]
           Failing == {V \in SUBSET S : \E y \in V : ~Removes(V, y)}
<1> SUFFICES ASSUME Failing # {}
             PROVE  FALSE
  OBVIOUS
<1>1. PICK V \in Failing : \A W \in Failing : W \subseteq V => W = V
  <2>1. Failing \in SUBSET SUBSET S
    OBVIOUS
  <2> HIDE DEF Failing
  <2> QED BY <2>1, MinimalSubset
<1>2. PICK y \in V : ~Removes(V, y)
  BY <1>1
<1> DEFINE z == OneOf(V)
<1>3. z \in V
  BY <1>2, OneOfElement
<1>4. Removes(V, z)
  <2>1. g[V] = SumStep(g, f, V)
    BY <1>1 DEF Sums
  <2> QED BY <1>2, <2>1 DEF SumStep
<1>5. Removes(V \ {z}, y) /\ Removes(V \ {y}, z)
  <2>1. \A W \in SUBSET V : W # V => \A u \in W : Removes(W, u)
    BY <1>1
  <2>2. y # z
    BY <1>2, <1>4
  <2> HIDE DEF Removes, Failing, z
  <2> QED BY <1>2, <1>3, <2>1, <2>2
<1>6. g[(V \ {z}) \ {y}] = g[(V \ {y}) \ {z}]
  <2>1. (V \ {z}) \ {y} = (V \ {y}) \ {z}
    OBVIOUS
  <2> QED BY <2>1
<1>7. /\ f[y] \in Nat /\ f[z] \in Nat
      /\ g[V \ {y}] \in Nat /\ g[V \ {z}] \in Nat /\ g[(V \ {y}) \ {z}] \in Nat
  BY <1>1, <1>2, <1>3
<1> HIDE DEF z, Failing
<1> QED BY <1>2, <1>4, <1>5, <1>6, <1>7

-----------------------------------------------------------------------------
(* Sums                                                                    *)

SumOf(f, S) == MapThenSumSet(LAMBDA i : f[i], S)

\* What MapThenSumSet evaluates is that solution.
LEMMA SumOfSums ==
  ASSUME NEW S, IsFiniteSet(S), NEW f \in [S -> Nat]
  PROVE  \E g \in [SUBSET S -> Nat] : Sums(g, f, S) /\ SumOf(f, S) = g[S]
<1> DEFINE g == CHOOSE h : Sums(h, f, S)
<1>1. PICK a \in [SUBSET S -> Nat] : Sums(a, f, S)
  BY SumsExist
<1>2. Sums(g, f, S)
  <2> HIDE DEF Sums
  <2> QED BY <1>1
<1>3. SumOf(f, S) = g[S]
  BY DEF SumOf, MapThenSumSet, MapThenFoldSet, Sums, SumStep, OneOf
<1>4. ASSUME NEW U \in SUBSET S
      PROVE  g[U] = a[U]
  <2>1. IsFiniteSet(U)
    BY FS_Subset
  <2> HIDE DEF g
  <2> QED BY <1>1, <1>2, <2>1, SumsAgree
<1>5. g \in [SUBSET S -> Nat]
  <2>1. g = [U \in SUBSET S |-> SumStep(g, f, U)]
    BY <1>2 DEF Sums
  <2> HIDE DEF g
  <2> QED BY <1>4, <2>1
<1> HIDE DEF g
<1> QED BY <1>2, <1>3, <1>5

\* Sums are naturals, and depend on the values of the set's own elements.
LEMMA SumOfNaturals ==
  ASSUME NEW S, IsFiniteSet(S), NEW f \in [S -> Nat]
  PROVE  SumOf(f, S) \in Nat
<1>1. PICK g \in [SUBSET S -> Nat] : SumOf(f, S) = g[S]
  BY SumOfSums
<1>2. S \in SUBSET S
  OBVIOUS
<1> QED BY <1>1, <1>2

\* The empty sum.
LEMMA SumOfNothing ==
  ASSUME NEW f \in [{} -> Nat]
  PROVE  SumOf(f, {}) = 0
<1>1. PICK g \in [SUBSET {} -> Nat] : Sums(g, f, {}) /\ SumOf(f, {}) = g[{}]
  BY SumOfSums, FS_EmptySet
<1>2. g[{}] = SumStep(g, f, {})
  BY <1>1 DEF Sums
<1> QED BY <1>1, <1>2 DEF SumStep

\* One more element adds its value.
LEMMA SumOfAdd ==
  ASSUME NEW S, IsFiniteSet(S), NEW x, x \notin S,
         NEW f \in [S -> Nat], NEW h \in [S \cup {x} -> Nat], \A y \in S : f[y] = h[y]
  PROVE  SumOf(h, S \cup {x}) = SumOf(f, S) + h[x]
<1> DEFINE T == S \cup {x}
<1>1. IsFiniteSet(T) /\ x \in T /\ T \ {x} = S /\ h \in [T -> Nat]
  BY FS_AddElement
<1>2. PICK a \in [SUBSET S -> Nat] : Sums(a, f, S) /\ SumOf(f, S) = a[S]
  BY SumOfSums
<1>3. PICK b \in [SUBSET T -> Nat] : Sums(b, h, T) /\ SumOf(h, T) = b[T]
  <2> HIDE DEF T
  <2> QED BY <1>1, SumOfSums
<1>4. b[T] = h[x] + b[S]
  <2> HIDE DEF T
  <2> QED BY <1>1, <1>3, SumsRemove
<1>5. a[S] = b[S]
  BY <1>2, <1>3, SumsAgree
<1>6. h[x] \in Nat /\ a[S] \in Nat
  <2>1. S \in SUBSET S
    OBVIOUS
  <2> QED BY <2>1
<1> HIDE DEF T
<1>7. SumOf(h, T) = SumOf(f, S) + h[x]
  BY <1>2, <1>3, <1>4, <1>5, <1>6
<1> QED BY <1>7 DEF T

\* A finite set of naturals that is not empty has a maximum.
LEMMA MaxIsGreatest ==
  ASSUME NEW S, IsFiniteSet(S), S # {}, \A x \in S : x \in Nat
  PROVE  Max(S) \in S /\ \A x \in S : x <= Max(S)
<1> DEFINE Bounded(U) == U = {} \/ \E m \in U : \A x \in U : x <= m
           Failing == {U \in SUBSET S : ~Bounded(U)}
<1>1. Failing = {}
  <2> SUFFICES ASSUME Failing # {}
               PROVE  FALSE
    OBVIOUS
  <2>1. PICK U \in Failing : \A W \in Failing : W \subseteq U => W = U
    <3>1. Failing \in SUBSET SUBSET S
      <4> HIDE DEF Bounded
      <4> QED OBVIOUS
    <3>2. Failing # {} /\ IsFiniteSet(S)
      OBVIOUS
    <3> HIDE DEF Failing
    <3> QED BY <3>1, <3>2, MinimalSubset
  <2>2. PICK u \in U : TRUE
    BY <2>1
  <2>3. Bounded(U \ {u})
    <3>1. \A W \in SUBSET U : W # U => Bounded(W)
      <4> HIDE DEF Bounded
      <4> QED BY <2>1
    <3> HIDE DEF Bounded
    <3> QED BY <2>2, <3>1
  <2>4. U \subseteq Nat
    BY <2>1
  <2>5. Bounded(U)
    <3>1. CASE U = {u}
      BY <2>4, <3>1
    <3>2. ASSUME NEW m \in U, \A x \in U \ {u} : x <= m
          PROVE  Bounded(U)
      <4>1. CASE u <= m
        BY <3>2, <4>1
      <4>2. CASE ~(u <= m)
        BY <2>4, <3>2, <4>2
      <4> QED BY <4>1, <4>2
    <3> QED BY <2>3, <3>1, <3>2
  <2> QED BY <2>1, <2>5
<1>2. PICK m \in S : \A x \in S : x <= m
  BY <1>1
<1>3. \A x \in S : m >= x
  BY <1>2
<1>4. Max(S) \in S /\ \A x \in S : Max(S) >= x
  BY <1>3 DEF Max
<1> QED BY <1>4
=============================================================================
