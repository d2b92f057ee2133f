----------------------------- MODULE MerkleProofs -----------------------------
(***************************************************************************)
(* The Merkle functions for lists of any length over any leaves.  That a   *)
(* recursive function is what its definition says has to be proved: there  *)
(* is a solution, and the solutions over two sets of lists agree on the    *)
(* lists they share.  Both are inductions over the length of a list, by a  *)
(* least number for which the claim fails.                                 *)
(***************************************************************************)
EXTENDS MCMerkleTree, FiniteSums

-----------------------------------------------------------------------------
(* Powers of two                                                           *)

DoubleStep(f, k) == IF k = 0 THEN 1 ELSE 2 * f[k - 1]

\* There are functions that double up to any number.
LEMMA DoublingUpto ==
  ASSUME NEW n \in Nat
  PROVE  \E f \in [Nat -> Nat \ {0}] : \A k \in 0..n : f[k] = DoubleStep(f, k)
<1> DEFINE Upto(f, m) == \A k \in 0..m : f[k] = DoubleStep(f, k)
           Failing == {m \in Nat : ~ \E f \in [Nat -> Nat \ {0}] : Upto(f, m)}
<1> SUFFICES ASSUME Failing # {}
             PROVE  FALSE
  OBVIOUS
<1>1. PICK m \in Failing : \A i \in Failing : m <= i
  <2>1. Failing \in SUBSET Nat
    OBVIOUS
  <2> HIDE DEF Failing
  <2> QED BY <2>1, LeastNatural
<1>2. m # 0
  <2> DEFINE one == [k \in Nat |-> 1]
  <2>1. one \in [Nat -> Nat \ {0}] /\ Upto(one, 0)
    BY DEF DoubleStep
  <2> HIDE DEF one
  <2> QED BY <2>1
<1>3. PICK f \in [Nat -> Nat \ {0}] : Upto(f, m - 1)
  <2>1. m \in Nat
    OBVIOUS
  <2>2. m - 1 \in Nat /\ m - 1 \notin Failing
    <3> HIDE DEF Failing
    <3> QED BY <1>1, <1>2, <2>1
  <2> QED BY <2>2
<1> DEFINE g == [k \in Nat |-> IF k < m THEN f[k] ELSE 2 * f[m - 1]]
<1>4. g \in [Nat -> Nat \ {0}]
  BY <1>2
<1>5. Upto(g, m)
  <2> SUFFICES ASSUME NEW k \in 0..m
               PROVE  g[k] = DoubleStep(g, k)
    OBVIOUS
  <2>1. CASE k < m
    <3>1. f[k] = DoubleStep(f, k) /\ g[k] = f[k] /\ (k # 0 => g[k - 1] = f[k - 1])
      BY <1>3, <2>1
    <3> QED BY <3>1 DEF DoubleStep
  <2>2. CASE k = m
    BY <1>2, <2>2 DEF DoubleStep
  <2> QED BY <2>1, <2>2
<1> HIDE DEF g
<1> QED BY <1>4, <1>5

\* Two of them agree as far as both double.
LEMMA DoublingAgrees ==
  ASSUME NEW f, NEW g, NEW n \in Nat,
         \A k \in 0..n : f[k] = DoubleStep(f, k) /\ g[k] = DoubleStep(g, k)
  PROVE  f[n] = g[n]
<1> DEFINE Failing == {k \in 0..n : f[k] # g[k]}
<1> SUFFICES ASSUME Failing # {}
             PROVE  FALSE
  BY DEF Failing
<1>1. PICK k \in Failing : \A i \in Failing : k <= i
  <2>1. Failing \in SUBSET Nat
    OBVIOUS
  <2> HIDE DEF Failing
  <2> QED BY <2>1, LeastNatural
<1>2. k # 0
  BY DEF DoubleStep
<1>3. f[k - 1] = g[k - 1]
  BY <1>1, <1>2
<1> QED BY <1>2, <1>3 DEF DoubleStep

\* 1 << k
LEMMA Powers ==
  /\ PowerOfTwo[0] = 1
  /\ \A k \in Nat : PowerOfTwo[k] \in Nat \ {0} /\ PowerOfTwo[k + 1] = 2 * PowerOfTwo[k]
<1> DEFINE Doubles(f) == f = [k \in Nat |-> DoubleStep(f, k)]
           Part(n) == CHOOSE f \in [Nat -> Nat \ {0}] : \A k \in 0..n : f[k] = DoubleStep(f, k)
           whole == [k \in Nat |-> Part(k)[k]]
<1>1. \A n \in Nat : /\ Part(n) \in [Nat -> Nat \ {0}]
                     /\ \A k \in 0..n : Part(n)[k] = DoubleStep(Part(n), k)
  BY DoublingUpto
<1> HIDE DEF Part
<1>2. \A n \in Nat : n # 0 => Part(n)[n - 1] = Part(n - 1)[n - 1]
  <2> TAKE n \in Nat
  <2> HAVE n # 0
  <2> DEFINE f == Part(n)
             g == Part(n - 1)
  <2>1. n - 1 \in Nat
    OBVIOUS
  <2>2. \A k \in 0..(n - 1) : f[k] = DoubleStep(f, k) /\ g[k] = DoubleStep(g, k)
    <3>1. \A k \in 0..(n - 1) : k \in 0..n
      OBVIOUS
    <3> QED BY <1>1, <2>1, <3>1
  <2> HIDE DEF f, g
  <2>3. f[n - 1] = g[n - 1]
    BY <2>1, <2>2, DoublingAgrees
  <2> QED BY <2>3 DEF f, g
<1>3. \A k \in Nat : whole[k] = DoubleStep(whole, k)
  <2> TAKE k \in Nat
  <2>1. Part(k)[k] = DoubleStep(Part(k), k)
    BY <1>1
  <2>2. k # 0 => whole[k - 1] = Part(k)[k - 1]
    BY <1>2
  <2> QED BY <2>1, <2>2 DEF DoubleStep
<1>4. Doubles(whole)
  BY <1>3
<1>5. PowerOfTwo = CHOOSE f : Doubles(f)
  BY DEF PowerOfTwo, DoubleStep
<1>6. Doubles(PowerOfTwo)
  <2> HIDE DEF Doubles, whole
  <2> QED BY <1>4, <1>5
<1>7. \A k \in Nat : PowerOfTwo[k] = DoubleStep(PowerOfTwo, k)
  BY <1>6
<1>8. \A k \in Nat : PowerOfTwo[k] = whole[k]
  <2> HIDE DEF whole
  <2> QED BY <1>3, <1>7, DoublingAgrees
<1>9. \A k \in Nat : PowerOfTwo[k] \in Nat \ {0}
  BY <1>1, <1>8
<1> QED BY <1>7, <1>9 DEF DoubleStep

\* Powers exceed their exponents.
LEMMA PowersGrow == \A k \in Nat : k < PowerOfTwo[k]
<1> DEFINE Failing == {k \in Nat : ~ (k < PowerOfTwo[k])}
<1> SUFFICES ASSUME Failing # {}
             PROVE  FALSE
  OBVIOUS
<1>1. PICK k \in Failing : \A i \in Failing : k <= i
  <2>1. Failing \in SUBSET Nat
    OBVIOUS
  <2> HIDE DEF Failing
  <2> QED BY <2>1, LeastNatural
<1>2. k # 0
  BY Powers
<1>3. k - 1 \in Nat /\ k - 1 < PowerOfTwo[k - 1]
  BY <1>1, <1>2
<1>4. PowerOfTwo[k] = 2 * PowerOfTwo[k - 1] /\ PowerOfTwo[k - 1] \in Nat
  <2>1. PowerOfTwo[(k - 1) + 1] = 2 * PowerOfTwo[k - 1]
    BY <1>3, Powers
  <2> QED BY <1>3, <2>1, Powers
<1> QED BY <1>3, <1>4

\* A positive number has a bit length.
LEMMA BitLengths ==
  ASSUME NEW value \in Nat \ {0}
  PROVE  /\ BitLength(value) \in 1..value
         /\ PowerOfTwo[BitLength(value) - 1] <= value
         /\ value < PowerOfTwo[BitLength(value)]
<1> DEFINE Larger == {k \in Nat : value < PowerOfTwo[k]}
<1>1. value \in Larger
  BY PowersGrow
<1>2. PICK k \in Larger : \A i \in Larger : k <= i
  <2>1. Larger \in SUBSET Nat
    OBVIOUS
  <2> HIDE DEF Larger
  <2> QED BY <1>1, <2>1, LeastNatural
<1>3. k # 0
  BY Powers
<1>4. k - 1 \in Nat /\ k - 1 \notin Larger
  BY <1>2, <1>3
<1>5. PowerOfTwo[k - 1] <= value
  BY <1>4, Powers
<1>6. k - 1 < PowerOfTwo[k - 1] /\ PowerOfTwo[k - 1] \in Nat
  BY <1>4, PowersGrow, Powers
<1>7. k \in 1..value
  BY <1>3, <1>5, <1>6
<1> QED BY <1>5, <1>7 DEF BitLength

\* The split is the power of two below the length.
LEMMA SplitIsPower ==
  ASSUME NEW n \in Nat, n >= 2
  PROVE  \E k \in Nat : /\ LargestPowerOfTwoLessThan(n) = PowerOfTwo[k]
                        /\ PowerOfTwo[k] < n /\ n <= 2 * PowerOfTwo[k]
<1> DEFINE b == BitLength(n - 1)
<1>1. b \in 1..(n - 1) /\ PowerOfTwo[b - 1] <= n - 1 /\ n - 1 < PowerOfTwo[b]
  BY BitLengths
<1> HIDE DEF b
<1>2. PowerOfTwo[b] = 2 * PowerOfTwo[b - 1] /\ PowerOfTwo[b - 1] \in Nat
  <2>1. b - 1 \in Nat
    BY <1>1
  <2>2. PowerOfTwo[(b - 1) + 1] = 2 * PowerOfTwo[b - 1]
    BY <2>1, Powers
  <2> QED BY <1>1, <2>1, <2>2, Powers
<1>3. LargestPowerOfTwoLessThan(n) = PowerOfTwo[b - 1]
  BY DEF LargestPowerOfTwoLessThan, b
<1> QED BY <1>1, <1>2, <1>3

\* Powers differ by a factor of two at least.
LEMMA PowersApart ==
  ASSUME NEW k \in Nat, NEW m \in Nat, k < m
  PROVE  2 * PowerOfTwo[k] <= PowerOfTwo[m]
<1> DEFINE Failing == {i \in Nat : k < i /\ ~ (2 * PowerOfTwo[k] <= PowerOfTwo[i])}
<1> SUFFICES ASSUME Failing # {}
             PROVE  FALSE
  OBVIOUS
<1>1. PICK i \in Failing : \A j \in Failing : i <= j
  <2>1. Failing \in SUBSET Nat
    OBVIOUS
  <2> HIDE DEF Failing
  <2> QED BY <2>1, LeastNatural
<1>2. i - 1 \in Nat /\ k <= i - 1
  BY <1>1
<1>3. PowerOfTwo[i] = 2 * PowerOfTwo[i - 1]
  <2>1. PowerOfTwo[(i - 1) + 1] = 2 * PowerOfTwo[i - 1]
    BY <1>2, Powers
  <2> QED BY <1>1, <2>1
<1>4. PowerOfTwo[k] \in Nat /\ PowerOfTwo[i - 1] \in Nat
  BY <1>2, Powers
<1>5. CASE k = i - 1
  BY <1>1, <1>3, <1>4, <1>5
<1>6. CASE k < i - 1
  <2>1. i - 1 \notin Failing
    <3>1. ~ (i <= i - 1)
      BY <1>1
    <3> HIDE DEF Failing
    <3> QED BY <1>1, <3>1
  <2>2. 2 * PowerOfTwo[k] <= PowerOfTwo[i - 1]
    BY <1>2, <1>6, <2>1
  <2> QED BY <1>1, <1>3, <1>4, <2>2
<1> QED BY <1>2, <1>5, <1>6

\* The split is the only power of two with half the length or more.
LEMMA SplitIsUnique ==
  ASSUME NEW n \in Nat, n >= 2, NEW k \in Nat,
         PowerOfTwo[k] < n, n <= 2 * PowerOfTwo[k]
  PROVE  LargestPowerOfTwoLessThan(n) = PowerOfTwo[k]
<1>1. PICK m \in Nat : /\ LargestPowerOfTwoLessThan(n) = PowerOfTwo[m]
                       /\ PowerOfTwo[m] < n /\ n <= 2 * PowerOfTwo[m]
  BY SplitIsPower
<1>2. PowerOfTwo[k] \in Nat /\ PowerOfTwo[m] \in Nat
  BY Powers
<1>3. ~ (k < m)
  BY <1>1, <1>2, PowersApart
<1>4. ~ (m < k)
  BY <1>1, <1>2, PowersApart
<1>5. m = k
  BY <1>3, <1>4
<1> QED BY <1>1, <1>5

-----------------------------------------------------------------------------
(* Halves of a list                                                        *)

\* A list of two or more has two shorter halves.
LEMMA Halves ==
  ASSUME NEW E, NEW list \in Seq(E), Len(list) >= 2
  PROVE  /\ Split(list) \in 1..(Len(list) - 1)
         /\ Left(list) \in Seq(E) /\ Len(Left(list)) = Split(list)
         /\ Right(list) \in Seq(E) /\ Len(Right(list)) = Len(list) - Split(list)
         /\ \A i \in 1..Split(list) : Left(list)[i] = list[i]
         /\ \A i \in 1..(Len(list) - Split(list)) : Right(list)[i] = list[Split(list) + i]
<1> DEFINE p == Split(list)
<1>1. p \in 1..(Len(list) - 1)
  <2>1. PICK k \in Nat : p = PowerOfTwo[k] /\ PowerOfTwo[k] < Len(list)
    BY SplitIsPower DEF Split
  <2>2. PowerOfTwo[k] \in Nat \ {0}
    BY Powers
  <2> QED BY <2>1, <2>2
<1>2. Left(list) = SubSeq(list, 1, p) /\ Right(list) = SubSeq(list, p + 1, Len(list))
  BY DEF Left, Right
<1> HIDE DEF p
<1>3. /\ Left(list) \in Seq(E) /\ Len(Left(list)) = p
      /\ \A i \in 1..p : Left(list)[i] = list[i]
  BY <1>1, <1>2
<1>4. /\ Right(list) \in Seq(E) /\ Len(Right(list)) = Len(list) - p
      /\ \A i \in 1..(Len(list) - p) : Right(list)[i] = list[p + i]
  BY <1>1, <1>2
<1> QED BY <1>1, <1>3, <1>4 DEF p

\* A list that has none.
LEMMA Short ==
  ASSUME NEW E, NEW list \in Seq(E), Len(list) < 2
  PROVE  list = <<>> \/ Len(list) = 1
<1>1. Len(list) \in Nat
  OBVIOUS
<1>2. list = [i \in 1..Len(list) |-> list[i]]
  OBVIOUS
<1>3. CASE Len(list) = 0
  <2>1. list = [i \in {} |-> list[i]]
    BY <1>2, <1>3
  <2> QED BY <2>1
<1>4. CASE Len(list) # 0
  <2> DEFINE n == Len(list)
  <2>1. n \in Nat /\ n < 2 /\ n # 0
    BY <1>1, <1>4
  <2> HIDE DEF n
  <2>2. n = 1
    BY <2>1
  <2> QED BY <2>2 DEF n
<1> QED BY <1>3, <1>4

-----------------------------------------------------------------------------
(* The root of a list                                                      *)

\* One call of _merkle_root, whose recursive calls return what root says.
RootStep(root, list) ==
  CASE list = <<>>    -> EmptyHash
    [] Len(list) = 1  -> LeafHash(list[1])
    [] OTHER          -> NodeHash(root[Left(list)], root[Right(list)])

Rooted(root, E, n) == \A list \in Seq(E) : Len(list) <= n => root[list] = RootStep(root, list)

\* What holds up to a length holds up to a smaller one.
LEMMA RootedBelow ==
  ASSUME NEW E, NEW root, NEW m \in Nat, NEW n \in Nat, m < n, Rooted(root, E, n)
  PROVE  Rooted(root, E, m)
<1>1. ASSUME NEW list \in Seq(E), Len(list) <= m
      PROVE  Len(list) <= n
  <2>1. Len(list) \in Nat
    OBVIOUS
  <2> QED BY <1>1, <2>1
<1> QED BY <1>1 DEF Rooted

\* A call depends on what its recursive calls return for shorter lists.
LEMMA RootStepShorter ==
  ASSUME NEW E, NEW list \in Seq(E), NEW f, NEW g,
         \A l \in Seq(E) : Len(l) < Len(list) => f[l] = g[l]
  PROVE  RootStep(f, list) = RootStep(g, list)
<1>1. CASE Len(list) >= 2
  <2>1. /\ Left(list) \in Seq(E) /\ Len(Left(list)) < Len(list)
        /\ Right(list) \in Seq(E) /\ Len(Right(list)) < Len(list)
    BY <1>1, Halves
  <2>2. f[Left(list)] = g[Left(list)] /\ f[Right(list)] = g[Right(list)]
    BY <2>1
  <2> QED BY <2>2 DEF RootStep
<1>2. CASE Len(list) < 2
  <2>1. list = <<>> \/ Len(list) = 1
    BY <1>2, Short
  <2> QED BY <2>1 DEF RootStep
<1> QED BY <1>1, <1>2

\* Two solutions agree on the lists they share.
LEMMA RootsAgree ==
  ASSUME NEW E, NEW F, NEW f, NEW g, NEW n \in Nat, Rooted(f, E, n), Rooted(g, F, n),
         NEW list \in Seq(E), list \in Seq(F), Len(list) <= n
  PROVE  f[list] = g[list]
<1> DEFINE Fails(l) == l \in Seq(E) /\ l \in Seq(F) /\ Len(l) <= n /\ f[l] # g[l]
           Failing == {k \in Nat : \E l \in Seq(E) : Fails(l) /\ Len(l) = k}
<1> SUFFICES ASSUME Fails(list)
             PROVE  FALSE
  OBVIOUS
<1>1. Len(list) \in Failing
  OBVIOUS
<1>2. PICK k \in Failing : \A i \in Failing : k <= i
  <2>1. Failing \in SUBSET Nat
    OBVIOUS
  <2> HIDE DEF Failing
  <2> QED BY <1>1, <2>1, LeastNatural
<1>3. PICK l \in Seq(E) : Fails(l) /\ Len(l) = k
  OBVIOUS
<1>4. \A m \in Seq(E) : m \in Seq(F) /\ Len(m) < Len(l) => f[m] = g[m]
  BY <1>2, <1>3
<1>5. f[l] = RootStep(f, l) /\ g[l] = RootStep(g, l)
  BY <1>3 DEF Rooted
<1>6. RootStep(f, l) = RootStep(g, l)
  <2>1. CASE Len(l) >= 2
    <3>1. /\ Left(l) \in Seq(E) /\ Len(Left(l)) < Len(l)
          /\ Right(l) \in Seq(E) /\ Len(Right(l)) < Len(l)
      BY <2>1, Halves
    <3>2. Left(l) \in Seq(F) /\ Right(l) \in Seq(F)
      BY <1>3, <2>1, Halves
    <3>3. f[Left(l)] = g[Left(l)] /\ f[Right(l)] = g[Right(l)]
      BY <1>4, <3>1, <3>2
    <3> QED BY <3>3 DEF RootStep
  <2>2. CASE Len(l) < 2
    <3>1. l = <<>> \/ Len(l) = 1
      BY <2>2, Short
    <3> QED BY <3>1 DEF RootStep
  <2> QED BY <2>1, <2>2
<1> QED BY <1>3, <1>5, <1>6

\* There is a solution for the lists up to any length.
LEMMA RootsUpto ==
  ASSUME NEW E, NEW n \in Nat
  PROVE  \E root : Rooted(root, E, n)
<1> DEFINE Failing == {m \in Nat : ~ \E root : Rooted(root, E, m)}
<1> SUFFICES ASSUME Failing # {}
             PROVE  FALSE
  OBVIOUS
<1>1. PICK m \in Failing : \A i \in Failing : m <= i
  <2>1. Failing \in SUBSET Nat
    OBVIOUS
  <2> HIDE DEF Failing
  <2> QED BY <2>1, LeastNatural
<1>2. PICK f : \A list \in Seq(E) : Len(list) < m => f[list] = RootStep(f, list)
  <2>1. CASE m = 0
    BY <2>1
  <2>2. CASE m # 0
    <3>1. m \in Nat
      OBVIOUS
    <3>2. m - 1 \in Nat /\ m - 1 \notin Failing
      <4> HIDE DEF Failing
      <4> QED BY <1>1, <2>2, <3>1
    <3>3. PICK f : Rooted(f, E, m - 1)
      BY <3>2
    <3>4. \A list \in Seq(E) : Len(list) < m => f[list] = RootStep(f, list)
      <4> TAKE list \in Seq(E)
      <4> HAVE Len(list) < m
      <4>1. Len(list) <= m - 1
        BY <3>1
      <4> QED BY <3>3, <4>1 DEF Rooted
    <3> QED BY <3>4
  <2> QED BY <2>1, <2>2
<1> DEFINE g == [list \in Seq(E) |-> IF Len(list) < m THEN f[list] ELSE RootStep(f, list)]
<1>3. ASSUME NEW list \in Seq(E), Len(list) <= m
      PROVE  g[list] = RootStep(g, list)
  <2>1. \A l \in Seq(E) : Len(l) < Len(list) => g[l] = f[l]
    BY <1>3
  <2>2. RootStep(g, list) = RootStep(f, list)
    <3> HIDE DEF g
    <3> QED BY <2>1, RootStepShorter
  <2>3. g[list] = RootStep(f, list)
    BY <1>2
  <2> QED BY <2>2, <2>3
<1>4. Rooted(g, E, m)
  BY <1>3 DEF Rooted
<1> QED BY <1>4

\* What Root computes is one call after another.
LEMMA RootIsRooted ==
  ASSUME NEW list_, NEW n \in Nat
  PROVE  \E root : /\ Rooted(root, {list_[i] : i \in 1..Len(list_)}, n)
                   /\ Root(list_) = root[list_]
<1> DEFINE E == {list_[i] : i \in 1..Len(list_)}
           Solves(root) == root = [list \in Seq(E) |-> RootStep(root, list)]
           Part(m) == CHOOSE root : Rooted(root, E, m)
           whole == [list \in Seq(E) |-> Part(Len(list))[list]]
<1>1. \A m \in Nat : Rooted(Part(m), E, m)
  BY RootsUpto
<1>2. ASSUME NEW list \in Seq(E)
      PROVE  whole[list] = RootStep(whole, list)
  <2> DEFINE f == Part(Len(list))
  <2>0. \A l \in Seq(E) : whole[l] = Part(Len(l))[l] /\ Len(l) \in Nat
    OBVIOUS
  <2> HIDE DEF Part, whole
  <2>1. Rooted(f, E, Len(list)) /\ f[list] = RootStep(f, list)
    <3>1. Len(list) \in Nat /\ Len(list) <= Len(list)
      BY <2>0
    <3>2. Rooted(f, E, Len(list))
      BY <1>1, <3>1
    <3> HIDE DEF f
    <3> QED BY <3>1, <3>2 DEF Rooted
  <2>2. ASSUME NEW l \in Seq(E), Len(l) < Len(list)
        PROVE  whole[l] = f[l]
    <3> DEFINE h == Part(Len(l))
    <3>1. Rooted(h, E, Len(l))
      BY <1>1
    <3>2. Rooted(f, E, Len(l))
      <4>1. Len(l) \in Nat /\ Len(list) \in Nat
        BY <2>0
      <4> HIDE DEF f, E
      <4> QED BY <2>1, <2>2, <4>1, RootedBelow
    <3>3. whole[l] = h[l]
      BY <2>0
    <3> HIDE DEF f, h
    <3>4. h[l] = f[l]
      BY <3>1, <3>2, RootsAgree
    <3> QED BY <3>3, <3>4
  <2>3. whole[list] = f[list]
    BY <2>0
  <2>4. RootStep(whole, list) = RootStep(f, list)
    <3> HIDE DEF E, f
    <3> QED BY <2>2, RootStepShorter
  <2> QED BY <2>1, <2>3, <2>4
<1>3. Solves(whole)
  <2>1. whole = [list \in Seq(E) |-> whole[list]]
    OBVIOUS
  <2> HIDE DEF whole
  <2>2. [list \in Seq(E) |-> whole[list]] = [list \in Seq(E) |-> RootStep(whole, list)]
    BY <1>2
  <2> QED BY <2>1, <2>2
<1> DEFINE root == CHOOSE root : Solves(root)
<1>4. Root(list_) = root[list_]
  BY DEF Root, Lists, RootStep
<1>5. Solves(root)
  <2> HIDE DEF Solves, whole
  <2> QED BY <1>3
<1>6. Rooted(root, E, n)
  <2> HIDE DEF root, E
  <2> QED BY <1>5 DEF Rooted
<1> QED BY <1>4, <1>6

\* A list is one over its own elements.
LEMMA OwnElements ==
  ASSUME NEW E, NEW list \in Seq(E)
  PROVE  list \in Seq({list[i] : i \in 1..Len(list)})
<1> DEFINE S == {list[i] : i \in 1..Len(list)}
<1>1. Len(list) \in Nat
  OBVIOUS
<1>2. list = [i \in 1..Len(list) |-> list[i]]
  OBVIOUS
<1>3. [i \in 1..Len(list) |-> list[i]] \in [1..Len(list) -> S]
  OBVIOUS
<1> QED BY <1>1, <1>2, <1>3

\* _merkle_root, call by call.
LEMMA RootCalls ==
  ASSUME NEW E, NEW list \in Seq(E)
  PROVE  /\ list = <<>> => Root(list) = EmptyHash
         /\ Len(list) = 1 => Root(list) = LeafHash(list[1])
         /\ Len(list) >= 2 => Root(list) = NodeHash(Root(Left(list)), Root(Right(list)))
<1> DEFINE own(l) == {l[i] : i \in 1..Len(l)}
<1>1. Len(list) \in Nat /\ list \in Seq(own(list))
  BY OwnElements
<1>2. PICK root : Rooted(root, own(list), Len(list)) /\ Root(list) = root[list]
  BY <1>1, RootIsRooted
<1>3. Root(list) = RootStep(root, list)
  BY <1>1, <1>2 DEF Rooted
<1>4. ASSUME NEW l \in Seq(own(list)), Len(l) < Len(list)
      PROVE  root[l] = Root(l)
  <2>1. Len(l) \in Nat /\ l \in Seq(own(l))
    BY OwnElements
  <2>2. PICK r : Rooted(r, own(l), Len(l)) /\ Root(l) = r[l]
    BY <2>1, RootIsRooted
  <2>3. Rooted(root, own(list), Len(l))
    <3>1. Rooted(root, own(list), Len(list))
      BY <1>2
    <3> HIDE DEF own
    <3> QED BY <1>1, <1>4, <2>1, <3>1 DEF Rooted
  <2> HIDE DEF own
  <2>4. root[l] = r[l]
    BY <2>1, <2>2, <2>3, RootsAgree
  <2> QED BY <2>2, <2>4
<1>5. CASE Len(list) >= 2
  <2>1. /\ Left(list) \in Seq(own(list)) /\ Len(Left(list)) < Len(list)
        /\ Right(list) \in Seq(own(list)) /\ Len(Right(list)) < Len(list)
    <3> HIDE DEF own
    <3> QED BY <1>1, <1>5, Halves
  <2>2. root[Left(list)] = Root(Left(list)) /\ root[Right(list)] = Root(Right(list))
    <3> HIDE DEF own
    <3> QED BY <1>4, <2>1
  <2>3. list # <<>> /\ Len(list) # 1
    <3> DEFINE n == Len(list)
    <3>1. n \in Nat /\ n >= 2
      BY <1>1, <1>5
    <3>2. list = <<>> => n = 0
      OBVIOUS
    <3> HIDE DEF n
    <3>3. n # 0 /\ n # 1
      BY <3>1
    <3> QED BY <3>2, <3>3 DEF n
  <2> QED BY <1>3, <2>2, <2>3 DEF RootStep
<1>6. CASE Len(list) = 1
  BY <1>3, <1>6 DEF RootStep
<1>7. CASE list = <<>>
  BY <1>3, <1>7 DEF RootStep
<1> QED BY <1>5, <1>6, <1>7

\* Hashes of different kinds differ, and of one kind they tell what was hashed.
LEMMA Hashes ==
  /\ \A d : LeafHash(d) # EmptyHash
  /\ \A l, r : NodeHash(l, r) # EmptyHash
  /\ \A d, l, r : LeafHash(d) # NodeHash(l, r)
  /\ \A c, d : LeafHash(c) = LeafHash(d) => c = d
  /\ \A k, l, q, r : NodeHash(k, q) = NodeHash(l, r) => k = l /\ q = r
BY DEF LeafHash, NodeHash, EmptyHash

\* Lists are told apart by their roots, of whatever lengths they are.
LEMMA RootsCommit ==
  ASSUME NEW E, NEW s \in Seq(E), NEW t \in Seq(E), Root(s) = Root(t)
  PROVE  s = t
<1> DEFINE Fails(k) == \E l, m \in Seq(E) : Len(l) = k /\ Root(l) = Root(m) /\ l # m
           Failing == {k \in Nat : Fails(k)}
<1> SUFFICES ASSUME s # t
             PROVE  FALSE
  OBVIOUS
<1>1. Len(s) \in Failing
  <2>1. Len(s) \in Nat
    OBVIOUS
  <2> QED BY <2>1
<1>2. PICK k \in Failing : \A i \in Failing : k <= i
  <2>1. Failing \in SUBSET Nat
    OBVIOUS
  <2> HIDE DEF Failing
  <2> QED BY <1>1, <2>1, LeastNatural
<1>3. PICK l \in Seq(E), m \in Seq(E) : Len(l) = k /\ Root(l) = Root(m) /\ l # m
  OBVIOUS
<1>4. \A p, q \in Seq(E) : Len(p) < Len(l) /\ Root(p) = Root(q) => p = q
  <2> TAKE p, q \in Seq(E)
  <2> HAVE Len(p) < Len(l) /\ Root(p) = Root(q)
  <2>1. Len(p) \in Nat /\ ~ (k <= Len(p))
    BY <1>3
  <2>2. Len(p) \notin Failing
    <3> HIDE DEF Failing
    <3> QED BY <1>2, <2>1
  <2> QED BY <2>1, <2>2
<1>5. \A p \in Seq(E) :
        \/ p = <<>> /\ Root(p) = EmptyHash
        \/ Len(p) = 1 /\ Root(p) = LeafHash(p[1])
        \/ Len(p) >= 2 /\ Root(p) = NodeHash(Root(Left(p)), Root(Right(p)))
  <2> TAKE p \in Seq(E)
  <2>1. CASE Len(p) >= 2
    BY <2>1, RootCalls
  <2>2. CASE Len(p) < 2
    BY <2>2, Short, RootCalls
  <2> QED BY <2>1, <2>2
<1> DEFINE rl == Root(l)
           rm == Root(m)
<1>0. /\ rl = rm
      /\ \/ m = <<>> /\ rm = EmptyHash
         \/ Len(m) = 1 /\ rm = LeafHash(m[1])
         \/ Len(m) >= 2 /\ rm = NodeHash(Root(Left(m)), Root(Right(m)))
  BY <1>3, <1>5
<1>6. CASE l = <<>> /\ Root(l) = EmptyHash
  BY <1>3, <1>5, <1>6, Hashes
<1>7. CASE Len(l) = 1 /\ Root(l) = LeafHash(l[1])
  <2>1. Len(m) = 1 /\ Root(m) = LeafHash(m[1])
    <3>1. rl = LeafHash(l[1])
      BY <1>7
    <3> HIDE DEF rl, rm
    <3>2. rm # EmptyHash /\ \A a, b : rm # NodeHash(a, b)
      BY <1>0, <3>1, Hashes
    <3>3. Len(m) = 1 /\ rm = LeafHash(m[1])
      BY <1>0, <3>2
    <3> QED BY <3>3 DEF rm
  <2>2. l[1] = m[1]
    BY <1>3, <1>7, <2>1, Hashes
  <2>3. l = [i \in 1..1 |-> l[i]] /\ m = [i \in 1..1 |-> m[i]]
    BY <1>7, <2>1
  <2>4. \A i \in 1..1 : l[i] = m[i]
    BY <2>2
  <2> QED BY <1>3, <2>3, <2>4
<1>8. CASE Len(l) >= 2 /\ Root(l) = NodeHash(Root(Left(l)), Root(Right(l)))
  <2>1. Len(m) >= 2 /\ Root(m) = NodeHash(Root(Left(m)), Root(Right(m)))
    <3>1. \E a, b : rl = NodeHash(a, b)
      BY <1>8
    <3> HIDE DEF rl, rm
    <3>2. rm # EmptyHash /\ \A a : rm # LeafHash(a)
      BY <1>0, <3>1, Hashes
    <3>3. Len(m) >= 2 /\ rm = NodeHash(Root(Left(m)), Root(Right(m)))
      BY <1>0, <3>2
    <3> QED BY <3>3 DEF rm
  <2>2. Root(Left(l)) = Root(Left(m)) /\ Root(Right(l)) = Root(Right(m))
    <3> DEFINE a == Root(Left(l))
               b == Root(Right(l))
               c == Root(Left(m))
               d == Root(Right(m))
    <3>1. NodeHash(a, b) = NodeHash(c, d)
      BY <1>3, <1>8, <2>1
    <3> HIDE DEF a, b, c, d
    <3>2. a = c /\ b = d
      BY <3>1, Hashes
    <3> QED BY <3>2 DEF a, b, c, d
  <2>3. /\ Left(l) \in Seq(E) /\ Right(l) \in Seq(E) /\ Split(l) \in 1..(Len(l) - 1)
        /\ Len(Left(l)) = Split(l) /\ Len(Right(l)) = Len(l) - Split(l)
        /\ \A i \in 1..Split(l) : Left(l)[i] = l[i]
        /\ \A i \in 1..(Len(l) - Split(l)) : Right(l)[i] = l[Split(l) + i]
    BY <1>8, Halves
  <2>4. /\ Left(m) \in Seq(E) /\ Right(m) \in Seq(E) /\ Split(m) \in 1..(Len(m) - 1)
        /\ Len(Left(m)) = Split(m) /\ Len(Right(m)) = Len(m) - Split(m)
        /\ \A i \in 1..Split(m) : Left(m)[i] = m[i]
        /\ \A i \in 1..(Len(m) - Split(m)) : Right(m)[i] = m[Split(m) + i]
    BY <2>1, Halves
  <2> DEFINE n == Len(l)
             p == Split(l)
  <2>5. n \in Nat /\ p \in 1..(n - 1) /\ Len(m) \in Nat
    BY <2>3
  <2>6. Left(l) = Left(m) /\ Right(l) = Right(m)
    <3>1. Len(Left(l)) < Len(l) /\ Len(Right(l)) < Len(l)
      BY <2>3
    <3> QED BY <1>4, <2>2, <2>3, <2>4, <3>1
  <2>7. Split(m) = p /\ Len(m) = n
    BY <2>3, <2>4, <2>6
  <2> HIDE DEF n, p
  <2>8. ASSUME NEW i \in 1..n
        PROVE  l[i] = m[i]
    <3>1. CASE i <= p
      <4>1. i \in 1..p
        BY <2>5, <3>1
      <4> QED BY <2>3, <2>4, <2>6, <2>7, <4>1 DEF p, n
    <3>2. CASE i > p
      <4>1. i - p \in 1..(n - p) /\ p + (i - p) = i
        BY <2>5, <3>2
      <4>2. /\ Right(l)[i - p] = l[p + (i - p)]
            /\ Right(m)[i - p] = m[p + (i - p)]
        BY <2>3, <2>4, <2>7, <4>1 DEF p, n
      <4> QED BY <2>6, <4>1, <4>2
    <3> QED BY <2>5, <3>1, <3>2
  <2>9. l = [i \in 1..n |-> l[i]] /\ m = [i \in 1..n |-> m[i]]
    BY <2>7 DEF n
  <2> QED BY <1>3, <2>8, <2>9
<1> QED BY <1>5, <1>6, <1>7, <1>8

-----------------------------------------------------------------------------
(* The path of a leaf                                                      *)

\* One call of _merkle_path for every index, whose recursive calls return what
\* path says.
PathStep(path, list) ==
  [i \in 0..(Len(list) - 1) |->
     IF Len(list) = 1 THEN <<>>
     ELSE IF i < Split(list)
       THEN Append(path[Left(list)][i], [side |-> "right", digest |-> Root(Right(list))])
       ELSE Append(path[Right(list)][i - Split(list)],
                   [side |-> "left", digest |-> Root(Left(list))])]

Pathed(path, E, n) == \A list \in Seq(E) : Len(list) <= n => path[list] = PathStep(path, list)

\* What holds up to a length holds up to a smaller one.
LEMMA PathedBelow ==
  ASSUME NEW E, NEW path, NEW m \in Nat, NEW n \in Nat, m < n, Pathed(path, E, n)
  PROVE  Pathed(path, E, m)
<1>1. ASSUME NEW list \in Seq(E), Len(list) <= m
      PROVE  Len(list) <= n
  <2>1. Len(list) \in Nat
    OBVIOUS
  <2> QED BY <1>1, <2>1
<1> QED BY <1>1 DEF Pathed

\* A call depends on what its recursive calls return for the halves.
LEMMA PathStepHalves ==
  ASSUME NEW E, NEW list \in Seq(E), NEW f, NEW g,
         Len(list) >= 2 => f[Left(list)] = g[Left(list)] /\ f[Right(list)] = g[Right(list)]
  PROVE  PathStep(f, list) = PathStep(g, list)
<1>1. CASE Len(list) >= 2
  BY <1>1 DEF PathStep
<1>2. CASE Len(list) = 1
  BY <1>2 DEF PathStep
<1>3. CASE list = <<>>
  <2>1. 0..(Len(list) - 1) = {}
    BY <1>3
  <2> QED BY <2>1 DEF PathStep
<1> QED BY <1>1, <1>2, <1>3, Short

\* Two solutions agree on the lists they share.
LEMMA PathsAgree ==
  ASSUME NEW E, NEW F, NEW f, NEW g, NEW n \in Nat, Pathed(f, E, n), Pathed(g, F, n),
         NEW list \in Seq(E), list \in Seq(F), Len(list) <= n
  PROVE  f[list] = g[list]
<1> DEFINE Fails(l) == l \in Seq(E) /\ l \in Seq(F) /\ Len(l) <= n /\ f[l] # g[l]
           Failing == {k \in Nat : \E l \in Seq(E) : Fails(l) /\ Len(l) = k}
<1> SUFFICES ASSUME Fails(list)
             PROVE  FALSE
  OBVIOUS
<1>1. Len(list) \in Failing
  OBVIOUS
<1>2. PICK k \in Failing : \A i \in Failing : k <= i
  <2>1. Failing \in SUBSET Nat
    OBVIOUS
  <2> HIDE DEF Failing
  <2> QED BY <1>1, <2>1, LeastNatural
<1>3. PICK l \in Seq(E) : Fails(l) /\ Len(l) = k
  OBVIOUS
<1>4. \A m \in Seq(E) : m \in Seq(F) /\ Len(m) < Len(l) => f[m] = g[m]
  BY <1>2, <1>3
<1>5. f[l] = PathStep(f, l) /\ g[l] = PathStep(g, l)
  BY <1>3 DEF Pathed
<1>6. ASSUME Len(l) >= 2
      PROVE  f[Left(l)] = g[Left(l)] /\ f[Right(l)] = g[Right(l)]
  <2>1. /\ Left(l) \in Seq(E) /\ Len(Left(l)) < Len(l)
        /\ Right(l) \in Seq(E) /\ Len(Right(l)) < Len(l)
    BY <1>6, Halves
  <2>2. Left(l) \in Seq(F) /\ Right(l) \in Seq(F)
    BY <1>3, <1>6, Halves
  <2> QED BY <1>4, <2>1, <2>2
<1>7. PathStep(f, l) = PathStep(g, l)
  BY <1>6, PathStepHalves
<1> QED BY <1>3, <1>5, <1>7

\* There is a solution for the lists up to any length.
LEMMA PathsUpto ==
  ASSUME NEW E, NEW n \in Nat
  PROVE  \E path : Pathed(path, E, n)
<1> DEFINE Failing == {m \in Nat : ~ \E path : Pathed(path, E, m)}
<1> SUFFICES ASSUME Failing # {}
             PROVE  FALSE
  OBVIOUS
<1>1. PICK m \in Failing : \A i \in Failing : m <= i
  <2>1. Failing \in SUBSET Nat
    OBVIOUS
  <2> HIDE DEF Failing
  <2> QED BY <2>1, LeastNatural
<1>2. PICK f : \A list \in Seq(E) : Len(list) < m => f[list] = PathStep(f, list)
  <2>1. CASE m = 0
    BY <2>1
  <2>2. CASE m # 0
    <3>1. m \in Nat
      OBVIOUS
    <3>2. m - 1 \in Nat /\ m - 1 \notin Failing
      <4> HIDE DEF Failing
      <4> QED BY <1>1, <2>2, <3>1
    <3>3. PICK f : Pathed(f, E, m - 1)
      BY <3>2
    <3>4. \A list \in Seq(E) : Len(list) < m => f[list] = PathStep(f, list)
      <4> TAKE list \in Seq(E)
      <4> HAVE Len(list) < m
      <4>1. Len(list) <= m - 1
        BY <3>1
      <4> QED BY <3>3, <4>1 DEF Pathed
    <3> QED BY <3>4
  <2> QED BY <2>1, <2>2
<1> DEFINE g == [list \in Seq(E) |-> IF Len(list) < m THEN f[list] ELSE PathStep(f, list)]
<1>3. ASSUME NEW list \in Seq(E), Len(list) <= m
      PROVE  g[list] = PathStep(g, list)
  <2>1. \A l \in Seq(E) : Len(l) < Len(list) => g[l] = f[l]
    BY <1>3
  <2>2. PathStep(g, list) = PathStep(f, list)
    <3> HIDE DEF g
    <3>1. Len(list) >= 2 => g[Left(list)] = f[Left(list)] /\ g[Right(list)] = f[Right(list)]
      <4> HAVE Len(list) >= 2
      <4>1. /\ Left(list) \in Seq(E) /\ Len(Left(list)) < Len(list)
            /\ Right(list) \in Seq(E) /\ Len(Right(list)) < Len(list)
        BY Halves
      <4> QED BY <2>1, <4>1
    <3> QED BY <3>1, PathStepHalves
  <2>3. g[list] = PathStep(f, list)
    BY <1>2
  <2> QED BY <2>2, <2>3
<1>4. Pathed(g, E, m)
  BY <1>3 DEF Pathed
<1> QED BY <1>4

\* What Path computes is one call after another.
LEMMA PathIsPathed ==
  ASSUME NEW list_, NEW n \in Nat
  PROVE  \E path : /\ Pathed(path, {list_[i] : i \in 1..Len(list_)}, n)
                   /\ \A i : Path(list_, i) = path[list_][i]
<1> DEFINE E == {list_[i] : i \in 1..Len(list_)}
           Solves(path) == path = [list \in Seq(E) |-> PathStep(path, list)]
           Part(m) == CHOOSE path : Pathed(path, E, m)
           whole == [list \in Seq(E) |-> Part(Len(list))[list]]
<1>1. \A m \in Nat : Pathed(Part(m), E, m)
  BY PathsUpto
<1>2. ASSUME NEW list \in Seq(E)
      PROVE  whole[list] = PathStep(whole, list)
  <2> DEFINE f == Part(Len(list))
  <2>0. \A l \in Seq(E) : whole[l] = Part(Len(l))[l] /\ Len(l) \in Nat
    OBVIOUS
  <2> HIDE DEF Part, whole
  <2>1. Pathed(f, E, Len(list)) /\ f[list] = PathStep(f, list)
    <3>1. Len(list) \in Nat /\ Len(list) <= Len(list)
      BY <2>0
    <3>2. Pathed(f, E, Len(list))
      BY <1>1, <3>1
    <3> HIDE DEF f
    <3> QED BY <3>1, <3>2 DEF Pathed
  <2>2. ASSUME NEW l \in Seq(E), Len(l) < Len(list)
        PROVE  whole[l] = f[l]
    <3> DEFINE h == Part(Len(l))
    <3>1. Pathed(h, E, Len(l))
      BY <1>1
    <3>2. Pathed(f, E, Len(l))
      <4>1. Len(l) \in Nat /\ Len(list) \in Nat
        BY <2>0
      <4> HIDE DEF f, E
      <4> QED BY <2>1, <2>2, <4>1, PathedBelow
    <3>3. whole[l] = h[l]
      BY <2>0
    <3> HIDE DEF f, h
    <3>4. h[l] = f[l]
      BY <3>1, <3>2, PathsAgree
    <3> QED BY <3>3, <3>4
  <2>3. whole[list] = f[list]
    BY <2>0
  <2>4. PathStep(whole, list) = PathStep(f, list)
    <3> HIDE DEF E, f
    <3>1. Len(list) >= 2 => whole[Left(list)] = f[Left(list)] /\ whole[Right(list)] = f[Right(list)]
      <4> HAVE Len(list) >= 2
      <4>1. /\ Left(list) \in Seq(E) /\ Len(Left(list)) < Len(list)
            /\ Right(list) \in Seq(E) /\ Len(Right(list)) < Len(list)
        BY Halves
      <4> QED BY <2>2, <4>1
    <3> QED BY <3>1, PathStepHalves
  <2> QED BY <2>1, <2>3, <2>4
<1>3. Solves(whole)
  <2>1. whole = [list \in Seq(E) |-> whole[list]]
    OBVIOUS
  <2> HIDE DEF whole
  <2>2. [list \in Seq(E) |-> whole[list]] = [list \in Seq(E) |-> PathStep(whole, list)]
    BY <1>2
  <2> QED BY <2>1, <2>2
<1> DEFINE path == CHOOSE path : Solves(path)
<1>4. \A i : Path(list_, i) = path[list_][i]
  BY DEF Path, Lists, PathStep
<1>5. Solves(path)
  <2> HIDE DEF Solves, whole
  <2> QED BY <1>3
<1>6. Pathed(path, E, n)
  <2> HIDE DEF path, E
  <2> QED BY <1>5 DEF Pathed
<1> QED BY <1>4, <1>6

\* _merkle_path, call by call.
LEMMA PathCalls ==
  ASSUME NEW E, NEW list \in Seq(E), NEW i \in 0..(Len(list) - 1)
  PROVE  /\ Len(list) = 1 => Path(list, i) = <<>>
         /\ Len(list) >= 2 /\ i < Split(list) =>
              Path(list, i) = Append(Path(Left(list), i),
                                     [side |-> "right", digest |-> Root(Right(list))])
         /\ Len(list) >= 2 /\ i >= Split(list) =>
              Path(list, i) = Append(Path(Right(list), i - Split(list)),
                                     [side |-> "left", digest |-> Root(Left(list))])
<1> DEFINE own(l) == {l[j] : j \in 1..Len(l)}
<1>1. Len(list) \in Nat /\ list \in Seq(own(list))
  BY OwnElements
<1>2. PICK path : Pathed(path, own(list), Len(list)) /\ \A j : Path(list, j) = path[list][j]
  BY <1>1, PathIsPathed
<1>3. Path(list, i) = PathStep(path, list)[i]
  BY <1>1, <1>2 DEF Pathed
<1>4. ASSUME NEW l \in Seq(own(list)), Len(l) < Len(list), NEW j
      PROVE  path[l][j] = Path(l, j)
  <2>1. Len(l) \in Nat /\ l \in Seq(own(l))
    BY OwnElements
  <2>2. PICK r : Pathed(r, own(l), Len(l)) /\ \A k : Path(l, k) = r[l][k]
    BY <2>1, PathIsPathed
  <2>3. Pathed(path, own(list), Len(l))
    <3>1. Pathed(path, own(list), Len(list))
      BY <1>2
    <3> HIDE DEF own
    <3> QED BY <1>1, <1>4, <2>1, <3>1 DEF Pathed
  <2> HIDE DEF own
  <2>4. path[l] = r[l]
    BY <2>1, <2>2, <2>3, PathsAgree
  <2> QED BY <2>2, <2>4
<1>5. CASE Len(list) >= 2
  <2>1. /\ Left(list) \in Seq(own(list)) /\ Len(Left(list)) < Len(list)
        /\ Right(list) \in Seq(own(list)) /\ Len(Right(list)) < Len(list)
        /\ Split(list) \in Nat
    <3> HIDE DEF own
    <3> QED BY <1>1, <1>5, Halves
  <2>2. \A j : path[Left(list)][j] = Path(Left(list), j) /\ path[Right(list)][j] = Path(Right(list), j)
    <3> HIDE DEF own
    <3> QED BY <1>4, <2>1
  <2>3. Len(list) # 1
    <3> DEFINE n == Len(list)
    <3>1. n \in Nat /\ n >= 2
      BY <1>1, <1>5
    <3> HIDE DEF n
    <3>2. n # 1
      BY <3>1
    <3> QED BY <3>2 DEF n
  <2>4. PathStep(path, list)[i] =
          IF i < Split(list)
            THEN Append(path[Left(list)][i], [side |-> "right", digest |-> Root(Right(list))])
            ELSE Append(path[Right(list)][i - Split(list)],
                        [side |-> "left", digest |-> Root(Left(list))])
    BY <2>3 DEF PathStep
  <2>5. CASE i < Split(list)
    <3>1. ~ (i >= Split(list))
      BY <2>1, <2>5
    <3>2. Path(list, i) = Append(path[Left(list)][i], [side |-> "right", digest |-> Root(Right(list))])
      BY <1>3, <2>4, <2>5
    <3> HIDE DEF own
    <3> QED BY <2>2, <2>3, <3>1, <3>2
  <2>6. CASE ~ (i < Split(list))
    <3>1. Path(list, i) = Append(path[Right(list)][i - Split(list)],
                                 [side |-> "left", digest |-> Root(Left(list))])
      BY <1>3, <2>4, <2>6
    <3> HIDE DEF own
    <3> QED BY <2>2, <2>3, <2>6, <3>1
  <2> QED BY <2>5, <2>6
<1>6. CASE Len(list) = 1
  BY <1>3, <1>6 DEF PathStep
<1>7. CASE Len(list) = 0
  BY <1>7
<1> QED BY <1>1, <1>5, <1>6, <1>7

-----------------------------------------------------------------------------
(* Folding a path                                                          *)

FoldStep(root, hash, path, i) == IF i = 0 THEN hash ELSE Above(path[i], root[i - 1])

Folds(root, hash, path, n) == \A i \in 0..n : root[i] = FoldStep(root, hash, path, i)

\* The loop can be followed over any number of nodes.
LEMMA FoldUpto ==
  ASSUME NEW hash, NEW path, NEW n \in Nat
  PROVE  \E root : Folds(root, hash, path, n)
<1> DEFINE Failing == {m \in Nat : ~ \E root : Folds(root, hash, path, m)}
<1> SUFFICES ASSUME Failing # {}
             PROVE  FALSE
  OBVIOUS
<1>1. PICK m \in Failing : \A i \in Failing : m <= i
  <2>1. Failing \in SUBSET Nat
    OBVIOUS
  <2> HIDE DEF Failing
  <2> QED BY <2>1, LeastNatural
<1>2. m \in Nat
  OBVIOUS
<1>3. m # 0
  <2> DEFINE start == [i \in 0..0 |-> hash]
  <2>1. Folds(start, hash, path, 0)
    BY DEF Folds, FoldStep
  <2> HIDE DEF start
  <2> QED BY <2>1
<1>4. PICK f : Folds(f, hash, path, m - 1)
  <2>1. m - 1 \in Nat /\ m - 1 \notin Failing
    <3> HIDE DEF Failing
    <3> QED BY <1>1, <1>2, <1>3
  <2> QED BY <2>1
<1> DEFINE g == [i \in 0..m |-> IF i < m THEN f[i] ELSE Above(path[m], f[m - 1])]
<1>5. ASSUME NEW i \in 0..m
      PROVE  g[i] = FoldStep(g, hash, path, i)
  <2>1. CASE i < m
    <3>1. f[i] = FoldStep(f, hash, path, i)
      BY <1>2, <1>4, <2>1 DEF Folds
    <3>2. g[i] = f[i] /\ (i # 0 => g[i - 1] = f[i - 1])
      BY <1>2, <2>1
    <3> QED BY <3>1, <3>2 DEF FoldStep
  <2>2. CASE i = m
    <3>1. g[m] = Above(path[m], f[m - 1]) /\ g[m - 1] = f[m - 1]
      BY <1>2, <1>3
    <3> QED BY <1>3, <2>2, <3>1 DEF FoldStep
  <2> QED BY <2>1, <2>2
<1>6. Folds(g, hash, path, m)
  BY <1>5 DEF Folds
<1> QED BY <1>6

\* What it computes depends on the nodes it has passed.
LEMMA FoldsAgree ==
  ASSUME NEW hash, NEW p, NEW q, NEW n \in Nat, \A i \in 1..n : p[i] = q[i],
         NEW f, NEW g, Folds(f, hash, p, n), Folds(g, hash, q, n)
  PROVE  f[n] = g[n]
<1> DEFINE Failing == {k \in 0..n : f[k] # g[k]}
<1> SUFFICES ASSUME Failing # {}
             PROVE  FALSE
  OBVIOUS
<1>1. PICK k \in Failing : \A i \in Failing : k <= i
  <2>1. Failing \in SUBSET Nat
    OBVIOUS
  <2> HIDE DEF Failing
  <2> QED BY <2>1, LeastNatural
<1>2. f[k] = FoldStep(f, hash, p, k) /\ g[k] = FoldStep(g, hash, q, k)
  BY DEF Folds
<1>3. k # 0
  BY <1>2 DEF FoldStep
<1>4. f[k - 1] = g[k - 1] /\ p[k] = q[k]
  BY <1>1, <1>3
<1> QED BY <1>2, <1>3, <1>4 DEF FoldStep

\* FoldPath is the loop.
LEMMA FoldIsFold ==
  ASSUME NEW hash, NEW path, Len(path) \in Nat
  PROVE  \E root : Folds(root, hash, path, Len(path)) /\ FoldPath(hash, path) = root[Len(path)]
<1> DEFINE n == Len(path)
           Solves(root) == root = [i \in 0..n |-> FoldStep(root, hash, path, i)]
<1>1. PICK f : Folds(f, hash, path, n)
  BY FoldUpto
<1> DEFINE g == [i \in 0..n |-> f[i]]
<1>2. \A i \in 0..n : g[i] = FoldStep(g, hash, path, i)
  <2> TAKE i \in 0..n
  <2>1. f[i] = FoldStep(f, hash, path, i)
    BY <1>1 DEF Folds
  <2>2. g[i] = f[i] /\ (i # 0 => g[i - 1] = f[i - 1])
    OBVIOUS
  <2> QED BY <2>1, <2>2 DEF FoldStep
<1>3. Solves(g)
  <2>1. g = [i \in 0..n |-> g[i]]
    OBVIOUS
  <2> HIDE DEF g
  <2>2. [i \in 0..n |-> g[i]] = [i \in 0..n |-> FoldStep(g, hash, path, i)]
    BY <1>2
  <2> QED BY <2>1, <2>2
<1> DEFINE root == CHOOSE root : Solves(root)
<1>4. FoldPath(hash, path) = root[n]
  BY DEF FoldPath, FoldStep
<1>5. Solves(root)
  <2> HIDE DEF Solves, g
  <2> QED BY <1>3
<1>6. Folds(root, hash, path, n)
  <2> HIDE DEF root, n
  <2> QED BY <1>5 DEF Folds
<1> QED BY <1>4, <1>6

\* An empty path leads nowhere, and the last node of a path is folded last.
LEMMA FoldPaths ==
  /\ \A hash : FoldPath(hash, <<>>) = hash
  /\ \A hash, N : \A path \in Seq(N) : \A node :
       FoldPath(hash, Append(path, node)) = Above(node, FoldPath(hash, path))
<1>1. ASSUME NEW hash
      PROVE  FoldPath(hash, <<>>) = hash
  <2>1. Len(<<>>) = 0
    OBVIOUS
  <2>2. PICK root : Folds(root, hash, <<>>, 0) /\ FoldPath(hash, <<>>) = root[0]
    BY <2>1, FoldIsFold
  <2> QED BY <2>2 DEF Folds, FoldStep
<1>2. ASSUME NEW hash, NEW N, NEW path \in Seq(N), NEW node
      PROVE  FoldPath(hash, Append(path, node)) = Above(node, FoldPath(hash, path))
  <2> DEFINE longer == Append(path, node)
             n == Len(path)
  <2>0. path \in Seq(N \cup {node}) /\ node \in N \cup {node}
    OBVIOUS
  <2>1. /\ n \in Nat /\ Len(longer) = n + 1 /\ longer[n + 1] = node
        /\ \A i \in 1..n : longer[i] = path[i]
    BY <2>0
  <2> HIDE DEF longer, n
  <2>2. PICK f : Folds(f, hash, path, n) /\ FoldPath(hash, path) = f[n]
    BY <2>1, FoldIsFold DEF n
  <2>3. PICK g : Folds(g, hash, longer, n + 1) /\ FoldPath(hash, longer) = g[n + 1]
    <3>1. Len(longer) \in Nat
      BY <2>1
    <3>2. \E root : Folds(root, hash, longer, Len(longer)) /\ FoldPath(hash, longer) = root[Len(longer)]
      BY <3>1, FoldIsFold
    <3> QED BY <2>1, <3>2
  <2>4. Folds(g, hash, longer, n)
    BY <2>1, <2>3 DEF Folds
  <2>5. g[n] = f[n]
    BY <2>1, <2>2, <2>4, FoldsAgree
  <2>6. g[n + 1] = Above(longer[n + 1], g[(n + 1) - 1])
    BY <2>1, <2>3 DEF Folds, FoldStep
  <2> QED BY <2>1, <2>2, <2>3, <2>5, <2>6 DEF longer
<1> QED BY <1>1, <1>2

-----------------------------------------------------------------------------
(* Paths lead to the root                                                  *)

\* From the hash of the leaf at the index, and from no other hash, the path
\* of the index leads to the root.
Leads(list, i) ==
  /\ \E N : Path(list, i) \in Seq(N)
  /\ \A hash : FoldPath(hash, Path(list, i)) = Root(list) <=> hash = LeafHash(list[i + 1])

LEMMA PathsLead ==
  ASSUME NEW E, NEW list \in Seq(E), NEW index \in 0..(Len(list) - 1)
  PROVE  Leads(list, index)
<1> DEFINE Fails(l) == \E i \in 0..(Len(l) - 1) : ~ Leads(l, i)
           Failing == {k \in Nat : \E l \in Seq(E) : Len(l) = k /\ Fails(l)}
<1> SUFFICES ASSUME Fails(list)
             PROVE  FALSE
  OBVIOUS
<1>1. Len(list) \in Failing
  <2>1. Len(list) \in Nat
    OBVIOUS
  <2> HIDE DEF Fails
  <2> QED BY <2>1
<1>2. PICK k \in Failing : \A i \in Failing : k <= i
  <2>1. Failing \in SUBSET Nat
    OBVIOUS
  <2> HIDE DEF Failing
  <2> QED BY <1>1, <2>1, LeastNatural
<1>3. PICK l \in Seq(E) : Len(l) = k /\ Fails(l)
  <2> HIDE DEF Fails
  <2> QED OBVIOUS
<1>4. PICK i \in 0..(Len(l) - 1) : ~ Leads(l, i)
  BY <1>3
<1>5. \A m \in Seq(E) : Len(m) < Len(l) => \A j \in 0..(Len(m) - 1) : Leads(m, j)
  <2> TAKE m \in Seq(E)
  <2> HAVE Len(m) < Len(l)
  <2>1. Len(m) \in Nat /\ ~ (k <= Len(m))
    BY <1>3
  <2>2. Len(m) \notin Failing
    <3> HIDE DEF Failing
    <3> QED BY <1>2, <2>1
  <2>3. ~ Fails(m)
    <3> HIDE DEF Fails
    <3> QED BY <2>1, <2>2
  <2> QED BY <2>3
<1> HIDE DEF Failing, Fails
<1>6. CASE Len(l) = 1
  <2>0. i = 0
    BY <1>6
  <2>1. Path(l, i) = <<>>
    BY <1>6, PathCalls
  <2>4. Root(l) = LeafHash(l[1])
    BY <1>6, RootCalls
  <2>2. <<>> \in Seq(E)
    OBVIOUS
  <2>3. \A hash : FoldPath(hash, <<>>) = hash
    BY FoldPaths
  <2>5. \A hash : FoldPath(hash, Path(l, i)) = Root(l) <=> hash = LeafHash(l[i + 1])
    <3>1. \A hash : FoldPath(hash, Path(l, i)) = hash
      BY <2>1, <2>3
    <3>2. Root(l) = LeafHash(l[i + 1])
      BY <2>0, <2>4
    <3> QED BY <3>1, <3>2
  <2>6. Path(l, i) \in Seq(E)
    BY <2>1, <2>2
  <2> QED BY <1>4, <2>5, <2>6 DEF Leads
<1>7. CASE Len(l) >= 2
  <2> DEFINE p == Split(l)
             n == Len(l)
             left == Left(l)
             right == Right(l)
  <2>1. /\ left \in Seq(E) /\ right \in Seq(E) /\ p \in 1..(n - 1) /\ n \in Nat
        /\ Len(left) = p /\ Len(right) = n - p
        /\ \A j \in 1..p : left[j] = l[j]
        /\ \A j \in 1..(n - p) : right[j] = l[p + j]
    BY <1>7, Halves
  <2>2. Root(l) = NodeHash(Root(left), Root(right))
    BY <1>7, RootCalls
  <2>3. i \in 0..(n - 1)
    OBVIOUS
  <2>4. CASE i < p
    <3> DEFINE node == [side |-> "right", digest |-> Root(right)]
               path == Path(left, i)
    <3>1. Path(l, i) = Append(path, node)
      BY <1>7, <2>4, PathCalls
    <3> HIDE DEF p, n, left, right
    <3>2. i \in 0..(Len(left) - 1) /\ Len(left) < n /\ left[i + 1] = l[i + 1]
      BY <2>1, <2>3, <2>4
    <3>3. Leads(left, i)
      BY <1>5, <2>1, <3>2 DEF n
    <3>4. PICK N : path \in Seq(N)
      BY <3>3 DEF Leads
    <3>5. Append(path, node) \in Seq(N \cup {node})
      <4>1. path \in Seq(N \cup {node}) /\ node \in N \cup {node}
        BY <3>4
      <4> HIDE DEF path, node
      <4> QED BY <4>1
    <3>6. ASSUME NEW hash
          PROVE  FoldPath(hash, Path(l, i)) = Root(l) <=> hash = LeafHash(l[i + 1])
      <4>1. FoldPath(hash, Path(l, i)) = Above(node, FoldPath(hash, path))
        <5> HIDE DEF path, node
        <5> QED BY <3>1, <3>4, FoldPaths
      <4>2. Above(node, FoldPath(hash, path)) = NodeHash(FoldPath(hash, path), Root(right))
        BY DEF Above
      <4>3. FoldPath(hash, path) = Root(left) <=> hash = LeafHash(l[i + 1])
        BY <3>2, <3>3 DEF Leads
      <4> HIDE DEF path, node
      <4> QED BY <2>2, <4>1, <4>2, <4>3, Hashes
    <3> HIDE DEF path, node
    <3> QED BY <1>4, <3>1, <3>5, <3>6 DEF Leads
  <2>5. CASE i >= p
    <3> DEFINE node == [side |-> "left", digest |-> Root(left)]
               path == Path(right, i - p)
    <3>1. Path(l, i) = Append(path, node)
      BY <1>7, <2>5, PathCalls
    <3> HIDE DEF p, n, left, right
    <3>2. /\ i - p \in 0..(Len(right) - 1) /\ Len(right) < n
          /\ right[(i - p) + 1] = l[i + 1]
      <4>1. i - p \in 0..(Len(right) - 1) /\ Len(right) < n
        BY <2>1, <2>3, <2>5
      <4>2. (i - p) + 1 \in 1..(n - p) /\ p + ((i - p) + 1) = i + 1
        BY <2>1, <2>3, <2>5
      <4> QED BY <2>1, <4>1, <4>2
    <3>3. Leads(right, i - p)
      BY <1>5, <2>1, <3>2 DEF n
    <3>4. PICK N : path \in Seq(N)
      BY <3>3 DEF Leads
    <3>5. Append(path, node) \in Seq(N \cup {node})
      <4>1. path \in Seq(N \cup {node}) /\ node \in N \cup {node}
        BY <3>4
      <4> HIDE DEF path, node
      <4> QED BY <4>1
    <3>6. ASSUME NEW hash
          PROVE  FoldPath(hash, Path(l, i)) = Root(l) <=> hash = LeafHash(l[i + 1])
      <4>1. FoldPath(hash, Path(l, i)) = Above(node, FoldPath(hash, path))
        <5> HIDE DEF path, node
        <5> QED BY <3>1, <3>4, FoldPaths
      <4>2. Above(node, FoldPath(hash, path)) = NodeHash(Root(left), FoldPath(hash, path))
        BY DEF Above
      <4>3. FoldPath(hash, path) = Root(right) <=> hash = LeafHash(l[i + 1])
        BY <3>2, <3>3 DEF Leads
      <4> HIDE DEF path, node
      <4> QED BY <2>2, <4>1, <4>2, <4>3, Hashes
    <3> HIDE DEF path, node
    <3> QED BY <1>4, <3>1, <3>5, <3>6 DEF Leads
  <2> QED BY <2>1, <2>3, <2>4, <2>5
<1>8. Len(l) = 1 \/ Len(l) >= 2
  <2> DEFINE n == Len(l)
  <2>1. n \in Nat /\ i \in 0..(n - 1)
    OBVIOUS
  <2> HIDE DEF n
  <2>2. n = 1 \/ n >= 2
    BY <2>1
  <2> QED BY <2>2 DEF n
<1> QED BY <1>6, <1>7, <1>8

-----------------------------------------------------------------------------
(* The levels of the reference                                             *)

LevelStep(level, hashes, k) == IF k = 0 THEN hashes ELSE PairUp(level[k - 1])

Climbs(level, hashes, n) == \A k \in 0..n : level[k] = LevelStep(level, hashes, k)

\* There are levels up to any number.
LEMMA LevelsUpto ==
  ASSUME NEW hashes, NEW n \in Nat
  PROVE  \E level : Climbs(level, hashes, n)
<1> DEFINE Failing == {m \in Nat : ~ \E level : Climbs(level, hashes, m)}
<1> SUFFICES ASSUME Failing # {}
             PROVE  FALSE
  OBVIOUS
<1>1. PICK m \in Failing : \A i \in Failing : m <= i
  <2>1. Failing \in SUBSET Nat
    OBVIOUS
  <2> HIDE DEF Failing
  <2> QED BY <2>1, LeastNatural
<1>2. m \in Nat
  OBVIOUS
<1>3. m # 0
  <2> DEFINE start == [k \in {0} |-> hashes]
  <2>1. start[0] = hashes
    OBVIOUS
  <2>2. Climbs(start, hashes, 0)
    <3> HIDE DEF start
    <3> QED BY <2>1 DEF Climbs, LevelStep
  <2> HIDE DEF start
  <2> QED BY <2>2
<1>4. PICK f : Climbs(f, hashes, m - 1)
  <2>1. m - 1 \in Nat /\ m - 1 \notin Failing
    <3>1. m - 1 \in Nat /\ ~ (m <= m - 1)
      BY <1>2, <1>3
    <3> HIDE DEF Failing
    <3> QED BY <1>1, <3>1
  <2> QED BY <2>1
<1> DEFINE g == [k \in 0..m |-> IF k < m THEN f[k] ELSE PairUp(f[m - 1])]
<1>5. ASSUME NEW k \in 0..m
      PROVE  g[k] = LevelStep(g, hashes, k)
  <2>1. CASE k < m
    <3>1. f[k] = LevelStep(f, hashes, k)
      BY <1>2, <1>4, <2>1 DEF Climbs
    <3>2. g[k] = f[k] /\ (k # 0 => g[k - 1] = f[k - 1])
      BY <1>2, <2>1
    <3> QED BY <3>1, <3>2 DEF LevelStep
  <2>2. CASE k = m
    <3>1. g[m] = PairUp(f[m - 1]) /\ g[m - 1] = f[m - 1]
      BY <1>2, <1>3
    <3> QED BY <1>3, <2>2, <3>1 DEF LevelStep
  <2> QED BY <2>1, <2>2
<1>6. Climbs(g, hashes, m)
  BY <1>5 DEF Climbs
<1> QED BY <1>6

\* They are the same in all that have them.
LEMMA LevelsAgree ==
  ASSUME NEW hashes, NEW n \in Nat, NEW f, NEW g,
         Climbs(f, hashes, n), Climbs(g, hashes, n)
  PROVE  f[n] = g[n]
<1> DEFINE Failing == {k \in 0..n : f[k] # g[k]}
<1> SUFFICES ASSUME Failing # {}
             PROVE  FALSE
  OBVIOUS
<1>1. PICK k \in Failing : \A i \in Failing : k <= i
  <2>1. Failing \in SUBSET Nat
    OBVIOUS
  <2> HIDE DEF Failing
  <2> QED BY <2>1, LeastNatural
<1>2. f[k] = LevelStep(f, hashes, k) /\ g[k] = LevelStep(g, hashes, k)
  BY DEF Climbs
<1>3. k # 0
  BY <1>2 DEF LevelStep
<1>4. f[k - 1] = g[k - 1]
  BY <1>1, <1>3
<1> QED BY <1>2, <1>3, <1>4 DEF LevelStep

\* Each level pairs up the one below.
LEMMA LevelsClimb ==
  ASSUME NEW hashes
  PROVE  /\ Levels(hashes)[0] = hashes
         /\ \A k \in Nat : Levels(hashes)[k + 1] = PairUp(Levels(hashes)[k])
<1> DEFINE Solves(f) == f = [k \in Nat |-> LevelStep(f, hashes, k)]
           Part(n) == CHOOSE f : Climbs(f, hashes, n)
           whole == [k \in Nat |-> Part(k)[k]]
<1>1. \A n \in Nat : Climbs(Part(n), hashes, n)
  BY LevelsUpto
<1> HIDE DEF Part
<1>2. \A n \in Nat : n # 0 => Part(n)[n - 1] = Part(n - 1)[n - 1]
  <2> TAKE n \in Nat
  <2> HAVE n # 0
  <2>1. n - 1 \in Nat
    OBVIOUS
  <2>2. Climbs(Part(n), hashes, n - 1)
    BY <1>1 DEF Climbs
  <2>3. Climbs(Part(n - 1), hashes, n - 1)
    BY <1>1, <2>1
  <2> QED BY <2>1, <2>2, <2>3, LevelsAgree
<1>3. \A k \in Nat : whole[k] = LevelStep(whole, hashes, k)
  <2> TAKE k \in Nat
  <2>1. Part(k)[k] = LevelStep(Part(k), hashes, k)
    BY <1>1 DEF Climbs
  <2>2. k # 0 => whole[k - 1] = Part(k)[k - 1]
    BY <1>2
  <2> QED BY <2>1, <2>2 DEF LevelStep
<1>4. Solves(whole)
  BY <1>3
<1> DEFINE level == CHOOSE level : Solves(level)
<1>5. Levels(hashes) = level
  BY DEF Levels, LevelStep
<1>6. Solves(level)
  <2> HIDE DEF Solves, whole
  <2> QED BY <1>4
<1>7. \A k \in Nat : level[k] = LevelStep(level, hashes, k)
  <2> HIDE DEF level
  <2> QED BY <1>6
<1> HIDE DEF level
<1>8. level[0] = hashes
  BY <1>7 DEF LevelStep
<1>9. ASSUME NEW k \in Nat
      PROVE  level[k + 1] = PairUp(level[k])
  <2>1. k + 1 \in Nat /\ k + 1 # 0 /\ (k + 1) - 1 = k
    OBVIOUS
  <2> QED BY <1>7, <2>1 DEF LevelStep
<1> QED BY <1>5, <1>8, <1>9

-----------------------------------------------------------------------------
(* Top down is bottom up                                                   *)

\* The leaves under a node: size of them after the first start, or what is left.
Block(list, start, size) ==
  SubSeq(list, start + 1, IF start + size <= Len(list) THEN start + size ELSE Len(list))

IsBlock(block, E, list, start, size) ==
  /\ block \in Seq(E)
  /\ Len(block) \in Nat
  /\ start + size <= Len(list) => Len(block) = size
  /\ start + size > Len(list) => Len(block) = Len(list) - start
  /\ \A i \in 1..Len(block) : block[i] = list[start + i]

\* That is what the block is.
LEMMA Blocks ==
  ASSUME NEW E, NEW list \in Seq(E), NEW start \in Nat, NEW size \in Nat \ {0}, start < Len(list)
  PROVE  IsBlock(Block(list, start, size), E, list, start, size)
<1> DEFINE n == Len(list)
           e == IF start + size <= n THEN start + size ELSE n
           block == SubSeq(list, start + 1, e)
<1>1. n \in Nat /\ start < n
  OBVIOUS
<1>2. e \in (start + 1)..n
  <2> HIDE DEF n
  <2> QED BY <1>1
<1>3. block \in Seq(E) /\ Len(block) = e - start /\ \A i \in 1..(e - start) : block[i] = list[start + i]
  <2> HIDE DEF e
  <2>1. e \in Nat
    <3> HIDE DEF n
    <3> QED BY <1>1, <1>2
  <2> QED BY <1>2, <2>1
<1>4. Block(list, start, size) = block
  BY DEF Block
<1> HIDE DEF block
<1>5. Len(block) \in Nat /\ (start + size <= n => Len(block) = size)
      /\ (start + size > n => Len(block) = n - start)
  <2> HIDE DEF n
  <2> QED BY <1>1, <1>2, <1>3
<1>6. Len(block) = e - start
  BY <1>3
<1> HIDE DEF e
<1> QED BY <1>3, <1>4, <1>5, <1>6 DEF IsBlock

\* Lists of the same length with the same elements are the same.
LEMMA SameLists ==
  ASSUME NEW E, NEW s \in Seq(E), NEW t \in Seq(E), Len(s) = Len(t),
         \A i \in 1..Len(s) : s[i] = t[i]
  PROVE  s = t
  OBVIOUS

\* Two neighbours that are full, or the left one is, are the halves of the
\* block above them.
LEMMA BlocksPair ==
  ASSUME NEW E, NEW list \in Seq(E), NEW start \in Nat, NEW k \in Nat,
         start + PowerOfTwo[k] < Len(list)
  PROVE  Root(Block(list, start, PowerOfTwo[k + 1])) =
           NodeHash(Root(Block(list, start, PowerOfTwo[k])),
                    Root(Block(list, start + PowerOfTwo[k], PowerOfTwo[k])))
<1> DEFINE n == Len(list)
           p == PowerOfTwo[k]
           block == Block(list, start, 2 * p)
           left == Block(list, start, p)
           right == Block(list, start + p, p)
<1>0. p \in Nat \ {0} /\ PowerOfTwo[k + 1] = 2 * p
  BY Powers
<1>01. n \in Nat /\ start + p < n
  OBVIOUS
<1>1. p \in Nat \ {0} /\ PowerOfTwo[k + 1] = 2 * p /\ n \in Nat /\ start + p < n
  BY <1>0, <1>01
<1>2. start < n /\ 2 * p \in Nat \ {0} /\ start + p \in Nat
  <2> HIDE DEF n, p
  <2> QED BY <1>1
<1>3. /\ block \in Seq(E) /\ Len(block) \in Nat
      /\ start + 2 * p <= n => Len(block) = 2 * p
      /\ start + 2 * p > n => Len(block) = n - start
      /\ \A i \in 1..Len(block) : block[i] = list[start + i]
  <2>1. IsBlock(block, E, list, start, 2 * p)
    <3> HIDE DEF p
    <3> QED BY <1>1, <1>2, Blocks
  <2> HIDE DEF block
  <2> QED BY <2>1 DEF IsBlock
<1>4. /\ left \in Seq(E) /\ Len(left) = p
      /\ \A i \in 1..p : left[i] = list[start + i]
  <2>1. start + p <= n
    <3> HIDE DEF n, p
    <3> QED BY <1>1
  <2>2. IsBlock(left, E, list, start, p)
    <3> HIDE DEF p
    <3> QED BY <1>1, <1>2, Blocks
  <2> HIDE DEF left
  <2> QED BY <2>1, <2>2 DEF IsBlock
<1>5. /\ right \in Seq(E) /\ Len(right) \in Nat
      /\ (start + p) + p <= n => Len(right) = p
      /\ (start + p) + p > n => Len(right) = n - (start + p)
      /\ \A i \in 1..Len(right) : right[i] = list[(start + p) + i]
  <2>1. start + p \in Nat /\ start + p < Len(list) /\ p \in Nat \ {0}
    BY <1>1, <1>2
  <2>2. IsBlock(right, E, list, start + p, p)
    <3> HIDE DEF p
    <3> QED BY <2>1, Blocks
  <2> HIDE DEF right
  <2> QED BY <2>2 DEF IsBlock
<1> DEFINE b == Len(block)
           r == Len(right)
<1> HIDE DEF n, block, left, right, b, r
<1>6. b \in Nat /\ b >= 2 /\ p < b /\ b <= 2 * p /\ r = b - p /\ r \in Nat
  <2> HIDE DEF p
  <2>1. b \in Nat /\ r \in Nat /\ (start + 2 * p <= n => b = 2 * p /\ r = p)
        /\ (start + 2 * p > n => b = n - start /\ r = n - (start + p))
    BY <1>1, <1>2, <1>3, <1>5 DEF b, r
  <2> QED BY <1>1, <1>2, <2>1
<1>7. Split(block) = p
  BY <1>6, SplitIsUnique DEF Split, b
<1> HIDE DEF p
<1>8. /\ Left(block) \in Seq(E) /\ Len(Left(block)) = p
      /\ Right(block) \in Seq(E) /\ Len(Right(block)) = b - p
      /\ \A i \in 1..p : Left(block)[i] = block[i]
      /\ \A i \in 1..(b - p) : Right(block)[i] = block[p + i]
  BY <1>3, <1>6, <1>7, Halves DEF b
<1>9. Left(block) = left
  <2>1. ASSUME NEW i \in 1..p
        PROVE  Left(block)[i] = left[i]
    <3>1. i \in 1..b
      BY <1>1, <1>6
    <3> QED BY <1>3, <1>4, <1>8, <3>1 DEF b
  <2> QED BY <1>4, <1>8, <2>1, SameLists
<1>10. Right(block) = right
  <2>1. ASSUME NEW i \in 1..r
        PROVE  Right(block)[i] = right[i]
    <3>1. p + i \in 1..b /\ start + (p + i) = (start + p) + i
      BY <1>1, <1>6
    <3>2. Right(block)[i] = block[p + i]
      BY <1>6, <1>8
    <3>3. block[p + i] = list[start + (p + i)]
      BY <1>3, <3>1 DEF b
    <3>4. right[i] = list[(start + p) + i]
      BY <1>5 DEF r
    <3> QED BY <3>1, <3>2, <3>3, <3>4
  <2>2. Len(Right(block)) = r /\ Len(right) = r
    BY <1>6, <1>8 DEF r
  <2> QED BY <1>5, <1>8, <2>1, <2>2, SameLists
<1>11. Root(block) = NodeHash(Root(Left(block)), Root(Right(block)))
  BY <1>3, <1>6, RootCalls DEF b
<1>12. Root(block) = NodeHash(Root(left), Root(right))
  BY <1>9, <1>10, <1>11
<1> QED BY <1>1, <1>12 DEF block, left, right, p

\* A node without a neighbour has the leaves of the block above it.
LEMMA BlockAlone ==
  ASSUME NEW E, NEW list \in Seq(E), NEW start \in Nat, NEW k \in Nat,
         start < Len(list), Len(list) <= start + PowerOfTwo[k]
  PROVE  Block(list, start, PowerOfTwo[k + 1]) = Block(list, start, PowerOfTwo[k])
<1> DEFINE n == Len(list)
           p == PowerOfTwo[k]
           e(size) == IF start + size <= n THEN start + size ELSE n
<1>0. p \in Nat /\ PowerOfTwo[k + 1] = 2 * p
  BY Powers
<1>1. n \in Nat /\ n <= start + p
  OBVIOUS
<1>2. e(2 * p) = n /\ e(p) = n
  <2> HIDE DEF n, p
  <2> QED BY <1>0, <1>1
<1>3. Block(list, start, 2 * p) = SubSeq(list, start + 1, e(2 * p))
      /\ Block(list, start, p) = SubSeq(list, start + 1, e(p))
  BY DEF Block
<1>4. Block(list, start, 2 * p) = Block(list, start, p)
  <2> HIDE DEF p, e
  <2> QED BY <1>2, <1>3
<1> QED BY <1>0, <1>4

LeafHashes(list) == [i \in 1..Len(list) |-> LeafHash(list[i])]

\* The nodes of a level are the roots of the blocks below them, and these
\* are all of the list.
Level(list, k) ==
  LET level == Levels(LeafHashes(list))[k]
      p == PowerOfTwo[k]
  IN /\ Len(level) \in Nat \ {0}
     /\ (Len(level) - 1) * p < Len(list)
     /\ Len(list) <= Len(level) * p
     /\ \A i \in 1..Len(level) : level[i] = Root(Block(list, (i - 1) * p, p))

\* The leaf hashes are such a level.
LEMMA FirstLevel ==
  ASSUME NEW E, NEW list \in Seq(E), list # <<>>
  PROVE  Level(list, 0)
<1> DEFINE n == Len(list)
           level == Levels(LeafHashes(list))[0]
<1>1. level = [i \in 1..n |-> LeafHash(list[i])]
  BY LevelsClimb DEF LeafHashes
<1>2. n \in Nat \ {0}
  OBVIOUS
<1>3. Len(level) = n /\ \A i \in 1..n : level[i] = LeafHash(list[i])
  <2> HIDE DEF level
  <2> QED BY <1>1, <1>2
<1>4. PowerOfTwo[0] = 1
  BY Powers
<1>5. ASSUME NEW i \in 1..n
      PROVE  level[i] = Root(Block(list, (i - 1) * 1, 1))
  <2> DEFINE block == Block(list, i - 1, 1)
  <2>1. i - 1 \in Nat /\ i - 1 < n /\ (i - 1) + 1 <= n /\ (i - 1) * 1 = i - 1 /\ (i - 1) + 1 = i
    <3> HIDE DEF n
    <3> QED BY <1>2
  <2>2. block \in Seq(E) /\ Len(block) = 1 /\ \A j \in 1..Len(block) : block[j] = list[(i - 1) + j]
    <3>1. IsBlock(block, E, list, i - 1, 1)
      BY <2>1, Blocks
    <3> HIDE DEF block
    <3> QED BY <2>1, <3>1 DEF IsBlock
  <2> HIDE DEF block, level
  <2>3. block[1] = list[i]
    BY <2>1, <2>2
  <2>4. Root(block) = LeafHash(block[1])
    BY <2>2, RootCalls
  <2> QED BY <1>3, <2>1, <2>3, <2>4 DEF block
<1>6. (n - 1) * 1 < n /\ n <= n * 1
  <2> HIDE DEF n
  <2> QED BY <1>2
<1> HIDE DEF level
<1> QED BY <1>2, <1>3, <1>4, <1>5, <1>6 DEF Level, level

\* Half of a number, rounded up.
LEMMA HalfUp ==
  ASSUME NEW m \in Nat \ {0}
  PROVE  /\ (m + 1) \div 2 \in Nat \ {0}
         /\ m = 2 * ((m + 1) \div 2) \/ m = 2 * ((m + 1) \div 2) - 1
  OBVIOUS

\* Pairing up a level gives the next one.
LEMMA NextLevel ==
  ASSUME NEW E, NEW list \in Seq(E), NEW k \in Nat, Level(list, k)
  PROVE  Level(list, k + 1)
<1> DEFINE n == Len(list)
           p == PowerOfTwo[k]
           below == Levels(LeafHashes(list))[k]
           above == Levels(LeafHashes(list))[k + 1]
           m == Len(below)
           h == (m + 1) \div 2
<1>1. p \in Nat \ {0} /\ PowerOfTwo[k + 1] = 2 * p /\ n \in Nat
  BY Powers
<1>2. /\ m \in Nat \ {0} /\ (m - 1) * p < n /\ n <= m * p
      /\ \A i \in 1..m : below[i] = Root(Block(list, (i - 1) * p, p))
  BY DEF Level
<1>3. above = PairUp(below)
  BY LevelsClimb
<1>4. h \in Nat \ {0} /\ (m = 2 * h \/ m = 2 * h - 1)
  BY <1>2, HalfUp
<1>5. above = [i \in 1..h |-> IF 2 * i <= m THEN NodeHash(below[2 * i - 1], below[2 * i])
                                            ELSE below[2 * i - 1]]
  BY <1>3 DEF PairUp
<1>6. Len(above) = h /\ \A i \in 1..h :
        above[i] = IF 2 * i <= m THEN NodeHash(below[2 * i - 1], below[2 * i])
                                 ELSE below[2 * i - 1]
  <2> HIDE DEF above, h, m, below
  <2> QED BY <1>4, <1>5
<1> HIDE DEF above, h, m, below, p, n
<1>7. (h - 1) * (2 * p) < n /\ n <= h * (2 * p)
  <2>1. CASE m = 2 * h
    <3>1. (m - 1) * p = (h - 1) * (2 * p) + p /\ m * p = h * (2 * p)
      BY <1>1, <1>4, <2>1
    <3>2. (h - 1) * (2 * p) \in Int
      BY <1>1, <1>4
    <3> QED BY <1>1, <1>2, <3>1, <3>2
  <2>2. CASE m = 2 * h - 1
    <3>1. (m - 1) * p = (h - 1) * (2 * p) /\ m * p = h * (2 * p) - p
      BY <1>1, <1>4, <2>2
    <3>2. h * (2 * p) \in Int
      BY <1>1, <1>4
    <3> QED BY <1>1, <1>2, <3>1, <3>2
  <2> QED BY <1>4, <2>1, <2>2
<1>8. ASSUME NEW i \in 1..h
      PROVE  above[i] = Root(Block(list, (i - 1) * (2 * p), 2 * p))
  <2> DEFINE s == (i - 1) * (2 * p)
  <2>1. s \in Nat /\ ((2 * i - 1) - 1) * p = s /\ (2 * i - 1) * p = s + p
    BY <1>1, <1>4
  <2>2. 2 * i - 1 \in 1..m
    BY <1>4
  <2>3. below[2 * i - 1] = Root(Block(list, s, p))
    BY <1>2, <2>1, <2>2
  <2>4. CASE 2 * i <= m
    <3>1. 2 * i \in 1..m /\ (2 * i) - 1 = 2 * i - 1
      BY <1>2, <2>4
    <3>2. below[2 * i] = Root(Block(list, s + p, p))
      BY <1>2, <2>1, <3>1
    <3>3. s + p < n
      <4>1. (2 * i - 1) * p <= (m - 1) * p
        <5>1. 2 * i - 1 \in Nat /\ m - 1 \in Nat /\ 2 * i - 1 <= m - 1
          BY <1>2, <3>1
        <5> QED BY <1>1, <5>1
      <4>2. (m - 1) * p \in Int
        BY <1>1, <1>2
      <4> QED BY <1>1, <1>2, <2>1, <4>1, <4>2
    <3>4. Root(Block(list, s, 2 * p)) = NodeHash(Root(Block(list, s, p)), Root(Block(list, s + p, p)))
      <4> HIDE DEF s
      <4> QED BY <1>1, <2>1, <3>3, BlocksPair DEF n, p
    <3> HIDE DEF s
    <3> QED BY <1>6, <2>3, <2>4, <3>2, <3>4 DEF s
  <2>5. CASE ~ (2 * i <= m)
    <3>1. m = 2 * i - 1
      BY <1>4, <2>5
    <3>2. n <= s + p /\ s < n
      BY <1>2, <2>1, <3>1
    <3>3. Block(list, s, 2 * p) = Block(list, s, p)
      <4> HIDE DEF s
      <4> QED BY <1>1, <2>1, <3>2, BlockAlone DEF n, p
    <3> HIDE DEF s
    <3> QED BY <1>6, <2>3, <2>5, <3>3 DEF s
  <2> QED BY <2>4, <2>5
<1>9. Len(above) = h
  BY <1>6
<1> QED BY <1>1, <1>4, <1>7, <1>8, <1>9 DEF Level, above, n

\* All levels are such.
LEMMA EveryLevel ==
  ASSUME NEW E, NEW list \in Seq(E), list # <<>>, NEW n \in Nat
  PROVE  Level(list, n)
<1> DEFINE Failing == {k \in Nat : ~ Level(list, k)}
<1> SUFFICES ASSUME Failing # {}
             PROVE  FALSE
  OBVIOUS
<1>1. PICK k \in Failing : \A i \in Failing : k <= i
  <2>1. Failing \in SUBSET Nat
    OBVIOUS
  <2> HIDE DEF Failing
  <2> QED BY <2>1, LeastNatural
<1>2. k # 0
  BY FirstLevel
<1>3. k - 1 \in Nat /\ k - 1 \notin Failing /\ (k - 1) + 1 = k
  <2>1. k \in Nat
    OBVIOUS
  <2>2. k - 1 \in Nat /\ ~ (k <= k - 1) /\ (k - 1) + 1 = k
    BY <1>2, <2>1
  <2> HIDE DEF Failing
  <2> QED BY <1>1, <2>2
<1>4. Level(list, (k - 1) + 1)
  BY <1>3, NextLevel
<1> QED BY <1>3, <1>4

\* The highest level is one node, the root.
LEMMA RootFromBelow ==
  ASSUME NEW E, NEW list \in Seq(E), list # <<>>
  PROVE  Levels(LeafHashes(list))[Len(list)][1] = Root(list)
<1> DEFINE n == Len(list)
           p == PowerOfTwo[n]
           level == Levels(LeafHashes(list))[n]
           m == Len(level)
<1>1. n \in Nat \ {0}
  OBVIOUS
<1>2. p \in Nat /\ n < p
  BY <1>1, Powers, PowersGrow
<1>3. /\ m \in Nat \ {0} /\ (m - 1) * p < n
      /\ \A i \in 1..m : level[i] = Root(Block(list, (i - 1) * p, p))
  BY <1>1, EveryLevel DEF Level
<1> HIDE DEF level, p
<1>4. (1 - 1) * p = 0 /\ 1 \in 1..m
  <2> HIDE DEF m
  <2> QED BY <1>2, <1>3
<1>5. level[1] = Root(Block(list, 0, p))
  BY <1>3, <1>4
<1>6. Block(list, 0, p) = list
  <2> DEFINE block == Block(list, 0, p)
  <2>1. 0 < n /\ p \in Nat \ {0} /\ 0 + p > n
    <3> HIDE DEF n
    <3> QED BY <1>1, <1>2
  <2>2. /\ block \in Seq(E) /\ Len(block) = n - 0
        /\ \A i \in 1..Len(block) : block[i] = list[0 + i]
    <3>1. IsBlock(block, E, list, 0, p)
      BY <2>1, Blocks
    <3> HIDE DEF block
    <3> QED BY <2>1, <3>1 DEF IsBlock
  <2> HIDE DEF block
  <2>3. Len(block) = Len(list)
    BY <1>1, <2>2
  <2>4. \A i \in 1..Len(block) : block[i] = list[i]
    BY <1>1, <2>2, <2>3
  <2>5. block = list
    BY <2>2, <2>3, <2>4, SameLists
  <2> QED BY <2>5 DEF block
<1> QED BY <1>5, <1>6 DEF level

-----------------------------------------------------------------------------
(* The properties of the run, for any leaves and any number of them        *)

\* The list that grows is one of leaves.
LeafList == digests \in Seq(Leaves)

LEMMA ListOfLeaves == Spec => []LeafList
<1>1. Init => LeafList
  BY DEF Init, LeafList
<1>2. LeafList /\ [Next]_digests => LeafList'
  <2> SUFFICES ASSUME LeafList, [Next]_digests
               PROVE  LeafList'
    OBVIOUS
  <2>1. CASE Grow
    BY <2>1 DEF Grow, LeafList
  <2>2. CASE UNCHANGED digests
    BY <2>2 DEF LeafList
  <2> QED BY <2>1, <2>2 DEF Next
<1> QED BY <1>1, <1>2, PTL DEF Spec

\* validate_receipt computes the root of the log from a leaf and the path of
\* an index exactly when the leaf is the one at that index.
THEOREM PathsProveTheirLeaves == Spec => []PathProvesItsLeaf
<1>1. LeafList => PathProvesItsLeaf
  <2> SUFFICES ASSUME digests \in Seq(Leaves), NEW index \in 0..(Len(digests) - 1), NEW d \in Leaves
               PROVE  (FoldPath(LeafHash(d), Path(digests, index)) = Root(digests))
                        <=> d = digests[index + 1]
    BY DEF PathProvesItsLeaf, LeafList
  <2>1. Leads(digests, index)
    BY PathsLead
  <2> QED BY <2>1, Hashes DEF Leads
<1> QED BY <1>1, ListOfLeaves, PTL

\* No other list of leaves has the root of the log.
THEOREM RootsCommitToLeaves == Spec => []RootCommits
<1>1. LeafList => RootCommits
  <2> SUFFICES ASSUME digests \in Seq(Leaves), NEW other \in AllLists(4), Root(other) = Root(digests)
               PROVE  other = digests
    BY DEF RootCommits, LeafList
  <2>1. other \in Seq(Leaves)
    <3>1. PICK k \in 0..4 : other \in [1..k -> Leaves]
      BY DEF AllLists
    <3>2. k \in Nat
      OBVIOUS
    <3> QED BY <3>1, <3>2
  <2> QED BY <2>1, RootsCommit
<1> QED BY <1>1, ListOfLeaves, PTL

\* _merkle_root, which splits from the top, computes the root of RFC 6962
\* that a construction level by level computes.
THEOREM RootsAreReference == Spec => []RootIsReference
<1>1. LeafList => RootIsReference
  <2> SUFFICES ASSUME digests \in Seq(Leaves)
               PROVE  Root(digests) = ReferenceRoot
    BY DEF RootIsReference, LeafList
  <2>1. CASE digests = <<>>
    BY <2>1, RootCalls DEF ReferenceRoot
  <2>2. CASE digests # <<>>
    BY <2>2, RootFromBelow DEF ReferenceRoot, LeafHashes
  <2> QED BY <2>1, <2>2
<1> QED BY <1>1, ListOfLeaves, PTL
=============================================================================
