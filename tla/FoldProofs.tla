----------------------------- MODULE FoldProofs -----------------------------
(***************************************************************************)
(* Folds over finite sets, as the library's Folds and Functions define     *)
(* them: what SumFunctionOnSet adds up to, how sums grow and split.  A fold *)
(* is a recursive function on the subsets of a set; that it has the value  *)
(* claimed for every set follows by taking a smallest subset for which it  *)
(* has not (SmallestSubset), with the value claimed as the witness that    *)
(* the function exists.                                                    *)
(***************************************************************************)
EXTENDS Integers, Functions, FiniteSets, FiniteSetTheorems, WellFoundedInduction, TLAPS

\* The units a sum counts: one pair for each x of S and each of 1..f[x].
Units(f, S) == UNION {{x} \X (1..f[x]) : x \in S}

\* The element a fold of Functions takes next.
AnyOf(S) == CHOOSE x \in S : TRUE

\* Every set of subsets of a finite set that is not empty has a smallest one.
LEMMA SmallestSubset ==
  ASSUME NEW S, IsFiniteSet(S), NEW T, T \subseteq SUBSET S, T # {}
  PROVE  \E s \in T : \A r \in T : r \subseteq s => r = s
<1> DEFINE R == StrictSubsetOrdering(S)
           X == FiniteSubsetsOf(S)
<1>1. IsWellFoundedOn(R, X)
  BY FS_StrictSubsetOrderingWellFounded
<1>2. T \subseteq X
  BY FS_FiniteSubsetsOfFinite
<1> HIDE DEF R, X
<1>3. \E x \in T : \A y \in T : ~ (<<y, x>> \in R)
  BY <1>1, <1>2, WFMin
<1> QED
  BY <1>3 DEF R, StrictSubsetOrdering

\* The units are finitely many, and each element has its own.
LEMMA UnitsCount ==
  ASSUME NEW S, IsFiniteSet(S), NEW f, \A x \in S : f[x] \in Nat
  PROVE  /\ IsFiniteSet(Units(f, S))
         /\ \A x \in S : Cardinality(Units(f, S)) = f[x] + Cardinality(Units(f, S \ {x}))
<1>1. ASSUME NEW x \in S PROVE IsFiniteSet({x} \X (1..f[x])) /\ Cardinality({x} \X (1..f[x])) = f[x]
  <2> DEFINE R == 1..f[x]
  <2>1. IsFiniteSet(R) /\ Cardinality(R) = f[x]
    BY FS_Interval
  <2>2. IsFiniteSet({x}) /\ Cardinality({x}) = 1
    BY FS_Singleton
  <2> HIDE DEF R
  <2>3. IsFiniteSet({x} \X R) /\ Cardinality({x} \X R) = Cardinality({x}) * Cardinality(R)
    BY <2>1, <2>2, FS_Product
  <2> QED
    BY <2>1, <2>2, <2>3 DEF R
<1>2. IsFiniteSet(Units(f, S))
  <2> DEFINE A(x) == {x} \X (1..f[x])
             All == {A(x) : x \in S}
             h == [x \in S |-> A(x)]
  <2>1. h \in Surjection(S, All)
    BY DEF Surjection
  <2>2. \A B \in All : IsFiniteSet(B)
    BY <1>1
  <2>3. Units(f, S) = UNION All
    BY DEF Units
  <2> HIDE DEF h, All
  <2>4. IsFiniteSet(All)
    BY <2>1, FS_Surjection
  <2>5. IsFiniteSet(UNION All)
    BY <2>2, <2>4, FS_UNION
  <2> QED
    BY <2>3, <2>5
<1>3. ASSUME NEW x \in S PROVE Cardinality(Units(f, S)) = f[x] + Cardinality(Units(f, S \ {x}))
  <2> DEFINE A == {x} \X (1..f[x])
             B == Units(f, S \ {x})
  <2>1. Units(f, S) = A \cup B
    BY DEF Units
  <2>2. A \cap B = {}
    BY DEF Units
  <2>3. IsFiniteSet(B)
    BY <1>2, <2>1, FS_Subset
  <2>4. IsFiniteSet(A) /\ Cardinality(A) = f[x]
    BY <1>1
  <2> HIDE DEF A, B
  <2>5. Cardinality(A \cup B) = Cardinality(A) + Cardinality(B) - Cardinality(A \cap B)
    BY <2>3, <2>4, FS_Union
  <2>6. Cardinality(B) \in Nat /\ Cardinality(A \cap B) = 0 /\ Cardinality(A) = f[x]
    BY <2>2, <2>3, <2>4, FS_EmptySet, FS_CardinalityType
  <2> QED
    BY <2>1, <2>5, <2>6 DEF B
<1> QED
  BY <1>2, <1>3

\* A sum of natural numbers counts units, whatever the order of the fold.
LEMMA SumIsCount ==
  ASSUME NEW S, IsFiniteSet(S), NEW f, \A x \in S : f[x] \in Nat
  PROVE  SumFunctionOnSet(f, S) = Cardinality(Units(f, S))
<1> DEFINE Adds(g) == g = [s \in SUBSET S |-> IF s = {} THEN 0 ELSE f[AnyOf(s)] + g[s \ {AnyOf(s)}]]
           count == [s \in SUBSET S |-> Cardinality(Units(f, s))]
           sum == CHOOSE g : Adds(g)
<1>1. SumFunctionOnSet(f, S) = sum[S]
  BY DEF SumFunctionOnSet, FoldFunctionOnSet, MapThenFoldSet, AnyOf
<1>2. ASSUME NEW s \in SUBSET S, s # {} PROVE AnyOf(s) \in s /\ s \ {AnyOf(s)} \in SUBSET S /\ s \ {AnyOf(s)} # s
  BY <1>2 DEF AnyOf
<1>3. Adds(count)
  <2>1. ASSUME NEW s \in SUBSET S PROVE count[s] = IF s = {} THEN 0 ELSE f[AnyOf(s)] + count[s \ {AnyOf(s)}]
    <3>1. CASE s = {}
      BY <3>1, FS_EmptySet DEF Units
    <3>2. CASE s # {}
      <4>1. IsFiniteSet(s)
        BY FS_Subset
      <4>2. Cardinality(Units(f, s)) = f[AnyOf(s)] + Cardinality(Units(f, s \ {AnyOf(s)}))
        BY <1>2, <3>2, <4>1, UnitsCount
      <4> QED
        BY <1>2, <3>2, <4>2
    <3> QED
      BY <3>1, <3>2
  <2> QED
    BY <2>1
<1>4. Adds(sum)
  BY <1>3
<1> HIDE DEF sum, count
<1>5. sum = count
  <2>1. SUFFICES ASSUME NEW T, T = {s \in SUBSET S : sum[s] # count[s]}, T # {} PROVE FALSE
    <3>1. sum = [s \in SUBSET S |-> sum[s]] /\ count = [s \in SUBSET S |-> count[s]]
      BY <1>3, <1>4
    <3>2. (\A s \in SUBSET S : sum[s] = count[s]) => sum = count
      BY <3>1, Zenon
    <3> QED
      BY <2>1, <3>2
  <2>2. PICK s \in T : \A r \in T : r \subseteq s => r = s
    BY <2>1, SmallestSubset
  <2>3. CASE s = {}
    BY <2>1, <2>2, <2>3, <1>3, <1>4
  <2>4. CASE s # {}
    <3>1. s \ {AnyOf(s)} \notin T
      BY <1>2, <2>1, <2>2, <2>4
    <3> QED
      BY <1>2, <1>3, <1>4, <2>1, <2>2, <2>4, <3>1
  <2> QED
    BY <2>3, <2>4
<1> QED
  BY <1>1, <1>5 DEF count

\* The sum over no element, and one element at a time.
LEMMA SumElement ==
  ASSUME NEW S, IsFiniteSet(S), NEW f, \A x \in S : f[x] \in Nat
  PROVE  /\ SumFunctionOnSet(f, {}) = 0
         /\ SumFunctionOnSet(f, S) \in Nat
         /\ \A x \in S : SumFunctionOnSet(f, S) = f[x] + SumFunctionOnSet(f, S \ {x})
<1>1. SumFunctionOnSet(f, {}) = Cardinality(Units(f, {})) /\ Units(f, {}) = {}
  BY SumIsCount, FS_EmptySet DEF Units
<1>2. SumFunctionOnSet(f, S) \in Nat
  BY SumIsCount, UnitsCount, FS_CardinalityType
<1>3. ASSUME NEW x \in S
      PROVE  SumFunctionOnSet(f, S) = f[x] + SumFunctionOnSet(f, S \ {x})
  <2>1. IsFiniteSet(S \ {x})
    BY FS_RemoveElement
  <2>2. SumFunctionOnSet(f, S \ {x}) = Cardinality(Units(f, S \ {x}))
    BY <2>1, SumIsCount
  <2> QED
    BY <2>2, SumIsCount, UnitsCount
<1> QED
  BY <1>1, <1>2, <1>3, FS_EmptySet

\* A sum is that of its terms.
LEMMA SumSame ==
  ASSUME NEW S, IsFiniteSet(S), NEW f, NEW g, \A x \in S : f[x] \in Nat /\ f[x] = g[x]
  PROVE  SumFunctionOnSet(f, S) = SumFunctionOnSet(g, S)
<1>1. Units(f, S) = Units(g, S)
  BY DEF Units
<1>2. /\ SumFunctionOnSet(f, S) = Cardinality(Units(f, S))
      /\ SumFunctionOnSet(g, S) = Cardinality(Units(g, S))
  BY SumIsCount
<1> QED
  BY <1>1, <1>2

\* A sum grows with its terms, and with more of them: what h maps the elements
\* of S to, one to one, counts for at least as much.
LEMMA SumAtMost ==
  ASSUME NEW S, NEW T, IsFiniteSet(T), NEW f, NEW g, NEW h \in Injection(S, T),
         \A x \in S : f[x] \in Nat /\ f[x] <= g[h[x]], \A y \in T : g[y] \in Nat
  PROVE  IsFiniteSet(S) /\ SumFunctionOnSet(f, S) <= SumFunctionOnSet(g, T)
<1>1. IsFiniteSet(S)
  BY FS_Injection
<1> DEFINE A == Units(f, S)
           B == Units(g, T)
           k == [u \in A |-> <<h[u[1]], u[2]>>]
<1>2. k \in Injection(A, B)
  <2>1. ASSUME NEW u \in A PROVE k[u] \in B
    <3>1. PICK x \in S : u \in {x} \X (1..f[x])
      BY DEF Units
    <3>2. u[1] = x /\ u[2] \in 1..f[x] /\ h[x] \in T
      BY <3>1 DEF Injection
    <3>3. u[2] \in 1..g[h[x]] /\ k[u] = <<h[x], u[2]>>
      BY <3>2
    <3> QED
      BY <3>2, <3>3 DEF Units
  <2>2. ASSUME NEW u \in A, NEW v \in A, k[u] = k[v] PROVE u = v
    <3>1. PICK x \in S : u \in {x} \X (1..f[x])
      BY DEF Units
    <3>2. PICK y \in S : v \in {y} \X (1..f[y])
      BY DEF Units
    <3>3. h[x] = h[y] /\ u[2] = v[2]
      BY <2>2, <3>1, <3>2
    <3>4. x = y
      BY <3>3 DEF Injection, IsInjective
    <3> QED
      BY <3>1, <3>2, <3>3, <3>4
  <2> QED
    BY <2>1, <2>2 DEF Injection, IsInjective
<1>3. IsFiniteSet(B) /\ Cardinality(B) = SumFunctionOnSet(g, T)
  BY UnitsCount, SumIsCount
<1>4. Cardinality(A) = SumFunctionOnSet(f, S)
  BY <1>1, SumIsCount
<1> HIDE DEF A, B, k
<1> QED
  BY <1>1, <1>2, <1>3, <1>4, FS_Injection

\* The sum over two sets that are apart.
LEMMA SumOfBoth ==
  ASSUME NEW S, IsFiniteSet(S), NEW T, IsFiniteSet(T), S \cap T = {},
         NEW f, \A x \in S \cup T : f[x] \in Nat
  PROVE  SumFunctionOnSet(f, S \cup T) = SumFunctionOnSet(f, S) + SumFunctionOnSet(f, T)
<1> DEFINE A == Units(f, S)
           B == Units(f, T)
<1>1. IsFiniteSet(S \cup T)
  BY FS_Union
<1>2. Units(f, S \cup T) = A \cup B /\ A \cap B = {}
  BY DEF Units
<1>3. IsFiniteSet(A) /\ Cardinality(A) = SumFunctionOnSet(f, S)
  BY UnitsCount, SumIsCount
<1>4. IsFiniteSet(B) /\ Cardinality(B) = SumFunctionOnSet(f, T)
  BY UnitsCount, SumIsCount
<1>5. Cardinality(Units(f, S \cup T)) = SumFunctionOnSet(f, S \cup T)
  BY <1>1, SumIsCount
<1> HIDE DEF A, B
<1>6. Cardinality(A \cup B) = Cardinality(A) + Cardinality(B) - Cardinality(A \cap B)
  BY <1>3, <1>4, FS_Union
<1>7. Cardinality(A \cap B) = 0 /\ Cardinality(A) \in Nat /\ Cardinality(B) \in Nat
  BY <1>2, <1>3, <1>4, FS_EmptySet, FS_CardinalityType
<1>8. Cardinality(A \cup B) = Cardinality(A) + Cardinality(B)
  BY <1>6, <1>7
<1> QED
  BY <1>2, <1>3, <1>4, <1>5, <1>8, Zenon

\* Terms of at most m each add up to at most m for each element.
LEMMA SumOfSmall ==
  ASSUME NEW S, IsFiniteSet(S), NEW m \in Nat, NEW f, \A x \in S : f[x] \in 0..m
  PROVE  SumFunctionOnSet(f, S) <= m * Cardinality(S)
<1>1. IsFiniteSet(1..m) /\ Cardinality(1..m) = m
  BY FS_Interval
<1> DEFINE R == 1..m
<1>2. Units(f, S) \subseteq S \X R
  <2> SUFFICES ASSUME NEW x \in S PROVE {x} \X (1..f[x]) \subseteq S \X R
    BY DEF Units
  <2>1. 1..f[x] \subseteq R
    OBVIOUS
  <2> QED
    BY <2>1
<1> HIDE DEF R
<1>3. IsFiniteSet(S \X R) /\ Cardinality(S \X R) = Cardinality(S) * Cardinality(R)
  BY <1>1, FS_Product DEF R
<1>4. Cardinality(Units(f, S)) <= Cardinality(S \X R)
  BY <1>2, <1>3, FS_Subset
<1>5. SumFunctionOnSet(f, S) = Cardinality(Units(f, S)) /\ Cardinality(S) \in Nat
  BY SumIsCount, FS_CardinalityType
<1> QED
  BY <1>1, <1>3, <1>4, <1>5 DEF R

\* The sum over fewer elements, none of which counts for more.
LEMMA SumOfFewer ==
  ASSUME NEW T, IsFiniteSet(T), NEW S \in SUBSET T, NEW f, NEW g,
         \A x \in S : f[x] \in Nat /\ f[x] <= g[x], \A y \in T : g[y] \in Nat
  PROVE  SumFunctionOnSet(f, S) <= SumFunctionOnSet(g, T)
<1> DEFINE h == [x \in S |-> x]
<1>1. h \in Injection(S, T) /\ \A x \in S : h[x] = x
  BY DEF Injection, IsInjective
<1> HIDE DEF h
<1>2. \A x \in S : f[x] \in Nat /\ f[x] <= g[h[x]]
  BY <1>1
<1> QED
  BY <1>1, <1>2, SumAtMost

\* Multiples of m.
LEMMA Multiples ==
  ASSUME NEW n \in Nat, NEW m \in Nat
  PROVE  /\ n * m \in Nat /\ (n + 1) * m = n * m + m
         /\ n > 0 => (n - 1) * m \in Nat /\ n * m = (n - 1) * m + m
         /\ \A k \in Nat : k <= n => k * m <= n * m
<1>1. \A k \in Nat : k <= n => k * m <= n * m
  <2> SUFFICES ASSUME NEW k \in Nat, k <= n PROVE k * m <= n * m
    OBVIOUS
  <2>1. PICK d \in Nat : n = k + d
    BY n - k \in Nat
  <2>2. n * m = k * m + d * m /\ d * m \in Nat /\ k * m \in Nat
    BY <2>1
  <2> QED
    BY <2>2
<1> QED
  BY <1>1

\* Every set of natural numbers that is not empty has a least one.
LEMMA LeastNat ==
  ASSUME NEW T, T \subseteq Nat, T # {}
  PROVE  \E n \in T : \A m \in T : n <= m
<1> DEFINE R == OpToRel(<, Nat)
<1>1. IsWellFoundedOn(R, Nat)
  BY NatLessThanWellFounded
<1> HIDE DEF R
<1>2. PICK n \in T : \A m \in T : ~ (<<m, n>> \in R)
  BY <1>1, WFMin
<1>3. \A m \in T : ~ (m < n)
  BY <1>2 DEF R, OpToRel
<1> QED
  BY <1>3

\* And every set of numbers up to n a greatest.
LEMMA GreatestNat ==
  ASSUME NEW n \in Nat, NEW S, S \subseteq 0..n, S # {}
  PROVE  \E x \in S : \A y \in S : y <= x
<1> DEFINE T == {k \in Nat : \E x \in S : k = n - x}
<1>1. T \subseteq Nat /\ T # {}
  <2>1. PICK x \in S : TRUE
    OBVIOUS
  <2>2. n - x \in T
    BY <2>1
  <2> QED
    BY <2>2
<1> HIDE DEF T
<1>2. PICK k \in T : \A m \in T : k <= m
  BY <1>1, LeastNat
<1>3. PICK x \in S : k = n - x
  BY <1>2 DEF T
<1>4. ASSUME NEW y \in S PROVE y <= x
  <2>1. n - y \in T
    BY DEF T
  <2>2. n - x <= n - y /\ x \in 0..n /\ y \in 0..n
    BY <1>2, <1>3, <2>1
  <2> QED
    BY <2>2
<1> QED
  BY <1>4
=============================================================================
