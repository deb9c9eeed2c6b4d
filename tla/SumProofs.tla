------------------------------- MODULE SumProofs -------------------------------
(***************************************************************************)
(* What a sum over a finite set of indices is, whatever the order in which *)
(* SumFunction happens to take them: feature_extractor.v sums its window   *)
(* from the newest entry, feature_golden.py from the oldest.               *)
(*                                                                         *)
(* The proofs are by induction on the size of the set of indices, in the   *)
(* form of a least counterexample.                                         *)
(***************************************************************************)
EXTENDS Integers, FiniteSets, Functions, FiniteSetTheorems, WellFoundedInduction, TLAPS

Sum(a, S) == SumFunctionOnSet(a, S)

LEMMA LeastNatural ==
  ASSUME NEW S \in SUBSET Nat, S # {}
  PROVE  \E n \in S : \A m \in S : n <= m
<1> DEFINE R == OpToRel(<, Nat)
<1>1. IsWellFoundedOn(R, Nat)
  BY NatLessThanWellFounded
<1>2. \A x, y \in Nat : x < y => <<x, y>> \in R
  BY DEF OpToRel
<1> HIDE DEF R
<1>3. PICK n \in S : \A y \in S : ~ (<<y, n>> \in R)
  BY <1>1, WFMin
<1>4. \A m \in S : n <= m
  <2> TAKE m \in S
  <2>1. ~(m < n)
    BY <1>2, <1>3
  <2> QED
    BY <2>1
<1> QED
  BY <1>4

LEMMA Removed ==
  ASSUME NEW S, IsFiniteSet(S), NEW x \in S
  PROVE  /\ IsFiniteSet(S \ {x}) /\ Cardinality(S \ {x}) = Cardinality(S) - 1
         /\ Cardinality(S) \in Nat /\ Cardinality(S \ {x}) \in Nat
BY FS_RemoveElement, FS_CardinalityType

(* Induction on finite sets: of sets that break a claim, one is such that  *)
(* the claim holds without any one of its elements.                        *)
LEMMA LeastSet ==
  ASSUME NEW S, IsFiniteSet(S), NEW B \in SUBSET (SUBSET S), B # {}
  PROVE  \E s \in B : \A x \in s : s \ {x} \notin B
<1> DEFINE Sizes == {Cardinality(s) : s \in B}
<1>1. \A s \in B : IsFiniteSet(s) /\ Cardinality(s) \in Nat
  BY FS_Subset, FS_CardinalityType
<1>2. PICK n \in Sizes : \A m \in Sizes : n <= m
  <2>1. Sizes \in SUBSET Nat /\ Sizes # {}
    BY <1>1
  <2> HIDE DEF Sizes
  <2> QED
    BY <2>1, LeastNatural
<1>3. PICK s \in B : Cardinality(s) = n
  BY <1>2
<1>4. ASSUME NEW x \in s, s \ {x} \in B
      PROVE  FALSE
  <2>1. Cardinality(s \ {x}) = Cardinality(s) - 1 /\ Cardinality(s) \in Nat
    BY <1>1, <1>4, Removed
  <2>2. n <= Cardinality(s \ {x})
    BY <1>2, <1>4
  <2> QED
    BY <1>3, <2>1, <2>2
<1> QED
  BY <1>4

-----------------------------------------------------------------------------
(* The recursion behind the operator, and that it has a solution. *)

First(s) == CHOOSE x \in s : TRUE

LEMMA FirstIn ==
  ASSUME NEW s, s # {}
  PROVE  First(s) \in s
BY DEF First

IsSum(f, a, S) ==
  f = [s \in SUBSET S |-> IF s = {} THEN 0 ELSE a[First(s)] + f[s \ {First(s)}]]

(* f is right on the sets of at most n indices. *)
IsSumTo(f, a, S, n) ==
  \A s \in SUBSET S : Cardinality(s) <= n =>
    f[s] = IF s = {} THEN 0 ELSE a[First(s)] + f[s \ {First(s)}]

LEMMA SumDef ==
  ASSUME NEW a, NEW S
  PROVE  Sum(a, S) = (CHOOSE f : IsSum(f, a, S))[S]
BY DEF Sum, SumFunctionOnSet, FoldFunctionOnSet, MapThenFoldSet, IsSum, First

LEMMA SumExistsTo ==
  ASSUME NEW a, NEW S, IsFiniteSet(S)
  PROVE  \A n \in Nat : \E f : IsSumTo(f, a, S, n)
<1> DEFINE Bad == {n \in Nat : ~ \E f : IsSumTo(f, a, S, n)}
<1>1. SUFFICES ASSUME Bad # {} PROVE FALSE
  OBVIOUS
<1>2. PICK n \in Bad : \A m \in Bad : n <= m
  BY <1>1, LeastNatural
<1>3. \A s \in SUBSET S : IsFiniteSet(s) /\ Cardinality(s) \in Nat
  BY FS_Subset, FS_CardinalityType
<1>4. CASE n = 0
  <2> DEFINE f == [s \in SUBSET S |-> 0]
  <2>1. IsSumTo(f, a, S, 0)
    <3>1. \A s \in SUBSET S : Cardinality(s) <= 0 => s = {}
      BY <1>3, FS_EmptySet
    <3> QED
      BY <3>1 DEF IsSumTo
  <2> QED
    BY <1>2, <1>4, <2>1
<1>5. CASE n # 0
  <2>1. n - 1 \in Nat /\ n - 1 \notin Bad
    BY <1>2, <1>5
  <2>2. PICK f : IsSumTo(f, a, S, n - 1)
    BY <2>1
  <2> DEFINE g == [s \in SUBSET S |->
                     IF Cardinality(s) <= n - 1 THEN f[s]
                     ELSE a[First(s)] + f[s \ {First(s)}]]
  <2>3. ASSUME NEW s \in SUBSET S, Cardinality(s) <= n
        PROVE  g[s] = IF s = {} THEN 0 ELSE a[First(s)] + g[s \ {First(s)}]
    <3>1. CASE s = {}
      <4>1. Cardinality(s) = 0
        BY <3>1, FS_EmptySet
      <4>2. Cardinality(s) <= n - 1
        BY <2>1, <4>1
      <4>3. f[s] = 0
        BY <2>2, <3>1, <4>2 DEF IsSumTo
      <4> QED
        BY <3>1, <4>2, <4>3
    <3>2. CASE s # {}
      <4> DEFINE t == s \ {First(s)}
      <4>1. First(s) \in s /\ t \in SUBSET S
        BY <3>2, FirstIn
      <4>2. Cardinality(t) = Cardinality(s) - 1 /\ Cardinality(s) \in Nat
        BY <1>3, <4>1, Removed
      <4>3. g[t] = f[t]
        BY <2>1, <2>3, <4>1, <4>2
      <4>4. CASE Cardinality(s) <= n - 1
        <5>1. g[s] = f[s]
          BY <4>4
        <5>2. f[s] = a[First(s)] + f[t]
          BY <2>2, <3>2, <4>4 DEF IsSumTo
        <5> QED
          BY <3>2, <4>3, <5>1, <5>2
      <4>5. CASE ~(Cardinality(s) <= n - 1)
        BY <3>2, <4>3, <4>5
      <4> QED
        BY <4>4, <4>5
    <3> QED
      BY <3>1, <3>2
  <2> HIDE DEF g
  <2>4. IsSumTo(g, a, S, n)
    BY <2>3 DEF IsSumTo
  <2> QED
    BY <1>2, <2>4
<1> QED
  BY <1>4, <1>5

LEMMA SumExists ==
  ASSUME NEW a, NEW S, IsFiniteSet(S)
  PROVE  \E f : IsSum(f, a, S)
<1>1. Cardinality(S) \in Nat
  BY FS_CardinalityType
<1>2. PICK f : IsSumTo(f, a, S, Cardinality(S))
  BY <1>1, SumExistsTo
<1>3. \A s \in SUBSET S : Cardinality(s) <= Cardinality(S)
  BY FS_Subset
<1> DEFINE g == [s \in SUBSET S |-> f[s]]
<1>4. \A s \in SUBSET S : g[s] = IF s = {} THEN 0 ELSE a[First(s)] + g[s \ {First(s)}]
  BY <1>2, <1>3 DEF IsSumTo
<1>5. g = [s \in SUBSET S |-> g[s]]
  OBVIOUS
<1> HIDE DEF g
<1>6. IsSum(g, a, S)
  BY <1>4, <1>5 DEF IsSum
<1> QED
  BY <1>6

(* Two solutions agree wherever both are defined. *)
LEMMA SumUnique ==
  ASSUME NEW a, NEW S, NEW T \in SUBSET S, IsFiniteSet(S),
         NEW f, IsSum(f, a, S), NEW g, IsSum(g, a, T)
  PROVE  \A s \in SUBSET T : f[s] = g[s]
<1> DEFINE Bad == {s \in SUBSET T : f[s] # g[s]}
<1>1. SUFFICES ASSUME Bad # {} PROVE FALSE
  OBVIOUS
<1>2. PICK s \in Bad : \A x \in s : s \ {x} \notin Bad
  <2>1. IsFiniteSet(T)
    BY FS_Subset
  <2> QED
    BY <1>1, <2>1, LeastSet
<1>3. /\ f[s] = IF s = {} THEN 0 ELSE a[First(s)] + f[s \ {First(s)}]
      /\ g[s] = IF s = {} THEN 0 ELSE a[First(s)] + g[s \ {First(s)}]
  <2>1. s \in SUBSET S /\ s \in SUBSET T
    OBVIOUS
  <2> QED
    BY <2>1 DEF IsSum
<1>4. s # {}
  BY <1>2, <1>3
<1>5. f[s \ {First(s)}] = g[s \ {First(s)}]
  BY <1>2, <1>4, FirstIn
<1> QED
  BY <1>2, <1>3, <1>4, <1>5

-----------------------------------------------------------------------------
(* Sums. *)

LEMMA SumEmpty ==
  ASSUME NEW a
  PROVE  Sum(a, {}) = 0
<1>1. PICK f : IsSum(f, a, {})
  BY SumExists, FS_EmptySet
<1>2. IsSum((CHOOSE g : IsSum(g, a, {})), a, {})
  BY <1>1
<1> QED
  BY <1>2, SumDef DEF IsSum

(* The index the operator takes first. *)
LEMMA SumFirst ==
  ASSUME NEW a, NEW S, IsFiniteSet(S), S # {}
  PROVE  Sum(a, S) = a[First(S)] + Sum(a, S \ {First(S)})
<1> DEFINE T == S \ {First(S)}
           f == CHOOSE h : IsSum(h, a, S)
           g == CHOOSE h : IsSum(h, a, T)
<1>1. IsFiniteSet(T)
  BY FS_Subset
<1>2. IsSum(f, a, S)
  BY SumExists
<1>3. IsSum(g, a, T)
  BY <1>1, SumExists
<1>4. Sum(a, S) = f[S] /\ Sum(a, T) = g[T]
  BY SumDef
<1> HIDE DEF f, g
<1>5. f[S] = a[First(S)] + f[T]
  BY <1>2 DEF IsSum
<1>6. f[T] = g[T]
  BY <1>2, <1>3, SumUnique
<1> QED
  BY <1>4, <1>5, <1>6

LEMMA SumInt ==
  ASSUME NEW a, NEW S, IsFiniteSet(S), \A x \in S : a[x] \in Int
  PROVE  Sum(a, S) \in Int
<1> DEFINE Bad == {s \in SUBSET S : Sum(a, s) \notin Int}
<1>1. SUFFICES ASSUME Bad # {} PROVE FALSE
  OBVIOUS
<1>2. PICK s \in Bad : \A x \in s : s \ {x} \notin Bad
  BY <1>1, LeastSet
<1>3. s # {} /\ IsFiniteSet(s)
  <2>1. s # {}
    BY SumEmpty
  <2>2. IsFiniteSet(s)
    BY FS_Subset
  <2> QED
    BY <2>1, <2>2
<1>4. First(s) \in s /\ a[First(s)] \in Int /\ Sum(a, s \ {First(s)}) \in Int
  BY <1>2, <1>3, FirstIn
<1>5. Sum(a, s) = a[First(s)] + Sum(a, s \ {First(s)})
  BY <1>3, SumFirst
<1> QED
  BY <1>4, <1>5

LEMMA SumNat ==
  ASSUME NEW a, NEW S, IsFiniteSet(S), \A x \in S : a[x] \in Nat
  PROVE  Sum(a, S) \in Nat
<1> DEFINE Bad == {s \in SUBSET S : Sum(a, s) \notin Nat}
<1>1. SUFFICES ASSUME Bad # {} PROVE FALSE
  OBVIOUS
<1>2. PICK s \in Bad : \A x \in s : s \ {x} \notin Bad
  BY <1>1, LeastSet
<1>3. s # {} /\ IsFiniteSet(s)
  <2>1. s # {}
    BY SumEmpty
  <2>2. IsFiniteSet(s)
    BY FS_Subset
  <2> QED
    BY <2>1, <2>2
<1>4. First(s) \in s /\ a[First(s)] \in Nat /\ Sum(a, s \ {First(s)}) \in Nat
  BY <1>2, <1>3, FirstIn
<1>5. Sum(a, s) = a[First(s)] + Sum(a, s \ {First(s)})
  BY <1>3, SumFirst
<1> QED
  BY <1>4, <1>5

(* The order does not matter: any index can be taken first. *)
LEMMA SumRemove ==
  ASSUME NEW a, NEW S, IsFiniteSet(S), \A y \in S : a[y] \in Int, NEW x \in S
  PROVE  Sum(a, S) = a[x] + Sum(a, S \ {x})
<1> DEFINE Bad == {s \in SUBSET S : \E y \in s : Sum(a, s) # a[y] + Sum(a, s \ {y})}
<1>1. SUFFICES ASSUME Bad # {} PROVE FALSE
  BY Zenon
<1>2. PICK s \in Bad : \A y \in s : s \ {y} \notin Bad
  BY <1>1, LeastSet
<1>3. PICK y \in s : Sum(a, s) # a[y] + Sum(a, s \ {y})
  BY <1>2
<1> DEFINE z == First(s)
<1>4. s \in SUBSET S /\ IsFiniteSet(s) /\ z \in s
  BY <1>2, <1>3, FS_Subset, FirstIn
<1>5. Sum(a, s) = a[z] + Sum(a, s \ {z})
  BY <1>4, SumFirst
<1>6. y # z
  BY <1>3, <1>5
<1> HIDE DEF z
<1>7. /\ Sum(a, s \ {z}) = a[y] + Sum(a, (s \ {z}) \ {y})
      /\ Sum(a, s \ {y}) = a[z] + Sum(a, (s \ {y}) \ {z})
  BY <1>2, <1>4, <1>6
<1>8. (s \ {z}) \ {y} = (s \ {y}) \ {z}
  OBVIOUS
<1> DEFINE r == Sum(a, (s \ {y}) \ {z})
<1>9. r \in Int /\ a[y] \in Int /\ a[z] \in Int
  <2>1. IsFiniteSet((s \ {y}) \ {z}) /\ (s \ {y}) \ {z} \subseteq S
    BY <1>4, FS_Subset
  <2> QED
    BY <1>4, <2>1, SumInt
<1> HIDE DEF r
<1>10. Sum(a, s) = a[z] + (a[y] + r) /\ Sum(a, s \ {y}) = a[z] + r
  BY <1>5, <1>7, <1>8 DEF r
<1> QED
  BY <1>3, <1>9, <1>10

(* A sum grows with its terms, and is no less than any of them. *)
LEMMA SumMonotone ==
  ASSUME NEW a, NEW b, NEW S, IsFiniteSet(S),
         \A x \in S : a[x] \in Int /\ b[x] \in Int /\ a[x] <= b[x]
  PROVE  Sum(a, S) <= Sum(b, S)
<1> DEFINE Bad == {s \in SUBSET S : ~(Sum(a, s) <= Sum(b, s))}
<1>1. SUFFICES ASSUME Bad # {} PROVE FALSE
  BY Zenon
<1>2. PICK s \in Bad : \A x \in s : s \ {x} \notin Bad
  BY <1>1, LeastSet
<1>3. s # {} /\ IsFiniteSet(s)
  <2>1. s # {}
    <3>1. Sum(a, {}) = 0 /\ Sum(b, {}) = 0
      BY SumEmpty
    <3>2. {} \notin Bad
      BY <3>1
    <3> QED
      BY <3>2
  <2>2. IsFiniteSet(s)
    BY FS_Subset
  <2> QED
    BY <2>1, <2>2
<1>4. PICK x \in s : TRUE
  BY <1>3
<1>5. Sum(a, s \ {x}) <= Sum(b, s \ {x})
  BY <1>2, <1>4
<1>6. Sum(a, s) = a[x] + Sum(a, s \ {x}) /\ Sum(b, s) = b[x] + Sum(b, s \ {x})
  BY <1>3, SumRemove
<1>7. Sum(a, s \ {x}) \in Int /\ Sum(b, s \ {x}) \in Int
  <2>1. IsFiniteSet(s \ {x})
    BY <1>3, FS_Subset
  <2> QED
    BY <2>1, SumInt
<1>8. ~(Sum(a, s) <= Sum(b, s))
  BY <1>2
<1>9. a[x] \in Int /\ b[x] \in Int /\ a[x] <= b[x]
  BY <1>2, <1>4
<1> QED
  BY <1>5, <1>6, <1>7, <1>8, <1>9

LEMMA SumAtLeast ==
  ASSUME NEW a, NEW S, IsFiniteSet(S), \A y \in S : a[y] \in Nat, NEW x \in S
  PROVE  a[x] <= Sum(a, S)
<1>1. Sum(a, S) = a[x] + Sum(a, S \ {x})
  BY SumRemove
<1>2. Sum(a, S \ {x}) \in Nat
  <2>1. IsFiniteSet(S \ {x})
    BY FS_Subset
  <2> QED
    BY <2>1, SumNat
<1> QED
  BY <1>1, <1>2

(* If one term grows, so does the sum. *)
LEMMA SumGrows ==
  ASSUME NEW a, NEW b, NEW S, IsFiniteSet(S),
         \A y \in S : a[y] \in Int /\ b[y] \in Int /\ a[y] <= b[y],
         NEW x \in S, a[x] < b[x]
  PROVE  Sum(a, S) < Sum(b, S)
<1>1. IsFiniteSet(S \ {x})
  BY FS_Subset
<1>2. Sum(a, S) = a[x] + Sum(a, S \ {x}) /\ Sum(b, S) = b[x] + Sum(b, S \ {x})
  BY SumRemove
<1>3. Sum(a, S \ {x}) <= Sum(b, S \ {x})
  BY <1>1, SumMonotone
<1>4. Sum(a, S \ {x}) \in Int /\ Sum(b, S \ {x}) \in Int
  BY <1>1, SumInt
<1> QED
  BY <1>2, <1>3, <1>4

(* A sum of n terms is at most n times the largest of them. *)
LEMMA SumWithin ==
  ASSUME NEW a, NEW S, IsFiniteSet(S), NEW c \in Nat, \A x \in S : a[x] \in -c .. c
  PROVE  /\ Sum(a, S) \in Int /\ Cardinality(S) \in Nat
         /\ Sum(a, S) <= c * Cardinality(S) /\ -(c * Cardinality(S)) <= Sum(a, S)
<1> DEFINE Within(s) == Sum(a, s) <= c * Cardinality(s) /\ -(c * Cardinality(s)) <= Sum(a, s)
           Bad == {s \in SUBSET S : ~Within(s)}
<1>1. Sum(a, S) \in Int /\ Cardinality(S) \in Nat
  <2>1. \A x \in S : a[x] \in Int
    OBVIOUS
  <2> QED
    BY <2>1, SumInt, FS_CardinalityType
<1>2. SUFFICES ASSUME Bad # {} PROVE FALSE
  BY <1>1, Zenon
<1>3. PICK s \in Bad : \A x \in s : s \ {x} \notin Bad
  BY <1>2, LeastSet
<1>4. IsFiniteSet(s) /\ s \in SUBSET S
  BY <1>3, FS_Subset
<1>5. s # {}
  <2>1. Sum(a, {}) = 0 /\ Cardinality({}) = 0
    BY SumEmpty, FS_EmptySet
  <2>2. Within({})
    BY <2>1
  <2> QED
    BY <2>2
<1>6. PICK x \in s : TRUE
  BY <1>5
<1> DEFINE n == Cardinality(s \ {x})
           r == Sum(a, s \ {x})
<1>7. /\ n \in Nat /\ Cardinality(s) = n + 1 /\ IsFiniteSet(s \ {x})
  <2>1. /\ IsFiniteSet(s \ {x}) /\ n = Cardinality(s) - 1
        /\ Cardinality(s) \in Nat /\ n \in Nat
    BY <1>4, <1>6, Removed
  <2> HIDE DEF n
  <2> QED
    BY <2>1
<1>8. /\ Sum(a, s) = a[x] + r /\ r \in Int /\ a[x] \in -c .. c
  <2>1. \A y \in s : a[y] \in Int
    BY <1>4
  <2> QED
    BY <1>4, <1>6, <1>7, <2>1, SumRemove, SumInt
<1>9. r <= c * n /\ -(c * n) <= r
  BY <1>3, <1>4, <1>6
<1>10. ~Within(s)
  BY <1>3
<1> HIDE DEF n, r
<1>11. c * (n + 1) = c * n + c /\ c * n \in Nat
  BY <1>7
<1> QED
  BY <1>7, <1>8, <1>9, <1>10, <1>11

(* Indices that add nothing may be left out. *)
LEMMA SumOfSome ==
  ASSUME NEW a, NEW S, IsFiniteSet(S), \A x \in S : a[x] \in Int,
         NEW T \in SUBSET S, \A x \in S \ T : a[x] = 0
  PROVE  Sum(a, S) = Sum(a, T)
<1> DEFINE Bad == {s \in SUBSET S : Sum(a, s) # Sum(a, s \cap T)}
<1>1. SUFFICES ASSUME Bad # {} PROVE FALSE
  <2>1. S \notin Bad /\ S \cap T = T
    BY <1>1
  <2> QED
    BY <2>1
<1>2. PICK s \in Bad : \A x \in s : s \ {x} \notin Bad
  BY <1>1, LeastSet
<1>3. s # {} /\ IsFiniteSet(s)
  BY SumEmpty, FS_Subset
<1>4. PICK x \in s : TRUE
  BY <1>3
<1>5. Sum(a, s) = a[x] + Sum(a, s \ {x})
  BY <1>3, SumRemove
<1>6. Sum(a, s \ {x}) = Sum(a, (s \ {x}) \cap T)
  BY <1>2
<1>7. IsFiniteSet(s \ {x}) /\ IsFiniteSet(s \cap T) /\ Sum(a, s \ {x}) \in Int
  <2>1. IsFiniteSet(s \ {x}) /\ IsFiniteSet(s \cap T)
    BY <1>3, FS_Subset
  <2> QED
    BY <2>1, SumInt
<1>8. CASE x \in T
  <2>1. (s \ {x}) \cap T = (s \cap T) \ {x} /\ x \in s \cap T
    BY <1>8
  <2>2. Sum(a, s \cap T) = a[x] + Sum(a, (s \cap T) \ {x})
    BY <1>7, <2>1, SumRemove
  <2> QED
    BY <1>2, <1>5, <1>6, <2>1, <2>2
<1>9. CASE x \notin T
  <2>1. (s \ {x}) \cap T = s \cap T /\ a[x] = 0
    BY <1>9
  <2> QED
    BY <1>2, <1>5, <1>6, <1>7, <2>1
<1> QED
  BY <1>8, <1>9

(* Neither do names: b has the same terms under other indices. *)
Renamed(a, S, b, U, f) ==
  /\ IsFiniteSet(S) /\ IsFiniteSet(U) /\ f \in Bijection(S, U)
  /\ \A x \in S : a[x] \in Int /\ b[f[x]] = a[x]

LEMMA SumRenamed ==
  ASSUME NEW a, NEW S, NEW b, NEW U, NEW f, Renamed(a, S, b, U, f)
  PROVE  Sum(a, S) = Sum(b, U)
<1> DEFINE im(s) == {f[x] : x \in s}
           Bad == {s \in SUBSET S : Sum(a, s) # Sum(b, im(s))}
<1> USE DEF Renamed
<1>a. /\ \A x \in S : f[x] \in U
      /\ \A x, y \in S : f[x] = f[y] => x = y
      /\ \A u \in U : \E x \in S : f[x] = u
  BY DEF Bijection, Injection, IsInjective, Surjection
<1>b. \A u \in U : b[u] \in Int
  BY <1>a
<1>1. SUFFICES ASSUME Bad # {} PROVE FALSE
  <2>1. im(S) = U
    BY <1>a
  <2>2. S \notin Bad
    BY <1>1
  <2> QED
    BY <2>1, <2>2
<1>2. PICK s \in Bad : \A x \in s : s \ {x} \notin Bad
  BY <1>1, LeastSet
<1>3. IsFiniteSet(s) /\ s \in SUBSET S /\ Sum(a, s) # Sum(b, im(s))
  BY FS_Subset
<1>4. s # {}
  <2>1. im({}) = {}
    OBVIOUS
  <2> QED
    BY <1>3, <2>1, SumEmpty
<1>5. PICK x \in s : TRUE
  BY <1>4
<1>6. Sum(a, s) = a[x] + Sum(a, s \ {x})
  BY <1>3, SumRemove
<1>7. Sum(a, s \ {x}) = Sum(b, im(s \ {x}))
  BY <1>2, <1>3
<1>8. im(s \ {x}) = im(s) \ {f[x]} /\ f[x] \in im(s) /\ im(s) \subseteq U
  BY <1>3, <1>a
<1> HIDE DEF im
<1>9. Sum(b, im(s)) = b[f[x]] + Sum(b, im(s) \ {f[x]})
  <2>1. IsFiniteSet(im(s)) /\ \A u \in im(s) : b[u] \in Int
    BY <1>8, <1>b, FS_Subset
  <2> QED
    BY <1>8, <2>1, SumRemove
<1> QED
  BY <1>3, <1>6, <1>7, <1>8, <1>9

=============================================================================
