---------------------------- MODULE SumTheorems ----------------------------
(***************************************************************************)
(* What the proofs need of sums over a finite set (SumFunction of the      *)
(* community modules): how a sum changes when its function does, and what  *)
(* bounds it.  The induction principles are stated over sets, a property   *)
(* being the set of what has it.                                           *)
(***************************************************************************)
EXTENDS Integers, FiniteSets, Functions, FiniteSetTheorems, TLAPS

(* Induction *)

\* A finite set of naturals that holds all below each of its members has a last
\* one.
LEMMA LastOf ==
  ASSUME NEW S \in SUBSET Nat, IsFiniteSet(S), 0 \in S,
         \A l \in S : 0..l \subseteq S
  PROVE  \E l \in S : l + 1 \notin S
<1> DEFINE k == Cardinality(S)
<1>1. k \in Nat BY FS_CardinalityType
<1>2. ASSUME NEW l \in S PROVE l + 1 <= k
  <2>1. 0..l \in SUBSET S OBVIOUS
  <2>2. Cardinality(0..l) <= k BY <2>1, FS_Subset
  <2>3. l \in Nat /\ l \in Int /\ 0 \in Int OBVIOUS
  <2>4. Cardinality(0..l) = l + 1 BY <2>3, FS_Interval
  <2> QED BY <2>2, <2>4
<1> HIDE DEF k
<1>3. S \in SUBSET (0..(k - 1)) BY <1>1, <1>2
<1>4. IsFiniteSet(0..(k - 1)) /\ Cardinality(0..(k - 1)) = k
  <2>1. 0 \in Int /\ k - 1 \in Int BY <1>1
  <2>2. k >= 1 BY <1>1, <1>2
  <2> QED BY <1>1, <2>1, <2>2, FS_Interval
<1>5. S = 0..(k - 1) BY <1>3, <1>4, FS_Subset DEF k
<1>6. k >= 1 BY <1>1, <1>2
<1>7. k - 1 \in S /\ (k - 1) + 1 \notin S BY <1>1, <1>5, <1>6
<1> QED BY <1>7

\* Induction on the natural numbers.
LEMMA AllNaturals ==
  ASSUME NEW S \in SUBSET Nat, 0 \in S, \A n \in S : n + 1 \in S
  PROVE  \A n \in Nat : n \in S
<1> SUFFICES ASSUME NEW m \in Nat, m \notin S PROVE FALSE
  OBVIOUS
<1> DEFINE T == {l \in Nat : 0..l \subseteq S}
<1>1. T \in SUBSET Nat /\ 0 \in T OBVIOUS
<1>2. \A l \in T : l <= m OBVIOUS
<1>3. IsFiniteSet(T) BY <1>1, <1>2, FS_BoundedSetOfNaturals
<1>4. \A l \in T : 0..l \subseteq T OBVIOUS
<1>5. PICK l \in T : l + 1 \notin T
  <2> HIDE DEF T
  <2> QED BY <1>1, <1>3, <1>4, LastOf
<1>6. l \in S BY <1>5
<1>7. 0..(l + 1) \subseteq S
  <2>1. \A i \in 0..(l + 1) : i \in 0..l \/ i = l + 1 BY <1>5
  <2> QED BY <1>5, <1>6, <2>1
<1> QED BY <1>5, <1>7

\* A set and an element more.
LEMMA AddOne ==
  ASSUME NEW s, IsFiniteSet(s), NEW x \in s
  PROVE  /\ IsFiniteSet(s \ {x}) /\ Cardinality(s) \in Nat /\ Cardinality(s) > 0
         /\ Cardinality(s \ {x}) = Cardinality(s) - 1
<1>1. Cardinality(s) \in Nat /\ Cardinality(s) # 0
  BY FS_CardinalityType, FS_EmptySet
<1>2. IsFiniteSet(s \ {x}) /\ Cardinality(s \ {x}) = Cardinality(s) - 1
  BY FS_RemoveElement
<1> QED BY <1>1, <1>2

\* Induction on the subsets of a finite set.
LEMMA AllSubsets ==
  ASSUME NEW D, IsFiniteSet(D), NEW P, {} \in P,
         \A s \in SUBSET D, x \in D : s \in P /\ x \notin s => s \cup {x} \in P
  PROVE  \A s \in SUBSET D : s \in P
<1> DEFINE N == {n \in Nat : \A s \in SUBSET D : Cardinality(s) = n => s \in P}
<1>0. \A s \in SUBSET D : IsFiniteSet(s) /\ Cardinality(s) \in Nat
  BY FS_Subset, FS_CardinalityType
<1>1. 0 \in N
  <2>1. \A s \in SUBSET D : Cardinality(s) = 0 => s = {} BY <1>0, FS_EmptySet
  <2> QED BY <2>1
<1>2. ASSUME NEW n \in N PROVE n + 1 \in N
  <2>1. ASSUME NEW s \in SUBSET D, Cardinality(s) = n + 1 PROVE s \in P
    <3>1. s # {} BY <2>1, FS_EmptySet
    <3>2. PICK x \in s : TRUE BY <3>1
    <3>3. Cardinality(s \ {x}) = n BY <1>0, <2>1, AddOne
    <3>4. s \ {x} \in P BY <1>2, <3>3
    <3>5. (s \ {x}) \cup {x} = s OBVIOUS
    <3> QED BY <3>4, <3>5
  <2> QED BY <2>1
<1>3. \A n \in Nat : n \in N
  <2>1. N \in SUBSET Nat OBVIOUS
  <2> HIDE DEF N
  <2> QED BY <1>1, <1>2, <2>1, AllNaturals
<1> QED BY <1>0, <1>3

-----------------------------------------------------------------------------
(* The sum is well defined *)

First(s) == CHOOSE x \in s : TRUE

\* The function by which SumFunction computes.
Adder(f, D) ==
  CHOOSE g : g = [s \in SUBSET D |->
    IF s = {} THEN 0 ELSE LET x == First(s) IN f[x] + g[s \ {x}]]

LEMMA Unfolded == \A f : SumFunction(f) = Adder(f, DOMAIN f)[DOMAIN f]
BY DEF SumFunction, SumFunctionOnSet, FoldFunctionOnSet, MapThenFoldSet, Adder, First

LEMMA FirstIn == \A s : s # {} => First(s) \in s
BY DEF First

\* g adds up f over the sets of at most n elements of D.
AddsUpTo(g, f, D, n) ==
  /\ g \in [{s \in SUBSET D : Cardinality(s) <= n} -> Int]
  /\ \A s \in SUBSET D : Cardinality(s) <= n =>
       g[s] = IF s = {} THEN 0 ELSE f[First(s)] + g[s \ {First(s)}]

LEMMA AdderOf ==
  ASSUME NEW D, IsFiniteSet(D), NEW f \in [D -> Int], NEW n \in Nat
  PROVE  \E g : AddsUpTo(g, f, D, n)
<1> DEFINE Upto(m) == {s \in SUBSET D : Cardinality(s) <= m}
           N == {m \in Nat : \E g : AddsUpTo(g, f, D, m)}
<1>0. \A s \in SUBSET D : IsFiniteSet(s) /\ Cardinality(s) \in Nat
  BY FS_Subset, FS_CardinalityType
<1>1. 0 \in N
  <2>1. \A s \in SUBSET D : Cardinality(s) <= 0 => s = {} BY <1>0, FS_EmptySet
  <2> DEFINE g == [s \in Upto(0) |-> 0]
  <2>2. AddsUpTo(g, f, D, 0) BY <2>1 DEF AddsUpTo
  <2> QED BY <2>2
<1>2. ASSUME NEW m \in N PROVE m + 1 \in N
  <2>1. PICK g : AddsUpTo(g, f, D, m) BY <1>2
  <2> DEFINE V(s) == IF s = {} THEN 0 ELSE f[First(s)] + g[s \ {First(s)}]
             h == [s \in Upto(m + 1) |-> V(s)]
  <2>2. ASSUME NEW s \in Upto(m + 1), s # {}
        PROVE  First(s) \in D /\ s \ {First(s)} \in Upto(m) /\ s \ {First(s)} \in Upto(m + 1)
    <3>1. First(s) \in s BY <2>2, FirstIn
    <3>2. Cardinality(s \ {First(s)}) = Cardinality(s) - 1 BY <1>0, <3>1, AddOne
    <3> QED BY <1>0, <3>1, <3>2
  <2>3. \A s \in Upto(m + 1) : V(s) \in Int
    BY <2>1, <2>2 DEF AddsUpTo
  <2>4. h \in [Upto(m + 1) -> Int] BY <2>3
  <2>5. ASSUME NEW s \in Upto(m) PROVE s \in Upto(m + 1) /\ h[s] = g[s]
    <3>1. s \in Upto(m + 1) BY <1>0
    <3> QED BY <2>1, <3>1 DEF AddsUpTo
  <2>6. ASSUME NEW s \in Upto(m + 1)
        PROVE  h[s] = IF s = {} THEN 0 ELSE f[First(s)] + h[s \ {First(s)}]
    <3>1. CASE s = {} BY <3>1
    <3>2. CASE s # {}
      <4>1. h[s \ {First(s)}] = g[s \ {First(s)}] BY <2>2, <2>5, <3>2
      <4> QED BY <3>2, <4>1
    <3> QED BY <3>1, <3>2
  <2>7. AddsUpTo(h, f, D, m + 1)
    <3> HIDE DEF h
    <3> QED BY <2>4, <2>6 DEF AddsUpTo
  <2> QED BY <2>7
<1>3. N \in SUBSET Nat OBVIOUS
<1> HIDE DEF N
<1>4. n \in N BY <1>1, <1>2, <1>3, AllNaturals
<1> QED BY <1>4 DEF N

\* g adds up f over the subsets of D.
Adds(g, f, D) ==
  /\ DOMAIN g = SUBSET D
  /\ \A s \in SUBSET D : g[s] = IF s = {} THEN 0 ELSE f[First(s)] + g[s \ {First(s)}]

LEMMA AdderAdds ==
  ASSUME NEW D, IsFiniteSet(D), NEW f \in [D -> Int]
  PROVE  Adds(Adder(f, D), f, D)
<1> DEFINE n == Cardinality(D)
<1>1. n \in Nat BY FS_CardinalityType
<1>2. \A s \in SUBSET D : Cardinality(s) <= n BY FS_Subset
<1>3. PICK g : AddsUpTo(g, f, D, n) BY <1>1, AdderOf
<1>4. {s \in SUBSET D : Cardinality(s) <= n} = SUBSET D BY <1>2
<1>5. g \in [SUBSET D -> Int]
  BY <1>3, <1>4 DEF AddsUpTo
<1>6. g = [s \in SUBSET D |->
             IF s = {} THEN 0 ELSE LET x == First(s) IN f[x] + g[s \ {x}]]
  <2>1. \A s \in SUBSET D :
          g[s] = IF s = {} THEN 0 ELSE f[First(s)] + g[s \ {First(s)}]
    BY <1>2, <1>3 DEF AddsUpTo
  <2> QED BY <1>5, <2>1
<1>7. Adder(f, D) = [s \in SUBSET D |->
        IF s = {} THEN 0 ELSE LET x == First(s) IN f[x] + Adder(f, D)[s \ {x}]]
  BY <1>6 DEF Adder
<1> QED BY <1>7 DEF Adds

LEMMA AddsType ==
  ASSUME NEW D, IsFiniteSet(D), NEW f \in [D -> Int], NEW g, Adds(g, f, D)
  PROVE  \A s \in SUBSET D : g[s] \in Int
<1> DEFINE N == {m \in Nat : \A s \in SUBSET D : Cardinality(s) = m => g[s] \in Int}
<1>0. \A s \in SUBSET D : IsFiniteSet(s) /\ Cardinality(s) \in Nat
  BY FS_Subset, FS_CardinalityType
<1>1. 0 \in N
  <2>1. \A s \in SUBSET D : Cardinality(s) = 0 => s = {} BY <1>0, FS_EmptySet
  <2>2. g[{}] = 0 BY DEF Adds
  <2> QED BY <2>1, <2>2
<1>2. ASSUME NEW m \in N PROVE m + 1 \in N
  <2>1. ASSUME NEW s \in SUBSET D, Cardinality(s) = m + 1 PROVE g[s] \in Int
    <3>1. s # {} BY <2>1, FS_EmptySet
    <3>2. First(s) \in s /\ First(s) \in D BY <3>1, FirstIn
    <3>3. Cardinality(s \ {First(s)}) = m BY <1>0, <2>1, <3>2, AddOne
    <3>4. g[s \ {First(s)}] \in Int BY <1>2, <3>3
    <3>5. g[s] = f[First(s)] + g[s \ {First(s)}] BY <3>1 DEF Adds
    <3>6. f[First(s)] \in Int BY <3>2
    <3> QED BY <3>4, <3>5, <3>6
  <2> QED BY <2>1
<1>3. N \in SUBSET Nat OBVIOUS
<1>4. \A m \in Nat : m \in N
  <2> HIDE DEF N
  <2> QED BY <1>1, <1>2, <1>3, AllNaturals
<1> QED BY <1>0, <1>4

LEMMA Swapped == \A a, b, c \in Int : a + (b + c) = b + (a + c)
OBVIOUS

\* The order in which the members of s are added up does not matter.
LEMMA AnyOrder ==
  ASSUME NEW D, IsFiniteSet(D), NEW f \in [D -> Int], NEW g, Adds(g, f, D)
  PROVE  \A s \in SUBSET D, y \in D : y \in s => g[s] = f[y] + g[s \ {y}]
<1> DEFINE Any(s) == \A y \in s : g[s] = f[y] + g[s \ {y}]
           N == {m \in Nat : \A s \in SUBSET D : Cardinality(s) = m => Any(s)}
<1>0. \A s \in SUBSET D : IsFiniteSet(s) /\ Cardinality(s) \in Nat
  BY FS_Subset, FS_CardinalityType
<1>1. 0 \in N
  <2>1. \A s \in SUBSET D : Cardinality(s) = 0 => s = {} BY <1>0, FS_EmptySet
  <2> QED BY <2>1
<1>2. ASSUME NEW m \in N PROVE m + 1 \in N
  <2>1. ASSUME NEW s \in SUBSET D, Cardinality(s) = m + 1, NEW y \in s
        PROVE  g[s] = f[y] + g[s \ {y}]
    <3> DEFINE x == First(s)
    <3>1. x \in s BY FirstIn
    <3>2. g[s] = f[x] + g[s \ {x}] BY DEF Adds
    <3> HIDE DEF x
    <3>3. CASE y = x BY <3>2, <3>3
    <3>4. CASE y # x
      <4>1. Cardinality(s \ {x}) = m /\ Cardinality(s \ {y}) = m
        BY <1>0, <2>1, <3>1, AddOne
      <4>2. s \ {x} \in SUBSET D /\ s \ {y} \in SUBSET D OBVIOUS
      <4>3. y \in s \ {x} /\ x \in s \ {y} BY <3>1, <3>4
      <4>4. g[s \ {x}] = f[y] + g[(s \ {x}) \ {y}] BY <1>2, <4>1, <4>2, <4>3
      <4>5. g[s \ {y}] = f[x] + g[(s \ {y}) \ {x}] BY <1>2, <4>1, <4>2, <4>3
      <4>6. (s \ {x}) \ {y} = (s \ {y}) \ {x} /\ (s \ {y}) \ {x} \in SUBSET D OBVIOUS
      <4> DEFINE c == g[(s \ {y}) \ {x}]
      <4>7. f[x] \in Int /\ f[y] \in Int /\ c \in Int
        BY <3>1, <4>6, AddsType
      <4>8. g[s \ {x}] = f[y] + c /\ g[s \ {y}] = f[x] + c BY <4>4, <4>5, <4>6
      <4> HIDE DEF c
      <4>9. f[x] + (f[y] + c) = f[y] + (f[x] + c) BY <4>7, Swapped
      <4> QED BY <3>2, <4>8, <4>9
    <3> QED BY <3>3, <3>4
  <2> QED BY <2>1
<1>3. N \in SUBSET Nat OBVIOUS
<1>4. \A m \in Nat : m \in N
  <2> HIDE DEF N
  <2> QED BY <1>1, <1>2, <1>3, AllNaturals
<1> QED BY <1>0, <1>4

\* A sum over D is reached by adding one element after the other to nothing.
LEMMA PartialSums ==
  ASSUME NEW D, IsFiniteSet(D), NEW f \in [D -> Int]
  PROVE  \E g \in [SUBSET D -> Int] :
           /\ g[{}] = 0
           /\ \A s \in SUBSET D, x \in D : x \notin s => g[s \cup {x}] = g[s] + f[x]
           /\ SumFunction(f) = g[D]
<1> DEFINE g == Adder(f, D)
<1>1. Adds(g, f, D) BY AdderAdds
<1>2. SumFunction(f) = g[D] BY Unfolded
<1> HIDE DEF g
<1>3. g[{}] = 0 BY <1>1 DEF Adds
<1>4. \A s \in SUBSET D, y \in D : y \in s => g[s] = f[y] + g[s \ {y}]
  BY <1>1, AnyOrder
<1>5. \A s \in SUBSET D : g[s] \in Int BY <1>1, AddsType
<1> DEFINE h == [s \in SUBSET D |-> g[s]]
<1>6. ASSUME NEW s \in SUBSET D, NEW x \in D, x \notin s
      PROVE  h[s \cup {x}] = h[s] + f[x]
  <2>1. (s \cup {x}) \ {x} = s /\ x \in s \cup {x} /\ s \cup {x} \in SUBSET D BY <1>6
  <2>2. g[s \cup {x}] = f[x] + g[s] BY <1>4, <2>1
  <2>3. f[x] \in Int /\ g[s] \in Int BY <1>5
  <2> QED BY <2>1, <2>2, <2>3
<1>7. h \in [SUBSET D -> Int] BY <1>5
<1>8. h[{}] = 0 /\ SumFunction(f) = h[D] BY <1>2, <1>3
<1> HIDE DEF h
<1> QED BY <1>6, <1>7, <1>8

-----------------------------------------------------------------------------
(* Laws of sums *)

LEMMA SumType ==
  ASSUME NEW D, IsFiniteSet(D), NEW f \in [D -> Int]
  PROVE  SumFunction(f) \in Int
<1>1. PICK g \in [SUBSET D -> Int] : SumFunction(f) = g[D] BY PartialSums
<1> QED BY <1>1

\* Sums of functions that are related pointwise.
LEMMA SumAdd ==
  ASSUME NEW D, IsFiniteSet(D), NEW f \in [D -> Int], NEW g \in [D -> Int],
         NEW h \in [D -> Int], \A x \in D : h[x] = f[x] + g[x]
  PROVE  SumFunction(h) = SumFunction(f) + SumFunction(g)
<1>1. PICK F \in [SUBSET D -> Int] :
        /\ F[{}] = 0
        /\ \A s \in SUBSET D, x \in D : x \notin s => F[s \cup {x}] = F[s] + f[x]
        /\ SumFunction(f) = F[D]
  BY PartialSums
<1>2. PICK G \in [SUBSET D -> Int] :
        /\ G[{}] = 0
        /\ \A s \in SUBSET D, x \in D : x \notin s => G[s \cup {x}] = G[s] + g[x]
        /\ SumFunction(g) = G[D]
  BY PartialSums
<1>3. PICK H \in [SUBSET D -> Int] :
        /\ H[{}] = 0
        /\ \A s \in SUBSET D, x \in D : x \notin s => H[s \cup {x}] = H[s] + h[x]
        /\ SumFunction(h) = H[D]
  BY PartialSums
<1> DEFINE P == {s \in SUBSET D : H[s] = F[s] + G[s]}
<1>4. {} \in P BY <1>1, <1>2, <1>3
<1>5. ASSUME NEW s \in SUBSET D, NEW x \in D, s \in P, x \notin s
      PROVE  s \cup {x} \in P
  <2>1. /\ F[s \cup {x}] = F[s] + f[x] /\ G[s \cup {x}] = G[s] + g[x]
        /\ H[s \cup {x}] = H[s] + (f[x] + g[x])
    BY <1>1, <1>2, <1>3, <1>5
  <2>2. /\ f[x] \in Int /\ g[x] \in Int /\ F[s] \in Int /\ G[s] \in Int
        /\ H[s] = F[s] + G[s]
    BY <1>5
  <2> QED BY <2>1, <2>2
<1>6. D \in P
  <2> HIDE DEF P
  <2> QED BY <1>4, <1>5, AllSubsets
<1> QED BY <1>1, <1>2, <1>3, <1>6

LEMMA SumMono ==
  ASSUME NEW D, IsFiniteSet(D), NEW f \in [D -> Int], NEW g \in [D -> Int],
         \A x \in D : f[x] <= g[x]
  PROVE  SumFunction(f) <= SumFunction(g)
<1>1. PICK F \in [SUBSET D -> Int] :
        /\ F[{}] = 0
        /\ \A s \in SUBSET D, x \in D : x \notin s => F[s \cup {x}] = F[s] + f[x]
        /\ SumFunction(f) = F[D]
  BY PartialSums
<1>2. PICK G \in [SUBSET D -> Int] :
        /\ G[{}] = 0
        /\ \A s \in SUBSET D, x \in D : x \notin s => G[s \cup {x}] = G[s] + g[x]
        /\ SumFunction(g) = G[D]
  BY PartialSums
<1> DEFINE P == {s \in SUBSET D : F[s] <= G[s]}
<1>3. {} \in P BY <1>1, <1>2
<1>4. ASSUME NEW s \in SUBSET D, NEW x \in D, s \in P, x \notin s
      PROVE  s \cup {x} \in P
  <2>1. F[s \cup {x}] = F[s] + f[x] /\ G[s \cup {x}] = G[s] + g[x]
    BY <1>1, <1>2, <1>4
  <2>2. /\ f[x] \in Int /\ g[x] \in Int /\ F[s] \in Int /\ G[s] \in Int
        /\ F[s] <= G[s] /\ f[x] <= g[x]
    BY <1>4
  <2> QED BY <2>1, <2>2
<1>5. D \in P
  <2> HIDE DEF P
  <2> QED BY <1>3, <1>4, AllSubsets
<1> QED BY <1>1, <1>2, <1>5

\* Only the terms in E count when all others are zero.
LEMMA SumSupport ==
  ASSUME NEW D, IsFiniteSet(D), NEW E \in SUBSET D,
         NEW f \in [D -> Int], \A x \in D \ E : f[x] = 0,
         NEW e \in [E -> Int], \A x \in E : e[x] = f[x]
  PROVE  SumFunction(f) = SumFunction(e)
<1>0. IsFiniteSet(E) BY FS_Subset
<1>1. PICK F \in [SUBSET D -> Int] :
        /\ F[{}] = 0
        /\ \A s \in SUBSET D, x \in D : x \notin s => F[s \cup {x}] = F[s] + f[x]
        /\ SumFunction(f) = F[D]
  BY PartialSums
<1>2. PICK G \in [SUBSET E -> Int] :
        /\ G[{}] = 0
        /\ \A s \in SUBSET E, x \in E : x \notin s => G[s \cup {x}] = G[s] + e[x]
        /\ SumFunction(e) = G[E]
  BY <1>0, PartialSums
<1> DEFINE P == {s \in SUBSET D : F[s] = G[s \cap E]}
<1>4. {} \in P
  <2>1. {} \cap E = {} OBVIOUS
  <2> QED BY <1>1, <1>2, <2>1
<1>5. ASSUME NEW s \in SUBSET D, NEW x \in D, s \in P, x \notin s
      PROVE  s \cup {x} \in P
  <2>1. F[s \cup {x}] = F[s] + f[x] /\ F[s] = G[s \cap E] /\ f[x] \in Int /\ F[s] \in Int
    BY <1>1, <1>5
  <2>2. CASE x \in E
    <3>1. (s \cup {x}) \cap E = (s \cap E) \cup {x} BY <2>2
    <3>2. G[(s \cap E) \cup {x}] = G[s \cap E] + e[x] BY <1>2, <1>5, <2>2
    <3> QED BY <2>1, <2>2, <3>1, <3>2
  <2>3. CASE x \notin E
    <3>1. (s \cup {x}) \cap E = s \cap E BY <2>3
    <3>2. f[x] = 0 BY <2>3
    <3>3. F[s \cup {x}] = F[s] BY <2>1, <3>2
    <3>4. F[s \cup {x}] = G[(s \cup {x}) \cap E] BY <2>1, <3>1, <3>3
    <3> QED BY <3>4
  <2> QED BY <2>2, <2>3
<1>6. D \in P
  <2> HIDE DEF P
  <2> QED BY <1>4, <1>5, AllSubsets
<1>7. D \cap E = E OBVIOUS
<1> QED BY <1>1, <1>2, <1>6, <1>7

LEMMA SumOfOne ==
  ASSUME NEW d, NEW v \in Int
  PROVE  SumFunction([x \in {d} |-> v]) = v
<1> DEFINE f == [x \in {d} |-> v]
<1>1. f \in [{d} -> Int] /\ IsFiniteSet({d}) BY FS_Singleton
<1>2. PICK g \in [SUBSET {d} -> Int] :
        /\ g[{}] = 0
        /\ \A s \in SUBSET {d}, x \in {d} : x \notin s => g[s \cup {x}] = g[s] + f[x]
        /\ SumFunction(f) = g[{d}]
  BY <1>1, PartialSums
<1>3. {} \in SUBSET {d} /\ d \notin {} /\ {} \cup {d} = {d} OBVIOUS
<1>4. g[{d}] = 0 + f[d] BY <1>2, <1>3
<1> QED BY <1>2, <1>4

\* One term and zeros.
LEMMA SumSingle ==
  ASSUME NEW D, IsFiniteSet(D), NEW d \in D, NEW v \in Int
  PROVE  SumFunction([x \in D |-> IF x = d THEN v ELSE 0]) = v
<1> DEFINE f == [x \in D |-> IF x = d THEN v ELSE 0]
<1>1. f \in [D -> Int] /\ {d} \in SUBSET D /\ \A x \in D \ {d} : f[x] = 0 OBVIOUS
<1> DEFINE e == [x \in {d} |-> v]
<1>2. e \in [{d} -> Int] /\ \A x \in {d} : e[x] = f[x] OBVIOUS
<1>3. SumFunction(e) = v BY SumOfOne
<1> HIDE DEF f, e
<1>4. SumFunction(f) = SumFunction(e) BY <1>1, <1>2, SumSupport
<1>5. SumFunction(f) = v BY <1>3, <1>4
<1> QED BY <1>5 DEF f

LEMMA SumZero ==
  ASSUME NEW D, IsFiniteSet(D), NEW f \in [D -> Int], \A x \in D : f[x] = 0
  PROVE  SumFunction(f) = 0
<1>1. \A x \in D : f[x] = f[x] + f[x] OBVIOUS
<1>2. SumFunction(f) = SumFunction(f) + SumFunction(f) BY <1>1, SumAdd
<1> QED BY <1>2, SumType

\* A sum after one of its terms has been replaced.
LEMMA SumUpdate ==
  ASSUME NEW D, IsFiniteSet(D), NEW f \in [D -> Int], NEW d \in D, NEW v \in Int
  PROVE  SumFunction([f EXCEPT ![d] = v]) = SumFunction(f) + (v - f[d])
<1> DEFINE h == [f EXCEPT ![d] = v]
           e == [x \in D |-> IF x = d THEN v - f[d] ELSE 0]
<1>1. h \in [D -> Int] /\ e \in [D -> Int] /\ v - f[d] \in Int OBVIOUS
<1>2. \A x \in D : h[x] = f[x] + e[x] OBVIOUS
<1>3. SumFunction(e) = v - f[d] BY <1>1, SumSingle
<1> HIDE DEF h, e
<1>4. SumFunction(h) = SumFunction(f) + SumFunction(e) BY <1>1, <1>2, SumAdd
<1> QED BY <1>3, <1>4 DEF h

LEMMA SumNat ==
  ASSUME NEW D, IsFiniteSet(D), NEW f \in [D -> Nat]
  PROVE  SumFunction(f) \in Nat /\ \A d \in D : f[d] <= SumFunction(f)
<1>1. f \in [D -> Int] OBVIOUS
<1>2. SumFunction(f) \in Int BY <1>1, SumType
<1>3. SumFunction(f) >= 0
  <2> DEFINE z == [x \in D |-> 0]
  <2>1. z \in [D -> Int] /\ \A x \in D : z[x] = 0 /\ z[x] <= f[x] OBVIOUS
  <2> HIDE DEF z
  <2>2. SumFunction(z) = 0 BY <2>1, SumZero
  <2>3. SumFunction(z) <= SumFunction(f) BY <1>1, <2>1, SumMono
  <2> QED BY <1>2, <2>2, <2>3
<1>4. ASSUME NEW d \in D PROVE f[d] <= SumFunction(f)
  <2> DEFINE e == [x \in D |-> IF x = d THEN f[d] ELSE 0]
  <2>1. e \in [D -> Int] /\ \A x \in D : e[x] <= f[x] OBVIOUS
  <2>2. SumFunction(e) = f[d] BY SumSingle
  <2> HIDE DEF e
  <2>3. SumFunction(e) <= SumFunction(f) BY <1>1, <2>1, SumMono
  <2> QED BY <2>2, <2>3
<1> QED BY <1>2, <1>3, <1>4

LEMMA TimesMore == \A c, n \in Int : c * (n + 1) = c * n + c
OBVIOUS

\* A sum of equal terms.
LEMMA SumConst ==
  ASSUME NEW D, IsFiniteSet(D), NEW c \in Int
  PROVE  SumFunction([x \in D |-> c]) = c * Cardinality(D)
<1> DEFINE f == [x \in D |-> c]
<1>1. f \in [D -> Int] /\ \A x \in D : f[x] = c OBVIOUS
<1> HIDE DEF f
<1>2. PICK g \in [SUBSET D -> Int] :
        /\ g[{}] = 0
        /\ \A s \in SUBSET D, x \in D : x \notin s => g[s \cup {x}] = g[s] + f[x]
        /\ SumFunction(f) = g[D]
  BY <1>1, PartialSums
<1> DEFINE P == {s \in SUBSET D : g[s] = c * Cardinality(s)}
<1>3. {} \in P
  <2>1. Cardinality({}) = 0 /\ c * 0 = 0 BY FS_EmptySet
  <2> QED BY <1>2, <2>1
<1>4. ASSUME NEW s \in SUBSET D, NEW x \in D, s \in P, x \notin s
      PROVE  s \cup {x} \in P
  <2>1. IsFiniteSet(s) BY FS_Subset
  <2>2. Cardinality(s) \in Nat /\ Cardinality(s \cup {x}) = Cardinality(s) + 1
    BY <1>4, <2>1, FS_CardinalityType, FS_AddElement
  <2>3. g[s \cup {x}] = g[s] + c BY <1>1, <1>2, <1>4
  <2>4. c * (Cardinality(s) + 1) = c * Cardinality(s) + c BY <2>2, TimesMore
  <2> QED BY <1>4, <2>2, <2>3, <2>4
<1>5. D \in P
  <2> HIDE DEF P
  <2> QED BY <1>3, <1>4, AllSubsets
<1> QED BY <1>2, <1>5 DEF f

-----------------------------------------------------------------------------
(* Shares that are rounded down *)

LEMMA TimesSum == \A c, a, b \in Int : c * (a + b) = c * a + c * b
OBVIOUS

LEMMA DivLaw ==
  \A a, b \in Nat : b > 0 => /\ a \div b \in Nat
                             /\ b * (a \div b) <= a
                             /\ a <= b * (a \div b) + (b - 1)
OBVIOUS

LEMMA ProductType == \A a, b \in Int : a * b \in Int /\ (a \in Nat /\ b \in Nat => a * b \in Nat)
OBVIOUS

LEMMA CancelFactor == \A c, a, b \in Int : c > 0 /\ c * a <= c * b => a <= b
OBVIOUS

\* An amount that is shared out pro rata, each share rounded down: the shares do not
\* exceed it, and less than one unit for each of them is left over.
LEMMA Rounding ==
  ASSUME NEW D, IsFiniteSet(D), NEW w \in [D -> Nat], NEW H \in Nat, NEW R \in Nat,
         R = SumFunction(w), R > 0,
         NEW q \in [D -> Nat], \A x \in D : q[x] = (H * w[x]) \div R
  PROVE  /\ SumFunction(q) \in Nat /\ SumFunction(q) <= H
         /\ Cardinality(D) > 0 /\ H <= SumFunction(q) + (Cardinality(D) - 1)
<1>0. w \in [D -> Int] /\ q \in [D -> Int] OBVIOUS
<1>1. PICK W \in [SUBSET D -> Int] :
        /\ W[{}] = 0
        /\ \A s \in SUBSET D, x \in D : x \notin s => W[s \cup {x}] = W[s] + w[x]
        /\ SumFunction(w) = W[D]
  BY <1>0, PartialSums
<1>2. PICK Q \in [SUBSET D -> Int] :
        /\ Q[{}] = 0
        /\ \A s \in SUBSET D, x \in D : x \notin s => Q[s \cup {x}] = Q[s] + q[x]
        /\ SumFunction(q) = Q[D]
  BY <1>0, PartialSums
<1> DEFINE Share(c, a, b) == R * a <= H * b /\ H * b <= R * a + (R - 1) * c
           P == {s \in SUBSET D : Share(Cardinality(s), Q[s], W[s])}
<1>3. {} \in P
  <2>1. R * 0 = 0 /\ H * 0 = 0 /\ (R - 1) * 0 = 0 OBVIOUS
  <2>2. Cardinality({}) = 0 BY FS_EmptySet
  <2> QED BY <1>1, <1>2, <2>1, <2>2
<1>4. ASSUME NEW s \in SUBSET D, NEW x \in D, s \in P, x \notin s
      PROVE  s \cup {x} \in P
  <2> DEFINE a == Q[s]
             b == W[s]
             c == Cardinality(s)
             y == q[x]
             z == w[x]
  <2>1. IsFiniteSet(s) BY FS_Subset
  <2>2. c \in Nat /\ Cardinality(s \cup {x}) = c + 1
    BY <1>4, <2>1, FS_CardinalityType, FS_AddElement
  <2>3. Q[s \cup {x}] = a + y /\ W[s \cup {x}] = b + z BY <1>1, <1>2, <1>4
  <2>4. a \in Int /\ b \in Int /\ y \in Nat /\ z \in Nat OBVIOUS
  <2>5. Share(c, a, b) BY <1>4
  <2>6. R * y <= H * z /\ H * z <= R * y + (R - 1)
    <3>1. y = (H * z) \div R OBVIOUS
    <3> HIDE DEF y, z
    <3>2. H * z \in Nat BY <2>4, ProductType
    <3> QED BY <3>1, <3>2, DivLaw
  <2>7. Share(c + 1, a + y, b + z)
    <3> HIDE DEF a, b, c, y, z
    <3>1. R * (a + y) = R * a + R * y /\ H * (b + z) = H * b + H * z
      BY <2>4, TimesSum
    <3>2. (R - 1) * (c + 1) = (R - 1) * c + (R - 1) BY <2>2, TimesSum
    <3>3. /\ R * a \in Int /\ R * y \in Int /\ H * b \in Int /\ H * z \in Int
          /\ (R - 1) * c \in Int
      BY <2>2, <2>4, ProductType
    <3>4. R * (a + y) <= H * (b + z) BY <2>5, <2>6, <3>1, <3>3
    <3>5. H * (b + z) <= R * (a + y) + (R - 1) * (c + 1)
      BY <2>5, <2>6, <3>1, <3>2, <3>3
    <3> QED BY <3>4, <3>5
  <2> HIDE DEF a, b, c, y, z
  <2>8. Share(Cardinality(s \cup {x}), Q[s \cup {x}], W[s \cup {x}])
    BY <2>2, <2>3, <2>7
  <2> HIDE DEF Share
  <2> QED BY <2>8
<1>5. D \in P
  <2> HIDE DEF P
  <2> QED BY <1>3, <1>4, AllSubsets
<1> DEFINE n == Cardinality(D)
           u == SumFunction(q)
<1>6. u \in Nat /\ n \in Nat BY SumNat, FS_CardinalityType
<1>7. R * u <= H * R /\ H * R <= R * u + (R - 1) * n BY <1>1, <1>2, <1>5
<1> HIDE DEF u, n
<1>8. u <= H
  <2>1. H * R = R * H OBVIOUS
  <2> QED BY <1>6, <1>7, <2>1, CancelFactor
<1>9. n > 0
  <2>1. SUFFICES ASSUME n = 0 PROVE FALSE BY <1>6
  <2>2. D = {} BY <2>1, FS_EmptySet DEF n
  <2>3. SumFunction(w) = 0 BY <1>1, <2>2
  <2> QED BY <2>3
<1>10. H <= u + (n - 1)
  <2>1. SUFFICES ASSUME u + n <= H PROVE FALSE BY <1>6
  <2>2. H = (u + n) + (H - (u + n)) /\ H - (u + n) \in Nat BY <1>6, <2>1
  <2> DEFINE d == H - (u + n)
  <2>3. R * H = R * (u + n) + R * d BY <1>6, <2>2, TimesSum
  <2>4. R * (u + n) = R * u + R * n BY <1>6, TimesSum
  <2>5. R * d \in Nat BY <2>2, ProductType
  <2>6. (R - 1) * n = R * n - n BY <1>6
  <2>7. R * H = H * R /\ R * u \in Int /\ R * n \in Int BY <1>6, ProductType
  <2> HIDE DEF d
  <2> QED BY <1>6, <1>7, <1>9, <2>3, <2>4, <2>5, <2>6, <2>7
<1> QED BY <1>6, <1>8, <1>9, <1>10 DEF u, n
LEMMA SumTimes ==
  ASSUME NEW D, IsFiniteSet(D), NEW c \in Int, NEW f \in [D -> Int], NEW h \in [D -> Int],
         \A x \in D : h[x] = c * f[x]
  PROVE  SumFunction(h) = c * SumFunction(f)
<1>1. PICK F \in [SUBSET D -> Int] :
        /\ F[{}] = 0
        /\ \A s \in SUBSET D, x \in D : x \notin s => F[s \cup {x}] = F[s] + f[x]
        /\ SumFunction(f) = F[D]
  BY PartialSums
<1>2. PICK H \in [SUBSET D -> Int] :
        /\ H[{}] = 0
        /\ \A s \in SUBSET D, x \in D : x \notin s => H[s \cup {x}] = H[s] + h[x]
        /\ SumFunction(h) = H[D]
  BY PartialSums
<1> DEFINE P == {s \in SUBSET D : H[s] = c * F[s]}
<1>3. {} \in P
  <2>1. c * 0 = 0 OBVIOUS
  <2> QED BY <1>1, <1>2, <2>1
<1>4. ASSUME NEW s \in SUBSET D, NEW x \in D, s \in P, x \notin s
      PROVE  s \cup {x} \in P
  <2>1. F[s \cup {x}] = F[s] + f[x] /\ H[s \cup {x}] = c * F[s] + c * f[x]
    BY <1>1, <1>2, <1>4
  <2>2. f[x] \in Int /\ F[s] \in Int OBVIOUS
  <2>3. c * (F[s] + f[x]) = c * F[s] + c * f[x] BY <2>2, TimesSum
  <2> QED BY <2>1, <2>3
<1>5. D \in P
  <2> HIDE DEF P
  <2> QED BY <1>3, <1>4, AllSubsets
<1> QED BY <1>1, <1>2, <1>5

\* Everything that has an owner is counted once, with its owner.
LEMMA CountByOwner ==
  ASSUME NEW D, IsFiniteSet(D), NEW T, IsFiniteSet(T), NEW own \in [T -> D]
  PROVE  /\ [a \in D |-> Cardinality({t \in T : own[t] = a})] \in [D -> Nat]
         /\ SumFunction([a \in D |-> Cardinality({t \in T : own[t] = a})]) = Cardinality(T)
<1> DEFINE Of(s) == [a \in D |-> Cardinality({t \in s : own[t] = a})]
           P == {s \in SUBSET T : SumFunction(Of(s)) = Cardinality(s)}
<1>1. ASSUME NEW s \in SUBSET T PROVE Of(s) \in [D -> Nat] /\ IsFiniteSet(s)
  <2>1. IsFiniteSet(s) BY FS_Subset
  <2>2. \A a \in D : Cardinality({t \in s : own[t] = a}) \in Nat
    <3> SUFFICES ASSUME NEW a \in D PROVE Cardinality({t \in s : own[t] = a}) \in Nat
      OBVIOUS
    <3>1. {t \in s : own[t] = a} \in SUBSET s OBVIOUS
    <3> QED BY <2>1, <3>1, FS_Subset, FS_CardinalityType
  <2> QED BY <2>1, <2>2
<1>2. {} \in P
  <2>1. Of({}) \in [D -> Int] BY <1>1
  <2>2. \A a \in D : Of({})[a] = 0
    <3>1. \A a \in D : {t \in {} : own[t] = a} = {} OBVIOUS
    <3> QED BY <3>1, FS_EmptySet
  <2> HIDE DEF Of
  <2>3. SumFunction(Of({})) = 0 BY <2>1, <2>2, SumZero
  <2> QED BY <2>3, FS_EmptySet
<1>3. ASSUME NEW s \in SUBSET T, NEW x \in T, s \in P, x \notin s
      PROVE  s \cup {x} \in P
  <2> DEFINE d == own[x]  v == Of(s)[d] + 1  r == s \cup {x}
  <2>1. Of(s) \in [D -> Nat] /\ Of(r) \in [D -> Nat] /\ IsFiniteSet(s) BY <1>1
  <2>2. d \in D /\ v \in Int /\ v - Of(s)[d] = 1 /\ Of(s) \in [D -> Int]
    <3>1. d \in D OBVIOUS
    <3> HIDE DEF Of, d
    <3>2. Of(s)[d] \in Nat BY <2>1, <3>1
    <3> QED BY <2>1, <3>1, <3>2
  <2>3. \A a \in D : Of(r)[a] = IF a = d THEN v ELSE Of(s)[a]
    <3> SUFFICES ASSUME NEW a \in D PROVE Of(r)[a] = IF a = d THEN v ELSE Of(s)[a]
      OBVIOUS
    <3> DEFINE q == {t \in s : own[t] = a}
    <3>1. CASE a = d
      <4>1. {t \in r : own[t] = a} = q \cup {x} /\ x \notin q BY <1>3, <3>1
      <4>2. q \in SUBSET s OBVIOUS
      <4>3. IsFiniteSet(q) BY <2>1, <4>2, FS_Subset
      <4>4. Cardinality(q \cup {x}) = Cardinality(q) + 1 BY <4>1, <4>3, FS_AddElement
      <4> QED BY <3>1, <4>1, <4>4
    <3>2. CASE a # d
      <4>1. {t \in r : own[t] = a} = q BY <3>2
      <4> QED BY <3>2, <4>1
    <3> QED BY <3>1, <3>2
  <2> HIDE DEF Of
  <2>4. Of(r) = [Of(s) EXCEPT ![d] = v] BY <2>1, <2>2, <2>3
  <2> DEFINE p == Of(s)
  <2>5. p \in [D -> Int] /\ Of(r) = [p EXCEPT ![d] = v] /\ v - p[d] = 1 BY <2>2, <2>4
  <2> HIDE DEF v, d, p
  <2>6. SumFunction([p EXCEPT ![d] = v]) = SumFunction(p) + (v - p[d])
    <3>1. p \in [D -> Int] /\ d \in D /\ v \in Int BY <2>2, <2>5
    <3> QED BY <3>1, SumUpdate
  <2>7. Cardinality(r) = Cardinality(s) + 1 BY <1>3, <2>1, FS_AddElement
  <2>8. SumFunction(p) = Cardinality(s) BY <1>3 DEF p
  <2>9. SumFunction(Of(r)) = Cardinality(r) BY <2>5, <2>6, <2>7, <2>8
  <2> QED BY <2>9
<1>4. T \in P
  <2> HIDE DEF P
  <2> QED BY <1>2, <1>3, AllSubsets
<1> QED BY <1>1, <1>4

=============================================================================
