----------------------------- MODULE Totals_proofs -----------------------------
(***************************************************************************)
(* What totals do: they are natural numbers, they only depend on the       *)
(* weights of the elements, they change by the weight of an element that   *)
(* is added, removed or weighed anew, and they add up.                     *)
(***************************************************************************)
EXTENDS Totals, Integers, FiniteSetTheorems, TLAPS

\* A weight that is a natural number on a set.
IsWeight(w, S) == \A x \in S : w[x] \in Nat

\* The units of one element are as many as its weight.
LEMMA UnitsOfOne ==
  ASSUME NEW x, NEW n \in Nat
  PROVE  IsFiniteSet({x} \X (1 .. n)) /\ Cardinality({x} \X (1 .. n)) = n
<1>1. IsFiniteSet({x}) /\ Cardinality({x}) = 1
  BY FS_Singleton
<1>2. IsFiniteSet(1 .. n) /\ Cardinality(1 .. n) = n
  BY FS_Interval
<1>3. /\ IsFiniteSet({x} \X (1 .. n))
      /\ Cardinality({x} \X (1 .. n)) = Cardinality({x}) * Cardinality(1 .. n)
  BY <1>1, <1>2, FS_Product
<1> QED
  BY <1>1, <1>2, <1>3

\* The units of a finite set are finitely many.
LEMMA UnitsFinite ==
  ASSUME NEW S, IsFiniteSet(S), NEW w, IsWeight(w, S)
  PROVE  IsFiniteSet(Units(w, S))
<1> DEFINE F == [x \in S |-> {x} \X (1 .. w[x])]
           T == {{x} \X (1 .. w[x]) : x \in S}
<1>1. F \in Surjection(S, T)
  BY DEF Surjection
<1>2. IsFiniteSet(T)
  BY <1>1, FS_Surjection
<1>3. \A U \in T : IsFiniteSet(U)
  <2>1. ASSUME NEW x \in S PROVE IsFiniteSet({x} \X (1 .. w[x]))
    <3>1. w[x] \in Nat
      BY DEF IsWeight
    <3> QED
      BY <3>1, UnitsOfOne
  <2> QED
    BY <2>1
<1>4. IsFiniteSet(UNION T)
  <2> HIDE DEF T
  <2> QED
    BY <1>2, <1>3, FS_UNION
<1> QED
  BY <1>4 DEF Units

LEMMA TotalNat ==
  ASSUME NEW S, IsFiniteSet(S), NEW w, IsWeight(w, S)
  PROVE  Total(w, S) \in Nat
  BY UnitsFinite, FS_CardinalityType DEF Total

LEMMA TotalEmpty == ASSUME NEW w PROVE Total(w, {}) = 0
<1>1. Units(w, {}) = {}
  BY DEF Units
<1> QED
  BY <1>1, FS_EmptySet DEF Total

\* A total only looks at the weights of the elements of the set.
LEMMA TotalSame ==
  ASSUME NEW S, NEW v, NEW w, \A x \in S : v[x] = w[x]
  PROVE  Total(v, S) = Total(w, S)
<1>1. {{x} \X (1 .. v[x]) : x \in S} = {{x} \X (1 .. w[x]) : x \in S}
  OBVIOUS
<1> QED
  BY <1>1 DEF Total, Units

\* A new element adds its weight.
LEMMA TotalAdd ==
  ASSUME NEW S, IsFiniteSet(S), NEW x, x \notin S, NEW w, IsWeight(w, S \cup {x})
  PROVE  Total(w, S \cup {x}) = Total(w, S) + w[x]
<1> DEFINE A == Units(w, S)
           B == {x} \X (1 .. w[x])
<1>1. Units(w, S \cup {x}) = A \cup B
  BY DEF Units
<1>2. A \cap B = {}
  BY DEF Units
<1>3. w[x] \in Nat /\ IsWeight(w, S)
  BY DEF IsWeight
<1>4. IsFiniteSet(A)
  BY <1>3, UnitsFinite
<1>5. IsFiniteSet(B) /\ Cardinality(B) = w[x]
  BY <1>3, UnitsOfOne
<1>6. Cardinality(A) \in Nat
  BY <1>4, FS_CardinalityType
<1> HIDE DEF A, B
<1>7. Cardinality(A \cup B) = Cardinality(A) + Cardinality(B) - Cardinality(A \cap B)
  BY <1>4, <1>5, FS_Union
<1>8. Cardinality(A \cap B) = 0
  BY <1>2, FS_EmptySet
<1>9. Cardinality(A \cup B) = Cardinality(A) + w[x]
  BY <1>3, <1>5, <1>6, <1>7, <1>8
<1> QED
  BY <1>1, <1>9 DEF Total, A

\* The totals of two sets with nothing in common add up.
LEMMA TotalUnion ==
  ASSUME NEW S, IsFiniteSet(S), NEW T, IsFiniteSet(T), S \cap T = {},
         NEW w, IsWeight(w, S \cup T)
  PROVE  Total(w, S \cup T) = Total(w, S) + Total(w, T)
<1> DEFINE A == Units(w, S)
           B == Units(w, T)
<1>1. Units(w, S \cup T) = A \cup B
  BY DEF Units
<1>2. A \cap B = {}
  BY DEF Units
<1>3. IsWeight(w, S) /\ IsWeight(w, T)
  BY DEF IsWeight
<1>4. IsFiniteSet(A) /\ IsFiniteSet(B)
  BY <1>3, UnitsFinite
<1>5. Cardinality(A) \in Nat /\ Cardinality(B) \in Nat
  BY <1>4, FS_CardinalityType
<1> HIDE DEF A, B
<1>6. Cardinality(A \cup B) = Cardinality(A) + Cardinality(B) - Cardinality(A \cap B)
  BY <1>4, FS_Union
<1>7. Cardinality(A \cap B) = 0
  BY <1>2, FS_EmptySet
<1>8. Cardinality(A \cup B) = Cardinality(A) + Cardinality(B)
  BY <1>5, <1>6, <1>7
<1> QED
  BY <1>1, <1>8 DEF Total, A, B

\* An element that leaves takes its weight along.
LEMMA TotalRemove ==
  ASSUME NEW S, IsFiniteSet(S), NEW x \in S, NEW w, IsWeight(w, S)
  PROVE  Total(w, S) = Total(w, S \ {x}) + w[x]
<1>1. IsFiniteSet(S \ {x}) /\ x \notin S \ {x} /\ (S \ {x}) \cup {x} = S
  BY FS_RemoveElement
<1> QED
  BY <1>1, TotalAdd

\* The total changes by what the weight of one element changes by.
LEMMA TotalChange ==
  ASSUME NEW S, IsFiniteSet(S), NEW x \in S, NEW v, NEW w,
         IsWeight(v, S), IsWeight(w, S), \A y \in S : y # x => v[y] = w[y]
  PROVE  Total(v, S) = Total(w, S) - w[x] + v[x]
<1>1. Total(v, S) = Total(v, S \ {x}) + v[x]
  BY TotalRemove
<1>2. Total(w, S) = Total(w, S \ {x}) + w[x]
  BY TotalRemove
<1>3. Total(v, S \ {x}) = Total(w, S \ {x})
  BY TotalSame
<1>4. IsFiniteSet(S \ {x}) /\ IsWeight(w, S \ {x})
  BY FS_RemoveElement DEF IsWeight
<1>5. Total(w, S \ {x}) \in Nat
  BY <1>4, TotalNat
<1>6. v[x] \in Nat /\ w[x] \in Nat
  BY DEF IsWeight
<1> QED
  BY <1>1, <1>2, <1>3, <1>5, <1>6

LEMMA UnitOf ==
  ASSUME NEW S, NEW w, NEW u
  PROVE  u \in Units(w, S) <=> \E x \in S : \E j \in 1 .. w[x] : u = <<x, j>>
  BY DEF Units

\* A total is monotonic in the set.
LEMMA TotalSubset ==
  ASSUME NEW S, IsFiniteSet(S), NEW T \in SUBSET S, NEW w, IsWeight(w, S)
  PROVE  Total(w, T) <= Total(w, S)
<1>1. Units(w, T) \subseteq Units(w, S)
  BY UnitOf
<1> QED
  BY <1>1, UnitsFinite, FS_Subset DEF Total

\* No more than so many elements of the greatest weight.
LEMMA TotalAtMost ==
  ASSUME NEW S, IsFiniteSet(S), NEW w, IsWeight(w, S), NEW m \in Nat, \A x \in S : w[x] <= m
  PROVE  Total(w, S) <= Cardinality(S) * m
<1>1. Units(w, S) \subseteq S \X (1 .. m)
  <2>1. ASSUME NEW x \in S, NEW j \in 1 .. w[x] PROVE <<x, j>> \in S \X (1 .. m)
    BY DEF IsWeight
  <2> QED
    BY <2>1, UnitOf
<1>2. IsFiniteSet(1 .. m) /\ Cardinality(1 .. m) = m
  BY FS_Interval
<1>3. IsFiniteSet(S \X (1 .. m)) /\ Cardinality(S \X (1 .. m)) = Cardinality(S) * m
  BY <1>2, FS_Product
<1> QED
  BY <1>1, <1>3, FS_Subset DEF Total

\* Elements of equal weight.
LEMMA TotalConstant ==
  ASSUME NEW S, IsFiniteSet(S), NEW w, NEW c \in Nat, \A x \in S : w[x] = c
  PROVE  Total(w, S) = Cardinality(S) * c
<1>1. \A u : u \in Units(w, S) <=> u \in S \X (1 .. c)
  BY UnitOf
<1>2. Units(w, S) = S \X (1 .. c)
  BY <1>1
<1>3. IsFiniteSet(1 .. c) /\ Cardinality(1 .. c) = c
  BY FS_Interval
<1> QED
  BY <1>2, <1>3, FS_Product DEF Total

\* Elements without weight do not count.
LEMMA TotalSupport ==
  ASSUME NEW S, NEW R, NEW w, \A x \in S : x \notin R => w[x] = 0
  PROVE  Total(w, S) = Total(w, S \cap R)
<1>1. \A x \in S : x \notin R => 1 .. w[x] = {}
  OBVIOUS
<1>2. ASSUME NEW u PROVE u \in Units(w, S) <=> u \in Units(w, S \cap R)
  BY <1>1, UnitOf
<1>3. Units(w, S) = Units(w, S \cap R)
  BY <1>2
<1> QED
  BY <1>3 DEF Total

\* A total of weights that are at most sums is at most the sum of the totals: the
\* units of b are counted on from those of a.
LEMMA TotalSumAtMost ==
  ASSUME NEW S, IsFiniteSet(S), NEW a, NEW b, NEW v,
         IsWeight(a, S), IsWeight(b, S), IsWeight(v, S), \A x \in S : v[x] <= a[x] + b[x]
  PROVE  Total(v, S) <= Total(a, S) + Total(b, S)
<1> DEFINE A == Units(a, S)
           B == Units(b, S)
           V == Units(v, S)
           shift == [u \in B |-> <<u[1], a[u[1]] + u[2]>>]
           C == {shift[u] : u \in B}
<1>1. IsFiniteSet(A) /\ IsFiniteSet(B) /\ IsFiniteSet(V)
  BY UnitsFinite
<1>2. shift \in Surjection(B, C)
  BY DEF Surjection
<1>3. IsFiniteSet(C) /\ Cardinality(C) <= Cardinality(B)
  <2> HIDE DEF B, C, shift
  <2> QED
    BY <1>1, <1>2, FS_Surjection
<1>4. ASSUME NEW x \in S, NEW j \in 1 .. v[x] PROVE <<x, j>> \in A \cup C
  <2>1. a[x] \in Nat /\ b[x] \in Nat /\ v[x] \in Nat /\ v[x] <= a[x] + b[x]
    BY DEF IsWeight
  <2>2. CASE j <= a[x]
    BY <2>1, <2>2, UnitOf
  <2>3. CASE j > a[x]
    <3> DEFINE i == j - a[x]
    <3>1. i \in 1 .. b[x] /\ a[x] + i = j
      BY <2>1, <2>3
    <3> HIDE DEF i
    <3>2. <<x, i>> \in B
      BY <3>1, UnitOf
    <3>3. shift[<<x, i>>] = <<x, j>>
      BY <3>1, <3>2
    <3> QED
      BY <3>2, <3>3
  <2> QED
    BY <2>1, <2>2, <2>3
<1>5. V \subseteq A \cup C
  <2> HIDE DEF A, C
  <2> QED
    BY <1>4, UnitOf
<1> HIDE DEF A, B, C, V
<1>6. /\ IsFiniteSet(A \cup C)
      /\ Cardinality(A \cup C) = Cardinality(A) + Cardinality(C) - Cardinality(A \cap C)
  BY <1>1, <1>3, FS_Union
<1>7. Cardinality(V) <= Cardinality(A \cup C)
  BY <1>5, <1>6, FS_Subset
<1>8. IsFiniteSet(A \cap C)
  BY <1>1, FS_Intersection
<1>9. /\ Cardinality(A) \in Nat /\ Cardinality(B) \in Nat /\ Cardinality(C) \in Nat
      /\ Cardinality(V) \in Nat /\ Cardinality(A \cap C) \in Nat
  BY <1>1, <1>3, <1>8, FS_CardinalityType
<1>10. Cardinality(V) <= Cardinality(A) + Cardinality(B)
  BY <1>3, <1>6, <1>7, <1>9
<1> QED
  BY <1>10 DEF Total, A, B, V
-----------------------------------------------------------------------------
(* Products and quotients *)

LEMMA Times == ASSUME NEW c \in Nat, NEW x \in Nat PROVE x * c \in Nat
  OBVIOUS

LEMMA TimesMono ==
  ASSUME NEW c \in Nat, NEW x \in Nat, NEW y \in Nat, x <= y
  PROVE  x * c <= y * c
<1>1. PICK d \in Nat : y = x + d
  <2>1. y - x \in Nat /\ y = x + (y - x)
    OBVIOUS
  <2> QED
    BY <2>1
<1>2. d * c \in Nat /\ x * c \in Nat /\ (x + d) * c = x * c + d * c
  OBVIOUS
<1> QED
  BY <1>1, <1>2

LEMMA OneMore == ASSUME NEW c \in Nat, NEW x \in Nat PROVE (x + 1) * c = x * c + c /\ x * c \in Nat
  OBVIOUS

LEMMA Quotient ==
  ASSUME NEW n \in Nat, NEW w \in Nat, w >= 1
  PROVE  n \div w \in Nat /\ n % w \in 0 .. w - 1 /\ n = (n \div w) * w + (n % w)
  BY Z3

\* A quotient and a remainder are the only ones.
LEMMA QuotientIs ==
  ASSUME NEW w \in Nat, NEW k \in Nat, NEW r \in 0 .. w - 1, NEW q \in Nat, NEW s \in 0 .. w - 1,
         k * w + r = q * w + s
  PROVE  k = q /\ r = s
<1>1. k * w \in Nat /\ q * w \in Nat
  BY Times
<1>2. ASSUME k < q PROVE FALSE
  <2>1. (k + 1) * w <= q * w
    BY <1>2, TimesMono
  <2> QED
    BY <1>1, <2>1, OneMore
<1>3. ASSUME q < k PROVE FALSE
  <2>1. (q + 1) * w <= k * w
    BY <1>3, TimesMono
  <2> QED
    BY <1>1, <2>1, OneMore
<1>4. k = q
  BY <1>2, <1>3
<1> QED
  BY <1>1, <1>4
=============================================================================
