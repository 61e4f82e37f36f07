--------------------------- MODULE SenderPolicy_proofs --------------------------
(***************************************************************************)
(* Proofs about SenderPolicy, SenderAudit and SenderQueues.  That deficits *)
(* are bounded is shown for groups of receivers: a packet adds one unit to *)
(* all groups together and takes one from those of the receiver that is    *)
(* served; a group without it holds at most its share of what the group    *)
(* with it holds, as nobody has more.  That nobody waits for ever follows: *)
(* each packet of others adds to the deficit of who waits.                 *)
(*                                                                         *)
(* That the messages of SenderQueues use up their credit exactly is shown  *)
(* packet by packet: the credit of a receiver and the grants to come are   *)
(* always what the packets that have yet to be sent to it will cost.       *)
(***************************************************************************)
EXTENDS SenderAudit, SenderQueues, Totals_proofs

N == Cardinality(Receivers)

\* Whoever waits has a deficit to show for it.
WaitBacked ==
  /\ waited \in [Receivers -> Nat]
  /\ \A r \in Receivers : waited[r] * (FsWeight \div N) <= deficit[r]

AuditInv == TypeOK /\ NoIdleDeficit /\ DeficitsBounded /\ WaitBacked

-----------------------------------------------------------------------------
(* Arithmetic, and the shares of a unit *)

LEMMA Constant ==
  /\ IsFiniteSet(Receivers) /\ N \in Nat /\ N >= 1 /\ None \notin Receivers
  /\ Unit \in Nat /\ Unit >= 1 /\ FsWeight \in Nat /\ FsWeight <= Unit
  /\ \A n \in 1 .. N : n * Unit <= Bound[n] /\ Bound[n] \in Nat
<1>1. N \in Nat /\ N # 0
  BY PolicyAssumption, FS_CardinalityType, FS_EmptySet DEF N
<1> QED
  BY <1>1, PolicyAssumption, BoundAssumption DEF N

LEMMA Mono == ASSUME NEW c \in Nat, NEW x \in Int, NEW y \in Int, x <= y PROVE c * x <= c * y
<1>1. PICK d \in Nat : y = x + d
  <2>1. y - x \in Nat /\ y = x + (y - x)
    OBVIOUS
  <2> QED
    BY <2>1
<1>2. c * d \in Nat /\ c * x \in Int /\ c * (x + d) = c * x + c * d
  OBVIOUS
<1> QED
  BY <1>1, <1>2

LEMMA Cancel ==
  ASSUME NEW c \in Nat, c >= 1, NEW x \in Int, NEW y \in Int, c * x <= c * y
  PROVE  x <= y
<1> SUFFICES ASSUME y + 1 <= x PROVE FALSE
  OBVIOUS
<1>1. c * (y + 1) <= c * x
  BY Mono
<1>2. c * (y + 1) = c * y + c /\ c * y \in Int /\ c * x \in Int
  OBVIOUS
<1> QED
  BY <1>1, <1>2

\* The fair part among n is whole, and the more, the less.
LEMMA FairShare ==
  ASSUME NEW n \in 1 .. N
  PROVE  /\ FsWeight \div n \in Nat /\ n * (FsWeight \div n) = FsWeight
         /\ FsWeight \div n <= FsWeight
         /\ FsWeight \div N <= FsWeight \div n
         /\ FsWeight > 0 => FsWeight \div n > 0
<1> DEFINE s == FsWeight \div n
           t == FsWeight \div N
<1>0. n \in Nat /\ n >= 1 /\ N \in Nat /\ n <= N /\ N \in 1 .. N /\ FsWeight \in Nat
  BY Constant
<1>1. n * s = FsWeight /\ N * t = FsWeight
  BY <1>0, PolicyAssumption DEF N
<1>2. s \in Nat /\ t \in Nat
  BY <1>0, Z3
<1> HIDE DEF s, t
<1>3. s * n <= s * N /\ s * 1 <= s * n
  BY <1>0, <1>2, Mono
<1>4. t <= s
  <2>1. N * t <= N * s
    BY <1>0, <1>1, <1>2, <1>3
  <2> QED
    BY <2>1, <1>0, <1>2, Cancel
<1>5. FsWeight > 0 => s > 0
  <2> SUFFICES ASSUME FsWeight > 0, s = 0 PROVE FALSE
    BY <1>2
  <2>1. n * 0 = 0
    BY <1>0
  <2> QED
    BY <2>1, <1>1
<1>6. s <= FsWeight
  BY <1>0, <1>1, <1>2, <1>3
<1> QED
  BY <1>1, <1>2, <1>4, <1>5, <1>6 DEF s, t

LEMMA ReadySize ==
  ASSUME NEW ready \in SUBSET Receivers, ready # {}
  PROVE  IsFiniteSet(ready) /\ Cardinality(ready) \in 1 .. N
<1>1. IsFiniteSet(ready) /\ Cardinality(ready) <= N /\ Cardinality(ready) \in Nat
  BY Constant, FS_Subset, FS_CardinalityType DEF N
<1>2. Cardinality(ready) # 0
  BY <1>1, FS_EmptySet
<1> QED
  BY <1>1, <1>2, Constant

LEMMA QuantumType ==
  ASSUME NEW ready \in SUBSET Receivers, NEW top \in ready, NEW r \in Receivers
  PROVE  /\ Quantum(r, ready, top) \in 0 .. Unit
         /\ r \notin ready => Quantum(r, ready, top) = 0
         /\ r \in ready => Quantum(r, ready, top) >= FsWeight \div N
         /\ r \in ready /\ FsWeight > 0 => Quantum(r, ready, top) > 0
         /\ r # top /\ r \in ready => Quantum(r, ready, top) = FsWeight \div Cardinality(ready)
         /\ Quantum(top, ready, top) = FsWeight \div Cardinality(ready) + (Unit - FsWeight)
<1>1. Cardinality(ready) \in 1 .. N
  BY ReadySize
<1>2. PICK fair \in Nat :
        /\ fair = FsWeight \div Cardinality(ready)
        /\ fair <= FsWeight /\ FsWeight \div N <= fair /\ (FsWeight > 0 => fair > 0)
  BY <1>1, FairShare, Zenon
<1>3. /\ Quantum(top, ready, top) = fair + (Unit - FsWeight)
      /\ r # top /\ r \in ready => Quantum(r, ready, top) = fair
  BY <1>2, Constant DEF Quantum
<1>4. r \notin ready => Quantum(r, ready, top) = 0
  BY DEF Quantum
<1>5. FsWeight \div N \in Nat
  BY Constant, FairShare
<1> QED
  <2>1. /\ Unit - FsWeight \in Nat /\ fair + (Unit - FsWeight) \in 0 .. Unit /\ fair \in 0 .. Unit
        /\ 0 \in 0 .. Unit
    BY <1>2, Constant
  <2>2. r \in ready => Quantum(r, ready, top) = fair \/ Quantum(r, ready, top) = fair + (Unit - FsWeight)
    BY <1>3
  <2> QED
    BY <1>2, <1>3, <1>4, <1>5, <2>1, <2>2

LEMMA QuantumNat ==
  ASSUME NEW ready \in SUBSET Receivers, NEW top \in ready, NEW r \in Receivers
  PROVE  Quantum(r, ready, top) \in Nat
<1>1. Quantum(r, ready, top) \in 0 .. Unit
  BY QuantumType
<1>2. Unit \in Nat
  BY Constant
<1> QED
  BY <1>1, <1>2

\* Together the shares of any receivers make at most one unit.
LEMMA QuantaAddUp ==
  ASSUME NEW ready \in SUBSET Receivers, NEW top \in ready, NEW S \in SUBSET Receivers
  PROVE  Total([r \in Receivers |-> Quantum(r, ready, top)], S) <= Unit
<1> DEFINE q == [r \in Receivers |-> Quantum(r, ready, top)]
           n == Cardinality(ready)
           X == S \ {top}
<1>1. n \in 1 .. N /\ n \in Nat /\ n >= 1 /\ IsFiniteSet(ready)
  BY ReadySize, Constant
<1>2. PICK fair \in Nat : fair = FsWeight \div n /\ n * fair = FsWeight
  BY <1>1, FairShare, Zenon
<1>3. IsFiniteSet(S) /\ IsFiniteSet(X)
  BY Constant, FS_Subset
<1>4. ASSUME NEW x \in Receivers
      PROVE  /\ q[x] \in Nat
             /\ x \notin ready => q[x] = 0
             /\ x # top /\ x \in ready => q[x] = fair
             /\ q[top] = fair + (Unit - FsWeight)
  <2>1. q[x] = Quantum(x, ready, top) /\ q[top] = Quantum(top, ready, top)
    OBVIOUS
  <2>2. Quantum(x, ready, top) \in 0 .. Unit
    BY QuantumType
  <2> HIDE DEF q
  <2> QED
    BY <1>2, <2>1, <2>2, QuantumType, Constant
<1>5. IsWeight(q, S) /\ IsWeight(q, X) /\ IsWeight(q, X \cap ready)
  BY <1>4 DEF IsWeight
<1> HIDE DEF q, n
<1>6. Total(q, X) = Total(q, X \cap ready)
  <2>1. \A x \in X : x \notin ready => q[x] = 0
    BY <1>4
  <2> QED
    BY <2>1, TotalSupport
<1>7. Total(q, X) <= (n - 1) * fair /\ Total(q, X) \in Nat
  <2>1. IsFiniteSet(X \cap ready) /\ IsFiniteSet(ready \ {top})
    BY <1>1, FS_Subset
  <2>2. Cardinality(ready \ {top}) = n - 1
    BY <1>1, FS_RemoveElement DEF n
  <2>3. Cardinality(X \cap ready) <= n - 1 /\ Cardinality(X \cap ready) \in Nat
    BY <2>1, <2>2, FS_Subset, FS_CardinalityType
  <2>4. \A x \in X \cap ready : q[x] <= fair
    BY <1>2, <1>4
  <2>5. Total(q, X \cap ready) <= Cardinality(X \cap ready) * fair
    BY <1>2, <1>5, <2>1, <2>4, TotalAtMost
  <2>6. fair * Cardinality(X \cap ready) <= fair * (n - 1)
    BY <1>1, <1>2, <2>3, Mono
  <2>7. Total(q, X) \in Nat
    BY <1>3, <1>5, TotalNat
  <2>8. /\ Cardinality(X \cap ready) * fair = fair * Cardinality(X \cap ready)
        /\ (n - 1) * fair = fair * (n - 1)
        /\ fair * Cardinality(X \cap ready) \in Int /\ fair * (n - 1) \in Int
    BY <1>1, <1>2, <2>3
  <2> QED
    BY <1>6, <2>5, <2>6, <2>7, <2>8
<1>8. (n - 1) * fair + fair = FsWeight
  BY <1>1, <1>2
<1>9. (n - 1) * fair \in Int
  BY <1>1, <1>2
<1>10. CASE top \in S
  <2>1. Total(q, S) = Total(q, X) + q[top]
    BY <1>3, <1>5, <1>10, TotalRemove
  <2>2. Total(q, S) <= Unit
    BY <1>2, <1>4, <1>7, <1>8, <1>9, <2>1, Constant
  <2> QED
    BY <2>2 DEF q
<1>11. CASE top \notin S
  <2>1. X = S
    BY <1>11
  <2>2. Total(q, S) <= Unit
    BY <1>2, <1>7, <1>8, <1>9, <2>1, Constant
  <2> QED
    BY <2>2 DEF q
<1> QED
  BY <1>10, <1>11

-----------------------------------------------------------------------------
(* One packet *)

\* The deficits after some shares: none below what they were, those of who cannot
\* send are gone.
LEMMA CreditedType ==
  ASSUME TypeOK, NEW ready \in SUBSET Receivers, NEW top \in ready, NEW times \in Nat
  PROVE  LET d == Credited(times, ready, top) IN
         /\ d \in [Receivers -> Nat]
         /\ \A r \in Receivers : r \notin ready => d[r] = 0
         /\ \A r \in ready : d[r] = deficit[r] + times * Quantum(r, ready, top)
<1>1. ASSUME NEW r \in Receivers
      PROVE  deficit[r] \in Nat /\ times * Quantum(r, ready, top) \in Nat
  <2>1. Quantum(r, ready, top) \in Nat
    BY QuantumNat
  <2> QED
    BY <2>1 DEF TypeOK
<1> QED
  BY <1>1 DEF Credited

\* A share adds one unit to a group at most.
LEMMA ShareAdds ==
  ASSUME TypeOK, NEW ready \in SUBSET Receivers, NEW top \in ready, NEW S \in SUBSET Receivers,
         NEW a \in [Receivers -> Nat], NEW times \in Nat,
         \A r \in ready : Credited(times, ready, top)[r] <= a[r] + Quantum(r, ready, top)
  PROVE  Total(Credited(times, ready, top), S) <= Total(a, S) + Unit
<1> DEFINE q == [r \in Receivers |-> Quantum(r, ready, top)]
           d == Credited(times, ready, top)
<1>1. IsFiniteSet(S)
  BY Constant, FS_Subset
<1>2. Total(q, S) <= Unit
  BY QuantaAddUp
<1>3. ASSUME NEW x \in S PROVE q[x] \in Nat /\ a[x] \in Nat /\ d[x] \in Nat /\ d[x] <= a[x] + q[x]
  <2>1. x \in Receivers /\ q[x] = Quantum(x, ready, top) /\ q[x] \in Nat /\ a[x] \in Nat
    BY QuantumNat
  <2>2. d[x] \in Nat /\ (x \notin ready => d[x] = 0)
    BY <2>1, CreditedType
  <2> HIDE DEF q, d
  <2>3. x \in ready => d[x] <= a[x] + q[x]
    BY <2>1 DEF d
  <2> QED
    BY <2>1, <2>2, <2>3
<1> HIDE DEF q, d
<1>4. IsWeight(q, S) /\ IsWeight(a, S) /\ IsWeight(d, S)
  BY <1>3 DEF IsWeight
<1>5. Total(d, S) <= Total(a, S) + Total(q, S)
  BY <1>1, <1>3, <1>4, TotalSumAtMost
<1>6. Total(d, S) \in Nat /\ Total(a, S) \in Nat /\ Total(q, S) \in Nat
  BY <1>1, <1>4, TotalNat
<1>7. Total(d, S) <= Total(a, S) + Unit
  BY <1>2, <1>5, <1>6, Constant
<1> QED
  BY <1>7 DEF d

LEMMA GroupSize ==
  ASSUME NEW S \in SUBSET Receivers, S # {}
  PROVE  IsFiniteSet(S) /\ Cardinality(S) \in 1 .. N
  BY ReadySize

\* Shares are repeated only while nobody has a unit, so that a group is one unit above
\* its bound at most before the packet is paid for.
LEMMA BeforePaying ==
  ASSUME TypeOK, DeficitsBounded, NEW ready \in SUBSET Receivers, NEW top \in ready,
         NEW times \in 1 .. Unit, Shares(times, ready, top),
         NEW S \in SUBSET Receivers, S # {}
  PROVE  Total(Credited(times, ready, top), S) <= Bound[Cardinality(S)] + Unit
<1>1. IsFiniteSet(S) /\ Cardinality(S) \in 1 .. N
  BY GroupSize
<1>2. Bound[Cardinality(S)] \in Nat /\ Cardinality(S) * Unit <= Bound[Cardinality(S)]
  BY <1>1, Constant
<1>3. times \in Nat /\ times >= 1 /\ times - 1 \in Nat
  BY Constant
<1>4. CASE times = 1
  <2>1. deficit \in [Receivers -> Nat]
    BY DEF TypeOK
  <2>2. \A r \in ready : Credited(times, ready, top)[r] <= deficit[r] + Quantum(r, ready, top)
    <3> SUFFICES ASSUME NEW r \in ready
                 PROVE  Credited(times, ready, top)[r] <= deficit[r] + Quantum(r, ready, top)
      OBVIOUS
    <3>1. Credited(times, ready, top)[r] = deficit[r] + times * Quantum(r, ready, top)
      BY <1>3, CreditedType
    <3>2. deficit[r] \in Nat /\ Quantum(r, ready, top) \in Nat
      BY <2>1, QuantumNat
    <3>3. times * Quantum(r, ready, top) = Quantum(r, ready, top)
      BY <1>4, <3>2
    <3> QED
      BY <3>1, <3>2, <3>3
  <2>3. Total(Credited(times, ready, top), S) <= Total(deficit, S) + Unit
    BY <1>3, <2>1, <2>2, ShareAdds
  <2>4. Total(deficit, S) <= Bound[Cardinality(S)]
    BY DEF DeficitsBounded
  <2>5. Total(deficit, S) \in Nat /\ Total(Credited(times, ready, top), S) \in Nat
    <3>1. IsWeight(deficit, S) /\ IsWeight(Credited(times, ready, top), S)
      BY <1>3, <2>1, CreditedType DEF IsWeight
    <3> QED
      BY <1>1, <3>1, TotalNat
  <2> QED
    BY <1>2, <2>3, <2>4, <2>5, Constant
<1>5. CASE times > 1
  <2> DEFINE a == Credited(times - 1, ready, top)
             d == Credited(times, ready, top)
  <2>1. a \in [Receivers -> Nat] /\ \A r \in Receivers : r \notin ready => a[r] = 0
    BY <1>3, CreditedType
  <2>2. \A r \in ready : d[r] <= a[r] + Quantum(r, ready, top)
    <3> SUFFICES ASSUME NEW r \in ready PROVE d[r] <= a[r] + Quantum(r, ready, top)
      OBVIOUS
    <3>1. /\ d[r] = deficit[r] + times * Quantum(r, ready, top)
          /\ a[r] = deficit[r] + (times - 1) * Quantum(r, ready, top)
      BY <1>3, CreditedType
    <3>2. deficit[r] \in Nat /\ Quantum(r, ready, top) \in Nat
      BY QuantumNat DEF TypeOK
    <3>3. times * Quantum(r, ready, top) = (times - 1) * Quantum(r, ready, top) + Quantum(r, ready, top)
      BY <1>3, <3>2
    <3>4. (times - 1) * Quantum(r, ready, top) \in Nat
      BY <1>3, <3>2
    <3> HIDE DEF a, d
    <3> QED
      BY <3>1, <3>2, <3>3, <3>4
  <2>3. Total(d, S) <= Total(a, S) + Unit
    BY <1>3, <2>1, <2>2, ShareAdds
  <2>4. \A r \in Receivers : a[r] <= Unit
    <3>1. \A r \in ready : ~(a[r] >= Unit)
      BY <1>5 DEF Shares, Enough
    <3> HIDE DEF a
    <3> QED
      BY <2>1, <3>1, Constant
  <2>5. IsWeight(a, S) /\ IsWeight(d, S)
    BY <1>3, <2>1, CreditedType DEF IsWeight
  <2> HIDE DEF a, d
  <2>6. Total(a, S) <= Cardinality(S) * Unit
    BY <1>1, <2>4, <2>5, TotalAtMost, Constant
  <2>7. /\ Total(a, S) \in Nat /\ Total(d, S) \in Nat
        /\ Cardinality(S) * Unit \in Nat
    BY <1>1, <2>5, TotalNat, Constant
  <2>8. Total(d, S) <= Bound[Cardinality(S)] + Unit
    BY <1>2, <2>3, <2>6, <2>7, Constant
  <2> QED
    BY <2>8 DEF d
<1> QED
  BY <1>3, <1>4, <1>5

\* The one with the most pays a unit: a group with it is back below its bound, and one
\* without it holds no more than so many times what the largest holds.
LEMMA AfterPaying ==
  ASSUME NEW d \in [Receivers -> Nat], NEW s \in Receivers, d[s] >= Unit,
         \A r \in Receivers : d[r] <= d[s],
         \A T \in SUBSET Receivers : T # {} => Total(d, T) <= Bound[Cardinality(T)] + Unit,
         NEW S \in SUBSET Receivers, S # {}
  PROVE  Total([d EXCEPT ![s] = @ - Unit], S) <= Bound[Cardinality(S)]
<1> DEFINE e == [d EXCEPT ![s] = @ - Unit]
           k == Cardinality(S)
<1>1. IsFiniteSet(S) /\ k \in 1 .. N /\ k \in Nat /\ k >= 1
  BY GroupSize, Constant
<1>2. e \in [Receivers -> Nat] /\ e[s] = d[s] - Unit /\ \A r \in Receivers : r # s => e[r] = d[r]
  BY Constant
<1>3. IsWeight(d, S) /\ IsWeight(e, S)
  BY <1>2 DEF IsWeight
<1>4. Total(d, S) \in Nat /\ Total(e, S) \in Nat /\ d[s] \in Nat
  BY <1>1, <1>3, TotalNat
<1>5. Bound[k] \in Nat /\ Unit \in Nat
  BY <1>1, Constant
<1> HIDE DEF e, k
<1>6. CASE s \in S
  <2>1. \A y \in S : y # s => e[y] = d[y]
    BY <1>2
  <2>2. Total(e, S) = Total(d, S) - d[s] + e[s]
    BY <1>1, <1>3, <1>6, <2>1, TotalChange
  <2>3. Total(d, S) <= Bound[k] + Unit
    BY DEF k
  <2>4. Total(e, S) <= Bound[k]
    BY <1>2, <1>4, <1>5, <2>2, <2>3
  <2> QED
    BY <2>4 DEF e, k
<1>7. CASE s \notin S
  <2> DEFINE T == S \cup {s}
  <2>1. \A x \in S : e[x] = d[x]
    BY <1>2, <1>7
  <2>2. Total(e, S) = Total(d, S)
    BY <2>1, TotalSame
  <2>3. Cardinality(T) = k + 1 /\ T \in SUBSET Receivers /\ T # {}
    BY <1>1, <1>7, FS_AddElement DEF k
  <2>4. k + 1 \in 1 .. N /\ k \in 1 .. N - 1
    <3>1. Cardinality(T) \in 1 .. N
      BY <2>3, GroupSize
    <3> QED
      BY <1>1, <2>3, <3>1, Constant
  <2>5. Total(d, T) = Total(d, S) + d[s]
    <3>1. IsWeight(d, T)
      BY <2>3 DEF IsWeight
    <3> QED
      BY <1>1, <1>7, <3>1, TotalAdd
  <2>6. Total(d, S) + d[s] <= Bound[k + 1] + Unit
    <3>1. Total(d, T) <= Bound[Cardinality(T)] + Unit
      BY <2>3
    <3> QED
      BY <2>3, <2>5, <3>1
  <2>7. Total(d, S) <= k * d[s]
    BY <1>1, <1>3, <1>4, TotalAtMost DEF k
  <2>8. k * (Bound[k + 1] + Unit) <= (k + 1) * Bound[k] /\ Bound[k + 1] \in Nat
    BY <2>4, BoundAssumption, Constant DEF N
  <2>9. k * (Total(d, S) + d[s]) <= k * (Bound[k + 1] + Unit)
    BY <1>1, <1>4, <1>5, <2>6, <2>8, Mono
  <2>10. /\ k * (Total(d, S) + d[s]) = k * Total(d, S) + k * d[s]
         /\ (k + 1) * Total(d, S) = k * Total(d, S) + Total(d, S)
         /\ k * Total(d, S) \in Nat /\ k * d[s] \in Nat
         /\ k * (Bound[k + 1] + Unit) \in Nat /\ (k + 1) * Bound[k] \in Nat
    BY <1>1, <1>4, <1>5, <2>8
  <2>11. (k + 1) * Total(d, S) <= (k + 1) * Bound[k]
    BY <1>4, <2>7, <2>8, <2>9, <2>10
  <2>12. Total(d, S) <= Bound[k]
    <3>1. k + 1 \in Nat /\ k + 1 >= 1
      BY <1>1
    <3> QED
      BY <1>4, <1>5, <2>11, <3>1, Cancel
  <2> QED
    BY <2>2, <2>12 DEF e, k
<1> QED
  BY <1>6, <1>7

-----------------------------------------------------------------------------
(* The inductive invariant *)

\* Deficits that are all zero are within their bounds.
LEMMA NoDeficits ==
  ASSUME NEW d, d = [r \in Receivers |-> 0], NEW S \in SUBSET Receivers, S # {}
  PROVE  Total(d, S) <= Bound[Cardinality(S)]
<1>1. Total(d, S) = Total(d, S \cap {})
  <2>1. \A x \in S : x \notin {} => d[x] = 0
    OBVIOUS
  <2> QED
    BY <2>1, TotalSupport
<1>2. S \cap {} = {} /\ Total(d, {}) = 0
  BY TotalEmpty
<1>3. Bound[Cardinality(S)] \in Nat
  BY GroupSize, Constant
<1> QED
  BY <1>1, <1>2, <1>3

LEMMA InitAuditInv == AuditInit => AuditInv
<1> SUFFICES ASSUME AuditInit PROVE AuditInv
  OBVIOUS
<1>1. TypeOK /\ NoIdleDeficit
  BY Constant DEF AuditInit, Init, TypeOK, NoIdleDeficit
<1>2. DeficitsBounded
  BY NoDeficits DEF DeficitsBounded, AuditInit, Init
<1>3. WaitBacked
  <2>1. FsWeight \div N \in Nat
    BY FairShare, Constant
  <2>2. 0 * (FsWeight \div N) = 0
    BY <2>1
  <2> QED
    BY <2>2 DEF AuditInit, Init, WaitBacked
<1> QED
  BY <1>1, <1>2, <1>3 DEF AuditInv

\* A packet keeps the types, and leaves no deficit with who cannot send.
LEMMA PacketTypes ==
  ASSUME TypeOK, NEW ready \in SUBSET Receivers, ready # {}, NEW top \in ready,
         SendPacket(ready, top)
  PROVE  TypeOK' /\ NoIdleDeficit'
<1>1. PICK times \in 1 .. Unit :
        /\ Shares(times, ready, top)
        /\ served' \in Largest(Credited(times, ready, top), ready)
        /\ deficit' = [Credited(times, ready, top) EXCEPT ![served'] = @ - Unit]
  BY DEF SendPacket, Select
<1> DEFINE d == Credited(times, ready, top)
           s == served'
<1>2. times \in Nat /\ Unit \in Nat /\ Unit >= 1
  BY Constant
<1>3. d \in [Receivers -> Nat] /\ \A r \in Receivers : r \notin ready => d[r] = 0
  BY <1>2, CreditedType
<1>4. \E r \in ready : d[r] >= Unit
  BY <1>1 DEF Shares, Enough
<1>5. s \in ready /\ \A r \in ready : d[r] <= d[s]
  BY <1>1 DEF Largest
<1>6. deficit' = [d EXCEPT ![s] = @ - Unit]
  BY <1>1
<1> HIDE DEF d, s
<1>7. s \in Receivers /\ d[s] \in Nat /\ d[s] - Unit \in Nat
  <2>1. PICK r \in ready : d[r] >= Unit
    BY <1>4
  <2>2. d[s] \in Nat /\ d[r] \in Nat /\ d[r] <= d[s]
    BY <1>3, <1>5
  <2> QED
    BY <1>2, <1>5, <2>1, <2>2
<1>8. deficit' \in [Receivers -> Nat] /\ \A r \in Receivers : r # s => deficit'[r] = d[r]
  BY <1>3, <1>6, <1>7
<1>9. canSend' = ready /\ quantum' = [r \in Receivers |-> Quantum(r, ready, top)]
  BY DEF SendPacket
<1>10. \A r \in Receivers : Quantum(r, ready, top) \in 0 .. Unit
  BY QuantumType
<1>11. quantum' \in [Receivers -> 0 .. Unit]
  BY <1>9, <1>10
<1>12. TypeOK'
  BY <1>5, <1>8, <1>9, <1>11 DEF TypeOK, s
<1>13. NoIdleDeficit'
  BY <1>3, <1>5, <1>8, <1>9 DEF NoIdleDeficit
<1> QED
  BY <1>12, <1>13

\* A packet is sent.
LEMMA SendStep ==
  ASSUME AuditInv, NEW ready \in SUBSET Receivers, ready # {}, NEW top \in ready,
         SendPacket(ready, top), Waits
  PROVE  AuditInv'
<1>1. PICK times \in 1 .. Unit :
        /\ Shares(times, ready, top)
        /\ served' \in Largest(Credited(times, ready, top), ready)
        /\ deficit' = [Credited(times, ready, top) EXCEPT ![served'] = @ - Unit]
  BY DEF SendPacket, Select
<1> DEFINE d == Credited(times, ready, top)
           s == served'
<1>2. times \in Nat /\ times >= 1 /\ Unit \in Nat /\ Unit >= 1
  BY Constant
<1>3. /\ d \in [Receivers -> Nat]
      /\ \A r \in Receivers : r \notin ready => d[r] = 0
      /\ \A r \in ready : d[r] = deficit[r] + times * Quantum(r, ready, top)
  BY <1>2, CreditedType DEF AuditInv
<1>4. \E r \in ready : d[r] >= Unit
  BY <1>1 DEF Shares, Enough
<1>5. s \in ready /\ \A r \in ready : d[r] <= d[s]
  BY <1>1 DEF Largest
<1>6. deficit' = [d EXCEPT ![s] = @ - Unit]
  BY <1>1
<1>7. ASSUME NEW S \in SUBSET Receivers, S # {}
      PROVE  Total(d, S) <= Bound[Cardinality(S)] + Unit
  BY <1>1, <1>7, BeforePaying DEF AuditInv
<1> HIDE DEF d, s
<1>8. d[s] >= Unit /\ \A r \in Receivers : d[r] <= d[s]
  <2>1. \A r \in Receivers : d[r] \in Nat
    BY <1>3
  <2> QED
    BY <1>2, <1>3, <1>4, <1>5, <2>1
<1>9. s \in Receivers /\ d[s] \in Nat /\ d[s] - Unit \in Nat
  BY <1>2, <1>3, <1>5, <1>8
<1>10. deficit' \in [Receivers -> Nat] /\ deficit'[s] = d[s] - Unit
       /\ \A r \in Receivers : r # s => deficit'[r] = d[r]
  BY <1>3, <1>6, <1>9
<1>11. DeficitsBounded'
  <2> SUFFICES ASSUME NEW S \in SUBSET Receivers, S # {}
               PROVE  Total(deficit', S) <= Bound[Cardinality(S)]
    BY DEF DeficitsBounded
  <2> QED
    BY <1>3, <1>6, <1>7, <1>8, <1>9, AfterPaying
<1>12. TypeOK' /\ NoIdleDeficit'
  BY PacketTypes DEF AuditInv
<1>13. WaitBacked'
  <2> DEFINE c == FsWeight \div N
  <2>1. c \in Nat
    BY FairShare, Constant
  <2>2. \A r \in Receivers : waited[r] \in Nat /\ waited[r] * c <= deficit[r] /\ deficit[r] \in Nat
    BY DEF AuditInv, WaitBacked, TypeOK
  <2>3. \A r \in ready : Quantum(r, ready, top) >= c /\ Quantum(r, ready, top) \in Nat
    BY QuantumType, QuantumNat
  <2> HIDE DEF c
  <2>4. waited' = [r \in Receivers |-> IF r \in ready \ {s} THEN waited[r] + 1 ELSE 0]
    BY DEF Waits, SendPacket, s
  <2>5. ASSUME NEW r \in Receivers PROVE waited'[r] \in Nat /\ waited'[r] * c <= deficit'[r]
    <3>1. CASE r \in ready \ {s}
      <4>1. waited'[r] = waited[r] + 1 /\ waited[r] + 1 \in Nat
        BY <2>2, <2>4, <3>1
      <4>2. deficit'[r] = deficit[r] + times * Quantum(r, ready, top)
        BY <1>3, <1>10, <3>1
      <4>3. Quantum(r, ready, top) * 1 <= Quantum(r, ready, top) * times
        BY <1>2, <2>3, <3>1, Mono
      <4>4. /\ Quantum(r, ready, top) * times = times * Quantum(r, ready, top)
            /\ times * Quantum(r, ready, top) \in Nat
            /\ (waited[r] + 1) * c = waited[r] * c + c /\ waited[r] * c \in Nat
        BY <1>2, <2>1, <2>2, <2>3, <3>1
      <4> QED
        BY <2>1, <2>2, <2>3, <3>1, <4>1, <4>2, <4>3, <4>4
    <3>2. CASE r \notin ready \ {s}
      <4>1. waited'[r] = 0 /\ 0 * c = 0
        BY <2>1, <2>4, <3>2
      <4> QED
        BY <1>10, <4>1
    <3> QED
      BY <3>1, <3>2
  <2>6. waited' \in [Receivers -> Nat]
    BY <2>4, <2>5
  <2> QED
    BY <2>5, <2>6 DEF WaitBacked, c
<1> QED
  BY <1>11, <1>12, <1>13 DEF AuditInv

LEMMA NobodyStep == ASSUME SendNothing, Waits PROVE AuditInv'
<1>1. TypeOK' /\ NoIdleDeficit'
  BY Constant DEF SendNothing, TypeOK, NoIdleDeficit
<1>2. DeficitsBounded'
  BY NoDeficits DEF SendNothing, DeficitsBounded
<1>3. WaitBacked'
  <2>1. waited' = [r \in Receivers |-> 0]
    BY DEF SendNothing, Waits
  <2>2. 0 * (FsWeight \div N) = 0
    BY FairShare, Constant
  <2> QED
    BY <2>1, <2>2 DEF SendNothing, WaitBacked
<1> QED
  BY <1>1, <1>2, <1>3 DEF AuditInv

LEMMA NextAuditInv == AuditInv /\ [AuditNext]_auditVars => AuditInv'
<1> SUFFICES ASSUME AuditInv, [AuditNext]_auditVars PROVE AuditInv'
  OBVIOUS
<1>1. ASSUME NEW ready \in (SUBSET Receivers) \ {{}}, NEW top \in ready,
             SendPacket(ready, top), Waits
      PROVE  AuditInv'
  BY <1>1, SendStep
<1>2. CASE SendNothing /\ Waits
  BY <1>2, NobodyStep
<1>3. CASE UNCHANGED auditVars
  BY <1>3 DEF AuditInv, auditVars, vars, TypeOK, NoIdleDeficit, DeficitsBounded, WaitBacked
<1> QED
  BY <1>1, <1>2, <1>3 DEF AuditNext, Next

LEMMA Inductive == AuditSpec => []AuditInv
<1> QED
  BY InitAuditInv, NextAuditInv, PTL DEF AuditSpec

-----------------------------------------------------------------------------
(* What the policy keeps *)

\* The types: a deficit never falls below zero, as only who holds a unit pays one.
THEOREM PolicyType == AuditSpec => []TypeOK
<1>1. AuditInv => TypeOK
  BY DEF AuditInv
<1> QED
  BY <1>1, Inductive, PTL

\* Who cannot send holds no deficit (r2p2-cc-hybrid.cc:922).
THEOREM DeficitsNotHoarded == AuditSpec => []NoIdleDeficit
<1>1. AuditInv => NoIdleDeficit
  BY DEF AuditInv
<1> QED
  BY <1>1, Inductive, PTL

\* Any n receivers hold at most Bound[n] together, a single one at most Bound[1]
\* (r2p2-hybrid-support.cc:361).
THEOREM DeficitsAreBounded == AuditSpec => []DeficitsBounded
<1>1. AuditInv => DeficitsBounded
  BY DEF AuditInv
<1> QED
  BY <1>1, Inductive, PTL

\* Whoever can send is served after a bounded number of packets of others.
THEOREM WaitsAreBounded == AuditSpec => []BoundedWait
<1>1. AuditInv => BoundedWait
  <2> SUFFICES ASSUME AuditInv, NEW r \in Receivers
               PROVE  waited[r] * (FsWeight \div N) <= Bound[1]
    BY DEF BoundedWait, N
  <2>1. Total(deficit, {r}) <= Bound[1]
    <3>1. {r} \in SUBSET Receivers /\ {r} # {} /\ Cardinality({r}) = 1
      BY FS_Singleton
    <3> QED
      BY <3>1 DEF AuditInv, DeficitsBounded
  <2>2. Total(deficit, {r}) = deficit[r]
    <3>1. deficit[r] \in Nat /\ IsWeight(deficit, {} \cup {r})
      BY DEF AuditInv, TypeOK, IsWeight
    <3>2. Total(deficit, {} \cup {r}) = Total(deficit, {}) + deficit[r]
      BY <3>1, TotalAdd, FS_EmptySet
    <3>3. {} \cup {r} = {r} /\ Total(deficit, {}) = 0
      BY TotalEmpty
    <3> QED
      BY <3>1, <3>2, <3>3
  <2>3. /\ waited[r] * (FsWeight \div N) <= deficit[r] /\ deficit[r] \in Nat
        /\ waited[r] * (FsWeight \div N) \in Nat /\ Bound[1] \in Nat
    <3>1. waited[r] \in Nat /\ FsWeight \div N \in Nat
      BY FairShare, Constant DEF AuditInv, WaitBacked
    <3>2. 1 \in 1 .. N
      BY Constant
    <3> QED
      BY <3>1, <3>2, Constant DEF AuditInv, WaitBacked, TypeOK
  <2> QED
    BY <2>1, <2>2, <2>3
<1> QED
  BY <1>1, Inductive, PTL

\* With any fair weight at all, everybody who can send gets a share, the assertion at
\* r2p2-hybrid-support.cc:307.
THEOREM EverybodyGetsShare ==
  ASSUME FsWeight > 0
  PROVE  Spec => []EverybodyShares
<1>1. Init => EverybodyShares
  BY DEF Init, EverybodyShares
<1>2. EverybodyShares /\ [Next]_vars => EverybodyShares'
  <2> SUFFICES ASSUME EverybodyShares, [Next]_vars PROVE EverybodyShares'
    OBVIOUS
  <2>1. ASSUME NEW ready \in (SUBSET Receivers) \ {{}}, NEW top \in ready, SendPacket(ready, top)
        PROVE  EverybodyShares'
    <3>1. ready \in SUBSET Receivers
      OBVIOUS
    <3>2. \A r \in ready : Quantum(r, ready, top) > 0
      BY <3>1, QuantumType
    <3> QED
      BY <2>1, <3>1, <3>2 DEF SendPacket, EverybodyShares
  <2>2. CASE SendNothing
    BY <2>2 DEF SendNothing, EverybodyShares
  <2>3. CASE UNCHANGED vars
    BY <2>3 DEF vars, EverybodyShares
  <2> QED
    BY <2>1, <2>2, <2>3 DEF Next
<1> QED
  BY <1>1, <1>2, PTL DEF Spec

-----------------------------------------------------------------------------
(* The packets of a message *)

LEMMA SizesType ==
  /\ IsFiniteSet(Msgs) /\ MaxPayload \in Nat /\ MaxPayload >= 1
  /\ MaxFrame \in Nat /\ MaxFrame >= 1 /\ MaxSrpb \in Nat /\ MaxSrpb >= MaxFrame
  /\ MinFrame \in Nat /\ MinFrame >= 1 /\ MinFrame <= MaxFrame /\ Overhead \in Nat
  /\ MaxFrame = MaxPayload + Overhead
  /\ \A m \in Msgs : Dst[m] \in Receivers /\ Size[m] \in Nat /\ Size[m] >= 1
<1>1. /\ MaxPayload \in Nat /\ MaxPayload >= 1 /\ Overhead \in Nat /\ MinFrame \in 1 .. MaxFrame
      /\ MaxSrpb \in Nat /\ MaxSrpb >= MaxFrame
  BY FramesAssumption
<1>2. MaxFrame = MaxPayload + Overhead /\ MaxFrame \in Nat /\ MaxFrame >= 1
  BY <1>1 DEF MaxFrame
<1>3. IsFiniteSet(Msgs) /\ \A m \in Msgs : Dst[m] \in Receivers /\ Size[m] \in Nat /\ Size[m] >= 1
  BY QueuesAssumption
<1> QED
  BY <1>1, <1>2, <1>3

LEMMA WireIs ==
  ASSUME NEW n \in Nat
  PROVE  /\ Wire(n) \in Nat /\ Wire(n) >= n /\ Wire(n) >= MinFrame
         /\ n <= MaxPayload => Wire(n) <= MaxFrame
         /\ n = MaxPayload => Wire(n) = MaxFrame
  BY SizesType DEF Wire, Larger

\* The packets are those that start before the end of the message.
LEMMA PacketsAre ==
  ASSUME NEW m \in Msgs, NEW i \in Nat
  PROVE  i + 1 \in Packets(m) <=> i * MaxPayload < Size[m]
<1> DEFINE a == Size[m] + MaxPayload - 1
           q == a \div MaxPayload
           r == a % MaxPayload
<1>1. a \in Nat /\ MaxPayload \in Nat /\ MaxPayload >= 1 /\ Size[m] \in Nat
  BY SizesType
<1>2. a = Size[m] + MaxPayload - 1
  OBVIOUS
<1> HIDE DEF a
<1>3. q \in Nat /\ r \in 0 .. MaxPayload - 1 /\ a = q * MaxPayload + r
  BY <1>1, Quotient
<1>4. Packets(m) = 1 .. q
  BY DEF Packets, a
<1> HIDE DEF q, r
<1>5. q * MaxPayload \in Nat /\ i * MaxPayload \in Nat
  BY <1>1, <1>3, Times
<1>6. CASE i + 1 <= q
  <2>1. (i + 1) * MaxPayload <= q * MaxPayload
    BY <1>1, <1>3, <1>6, TimesMono
  <2>2. (i + 1) * MaxPayload = i * MaxPayload + MaxPayload
    BY <1>1, OneMore
  <2>3. i * MaxPayload < Size[m]
    BY <1>1, <1>2, <1>3, <1>5, <2>1, <2>2
  <2> QED
    BY <1>3, <1>4, <1>6, <2>3
<1>7. CASE q <= i
  <2>1. q * MaxPayload <= i * MaxPayload
    BY <1>1, <1>3, <1>7, TimesMono
  <2>2. ~(i * MaxPayload < Size[m])
    BY <1>1, <1>2, <1>3, <1>5, <2>1
  <2> QED
    BY <1>3, <1>4, <1>7, <2>2
<1>8. i + 1 <= q \/ q <= i
  BY <1>3
<1> QED
  BY <1>6, <1>7, <1>8, Zenon

LEMMA PacketsType ==
  ASSUME NEW m \in Msgs
  PROVE  /\ IsFiniteSet(Packets(m)) /\ Packets(m) \subseteq Nat \ {0}
         /\ \A i \in Packets(m) : i - 1 \in Nat /\ (i - 1) + 1 = i /\ (i - 1) * MaxPayload < Size[m]
<1>1. (Size[m] + MaxPayload - 1) \div MaxPayload \in Nat
  <2>1. Size[m] + MaxPayload - 1 \in Nat /\ MaxPayload \in Nat /\ MaxPayload >= 1
    BY SizesType
  <2> QED
    BY <2>1, Quotient
<1>2. IsFiniteSet(Packets(m)) /\ Packets(m) \subseteq Nat \ {0}
  <2> DEFINE q == (Size[m] + MaxPayload - 1) \div MaxPayload
  <2>1. Packets(m) = 1 .. q /\ q \in Nat
    BY <1>1 DEF Packets
  <2> HIDE DEF q
  <2> QED
    BY <2>1, FS_Interval
<1>3. ASSUME NEW i \in Packets(m) PROVE i - 1 \in Nat /\ (i - 1) + 1 = i /\ (i - 1) * MaxPayload < Size[m]
  <2>1. i - 1 \in Nat /\ (i - 1) + 1 = i
    BY <1>2
  <2>2. (i - 1) + 1 \in Packets(m)
    BY <2>1
  <2> QED
    BY <2>1, <2>2, PacketsAre
<1> QED
  BY <1>2, <1>3

\* The next packet after i others.
LEMMA PieceIs ==
  ASSUME NEW m \in Msgs, NEW i \in Nat, i * MaxPayload < Size[m]
  PROVE  Piece(m, i + 1) = IF Size[m] - i * MaxPayload < MaxPayload THEN Size[m] - i * MaxPayload ELSE MaxPayload
<1>1. /\ MaxPayload \in Nat /\ MaxPayload >= 1 /\ Size[m] \in Nat
      /\ i * MaxPayload \in Nat /\ (i + 1) * MaxPayload = i * MaxPayload + MaxPayload
  BY SizesType, OneMore
<1>2. CASE (i + 1) * MaxPayload <= Size[m]
  BY <1>1, <1>2 DEF Piece
<1>3. CASE ~((i + 1) * MaxPayload <= Size[m])
  <2> DEFINE rest == Size[m] - i * MaxPayload
  <2>1. rest \in 0 .. MaxPayload - 1 /\ Size[m] = i * MaxPayload + rest
    BY <1>1, <1>3
  <2> HIDE DEF rest
  <2> DEFINE q == Size[m] \div MaxPayload
             r == Size[m] % MaxPayload
  <2>2. q \in Nat /\ r \in 0 .. MaxPayload - 1 /\ Size[m] = q * MaxPayload + r
    BY <1>1, Quotient
  <2> HIDE DEF q, r
  <2>3. r = rest
    <3>1. q * MaxPayload + r = i * MaxPayload + rest
      BY <2>1, <2>2
    <3>2. MaxPayload \in Nat /\ q \in Nat /\ i \in Nat /\ r \in 0 .. MaxPayload - 1 /\ rest \in 0 .. MaxPayload - 1
      BY <1>1, <2>1, <2>2
    <3>3. q = i /\ r = rest
      BY <3>1, <3>2, QuotientIs, Zenon
    <3> QED
      BY <3>3
  <2>4. Piece(m, i + 1) = r
    BY <1>3 DEF Piece, r
  <2> QED
    BY <1>1, <2>1, <2>3, <2>4 DEF rest
<1> QED
  BY <1>2, <1>3

LEMMA PieceType ==
  ASSUME NEW m \in Msgs, NEW i \in Packets(m)
  PROVE  /\ Piece(m, i) \in Nat /\ Piece(m, i) >= 1 /\ Piece(m, i) <= MaxPayload
         /\ Wire(Piece(m, i)) \in Nat /\ Wire(Piece(m, i)) >= Piece(m, i)
<1> DEFINE j == i - 1
<1>1. j \in Nat /\ j + 1 = i /\ j * MaxPayload < Size[m]
  BY PacketsType
<1> HIDE DEF j
<1>2. Piece(m, i) = IF Size[m] - j * MaxPayload < MaxPayload THEN Size[m] - j * MaxPayload ELSE MaxPayload
  BY <1>1, PieceIs
<1>3. j * MaxPayload \in Nat /\ Size[m] \in Nat /\ MaxPayload \in Nat /\ MaxPayload >= 1 /\ MinFrame \in Nat
  BY <1>1, SizesType, Times
<1>4. Piece(m, i) \in Nat /\ Piece(m, i) >= 1 /\ Piece(m, i) <= MaxPayload
  BY <1>1, <1>2, <1>3
<1> QED
  BY <1>4, WireIs

-----------------------------------------------------------------------------
(* The credit a message gives itself *)

\* The frames of n bytes: full ones, and one for what is left.
LEMMA FramesOf ==
  ASSUME NEW n \in Nat
  PROVE  /\ n \div MaxPayload \in Nat /\ n % MaxPayload \in 0 .. MaxPayload - 1
         /\ n = (n \div MaxPayload) * MaxPayload + (n % MaxPayload)
         /\ (n \div MaxPayload) * MaxFrame \in Nat
         /\ AddHeaderOverhead(n) \in Nat
         /\ n % MaxPayload = 0 => AddHeaderOverhead(n) = (n \div MaxPayload) * MaxFrame
         /\ n % MaxPayload > 0 =>
              AddHeaderOverhead(n) = (n \div MaxPayload) * MaxFrame + Wire(n % MaxPayload)
<1> DEFINE q == n \div MaxPayload
           r == n % MaxPayload
<1>1. q \in Nat /\ r \in 0 .. MaxPayload - 1 /\ n = q * MaxPayload + r
  BY SizesType, Quotient
<1>2. AddHeaderOverhead(n) = q * MaxFrame + IF r > 0 THEN Wire(r) ELSE 0
  BY DEF AddHeaderOverhead
<1> HIDE DEF q, r
<1>3. q * MaxFrame \in Nat /\ Wire(r) \in Nat
  BY <1>1, SizesType, Times, WireIs
<1>4. /\ AddHeaderOverhead(n) \in Nat
      /\ r = 0 => AddHeaderOverhead(n) = q * MaxFrame
      /\ r > 0 => AddHeaderOverhead(n) = q * MaxFrame + Wire(r)
  BY <1>1, <1>2, <1>3
<1> QED
  BY <1>1, <1>3, <1>4 DEF q, r

\* Every byte is in a frame of at least MinFrame.
LEMMA FramesAtLeast ==
  ASSUME NEW n \in Nat, n >= 1
  PROVE  AddHeaderOverhead(n) >= MinFrame
<1> DEFINE q == n \div MaxPayload
           r == n % MaxPayload
<1>1. /\ q \in Nat /\ r \in 0 .. MaxPayload - 1 /\ n = q * MaxPayload + r /\ q * MaxFrame \in Nat
      /\ r = 0 => AddHeaderOverhead(n) = q * MaxFrame
      /\ r > 0 => AddHeaderOverhead(n) = q * MaxFrame + Wire(r)
  BY FramesOf
<1> HIDE DEF q, r
<1>2. CASE r > 0
  <2>1. Wire(r) \in Nat /\ Wire(r) >= MinFrame
    BY <1>1, SizesType, WireIs
  <2> QED
    BY <1>1, <1>2, <2>1, SizesType
<1>3. CASE r = 0
  <2>1. q >= 1
    <3>1. CASE q = 0
      BY <1>1, <1>3, <3>1, SizesType
    <3> QED
      BY <1>1, <3>1
  <2>2. 1 * MaxFrame <= q * MaxFrame
    BY <1>1, <2>1, SizesType, TimesMono
  <2> QED
    BY <1>1, <1>3, <2>2, SizesType
<1> QED
  BY <1>1, <1>2, <1>3, SizesType

\* What does not fit c is cut to the full frames that do.
IsCut(x, n, c) ==
  x \in Nat /\ x >= 1 /\ x <= n /\ x % MaxPayload = 0 /\ AddHeaderOverhead(x) <= c

LEMMA CutToFit ==
  ASSUME NEW n \in Nat, NEW c \in Nat, c >= MaxFrame, AddHeaderOverhead(n) > c
  PROVE  IsCut(RemoveHeaderOverhead(c), n, c)
<1> DEFINE k == c \div MaxFrame
           s == c % MaxFrame
           q == n \div MaxPayload
           r == n % MaxPayload
<1>1. k \in Nat /\ s \in 0 .. MaxFrame - 1 /\ c = k * MaxFrame + s
  BY SizesType, Quotient
<1>2. RemoveHeaderOverhead(c) = k * MaxPayload
  BY DEF RemoveHeaderOverhead
<1>3. /\ q \in Nat /\ r \in 0 .. MaxPayload - 1 /\ n = q * MaxPayload + r /\ q * MaxFrame \in Nat
      /\ r = 0 => AddHeaderOverhead(n) = q * MaxFrame
      /\ r > 0 => AddHeaderOverhead(n) = q * MaxFrame + Wire(r)
  BY FramesOf
<1> HIDE DEF k, s, q, r
<1>4. k * MaxFrame \in Nat /\ k * MaxPayload \in Nat /\ q * MaxPayload \in Nat
  BY <1>1, <1>3, SizesType, Times
<1>5. k >= 1
  <2>1. CASE k = 0
    BY <1>1, <2>1, SizesType
  <2> QED
    BY <1>1, <2>1
<1> DEFINE x == k * MaxPayload
<1>6. x >= 1 /\ x \in Nat
  <2>1. 1 * MaxPayload <= k * MaxPayload
    BY <1>1, <1>5, SizesType, TimesMono
  <2> QED
    BY <1>4, <2>1, SizesType
<1> HIDE DEF x
<1>7. x \div MaxPayload = k /\ x % MaxPayload = 0
  <2>1. /\ x \div MaxPayload \in Nat /\ x % MaxPayload \in 0 .. MaxPayload - 1
        /\ x = (x \div MaxPayload) * MaxPayload + (x % MaxPayload)
    BY <1>6, FramesOf
  <2> DEFINE a == x \div MaxPayload
             b == x % MaxPayload
  <2>2. a \in Nat /\ b \in 0 .. MaxPayload - 1 /\ x = a * MaxPayload + b
    BY <2>1
  <2> HIDE DEF a, b
  <2>3. k * MaxPayload + 0 = a * MaxPayload + b /\ 0 \in 0 .. MaxPayload - 1
    BY <1>4, <2>2, SizesType DEF x
  <2>4. MaxPayload \in Nat /\ k \in Nat /\ 0 \in 0 .. MaxPayload - 1 /\ a \in Nat /\ b \in 0 .. MaxPayload - 1
    BY <1>1, <2>2, <2>3, SizesType
  <2>5. k = a /\ 0 = b
    BY <2>3, <2>4, QuotientIs, Zenon
  <2> QED
    BY <2>5 DEF a, b
<1>8. AddHeaderOverhead(x) <= c
  <2>1. AddHeaderOverhead(x) = k * MaxFrame
    BY <1>6, <1>7, FramesOf
  <2> QED
    BY <1>1, <1>4, <2>1, SizesType
<1>9. x <= n
  <2>1. SUFFICES ASSUME n < x PROVE FALSE
    BY <1>6
  <2>2. q < k
    <3>1. CASE k <= q
      <4>1. k * MaxPayload <= q * MaxPayload
        BY <1>1, <1>3, <3>1, SizesType, TimesMono
      <4> QED
        BY <1>3, <1>4, <2>1, <4>1, SizesType DEF x
    <3> QED
      BY <1>1, <1>3, <3>1
  <2>3. (q + 1) * MaxFrame <= k * MaxFrame
    BY <1>1, <1>3, <2>2, SizesType, TimesMono
  <2>4. (q + 1) * MaxFrame = q * MaxFrame + MaxFrame
    BY <1>3, SizesType, OneMore
  <2>5. Wire(r) \in Nat /\ Wire(r) <= MaxFrame
    BY <1>3, SizesType, WireIs
  <2>6. AddHeaderOverhead(n) <= q * MaxFrame + MaxFrame
    BY <1>3, <2>5, SizesType
  <2>7. AddHeaderOverhead(n) \in Nat
    BY FramesOf
  <2> QED
    BY <1>1, <1>3, <1>4, <2>3, <2>4, <2>6, <2>7, SizesType
<1> QED
  BY <1>2, <1>6, <1>7, <1>8, <1>9 DEF IsCut, x

\* A message covers all of its bytes, or a number of its full packets; what it takes
\* is room that the pool has, or no more than the cost of its first packet.
LEMMA SelfCreditIs ==
  ASSUME NEW m \in Msgs, NEW a \in Nat
  PROVE  /\ SelfCreditData(Size[m], a) \in Nat /\ SelfCreditData(Size[m], a) >= 1
         /\ SelfCreditData(Size[m], a) <= Size[m]
         /\ \/ SelfCreditData(Size[m], a) = Size[m]
            \/ SelfCreditData(Size[m], a) % MaxPayload = 0
         /\ SelfCredit(Size[m], a) = AddHeaderOverhead(SelfCreditData(Size[m], a))
         /\ SelfCredit(Size[m], a) \in Nat
         /\ \/ a + SelfCredit(Size[m], a) <= MaxSrpb
            \/ SelfCredit(Size[m], a) <= IF Size[m] < MaxPayload THEN Wire(Size[m]) ELSE MaxFrame
<1> DEFINE n == Size[m]
           want == Wanted(n)
           room == Larger(MaxSrpb - a, MaxFrame)
           data == SelfCreditData(n, a)
<1>1. n \in Nat /\ n >= 1 /\ room \in Nat /\ room >= MaxFrame
  BY SizesType DEF Larger
<1>2. want \in Nat /\ want >= 1 /\ want <= n /\ (want = n \/ want % MaxPayload = 0)
  <2>1. CASE AddHeaderOverhead(n) > MaxSrpb
    <3>1. want = RemoveHeaderOverhead(MaxSrpb)
      BY <2>1 DEF Wanted
    <3>2. IsCut(want, n, MaxSrpb)
      BY <1>1, <2>1, <3>1, SizesType, CutToFit
    <3> HIDE DEF want, n
    <3> QED
      BY <3>2 DEF IsCut
  <2>2. CASE ~(AddHeaderOverhead(n) > MaxSrpb)
    <3>1. want = n
      BY <2>2 DEF Wanted
    <3> HIDE DEF want, n
    <3> QED
      BY <1>1, <3>1
  <2> QED
    BY <2>1, <2>2
<1>3. data = IF AddHeaderOverhead(want) > room THEN RemoveHeaderOverhead(room) ELSE want
  BY DEF SelfCreditData
<1> HIDE DEF want, room, data
<1>4. /\ data \in Nat /\ data >= 1 /\ data <= n /\ (data = n \/ data % MaxPayload = 0)
      /\ AddHeaderOverhead(data) <= room
  <2>1. CASE AddHeaderOverhead(want) > room
    <3>1. IsCut(data, want, room)
      BY <1>1, <1>2, <1>3, <2>1, CutToFit
    <3> HIDE DEF n
    <3> QED
      BY <1>1, <1>2, <3>1 DEF IsCut
  <2>2. CASE ~(AddHeaderOverhead(want) > room)
    <3>1. AddHeaderOverhead(want) \in Nat
      BY <1>2, FramesOf
    <3> HIDE DEF n
    <3> QED
      BY <1>1, <1>2, <1>3, <2>2, <3>1
  <2> QED
    BY <2>1, <2>2
<1>5. AddHeaderOverhead(data) \in Nat /\ AddHeaderOverhead(data) >= MinFrame
  BY <1>4, FramesOf, FramesAtLeast
<1>6. SelfCredit(n, a) = AddHeaderOverhead(data)
  BY <1>5, SizesType DEF SelfCredit, Larger, data
<1>7. CASE MaxSrpb - a >= MaxFrame
  <2>1. room = MaxSrpb - a
    BY <1>7, SizesType DEF room, Larger
  <2>2. a + AddHeaderOverhead(data) <= MaxSrpb
    BY <1>4, <1>5, <2>1, SizesType
  <2> QED
    BY <1>4, <1>5, <1>6, <2>2 DEF data
<1>8. CASE ~(MaxSrpb - a >= MaxFrame)
  <2>1. room = MaxFrame
    BY <1>8 DEF room, Larger
  <2>2. CASE n < MaxPayload
    <3>1. data = n
      <4>1. CASE data % MaxPayload = 0
        <5> DEFINE q == data \div MaxPayload
        <5>1. q \in Nat /\ data = q * MaxPayload + (data % MaxPayload)
          BY <1>4, FramesOf
        <5> HIDE DEF q
        <5>2. q * MaxPayload \in Nat /\ data = q * MaxPayload
          BY <4>1, <5>1, SizesType, Times
        <5>3. CASE q = 0
          BY <1>4, <5>2, <5>3, SizesType
        <5>4. CASE q >= 1
          <6>1. 1 * MaxPayload <= q * MaxPayload
            BY <5>1, <5>4, SizesType, TimesMono
          <6> QED
            BY <1>1, <1>4, <2>2, <5>2, <6>1, SizesType
        <5> QED
          BY <5>1, <5>3, <5>4
      <4> QED
        BY <1>4, <4>1
    <3>2. AddHeaderOverhead(n) = Wire(n)
      <4> DEFINE q == n \div MaxPayload
                 r == n % MaxPayload
      <4>1. /\ q \in Nat /\ r \in 0 .. MaxPayload - 1 /\ n = q * MaxPayload + r
            /\ r > 0 => AddHeaderOverhead(n) = q * MaxFrame + Wire(r)
        BY <1>1, FramesOf
      <4> HIDE DEF q, r, n
      <4>0. PICK z \in Nat : z = 0
        OBVIOUS
      <4>2. z * MaxPayload + n = q * MaxPayload + r /\ n \in 0 .. MaxPayload - 1
        BY <1>1, <2>2, <4>0, <4>1, SizesType
      <4>3. /\ MaxPayload \in Nat /\ z \in Nat /\ n \in 0 .. MaxPayload - 1 /\ q \in Nat
            /\ r \in 0 .. MaxPayload - 1
        BY <4>1, <4>2, SizesType
      <4>4. z = q /\ n = r
        BY <4>2, <4>3, QuotientIs, Zenon
      <4>5. Wire(n) \in Nat
        BY <1>1, WireIs
      <4> QED
        BY <1>1, <4>0, <4>1, <4>4, <4>5, SizesType
    <3> QED
      BY <1>4, <1>5, <1>6, <2>2, <3>1, <3>2, SizesType DEF data
  <2>3. CASE ~(n < MaxPayload)
    BY <1>4, <1>5, <1>6, <2>1, <2>3, SizesType DEF data
  <2> QED
    BY <2>2, <2>3
<1> QED
  BY <1>7, <1>8

-----------------------------------------------------------------------------
(* Sets of packets: f[m] are those of message m *)

Pairs(f) == UNION {{m} \X f[m] : m \in Msgs}

IsPackets(f) == \A m \in Msgs : f[m] \subseteq Packets(m)

AllPackets == [m \in Msgs |-> Packets(m)]
Of(m, X)   == [n \in Msgs |-> IF n = m THEN X ELSE {}]

\* What a packet uses up of the two counts of credit.
WireWeight == [p \in Pairs(AllPackets) |-> Wire(Piece(p[1], p[2]))]
DataWeight == [p \in Pairs(AllPackets) |-> Piece(p[1], p[2])]

Wires(f) == Total(WireWeight, Pairs(f))
Datas(f) == Total(DataWeight, Pairs(f))

LEMMA PairOf ==
  ASSUME NEW f, NEW p
  PROVE  p \in Pairs(f) <=> \E m \in Msgs : \E i \in f[m] : p = <<m, i>>
  BY DEF Pairs

LEMMA PairsSubset ==
  ASSUME NEW f, IsPackets(f)
  PROVE  Pairs(f) \subseteq Pairs(AllPackets)
<1> SUFFICES ASSUME NEW p \in Pairs(f) PROVE p \in Pairs(AllPackets)
  OBVIOUS
<1>1. PICK m \in Msgs : \E i \in f[m] : p = <<m, i>>
  BY PairOf
<1>2. PICK i \in f[m] : p = <<m, i>>
  BY <1>1
<1>3. i \in AllPackets[m]
  BY DEF IsPackets, AllPackets
<1> QED
  BY <1>2, <1>3, PairOf

LEMMA PairsFinite == IsFiniteSet(Pairs(AllPackets))
<1> DEFINE F == [m \in Msgs |-> {m} \X AllPackets[m]]
           T == {{m} \X AllPackets[m] : m \in Msgs}
<1>1. F \in Surjection(Msgs, T)
  BY DEF Surjection
<1>2. IsFiniteSet(T)
  BY <1>1, SizesType, FS_Surjection
<1>3. ASSUME NEW t \in T PROVE IsFiniteSet(t)
  <2>1. PICK m \in Msgs : t = {m} \X AllPackets[m]
    OBVIOUS
  <2>2. IsFiniteSet({m}) /\ IsFiniteSet(AllPackets[m])
    BY PacketsType, FS_Singleton DEF AllPackets
  <2> QED
    BY <2>1, <2>2, FS_Product
<1>4. IsFiniteSet(UNION T)
  BY <1>2, <1>3, FS_UNION
<1> QED
  BY <1>4 DEF Pairs

LEMMA PairWeight ==
  ASSUME NEW m \in Msgs, NEW i \in Packets(m)
  PROVE  /\ <<m, i>> \in Pairs(AllPackets)
         /\ WireWeight[<<m, i>>] = Wire(Piece(m, i)) /\ DataWeight[<<m, i>>] = Piece(m, i)
         /\ Wire(Piece(m, i)) \in Nat /\ Piece(m, i) \in Nat
<1>1. i \in AllPackets[m]
  BY DEF AllPackets
<1>2. <<m, i>> \in Pairs(AllPackets)
  BY <1>1, PairOf
<1> QED
  BY <1>2, PieceType DEF WireWeight, DataWeight

LEMMA PairsType ==
  ASSUME NEW f, IsPackets(f)
  PROVE  /\ IsFiniteSet(Pairs(f)) /\ IsWeight(WireWeight, Pairs(f)) /\ IsWeight(DataWeight, Pairs(f))
         /\ Wires(f) \in Nat /\ Datas(f) \in Nat
<1>1. IsFiniteSet(Pairs(f))
  BY PairsSubset, PairsFinite, FS_Subset
<1>2. ASSUME NEW p \in Pairs(f) PROVE WireWeight[p] \in Nat /\ DataWeight[p] \in Nat
  <2>1. PICK m \in Msgs : \E i \in f[m] : p = <<m, i>>
    BY PairOf
  <2>2. PICK i \in f[m] : p = <<m, i>>
    BY <2>1
  <2>3. i \in Packets(m)
    BY DEF IsPackets
  <2> QED
    BY <2>2, <2>3, PairWeight
<1>3. IsWeight(WireWeight, Pairs(f)) /\ IsWeight(DataWeight, Pairs(f))
  BY <1>2 DEF IsWeight
<1> QED
  BY <1>1, <1>3, TotalNat DEF Wires, Datas

\* The cost of a set of packets, as the properties have it.
LEMMA CostIs ==
  ASSUME NEW f, IsPackets(f)
  PROVE  Cost(Pairs(f)) = Wires(f)
<1>1. \A p \in Pairs(f) : [q \in Pairs(f) |-> Wire(Piece(q[1], q[2]))][p] = WireWeight[p]
  BY PairsSubset DEF WireWeight
<1> QED
  BY <1>1, TotalSame DEF Cost, Wires

LEMMA PairsNone ==
  ASSUME NEW f, \A m \in Msgs : f[m] = {}
  PROVE  Wires(f) = 0 /\ Datas(f) = 0
<1>1. \A p : p \notin Pairs(f)
  BY PairOf
<1>2. Pairs(f) = {}
  BY <1>1
<1> QED
  BY <1>2, TotalEmpty DEF Wires, Datas

LEMMA PairsSame ==
  ASSUME NEW f, NEW g, \A m \in Msgs : f[m] = g[m]
  PROVE  Wires(f) = Wires(g) /\ Datas(f) = Datas(g)
<1>1. \A p : p \in Pairs(f) <=> p \in Pairs(g)
  BY PairOf
<1>2. Pairs(f) = Pairs(g)
  BY <1>1
<1> QED
  BY <1>2 DEF Wires, Datas

\* g has the packets of f, and X of message m.
Grows(f, g, m, X) ==
  /\ IsPackets(f) /\ m \in Msgs /\ X \subseteq Packets(m)
  /\ f[m] \cap X = {} /\ g[m] = f[m] \cup X
  /\ \A n \in Msgs : n # m => g[n] = f[n]

LEMMA PairsGrow ==
  ASSUME NEW f, NEW g, NEW m, NEW X, Grows(f, g, m, X)
  PROVE  /\ Wires(g) = Wires(f) + Wires(Of(m, X)) /\ Datas(g) = Datas(f) + Datas(Of(m, X))
         /\ Wires(f) \in Nat /\ Datas(f) \in Nat
         /\ Wires(Of(m, X)) \in Nat /\ Datas(Of(m, X)) \in Nat
         /\ IsPackets(g)
<1>1. /\ IsPackets(f) /\ m \in Msgs /\ X \subseteq Packets(m)
      /\ f[m] \cap X = {} /\ g[m] = f[m] \cup X
      /\ \A n \in Msgs : n # m => g[n] = f[n]
  BY DEF Grows
<1> DEFINE h == Of(m, X)
<1>2. h[m] = X /\ \A n \in Msgs : n # m => h[n] = {}
  BY <1>1 DEF Of
<1> HIDE DEF h
<1>3. IsPackets(h) /\ IsPackets(g)
  BY <1>1, <1>2 DEF IsPackets
<1>4. ASSUME NEW n \in Msgs, NEW i PROVE i \in g[n] <=> i \in f[n] \/ i \in h[n]
  BY <1>1, <1>2
<1>5. ASSUME NEW n \in Msgs, NEW i PROVE ~(i \in f[n] /\ i \in h[n])
  BY <1>1, <1>2
<1>6. \A p : p \in Pairs(g) <=> p \in Pairs(f) \/ p \in Pairs(h)
  BY <1>4, PairOf
<1>7. Pairs(g) = Pairs(f) \cup Pairs(h)
  BY <1>6
<1>8. ASSUME NEW p \in Pairs(f), p \in Pairs(h) PROVE FALSE
  <2>1. PICK n \in Msgs : \E i \in f[n] : p = <<n, i>>
    BY PairOf
  <2>2. PICK i \in f[n] : p = <<n, i>>
    BY <2>1
  <2>3. PICK k \in Msgs : \E j \in h[k] : p = <<k, j>>
    BY <1>8, PairOf
  <2>4. n = k /\ i \in h[k]
    BY <2>2, <2>3
  <2> QED
    BY <1>5, <2>2, <2>4
<1>9. Pairs(f) \cap Pairs(h) = {}
  BY <1>8
<1>10. /\ IsFiniteSet(Pairs(f)) /\ IsFiniteSet(Pairs(h))
       /\ IsWeight(WireWeight, Pairs(f) \cup Pairs(h)) /\ IsWeight(DataWeight, Pairs(f) \cup Pairs(h))
       /\ Wires(f) \in Nat /\ Datas(f) \in Nat /\ Wires(h) \in Nat /\ Datas(h) \in Nat
  BY <1>1, <1>3, <1>7, PairsType
<1>11. Wires(g) = Wires(f) + Wires(h)
  BY <1>7, <1>9, <1>10, TotalUnion DEF Wires
<1>12. Datas(g) = Datas(f) + Datas(h)
  BY <1>7, <1>9, <1>10, TotalUnion DEF Datas
<1> QED
  BY <1>3, <1>10, <1>11, <1>12 DEF h

\* Packets of equal size.
LEMMA EqualPackets ==
  ASSUME NEW m \in Msgs, NEW X \in SUBSET Packets(m), NEW c \in Nat, \A i \in X : Piece(m, i) = c
  PROVE  Wires(Of(m, X)) = Cardinality(X) * Wire(c) /\ Datas(Of(m, X)) = Cardinality(X) * c
<1>1. IsFiniteSet(X)
  BY PacketsType, FS_Subset
<1>2. ASSUME NEW p PROVE p \in Pairs(Of(m, X)) <=> \E i \in X : p = <<m, i>>
  BY PairOf DEF Of
<1>3. Pairs(Of(m, X)) = {m} \X X
  BY <1>2
<1>4. IsFiniteSet({m}) /\ Cardinality({m}) = 1 /\ Cardinality(X) \in Nat
  BY <1>1, FS_Singleton, FS_CardinalityType
<1>5. IsFiniteSet({m} \X X) /\ Cardinality({m} \X X) = 1 * Cardinality(X)
  BY <1>1, <1>4, FS_Product
<1>6. IsFiniteSet({m} \X X) /\ Cardinality({m} \X X) = Cardinality(X)
  BY <1>4, <1>5
<1>7. \A p \in {m} \X X : WireWeight[p] = Wire(c) /\ DataWeight[p] = c
  BY PairWeight
<1>8. Wire(c) \in Nat
  BY WireIs
<1>9. Total(WireWeight, {m} \X X) = Cardinality(X) * Wire(c)
  BY <1>6, <1>7, <1>8, TotalConstant
<1>10. Total(DataWeight, {m} \X X) = Cardinality(X) * c
  BY <1>6, <1>7, TotalConstant
<1> QED
  BY <1>3, <1>9, <1>10 DEF Wires, Datas

LEMMA OnePacket ==
  ASSUME NEW m \in Msgs, NEW i \in Packets(m)
  PROVE  Wires(Of(m, {i})) = Wire(Piece(m, i)) /\ Datas(Of(m, {i})) = Piece(m, i)
<1> DEFINE c == Piece(m, i)
<1>1. c \in Nat /\ Wire(c) \in Nat /\ Cardinality({i}) = 1 /\ \A k \in {i} : Piece(m, k) = c
  BY PieceType, FS_Singleton
<1> HIDE DEF c
<1>2. Wires(Of(m, {i})) = 1 * Wire(c) /\ Datas(Of(m, {i})) = 1 * c
  BY <1>1, EqualPackets
<1> QED
  BY <1>1, <1>2 DEF c

\* The packets that hold the first n bytes of m.
First(m, n) == {i \in Packets(m) : (i - 1) * MaxPayload < n}

\* The full packets among them.
LEMMA FullPackets ==
  ASSUME NEW m \in Msgs, NEW q \in Nat, q * MaxPayload <= Size[m]
  PROVE  /\ 1 .. q \subseteq Packets(m)
         /\ \A i \in 1 .. q : Piece(m, i) = MaxPayload
         /\ First(m, q * MaxPayload) = 1 .. q
<1>1. q * MaxPayload \in Nat /\ MaxPayload \in Nat /\ MaxPayload >= 1 /\ Size[m] \in Nat
  BY SizesType, Times
<1>2. ASSUME NEW i \in 1 .. q
      PROVE  /\ i \in Packets(m) /\ Piece(m, i) = MaxPayload
             /\ (i - 1) * MaxPayload < q * MaxPayload
  <2> DEFINE j == i - 1
  <2>1. j \in Nat /\ j + 1 = i /\ i \in Nat /\ i <= q
    OBVIOUS
  <2> HIDE DEF j
  <2>2. /\ i * MaxPayload <= q * MaxPayload /\ i * MaxPayload = j * MaxPayload + MaxPayload
        /\ j * MaxPayload \in Nat /\ i * MaxPayload \in Nat
    <3>1. i * MaxPayload <= q * MaxPayload
      BY <1>1, <2>1, TimesMono
    <3>2. (j + 1) * MaxPayload = j * MaxPayload + MaxPayload /\ j * MaxPayload \in Nat
      BY <1>1, <2>1, OneMore
    <3> QED
      BY <1>1, <2>1, <3>1, <3>2, Times
  <2>3. j * MaxPayload < q * MaxPayload /\ j * MaxPayload < Size[m] /\ i * MaxPayload <= Size[m]
    BY <1>1, <2>2
  <2>4. j + 1 \in Packets(m)
    BY <2>1, <2>3, PacketsAre
  <2>5. Piece(m, i) = MaxPayload
    BY <2>3 DEF Piece
  <2> QED
    BY <2>1, <2>3, <2>4, <2>5 DEF j
<1>3. ASSUME NEW i \in First(m, q * MaxPayload) PROVE i \in 1 .. q
  <2> DEFINE j == i - 1
  <2>1. i \in Packets(m) /\ j * MaxPayload < q * MaxPayload
    BY DEF First
  <2>2. j \in Nat /\ j + 1 = i /\ i \in Nat
    BY <2>1, PacketsType
  <2> HIDE DEF j
  <2>3. CASE q <= j
    <3>1. q * MaxPayload <= j * MaxPayload /\ j * MaxPayload \in Nat
      BY <1>1, <2>2, <2>3, TimesMono, Times
    <3> QED
      BY <1>1, <2>1, <3>1
  <2> QED
    BY <2>2, <2>3
<1>4. 1 .. q \subseteq First(m, q * MaxPayload)
  BY <1>2 DEF First
<1> QED
  BY <1>2, <1>3, <1>4

\* Credit for the first bytes of a message is what their packets use up.
LEMMA FirstCost ==
  ASSUME NEW m \in Msgs, NEW n \in Nat, n <= Size[m], n = Size[m] \/ n % MaxPayload = 0
  PROVE  Wires(Of(m, First(m, n))) = AddHeaderOverhead(n) /\ Datas(Of(m, First(m, n))) = n
<1> DEFINE q == n \div MaxPayload
           r == n % MaxPayload
<1>1. /\ q \in Nat /\ r \in 0 .. MaxPayload - 1 /\ n = q * MaxPayload + r /\ q * MaxFrame \in Nat
      /\ r = 0 => AddHeaderOverhead(n) = q * MaxFrame
      /\ r > 0 => AddHeaderOverhead(n) = q * MaxFrame + Wire(r)
  BY FramesOf
<1>2. n = Size[m] \/ r = 0
  OBVIOUS
<1>3. n = Size[m] => Size[m] % MaxPayload = r
  OBVIOUS
<1> HIDE DEF q, r
<1>4. /\ q * MaxPayload \in Nat /\ MaxPayload \in Nat /\ MaxPayload >= 1 /\ Size[m] \in Nat
      /\ q * MaxPayload <= Size[m]
  <2>1. q * MaxPayload \in Nat /\ MaxPayload \in Nat /\ MaxPayload >= 1 /\ Size[m] \in Nat
    BY <1>1, SizesType, Times
  <2> QED
    BY <1>1, <2>1
<1>5. /\ 1 .. q \subseteq Packets(m) /\ First(m, q * MaxPayload) = 1 .. q
      /\ \A i \in 1 .. q : Piece(m, i) = MaxPayload
  BY <1>1, <1>4, FullPackets
<1>6. Cardinality(1 .. q) = q
  BY <1>1, FS_Interval
<1>7. Wires(Of(m, 1 .. q)) = q * MaxFrame /\ Datas(Of(m, 1 .. q)) = q * MaxPayload
  <2>1. 1 .. q \in SUBSET Packets(m)
    BY <1>5
  <2>2. /\ Wires(Of(m, 1 .. q)) = Cardinality(1 .. q) * Wire(MaxPayload)
        /\ Datas(Of(m, 1 .. q)) = Cardinality(1 .. q) * MaxPayload
    BY <1>4, <1>5, <2>1, EqualPackets
  <2>3. Wire(MaxPayload) = MaxFrame
    BY <1>4, WireIs
  <2> QED
    BY <1>6, <2>2, <2>3
<1>8. CASE r = 0
  <2>1. n = q * MaxPayload
    BY <1>1, <1>4, <1>8
  <2> QED
    BY <1>1, <1>5, <1>7, <1>8, <2>1
<1>9. CASE r > 0
  <2>1. n = Size[m] /\ q * MaxPayload < Size[m] /\ Size[m] % MaxPayload = r
    BY <1>1, <1>2, <1>3, <1>4, <1>9
  <2>2. q + 1 \in Packets(m)
    BY <1>1, <2>1, PacketsAre
  <2>3. (q + 1) * MaxPayload = q * MaxPayload + MaxPayload
    BY <1>1, <1>4, OneMore
  <2>4. Piece(m, q + 1) = r
    <3>1. ~((q + 1) * MaxPayload <= Size[m])
      BY <1>1, <1>4, <2>1, <2>3
    <3> QED
      BY <2>1, <3>1 DEF Piece
  <2>5. First(m, n) = (1 .. q) \cup {q + 1}
    <3>1. ASSUME NEW i \in First(m, n) PROVE i \in (1 .. q) \cup {q + 1}
      <4> DEFINE j == i - 1
      <4>1. i \in Packets(m) /\ j * MaxPayload < n
        BY DEF First
      <4>2. j \in Nat /\ j + 1 = i /\ i \in Nat
        BY <4>1, PacketsType
      <4> HIDE DEF j
      <4>3. CASE q + 1 <= j
        <5>1. (q + 1) * MaxPayload <= j * MaxPayload /\ j * MaxPayload \in Nat
          BY <1>1, <1>4, <4>2, <4>3, TimesMono, Times
        <5> QED
          BY <1>1, <1>4, <2>3, <4>1, <5>1
      <4> QED
        BY <1>1, <4>2, <4>3
    <3>2. ASSUME NEW i \in 1 .. q PROVE i \in First(m, n)
      <4>1. i \in First(m, q * MaxPayload)
        BY <1>5
      <4>2. i \in Packets(m) /\ (i - 1) * MaxPayload < q * MaxPayload
        BY <4>1 DEF First
      <4>3. i - 1 \in Nat
        BY <4>2, PacketsType
      <4>4. (i - 1) * MaxPayload \in Nat
        BY <1>4, <4>3, Times
      <4>5. (i - 1) * MaxPayload < n
        BY <1>4, <2>1, <4>2, <4>4
      <4> QED
        BY <4>2, <4>5 DEF First
    <3>3. q + 1 \in First(m, n)
      <4>1. (q + 1) - 1 = q
        BY <1>1
      <4> QED
        BY <2>1, <2>2, <4>1 DEF First
    <3> QED
      BY <3>1, <3>2, <3>3
  <2>6. Grows(Of(m, 1 .. q), Of(m, First(m, n)), m, {q + 1})
    <3>1. (1 .. q) \cap {q + 1} = {}
      BY <1>1
    <3>2. IsPackets(Of(m, 1 .. q))
      BY <1>5 DEF IsPackets, Of
    <3>3. Of(m, 1 .. q)[m] = 1 .. q /\ Of(m, First(m, n))[m] = First(m, n)
      BY DEF Of
    <3>4. \A k \in Msgs : k # m => Of(m, First(m, n))[k] = Of(m, 1 .. q)[k]
      BY DEF Of
    <3> QED
      BY <2>2, <2>5, <3>1, <3>2, <3>3, <3>4 DEF Grows
  <2>7. /\ Wires(Of(m, First(m, n))) = Wires(Of(m, 1 .. q)) + Wires(Of(m, {q + 1}))
        /\ Datas(Of(m, First(m, n))) = Datas(Of(m, 1 .. q)) + Datas(Of(m, {q + 1}))
    BY <2>6, PairsGrow
  <2>8. Wires(Of(m, {q + 1})) = Wire(r) /\ Datas(Of(m, {q + 1})) = r
    BY <2>2, <2>4, OnePacket
  <2> QED
    BY <1>1, <1>7, <1>9, <2>7, <2>8
<1> QED
  BY <1>1, <1>4, <1>8, <1>9

-----------------------------------------------------------------------------
(* The inductive invariant *)

\* The packets of m that have yet to be sent, and those that the receiver has yet to
\* grant: it will grant those of a message that is still to be announced, too.
Unsent(m) == {i \in Packets(m) : (i - 1) * MaxPayload >= Size[m] - left[m]}
Coming(m) == IF m \in active /\ m \notin told THEN Granted(m) ELSE owed[m]

\* The packets of the messages to r: those to be sent, those to be granted, those that
\* messages to be announced cover themselves, the first ones of these messages, and those
\* that were granted.
UnsentOf(r)  == [m \in Msgs |-> IF m \in To(r) THEN Unsent(m) ELSE {}]
ComingOf(r)  == [m \in Msgs |-> IF Dst[m] = r THEN Coming(m) ELSE {}]
CoveredOf(r) == [m \in Msgs |-> IF m \in To(r) \ told THEN Covered(m) ELSE {}]
FirstOf(r)   == [m \in Msgs |-> IF m \in To(r) \ told THEN {1} ELSE {}]
CameOf(r)    == [m \in Msgs |-> IF m \in told /\ Dst[m] = r THEN Granted(m) \ owed[m] ELSE {}]

QueueTypes ==
  /\ left \in [Msgs -> Nat]
  /\ active \subseteq Msgs /\ told \subseteq Msgs
  /\ own \in [Msgs -> Nat]
  /\ DOMAIN owed = Msgs
  /\ credit \in [Receivers -> Nat]
  /\ dataCredit \in [Receivers -> Int]

\* A message is sent packet by packet; while the receiver is not told of it nothing of
\* it is sent, nothing is owed to it, and once active it covers some of it by itself.
MessageInv(m) ==
  /\ left[m] <= Size[m]
  /\ m \in active => left[m] > 0 /\ \E k \in Nat : left[m] = Size[m] - k * MaxPayload
  /\ m \notin active /\ left[m] = Size[m] => m \notin told /\ own[m] = 0
  /\ m \in active /\ m \notin told => left[m] = Size[m] /\ own[m] >= 1
  /\ m \notin told => owed[m] = {}
  /\ owed[m] \subseteq Granted(m)

\* The credit for r and the grants to come are what the packets to be sent use up; the
\* other two are UntoldCovered and PoolLimited for r.
PoolInv(r) ==
  /\ credit[r] + Wires(ComingOf(r)) = Wires(UnsentOf(r))
  /\ dataCredit[r] + Datas(ComingOf(r)) = Datas(UnsentOf(r))
  /\ credit[r] >= Wires(CoveredOf(r))
  /\ credit[r] <= MaxSrpb + Wires(FirstOf(r)) + Wires(CameOf(r))

QueueInv ==
  /\ QueueTypes
  /\ \A m \in Msgs : MessageInv(m)
  /\ \A r \in Receivers : PoolInv(r)

LEMMA FirstIsPacket == ASSUME NEW m \in Msgs PROVE 1 \in Packets(m)
<1>1. PICK z \in Nat : z = 0
  OBVIOUS
<1>2. z * MaxPayload < Size[m] /\ z + 1 = 1
  BY <1>1, SizesType
<1> QED
  BY <1>2, PacketsAre

LEMMA CoveredIs ==
  ASSUME NEW m \in Msgs
  PROVE  /\ Covered(m) = First(m, own[m])
         /\ Covered(m) \subseteq Packets(m) /\ Granted(m) \subseteq Packets(m)
         /\ Packets(m) = Covered(m) \cup Granted(m) /\ Covered(m) \cap Granted(m) = {}
  BY DEF Covered, Granted, First

LEMMA FamiliesType ==
  ASSUME \A m \in Msgs : owed[m] \subseteq Granted(m), NEW r
  PROVE  /\ IsPackets(UnsentOf(r)) /\ IsPackets(ComingOf(r)) /\ IsPackets(CoveredOf(r))
         /\ IsPackets(FirstOf(r)) /\ IsPackets(CameOf(r))
<1>1. IsPackets(UnsentOf(r))
  BY DEF IsPackets, UnsentOf, Unsent
<1>2. IsPackets(ComingOf(r))
  BY CoveredIs DEF IsPackets, ComingOf, Coming
<1>3. IsPackets(CoveredOf(r))
  BY CoveredIs DEF IsPackets, CoveredOf
<1>4. IsPackets(FirstOf(r))
  BY FirstIsPacket DEF IsPackets, FirstOf
<1>5. IsPackets(CameOf(r))
  BY CoveredIs DEF IsPackets, CameOf
<1> QED
  BY <1>1, <1>2, <1>3, <1>4, <1>5

LEMMA InitQueueInv == QInit => QueueInv
<1> SUFFICES ASSUME QInit PROVE QueueInv
  OBVIOUS
<1>1. /\ left = Size /\ active = {} /\ told = {} /\ owed = [m \in Msgs |-> {}]
      /\ own = [m \in Msgs |-> 0]
      /\ credit = [r \in Receivers |-> 0] /\ dataCredit = [r \in Receivers |-> 0]
  BY DEF QInit
<1>2. QueueTypes
  BY <1>1, QueuesAssumption DEF QueueTypes
<1>3. ASSUME NEW m \in Msgs PROVE MessageInv(m)
  BY <1>1, SizesType DEF MessageInv
<1>4. ASSUME NEW r \in Receivers PROVE PoolInv(r)
  <2>1. /\ \A m \in Msgs : UnsentOf(r)[m] = {} /\ ComingOf(r)[m] = {} /\ CoveredOf(r)[m] = {}
        /\ \A m \in Msgs : FirstOf(r)[m] = {} /\ CameOf(r)[m] = {}
    BY <1>1 DEF UnsentOf, ComingOf, CoveredOf, FirstOf, CameOf, Coming, To
  <2>2. /\ Wires(UnsentOf(r)) = 0 /\ Datas(UnsentOf(r)) = 0
        /\ Wires(ComingOf(r)) = 0 /\ Datas(ComingOf(r)) = 0
    BY <2>1, PairsNone
  <2>3. Wires(CoveredOf(r)) = 0 /\ Wires(FirstOf(r)) = 0 /\ Wires(CameOf(r)) = 0
    BY <2>1, PairsNone
  <2>4. credit[r] = 0 /\ dataCredit[r] = 0
    BY <1>1
  <2> QED
    BY <2>2, <2>3, <2>4, SizesType DEF PoolInv
<1> QED
  BY <1>2, <1>3, <1>4 DEF QueueInv

\* All the packets of a message that is untouched have yet to be sent.
LEMMA NothingSent ==
  ASSUME NEW m \in Msgs, left[m] = Size[m]
  PROVE  Unsent(m) = Packets(m)
<1>1. ASSUME NEW i \in Packets(m) PROVE (i - 1) * MaxPayload >= Size[m] - left[m]
  <2>1. i - 1 \in Nat /\ MaxPayload \in Nat /\ Size[m] \in Nat
    BY PacketsType, SizesType
  <2>2. (i - 1) * MaxPayload \in Nat
    BY <2>1, Times
  <2> QED
    BY <2>1, <2>2
<1> QED
  BY <1>1 DEF Unsent

\* What Activate does to the credit: C are the packets that m covers by itself.
LEMMA ActivateCredit ==
  ASSUME QueueInv, NEW m \in Msgs, Activate(m), NEW C, C = First(m, own'[m])
  PROVE  /\ own' \in [Msgs -> Nat] /\ \A n \in Msgs : n # m => own'[n] = own[n]
         /\ C \subseteq Packets(m)
         /\ Wires(Of(m, C)) \in Nat /\ Datas(Of(m, C)) \in Nat
         /\ credit' = [credit EXCEPT ![Dst[m]] = @ + Wires(Of(m, C))]
         /\ dataCredit' = [dataCredit EXCEPT ![Dst[m]] = @ + Datas(Of(m, C))]
         /\ \/ /\ told' = told /\ owed' = owed /\ own'[m] >= 1
               /\ \/ credit[Dst[m]] + Wires(Of(m, C)) <= MaxSrpb
                  \/ Wires(Of(m, C)) <= Wire(Piece(m, 1))
            \/ /\ told' = told \cup {m} /\ owed' = [owed EXCEPT ![m] = Packets(m) \ C]
               /\ Wires(Of(m, C)) = 0
<1> DEFINE d == Dst[m]
           a == credit[d]
           data == SelfCreditData(Size[m], a)
<1>1. /\ d \in Receivers /\ a \in Nat /\ QueueTypes /\ Size[m] \in Nat /\ Size[m] >= 1
      /\ own[m] = 0 /\ dataCredit[d] \in Int
  BY SizesType DEF QueueInv, QueueTypes, MessageInv, Activate
<1>2. C \subseteq Packets(m)
  BY DEF First
<1>3. CASE m \in Unsolicited
  <2>1. /\ data \in Nat /\ data >= 1 /\ data <= Size[m]
        /\ data = Size[m] \/ data % MaxPayload = 0
        /\ SelfCredit(Size[m], a) = AddHeaderOverhead(data)
        /\ SelfCredit(Size[m], a) \in Nat
        /\ \/ a + SelfCredit(Size[m], a) <= MaxSrpb
           \/ SelfCredit(Size[m], a) <= IF Size[m] < MaxPayload THEN Wire(Size[m]) ELSE MaxFrame
    BY <1>1, SelfCreditIs
  <2>2. /\ credit' = [credit EXCEPT ![d] = @ + SelfCredit(Size[m], a)]
        /\ dataCredit' = [dataCredit EXCEPT ![d] = @ + data]
        /\ own' = [own EXCEPT ![m] = data] /\ told' = told /\ owed' = owed
    <3>1. credit' = [credit EXCEPT ![d] = @ + SelfCredit(Size[m], @)]
      BY <1>3 DEF Activate
    <3> QED
      BY <1>3, <3>1 DEF Activate
  <2> HIDE DEF data
  <2>3. own'[m] = data /\ own' \in [Msgs -> Nat] /\ \A n \in Msgs : n # m => own'[n] = own[n]
    BY <1>1, <2>1, <2>2 DEF QueueTypes
  <2>4. C = First(m, data)
    BY <2>3
  <2>5. Wires(Of(m, C)) = SelfCredit(Size[m], a) /\ Datas(Of(m, C)) = data
    BY <2>1, <2>4, FirstCost
  <2>6. Wire(Piece(m, 1)) = IF Size[m] < MaxPayload THEN Wire(Size[m]) ELSE MaxFrame
    <3>1. PICK z \in Nat : z = 0
      OBVIOUS
    <3>2. z * MaxPayload = 0 /\ z + 1 = 1
      BY <3>1, SizesType
    <3>3. z * MaxPayload < Size[m]
      BY <1>1, <3>2
    <3>4. Piece(m, z + 1) = IF Size[m] - z * MaxPayload < MaxPayload THEN Size[m] - z * MaxPayload ELSE MaxPayload
      BY <3>3, PieceIs
    <3>5. Piece(m, 1) = IF Size[m] < MaxPayload THEN Size[m] ELSE MaxPayload
      BY <1>1, <3>2, <3>4
    <3>6. Wire(MaxPayload) = MaxFrame
      BY SizesType, WireIs
    <3> QED
      BY <3>5, <3>6
  <2> HIDE DEF a, d
  <2>7. \/ a + Wires(Of(m, C)) <= MaxSrpb
        \/ Wires(Of(m, C)) <= Wire(Piece(m, 1))
    BY <2>1, <2>5, <2>6
  <2> QED
    BY <1>2, <2>1, <2>2, <2>3, <2>5, <2>7 DEF a, d
<1>4. CASE m \notin Unsolicited
  <2>1. /\ told' = told \cup {m} /\ owed' = [owed EXCEPT ![m] = Packets(m)]
        /\ credit' = credit /\ dataCredit' = dataCredit /\ own' = own
    BY <1>4 DEF Activate
  <2>2. C = {}
    <3>1. ASSUME NEW i \in C PROVE FALSE
      <4>1. i \in Packets(m) /\ (i - 1) * MaxPayload < 0
        BY <1>1, <2>1, <3>1 DEF First
      <4>2. i - 1 \in Nat /\ MaxPayload \in Nat
        BY <4>1, PacketsType, SizesType
      <4>3. (i - 1) * MaxPayload \in Nat
        BY <4>2, Times
      <4> QED
        BY <4>1, <4>3
    <3> QED
      BY <3>1
  <2>3. \A n \in Msgs : Of(m, C)[n] = {}
    BY <2>2 DEF Of
  <2>4. Wires(Of(m, C)) = 0 /\ Datas(Of(m, C)) = 0
    BY <2>3, PairsNone
  <2>5. /\ credit' = [credit EXCEPT ![d] = @ + Wires(Of(m, C))]
        /\ dataCredit' = [dataCredit EXCEPT ![d] = @ + Datas(Of(m, C))]
    BY <1>1, <2>1, <2>4 DEF QueueTypes
  <2>6. own' \in [Msgs -> Nat] /\ \A n \in Msgs : n # m => own'[n] = own[n]
    BY <1>1, <2>1 DEF QueueTypes
  <2>7. owed' = [owed EXCEPT ![m] = Packets(m) \ C] /\ told' = told \cup {m}
    <3>1. Packets(m) \ C = Packets(m)
      BY <2>2
    <3> QED
      BY <2>1, <3>1
  <2>8. Wires(Of(m, C)) \in Nat /\ Datas(Of(m, C)) \in Nat
    BY <2>4
  <2> QED
    BY <1>2, <2>4, <2>5, <2>6, <2>7, <2>8
<1> QED
  BY <1>3, <1>4

LEMMA ActivateStep ==
  ASSUME QueueInv, NEW m \in Msgs, Activate(m)
  PROVE  QueueInv'
<1> DEFINE d == Dst[m]
           C == First(m, own'[m])
           G == Packets(m) \ C
<1>1. /\ m \notin active /\ left[m] = Size[m] /\ left' = left /\ active' = active \cup {m}
      /\ owed[m] = {} /\ m \notin told /\ d \in Receivers /\ QueueTypes
      /\ Size[m] \in Nat /\ Size[m] >= 1
  BY SizesType DEF QueueInv, MessageInv, Activate
<1>2. /\ own' \in [Msgs -> Nat] /\ \A n \in Msgs : n # m => own'[n] = own[n]
      /\ C \subseteq Packets(m)
      /\ Wires(Of(m, C)) \in Nat /\ Datas(Of(m, C)) \in Nat
      /\ credit' = [credit EXCEPT ![d] = @ + Wires(Of(m, C))]
      /\ dataCredit' = [dataCredit EXCEPT ![d] = @ + Datas(Of(m, C))]
      /\ \/ /\ told' = told /\ owed' = owed /\ own'[m] >= 1
            /\ \/ credit[d] + Wires(Of(m, C)) <= MaxSrpb
               \/ Wires(Of(m, C)) <= Wire(Piece(m, 1))
         \/ /\ told' = told \cup {m} /\ owed' = [owed EXCEPT ![m] = G]
            /\ Wires(Of(m, C)) = 0
  BY ActivateCredit
<1>3. Covered(m)' = C /\ Granted(m)' = G
  BY DEF Covered, Granted, First
<1>4. \A n \in Msgs : n # m => /\ Covered(n)' = Covered(n) /\ Granted(n)' = Granted(n)
                               /\ (n \in told' <=> n \in told) /\ (n \in active' <=> n \in active)
                               /\ owed'[n] = owed[n] /\ Unsent(n)' = Unsent(n)
                               /\ Coming(n)' = Coming(n)
  <2>1. \A n \in Msgs : n # m => /\ Covered(n)' = Covered(n) /\ Granted(n)' = Granted(n)
                                 /\ (n \in told' <=> n \in told) /\ (n \in active' <=> n \in active)
                                 /\ owed'[n] = owed[n] /\ Unsent(n)' = Unsent(n)
    BY <1>1, <1>2 DEF Covered, Granted, Unsent, QueueTypes
  <2> QED
    BY <2>1 DEF Coming
<1>5. Unsent(m)' = Packets(m) /\ Coming(m)' = G /\ Coming(m) = {}
  <2>1. Unsent(m)' = Unsent(m) /\ Unsent(m) = Packets(m)
    BY <1>1, NothingSent DEF Unsent
  <2>2. m \in told' => owed'[m] = G
    BY <1>1, <1>2 DEF QueueTypes
  <2>3. m \in active'
    BY <1>1
  <2> QED
    BY <1>1, <1>3, <2>1, <2>2, <2>3 DEF Coming
<1> HIDE DEF C, G
<1>6. C \cup G = Packets(m) /\ C \cap G = {} /\ G \subseteq Packets(m)
  BY <1>2 DEF G
<1>7. QueueTypes'
  BY <1>1, <1>2 DEF QueueTypes
<1>8. ASSUME NEW n \in Msgs PROVE MessageInv(n)'
  <2>1. CASE n = m
    <3>1. PICK z \in Nat : z = 0
      OBVIOUS
    <3>2. Size[m] = Size[m] - z * MaxPayload
      BY <1>1, <3>1, SizesType
    <3>3. /\ left'[m] <= Size[m] /\ m \in active' /\ left'[m] > 0 /\ left'[m] = Size[m]
          /\ \E k \in Nat : left'[m] = Size[m] - k * MaxPayload
      BY <1>1, <3>2
    <3>4. owed'[m] \subseteq Granted(m)' /\ (m \notin told' => owed'[m] = {} /\ own'[m] >= 1)
      BY <1>1, <1>2, <1>3 DEF QueueTypes
    <3> QED
      BY <2>1, <3>3, <3>4 DEF MessageInv
  <2>2. CASE n # m
    <3>1. MessageInv(n) /\ left'[n] = left[n] /\ own'[n] = own[n]
      BY <1>1, <1>2, <2>2 DEF QueueInv
    <3> QED
      BY <1>4, <2>2, <3>1 DEF MessageInv
  <2> QED
    BY <2>1, <2>2
<1>9. ASSUME NEW r \in Receivers
      PROVE  /\ \A n \in Msgs : r # d \/ n # m =>
                   /\ UnsentOf(r)'[n] = UnsentOf(r)[n] /\ ComingOf(r)'[n] = ComingOf(r)[n]
                   /\ CoveredOf(r)'[n] = CoveredOf(r)[n] /\ FirstOf(r)'[n] = FirstOf(r)[n]
             /\ \A n \in Msgs : CameOf(r)'[n] = CameOf(r)[n]
             /\ r = d => /\ UnsentOf(r)[m] = {} /\ UnsentOf(r)'[m] = Packets(m)
                         /\ ComingOf(r)[m] = {} /\ ComingOf(r)'[m] = G
                         /\ CoveredOf(r)[m] = {} /\ FirstOf(r)[m] = {}
                         /\ m \notin told' => CoveredOf(r)'[m] = C /\ FirstOf(r)'[m] = {1}
                         /\ m \in told' => CoveredOf(r)'[m] = {} /\ FirstOf(r)'[m] = {}
  <2>1. To(r)' = (IF r = d THEN To(r) \cup {m} ELSE To(r)) /\ m \notin To(r)
    BY <1>1 DEF To
  <2>2. ASSUME NEW n \in Msgs, r # d \/ n # m
        PROVE  /\ UnsentOf(r)'[n] = UnsentOf(r)[n] /\ ComingOf(r)'[n] = ComingOf(r)[n]
               /\ CoveredOf(r)'[n] = CoveredOf(r)[n] /\ FirstOf(r)'[n] = FirstOf(r)[n]
    <3>1. CASE n = m
      <4>1. r # d /\ n \notin To(r) /\ n \notin To(r)' /\ Dst[n] # r
        BY <2>1, <2>2, <3>1
      <4> QED
        BY <4>1 DEF UnsentOf, ComingOf, CoveredOf, FirstOf
    <3>2. CASE n # m
      <4>1. (n \in To(r)' <=> n \in To(r)) /\ (n \in To(r)' \ told' <=> n \in To(r) \ told)
        BY <1>4, <2>1, <3>2
      <4>2. Covered(n)' = Covered(n) /\ Unsent(n)' = Unsent(n) /\ Coming(n)' = Coming(n)
        BY <1>4, <3>2
      <4> QED
        BY <4>1, <4>2 DEF UnsentOf, ComingOf, CoveredOf, FirstOf
    <3> QED
      BY <3>1, <3>2
  <2>3. ASSUME NEW n \in Msgs PROVE CameOf(r)'[n] = CameOf(r)[n]
    <3>1. CASE n = m
      <4>1. m \in told' => Granted(m)' \ owed'[m] = {}
        BY <1>1, <1>2, <1>3 DEF QueueTypes
      <4> QED
        BY <1>1, <3>1, <4>1 DEF CameOf
    <3>2. CASE n # m
      BY <1>4, <3>2 DEF CameOf
    <3> QED
      BY <3>1, <3>2
  <2>4. ASSUME r = d
        PROVE  /\ UnsentOf(r)[m] = {} /\ UnsentOf(r)'[m] = Packets(m)
               /\ ComingOf(r)[m] = {} /\ ComingOf(r)'[m] = G
               /\ CoveredOf(r)[m] = {} /\ FirstOf(r)[m] = {}
               /\ m \notin told' => CoveredOf(r)'[m] = C /\ FirstOf(r)'[m] = {1}
               /\ m \in told' => CoveredOf(r)'[m] = {} /\ FirstOf(r)'[m] = {}
    <3>1. m \in To(r)' /\ m \notin To(r)
      BY <2>1, <2>4
    <3> QED
      BY <1>3, <1>5, <2>4, <3>1 DEF UnsentOf, ComingOf, CoveredOf, FirstOf
  <2> QED
    BY <2>2, <2>3, <2>4
<1>10. ASSUME NEW r \in Receivers PROVE PoolInv(r)'
  <2>1. PoolInv(r) /\ credit[r] \in Nat /\ dataCredit[r] \in Int
    BY DEF QueueInv, QueueTypes
  <2>2. /\ IsPackets(UnsentOf(r)) /\ IsPackets(ComingOf(r)) /\ IsPackets(CoveredOf(r))
        /\ IsPackets(FirstOf(r)) /\ IsPackets(CameOf(r))
    BY FamiliesType DEF QueueInv, MessageInv
  <2>3. /\ Wires(UnsentOf(r)) \in Nat /\ Datas(UnsentOf(r)) \in Nat
        /\ Wires(ComingOf(r)) \in Nat /\ Datas(ComingOf(r)) \in Nat
        /\ Wires(CoveredOf(r)) \in Nat /\ Wires(FirstOf(r)) \in Nat /\ Wires(CameOf(r)) \in Nat
    BY <2>2, PairsType
  <2>4. Wires(CameOf(r)') = Wires(CameOf(r))
    BY <1>9, PairsSame
  <2>5. CASE r # d
    <3>1. /\ Wires(UnsentOf(r)') = Wires(UnsentOf(r)) /\ Datas(UnsentOf(r)') = Datas(UnsentOf(r))
          /\ Wires(ComingOf(r)') = Wires(ComingOf(r)) /\ Datas(ComingOf(r)') = Datas(ComingOf(r))
      BY <1>9, <2>5, PairsSame
    <3>2. /\ Wires(CoveredOf(r)') = Wires(CoveredOf(r)) /\ Wires(FirstOf(r)') = Wires(FirstOf(r))
      BY <1>9, <2>5, PairsSame
    <3>3. credit'[r] = credit[r] /\ dataCredit'[r] = dataCredit[r]
      BY <1>1, <1>2, <2>5 DEF QueueTypes
    <3> QED
      BY <2>1, <2>4, <3>1, <3>2, <3>3 DEF PoolInv
  <2>6. CASE r = d
    <3>1. credit'[r] = credit[r] + Wires(Of(m, C)) /\ dataCredit'[r] = dataCredit[r] + Datas(Of(m, C))
      BY <1>1, <1>2, <2>6 DEF QueueTypes
    <3>2. Grows(UnsentOf(r), UnsentOf(r)', m, Packets(m))
      BY <1>9, <2>2, <2>6 DEF Grows
    <3>3. Grows(ComingOf(r), ComingOf(r)', m, G)
      BY <1>6, <1>9, <2>2, <2>6 DEF Grows
    <3>4. Grows(Of(m, C), Of(m, Packets(m)), m, G)
      BY <1>2, <1>6 DEF Grows, Of, IsPackets
    <3>5. /\ Wires(UnsentOf(r)') = Wires(UnsentOf(r)) + Wires(Of(m, Packets(m)))
          /\ Datas(UnsentOf(r)') = Datas(UnsentOf(r)) + Datas(Of(m, Packets(m)))
      BY <3>2, PairsGrow
    <3>6. /\ Wires(ComingOf(r)') = Wires(ComingOf(r)) + Wires(Of(m, G))
          /\ Datas(ComingOf(r)') = Datas(ComingOf(r)) + Datas(Of(m, G))
          /\ Wires(Of(m, G)) \in Nat /\ Datas(Of(m, G)) \in Nat
      BY <3>3, PairsGrow
    <3>7. /\ Wires(Of(m, Packets(m))) = Wires(Of(m, C)) + Wires(Of(m, G))
          /\ Datas(Of(m, Packets(m))) = Datas(Of(m, C)) + Datas(Of(m, G))
      BY <3>4, PairsGrow
    <3>8. /\ credit'[r] + Wires(ComingOf(r)') = Wires(UnsentOf(r)')
          /\ dataCredit'[r] + Datas(ComingOf(r)') = Datas(UnsentOf(r)')
      BY <1>2, <2>1, <2>3, <3>1, <3>5, <3>6, <3>7 DEF PoolInv
    <3>9. credit[r] >= Wires(CoveredOf(r)) /\ credit[r] <= MaxSrpb + Wires(FirstOf(r)) + Wires(CameOf(r))
      BY <2>1 DEF PoolInv
    <3>10. CASE m \notin told'
      <4>1. Grows(CoveredOf(r), CoveredOf(r)', m, C)
        BY <1>2, <1>9, <2>2, <2>6, <3>10 DEF Grows
      <4>2. Grows(FirstOf(r), FirstOf(r)', m, {1})
        BY <1>9, <2>2, <2>6, <3>10, FirstIsPacket DEF Grows
      <4>3. Wires(CoveredOf(r)') = Wires(CoveredOf(r)) + Wires(Of(m, C))
        BY <4>1, PairsGrow
      <4>4. Wires(FirstOf(r)') = Wires(FirstOf(r)) + Wires(Of(m, {1}))
        BY <4>2, PairsGrow
      <4>5. Wires(Of(m, {1})) = Wire(Piece(m, 1)) /\ Wire(Piece(m, 1)) \in Nat
        BY FirstIsPacket, OnePacket, PieceType
      <4>6. \/ credit[r] + Wires(Of(m, C)) <= MaxSrpb
            \/ Wires(Of(m, C)) <= Wire(Piece(m, 1))
        BY <1>2, <2>6, <3>10
      <4>7. credit'[r] >= Wires(CoveredOf(r)')
        BY <1>2, <2>1, <2>3, <3>1, <3>9, <4>3
      <4>8. credit'[r] <= MaxSrpb + Wires(FirstOf(r)') + Wires(CameOf(r)')
        BY <1>2, <2>1, <2>3, <2>4, <3>1, <3>9, <4>4, <4>5, <4>6, SizesType
      <4> QED
        BY <3>8, <4>7, <4>8 DEF PoolInv
    <3>11. CASE m \in told'
      <4>1. \A n \in Msgs : CoveredOf(r)'[n] = CoveredOf(r)[n] /\ FirstOf(r)'[n] = FirstOf(r)[n]
        BY <1>9, <2>6, <3>11
      <4>2. Wires(CoveredOf(r)') = Wires(CoveredOf(r)) /\ Wires(FirstOf(r)') = Wires(FirstOf(r))
        BY <4>1, PairsSame
      <4>3. Wires(Of(m, C)) = 0
        BY <1>1, <1>2, <3>11
      <4>4. credit'[r] = credit[r]
        BY <2>1, <3>1, <4>3
      <4> QED
        BY <2>4, <3>8, <3>9, <4>2, <4>4 DEF PoolInv
    <3> QED
      BY <3>10, <3>11
  <2> QED
    BY <2>5, <2>6
<1> QED
  BY <1>7, <1>8, <1>10 DEF QueueInv

LEMMA GrantStep ==
  ASSUME QueueInv, NEW m \in Msgs, NEW i \in owed[m], Grant(m, i)
  PROVE  QueueInv'
<1> DEFINE d == Dst[m]
<1>1. /\ d \in Receivers /\ QueueTypes /\ owed[m] \subseteq Granted(m) /\ i \in Granted(m)
      /\ UNCHANGED <<left, active, told, own>>
      /\ owed' = [owed EXCEPT ![m] = @ \ {i}]
      /\ credit' = [credit EXCEPT ![d] = @ + Wire(Piece(m, i))]
      /\ dataCredit' = [dataCredit EXCEPT ![d] = @ + Piece(m, i)]
      /\ m \in told
  BY SizesType DEF QueueInv, MessageInv, Grant
<1>2. i \in Packets(m) /\ Piece(m, i) \in Nat /\ Wire(Piece(m, i)) \in Nat
  BY <1>1, CoveredIs, PieceType
<1>3. QueueTypes'
  BY <1>1, <1>2 DEF QueueTypes
<1>4. /\ owed'[m] = owed[m] \ {i}
      /\ \A n \in Msgs : n # m => owed'[n] = owed[n]
      /\ \A n \in Msgs : Covered(n)' = Covered(n) /\ Granted(n)' = Granted(n) /\ Unsent(n)' = Unsent(n)
  BY <1>1 DEF QueueTypes, Covered, Granted, Unsent
<1>5. ASSUME NEW n \in Msgs PROVE MessageInv(n)'
  <2>1. MessageInv(n) /\ owed'[n] \subseteq owed[n] /\ Granted(n)' = Granted(n)
    BY <1>4 DEF QueueInv
  <2> QED
    BY <1>1, <2>1 DEF MessageInv
<1>6. ASSUME NEW r \in Receivers
      PROVE  /\ \A n \in Msgs : /\ UnsentOf(r)'[n] = UnsentOf(r)[n] /\ CoveredOf(r)'[n] = CoveredOf(r)[n]
                                /\ FirstOf(r)'[n] = FirstOf(r)[n]
             /\ \A n \in Msgs : r # d \/ n # m =>
                  ComingOf(r)'[n] = ComingOf(r)[n] /\ CameOf(r)'[n] = CameOf(r)[n]
             /\ r = d => /\ ComingOf(r)[m] = owed[m] /\ ComingOf(r)'[m] = owed[m] \ {i}
                         /\ CameOf(r)[m] = Granted(m) \ owed[m]
                         /\ CameOf(r)'[m] = (Granted(m) \ owed[m]) \cup {i}
  <2>1. To(r)' = To(r)
    BY <1>1 DEF To
  <2>2. \A n \in Msgs : /\ UnsentOf(r)'[n] = UnsentOf(r)[n] /\ CoveredOf(r)'[n] = CoveredOf(r)[n]
                        /\ FirstOf(r)'[n] = FirstOf(r)[n]
    BY <1>1, <1>4, <2>1 DEF UnsentOf, CoveredOf, FirstOf
  <2>3. ASSUME NEW n \in Msgs, r # d \/ n # m
        PROVE  ComingOf(r)'[n] = ComingOf(r)[n] /\ CameOf(r)'[n] = CameOf(r)[n]
    <3>1. CASE n = m
      <4>1. Dst[n] # r
        BY <2>3, <3>1
      <4> QED
        BY <4>1 DEF ComingOf, CameOf
    <3>2. CASE n # m
      BY <1>1, <1>4, <3>2 DEF ComingOf, CameOf, Coming
    <3> QED
      BY <3>1, <3>2
  <2>4. ASSUME r = d
        PROVE  /\ ComingOf(r)[m] = owed[m] /\ ComingOf(r)'[m] = owed[m] \ {i}
               /\ CameOf(r)[m] = Granted(m) \ owed[m]
               /\ CameOf(r)'[m] = (Granted(m) \ owed[m]) \cup {i}
    <3>1. CameOf(r)'[m] = Granted(m) \ (owed[m] \ {i})
      BY <1>1, <1>4, <2>4 DEF CameOf
    <3>2. Granted(m) \ (owed[m] \ {i}) = (Granted(m) \ owed[m]) \cup {i}
      BY <1>1
    <3> QED
      BY <1>1, <1>4, <2>4, <3>1, <3>2 DEF ComingOf, CameOf, Coming
  <2> QED
    BY <2>2, <2>3, <2>4
<1>7. ASSUME NEW r \in Receivers PROVE PoolInv(r)'
  <2>1. PoolInv(r) /\ credit[r] \in Nat /\ dataCredit[r] \in Int
    BY DEF QueueInv, QueueTypes
  <2>2. IsPackets(ComingOf(r)) /\ IsPackets(CameOf(r))
    BY FamiliesType DEF QueueInv, MessageInv
  <2>3. /\ Wires(UnsentOf(r)') = Wires(UnsentOf(r)) /\ Datas(UnsentOf(r)') = Datas(UnsentOf(r))
        /\ Wires(CoveredOf(r)') = Wires(CoveredOf(r)) /\ Wires(FirstOf(r)') = Wires(FirstOf(r))
    BY <1>6, PairsSame
  <2>4. CASE r # d
    <3>1. /\ Wires(ComingOf(r)') = Wires(ComingOf(r)) /\ Datas(ComingOf(r)') = Datas(ComingOf(r))
          /\ Wires(CameOf(r)') = Wires(CameOf(r))
      BY <1>6, <2>4, PairsSame
    <3>2. credit'[r] = credit[r] /\ dataCredit'[r] = dataCredit[r]
      BY <1>1, <2>4 DEF QueueTypes
    <3> QED
      BY <2>1, <2>3, <3>1, <3>2 DEF PoolInv
  <2>5. CASE r = d
    <3>1. IsPackets(ComingOf(r)')
      BY <1>6, <2>2, <2>5 DEF IsPackets
    <3>2. Grows(ComingOf(r)', ComingOf(r), m, {i})
      BY <1>2, <1>6, <2>5, <3>1 DEF Grows
    <3>3. Grows(CameOf(r), CameOf(r)', m, {i})
      BY <1>2, <1>6, <2>2, <2>5 DEF Grows
    <3>4. Wires(Of(m, {i})) = Wire(Piece(m, i)) /\ Datas(Of(m, {i})) = Piece(m, i)
      BY <1>2, OnePacket
    <3>5. /\ Wires(ComingOf(r)) = Wires(ComingOf(r)') + Wire(Piece(m, i))
          /\ Datas(ComingOf(r)) = Datas(ComingOf(r)') + Piece(m, i)
          /\ Wires(ComingOf(r)') \in Nat /\ Datas(ComingOf(r)') \in Nat
      BY <3>2, <3>4, PairsGrow
    <3>6. Wires(CameOf(r)') = Wires(CameOf(r)) + Wire(Piece(m, i)) /\ Wires(CameOf(r)) \in Nat
      BY <3>3, <3>4, PairsGrow
    <3>7. credit'[r] = credit[r] + Wire(Piece(m, i)) /\ dataCredit'[r] = dataCredit[r] + Piece(m, i)
      BY <1>1, <2>5 DEF QueueTypes
    <3>8. /\ IsPackets(CoveredOf(r)) /\ IsPackets(FirstOf(r))
          /\ Wires(CoveredOf(r)) \in Nat /\ Wires(FirstOf(r)) \in Nat
      BY FamiliesType, PairsType DEF QueueInv, MessageInv
    <3>9. /\ credit'[r] + Wires(ComingOf(r)') = Wires(UnsentOf(r)')
          /\ dataCredit'[r] + Datas(ComingOf(r)') = Datas(UnsentOf(r)')
      BY <1>2, <2>1, <2>3, <3>5, <3>7 DEF PoolInv
    <3>10. /\ credit'[r] >= Wires(CoveredOf(r)')
           /\ credit'[r] <= MaxSrpb + Wires(FirstOf(r)') + Wires(CameOf(r)')
      BY <1>2, <2>1, <2>3, <3>6, <3>7, <3>8, SizesType DEF PoolInv
    <3> QED
      BY <3>9, <3>10 DEF PoolInv
  <2> QED
    BY <2>4, <2>5
<1> QED
  BY <1>3, <1>5, <1>7 DEF QueueInv

\* The packet that a message sends next, when k are sent.
LEMMA NextPacket ==
  ASSUME NEW m \in Msgs, NEW k \in Nat, left[m] = Size[m] - k * MaxPayload, left[m] > 0
  PROVE  /\ k + 1 \in Unsent(m) /\ Piece(m, k + 1) = NextPiece(m)
         /\ NextPiece(m) \in Nat /\ NextPiece(m) >= 1 /\ Wire(NextPiece(m)) \in Nat
         /\ left[m] <= MaxPayload => Unsent(m) = {k + 1} /\ NextPiece(m) = left[m]
         /\ left[m] > MaxPayload =>
              /\ {i \in Packets(m) : (i - 1) * MaxPayload >= Size[m] - (left[m] - NextPiece(m))}
                   = Unsent(m) \ {k + 1}
              /\ NextPiece(m) = MaxPayload /\ left[m] - NextPiece(m) = Size[m] - (k + 1) * MaxPayload
<1>1. /\ MaxPayload \in Nat /\ MaxPayload >= 1 /\ Size[m] \in Nat /\ k * MaxPayload \in Nat
      /\ (k + 1) * MaxPayload = k * MaxPayload + MaxPayload /\ k * MaxPayload < Size[m]
      /\ Size[m] - left[m] = k * MaxPayload /\ left[m] \in Nat
  <2>1. /\ MaxPayload \in Nat /\ MaxPayload >= 1 /\ Size[m] \in Nat /\ k * MaxPayload \in Nat
        /\ (k + 1) * MaxPayload = k * MaxPayload + MaxPayload
    BY SizesType, OneMore
  <2> QED
    BY <2>1
<1>2. k + 1 \in Packets(m) /\ (k + 1) - 1 = k
  BY <1>1, PacketsAre
<1>3. k + 1 \in Unsent(m)
  BY <1>1, <1>2 DEF Unsent
<1>4. Piece(m, k + 1) = NextPiece(m)
  <2>1. Piece(m, k + 1) = IF Size[m] - k * MaxPayload < MaxPayload THEN Size[m] - k * MaxPayload ELSE MaxPayload
    BY <1>1, PieceIs
  <2>2. Piece(m, k + 1) = IF left[m] < MaxPayload THEN left[m] ELSE MaxPayload
    BY <2>1
  <2>3. NextPiece(m) = IF left[m] <= MaxPayload THEN left[m] ELSE MaxPayload
    BY DEF NextPiece, NextPayload, Smaller
  <2>4. left[m] \in Nat /\ MaxPayload \in Nat
    BY <1>1
  <2>5. CASE left[m] < MaxPayload
    BY <2>2, <2>3, <2>4, <2>5
  <2>6. CASE left[m] = MaxPayload
    <3>1. Piece(m, k + 1) = MaxPayload
      BY <2>2, <2>4, <2>6
    <3>2. NextPiece(m) = MaxPayload
      BY <2>3, <2>6
    <3> QED
      BY <3>1, <3>2
  <2>7. CASE left[m] > MaxPayload
    <3>1. Piece(m, k + 1) = MaxPayload
      BY <2>2, <2>4, <2>7
    <3>2. NextPiece(m) = MaxPayload
      BY <2>3, <2>4, <2>7
    <3> QED
      BY <3>1, <3>2
  <2> QED
    BY <2>4, <2>5, <2>6, <2>7
<1>5. NextPiece(m) \in Nat /\ NextPiece(m) >= 1 /\ Wire(NextPiece(m)) \in Nat
  BY <1>2, <1>4, PieceType
<1>6. ASSUME NEW i \in Packets(m)
      PROVE  /\ (i - 1) * MaxPayload >= k * MaxPayload <=> i >= k + 1
             /\ (i - 1) * MaxPayload >= (k + 1) * MaxPayload <=> i >= k + 2
             /\ (i - 1) * MaxPayload < Size[m] /\ i \in Nat /\ (i - 1) * MaxPayload \in Nat
  <2> DEFINE j == i - 1
  <2>1. i \in Nat /\ j \in Nat /\ j + 1 = i /\ j * MaxPayload < Size[m] /\ j * MaxPayload \in Nat
    BY <1>1, PacketsType, Times
  <2> HIDE DEF j
  <2>2. ASSUME NEW x \in Nat PROVE j * MaxPayload >= x * MaxPayload <=> j >= x
    <3>1. CASE x <= j
      <4>1. x * MaxPayload <= j * MaxPayload /\ x * MaxPayload \in Nat
        BY <1>1, <2>1, <3>1, TimesMono, Times
      <4> QED
        BY <2>1, <3>1, <4>1
    <3>2. CASE j + 1 <= x
      <4>1. (j + 1) * MaxPayload <= x * MaxPayload /\ x * MaxPayload \in Nat
        BY <1>1, <2>1, <3>2, TimesMono, Times
      <4>2. (j + 1) * MaxPayload = j * MaxPayload + MaxPayload
        BY <1>1, <2>1, OneMore
      <4> QED
        BY <1>1, <2>1, <3>2, <4>1, <4>2
    <3> QED
      BY <2>1, <3>1, <3>2
  <2>3. /\ j * MaxPayload >= k * MaxPayload <=> j >= k
        /\ j * MaxPayload >= (k + 1) * MaxPayload <=> j >= k + 1
    BY <2>2
  <2>4. (j >= k <=> i >= k + 1) /\ (j >= k + 1 <=> i >= k + 2)
    BY <2>1
  <2> QED
    BY <2>1, <2>3, <2>4 DEF j
<1>7. \A i \in Packets(m) : i \in Unsent(m) <=> i >= k + 1
  BY <1>1, <1>6 DEF Unsent
<1>8. ASSUME left[m] <= MaxPayload PROVE Unsent(m) = {k + 1} /\ NextPiece(m) = left[m]
  <2>1. Size[m] <= (k + 1) * MaxPayload
    BY <1>1, <1>8
  <2>2. ASSUME NEW i \in Unsent(m) PROVE i = k + 1
    <3>1. i \in Packets(m) /\ i >= k + 1 /\ i \in Nat /\ ~((i - 1) * MaxPayload >= (k + 1) * MaxPayload)
      BY <1>1, <1>6, <1>7, <2>1 DEF Unsent
    <3>2. ~(i >= k + 2)
      BY <1>6, <3>1
    <3> QED
      BY <3>1, <3>2
  <2> QED
    <3>1. Unsent(m) = {k + 1}
      BY <1>3, <2>2
    <3>2. NextPiece(m) = left[m]
      BY <1>1, <1>8 DEF NextPiece, NextPayload, Smaller
    <3> QED
      BY <3>1, <3>2
<1>9. ASSUME left[m] > MaxPayload
      PROVE  /\ {i \in Packets(m) : (i - 1) * MaxPayload >= Size[m] - (left[m] - NextPiece(m))}
                  = Unsent(m) \ {k + 1}
             /\ NextPiece(m) = MaxPayload /\ left[m] - NextPiece(m) = Size[m] - (k + 1) * MaxPayload
  <2>1. NextPiece(m) = MaxPayload
    BY <1>1, <1>9 DEF NextPiece, NextPayload, Smaller
  <2>2. /\ left[m] - NextPiece(m) = Size[m] - (k + 1) * MaxPayload
        /\ Size[m] - (left[m] - NextPiece(m)) = (k + 1) * MaxPayload
    BY <1>1, <2>1
  <2>3. ASSUME NEW i \in Packets(m) PROVE i >= k + 2 <=> i \in Unsent(m) /\ i # k + 1
    BY <1>6, <1>7
  <2>4. \A i \in Packets(m) : (i - 1) * MaxPayload >= (k + 1) * MaxPayload <=> i \in Unsent(m) /\ i # k + 1
    BY <1>6, <2>3
  <2>5. Unsent(m) \subseteq Packets(m)
    BY DEF Unsent
  <2> QED
    BY <2>1, <2>2, <2>4, <2>5
<1> QED
  BY <1>3, <1>4, <1>5, <1>8, <1>9


\* The first packet of a message to be announced is paid for.
LEMMA FirstFits ==
  ASSUME QueueInv, NEW r \in Receivers, NEW m \in To(r) \ told
  PROVE  /\ m \in Msgs /\ Covered(m) \subseteq Packets(m) /\ Piece(m, 1) = NextPiece(m)
         /\ Wire(NextPiece(m)) <= Wires(Of(m, Covered(m))) /\ Wires(Of(m, Covered(m))) \in Nat
         /\ Wire(NextPiece(m)) <= credit[r]
<1>1. /\ m \in Msgs /\ m \in active /\ m \notin told /\ left[m] = Size[m] /\ left[m] > 0
      /\ own[m] >= 1 /\ own[m] \in Nat /\ credit[r] \in Nat /\ PoolInv(r) /\ Size[m] \in Nat
  BY SizesType DEF QueueInv, MessageInv, To, QueueTypes
<1>2. Piece(m, 1) = NextPiece(m) /\ Wire(NextPiece(m)) \in Nat
  <2>1. PICK z \in Nat : z = 0
    OBVIOUS
  <2>2. left[m] = Size[m] - z * MaxPayload /\ z + 1 = 1
    BY <1>1, <2>1, SizesType
  <2>3. Piece(m, z + 1) = NextPiece(m) /\ Wire(NextPiece(m)) \in Nat
    BY <1>1, <2>2, NextPacket
  <2> QED
    BY <2>2, <2>3
<1>3. Covered(m) \subseteq Packets(m) /\ 1 \in Covered(m)
  <2>1. PICK z \in Nat : z = 0
    OBVIOUS
  <2>2. (1 - 1) * MaxPayload < own[m]
    BY <1>1, SizesType
  <2> QED
    BY <1>1, <2>2, CoveredIs, FirstIsPacket DEF Covered
<1> DEFINE C == Covered(m)
<1>4. Grows(Of(m, C \ {1}), Of(m, C), m, {1})
  <2>1. /\ Of(m, C \ {1})[m] = C \ {1} /\ Of(m, C)[m] = C
        /\ \A n \in Msgs : n # m => Of(m, C)[n] = Of(m, C \ {1})[n]
    BY <1>1 DEF Of
  <2>2. IsPackets(Of(m, C \ {1}))
    BY <1>3 DEF IsPackets, Of
  <2> QED
    BY <1>1, <1>3, <2>1, <2>2 DEF Grows
<1>5. /\ Wires(Of(m, C)) = Wires(Of(m, C \ {1})) + Wires(Of(m, {1}))
      /\ Wires(Of(m, C \ {1})) \in Nat
  BY <1>4, PairsGrow
<1>6. Wires(Of(m, {1})) = Wire(NextPiece(m))
  BY <1>1, <1>2, FirstIsPacket, OnePacket
<1>7. IsPackets(CoveredOf(r)) /\ CoveredOf(r)[m] = C
  BY <1>1, FamiliesType DEF QueueInv, MessageInv, CoveredOf
<1> DEFINE f == [n \in Msgs |-> IF n = m THEN {} ELSE CoveredOf(r)[n]]
<1>8. Grows(f, CoveredOf(r), m, C)
  <2>1. f[m] = {} /\ \A n \in Msgs : n # m => f[n] = CoveredOf(r)[n]
    BY <1>1
  <2> HIDE DEF f
  <2> QED
    BY <1>1, <1>3, <1>7, <2>1 DEF Grows, IsPackets
<1> HIDE DEF f, C
<1>9. Wires(CoveredOf(r)) = Wires(f) + Wires(Of(m, C)) /\ Wires(f) \in Nat /\ Wires(Of(m, C)) \in Nat
  BY <1>8, PairsGrow
<1>10. credit[r] >= Wires(CoveredOf(r))
  BY <1>1 DEF PoolInv
<1>11. Wire(NextPiece(m)) <= Wires(Of(m, C))
  BY <1>2, <1>5, <1>6
<1>12. Wire(NextPiece(m)) <= credit[r]
  BY <1>1, <1>2, <1>9, <1>10, <1>11
<1> QED
  BY <1>1, <1>2, <1>3, <1>9, <1>11, <1>12 DEF C

LEMMA TransmitStep ==
  ASSUME QueueInv, NEW d \in Receivers, NEW m \in Offered(d), Transmit(m)
  PROVE  QueueInv'
<1>1. /\ m \in Fits(d)
      /\ Fits(d) \ told # {} => m \in Fits(d) \ told
  BY DEF Offered, Shortest, Longest
<1>2. /\ m \in Msgs /\ m \in active /\ Dst[m] = d /\ m \in To(d) /\ QueueTypes /\ MessageInv(m)
      /\ Wire(NextPiece(m)) <= credit[d] /\ credit[d] \in Nat /\ left[m] > 0 /\ left[m] \in Nat
      /\ left[m] <= Size[m] /\ dataCredit[d] \in Int
  BY <1>1 DEF Fits, To, QueueInv, QueueTypes, MessageInv
<1>3. PICK k \in Nat : left[m] = Size[m] - k * MaxPayload
  BY <1>2 DEF MessageInv
<1> DEFINE n == NextPiece(m)
<1>4. /\ k + 1 \in Unsent(m) /\ Piece(m, k + 1) = n /\ n \in Nat /\ n >= 1 /\ Wire(n) \in Nat
      /\ left[m] <= MaxPayload => Unsent(m) = {k + 1} /\ n = left[m]
      /\ left[m] > MaxPayload =>
           /\ {i \in Packets(m) : (i - 1) * MaxPayload >= Size[m] - (left[m] - n)} = Unsent(m) \ {k + 1}
           /\ n = MaxPayload /\ left[m] - n = Size[m] - (k + 1) * MaxPayload
  BY <1>2, <1>3, NextPacket
<1>5. /\ left' = [left EXCEPT ![m] = @ - n]
      /\ told' = told \cup {m}
      /\ active' = IF left[m] <= MaxPayload THEN active \ {m} ELSE active
      /\ credit' = [credit EXCEPT ![d] = @ - Wire(n)]
      /\ dataCredit' = [dataCredit EXCEPT ![d] = @ - n]
      /\ owed' = IF m \in told THEN owed ELSE [owed EXCEPT ![m] = Granted(m)]
      /\ own' = own
  BY <1>2 DEF Transmit
<1> HIDE DEF n
<1>6. /\ MaxPayload \in Nat /\ Size[m] \in Nat /\ left[m] - n \in Nat /\ credit[d] - Wire(n) \in Nat
      /\ left[m] > MaxPayload => left[m] - n > 0
      /\ left[m] - n < Size[m]
  <2>1. MaxPayload \in Nat /\ Size[m] \in Nat
    BY <1>2, SizesType
  <2>2. n \in Nat /\ n >= 1 /\ (left[m] <= MaxPayload => n = left[m]) /\ (left[m] > MaxPayload => n = MaxPayload)
    BY <1>4
  <2>3. credit[d] - Wire(n) \in Nat
    BY <1>2, <1>4 DEF n
  <2>4. left[m] - n \in Nat /\ (left[m] > MaxPayload => left[m] - n > 0) /\ left[m] - n < Size[m]
    BY <1>2, <2>1, <2>2
  <2> QED
    BY <2>1, <2>3, <2>4
<1>7. QueueTypes'
  BY <1>2, <1>4, <1>5, <1>6 DEF QueueTypes
<1>8. /\ left'[m] = left[m] - n
      /\ \A x \in Msgs : x # m => /\ left'[x] = left[x] /\ (x \in active' <=> x \in active)
                                 /\ (x \in told' <=> x \in told) /\ owed'[x] = owed[x]
      /\ credit'[d] = credit[d] - Wire(n) /\ dataCredit'[d] = dataCredit[d] - n
      /\ \A r \in Receivers : r # d => credit'[r] = credit[r] /\ dataCredit'[r] = dataCredit[r]
      /\ owed'[m] = IF m \in told THEN owed[m] ELSE Granted(m)
  BY <1>2, <1>5 DEF QueueTypes
<1>9. \A x \in Msgs : Covered(x)' = Covered(x) /\ Granted(x)' = Granted(x)
  BY <1>5 DEF Covered, Granted
<1>10. \A x \in Msgs : x # m => Unsent(x)' = Unsent(x)
  BY <1>8 DEF Unsent
<1>11. left[m] > MaxPayload => Unsent(m)' = Unsent(m) \ {k + 1}
  BY <1>4, <1>8 DEF Unsent
<1>12. \A x \in Msgs : Coming(x)' = Coming(x)
  <2>1. Coming(m)' = Coming(m)
    BY <1>2, <1>5, <1>8 DEF Coming
  <2>2. \A x \in Msgs : x # m => Coming(x)' = Coming(x)
    BY <1>8, <1>9 DEF Coming
  <2> QED
    BY <2>1, <2>2
<1>13. ASSUME NEW x \in Msgs PROVE MessageInv(x)'
  <2>1. CASE x = m
    <3>1. left'[m] <= Size[m] /\ left'[m] # Size[m]
      BY <1>2, <1>6, <1>8
    <3>2. m \in active' => left'[m] > 0 /\ \E j \in Nat : left'[m] = Size[m] - j * MaxPayload
      <4>1. SUFFICES ASSUME m \in active'
                     PROVE  left'[m] > 0 /\ \E j \in Nat : left'[m] = Size[m] - j * MaxPayload
        OBVIOUS
      <4>2. left[m] > MaxPayload
        BY <1>2, <1>5, <1>6, <4>1
      <4>3. left'[m] = Size[m] - (k + 1) * MaxPayload /\ left'[m] > 0
        <5>1. left[m] - n = Size[m] - (k + 1) * MaxPayload /\ left[m] - n > 0
          BY <1>4, <1>6, <4>2
        <5> QED
          BY <1>8, <5>1
      <4>4. k + 1 \in Nat
        OBVIOUS
      <4> QED
        BY <4>3, <4>4, Zenon
    <3>3. owed'[m] \subseteq Granted(m)' /\ m \in told'
      BY <1>2, <1>5, <1>8, <1>9 DEF MessageInv
    <3> QED
      BY <2>1, <3>1, <3>2, <3>3 DEF MessageInv
  <2>2. CASE x # m
    <3>1. MessageInv(x) /\ owed'[x] = owed[x] /\ own'[x] = own[x]
      BY <1>5, <1>8, <2>2 DEF QueueInv
    <3> QED
      BY <1>8, <1>9, <2>2, <3>1 DEF MessageInv
  <2> QED
    BY <2>1, <2>2
<1>14. ASSUME NEW r \in Receivers
       PROVE  /\ \A x \in Msgs : ComingOf(r)'[x] = ComingOf(r)[x] /\ CameOf(r)'[x] = CameOf(r)[x]
              /\ \A x \in Msgs : r # d \/ x # m =>
                   /\ UnsentOf(r)'[x] = UnsentOf(r)[x]
                   /\ CoveredOf(r)'[x] = CoveredOf(r)[x] /\ FirstOf(r)'[x] = FirstOf(r)[x]
              /\ r = d => /\ UnsentOf(r)'[m] = Unsent(m) \ {k + 1} /\ UnsentOf(r)[m] = Unsent(m)
                          /\ CoveredOf(r)'[m] = {} /\ FirstOf(r)'[m] = {}
                          /\ m \notin told => CoveredOf(r)[m] = Covered(m) /\ FirstOf(r)[m] = {1}
                          /\ m \in told => CoveredOf(r)[m] = {} /\ FirstOf(r)[m] = {}
  <2>1. \A x \in Msgs : ComingOf(r)'[x] = ComingOf(r)[x]
    BY <1>12 DEF ComingOf
  <2>2. \A x \in Msgs : CameOf(r)'[x] = CameOf(r)[x]
    <3>1. CameOf(r)'[m] = CameOf(r)[m]
      <4>1. CASE m \in told
        BY <1>2, <1>5, <1>8, <1>9, <4>1 DEF CameOf
      <4>2. CASE m \notin told
        <5>1. owed'[m] = Granted(m) /\ Granted(m)' = Granted(m)
          BY <1>2, <1>8, <1>9, <4>2
        <5>2. CameOf(r)[m] = {}
          BY <1>2, <4>2 DEF CameOf
        <5>3. CameOf(r)'[m] = {}
          BY <1>2, <5>1 DEF CameOf
        <5> QED
          BY <5>2, <5>3
      <4> QED
        BY <4>1, <4>2
    <3>2. \A x \in Msgs : x # m => CameOf(r)'[x] = CameOf(r)[x]
      BY <1>8, <1>9 DEF CameOf
    <3> QED
      BY <3>1, <3>2
  <2>3. To(r)' = IF r = d /\ left[m] <= MaxPayload THEN To(r) \ {m} ELSE To(r)
    BY <1>2, <1>5, <1>6 DEF To
  <2>4. ASSUME NEW x \in Msgs, r # d \/ x # m
        PROVE  /\ UnsentOf(r)'[x] = UnsentOf(r)[x]
               /\ CoveredOf(r)'[x] = CoveredOf(r)[x] /\ FirstOf(r)'[x] = FirstOf(r)[x]
    <3>1. CASE x = m
      <4>1. x \notin To(r) /\ x \notin To(r)'
        BY <1>2, <2>3, <2>4, <3>1 DEF To
      <4> QED
        BY <4>1 DEF UnsentOf, CoveredOf, FirstOf
    <3>2. CASE x # m
      <4>1. (x \in To(r)' <=> x \in To(r)) /\ (x \in To(r)' \ told' <=> x \in To(r) \ told)
        BY <1>8, <2>3, <3>2
      <4>2. Covered(x)' = Covered(x) /\ Unsent(x)' = Unsent(x)
        BY <1>9, <1>10, <3>2
      <4> QED
        BY <4>1, <4>2 DEF UnsentOf, CoveredOf, FirstOf
    <3> QED
      BY <3>1, <3>2
  <2>5. ASSUME r = d
        PROVE  /\ UnsentOf(r)'[m] = Unsent(m) \ {k + 1} /\ UnsentOf(r)[m] = Unsent(m)
               /\ CoveredOf(r)'[m] = {} /\ FirstOf(r)'[m] = {}
               /\ m \notin told => CoveredOf(r)[m] = Covered(m) /\ FirstOf(r)[m] = {1}
               /\ m \in told => CoveredOf(r)[m] = {} /\ FirstOf(r)[m] = {}
    <3>1. m \in To(r) /\ m \in told' /\ m \notin To(r)' \ told'
      BY <1>2, <1>5, <2>5
    <3>2. UnsentOf(r)'[m] = Unsent(m) \ {k + 1}
      <4>1. CASE left[m] <= MaxPayload
        <5>1. m \notin To(r)' /\ Unsent(m) = {k + 1}
          BY <1>4, <2>3, <2>5, <4>1
        <5> QED
          BY <1>2, <5>1 DEF UnsentOf
      <4>2. CASE ~(left[m] <= MaxPayload)
        <5>1. m \in To(r)' /\ Unsent(m)' = Unsent(m) \ {k + 1}
          BY <1>2, <1>6, <1>11, <2>3, <3>1, <4>2
        <5> QED
          BY <1>2, <5>1 DEF UnsentOf
      <4> QED
        BY <4>1, <4>2
    <3> QED
      BY <1>2, <3>1, <3>2 DEF UnsentOf, CoveredOf, FirstOf
  <2> QED
    BY <2>1, <2>2, <2>4, <2>5
<1>15. ASSUME NEW r \in Receivers PROVE PoolInv(r)'
  <2>1. PoolInv(r) /\ credit[r] \in Nat /\ dataCredit[r] \in Int
    BY DEF QueueInv, QueueTypes
  <2>2. /\ IsPackets(UnsentOf(r)) /\ IsPackets(ComingOf(r)) /\ IsPackets(CoveredOf(r))
        /\ IsPackets(FirstOf(r)) /\ IsPackets(CameOf(r))
    BY FamiliesType DEF QueueInv, MessageInv
  <2>3. /\ Wires(ComingOf(r)) \in Nat /\ Datas(ComingOf(r)) \in Nat
        /\ Wires(CoveredOf(r)) \in Nat /\ Wires(FirstOf(r)) \in Nat /\ Wires(CameOf(r)) \in Nat
    BY <2>2, PairsType
  <2>4. /\ Wires(ComingOf(r)') = Wires(ComingOf(r)) /\ Datas(ComingOf(r)') = Datas(ComingOf(r))
        /\ Wires(CameOf(r)') = Wires(CameOf(r))
    BY <1>14, PairsSame
  <2>5. CASE r # d
    <3>1. /\ Wires(UnsentOf(r)') = Wires(UnsentOf(r)) /\ Datas(UnsentOf(r)') = Datas(UnsentOf(r))
          /\ Wires(CoveredOf(r)') = Wires(CoveredOf(r)) /\ Wires(FirstOf(r)') = Wires(FirstOf(r))
      BY <1>14, <2>5, PairsSame
    <3>2. credit'[r] = credit[r] /\ dataCredit'[r] = dataCredit[r]
      BY <1>8, <2>5
    <3> QED
      BY <2>1, <2>4, <3>1, <3>2 DEF PoolInv
  <2>6. CASE r = d
    <3>1. k + 1 \in Packets(m) /\ Unsent(m) \subseteq Packets(m)
      BY <1>4 DEF Unsent
    <3>2. Grows(UnsentOf(r)', UnsentOf(r), m, {k + 1})
      <4>1. IsPackets(UnsentOf(r)')
        BY <1>14, <2>2, <2>6 DEF IsPackets
      <4> QED
        BY <1>2, <1>4, <1>14, <2>6, <3>1, <4>1 DEF Grows
    <3>3. Wires(Of(m, {k + 1})) = Wire(n) /\ Datas(Of(m, {k + 1})) = n
      BY <1>2, <1>4, <3>1, OnePacket
    <3>4. /\ Wires(UnsentOf(r)) = Wires(UnsentOf(r)') + Wire(n)
          /\ Datas(UnsentOf(r)) = Datas(UnsentOf(r)') + n
          /\ Wires(UnsentOf(r)') \in Nat /\ Datas(UnsentOf(r)') \in Nat
      BY <3>2, <3>3, PairsGrow
    <3>5. credit'[r] = credit[r] - Wire(n) /\ dataCredit'[r] = dataCredit[r] - n
      BY <1>8, <2>6
    <3>6. /\ credit'[r] + Wires(ComingOf(r)') = Wires(UnsentOf(r)')
          /\ dataCredit'[r] + Datas(ComingOf(r)') = Datas(UnsentOf(r)')
      BY <1>4, <2>1, <2>3, <2>4, <3>4, <3>5 DEF PoolInv
    <3>7. credit[r] >= Wires(CoveredOf(r)) /\ credit[r] <= MaxSrpb + Wires(FirstOf(r)) + Wires(CameOf(r))
      BY <2>1 DEF PoolInv
    <3>8. CASE m \notin told
      <4>1. /\ Covered(m) \subseteq Packets(m) /\ Piece(m, 1) = n
            /\ Wire(n) <= Wires(Of(m, Covered(m))) /\ Wires(Of(m, Covered(m))) \in Nat
        BY <1>2, <2>6, <3>8, FirstFits DEF n
      <4>2. Grows(CoveredOf(r)', CoveredOf(r), m, Covered(m))
        <5>1. IsPackets(CoveredOf(r)')
          BY <1>14, <2>2, <2>6 DEF IsPackets
        <5> QED
          BY <1>2, <1>14, <2>6, <3>8, <4>1, <5>1 DEF Grows
      <4>3. Grows(FirstOf(r)', FirstOf(r), m, {1})
        <5>1. IsPackets(FirstOf(r)')
          BY <1>14, <2>2, <2>6 DEF IsPackets
        <5> QED
          BY <1>2, <1>14, <2>6, <3>8, <5>1, FirstIsPacket DEF Grows
      <4>4. Wires(CoveredOf(r)) = Wires(CoveredOf(r)') + Wires(Of(m, Covered(m))) /\ Wires(CoveredOf(r)') \in Nat
        BY <4>2, PairsGrow
      <4>5. Wires(FirstOf(r)) = Wires(FirstOf(r)') + Wire(n) /\ Wires(FirstOf(r)') \in Nat
        <5>1. Wires(FirstOf(r)) = Wires(FirstOf(r)') + Wires(Of(m, {1})) /\ Wires(FirstOf(r)') \in Nat
          BY <4>3, PairsGrow
        <5>2. Wires(Of(m, {1})) = Wire(n)
          BY <1>2, <4>1, FirstIsPacket, OnePacket
        <5> QED
          BY <5>1, <5>2
      <4>6. credit'[r] >= Wires(CoveredOf(r)')
        BY <1>4, <2>1, <3>5, <3>7, <4>1, <4>4
      <4>7. credit'[r] <= MaxSrpb + Wires(FirstOf(r)') + Wires(CameOf(r)')
        BY <1>4, <2>1, <2>3, <2>4, <3>5, <3>7, <4>5, SizesType
      <4> QED
        BY <3>6, <4>6, <4>7 DEF PoolInv
    <3>9. CASE m \in told
      <4>1. ASSUME NEW x \in To(r) \ told PROVE FALSE
        <5>1. Wire(NextPiece(x)) <= credit[r]
          BY FirstFits
        <5>2. x \in Fits(d) \ told
          BY <2>6, <5>1 DEF Fits
        <5> QED
          BY <1>1, <3>9, <5>2
      <4>2. \A x \in Msgs : CoveredOf(r)[x] = {} /\ FirstOf(r)[x] = {}
        BY <4>1 DEF CoveredOf, FirstOf
      <4>3. \A x \in Msgs : CoveredOf(r)'[x] = {} /\ FirstOf(r)'[x] = {}
        BY <1>14, <2>6, <4>2
      <4>4. Wires(CoveredOf(r)') = 0 /\ Wires(FirstOf(r)') = 0 /\ Wires(FirstOf(r)) = 0
        BY <4>2, <4>3, PairsNone
      <4>5. credit'[r] \in Nat
        BY <1>7 DEF QueueTypes
      <4>6. credit'[r] >= Wires(CoveredOf(r)')
        BY <4>4, <4>5
      <4>7. credit'[r] <= MaxSrpb + Wires(FirstOf(r)') + Wires(CameOf(r)')
        BY <1>4, <2>1, <2>3, <2>4, <3>5, <3>7, <4>4, SizesType
      <4> QED
        BY <3>6, <4>6, <4>7 DEF PoolInv
    <3> QED
      BY <3>8, <3>9
  <2> QED
    BY <2>5, <2>6
<1> QED
  BY <1>7, <1>13, <1>15 DEF QueueInv

\* The queues are left alone.
LEMMA QueuesAlone ==
  ASSUME QueueInv, UNCHANGED queueVars
  PROVE  QueueInv'
<1>1. UNCHANGED <<left, active, told, own, owed, credit, dataCredit>>
  BY DEF queueVars
<1>2. \A m \in Msgs : /\ Covered(m)' = Covered(m) /\ Granted(m)' = Granted(m)
                      /\ Unsent(m)' = Unsent(m) /\ Coming(m)' = Coming(m)
  BY <1>1 DEF Covered, Granted, Unsent, Coming
<1>3. QueueTypes' /\ \A m \in Msgs : MessageInv(m)'
  BY <1>1, <1>2 DEF QueueInv, QueueTypes, MessageInv
<1>4. ASSUME NEW r \in Receivers PROVE PoolInv(r)'
  <2>1. To(r)' = To(r)
    BY <1>1 DEF To
  <2>2. /\ UnsentOf(r)' = UnsentOf(r) /\ ComingOf(r)' = ComingOf(r) /\ CoveredOf(r)' = CoveredOf(r)
        /\ FirstOf(r)' = FirstOf(r) /\ CameOf(r)' = CameOf(r)
    BY <1>1, <1>2, <2>1 DEF UnsentOf, ComingOf, CoveredOf, FirstOf, CameOf
  <2> QED
    BY <1>1, <2>2 DEF QueueInv, PoolInv
<1> QED
  BY <1>3, <1>4 DEF QueueInv

\* What send_data does to the queues.
LEMMA SendDataStep ==
  ASSUME QueueInv, SendData
  PROVE  QueueInv'
<1>1. CASE Ready = {} /\ SendNothing /\ UNCHANGED queueVars
  BY <1>1, QueuesAlone
<1>2. ASSUME NEW offer \in Offers, NEW top \in Preferred(offer),
             SendPacket(Ready, top), Transmit(offer[served'])
      PROVE  QueueInv'
  <2>1. served' \in Ready
    BY <1>2 DEF SendPacket, Select, Largest
  <2>2. offer[served'] \in Offered(served') /\ served' \in Receivers
    BY <2>1 DEF Offers, Ready
  <2> QED
    BY <1>2, <2>2, TransmitStep
<1> QED
  BY <1>1, <1>2 DEF SendData

LEMMA NextQueueInv == QueueInv /\ [QNext]_<<vars, queueVars>> => QueueInv'
<1> SUFFICES ASSUME QueueInv, [QNext]_<<vars, queueVars>> PROVE QueueInv'
  OBVIOUS
<1>1. ASSUME NEW m \in Msgs, Activate(m) PROVE QueueInv'
  BY <1>1, ActivateStep
<1>2. ASSUME NEW m \in Msgs, NEW i \in owed[m], Grant(m, i) PROVE QueueInv'
  BY <1>2, GrantStep
<1>3. CASE SendData
  BY <1>3, SendDataStep
<1>4. CASE UNCHANGED <<vars, queueVars>>
  BY <1>4, QueuesAlone
<1> QED
  BY <1>1, <1>2, <1>3, <1>4 DEF QNext

LEMMA QueueInductive == QSpec => []QueueInv
  BY InitQueueInv, NextQueueInv, PTL DEF QSpec

\* A step of the queues is a packet of the policy, or none of its business.
LEMMA QueueStep == [QNext]_<<vars, queueVars>> => [Next]_vars
<1> SUFFICES ASSUME [QNext]_<<vars, queueVars>> PROVE [Next]_vars
  OBVIOUS
<1>1. ASSUME NEW offer \in Offers, NEW top \in Preferred(offer), SendPacket(Ready, top)
      PROVE  Next
  <2>1. top \in Ready /\ Ready \subseteq Receivers
    BY DEF Preferred, Ready
  <2>2. Ready \in (SUBSET Receivers) \ {{}}
    BY <2>1
  <2> QED
    BY <1>1, <2>1, <2>2 DEF Next
<1>2. CASE SendData
  BY <1>1, <1>2 DEF SendData, Next
<1>3. CASE \E m \in Msgs : Activate(m) \/ \E i \in owed[m] : Grant(m, i)
  BY <1>3 DEF Activate, Grant
<1> QED
  BY <1>2, <1>3 DEF QNext, vars

LEMMA PolicyStep == TypeOK /\ [Next]_vars => TypeOK'
<1> SUFFICES ASSUME TypeOK, [Next]_vars PROVE TypeOK'
  OBVIOUS
<1>1. ASSUME NEW ready \in (SUBSET Receivers) \ {{}}, NEW top \in ready, SendPacket(ready, top)
      PROVE  TypeOK'
  BY <1>1, PacketTypes
<1>2. CASE SendNothing
  BY <1>2, Constant DEF SendNothing, TypeOK
<1>3. CASE UNCHANGED vars
  BY <1>3 DEF vars, TypeOK
<1> QED
  BY <1>1, <1>2, <1>3 DEF Next

-----------------------------------------------------------------------------
(* What the queues keep *)

\* However many messages there are, and whatever their sizes, they take turns as
\* the deficit round robin says.
THEOREM QueuesImplementPolicy == QSpec => Implements
<1>1. QInit => Init
  BY DEF QInit
<1> QED
  BY <1>1, QueueStep, PTL DEF QSpec, Spec, Implements

\* No packet overdraws the credit of its receiver.
THEOREM QueuesTypeCorrect == QSpec => []QTypeOK
<1>1. QInit => TypeOK
  BY Constant DEF QInit, Init, TypeOK
<1>2. TypeOK /\ [QNext]_<<vars, queueVars>> => TypeOK'
  BY QueueStep, PolicyStep
<1>3. TypeOK /\ QueueInv => QTypeOK
  BY CoveredIs DEF QueueInv, QueueTypes, MessageInv, QTypeOK
<1> QED
  BY <1>1, <1>2, <1>3, QueueInductive, PTL DEF QSpec

\* The credit a message brought along, for all or for a part of it, is there until its
\* first packet has told the receiver.
THEOREM CreditIsCovered == QSpec => []UntoldCovered
<1>1. ASSUME QueueInv, NEW r \in Receivers
      PROVE  credit[r] >= Cost(UNION {{m} \X Covered(m) : m \in To(r) \ told})
  <2>1. IsPackets(CoveredOf(r))
    BY <1>1, FamiliesType DEF QueueInv, MessageInv
  <2>2. To(r) \subseteq Msgs
    BY <1>1 DEF To, QueueInv, QueueTypes
  <2> DEFINE P == UNION {{m} \X Covered(m) : m \in To(r) \ told}
  <2>3. \A p : p \in P <=> \E m \in To(r) \ told : \E i \in Covered(m) : p = <<m, i>>
    OBVIOUS
  <2> HIDE DEF P
  <2>4. \A p : p \in Pairs(CoveredOf(r)) <=> \E m \in Msgs : \E i \in CoveredOf(r)[m] : p = <<m, i>>
    BY PairOf
  <2>5. /\ \A m \in To(r) \ told : m \in Msgs /\ CoveredOf(r)[m] = Covered(m)
        /\ \A m \in Msgs : m \notin To(r) \ told => CoveredOf(r)[m] = {}
    BY <2>2 DEF CoveredOf
  <2>6. ASSUME NEW p PROVE p \in P <=> p \in Pairs(CoveredOf(r))
    BY <2>3, <2>4, <2>5
  <2>7. P = Pairs(CoveredOf(r))
    BY <2>6
  <2>8. Cost(P) = Wires(CoveredOf(r))
    BY <2>1, <2>7, CostIs
  <2>9. credit[r] >= Wires(CoveredOf(r))
    BY <1>1 DEF QueueInv, PoolInv
  <2> QED
    BY <2>8, <2>9 DEF P
<1>2. QueueInv => UntoldCovered
  BY <1>1 DEF UntoldCovered
<1> QED
  BY <1>2, QueueInductive, PTL

\* A pool never holds more than its limit, a frame for every message to be announced,
\* and what the receiver sent.
THEOREM PoolIsLimited == QSpec => []PoolLimited
<1>1. ASSUME QueueInv, NEW r \in Receivers
      PROVE  credit[r] <= MaxSrpb
                            + Cost(UNION {{m} \X {1} : m \in To(r) \ told})
                            + Cost(UNION {{m} \X (Granted(m) \ owed[m]) : m \in {k \in told : Dst[k] = r}})
  <2>1. IsPackets(FirstOf(r)) /\ IsPackets(CameOf(r))
    BY <1>1, FamiliesType DEF QueueInv, MessageInv
  <2>2. To(r) \subseteq Msgs /\ told \subseteq Msgs
    BY <1>1 DEF To, QueueInv, QueueTypes
  <2> DEFINE P == UNION {{m} \X {1} : m \in To(r) \ told}
             T == {k \in told : Dst[k] = r}
             Q == UNION {{m} \X (Granted(m) \ owed[m]) : m \in T}
  <2>3. T \subseteq Msgs /\ \A m \in Msgs : m \in T <=> m \in told /\ Dst[m] = r
    BY <2>2
  <2>4. \A p : p \in P <=> \E m \in To(r) \ told : p = <<m, 1>>
    OBVIOUS
  <2> HIDE DEF T
  <2>5. \A p : p \in Q <=> \E m \in T : \E i \in Granted(m) \ owed[m] : p = <<m, i>>
    OBVIOUS
  <2> HIDE DEF P, Q
  <2>6. /\ \A p : p \in Pairs(FirstOf(r)) <=> \E m \in Msgs : \E i \in FirstOf(r)[m] : p = <<m, i>>
        /\ \A p : p \in Pairs(CameOf(r)) <=> \E m \in Msgs : \E i \in CameOf(r)[m] : p = <<m, i>>
    BY PairOf
  <2>7. /\ \A m \in To(r) \ told : m \in Msgs /\ FirstOf(r)[m] = {1}
        /\ \A m \in Msgs : m \notin To(r) \ told => FirstOf(r)[m] = {}
    BY <2>2 DEF FirstOf
  <2>8. /\ \A m \in T : m \in Msgs /\ CameOf(r)[m] = Granted(m) \ owed[m]
        /\ \A m \in Msgs : m \notin T => CameOf(r)[m] = {}
    BY <2>3 DEF CameOf
  <2>9. ASSUME NEW p PROVE p \in P <=> p \in Pairs(FirstOf(r))
    BY <2>4, <2>6, <2>7
  <2>10. ASSUME NEW p PROVE p \in Q <=> p \in Pairs(CameOf(r))
    BY <2>5, <2>6, <2>8
  <2>11. P = Pairs(FirstOf(r)) /\ Q = Pairs(CameOf(r))
    BY <2>9, <2>10
  <2>12. Cost(P) = Wires(FirstOf(r)) /\ Cost(Q) = Wires(CameOf(r))
    BY <2>1, <2>11, CostIs
  <2>13. credit[r] <= MaxSrpb + Wires(FirstOf(r)) + Wires(CameOf(r))
    BY <1>1 DEF QueueInv, PoolInv
  <2> QED
    BY <2>12, <2>13 DEF P, Q, T
<1>2. QueueInv => PoolLimited
  BY <1>1 DEF PoolLimited
<1> QED
  BY <1>2, QueueInductive, PTL

\* Both counts of credit are back at zero when all is sent and no grant is to come,
\* whatever part of their credit the messages brought along.
THEOREM NoCreditLeft == QSpec => []CreditUsedUp
<1>1. QueueInv => CreditUsedUp
  <2> SUFFICES ASSUME QueueInv, NEW r \in Receivers, To(r) = {},
                      \A m \in Msgs : Dst[m] = r => owed[m] = {}
               PROVE  credit[r] = 0 /\ dataCredit[r] = 0
    BY DEF CreditUsedUp
  <2>1. \A m \in Msgs : UnsentOf(r)[m] = {} /\ ComingOf(r)[m] = {}
    BY DEF UnsentOf, ComingOf, Coming, To
  <2>2. credit[r] \in Nat /\ dataCredit[r] \in Int /\ PoolInv(r)
    BY DEF QueueInv, QueueTypes
  <2>3. /\ Wires(UnsentOf(r)) = 0 /\ Datas(UnsentOf(r)) = 0
        /\ Wires(ComingOf(r)) = 0 /\ Datas(ComingOf(r)) = 0
    BY <2>1, PairsNone
  <2> QED
    BY <2>2, <2>3 DEF PoolInv
<1> QED
  BY <1>1, QueueInductive, PTL
=============================================================================
