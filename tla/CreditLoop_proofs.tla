--------------------------- MODULE CreditLoop_proofs ---------------------------
(***************************************************************************)
(* Proofs about what is built around the credit loop.                      *)
(*                                                                         *)
(* The polling loop of a receiver (GrantOrder), for any messages and       *)
(* policies: the loop never loses its place in the array, each of its      *)
(* steps is a step of the credit loop, so that whatever holds of that one  *)
(* holds under every policy, and the policy that sorts by size grants the  *)
(* shortest message first.                                                 *)
(*                                                                         *)
(* The paths of grants and data (PhantomPath), for any spines and any      *)
(* checksum: once everything is delivered, each path has carried what its  *)
(* phantom queues counted.                                                 *)
(***************************************************************************)
EXTENDS GrantOrder, PhantomPath, HybridCredit_proofs, SequenceTheorems

-----------------------------------------------------------------------------
(* Sequences without duplicates *)

Distinct(seq) == \A i, j \in 1 .. Len(seq) : seq[i] = seq[j] => i = j

LEMMA RemoveAtProperties ==
  ASSUME NEW S, NEW seq \in Seq(S), NEW i \in 1 .. Len(seq)
  PROVE  /\ RemoveAt(seq, i) \in Seq(S)
         /\ Len(RemoveAt(seq, i)) = Len(seq) - 1
         /\ \A j \in 1 .. Len(seq) - 1 :
              RemoveAt(seq, i)[j] = IF j < i THEN seq[j] ELSE seq[j + 1]
<1> DEFINE a == SubSeq(seq, 1, i - 1)
           b == SubSeq(seq, i + 1, Len(seq))
           n == Len(seq)
<1>1. n \in Nat /\ i \in Int /\ \A j \in 1 .. n : seq[j] \in S
  OBVIOUS
<1>2. /\ a \in Seq(S) /\ Len(a) = i - 1
      /\ \A j \in 1 .. i - 1 : a[j] = seq[j]
  BY <1>1, SubSeqProperties
<1>3. /\ b \in Seq(S) /\ Len(b) = n - i
      /\ \A j \in 1 .. n - i : b[j] = seq[j + i]
  BY <1>1, SubSeqProperties
<1> DEFINE c == a \o b
<1>4. RemoveAt(seq, i) = c
  BY DEF RemoveAt
<1> HIDE DEF a, b
<1>5. Len(a) + Len(b) = n - 1
  BY <1>1, <1>2, <1>3
<1>6. /\ c \in Seq(S) /\ Len(c) = n - 1
      /\ \A j \in 1 .. n - 1 : c[j] = IF j <= Len(a) THEN a[j] ELSE b[j - Len(a)]
  <2>1. /\ a \o b \in Seq(S) /\ Len(a \o b) = Len(a) + Len(b)
        /\ \A j \in 1 .. Len(a) + Len(b) :
             (a \o b)[j] = IF j <= Len(a) THEN a[j] ELSE b[j - Len(a)]
    BY <1>2, <1>3, ConcatProperties, Zenon
  <2> QED
    BY <1>5, <2>1, Zenon
<1> HIDE DEF c
<1>7. ASSUME NEW j \in 1 .. n - 1
      PROVE  c[j] = IF j < i THEN seq[j] ELSE seq[j + 1]
  <2>1. CASE j < i
    BY <1>1, <1>2, <1>6, <2>1
  <2>2. CASE j >= i
    <3>1. j - (i - 1) \in 1 .. n - i /\ (j - (i - 1)) + i = j + 1
      BY <1>1, <2>2
    <3>2. b[j - (i - 1)] = seq[j + 1]
      BY <1>3, <3>1
    <3> QED
      BY <1>1, <1>2, <1>6, <2>2, <3>2
  <2> QED
    BY <1>1, <2>1, <2>2
<1> QED
  BY <1>4, <1>6, <1>7

\* The elements that are left, and that they are still distinct.
LEMMA RemoveAtDistinct ==
  ASSUME NEW S, NEW seq \in Seq(S), Distinct(seq), NEW i \in 1 .. Len(seq)
  PROVE  /\ Distinct(RemoveAt(seq, i))
         /\ ToSet(RemoveAt(seq, i)) = ToSet(seq) \ {seq[i]}
<1> DEFINE r == RemoveAt(seq, i)
           n == Len(seq)
<1>1. /\ n \in Nat /\ r \in Seq(S) /\ Len(r) = n - 1
      /\ \A j \in 1 .. n - 1 : r[j] = IF j < i THEN seq[j] ELSE seq[j + 1]
  <2>1. n \in Nat
    BY LenProperties
  <2>2. /\ r \in Seq(S) /\ Len(r) = n - 1
        /\ \A j \in 1 .. n - 1 : r[j] = IF j < i THEN seq[j] ELSE seq[j + 1]
    BY RemoveAtProperties, Zenon
  <2> QED
    BY <2>1, <2>2
<1> HIDE DEF r
<1>2. Distinct(r)
  BY <1>1 DEF Distinct
<1>3. ASSUME NEW j \in 1 .. n, j # i PROVE \E k \in 1 .. n - 1 : r[k] = seq[j]
  <2>1. CASE j < i
    BY <1>1, <2>1
  <2>2. CASE j > i
    <3>1. j - 1 \in 1 .. n - 1 /\ r[j - 1] = seq[j]
      BY <1>1, <2>2
    <3> QED
      BY <3>1
  <2> QED
    BY <1>1, <1>3, <2>1, <2>2
<1>4. ASSUME NEW k \in 1 .. n - 1 PROVE \E j \in 1 .. n : j # i /\ r[k] = seq[j]
  <2>1. CASE k < i
    BY <1>1, <2>1
  <2>2. CASE k >= i
    <3>1. k + 1 \in 1 .. n /\ k + 1 # i /\ r[k] = seq[k + 1]
      BY <1>1, <2>2
    <3> QED
      BY <3>1
  <2> QED
    BY <1>1, <2>1, <2>2
<1>5. DOMAIN r = 1 .. n - 1 /\ DOMAIN seq = 1 .. n
  BY <1>1, LenProperties
<1>6. ToSet(r) = ToSet(seq) \ {seq[i]}
  <2>1. ASSUME NEW x \in ToSet(r) PROVE x \in ToSet(seq) \ {seq[i]}
    <3>1. PICK k \in 1 .. n - 1 : x = r[k]
      BY <1>5 DEF ToSet
    <3>2. PICK j \in 1 .. n : j # i /\ x = seq[j]
      BY <1>4, <3>1
    <3> QED
      BY <1>5, <3>2 DEF ToSet, Distinct
  <2>2. ASSUME NEW x \in ToSet(seq), x # seq[i] PROVE x \in ToSet(r)
    BY <1>3, <1>5, <2>2 DEF ToSet
  <2> QED
    BY <2>1, <2>2
<1> QED
  BY <1>2, <1>6 DEF r

\* A finite set can be put into a sequence.
LEMMA SetToSeqProperties ==
  ASSUME NEW S, IsFiniteSet(S)
  PROVE  /\ SetToSeq(S) \in Seq(S) /\ Distinct(SetToSeq(S)) /\ ToSet(SetToSeq(S)) = S
<1> DEFINE n == Cardinality(S)
           f == SetToSeq(S)
<1>1. n \in Nat /\ \E g \in [1 .. n -> S] : IsInjective(g)
  BY FS_CardinalityType DEF ExistsBijection, Bijection, Injection
<1>2. f \in [1 .. n -> S] /\ IsInjective(f)
  BY <1>1 DEF SetToSeq
<1> HIDE DEF f
<1>3. f \in Injection(1 .. n, S)
  BY <1>2 DEF Injection
<1>4. IsFiniteSet(1 .. n) /\ Cardinality(1 .. n) = n
  BY <1>1, FS_Interval
<1>5. f \in Surjection(1 .. n, S)
  BY <1>3, <1>4, FS_Injection
<1>6. f \in Seq(S) /\ Len(f) = n /\ DOMAIN f = 1 .. n
  BY <1>1, <1>2
<1>7. Distinct(f)
  BY <1>2, <1>6 DEF Distinct, IsInjective
<1>8. ToSet(f) = S
  BY <1>2, <1>5, <1>6 DEF ToSet, Surjection
<1> QED
  BY <1>6, <1>7, <1>8 DEF f

\* Every sequence of SetToSeqs is one with each element once.
LEMMA SetToSeqsProperties ==
  ASSUME NEW S, IsFiniteSet(S), NEW f \in SetToSeqs(S)
  PROVE  f \in Seq(S) /\ Distinct(f) /\ ToSet(f) = S
<1> DEFINE n == Cardinality(S)
<1>1. n \in Nat
  BY FS_CardinalityType
<1>2. f \in [1 .. n -> S] /\ \A i, j \in 1 .. n : i # j => f[i] # f[j]
  BY DEF SetToSeqs
<1> HIDE DEF n
<1>3. f \in Injection(1 .. n, S)
  BY <1>2 DEF Injection, IsInjective
<1>4. IsFiniteSet(1 .. n) /\ Cardinality(1 .. n) = n
  BY <1>1, FS_Interval
<1>5. f \in Surjection(1 .. n, S)
  BY <1>3, <1>4, FS_Injection DEF n
<1>6. f \in Seq(S) /\ Len(f) = n /\ DOMAIN f = 1 .. n
  BY <1>1, <1>2
<1>7. Distinct(f)
  BY <1>2, <1>6 DEF Distinct
<1>8. ToSet(f) = S
  BY <1>2, <1>5, <1>6 DEF ToSet, Surjection
<1> QED
  BY <1>6, <1>7, <1>8

\* A sequence without duplicates is as long as its set.
LEMMA DistinctLength ==
  ASSUME NEW S, NEW seq \in Seq(S), Distinct(seq)
  PROVE  Len(seq) = Cardinality(ToSet(seq))
<1> DEFINE n == Len(seq)
           T == ToSet(seq)
<1>1. n \in Nat /\ DOMAIN seq = 1 .. n /\ seq \in [1 .. n -> S]
  BY LenProperties
<1>2. seq \in [1 .. n -> T]
  BY <1>1 DEF ToSet
<1>3. seq \in Injection(1 .. n, T) /\ seq \in Surjection(1 .. n, T)
  BY <1>1, <1>2 DEF Injection, IsInjective, Surjection, Distinct, ToSet
<1>4. ExistsBijection(1 .. n, T)
  BY <1>3 DEF ExistsBijection, Bijection
<1> QED
  BY <1>1, <1>4, FS_CountingElements

\* Two such sequences of different sets, one behind the other.
LEMMA ConcatDistinct ==
  ASSUME NEW S, NEW a \in Seq(S), NEW b \in Seq(S), Distinct(a), Distinct(b),
         ToSet(a) \cap ToSet(b) = {}
  PROVE  Distinct(a \o b) /\ ToSet(a \o b) = ToSet(a) \cup ToSet(b)
<1> DEFINE c == a \o b
           n == Len(a)
           k == Len(b)
<1>1. /\ n \in Nat /\ k \in Nat
      /\ DOMAIN a = 1 .. n /\ DOMAIN b = 1 .. k
  BY LenProperties
<1>2. /\ c \in Seq(S) /\ Len(c) = n + k
      /\ \A i \in 1 .. n + k : c[i] = IF i <= n THEN a[i] ELSE b[i - n]
  BY ConcatProperties
<1>3. DOMAIN c = 1 .. n + k
  BY <1>1, <1>2, LenProperties
<1> HIDE DEF c
<1>4. ASSUME NEW i \in 1 .. n, NEW j \in 1 .. k PROVE a[i] # b[j]
  BY <1>1 DEF ToSet
<1>5. Distinct(c)
  <2> SUFFICES ASSUME NEW i \in 1 .. n + k, NEW j \in 1 .. n + k, c[i] = c[j] PROVE i = j
    BY <1>2 DEF Distinct
  <2>1. CASE i <= n /\ j <= n
    BY <1>1, <1>2, <2>1 DEF Distinct
  <2>2. CASE i > n /\ j > n
    <3>1. i - n \in 1 .. k /\ j - n \in 1 .. k /\ b[i - n] = b[j - n]
      BY <1>1, <1>2, <2>2
    <3>2. i - n = j - n
      BY <3>1 DEF Distinct
    <3> QED
      BY <1>1, <3>2
  <2>3. CASE i <= n /\ j > n
    <3>1. i \in 1 .. n /\ j - n \in 1 .. k /\ a[i] = b[j - n]
      BY <1>1, <1>2, <2>3
    <3> QED
      BY <1>4, <3>1
  <2>4. CASE i > n /\ j <= n
    <3>1. j \in 1 .. n /\ i - n \in 1 .. k /\ a[j] = b[i - n]
      BY <1>1, <1>2, <2>4
    <3> QED
      BY <1>4, <3>1
  <2> QED
    BY <1>1, <2>1, <2>2, <2>3, <2>4
<1>6. ToSet(c) = ToSet(a) \cup ToSet(b)
  <2>1. ASSUME NEW i \in 1 .. n + k PROVE c[i] \in ToSet(a) \cup ToSet(b)
    <3>1. CASE i <= n
      BY <1>1, <1>2, <3>1 DEF ToSet
    <3>2. CASE i > n
      <4>1. i - n \in 1 .. k /\ c[i] = b[i - n]
        BY <1>1, <1>2, <3>2
      <4> QED
        BY <1>1, <4>1 DEF ToSet
    <3> QED
      BY <1>1, <3>1, <3>2
  <2>2. ASSUME NEW i \in 1 .. n PROVE a[i] \in ToSet(c)
    <3>1. i \in 1 .. n + k /\ c[i] = a[i]
      BY <1>1, <1>2
    <3> QED
      BY <1>3, <3>1 DEF ToSet
  <2>3. ASSUME NEW j \in 1 .. k PROVE b[j] \in ToSet(c)
    <3>1. j + n \in 1 .. n + k /\ c[j + n] = b[j]
      BY <1>1, <1>2
    <3> QED
      BY <1>3, <3>1 DEF ToSet
  <2> QED
    BY <1>1, <1>3, <2>1, <2>2, <2>3 DEF ToSet
<1> QED
  BY <1>5, <1>6 DEF c

-----------------------------------------------------------------------------
(* The array and the place in it *)

\* Every inbound message is in the array once, and the place is in it.
PlaceInv ==
  /\ order \in Seq(Msgs) /\ Distinct(order) /\ ToSet(order) = inbound
  /\ current \in Nat /\ (current < Len(order) \/ current = 0)

LEMMA NextInArray ==
  ASSUME NEW n \in Nat \ {0}, NEW a \in 0 .. n - 1
  PROVE  (a + 1) % n = IF a + 1 = n THEN 0 ELSE a + 1
  OBVIOUS

\* Where a message is found.
LEMMA PositionProperties ==
  ASSUME PlaceInv, NEW m \in inbound
  PROVE  /\ Position(m) \in 0 .. Len(order) - 1 /\ order[Position(m) + 1] = m
         /\ Len(order) \in Nat \ {0}
<1>1. Len(order) \in Nat /\ DOMAIN order = 1 .. Len(order)
  BY LenProperties DEF PlaceInv
<1>2. PICK i \in 1 .. Len(order) : order[i] = m
  BY <1>1 DEF PlaceInv, ToSet
<1>3. i - 1 \in 0 .. Len(order) - 1 /\ (i - 1) + 1 = i
  BY <1>1, <1>2
<1>4. \E pos \in 0 .. Len(order) - 1 : order[pos + 1] = m
  BY <1>2, <1>3, Zenon
<1>5. Position(m) \in 0 .. Len(order) - 1 /\ order[Position(m) + 1] = m
  BY <1>4, Zenon DEF Position
<1>6. Len(order) \in Nat \ {0}
  BY <1>1, <1>2
<1> QED
  BY <1>5, <1>6

LEMMA PlaceAfterProperties ==
  ASSUME NEW n \in Nat, NEW place \in 0 .. n, NEW pos \in 0 .. n
  PROVE  /\ PlaceAfter(place, pos, n) \in Nat
         /\ PlaceAfter(place, pos, n) < n \/ PlaceAfter(place, pos, n) = 0
<1>1. CASE n = 0
  BY <1>1 DEF PlaceAfter
<1>2. CASE n > 0
  <2>1. place % n \in 0 .. n - 1
    BY <1>2
  <2> QED
    BY <1>2, <2>1 DEF PlaceAfter
<1> QED
  BY <1>1, <1>2

\* What remove() leaves, wherever the place was.
LEMMA RemoveMsgPlace ==
  ASSUME PlaceInv, NEW m \in inbound, NEW place \in 0 .. Len(order) - 1, RemoveMsg(m, place)
  PROVE  /\ order' \in Seq(Msgs) /\ Distinct(order') /\ ToSet(order') = inbound \ {m}
         /\ Len(order') = Len(order) - 1
         /\ current' \in Nat /\ (current' < Len(order') \/ current' = 0)
<1> DEFINE i == Position(m) + 1
           n == Len(order) - 1
<1>1. i \in 1 .. Len(order) /\ order[i] = m /\ n \in Nat /\ Position(m) \in 0 .. n /\ place \in 0 .. n
  BY PositionProperties
<1>2. order' = RemoveAt(order, i) /\ current' = PlaceAfter(place, Position(m), n)
  BY DEF RemoveMsg
<1> HIDE DEF i, n
<1>3. order' \in Seq(Msgs) /\ Len(order') = n
  BY <1>1, <1>2, RemoveAtProperties DEF PlaceInv, n
<1>4. Distinct(order') /\ ToSet(order') = inbound \ {m}
  BY <1>1, <1>2, RemoveAtDistinct DEF PlaceInv
<1> QED
  BY <1>1, <1>2, <1>3, <1>4, PlaceAfterProperties DEF n

\* A handler opens or deletes the state of one message at most.
LEMMA OneMessage ==
  ASSUME TypeOK,
         (\E m \in Msgs : Submit(m)) \/ Transfer
  PROVE  \E m \in Msgs : inbound' \in {inbound, inbound \cup {m}, inbound \ {m}}
<1>1. ASSUME NEW m \in Msgs, Submit(m)
      PROVE  \E n \in Msgs : inbound' \in {inbound, inbound \cup {n}, inbound \ {n}}
  BY <1>1 DEF Submit, receiverVars, inboundVars
<1>2. ASSUME NEW s \in Senders, Activate(s) \/ SendPacket(s)
      PROVE  inbound' = inbound
  BY <1>2 DEF Activate, SendPacket, receiverVars, inboundVars
<1>3. ASSUME NEW p \in net, Receive(p)
      PROVE  \E n \in Msgs : inbound' \in {inbound, inbound \cup {n}, inbound \ {n}}
  <2>1. p.msg \in Msgs
    BY DEF TypeOK, Packet
  <2>2. inbound' \in {inbound, inbound \cup {p.msg}, inbound \ {p.msg}}
    BY <1>3 DEF Receive, ReceiveGrant, ReceiveGrantReq, ReceiveData, ReceiveReply,
                receiverVars, inboundVars
  <2> QED
    BY <2>1, <2>2
<1>4. ASSUME NEW s \in Senders, Activate(s) \/ SendPacket(s)
      PROVE  \E n \in Msgs : inbound' \in {inbound, inbound \cup {n}, inbound \ {n}}
  <2>1. Head(inactive[s]) \in Msgs \/ \E n \in Msgs : n \in active[s]
    <3>1. CASE Activate(s)
      <4>1. inactive[s] \in Seq(Msgs) /\ inactive[s] # <<>>
        BY <3>1 DEF Activate, TypeOK
      <4> QED
        BY <4>1, HeadTailProperties
    <3>2. CASE SendPacket(s)
      BY <3>2 DEF SendPacket, Choice, TypeOK
    <3> QED
      BY <1>4, <3>1, <3>2
  <2> QED
    BY <1>2, <1>4, <2>1
<1> QED
  BY <1>1, <1>3, <1>4 DEF Transfer

\* The array follows the states.
LEMMA KeepPlace ==
  ASSUME TypeOK, TypeOK', PlaceInv, Keep, NEW m \in Msgs,
         inbound' \in {inbound, inbound \cup {m}, inbound \ {m}}
  PROVE  PlaceInv'
<1>1. IsFiniteSet(inbound' \ inbound) /\ inbound' \ inbound \subseteq Msgs
  BY SetsAssumption, FS_Subset DEF TypeOK
<1>2. Len(order) \in Nat
  BY LenProperties DEF PlaceInv
<1>3. CASE inbound' \ inbound # {}
  <2> DEFINE new == SetToSeq(inbound' \ inbound)
  <2>1. new \in Seq(inbound' \ inbound) /\ Distinct(new) /\ ToSet(new) = inbound' \ inbound
    BY <1>1, SetToSeqProperties
  <2>2. new \in Seq(Msgs)
    BY <1>1, <2>1, SeqMonotonic
  <2>3. order' = order \o new /\ current' = current
    BY <1>3 DEF Keep
  <2> HIDE DEF new
  <2>4. Distinct(order') /\ ToSet(order') = inbound \cup (inbound' \ inbound)
    BY <2>1, <2>2, <2>3, ConcatDistinct DEF PlaceInv
  <2>5. order' \in Seq(Msgs) /\ Len(order') = Len(order) + Len(new) /\ Len(new) \in Nat
    BY <2>2, <2>3, ConcatProperties, LenProperties DEF PlaceInv
  <2>6. inbound \cup (inbound' \ inbound) = inbound'
    BY <1>3
  <2> QED
    BY <1>2, <2>3, <2>4, <2>5, <2>6 DEF PlaceInv
<1>4. CASE inbound' \ inbound = {} /\ inbound \ inbound' # {}
  <2>1. PICK n \in inbound \ inbound' : RemoveMsg(n, current)
    BY <1>4 DEF Keep
  <2>2. current \in 0 .. Len(order) - 1
    BY <2>1, PositionProperties DEF PlaceInv
  <2>3. inbound' = inbound \ {n}
    BY <1>4, <2>1
  <2> QED
    BY <2>1, <2>2, <2>3, RemoveMsgPlace DEF PlaceInv
<1>5. CASE inbound' = inbound
  BY <1>5 DEF Keep, PlaceInv
<1> QED
  BY <1>3, <1>4, <1>5

-----------------------------------------------------------------------------
(* The poll *)

\* Between polls nothing is counted.  While the policy that sorts by size polls,
\* the array is sorted and nothing before the place can have a grant, unless it
\* has had one.
PollInv ==
  /\ visits \in Nat /\ polling \in BOOLEAN
  /\ ~polling => fed = {} /\ visits = 0
  /\ polling /\ policy = "SRPT" /\ visits < Len(order) =>
       /\ current <= visits
       /\ Sorted(order)
       /\ \A i \in 1 .. current : order[i] \in fed \/ ~(Wants(order[i]) /\ Affordable(order[i]))

\* While there is something to visit, the place has a message.
LEMMA VisiteeInbound ==
  ASSUME TypeOK, PlaceInv, visits \in Nat, visits < Len(order)
  PROVE  /\ Len(order) \in Nat \ {0} /\ current \in 0 .. Len(order) - 1
         /\ Visitee \in inbound /\ Visitee \in Msgs
<1>1. Len(order) \in Nat /\ DOMAIN order = 1 .. Len(order)
  BY LenProperties DEF PlaceInv
<1>2. Len(order) # 0 /\ current \in 0 .. Len(order) - 1
  BY <1>1 DEF PlaceInv
<1>3. current + 1 \in 1 .. Len(order)
  BY <1>1, <1>2
<1> QED
  BY <1>1, <1>2, <1>3 DEF PlaceInv, Visitee, ToSet, TypeOK

\* The visited message is where the place is.
LEMMA VisiteePosition ==
  ASSUME TypeOK, PlaceInv, visits \in Nat, visits < Len(order)
  PROVE  Position(Visitee) = current
<1>1. /\ Position(Visitee) + 1 \in 1 .. Len(order) /\ current + 1 \in 1 .. Len(order)
      /\ order[Position(Visitee) + 1] = order[current + 1]
      /\ Position(Visitee) \in Int /\ current \in Int
  BY VisiteeInbound, PositionProperties DEF Visitee
<1>2. Position(Visitee) + 1 = current + 1
  BY <1>1 DEF PlaceInv, Distinct
<1> QED
  BY <1>1, <1>2

-----------------------------------------------------------------------------
(* The loop is the credit loop *)

\* Every step of the receiver's loop is a step of HybridCredit or leaves it alone.
LEMMA OrderStep ==
  ASSUME TypeOK, PlaceInv, PollInv, [OrderNext]_allVars
  PROVE  [Next]_vars
<1>1. CASE Start
  BY <1>1 DEF Start
<1>2. CASE Visit
  <2>1. Visitee \in Msgs
    BY <1>2, VisiteeInbound DEF Visit, PollInv
  <2>2. Grant(Visitee) \/ Reap(Visitee) \/ UNCHANGED vars
    BY <1>2 DEF Visit, GrantVisit, ReapSorted, ReapShared, NothingToGrant
  <2> QED
    BY <2>1, <2>2 DEF Next
<1>3. CASE Stop
  BY <1>3 DEF Stop
<1>4. ASSUME NEW m \in Msgs, Between(Submit(m)) PROVE [Next]_vars
  BY <1>4 DEF Between, Next
<1>5. CASE Between(Transfer)
  BY <1>5 DEF Between, Transfer, Next
<1>6. CASE UNCHANGED allVars
  BY <1>6 DEF allVars
<1> QED
  BY <1>1, <1>2, <1>3, <1>4, <1>5, <1>6 DEF OrderNext, Poll

LEMMA OrderStepTypeOK ==
  ASSUME TypeOK, PlaceInv, PollInv, [OrderNext]_allVars
  PROVE  TypeOK'
  BY OrderStep, NextTypeOK

-----------------------------------------------------------------------------
(* The place is kept *)

LEMMA StartPlace ==
  ASSUME TypeOK, PlaceInv, Start
  PROVE  PlaceInv'
<1>1. IsFiniteSet(inbound) /\ inbound \subseteq Msgs /\ inbound' = inbound
  BY SetsAssumption, FS_Subset DEF TypeOK, Start, vars, receiverVars, inboundVars
<1>2. CASE policy = "TS"
  BY <1>1, <1>2 DEF Start, PlaceInv
<1>3. CASE policy # "TS"
  <2>1. order' \in SetToSeqs(inbound) /\ current' = 0
    BY <1>3 DEF Start
  <2>2. order' \in Seq(inbound) /\ Distinct(order') /\ ToSet(order') = inbound
    BY <1>1, <2>1, SetToSeqsProperties
  <2>3. order' \in Seq(Msgs)
    BY <1>1, <2>2, SeqMonotonic
  <2> QED
    BY <1>1, <2>1, <2>2, <2>3 DEF PlaceInv
<1> QED
  BY <1>2, <1>3

LEMMA NextPlaceType ==
  ASSUME TypeOK, PlaceInv, visits \in Nat, visits < Len(order)
  PROVE  /\ NextPlace \in 0 .. Len(order) - 1
         /\ NextPlace = IF current + 1 = Len(order) THEN 0 ELSE current + 1
  BY VisiteeInbound, NextInArray DEF NextPlace

LEMMA VisitPlace ==
  ASSUME TypeOK, PlaceInv, PollInv, Visit
  PROVE  PlaceInv'
<1>1. visits \in Nat /\ visits < Len(order)
  BY DEF Visit, PollInv
<1>2. /\ Len(order) \in Nat \ {0} /\ current \in 0 .. Len(order) - 1
      /\ Visitee \in inbound /\ NextPlace \in 0 .. Len(order) - 1
  BY <1>1, VisiteeInbound, NextPlaceType
<1>3. CASE GrantVisit
  BY <1>2, <1>3 DEF GrantVisit, Grant, PlaceInv
<1>4. CASE ReapSorted
  <2>1. RemoveMsg(Visitee, NextPlace) /\ inbound' = inbound \ {Visitee}
    BY <1>4 DEF ReapSorted, Reap
  <2> QED
    BY <1>2, <2>1, RemoveMsgPlace DEF PlaceInv
<1>5. CASE ReapShared
  <2>1. order' = RemoveAt(order, current + 1) /\ inbound' = inbound \ {Visitee}
    BY <1>5 DEF ReapShared, Reap
  <2>2. /\ order' \in Seq(Msgs) /\ Len(order') = Len(order) - 1 /\ Distinct(order')
        /\ ToSet(order') = inbound \ {Visitee}
    <3>1. current + 1 \in 1 .. Len(order) /\ order \in Seq(Msgs) /\ Distinct(order)
          /\ ToSet(order) = inbound
      BY <1>2 DEF PlaceInv
    <3>2. order' \in Seq(Msgs) /\ Len(order') = Len(order) - 1
      BY <2>1, <3>1, RemoveAtProperties
    <3>3. Distinct(order') /\ ToSet(order') = ToSet(order) \ {order[current + 1]}
      BY <2>1, <3>1, RemoveAtDistinct, Zenon
    <3> QED
      BY <3>1, <3>2, <3>3 DEF Visitee
  <2>3. CASE order' = <<>>
    <3>1. current' = 0
      BY <1>5, <2>3, Zenon DEF ReapShared
    <3> QED
      BY <2>1, <2>2, <3>1 DEF PlaceInv
  <2>4. CASE order' # <<>>
    <3>1. Len(order') \in Nat \ {0}
      BY <2>2, <2>4, EmptySeq
    <3>2. PlaceAfter(current, current, Len(order')) \in Nat
      BY <1>2, <2>2, <3>1, PlaceAfterProperties
    <3>3. current' = (PlaceAfter(current, current, Len(order')) + 1) % Len(order')
      BY <1>5, <2>4 DEF ReapShared
    <3>4. current' \in 0 .. Len(order') - 1
      BY <3>1, <3>2, <3>3
    <3> QED
      BY <2>1, <2>2, <3>1, <3>4 DEF PlaceInv
  <2> QED
    BY <2>3, <2>4
<1>6. CASE NothingToGrant
  BY <1>2, <1>6 DEF NothingToGrant, PlaceInv, vars, receiverVars, inboundVars
<1> QED
  BY <1>3, <1>4, <1>5, <1>6 DEF Visit

LEMMA StepPlace ==
  ASSUME TypeOK, PlaceInv, PollInv, [OrderNext]_allVars
  PROVE  PlaceInv'
<1>1. TypeOK'
  BY OrderStepTypeOK
<1>2. CASE Start
  BY <1>2, StartPlace
<1>3. CASE Visit
  BY <1>3, VisitPlace
<1>4. CASE Stop
  BY <1>4 DEF Stop, PlaceInv, vars, receiverVars, inboundVars
<1>5. ASSUME Keep, (\E m \in Msgs : Submit(m)) \/ Transfer PROVE PlaceInv'
  <2>1. PICK m \in Msgs : inbound' \in {inbound, inbound \cup {m}, inbound \ {m}}
    BY <1>5, OneMessage
  <2> QED
    BY <1>1, <1>5, <2>1, KeepPlace
<1>6. CASE (\E m \in Msgs : Between(Submit(m))) \/ Between(Transfer)
  BY <1>5, <1>6 DEF Between
<1>7. CASE UNCHANGED allVars
  BY <1>7 DEF allVars, orderVars, vars, receiverVars, inboundVars, PlaceInv
<1> QED
  BY <1>2, <1>3, <1>4, <1>5, <1>6, <1>7 DEF OrderNext, Poll

-----------------------------------------------------------------------------
(* What a poll counts on *)

LEMMA RemainingType ==
  ASSUME TypeOK, NEW m \in Msgs
  PROVE  Remaining(m) \in Int
<1>1. Total(Size, Msgs) \in Nat
  BY SetsAssumption, TotalNat DEF IsWeight
<1>2. Size[m] \in Nat /\ received[m] \in Nat
  BY SizeType DEF TypeOK
<1> QED
  BY <1>1, <1>2 DEF Remaining

\* What it is to be sorted by size.
LEMMA SortedBySize ==
  ASSUME policy = "SRPT", NEW seq
  PROVE  Sorted(seq) <=> \A i, j \in 1 .. Len(seq) : i < j => ~(Remaining(seq[j]) < Remaining(seq[i]))
  BY DEF Sorted, Before

LEMMA SortedKept ==
  ASSUME policy = "SRPT", UNCHANGED <<policy, info, received>>, Sorted(order')
  PROVE  Sorted(order)'
<1>1. \A i, j \in 1 .. Len(order') : i < j => ~(Remaining(order'[j]) < Remaining(order'[i]))
  BY SortedBySize
<1>2. \A i, j \in 1 .. Len(order') : i < j => ~(Remaining(order[j])' < Remaining(order[i])')
  BY <1>1 DEF Remaining
<1>3. policy' = "SRPT"
  OBVIOUS
<1> QED
  BY <1>2, <1>3 DEF Sorted, Before

\* What could not have a grant cannot have one after another message had one.
LEMMA StaysUnaffordable ==
  ASSUME TypeOK, NEW m \in Msgs, Grant(m), NEW n \in Msgs, n # m, (Wants(n) /\ Affordable(n))'
  PROVE  Wants(n) /\ Affordable(n)
<1> DEFINE g == Wire(GrantData(m))
           need == Wire(GrantData(n))
<1>1. /\ Size[m] \in Nat /\ granted[m] \in Nat /\ granted[m] < Size[m]
      /\ Size[n] \in Nat /\ granted[n] \in Nat
      /\ Src[m] \in Senders /\ Src[n] \in Senders
      /\ budget \in Int /\ srpb[Src[n]] \in Int /\ srpb[Src[m]] \in Int
      /\ window[Src[n]] \in Int /\ MaxSrpb \in Nat
  <2>1. Size[m] \in Nat /\ Size[n] \in Nat /\ Src[m] \in Senders /\ Src[n] \in Senders
    BY SizeType
  <2>2. granted[m] \in Nat /\ granted[n] \in Nat /\ granted[m] < Size[m]
    BY DEF Grant, TypeOK
  <2>3. budget \in Int /\ srpb[Src[n]] \in Int /\ srpb[Src[m]] \in Int
    BY <2>1 DEF TypeOK
  <2>4. window[Src[n]] \in Windows
    BY <2>1 DEF TypeOK
  <2>5. window[Src[n]] \in 0 .. MaxSrpb /\ MaxSrpb \in Nat
    BY <2>4, BytesAssumption, FramesAssumption
  <2> QED
    BY <2>1, <2>2, <2>3, <2>5
<1>2. g \in Nat
  BY <1>1, NextPayloadType, WireType DEF GrantData
<1>3. /\ granted'[n] = granted[n] /\ info'[n] = info[n] /\ window' = window
      /\ budget' = budget - g
      /\ srpb'[Src[n]] = IF Src[n] = Src[m] THEN srpb[Src[n]] - g ELSE srpb[Src[n]]
  BY <1>1 DEF Grant, TypeOK
<1> HIDE DEF g
<1>4. Wants(n) /\ GrantData(n)' = GrantData(n)
  BY <1>3 DEF Wants, GrantData
<1>5. need \in Nat
  BY <1>1, <1>4, NextPayloadType, WireType DEF GrantData, Wants
<1>6. /\ budget' >= need /\ srpb'[Src[n]] >= need
      /\ MaxSrpb - srpb'[Src[n]] <= window'[Src[n]]
  BY <1>4 DEF Affordable
<1> HIDE DEF need
<1>7. budget >= need /\ srpb[Src[n]] >= need /\ MaxSrpb - srpb[Src[n]] <= window[Src[n]]
  BY <1>1, <1>2, <1>3, <1>5, <1>6
<1> QED
  BY <1>4, <1>7 DEF Affordable, need

\* The part of PollInv about a poll that sorts by size.
Passed == \A i \in 1 .. current : order[i] \in fed \/ ~(Wants(order[i]) /\ Affordable(order[i]))

LEMMA VisitPoll ==
  ASSUME TypeOK, PlaceInv, PollInv, Visit, polling', policy = "SRPT", visits' < Len(order)'
  PROVE  current' <= visits' /\ Sorted(order)' /\ Passed'
<1>1. visits \in Nat /\ visits < Len(order) /\ polling
  BY DEF Visit, PollInv
<1>2. /\ Len(order) \in Nat \ {0} /\ current \in 0 .. Len(order) - 1
      /\ Visitee \in inbound /\ Visitee \in Msgs
      /\ NextPlace = IF current + 1 = Len(order) THEN 0 ELSE current + 1
  BY <1>1, VisiteeInbound, NextPlaceType
<1>3. current <= visits /\ Sorted(order) /\ Passed
  BY <1>1 DEF PollInv, Passed
<1>4. \A i \in 1 .. current + 1 : i \in 1 .. Len(order) /\ order[i] \in Msgs
  BY <1>2 DEF PlaceInv
<1>5. policy' = policy
  BY DEF Visit
<1>6. CASE GrantVisit
  <2>1. /\ order' = order /\ current' = current + 1 /\ visits' = visits + 1
        /\ fed' = fed \cup {Visitee} /\ Grant(Visitee)
    BY <1>1, <1>2, <1>3, <1>6 DEF GrantVisit, GoOn
  <2>2. info' = info /\ received' = received
    BY <2>1 DEF Grant
  <2>3. Sorted(order)'
    BY <1>3, <1>5, <2>1, <2>2, SortedKept
  <2>4. ASSUME NEW i \in 1 .. current', order[i] \notin fed', (Wants(order[i]) /\ Affordable(order[i]))'
        PROVE  FALSE
    <3>1. i \in 1 .. current + 1 /\ order[i] # Visitee /\ order[i] \notin fed
      BY <2>1, <2>4
    <3>2. i \in 1 .. current
      BY <1>2, <3>1 DEF Visitee
    <3>3. order'[i] = order[i] /\ order[i] \in Msgs
      BY <1>4, <2>1, <3>1
    <3>4. Wants(order[i]) /\ Affordable(order[i])
      BY <1>2, <2>1, <2>4, <3>1, <3>3, StaysUnaffordable
    <3> QED
      BY <1>3, <3>1, <3>2, <3>4 DEF Passed
  <2>5. Passed'
    BY <2>1, <2>4 DEF Passed
  <2> QED
    BY <1>2, <1>3, <1>1, <2>1, <2>3, <2>5
<1>7. CASE ReapSorted
  <2>1. /\ RemoveMsg(Visitee, NextPlace) /\ visits' = visits + 1 /\ fed' = fed
        /\ UNCHANGED <<info, received, granted, budget, srpb, window>>
    BY <1>7 DEF ReapSorted, GoOn, Reap
  <2>2. /\ order' = RemoveAt(order, current + 1)
        /\ current' = PlaceAfter(NextPlace, current, Len(order) - 1)
    BY <1>1, <2>1, VisiteePosition DEF RemoveMsg
  <2>3. /\ current + 1 \in 1 .. Len(order) /\ order \in Seq(Msgs)
        /\ current \in Nat /\ Len(order) \in Nat
    BY <1>2 DEF PlaceInv
  <2>4. /\ Len(order') = Len(order) - 1
        /\ \A j \in 1 .. Len(order) - 1 : order'[j] = IF j < current + 1 THEN order[j] ELSE order[j + 1]
    BY <2>2, <2>3, RemoveAtProperties
  <2>5. current + 1 < Len(order) - 1
    BY <1>1, <1>3, <2>1, <2>3, <2>4
  <2>6. current' = current
    <3>1. \A n \in Nat : current + 1 < n - 1 => current + 1 # n /\ n - 1 # 0
      BY <2>3
    <3>2. current + 1 # Len(order) /\ Len(order) - 1 # 0
      BY <2>3, <2>5, <3>1
    <3>3. current' = PlaceAfter(current + 1, current, Len(order) - 1)
      BY <1>2, <2>2, <3>2
    <3> QED
      BY <2>3, <3>2, <3>3 DEF PlaceAfter
  <2>7. Sorted(order')
    <3>1. ASSUME NEW i \in 1 .. Len(order'), NEW j \in 1 .. Len(order'), i < j
          PROVE  ~(Remaining(order'[j]) < Remaining(order'[i]))
      <4> DEFINE a == IF i < current + 1 THEN i ELSE i + 1
                 b == IF j < current + 1 THEN j ELSE j + 1
      <4>1. /\ a \in 1 .. Len(order) /\ b \in 1 .. Len(order) /\ a < b
            /\ order'[i] = order[a] /\ order'[j] = order[b]
        BY <2>3, <2>4, <3>1
      <4> HIDE DEF a, b
      <4> QED
        BY <1>3, <4>1, SortedBySize
    <3> QED
      BY <3>1, SortedBySize
  <2>8. Sorted(order)'
    BY <1>5, <2>1, <2>7, SortedKept
  <2>9. ASSUME NEW i \in 1 .. current'
        PROVE  order'[i] \in fed' \/ ~(Wants(order'[i]) /\ Affordable(order'[i]))
    <3>1. i \in 1 .. current /\ order'[i] = order[i]
      BY <2>3, <2>4, <2>5, <2>6
    <3> QED
      BY <1>3, <2>1, <3>1 DEF Passed
  <2>10. Passed'
    BY <2>1, <2>9 DEF Passed, Wants, Affordable, GrantData
  <2> QED
    BY <1>1, <1>3, <2>1, <2>3, <2>6, <2>8, <2>10
<1>8. CASE NothingToGrant
  <2>1. /\ ~(Wants(Visitee) /\ Affordable(Visitee))
        /\ current' = NextPlace /\ visits' = visits + 1
        /\ UNCHANGED <<order, fed, vars>>
    BY <1>8 DEF NothingToGrant, Breaks, GoOn
  <2>2. current' = current + 1
    BY <1>1, <1>2, <1>3, <2>1
  <2>3. UNCHANGED <<info, received, granted, budget, srpb, window>>
    BY <2>1 DEF vars, receiverVars, inboundVars
  <2>4. Sorted(order)'
    BY <1>3, <1>5, <2>1, <2>3, SortedKept
  <2>5. ASSUME NEW i \in 1 .. current + 1
        PROVE  order[i] \in fed \/ ~(Wants(order[i]) /\ Affordable(order[i]))
    <3>1. CASE i \in 1 .. current
      BY <1>3, <3>1 DEF Passed
    <3>2. CASE i = current + 1
      BY <2>1, <3>2 DEF Visitee
    <3> QED
      BY <1>2, <3>1, <3>2
  <2>6. Passed'
    BY <2>1, <2>2, <2>3, <2>5 DEF Passed, Wants, Affordable, GrantData
  <2> QED
    BY <1>1, <1>2, <1>3, <2>1, <2>2, <2>4, <2>6
<1> QED
  BY <1>6, <1>7, <1>8 DEF Visit, ReapShared

LEMMA StepPoll ==
  ASSUME TypeOK, PlaceInv, PollInv, [OrderNext]_allVars
  PROVE  PollInv'
<1>1. CASE Start
  <2>1. /\ polling' = TRUE /\ visits' = 0 /\ ~polling
        /\ UNCHANGED <<policy, fed, info, received>>
    BY <1>1 DEF Start, PollInv, vars, receiverVars, inboundVars
  <2>2. CASE policy = "SRPT"
    <3>1. current' = 0 /\ Sorted(order')
      BY <1>1, <2>2 DEF Start
    <3>2. Sorted(order)'
      BY <2>1, <2>2, <3>1, SortedKept
    <3> QED
      BY <2>1, <3>1, <3>2 DEF PollInv
  <2>3. CASE policy # "SRPT"
    BY <2>1, <2>3 DEF PollInv
  <2> QED
    BY <2>2, <2>3
<1>2. CASE Visit
  <2>1. /\ visits \in Nat /\ policy' = policy
        /\ \/ polling' = TRUE /\ visits' = visits + 1
           \/ polling' = FALSE /\ visits' = 0 /\ fed' = {}
    BY <1>2 DEF Visit, PollInv, GrantVisit, ReapSorted, ReapShared, NothingToGrant, GoOn, End
  <2>2. visits' \in Nat /\ polling' \in BOOLEAN /\ (~polling' => fed' = {} /\ visits' = 0)
    <3>1. CASE polling' = TRUE /\ visits' = visits + 1
      BY <2>1, <3>1
    <3>2. CASE polling' = FALSE /\ visits' = 0 /\ fed' = {}
      BY <3>2
    <3> QED
      BY <2>1, <3>1, <3>2, Zenon
  <2>3. polling' /\ policy' = "SRPT" /\ visits' < Len(order)'
          => current' <= visits' /\ Sorted(order)' /\ Passed'
    BY <1>2, <2>1, VisitPoll
  <2> QED
    BY <2>2, <2>3 DEF PollInv, Passed
<1>3. CASE Stop
  BY <1>3 DEF Stop, End, PollInv
<1>4. ASSUME NEW step, Between(step) PROVE PollInv'
  BY <1>4 DEF Between, PollInv
<1>5. CASE UNCHANGED allVars
  <2>1. UNCHANGED <<policy, order, current, polling, visits, fed>>
    BY <1>5 DEF allVars, orderVars
  <2>2. UNCHANGED <<info, received, granted, budget, srpb, window>>
    BY <1>5 DEF allVars, vars, receiverVars, inboundVars
  <2>3. policy = "SRPT" /\ Sorted(order) => Sorted(order)'
    BY <2>1, <2>2, SortedKept
  <2>4. Passed => Passed'
    BY <2>1, <2>2 DEF Passed, Wants, Affordable, GrantData
  <2> QED
    BY <2>1, <2>3, <2>4 DEF PollInv, Passed
<1> QED
  BY <1>1, <1>2, <1>3, <1>4, <1>5 DEF OrderNext, Poll

-----------------------------------------------------------------------------
(* What the loop keeps *)

LoopInv == TypeOK /\ PlaceInv /\ PollInv

LEMMA LoopInvHolds == OrderSpec => []LoopInv
<1>1. OrderInit => LoopInv
  <2> SUFFICES ASSUME OrderInit PROVE LoopInv
    OBVIOUS
  <2>1. TypeOK
    BY InitTypeOK DEF OrderInit
  <2>2. /\ order = <<>> /\ inbound = {} /\ current = 0 /\ polling = FALSE
        /\ visits = 0 /\ fed = {}
    BY DEF OrderInit, Init
  <2>3. PlaceInv
    BY <2>2 DEF PlaceInv, Distinct, ToSet
  <2>4. PollInv
    BY <2>2 DEF PollInv
  <2> QED
    BY <2>1, <2>3, <2>4 DEF LoopInv
<1>2. LoopInv /\ [OrderNext]_allVars => LoopInv'
  BY OrderStepTypeOK, StepPlace, StepPoll DEF LoopInv
<1> QED
  BY <1>1, <1>2, PTL DEF OrderSpec

\* The array has every inbound message once and current_ is a place in it, for any
\* messages, under each policy, however messages come and go between two polls
\* and during one.
THEOREM PlaceKept == OrderSpec => []OrderKept
<1>1. LoopInv => OrderKept
  BY DistinctLength DEF LoopInv, PlaceInv, OrderKept
<1> QED
  BY <1>1, LoopInvHolds, PTL

\* The loop is an implementation of the credit loop, which grants in any order:
\* whatever is proved of HybridCredit holds under every policy.
THEOREM LoopImplements == OrderSpec => Spec
<1>1. OrderInit => Init
  BY DEF OrderInit
<1>2. LoopInv /\ [OrderNext]_allVars => [Next]_vars
  BY OrderStep DEF LoopInv
<1> QED
  BY <1>1, <1>2, LoopInvHolds, PTL DEF OrderSpec, Spec

\* Nothing is lost, minted or opened again by the polls of any policy.
THEOREM PoliciesConserve == OrderSpec => [](PayloadConserved /\ CreditConserved) /\ NoRevival
  BY LoopImplements, PayloadKept, CreditKept, NoStateRevived, PTL

\* The policy that sorts by size grants the shortest message that can have a grant.
THEOREM ShortestGranted == OrderSpec => ShortestFirst
<1>1. ASSUME LoopInv, [OrderNext]_allVars, NEW m \in fed' \ fed, policy = "SRPT",
             NEW n \in inbound \ fed, Wants(n), Affordable(n), Remaining(n) < Remaining(m)
      PROVE  FALSE
  <2>1. Visit /\ GrantVisit
    BY <1>1 DEF OrderNext, Poll, Start, Visit, ReapSorted, ReapShared, NothingToGrant, Stop,
                End, Between, allVars, orderVars
  <2>2. m = Visitee /\ visits \in Nat /\ visits < Len(order) /\ polling
    BY <1>1, <2>1 DEF GrantVisit, Visit, LoopInv, PollInv
  <2>3. Sorted(order) /\ Passed
    BY <1>1, <2>2 DEF LoopInv, PollInv, Passed
  <2>4. current \in 0 .. Len(order) - 1 /\ Visitee \in Msgs
    BY <1>1, <2>2, VisiteeInbound DEF LoopInv
  <2> DEFINE j == Position(n) + 1
  <2>5. j \in 1 .. Len(order) /\ order[j] = n /\ Len(order) \in Nat
    BY <1>1, PositionProperties DEF LoopInv
  <2> HIDE DEF j
  <2>6. n # m
    BY <1>1, <2>2, <2>4, RemainingType DEF LoopInv
  <2>7. CASE j <= current
    <3>1. j \in 1 .. current
      BY <2>4, <2>5, <2>7
    <3> QED
      BY <1>1, <2>3, <2>5, <3>1 DEF Passed
  <2>8. CASE j = current + 1
    BY <2>2, <2>5, <2>6, <2>8 DEF Visitee
  <2>9. CASE j > current + 1
    <3>1. current + 1 \in 1 .. Len(order) /\ current + 1 < j
      BY <2>4, <2>5, <2>9
    <3>2. ~(Remaining(order[j]) < Remaining(order[current + 1]))
      BY <1>1, <2>3, <2>5, <3>1, SortedBySize
    <3> QED
      BY <1>1, <2>2, <2>5, <3>2 DEF Visitee
  <2> QED
    BY <2>4, <2>5, <2>7, <2>8, <2>9
<1>2. LoopInv /\ [OrderNext]_allVars => [GrantsShortest]_vars
  BY <1>1 DEF GrantsShortest
<1> QED
  BY <1>2, LoopInvHolds, PTL DEF OrderSpec, ShortestFirst
-----------------------------------------------------------------------------
(* What the paths have carried *)

\* The data packets messages are cut into that have to be granted: those of s that
\* go over spine k.  A packet is a message and the seq it ends at.
Cut(s, k) ==
  {x \in Units(Size, Msgs) :
     /\ Src[x[1]] = s /\ ~Unsolicited(x[1])
     /\ x[2] \in DataSeqs(x[1])
     /\ Crc(<<Receiver, s, x[2]>>) = k}

PacketCost == [x \in Units(Size, Msgs) |-> Wire(PayloadEndingAt(x[1], x[2]))]

\* The cost of those up to byte f[m] of each message m.
UpTo(f, s, k) == {x \in Cut(s, k) : x[2] <= f[x[1]]}
CostUpTo(f, s, k) == Total(PacketCost, UpTo(f, s, k))

\* The bytes of each message that have been sent against grants.
Sent == [m \in Msgs |-> IF m \in Replies THEN 0 ELSE Size[m] - unsent[m]]

\* The bytes of the grants in flight that spine k carries to s.
GrantsOver(s, k) ==
  [p \in Packet |->
     IF p.kind = "GRANT" /\ Src[p.msg] = s /\ Crc(<<Receiver, s, p.seq>>) = k
       THEN p.bytes ELSE 0]

\* What a path has been granted is owed, in flight or has been sent over it.
PathBalance(s, k) ==
  owed[s][k] + Total(GrantsOver(s, k), net) + CostUpTo(Sent, s, k)
    = CostUpTo(granted, s, k)

\* An active message has credit of its own if and only if it is unsolicited.
OwnCreditInv ==
  \A m \in Msgs :
    /\ m \notin scheduled => Unsolicited(m) /\ selfAlloc[m] > 0
    /\ m \in active[Src[m]] /\ Unsolicited(m) => m \notin scheduled

\* Only announced messages are granted, from the first byte to the last.
GrantedInv ==
  /\ \A p \in net : p.kind = "GRANT_REQ" => ~Unsolicited(p.msg)
  /\ \A m \in Msgs : Unsolicited(m) /\ m \in inbound /\ info[m] => granted[m] = Size[m]
  /\ \A m \in Msgs \ inbound : ~Unsolicited(m) =>
       granted[m] = IF info[m] THEN Size[m] ELSE 0

\* The receiver never forgets a reply that was announced.
AnnouncedInv ==
  \A m \in Replies : ~Unsolicited(m) /\ (m \in active[Src[m]] \/ unsent[m] = 0) =>
    m \in inbound \/ \E p \in net : p.kind = "GRANT_REQ" /\ p.msg = m

OwedType == owed \in [Senders -> [Spines -> Int]]

PathInv ==
  /\ OwedType /\ OwnCreditInv /\ CutInv /\ GrantedInv /\ AnnouncedInv
  /\ \A s \in Senders, k \in Spines : PathBalance(s, k)
-----------------------------------------------------------------------------
(* The packets of a path *)

LEMMA CutTypes ==
  /\ IsFiniteSet(Units(Size, Msgs)) /\ IsWeight(PacketCost, Units(Size, Msgs))
  /\ \A x \in Units(Size, Msgs) :
       \E m \in Msgs : \E e \in 1 .. Size[m] : x = <<m, e>>
<1>1. IsFiniteSet(Msgs) /\ IsWeight(Size, Msgs)
  BY SetsAssumption, SizeType DEF IsWeight
<1>2. IsFiniteSet(Units(Size, Msgs))
  BY <1>1, UnitsFinite
<1>3. ASSUME NEW x \in Units(Size, Msgs)
      PROVE  \E m \in Msgs : \E e \in 1 .. Size[m] : x = <<m, e>>
  BY <1>3, UnitOf
<1>4. ASSUME NEW x \in Units(Size, Msgs)
      PROVE  PacketCost[x] \in Nat
  <2>1. PICK m \in Msgs : \E e \in 1 .. Size[m] : x = <<m, e>>
    BY <1>3
  <2>2. PICK e \in 1 .. Size[m] : x = <<m, e>>
    BY <2>1
  <2>3. PacketCost[x] = Wire(PayloadEndingAt(m, e))
    BY <2>2 DEF PacketCost
  <2>4. e \in Nat /\ MaxPayload \in Nat /\ MaxPayload >= 1
    BY SizeType, FramesAssumption
  <2>5. e % MaxPayload \in 0 .. MaxPayload - 1
    BY <2>4, Quotient
  <2>6. PayloadEndingAt(m, e) \in Nat
    BY <2>4, <2>5 DEF PayloadEndingAt
  <2> QED
    BY <2>3, <2>6, WireType
<1> QED
  BY <1>2, <1>3, <1>4 DEF IsWeight

\* The packets up to some byte are finitely many.
LEMMA UpToTypes ==
  ASSUME NEW f, NEW s, NEW k
  PROVE  /\ UpTo(f, s, k) \subseteq Units(Size, Msgs)
         /\ IsFiniteSet(UpTo(f, s, k)) /\ IsWeight(PacketCost, UpTo(f, s, k))
         /\ CostUpTo(f, s, k) \in Nat
<1>1. UpTo(f, s, k) \subseteq Units(Size, Msgs)
  BY DEF UpTo, Cut
<1>2. IsFiniteSet(UpTo(f, s, k)) /\ IsWeight(PacketCost, UpTo(f, s, k))
  BY <1>1, CutTypes, FS_Subset DEF IsWeight
<1> QED
  BY <1>1, <1>2, TotalNat DEF CostUpTo

\* From f to g message m gets on by its next packet.
Advance(f, g, m) ==
  /\ \E j \in Nat : f[m] = j * MaxPayload
  /\ f[m] < Size[m]
  /\ g[m] = f[m] + NextPayload(Size[m] - f[m])
  /\ \A i \in Msgs : i # m /\ ~Unsolicited(i) => g[i] = f[i]

\* The path of that packet carries its cost more.
Carries(f, g, m, s, k) ==
  CostUpTo(g, s, k) = CostUpTo(f, s, k)
    + IF Src[m] = s /\ Crc(<<Receiver, s, g[m]>>) = k THEN Wire(g[m] - f[m]) ELSE 0

LEMMA AdvanceCarries ==
  ASSUME NEW f, NEW g, NEW m \in Msgs, NEW s, NEW k, ~Unsolicited(m), Advance(f, g, m)
  PROVE  Carries(f, g, m, s, k)
<1> DEFINE d == NextPayload(Size[m] - f[m])
           y == <<m, g[m]>>
           A == UpTo(f, s, k)
           B == UpTo(g, s, k)
<1>1. PICK j \in Nat : f[m] = j * MaxPayload
  BY DEF Advance
<1>2. f[m] < Size[m] /\ g[m] = f[m] + d /\ Size[m] \in Nat /\ f[m] \in Nat
  BY <1>1, SizeType, TimesType, FramesAssumption DEF Advance
<1>3. /\ g[m] \in DataSeqs(m)
      /\ d = PayloadEndingAt(m, g[m])
  BY <1>1, <1>2, GrantNextPacket
<1>4. d \in Nat /\ d >= 1 /\ g[m] \in 1 .. Size[m] /\ g[m] - f[m] = d
  <2>1. d \in Nat /\ d >= 1 /\ d <= Size[m] - f[m]
    BY <1>2, FramesAssumption DEF NextPayload, Smaller
  <2> HIDE DEF d
  <2> QED
    BY <1>2, <2>1
<1>5. ASSUME NEW e \in DataSeqs(m), e \in Nat, e > f[m] PROVE e >= g[m]
  BY <1>1, <1>2, <1>5, NoneBetween
<1> HIDE DEF d
<1>6. ASSUME NEW x \in Cut(s, k), x[1] # m
      PROVE  x[2] <= g[x[1]] <=> x[2] <= f[x[1]]
  <2>1. x[1] \in Msgs /\ ~Unsolicited(x[1])
    BY CutTypes DEF Cut
  <2>2. g[x[1]] = f[x[1]]
    BY <1>6, <2>1 DEF Advance
  <2> QED
    BY <2>2
<1>7. ASSUME NEW x \in Cut(s, k), x[1] = m
      PROVE  /\ x = <<m, x[2]>> /\ x[2] \in Nat
             /\ x[2] <= g[m] <=> (x[2] <= f[m] \/ x[2] = g[m])
  <2>1. x[2] \in DataSeqs(m) /\ x \in Units(Size, Msgs)
    BY <1>7 DEF Cut
  <2>2. PICK n \in Msgs : \E e \in 1 .. Size[n] : x = <<n, e>>
    BY <2>1, CutTypes
  <2>3. PICK e \in 1 .. Size[n] : x = <<n, e>>
    BY <2>2
  <2>4. x = <<m, x[2]>> /\ x[2] \in Nat
    BY <1>2, <1>7, <2>3
  <2>5. x[2] > f[m] => x[2] >= g[m]
    BY <1>5, <2>1, <2>4
  <2> QED
    BY <1>2, <1>4, <2>4, <2>5
<1>8. y \in Units(Size, Msgs) /\ y[1] = m /\ y[2] = g[m]
  BY <1>4, UnitOf
<1>9. y \in Cut(s, k) <=> (Src[m] = s /\ Crc(<<Receiver, s, g[m]>>) = k)
  BY <1>3, <1>8 DEF Cut
<1>10. y \notin A
  BY <1>2, <1>4, <1>8 DEF UpTo
<1>11. ASSUME NEW x
       PROVE  x \in B <=> (x \in A \/ (x = y /\ y \in Cut(s, k)))
  <2>1. CASE x \notin Cut(s, k)
    BY <2>1 DEF UpTo
  <2>2. CASE x \in Cut(s, k) /\ x[1] # m
    BY <1>6, <1>8, <2>2 DEF UpTo
  <2>3. CASE x \in Cut(s, k) /\ x[1] = m
    <3>1. x = <<m, x[2]>> /\ (x[2] <= g[m] <=> (x[2] <= f[m] \/ x[2] = g[m]))
      BY <1>7, <2>3
    <3>2. x[2] = g[m] <=> x = y
      BY <1>8, <3>1
    <3> QED
      BY <2>3, <3>1, <3>2 DEF UpTo
  <2> QED
    BY <2>1, <2>2, <2>3
<1>12. PacketCost[y] = Wire(g[m] - f[m])
  BY <1>3, <1>4, <1>8 DEF PacketCost
<1>13. /\ IsFiniteSet(A) /\ IsWeight(PacketCost, A) /\ IsWeight(PacketCost, B)
       /\ Total(PacketCost, A) \in Nat /\ Total(PacketCost, B) \in Nat
  BY UpToTypes DEF CostUpTo
<1> HIDE DEF A, B, y
<1>14. CASE y \in Cut(s, k)
  <2>1. B = A \cup {y}
    BY <1>11, <1>14
  <2>2. Total(PacketCost, B) = Total(PacketCost, A) + PacketCost[y]
    BY <1>10, <1>13, <2>1, TotalAdd
  <2> QED
    BY <1>9, <1>12, <1>14, <2>2 DEF Carries, CostUpTo, A, B
<1>15. CASE y \notin Cut(s, k)
  <2>1. B = A
    BY <1>11, <1>15
  <2>2. Total(PacketCost, B) = Total(PacketCost, A) + 0
    BY <1>13, <2>1
  <2> QED
    BY <1>9, <1>15, <2>2 DEF Carries, CostUpTo, A, B
<1> QED
  BY <1>14, <1>15

\* Unsolicited messages do not matter.
LEMMA SameCost ==
  ASSUME NEW f, NEW g, NEW s, NEW k, \A m \in Msgs : ~Unsolicited(m) => g[m] = f[m]
  PROVE  CostUpTo(g, s, k) = CostUpTo(f, s, k)
<1>1. ASSUME NEW x \in Cut(s, k) PROVE x[1] \in Msgs /\ ~Unsolicited(x[1])
  BY CutTypes DEF Cut
<1>2. UpTo(g, s, k) = UpTo(f, s, k)
  BY <1>1 DEF UpTo
<1> QED
  BY <1>2 DEF CostUpTo
-----------------------------------------------------------------------------
(* What the steps do to the parts of the invariant *)

\* Self-allocated credit pays for at least a frame of the least length.
LEMMA OwnCreditPositive ==
  ASSUME NEW m \in Msgs, NEW a \in Nat
  PROVE  SelfCredit(Size[m], a) > 0
<1>1. AddHeaderOverhead(SelfCreditData(Size[m], a)) \in Nat
  BY SelfCreditType, AddHeaderOverheadType
<1> QED
  BY <1>1, FramesAssumption DEF SelfCredit, Larger

LEMMA OwnCreditNext ==
  ASSUME TypeOK, OwnCreditInv, [Next]_vars
  PROVE  OwnCreditInv'
<1>1. ASSUME UNCHANGED <<scheduled, selfAlloc>>,
             \A m \in Msgs : m \in active'[Src[m]] => m \in active[Src[m]]
      PROVE  OwnCreditInv'
  BY <1>1 DEF OwnCreditInv
<1>2. ASSUME NEW s \in Senders, Activate(s) PROVE OwnCreditInv'
  <2> DEFINE m == Head(inactive[s])
  <2>1. m \in Msgs /\ avail[s] \in Nat /\ selfAlloc \in [Msgs -> Nat]
        /\ active \in [Senders -> SUBSET Msgs]
    <3>1. inactive[s] \in Seq(Msgs) /\ inactive[s] # <<>>
      BY <1>2 DEF Activate, TypeOK
    <3> QED
      BY <3>1 DEF TypeOK
  <2>2. /\ active' = [active EXCEPT ![s] = @ \cup {m}]
        /\ Unsolicited(m) => /\ selfAlloc' = [selfAlloc EXCEPT ![m] = SelfCredit(Size[m], avail[s])]
                             /\ scheduled' = scheduled \ {m}
        /\ ~Unsolicited(m) => UNCHANGED <<selfAlloc, scheduled>>
    BY <1>2 DEF Activate
  <2>3. SelfCredit(Size[m], avail[s]) > 0
    BY <2>1, OwnCreditPositive
  <2> HIDE DEF m
  <2>4. ASSUME NEW i \in Msgs, i # m
        PROVE  /\ i \in active'[Src[i]] => i \in active[Src[i]]
               /\ i \in scheduled' <=> i \in scheduled
               /\ selfAlloc'[i] = selfAlloc[i]
    BY <2>1, <2>2, <2>4, SizeType
  <2>5. Unsolicited(m) => m \notin scheduled' /\ selfAlloc'[m] > 0
    BY <2>1, <2>2, <2>3
  <2>6. ~Unsolicited(m) => (m \notin scheduled' => m \notin scheduled)
    BY <2>2
  <2> QED
    BY <2>4, <2>5, <2>6 DEF OwnCreditInv
<1>3. ASSUME NEW s \in Senders, SendPacket(s) PROVE OwnCreditInv'
  <2>1. PICK m \in Msgs :
          active' = [active EXCEPT ![s] = IF unsent[m] = NextPayload(unsent[m])
                                            THEN @ \ {m} ELSE @]
    BY <1>3 DEF SendPacket, Choice, TypeOK
  <2>2. active \in [Senders -> SUBSET Msgs]
    BY DEF TypeOK
  <2>3. \A i \in Msgs : i \in active'[Src[i]] => i \in active[Src[i]]
    BY <2>1, <2>2, SizeType
  <2>4. UNCHANGED <<scheduled, selfAlloc>>
    BY <1>3 DEF SendPacket
  <2> QED
    BY <1>1, <2>3, <2>4
<1>4. CASE UNCHANGED vars
  BY <1>1, <1>4 DEF vars, senderVars
<1>5. ASSUME NEW m \in Msgs, Submit(m) \/ Grant(m) \/ Reap(m) PROVE OwnCreditInv'
  BY <1>1, <1>5 DEF Submit, Grant, Reap, senderVars
<1>6. ASSUME NEW p \in net, Receive(p) PROVE OwnCreditInv'
  BY <1>1, <1>6 DEF Receive, ReceiveGrant, ReceiveGrantReq, ReceiveData, ReceiveReply, senderVars
<1> QED
  BY <1>2, <1>3, <1>4, <1>5, <1>6 DEF Next

LEMMA GrantedNext ==
  ASSUME IInv, GrantInv, GrantedInv, OwnCreditInv, [Next]_vars
  PROVE  GrantedInv'
<1> USE DEF GrantedInv
<1>1. ASSUME UNCHANGED <<granted, inbound, info>>,
             \A p \in net' \ net : p.kind = "GRANT_REQ" => ~Unsolicited(p.msg)
      PROVE  GrantedInv'
  <2>1. \A p \in net' : p.kind = "GRANT_REQ" => ~Unsolicited(p.msg)
    BY <1>1
  <2> QED
    BY <1>1, <2>1
<1>2. ASSUME NEW s \in Senders, Activate(s) PROVE GrantedInv'
  <2>1. UNCHANGED <<granted, inbound, info>>
    BY <1>2 DEF Activate, receiverVars, inboundVars
  <2>2. ASSUME NEW p \in net' \ net PROVE ~Unsolicited(p.msg)
    BY <1>2 DEF Activate, GrantReqPkt
  <2> QED
    BY <1>1, <2>1, <2>2
<1>3. ASSUME NEW s \in Senders, SendPacket(s) PROVE GrantedInv'
  <2>1. UNCHANGED <<granted, inbound, info>>
    BY <1>3 DEF SendPacket, receiverVars, inboundVars
  <2>2. ASSUME NEW p \in net' \ net PROVE p.kind = "DATA"
    BY <1>3 DEF SendPacket, DataPkt
  <2> QED
    BY <1>1, <2>1, <2>2
<1>4. ASSUME NEW p \in net, ReceiveGrant(p) \/ ReceiveReply(p) PROVE GrantedInv'
  BY <1>1, <1>4 DEF ReceiveGrant, ReceiveReply, receiverVars, inboundVars
<1>5. CASE UNCHANGED vars
  BY <1>1, <1>5 DEF vars, receiverVars, inboundVars
<1>6. ASSUME NEW m \in Msgs, Submit(m) PROVE GrantedInv'
  BY <1>1, <1>6 DEF Submit, receiverVars, inboundVars
<1>7. TypeOK /\ PacketInv /\ ReceiverInv
  BY DEF IInv
<1>8. granted \in [Msgs -> Nat] /\ info \in [Msgs -> BOOLEAN] /\ inbound \subseteq Msgs
  BY <1>7 DEF TypeOK
<1>9. ASSUME NEW m \in Msgs, Grant(m) PROVE GrantedInv'
  <2>1. /\ m \in inbound /\ info[m] /\ granted[m] < Size[m]
        /\ granted' = [granted EXCEPT ![m] = @ + GrantData(m)]
        /\ UNCHANGED <<inbound, info>>
    BY <1>9 DEF Grant
  <2>2. \A p \in net' \ net : p.kind = "GRANT"
    BY <1>9 DEF Grant, GrantPkt
  <2>3. ~Unsolicited(m)
    BY <2>1, <1>8, SizeType
  <2>4. \A i \in Msgs : i # m => granted'[i] = granted[i]
    BY <1>8, <2>1
  <2>5. \A p \in net' : p.kind = "GRANT_REQ" => ~Unsolicited(p.msg)
    BY <2>2
  <2> QED
    BY <2>1, <2>3, <2>4, <2>5
<1>10. ASSUME NEW m \in Msgs, Reap(m) PROVE GrantedInv'
  <2>1. /\ info[m] /\ granted[m] = Size[m] /\ inbound' = inbound \ {m}
        /\ UNCHANGED <<granted, info, net>>
    BY <1>10 DEF Reap, Over
  <2> QED
    BY <2>1
<1>11. ASSUME NEW p \in net, ReceiveGrantReq(p) PROVE GrantedInv'
  <2> DEFINE m == p.msg
  <2>1. /\ inbound' = inbound \cup {m} /\ info' = [info EXCEPT ![m] = TRUE]
        /\ granted' = [granted EXCEPT ![m] = GrantedSoFar(m)] /\ net' = net \ {p}
        /\ p.kind = "GRANT_REQ"
    BY <1>11 DEF ReceiveGrantReq
  <2>2. m \in Msgs /\ ~Unsolicited(m)
    BY <1>7, <2>1, PacketTypes
  <2> HIDE DEF m
  <2>3. \A i \in Msgs : i # m => granted'[i] = granted[i] /\ info'[i] = info[i]
    BY <1>8, <2>1
  <2> QED
    BY <2>1, <2>2, <2>3
<1>12. ASSUME NEW p \in net, ReceiveData(p) PROVE GrantedInv'
  <2> DEFINE m      == p.msg
             learns == p.creditReq /\ ~Informed(m)
             knows  == learns \/ Informed(m)
             rcvd   == ReceivedSoFar(m) + p.bytes
             grnt   == IF learns THEN p.unsolData ELSE GrantedSoFar(m)
  <2>1. /\ p.kind = "DATA" /\ m \notin Replies /\ net' = net \ {p}
        /\ inbound' = IF knows /\ Over(m, rcvd, grnt) THEN inbound \ {m} ELSE inbound \cup {m}
        /\ info' = [info EXCEPT ![m] = knows]
        /\ granted' = [granted EXCEPT ![m] = grnt]
    BY <1>12 DEF ReceiveData
  <2>2. m \in Msgs
    BY <1>7, PacketTypes
  <2>3. learns => grnt = Size[m] /\ Unsolicited(m)
    BY <1>7, <2>1, <2>2 DEF GrantInv, PacketInv, OwnCreditInv
  <2>4. ~learns => grnt = GrantedSoFar(m)
    OBVIOUS
  <2>5. Over(m, rcvd, grnt) => grnt = Size[m]
    BY DEF Over
  <2>6. knows <=> learns \/ (m \in inbound /\ info[m])
    BY DEF Informed
  <2> HIDE DEF m, learns, knows, rcvd, grnt
  <2>7. \A i \in Msgs : i # m =>
          granted'[i] = granted[i] /\ info'[i] = info[i] /\ (i \in inbound' <=> i \in inbound)
    BY <1>8, <2>1
  <2>8. granted'[m] = grnt /\ info'[m] = knows
    BY <1>8, <2>1, <2>2
  <2>9. knows /\ ~learns => grnt = granted[m] /\ m \in inbound /\ info[m]
    BY <2>4, <2>6 DEF GrantedSoFar
  <2>10. Unsolicited(m) /\ knows => grnt = Size[m]
    BY <2>2, <2>3, <2>9
  <2>11. m \notin inbound' => knows /\ grnt = Size[m]
    BY <2>1, <2>5
  <2>12. \A i \in Msgs : Unsolicited(i) /\ i \in inbound' /\ info'[i] => granted'[i] = Size[i]
    BY <2>7, <2>8, <2>10
  <2>13. \A i \in Msgs \ inbound' : ~Unsolicited(i) =>
           granted'[i] = IF info'[i] THEN Size[i] ELSE 0
    BY <2>7, <2>8, <2>11
  <2> QED
    BY <2>1, <2>12, <2>13
<1> QED
  BY <1>2, <1>3, <1>4, <1>5, <1>6, <1>9, <1>10, <1>11, <1>12 DEF Next, Receive

LEMMA AnnouncedNext ==
  ASSUME IInv, AnnouncedInv, [Next]_vars
  PROVE  AnnouncedInv'
<1> USE DEF AnnouncedInv
<1>1. ASSUME \A m \in Replies : ~Unsolicited(m) =>
               /\ m \in active'[Src[m]] => m \in active[Src[m]]
               /\ unsent'[m] = 0 => unsent[m] = 0 \/ m \in active[Src[m]],
             \A m \in Replies : m \in inbound => m \in inbound',
             \A p \in net : p.kind = "GRANT_REQ" => p \in net' \/ p.msg \in inbound'
      PROVE  AnnouncedInv'
  <2> SUFFICES ASSUME NEW m \in Replies, ~Unsolicited(m), m \in active'[Src[m]] \/ unsent'[m] = 0
               PROVE  m \in inbound' \/ \E p \in net' : p.kind = "GRANT_REQ" /\ p.msg = m
    OBVIOUS
  <2>1. m \in active[Src[m]] \/ unsent[m] = 0
    BY <1>1
  <2>2. m \in inbound \/ \E p \in net : p.kind = "GRANT_REQ" /\ p.msg = m
    BY <2>1
  <2> QED
    BY <1>1, <2>2
<1>2. TypeOK /\ ReceiverInv /\ Replies \subseteq Msgs
  BY SetsAssumption DEF IInv
<1>3. ASSUME NEW s \in Senders, Activate(s) PROVE AnnouncedInv'
  <2> DEFINE m == Head(inactive[s])
  <2>1. /\ active' = [active EXCEPT ![s] = @ \cup {m}]
        /\ ~Unsolicited(m) => net' = net \cup {GrantReqPkt(m)}
        /\ net \subseteq net' /\ UNCHANGED <<inbound, unsent>>
    BY <1>3 DEF Activate, receiverVars, inboundVars
  <2>2. active \in [Senders -> SUBSET Msgs]
    BY <1>2 DEF TypeOK
  <2>3. GrantReqPkt(m).kind = "GRANT_REQ" /\ GrantReqPkt(m).msg = m
    BY DEF GrantReqPkt
  <2> HIDE DEF m
  <2>4. \A i \in Replies : i # m => (i \in active'[Src[i]] => i \in active[Src[i]])
    BY <1>2, <2>1, <2>2, SizeType
  <2>5. ~Unsolicited(m) => \E p \in net' : p.kind = "GRANT_REQ" /\ p.msg = m
    BY <2>1, <2>3
  <2> QED
    BY <2>1, <2>4, <2>5
<1>4. ASSUME NEW s \in Senders, SendPacket(s) PROVE AnnouncedInv'
  <2>1. PICK m \in Msgs : Src[m] = s /\ \E p \in Packet : Sends(m, p)
    BY <1>4, SendsMessage
  <2>2. /\ net \subseteq net' /\ m \in active[Src[m]]
        /\ unsent' = [unsent EXCEPT ![m] = @ - NextPayload(unsent[m])]
    BY <2>1 DEF Sends
  <2>3. PICK n \in Msgs :
          active' = [active EXCEPT ![s] = IF unsent[n] = NextPayload(unsent[n])
                                            THEN @ \ {n} ELSE @]
    BY <1>2, <1>4 DEF SendPacket, Choice, TypeOK
  <2>4. unsent \in [Msgs -> Nat] /\ active \in [Senders -> SUBSET Msgs]
    BY <1>2 DEF TypeOK
  <2>5. \A i \in Replies : i \in active'[Src[i]] => i \in active[Src[i]]
    BY <1>2, <2>3, <2>4, SizeType
  <2>6. \A i \in Replies : unsent'[i] = 0 => unsent[i] = 0 \/ i \in active[Src[i]]
    BY <1>2, <2>2, <2>4
  <2>7. UNCHANGED inbound
    BY <1>4 DEF SendPacket, receiverVars, inboundVars
  <2> QED
    BY <1>1, <2>2, <2>5, <2>6, <2>7
<1>5. ASSUME NEW m \in Msgs, Submit(m) \/ Grant(m) PROVE AnnouncedInv'
  BY <1>1, <1>5 DEF Submit, Grant, senderVars, receiverVars, inboundVars
<1>6. ASSUME NEW m \in Msgs, Reap(m) PROVE AnnouncedInv'
  <2>1. m \notin Replies
    <3>1. received[m] = Size[m] /\ Size[m] > 0
      BY <1>6, SizeType DEF Reap, Over
    <3> QED
      BY <1>2, <3>1, SizeType DEF ReceiverInv
  <2>2. inbound' = inbound \ {m} /\ UNCHANGED <<active, unsent, net>>
    BY <1>6 DEF Reap, senderVars
  <2> QED
    BY <1>1, <2>1, <2>2
<1>7. ASSUME NEW p \in net, ReceiveGrantReq(p) PROVE AnnouncedInv'
  <2>1. inbound' = inbound \cup {p.msg} /\ UNCHANGED <<active, unsent>> /\ net' = net \ {p}
    BY <1>7 DEF ReceiveGrantReq, senderVars
  <2> QED
    BY <1>1, <2>1
<1>8. ASSUME NEW p \in net, ReceiveData(p) PROVE AnnouncedInv'
  <2>1. /\ p.kind = "DATA" /\ p.msg \notin Replies
        /\ inbound' = inbound \ {p.msg} \/ inbound' = inbound \cup {p.msg}
        /\ UNCHANGED <<active, unsent>> /\ net' = net \ {p}
    BY <1>8 DEF ReceiveData, senderVars
  <2> QED
    BY <1>1, <2>1
<1>9. ASSUME NEW p \in net, ReceiveGrant(p) \/ ReceiveReply(p) PROVE AnnouncedInv'
  <2>1. p.kind # "GRANT_REQ" /\ UNCHANGED <<active, unsent, inbound>> /\ net' = net \ {p}
    BY <1>9 DEF ReceiveGrant, ReceiveReply, senderVars, receiverVars, inboundVars
  <2> QED
    BY <1>1, <2>1
<1>10. CASE UNCHANGED vars
  BY <1>1, <1>10 DEF vars, senderVars, receiverVars, inboundVars
<1> QED
  BY <1>3, <1>4, <1>5, <1>6, <1>7, <1>8, <1>9, <1>10 DEF Next, Receive
-----------------------------------------------------------------------------
(* The paths stay in balance *)

LEMMA GrantsOverWeight ==
  ASSUME NEW s, NEW k, NEW N \in SUBSET Packet
  PROVE  IsWeight(GrantsOver(s, k), N)
<1>1. ASSUME NEW p \in N PROVE GrantsOver(s, k)[p] \in Nat
  <2>1. p \in Packet /\ p.bytes \in Nat
    BY DEF Packet
  <2> QED
    BY <2>1 DEF GrantsOver
<1> QED
  BY <1>1 DEF IsWeight

LEMMA PathTypes ==
  ASSUME TypeOK, OwedType, NEW s \in Senders, NEW k \in Spines
  PROVE  /\ owed[s][k] \in Int /\ Total(GrantsOver(s, k), net) \in Int
         /\ CostUpTo(Sent, s, k) \in Int /\ CostUpTo(granted, s, k) \in Int
<1>1. net \in SUBSET Packet /\ IsFiniteSet(net)
  BY DEF TypeOK
<1>2. Total(GrantsOver(s, k), net) \in Nat
  BY <1>1, GrantsOverWeight, TotalNat
<1>3. CostUpTo(Sent, s, k) \in Nat /\ CostUpTo(granted, s, k) \in Nat
  BY UpToTypes
<1>4. owed[s][k] \in Int
  BY DEF OwedType
<1> QED
  BY <1>2, <1>3, <1>4

\* What is owed, in flight and sent over a path changes by a, b and c.
Moves(s, k, a, b, c) ==
  /\ owed'[s][k] = owed[s][k] + a
  /\ Total(GrantsOver(s, k), net') = Total(GrantsOver(s, k), net) + b
  /\ CostUpTo(Sent', s, k) = CostUpTo(Sent, s, k) + c
  /\ CostUpTo(granted', s, k) = CostUpTo(granted, s, k) + (a + b + c)

LEMMA PathStep ==
  ASSUME TypeOK, OwedType, NEW s \in Senders, NEW k \in Spines, PathBalance(s, k),
         NEW a \in Int, NEW b \in Int, NEW c \in Int, Moves(s, k, a, b, c)
  PROVE  PathBalance(s, k)'
<1>1. owed[s][k] + Total(GrantsOver(s, k), net) + CostUpTo(Sent, s, k) = CostUpTo(granted, s, k)
  BY DEF PathBalance
<1>2. owed'[s][k] + Total(GrantsOver(s, k), net') + CostUpTo(Sent', s, k)
        = CostUpTo(granted', s, k)
  BY <1>1, PathTypes DEF Moves
<1> QED
  BY <1>2 DEF PathBalance

\* One entry of owed changes.
OwedBecomes(t, q, v) == owed' = [owed EXCEPT ![t][q] = v]

LEMMA OwedEntry ==
  ASSUME OwedType, NEW t \in Senders, NEW q, NEW v, q \in Spines => v \in Int,
         OwedBecomes(t, q, v)
  PROVE  /\ OwedType'
         /\ \A s \in Senders, k \in Spines :
              owed'[s][k] = IF s = t /\ k = q THEN v ELSE owed[s][k]
<1> DEFINE row == [owed[t] EXCEPT ![q] = v]
<1>1. owed \in [Senders -> [Spines -> Int]]
  BY DEF OwedType
<1>2. owed[t] \in [Spines -> Int]
  BY <1>1
<1>3. \A k \in Spines : row[k] = IF k = q THEN v ELSE owed[t][k]
  BY <1>2
<1>4. row \in [Spines -> Int]
  BY <1>2, <1>3
<1>5. owed' = [owed EXCEPT ![t] = row]
  BY DEF OwedBecomes
<1> HIDE DEF row
<1>6. owed' \in [Senders -> [Spines -> Int]]
  BY <1>1, <1>4, <1>5
<1>7. \A s \in Senders : owed'[s] = IF s = t THEN row ELSE owed[s]
  BY <1>1, <1>5
<1> QED
  BY <1>3, <1>6, <1>7 DEF OwedType

\* Packets that are no grants do not matter.
LEMMA NoGrantMoves ==
  ASSUME TypeOK, NEW s, NEW k,
         \/ net' = net
         \/ \E p \in Packet : p.kind # "GRANT" /\ net' = net \cup {p}
         \/ \E p \in net : p.kind # "GRANT" /\ net' = net \ {p}
  PROVE  Total(GrantsOver(s, k), net') = Total(GrantsOver(s, k), net) + 0
<1>1. net \in SUBSET Packet /\ IsFiniteSet(net) /\ IsWeight(GrantsOver(s, k), net)
  BY GrantsOverWeight DEF TypeOK
<1>2. Total(GrantsOver(s, k), net) \in Nat
  BY <1>1, TotalNat
<1>3. ASSUME NEW p \in Packet, p.kind # "GRANT" PROVE GrantsOver(s, k)[p] = 0
  BY <1>3 DEF GrantsOver
<1>4. ASSUME NEW p \in Packet, p.kind # "GRANT", net' = net \cup {p}
      PROVE  Total(GrantsOver(s, k), net') = Total(GrantsOver(s, k), net)
  BY <1>1, <1>3, <1>4, AddWeightless
<1>5. ASSUME NEW p \in net, p.kind # "GRANT", net' = net \ {p}
      PROVE  Total(GrantsOver(s, k), net') = Total(GrantsOver(s, k), net)
  <2>1. GrantsOver(s, k)[p] = 0
    BY <1>1, <1>3, <1>5
  <2>2. Total(GrantsOver(s, k), net') = Total(GrantsOver(s, k), net) - 0
    BY <1>1, <1>5, <2>1, RemoveWeighed
  <2> QED
    BY <1>2, <2>2
<1> QED
  BY <1>2, <1>4, <1>5

\* Steps that grant nothing, and send nothing that was granted.
LEMMA PathFrame ==
  ASSUME TypeOK, OwedType, NEW s \in Senders, NEW k \in Spines, PathBalance(s, k),
         owed'[s][k] = owed[s][k],
         \A m \in Msgs : ~Unsolicited(m) => granted'[m] = granted[m] /\ Sent'[m] = Sent[m],
         \/ net' = net
         \/ \E p \in Packet : p.kind # "GRANT" /\ net' = net \cup {p}
         \/ \E p \in net : p.kind # "GRANT" /\ net' = net \ {p}
  PROVE  PathBalance(s, k)'
<1>1. /\ CostUpTo(Sent', s, k) = CostUpTo(Sent, s, k)
      /\ CostUpTo(granted', s, k) = CostUpTo(granted, s, k)
  <2>1. \A m \in Msgs : ~Unsolicited(m) => (Sent')[m] = Sent[m]
    OBVIOUS
  <2>2. \A m \in Msgs : ~Unsolicited(m) => (granted')[m] = granted[m]
    OBVIOUS
  <2> QED
    BY <2>1, <2>2, SameCost
<1>2. Total(GrantsOver(s, k), net') = Total(GrantsOver(s, k), net) + 0
  BY NoGrantMoves
<1>3. /\ owed'[s][k] = owed[s][k] + 0
      /\ CostUpTo(Sent', s, k) = CostUpTo(Sent, s, k) + 0
      /\ CostUpTo(granted', s, k) = CostUpTo(granted, s, k) + (0 + 0 + 0)
  BY <1>1, PathTypes
<1>4. Moves(s, k, 0, 0, 0)
  BY <1>2, <1>3 DEF Moves
<1> QED
  BY <1>4, PathStep

LEMMA SentSame ==
  ASSUME unsent' = unsent
  PROVE  \A m \in Msgs : Sent'[m] = Sent[m]
  BY DEF Sent

\* A grant goes out: what is granted is in flight.
LEMMA GrantPath ==
  ASSUME IInv, GrantInv, PathInv, NEW m \in Msgs, Grant(m), owed' = owed,
         NEW s \in Senders, NEW k \in Spines
  PROVE  PathBalance(s, k)'
<1> DEFINE data == GrantData(m)
           p    == GrantPkt(m, grantSeq[m] + data, Wire(data))
           b    == IF Src[m] = s /\ Crc(<<Receiver, s, granted'[m]>>) = k
                     THEN Wire(granted'[m] - granted[m]) ELSE 0
<1>1. /\ m \in inbound /\ info[m] /\ granted[m] < Size[m] /\ net' = net \cup {p}
      /\ granted' = [granted EXCEPT ![m] = granted[m] + data]
      /\ unsent' = unsent
  BY DEF Grant, senderVars
<1>2. /\ TypeOK /\ OwedType /\ GrantedInv /\ PathBalance(s, k) /\ PacketInv
      /\ granted \in [Msgs -> Nat] /\ grantSeq \in [Msgs -> Nat] /\ Size[m] \in Nat
  BY SizeType DEF IInv, PathInv, TypeOK
<1>3. ~Unsolicited(m)
  BY <1>1, <1>2 DEF GrantedInv
<1>4. grantSeq[m] = granted[m] /\ \E j \in Nat : granted[m] = j * MaxPayload
  BY <1>1, <1>2 DEF GrantInv, GrantedInStep
<1>5. data = NextPayload(Size[m] - granted[m]) /\ data \in Nat /\ data > 0
  <2>1. data = NextPayload(Size[m] - granted[m])
    BY DEF GrantData
  <2> QED
    BY <1>1, <1>2, <2>1, FramesAssumption DEF NextPayload, Smaller
<1>6. p \in Packet /\ p.kind = "GRANT" /\ p.msg = m /\ p.seq = granted[m] + data /\ p.bytes = Wire(data)
  <2>1. granted[m] + data \in Nat /\ Wire(data) \in Nat
    BY <1>2, <1>5, WireType
  <2> HIDE DEF data
  <2> QED
    BY <1>4, <2>1 DEF GrantPkt, Packet
<1> HIDE DEF p, data
<1>7. granted'[m] = granted[m] + data
  BY <1>1, <1>2
<1>8. p \notin net
  BY <1>2, <1>4, <1>5, <1>6 DEF PacketInv
<1>9. Advance(granted, granted', m)
  BY <1>1, <1>2, <1>4, <1>5, <1>7 DEF Advance
<1>10. Carries(granted, granted', m, s, k)
  BY <1>3, <1>9, AdvanceCarries
<1>11. granted'[m] - granted[m] = data
  BY <1>2, <1>5, <1>7
<1>12. GrantsOver(s, k)[p] = b
  BY <1>6, <1>7, <1>11 DEF GrantsOver
<1>13. b \in Int
  <2>1. Wire(data) \in Nat
    BY <1>5, WireType
  <2> QED
    BY <1>11, <2>1
<1>14. CostUpTo(granted', s, k) = CostUpTo(granted, s, k) + b
  BY <1>10 DEF Carries
<1> HIDE DEF b
<1>15. Total(GrantsOver(s, k), net') = Total(GrantsOver(s, k), net) + b
  <2>1. net \in SUBSET Packet /\ IsFiniteSet(net)
    BY <1>2 DEF TypeOK
  <2>2. IsWeight(GrantsOver(s, k), net \cup {p})
    BY <1>6, <2>1, GrantsOverWeight
  <2> QED
    BY <1>1, <1>8, <1>12, <2>1, <2>2, TotalAdd
<1>16. CostUpTo(Sent', s, k) = CostUpTo(Sent, s, k) + 0
  <2>1. CostUpTo(Sent', s, k) = CostUpTo(Sent, s, k)
    BY <1>1, SentSame, SameCost
  <2> QED
    BY <1>2, <2>1, PathTypes
<1>17. /\ owed'[s][k] = owed[s][k] + 0
       /\ CostUpTo(granted', s, k) = CostUpTo(granted, s, k) + (0 + b + 0)
  BY <1>2, <1>13, <1>14, PathTypes
<1>18. Moves(s, k, 0, b, 0)
  BY <1>15, <1>16, <1>17 DEF Moves
<1> QED
  BY <1>2, <1>13, <1>18, PathStep

\* A grant passes: it is owed.
LEMMA GrantOwed ==
  ASSUME TypeOK, OwedType, NEW p \in net, GrantPasses(p)
  PROVE  /\ OwedType'
         /\ \A s \in Senders, k \in Spines :
              owed'[s][k] = owed[s][k]
                + IF Src[p.msg] = s /\ Crc(<<Receiver, s, p.seq>>) = k THEN p.bytes ELSE 0
<1> DEFINE t == Src[p.msg]
           q == GrantSpine(p)
           v == owed[t][q] + p.bytes
<1>1. owed' = [owed EXCEPT ![t][q] = @ + p.bytes]
  BY DEF GrantPasses
<1>2. q = Crc(<<Receiver, t, p.seq>>)
  BY DEF GrantSpine, Key
<1>3. p.bytes \in Nat /\ t \in Senders
  BY PacketTypes
<1> HIDE DEF t, q
<1>4. OwedBecomes(t, q, v)
  BY <1>1 DEF OwedBecomes
<1>5. q \in Spines => v \in Int
  BY <1>3 DEF OwedType
<1>6. /\ OwedType'
      /\ \A s \in Senders, k \in Spines :
           owed'[s][k] = IF s = t /\ k = q THEN v ELSE owed[s][k]
  BY <1>3, <1>4, <1>5, OwedEntry
<1>7. ASSUME NEW s \in Senders, NEW k \in Spines
      PROVE  owed'[s][k] = owed[s][k]
               + IF t = s /\ Crc(<<Receiver, s, p.seq>>) = k THEN p.bytes ELSE 0
  <2>1. owed[s][k] \in Int
    BY DEF OwedType
  <2> QED
    BY <1>2, <1>3, <1>6, <2>1
<1> QED
  BY <1>6, <1>7 DEF t

LEMMA GrantPassesPath ==
  ASSUME IInv, PathInv, NEW p \in net, GrantPasses(p), NEW s \in Senders, NEW k \in Spines
  PROVE  PathBalance(s, k)'
<1> DEFINE a == IF Src[p.msg] = s /\ Crc(<<Receiver, s, p.seq>>) = k THEN p.bytes ELSE 0
<1>1. p.kind = "GRANT" /\ net' = net \ {p} /\ UNCHANGED <<granted, unsent>>
  BY DEF GrantPasses, ReceiveGrant, senderVars, receiverVars, inboundVars
<1>2. TypeOK /\ OwedType /\ PathBalance(s, k)
  BY DEF IInv, PathInv
<1>3. p \in Packet /\ p.bytes \in Nat
  BY <1>2, PacketTypes
<1>4. owed'[s][k] = owed[s][k] + a
  BY <1>2, GrantOwed
<1>5. a \in Int /\ 0 - a \in Int /\ (0 - a) + a = 0
  BY <1>3
<1>6. GrantsOver(s, k)[p] = a
  BY <1>1, <1>3 DEF GrantsOver
<1> HIDE DEF a
<1>7. Total(GrantsOver(s, k), net') = Total(GrantsOver(s, k), net) + (0 - a)
  <2>1. net \in SUBSET Packet /\ IsFiniteSet(net) /\ IsWeight(GrantsOver(s, k), net)
    BY <1>2, GrantsOverWeight DEF TypeOK
  <2>2. Total(GrantsOver(s, k), net') = Total(GrantsOver(s, k), net) - a
    BY <1>1, <1>6, <2>1, RemoveWeighed
  <2> QED
    BY <1>2, <1>5, <2>2, PathTypes
<1>8. /\ CostUpTo(Sent', s, k) = CostUpTo(Sent, s, k) + 0
      /\ CostUpTo(granted', s, k) = CostUpTo(granted, s, k) + (a + (0 - a) + 0)
  <2>1. CostUpTo(Sent', s, k) = CostUpTo(Sent, s, k)
    BY <1>1, SentSame, SameCost
  <2>2. CostUpTo(granted', s, k) = CostUpTo(granted, s, k)
    BY <1>1
  <2> QED
    BY <1>2, <1>5, <2>1, <2>2, PathTypes
<1>9. Moves(s, k, a, 0 - a, 0)
  BY <1>4, <1>7, <1>8 DEF Moves
<1> QED
  BY <1>2, <1>5, <1>9, PathStep

\* Data passes: what was owed for it is no longer, unless nobody granted it.
LEMMA DataOwed ==
  ASSUME OwedType, NEW p \in Packet, NEW t \in Senders, Src[p.msg] = t,
         owed' = IF Unpaid(p) THEN owed
                 ELSE [owed EXCEPT ![t][DataSpine(p)] = @ - Wire(p.bytes)]
  PROVE  /\ OwedType'
         /\ \A s \in Senders, k \in Spines :
              owed'[s][k] = owed[s][k]
                - IF ~Unpaid(p) /\ t = s /\ Crc(<<Receiver, s, p.seq>>) = k
                    THEN Wire(p.bytes) ELSE 0
<1> DEFINE q == DataSpine(p)
           v == owed[t][q] - Wire(p.bytes)
<1>1. \A s \in Senders, k \in Spines : owed[s][k] \in Int
  BY DEF OwedType
<1>2. CASE Unpaid(p)
  BY <1>1, <1>2 DEF OwedType
<1>3. CASE ~Unpaid(p)
  <2>1. q = Crc(<<Receiver, t, p.seq>>)
    BY DEF DataSpine, Key
  <2>2. Wire(p.bytes) \in Nat
    <3>1. p.bytes \in Nat
      BY DEF Packet
    <3> QED
      BY <3>1, WireType
  <2>3. OwedBecomes(t, q, v)
    BY <1>3 DEF OwedBecomes
  <2> HIDE DEF q
  <2>4. q \in Spines => v \in Int
    BY <1>1, <2>2
  <2>5. /\ OwedType'
        /\ \A s \in Senders, k \in Spines :
             owed'[s][k] = IF s = t /\ k = q THEN v ELSE owed[s][k]
    BY <2>3, <2>4, OwedEntry
  <2>6. ASSUME NEW s \in Senders, NEW k \in Spines
        PROVE  owed'[s][k] = owed[s][k]
                 - IF t = s /\ Crc(<<Receiver, s, p.seq>>) = k THEN Wire(p.bytes) ELSE 0
    BY <1>1, <2>1, <2>2, <2>5
  <2> QED
    BY <1>3, <2>5, <2>6
<1> QED
  BY <1>2, <1>3

LEMMA DataPassesPath ==
  ASSUME IInv, PathInv, NEW t \in Senders, DataPasses(t)
  PROVE  OwedType' /\ \A s \in Senders, k \in Spines : PathBalance(s, k)'
<1>1. PICK m \in Msgs : Src[m] = t /\ \E p \in Packet : Sends(m, p)
  BY SendsMessage DEF DataPasses
<1>2. PICK p \in Packet : Sends(m, p)
  BY <1>1
<1> DEFINE d == NextPayload(unsent[m])
<1>3. /\ net' = net \cup {p} /\ p = DataPkt(m, d) /\ unsent[m] > 0
      /\ unsent' = [unsent EXCEPT ![m] = @ - d] /\ m \in active[Src[m]]
  BY <1>2 DEF Sends
<1>4. UNCHANGED granted
  BY DEF DataPasses, SendPacket, receiverVars, inboundVars
<1>5. /\ p.kind = "DATA" /\ p.msg = m /\ p.bytes = d
      /\ p.unsol = IF m \in scheduled THEN 0 ELSE selfAlloc[m]
      /\ m \notin Replies => p.seq = Size[m] - unsent[m] + d
  BY <1>3 DEF DataPkt
<1>6. /\ TypeOK /\ OwedType /\ OwnCreditInv /\ CutInv
      /\ unsent \in [Msgs -> Nat] /\ unsent[m] <= Size[m] /\ Size[m] \in Nat
  BY SizeType DEF IInv, PathInv, TypeOK
<1>7. /\ OwedType'
      /\ \A s \in Senders, k \in Spines :
           owed'[s][k] = owed[s][k]
             - IF ~Unpaid(p) /\ t = s /\ Crc(<<Receiver, s, p.seq>>) = k
                 THEN Wire(p.bytes) ELSE 0
  <2>1. owed' = IF Unpaid(p) THEN owed
                ELSE [owed EXCEPT ![t][DataSpine(p)] = @ - Wire(p.bytes)]
    BY <1>3 DEF DataPasses
  <2> QED
    BY <1>1, <1>5, <1>6, <2>1, DataOwed
<1>8. \A i \in Msgs : i # m => Sent'[i] = Sent[i]
  BY <1>3, <1>6 DEF Sent
<1>9. Unpaid(p) <=> m \in Replies \/ Unsolicited(m)
  BY <1>3, <1>5, <1>6 DEF OwnCreditInv, Unpaid
<1> HIDE DEF d
<1>10. ASSUME Unpaid(p), NEW s \in Senders, NEW k \in Spines
       PROVE  PathBalance(s, k)'
  <2>1. owed'[s][k] = owed[s][k]
    <3>1. owed[s][k] \in Int
      BY <1>6, PathTypes
    <3> QED
      BY <1>7, <1>10, <3>1
  <2>2. m \in Replies => Sent'[m] = Sent[m]
    BY DEF Sent
  <2>3. \A i \in Msgs : ~Unsolicited(i) => granted'[i] = granted[i] /\ Sent'[i] = Sent[i]
    BY <1>4, <1>8, <1>9, <1>10, <2>2
  <2> QED
    BY <1>3, <1>5, <1>6, <2>1, <2>3, PathFrame DEF PathInv
<1>11. ASSUME ~Unpaid(p), NEW s \in Senders, NEW k \in Spines
       PROVE  PathBalance(s, k)'
  <2> DEFINE c == IF Src[m] = s /\ Crc(<<Receiver, s, Sent'[m]>>) = k
                    THEN Wire(Sent'[m] - Sent[m]) ELSE 0
  <2>1. d \in Nat /\ d <= unsent[m] /\ Wire(d) \in Nat
    <3>1. d \in Nat /\ d <= unsent[m]
      BY <1>3, <1>6, FramesAssumption DEF NextPayload, Smaller, d
    <3> QED
      BY <3>1, WireType
  <2>2. /\ Sent[m] = Size[m] - unsent[m] /\ Sent'[m] = Size[m] - unsent'[m]
        /\ d = NextPayload(Size[m] - Sent[m])
    <3>1. Sent[m] = Size[m] - unsent[m] /\ Sent'[m] = Size[m] - unsent'[m]
      BY <1>9, <1>11 DEF Sent
    <3>2. Size[m] - Sent[m] = unsent[m]
      BY <1>6, <3>1
    <3> QED
      BY <3>1, <3>2 DEF d
  <2>3. unsent'[m] = unsent[m] - d
    BY <1>3, <1>6
  <2>4. Sent'[m] = Sent[m] + d /\ Sent[m] < Size[m] /\ Sent'[m] - Sent[m] = d /\ Sent'[m] = p.seq
    BY <1>3, <1>5, <1>6, <1>9, <1>11, <2>1, <2>2, <2>3
  <2>5. \E j \in Nat : Sent[m] = j * MaxPayload
    BY <1>3, <1>6, <2>2 DEF CutInv
  <2>6. Advance(Sent, Sent', m)
    BY <1>8, <2>2, <2>4, <2>5 DEF Advance
  <2>7. Carries(Sent, Sent', m, s, k)
    BY <1>9, <1>11, <2>6, AdvanceCarries
  <2>8. c \in Int /\ 0 - c \in Int /\ (0 - c) + 0 + c = 0
    BY <2>1, <2>4
  <2>9. owed'[s][k] = owed[s][k] + (0 - c)
    <3>1. owed[s][k] \in Int
      BY <1>6, PathTypes
    <3> QED
      BY <1>1, <1>5, <1>7, <1>11, <2>1, <2>4, <3>1
  <2>10. CostUpTo(Sent', s, k) = CostUpTo(Sent, s, k) + c
    BY <2>7 DEF Carries
  <2> HIDE DEF c
  <2>11. Total(GrantsOver(s, k), net') = Total(GrantsOver(s, k), net) + 0
    BY <1>3, <1>5, <1>6, NoGrantMoves
  <2>12. CostUpTo(granted', s, k) = CostUpTo(granted, s, k) + ((0 - c) + 0 + c)
    BY <1>4, <1>6, <2>8, PathTypes
  <2>13. Moves(s, k, 0 - c, 0, c)
    BY <2>9, <2>10, <2>11, <2>12 DEF Moves
  <2> QED
    BY <1>6, <2>8, <2>13, PathStep DEF PathInv
<1> QED
  BY <1>7, <1>10, <1>11

\* Data arrives: what the receiver has granted of an announced message stays.
LEMMA ReceiveDataPath ==
  ASSUME IInv, PathInv, NEW p \in net, ReceiveData(p), owed' = owed,
         NEW s \in Senders, NEW k \in Spines
  PROVE  PathBalance(s, k)'
<1> DEFINE m    == p.msg
           grnt == IF p.creditReq /\ ~Informed(m) THEN p.unsolData ELSE GrantedSoFar(m)
<1>1. /\ p.kind = "DATA" /\ m \notin Replies /\ net' = net \ {p} /\ unsent' = unsent
      /\ granted' = [granted EXCEPT ![m] = grnt]
  BY DEF ReceiveData, senderVars
<1>2. /\ TypeOK /\ OwedType /\ GrantedInv /\ OwnCreditInv /\ PacketInv /\ PathBalance(s, k)
      /\ granted \in [Msgs -> Nat] /\ m \in Msgs
  BY PacketTypes DEF IInv, PathInv, TypeOK
<1>3. ~Unsolicited(m) => grnt = granted[m]
  <2> SUFFICES ASSUME ~Unsolicited(m) PROVE grnt = granted[m]
    OBVIOUS
  <2>1. m \in scheduled /\ ~p.creditReq
    BY <1>1, <1>2 DEF OwnCreditInv, PacketInv
  <2>2. grnt = GrantedSoFar(m)
    BY <2>1
  <2>3. info[m] => m \in inbound
    BY <1>1, InFlightMeansOpen
  <2>4. m \notin inbound => granted[m] = 0
    BY <1>2, <2>3 DEF GrantedInv
  <2> QED
    BY <2>2, <2>4 DEF GrantedSoFar
<1> HIDE DEF m, grnt
<1>4. \A i \in Msgs : ~Unsolicited(i) => granted'[i] = granted[i] /\ Sent'[i] = Sent[i]
  BY <1>1, <1>2, <1>3, SentSame
<1> QED
  BY <1>1, <1>2, <1>4, PathFrame

\* So it does when a message is announced.
LEMMA ReceiveGrantReqPath ==
  ASSUME IInv, PathInv, NEW p \in net, ReceiveGrantReq(p), owed' = owed,
         NEW s \in Senders, NEW k \in Spines
  PROVE  PathBalance(s, k)'
<1> DEFINE m == p.msg
<1>1. /\ p.kind = "GRANT_REQ" /\ net' = net \ {p} /\ unsent' = unsent
      /\ granted' = [granted EXCEPT ![m] = GrantedSoFar(m)]
  BY DEF ReceiveGrantReq, senderVars
<1>2. /\ TypeOK /\ OwedType /\ GrantedInv /\ PacketInv /\ PathBalance(s, k)
      /\ granted \in [Msgs -> Nat] /\ m \in Msgs
  BY PacketTypes DEF IInv, PathInv, TypeOK
<1>3. GrantedSoFar(m) = granted[m]
  <2>1. ~info[m] /\ ~Unsolicited(m)
    BY <1>1, <1>2 DEF PacketInv, GrantedInv
  <2>2. m \notin inbound => granted[m] = 0
    BY <1>2, <2>1 DEF GrantedInv
  <2> QED
    BY <2>2 DEF GrantedSoFar
<1> HIDE DEF m
<1>4. \A i \in Msgs : ~Unsolicited(i) => granted'[i] = granted[i] /\ Sent'[i] = Sent[i]
  BY <1>1, <1>2, <1>3, SentSame
<1> QED
  BY <1>1, <1>2, <1>4, PathFrame

\* The steps that move neither grants nor data.
LEMMA OtherStepPath ==
  ASSUME IInv, GrantInv, PathInv, OtherStep, owed' = owed,
         NEW s \in Senders, NEW k \in Spines
  PROVE  PathBalance(s, k)'
<1>1. TypeOK /\ OwedType /\ PathBalance(s, k)
  BY DEF IInv, PathInv
<1>2. ASSUME NEW m \in Msgs, Submit(m) \/ Reap(m) PROVE PathBalance(s, k)'
  <2>1. UNCHANGED <<unsent, granted, net>>
    BY <1>2 DEF Submit, Reap, senderVars, receiverVars, inboundVars
  <2>2. \A i \in Msgs : ~Unsolicited(i) => granted'[i] = granted[i] /\ Sent'[i] = Sent[i]
    BY <2>1, SentSame
  <2> QED
    BY <1>1, <2>1, <2>2, PathFrame
<1>3. ASSUME NEW t \in Senders, Activate(t) PROVE PathBalance(s, k)'
  <2> DEFINE m == Head(inactive[t])
             q == GrantReqPkt(m)
  <2>1. UNCHANGED <<unsent, granted>> /\ (net' = net \/ net' = net \cup {q})
    BY <1>3 DEF Activate, receiverVars, inboundVars
  <2>2. m \in Msgs
    <3>1. inactive[t] \in Seq(Msgs) /\ inactive[t] # <<>>
      BY <1>1, <1>3 DEF Activate, TypeOK
    <3> QED
      BY <3>1
  <2> HIDE DEF m
  <2>3. q \in Packet /\ q.kind # "GRANT"
    BY <2>2 DEF GrantReqPkt, Packet
  <2> HIDE DEF q
  <2>4. \A i \in Msgs : ~Unsolicited(i) => granted'[i] = granted[i] /\ Sent'[i] = Sent[i]
    BY <2>1, SentSame
  <2> QED
    BY <1>1, <2>1, <2>3, <2>4, PathFrame
<1>4. ASSUME NEW p \in net, ReceiveReply(p) PROVE PathBalance(s, k)'
  <2>1. UNCHANGED <<unsent, granted>> /\ net' = net \ {p} /\ p.kind = "DATA"
    BY <1>4 DEF ReceiveReply, senderVars, inboundVars
  <2>2. \A i \in Msgs : ~Unsolicited(i) => granted'[i] = granted[i] /\ Sent'[i] = Sent[i]
    BY <2>1, SentSame
  <2> QED
    BY <1>1, <2>1, <2>2, PathFrame
<1> QED
  BY <1>2, <1>3, <1>4, GrantPath, ReceiveDataPath, ReceiveGrantReqPath DEF OtherStep
-----------------------------------------------------------------------------
(* The invariant *)

\* The steps are those of the credit loop.
LEMMA PathNextStep == PathNext => Next
  BY DEF PathNext, GrantPasses, DataPasses, OtherStep, Next, Receive

LEMMA InitPathInv == PathInit => PathInv
<1> SUFFICES ASSUME PathInit PROVE PathInv
  OBVIOUS
<1>1. Init /\ owed = [s \in Senders |-> [k \in Spines |-> 0]]
  BY DEF PathInit
<1>2. OwedType
  BY <1>1 DEF OwedType
<1>3. OwnCreditInv /\ GrantedInv
  BY <1>1, SizeType DEF Init, OwnCreditInv, GrantedInv
<1>4. CutInv
  <2> SUFFICES ASSUME NEW m \in Msgs PROVE \E j \in Nat : Size[m] - unsent[m] = j * MaxPayload
    BY DEF CutInv
  <2>1. Size[m] - unsent[m] = 0 /\ 0 * MaxPayload = 0
    BY <1>1, SizeType, FramesAssumption DEF Init
  <2> QED
    BY <2>1
<1>5. AnnouncedInv
  BY <1>1, SizeType, SetsAssumption DEF Init, AnnouncedInv
<1>6. ASSUME NEW s \in Senders, NEW k \in Spines PROVE PathBalance(s, k)
  <2>1. \A m \in Msgs : ~Unsolicited(m) => granted[m] = Sent[m]
    BY <1>1, SizeType DEF Init, Sent
  <2>2. CostUpTo(granted, s, k) = CostUpTo(Sent, s, k)
    BY <2>1, SameCost
  <2>3. owed[s][k] = 0 /\ Total(GrantsOver(s, k), net) = 0
    BY <1>1, TotalEmpty DEF Init
  <2>4. CostUpTo(Sent, s, k) \in Nat
    BY UpToTypes
  <2> QED
    BY <2>2, <2>3, <2>4 DEF PathBalance
<1> QED
  BY <1>2, <1>3, <1>4, <1>5, <1>6 DEF PathInv

LEMMA NextPathInv ==
  ASSUME IInv, GrantInv, PathInv, [PathNext]_pathVars
  PROVE  PathInv'
<1>1. [Next]_vars
  BY PathNextStep DEF pathVars
<1>2. OwnCreditInv' /\ CutInv' /\ GrantedInv' /\ AnnouncedInv'
  BY <1>1, OwnCreditNext, CutNext, GrantedNext, AnnouncedNext DEF PathInv, IInv
<1>3. CASE UNCHANGED pathVars
  <2>1. owed' = owed /\ UNCHANGED <<unsent, granted, net>>
    BY <1>3 DEF pathVars, vars, senderVars, receiverVars, inboundVars
  <2>2. OwedType'
    BY <2>1 DEF PathInv, OwedType
  <2>3. \A m \in Msgs : ~Unsolicited(m) => granted'[m] = granted[m] /\ Sent'[m] = Sent[m]
    BY <2>1, SentSame
  <2>4. ASSUME NEW s \in Senders, NEW k \in Spines PROVE PathBalance(s, k)'
    BY <2>1, <2>3, PathFrame DEF PathInv, IInv
  <2> QED
    BY <1>2, <2>2, <2>4 DEF PathInv
<1>4. ASSUME NEW p \in net, GrantPasses(p) PROVE PathInv'
  <2>1. OwedType'
    BY <1>4, GrantOwed DEF PathInv, IInv
  <2>2. ASSUME NEW s \in Senders, NEW k \in Spines PROVE PathBalance(s, k)'
    BY <1>4, GrantPassesPath
  <2> QED
    BY <1>2, <2>1, <2>2 DEF PathInv
<1>5. ASSUME NEW t \in Senders, DataPasses(t) PROVE PathInv'
  BY <1>2, <1>5, DataPassesPath DEF PathInv
<1>6. CASE OtherStep /\ UNCHANGED owed
  <2>1. OwedType'
    BY <1>6 DEF PathInv, OwedType
  <2>2. ASSUME NEW s \in Senders, NEW k \in Spines PROVE PathBalance(s, k)'
    BY <1>6, OtherStepPath
  <2> QED
    BY <1>2, <2>1, <2>2 DEF PathInv
<1> QED
  BY <1>3, <1>4, <1>5, <1>6 DEF PathNext

\* When everything is delivered, what was sent is what was granted.
LEMMA QuietBalance ==
  ASSUME IInv, PathInv, AllDelivered
  PROVE  \A s \in Senders, k \in Spines : owed[s][k] = 0
<1> SUFFICES ASSUME NEW s \in Senders, NEW k \in Spines PROVE owed[s][k] = 0
  OBVIOUS
<1>1. /\ TypeOK /\ QueueInv /\ ReceiverInv /\ OwedType /\ GrantedInv /\ AnnouncedInv
      /\ PathBalance(s, k) /\ Replies \subseteq Msgs
  BY SetsAssumption DEF IInv, PathInv
<1>2. /\ net = {} /\ inbound = {}
      /\ \A m \in created : unsent[m] = 0 /\ up[m] = Size[m]
  BY DEF AllDelivered
<1>3. ASSUME NEW m \in Msgs, ~Unsolicited(m) PROVE Sent[m] = granted[m]
  <2>1. granted[m] = IF info[m] THEN Size[m] ELSE 0
    BY <1>1, <1>2, <1>3 DEF GrantedInv
  <2>2. CASE m \notin created
    <3>1. unsent[m] = Size[m] /\ ~info[m]
      BY <1>1, <2>2 DEF QueueInv, Fresh
    <3> QED
      BY <2>1, <3>1, SizeType DEF Sent
  <2>3. CASE m \in created
    <3>1. m \notin Replies
      BY <1>1, <1>2, <1>3, <2>3 DEF AnnouncedInv
    <3>2. info[m]
      BY <1>1, <1>2, <2>3, <3>1, SizeType DEF ReceiverInv
    <3> QED
      BY <1>2, <2>1, <2>3, <3>1, <3>2, SizeType DEF Sent
  <2> QED
    BY <2>2, <2>3
<1>4. CostUpTo(Sent, s, k) = CostUpTo(granted, s, k)
  BY <1>3, SameCost
<1>5. Total(GrantsOver(s, k), net) = 0
  BY <1>2, TotalEmpty
<1> QED
  BY <1>1, <1>4, <1>5, PathTypes DEF PathBalance

\* If only messages of one packet are sent with their own credit, then whenever
\* everything that was submitted is delivered and granted whole, every path has
\* carried exactly the granted bytes that its phantom queues counted, whichever
\* messages spent the credit and in whatever order packets came.
THEOREM PathsSettle ==
  ASSUME ShortUnsolicited
  PROVE  PathSpec => []PathsBalance
<1>1. PathInit => Init /\ GrantInv /\ PathInv
  <2>1. Init => GrantInv
    BY DEF Init, GrantInv, GrantsMatchData
  <2> QED
    BY <2>1, InitPathInv DEF PathInit
<1>2. [PathNext]_pathVars => [Next]_vars
  BY PathNextStep DEF pathVars
<1>3. IInv /\ GrantInv /\ [Next]_vars => GrantInv'
  BY NextGrantInv DEF IInv
<1>4. IInv /\ GrantInv /\ PathInv /\ [PathNext]_pathVars => PathInv'
  BY NextPathInv
<1>5. IInv /\ PathInv => PathsBalance
  BY QuietBalance DEF PathsBalance
<1> QED
  BY <1>1, <1>2, <1>3, <1>4, <1>5, Invariant, PTL DEF PathSpec, Spec
=============================================================================
