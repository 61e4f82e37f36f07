---------------------------- MODULE PPassPort_proofs ----------------------------
(***************************************************************************)
(* Proofs about PPassPort and PPassAudit.  NeverAhead is inductive on its  *)
(* own.  That no mark is false follows from it together with the fact that *)
(* a port marked at this instant has just been drained and is still over   *)
(* the threshold.                                                          *)
(***************************************************************************)
EXTENDS PPassAudit, TLAPS

\* A port that marked at this instant is up to date, and over the threshold.
MarkedOver == \A p \in marked : pqlen[p] > Pthr /\ last[p] = now

\* The inductive invariant of the audited specification.
AuditInv == TypeOK /\ AuditTypeOK /\ NeverAhead /\ MarkedOver

-----------------------------------------------------------------------------
(* Arithmetic *)

\* Whole parts and fractions (the conversion to uint64_t in ppass_egress).
LEMMA DivMod ==
  ASSUME NEW x \in Nat
  PROVE  /\ x \div Den \in Nat
         /\ x % Den \in 0 .. Den - 1
         /\ x = Den * (x \div Den) + (x % Den)
<1>1. Den \in Nat /\ Den > 0
  BY NumbersAssumption
<1> QED
  BY <1>1, Z3

\* A product of naturals is a natural, and grows with its factor (line rate
\* times interval in ppass_egress).
LEMMA TimesNat == ASSUME NEW x \in Nat, NEW y \in Nat PROVE x * y \in Nat
  OBVIOUS

LEMMA TimesMono ==
  ASSUME NEW x \in Int, NEW y \in Int, x <= y PROVE Den * x <= Den * y
<1>1. Den \in Nat
  BY NumbersAssumption
<1>2. Den * (y - x) >= 0
  <2>1. PICK d \in Nat : d = y - x
    OBVIOUS
  <2>2. Den * d \in Nat
    BY <1>1, <2>1, TimesNat
  <2> QED
    BY <2>1, <2>2
<1>3. Den * (y - x) = Den * y - Den * x
  BY <1>1
<1>4. Den * x \in Int /\ Den * y \in Int
  BY <1>1
<1> QED
  BY <1>2, <1>3, <1>4

-----------------------------------------------------------------------------
(* Types *)

LEMMA CapType == Cap \in Nat /\ Cap > Pthr
  BY NumbersAssumption DEF Cap

LEMMA PacketType ==
  ASSUME NEW pkt \in Packets
  PROVE  pkt.credit \in Nat /\ pkt.size \in Nat
  BY PacketsAssumption

\* What the ingress half leaves is within the limit (classifier-hash.cc:272-276).
LEMMA AfterIngressType ==
  ASSUME NEW q \in 0 .. Cap, NEW pkt \in Packets
  PROVE  AfterIngress(q, pkt) \in 0 .. Cap
  BY CapType, PacketType DEF AfterIngress, AtMost

LEMMA DrainType ==
  ASSUME TypeOK, NEW p \in Ports PROVE Drain(p) \in Nat
<1>1. last[p] \in Nat /\ now \in Nat /\ last[p] <= now
  BY DEF TypeOK
<1>2. now - last[p] \in Nat
  BY <1>1
<1>3. Num * (now - last[p]) \in Nat
  BY <1>2, NumbersAssumption, TimesNat
<1>4. (Num * (now - last[p])) \div Den \in Nat
  BY <1>3, DivMod
<1> QED
  BY <1>4 DEF Drain

LEMMA OnExitType ==
  ASSUME TypeOK, NEW p \in Ports, NEW pkt \in Packets
  PROVE  OnExit(p, pkt) \in Nat
<1>1. pqlen[p] \in Nat
  BY CapType DEF TypeOK
<1> QED
  BY <1>1, DrainType, PacketType DEF OnExit, Minus

LEMMA AtMostType ==
  ASSUME NEW x \in Nat PROVE AtMost(x, Cap) \in 0 .. Cap
  BY CapType DEF AtMost

LEMMA InitTypeOK == Init => TypeOK
  BY CapType DEF Init, TypeOK

LEMMA NextTypeOK == TypeOK /\ [Next]_vars => TypeOK'
<1> SUFFICES ASSUME TypeOK, [Next]_vars PROVE TypeOK'
  OBVIOUS
<1>1. ASSUME NEW in \in Ports, NEW out \in Ports, NEW pkt \in Packets,
             NEW backlog \in Backlogs, Forward(in, out, pkt, backlog)
      PROVE  TypeOK'
  <2>1. AfterIngress(pqlen[in], pkt) \in 0 .. Cap
    BY AfterIngressType DEF TypeOK
  <2>2. AtMost(OnExit(out, pkt), Cap) \in 0 .. Cap
    BY OnExitType, AtMostType
  <2>3. pqlen' \in [Ports -> 0 .. Cap]
    BY <1>1, <2>1, <2>2 DEF Forward, TypeOK
  <2>4. last' \in [Ports -> Nat] /\ \A p \in Ports : last'[p] <= now'
    BY <1>1 DEF Forward, TypeOK
  <2>5. now' \in Nat /\ marked' \subseteq Ports
    BY <1>1 DEF Forward, TypeOK
  <2> QED
    BY <2>3, <2>4, <2>5 DEF TypeOK
<1>2. ASSUME NEW in \in Ports, NEW pkt \in Packets, ForwardNowhere(in, pkt)
      PROVE  TypeOK'
  <2>1. AfterIngress(pqlen[in], pkt) \in 0 .. Cap
    BY AfterIngressType DEF TypeOK
  <2> QED
    BY <1>2, <2>1 DEF ForwardNowhere, TypeOK
<1>3. CASE Tick
  BY <1>3 DEF Tick, TypeOK
<1>4. CASE UNCHANGED vars
  BY <1>4 DEF vars, TypeOK
<1> QED
  BY <1>1, <1>2, <1>3, <1>4 DEF Next

\* The count of a port is between 0 and ten thresholds after every packet: the
\* limit at both ends of a crossing and the floor of the drain are enough for it
\* (classifier-hash.cc:275-276,301-312).
THEOREM PPassTypeCorrect == Spec => []TypeOK
  BY InitTypeOK, NextTypeOK, PTL DEF Spec
-----------------------------------------------------------------------------
(* The audit *)

LEMMA DueType ==
  ASSUME TypeOK, NEW p \in Ports
  PROVE  /\ Due(p) \in Nat /\ Fraction(p) \in Nat
         /\ Due(p) = Den * Drain(p) + Fraction(p)
<1>1. last[p] \in Nat /\ now \in Nat /\ last[p] <= now
  BY DEF TypeOK
<1>2. now - last[p] \in Nat
  BY <1>1
<1> DEFINE x == Num * (now - last[p])
<1>3. x \in Nat
  BY <1>2, NumbersAssumption, TimesNat
<1>4. Den \in Nat /\ Den > 0
  BY NumbersAssumption
<1> HIDE DEF x
<1>5. x \div Den \in Nat /\ x % Den \in 0 .. Den - 1 /\ x = Den * (x \div Den) + (x % Den)
  BY <1>3, DivMod
<1>6. CASE last[p] = 0
  BY <1>4, <1>6 DEF Due, Fraction, Drain
<1>7. CASE last[p] # 0
  <2>1. Due(p) = x /\ Fraction(p) = x % Den /\ Drain(p) = x \div Den
    BY <1>7 DEF Due, Fraction, Drain, x
  <2> QED
    BY <1>3, <1>4, <1>5, <2>1
<1> QED
  BY <1>6, <1>7

\* What ppass_egress compares with the threshold is no more than the fluid queue
\* holds once the packet has been counted, up to the rounding of this drain.
LEMMA ExitBelowFluid ==
  ASSUME TypeOK, AuditTypeOK, NeverAhead, NEW p \in Ports, NEW pkt \in Packets,
         OnExit(p, pkt) # 0
  PROVE  Den * OnExit(p, pkt)
           <= fluid[p] + Den * BytesOut(pkt) + lost[p] + Fraction(p)
<1> DEFINE q == pqlen[p]
           b == BytesOut(pkt)
           d == Drain(p)
<1>1. q \in Nat /\ b \in Nat /\ d \in Nat /\ Den \in Nat
  BY CapType, PacketType, DrainType, NumbersAssumption DEF TypeOK, BytesOut
<1>2. OnExit(p, pkt) = Minus(q + b, d)
  BY <1>1 DEF OnExit, BytesOut, CountedOnExit
<1>3. OnExit(p, pkt) = q + b - d
  <2> HIDE DEF q, b, d
  <2>1. Minus(q + b, d) # 0
    BY <1>2
  <2>2. Minus(q + b, d) = q + b - d
    BY <1>1, <2>1 DEF Minus
  <2> QED
    BY <1>2, <2>2
<1>4. Den * q - Due(p) <= fluid[p] + lost[p]
  BY DEF NeverAhead
<1>5. Due(p) \in Nat /\ Fraction(p) \in Nat /\ Due(p) = Den * d + Fraction(p)
  BY DueType
<1>6. fluid[p] \in Nat /\ lost[p] \in Nat
  BY DEF AuditTypeOK
<1> HIDE DEF q, b, d
<1>7. Den * (q + b - d) = Den * q + Den * b - Den * d
  BY <1>1
<1>8. Den * q \in Nat /\ Den * b \in Nat /\ Den * d \in Nat
  BY <1>1, TimesNat
<1>9. Den * (q + b - d) <= fluid[p] + Den * b + lost[p] + Fraction(p)
  BY <1>4, <1>5, <1>6, <1>7, <1>8
<1> QED
  BY <1>3, <1>9 DEF b

\* Limiting both queues keeps their order.
LEMMA CapBoth ==
  ASSUME NEW x \in Nat, NEW y \in Int, NEW z \in Nat, Den * x <= y + z
  PROVE  Den * AtMost(x, Cap) <= AtMost(y, Den * Cap) + z
<1>1. Den * AtMost(x, Cap) <= Den * x /\ Den * AtMost(x, Cap) <= Den * Cap
  BY TimesMono, CapType DEF AtMost
<1>2. Den * x \in Int /\ Den * Cap \in Int /\ Den * AtMost(x, Cap) \in Int
  BY CapType, NumbersAssumption DEF AtMost
<1> QED
  BY <1>1, <1>2 DEF AtMost

LEMMA ArriveType ==
  ASSUME NEW level \in Nat, NEW bytes \in Nat PROVE Arrive(level, bytes) \in Nat
<1>1. Den * bytes \in Nat /\ Den * Cap \in Nat
  BY TimesNat, CapType, NumbersAssumption
<1> QED
  BY <1>1 DEF Arrive, AtMost

LEMMA BytesType ==
  ASSUME NEW pkt \in Packets PROVE CreditIn(pkt) \in Nat /\ BytesOut(pkt) \in Nat
  BY PacketType DEF CreditIn, BytesOut

\* A grant that comes in keeps the count of its port behind the fluid queue.
LEMMA CreditBehind ==
  ASSUME TypeOK, AuditTypeOK, NeverAhead, NEW p \in Ports, NEW pkt \in Packets
  PROVE  Den * AfterIngress(pqlen[p], pkt) - Due(p)
           <= Arrive(fluid[p], CreditIn(pkt)) + lost[p]
<1> DEFINE q == pqlen[p]
           c == CreditIn(pkt)
<1>1. q \in Nat /\ c \in Nat /\ Den \in Nat /\ Due(p) \in Nat
  BY CapType, BytesType, DueType, NumbersAssumption DEF TypeOK
<1>2. fluid[p] \in Nat /\ lost[p] \in Nat
  BY DEF AuditTypeOK
<1>3. Den * q - Due(p) <= fluid[p] + lost[p]
  BY DEF NeverAhead
<1>4. AfterIngress(q, pkt) = AtMost(q + c, Cap)
  BY DEF AfterIngress, CreditIn
<1> HIDE DEF q, c
<1>5. Den * (q + c) = Den * q + Den * c /\ Den * q \in Nat /\ Den * c \in Nat
  BY <1>1, TimesNat
<1>6. Den * (q + c) <= fluid[p] + Den * c + (lost[p] + Due(p))
  BY <1>1, <1>2, <1>3, <1>5
<1>7. Den * AtMost(q + c, Cap)
        <= AtMost(fluid[p] + Den * c, Den * Cap) + (lost[p] + Due(p))
  BY <1>1, <1>2, <1>5, <1>6, CapBoth
<1>8. AtMost(q + c, Cap) \in Nat
  BY <1>1, CapType DEF AtMost
<1>10. Arrive(fluid[p], c) \in Nat
  BY <1>1, <1>2, ArriveType
<1>9. Den * AtMost(q + c, Cap) \in Nat
  BY <1>1, <1>8, TimesNat
<1> QED
  BY <1>1, <1>2, <1>4, <1>7, <1>8, <1>9, <1>10 DEF Arrive, q, c

\* A packet that goes out leaves the count of its port behind the fluid queue.
LEMMA ExitBehind ==
  ASSUME TypeOK, AuditTypeOK, NeverAhead, NEW p \in Ports, NEW pkt \in Packets
  PROVE  LET after == AtMost(OnExit(p, pkt), Cap)
         IN  Den * after
               <= Arrive(fluid[p], BytesOut(pkt))
                    + (IF after = 0 THEN 0 ELSE lost[p] + Fraction(p))
<1> DEFINE after == AtMost(OnExit(p, pkt), Cap)
           b == BytesOut(pkt)
<1>1. fluid[p] \in Nat /\ lost[p] \in Nat /\ Fraction(p) \in Nat /\ b \in Nat
  BY DueType, BytesType DEF AuditTypeOK
<1>2. Arrive(fluid[p], b) \in Nat
  BY <1>1, ArriveType
<1>3. OnExit(p, pkt) \in Nat
  BY OnExitType
<1>4. CASE after = 0
  <2>1. Den * 0 = 0
    BY NumbersAssumption
  <2> QED
    BY <1>2, <1>4, <2>1
<1>5. CASE after # 0
  <2>1. OnExit(p, pkt) # 0
    BY <1>5, CapType DEF AtMost
  <2>2. Den * OnExit(p, pkt) <= fluid[p] + Den * b + lost[p] + Fraction(p)
    BY <2>1, ExitBelowFluid
  <2>3. Den * b \in Nat
    BY <1>1, NumbersAssumption, TimesNat
  <2> DEFINE y == fluid[p] + Den * b
             z == lost[p] + Fraction(p)
  <2>4. y \in Int /\ z \in Nat
    BY <1>1, <2>3
  <2>5. Den * OnExit(p, pkt) <= y + z
    BY <1>1, <2>2, <2>3, NumbersAssumption, <1>3
  <2> HIDE DEF y, z
  <2>6. Den * after <= AtMost(y, Den * Cap) + z
    BY <1>3, <2>4, <2>5, CapBoth
  <2> QED
    BY <1>5, <2>6 DEF Arrive, y, z
<1> QED
  BY <1>4, <1>5

LEMMA InitAuditInv == AuditInit => AuditInv
<1> SUFFICES ASSUME AuditInit PROVE AuditInv
  OBVIOUS
<1>1. TypeOK
  BY InitTypeOK DEF AuditInit
<1>2. AuditTypeOK /\ MarkedOver
  BY DEF AuditInit, Init, AuditTypeOK, MarkedOver
<1>3. ASSUME NEW p \in Ports PROVE Den * pqlen[p] - Due(p) <= fluid[p] + lost[p]
  <2>1. pqlen[p] = 0 /\ last[p] = 0 /\ fluid[p] = 0 /\ lost[p] = 0
    BY DEF AuditInit, Init
  <2>2. Due(p) = 0 /\ Den * 0 = 0
    BY <2>1, NumbersAssumption DEF Due
  <2> QED
    BY <2>1, <2>2
<1> QED
  BY <1>1, <1>2, <1>3 DEF AuditInv, NeverAhead

\* A packet that crosses the switch keeps the invariant.
LEMMA ForwardAuditInv ==
  ASSUME AuditInv, TypeOK', NEW in \in Ports, NEW out \in Ports, NEW pkt \in Packets,
         NEW backlog \in Backlogs, AuditForward(in, out, pkt, backlog)
  PROVE  AuditInv'
<1> DEFINE after == AtMost(OnExit(out, pkt), Cap)
           afterIn == AfterIngress(pqlen[in], pkt)
           fluidIn == Arrive(fluid[in], CreditIn(pkt))
           fluidOut == Arrive(fluid[out], BytesOut(pkt))
           lostOut == IF after = 0 THEN 0 ELSE lost[out] + Fraction(out)
<1>1. TypeOK /\ AuditTypeOK /\ NeverAhead /\ MarkedOver
  BY DEF AuditInv
<1>2. pqlen' = [pqlen EXCEPT ![in] = afterIn, ![out] = after] /\ in # out
  BY DEF AuditForward, Forward
<1>3. last' = [last EXCEPT ![out] = now] /\ now' = now
  BY DEF AuditForward, Forward
<1>4. pqlen \in [Ports -> 0 .. Cap] /\ last \in [Ports -> Nat] /\ now \in Nat
  BY <1>1 DEF TypeOK
<1>5. fluid \in [Ports -> Nat] /\ lost \in [Ports -> Nat]
  BY <1>1 DEF AuditTypeOK
<1>6. pqlen'[in] = afterIn /\ pqlen'[out] = after
  BY <1>2, <1>4
<1>7. fluid' = [fluid EXCEPT ![in] = fluidIn, ![out] = fluidOut]
  BY DEF AuditForward
<1>8. lost' = [lost EXCEPT ![out] = lostOut]
  BY <1>6 DEF AuditForward
<1>9. fluidIn \in Nat /\ fluidOut \in Nat /\ lostOut \in Nat
  <2>1. CreditIn(pkt) \in Nat /\ BytesOut(pkt) \in Nat
    BY BytesType
  <2>2. fluid[in] \in Nat /\ fluid[out] \in Nat /\ lost[out] \in Nat
    BY <1>5
  <2>3. fluidIn \in Nat /\ fluidOut \in Nat
    BY <2>1, <2>2, ArriveType
  <2>4. Fraction(out) \in Nat
    BY <1>1, DueType
  <2> QED
    BY <2>2, <2>3, <2>4
<1>10. AuditTypeOK'
  BY <1>5, <1>7, <1>8, <1>9 DEF AuditTypeOK
<1>11. Den * after <= fluidOut + lostOut
  BY <1>1, ExitBehind
<1>12. Den * afterIn - Due(in) <= fluidIn + lost[in]
  BY <1>1, CreditBehind
<1>13. Due(out)' = 0
  BY <1>3, <1>4, NumbersAssumption DEF Due
<1>14. \A p \in Ports : p # out => Due(p)' = Due(p)
  BY <1>3, <1>4 DEF Due
<1>15. after \in Nat
  BY <1>1, OnExitType, AtMostType, CapType
<1> HIDE DEF after, afterIn, fluidIn, fluidOut, lostOut
<1>16. NeverAhead'
  <2> SUFFICES ASSUME NEW p \in Ports
               PROVE  Den * pqlen'[p] - Due(p)' <= fluid'[p] + lost'[p]
    BY DEF NeverAhead
  <2>1. CASE p = out
    <3>1. pqlen'[p] = after /\ fluid'[p] = fluidOut /\ lost'[p] = lostOut
      BY <1>5, <1>6, <1>7, <1>8, <2>1
    <3>2. Den * after \in Nat
      BY <1>15, NumbersAssumption, TimesNat
    <3> QED
      BY <1>11, <1>13, <2>1, <3>1, <3>2
  <2>2. CASE p = in
    <3>1. pqlen'[p] = afterIn /\ fluid'[p] = fluidIn /\ lost'[p] = lost[in]
      BY <1>2, <1>5, <1>6, <1>7, <1>8, <2>2
    <3> QED
      BY <1>2, <1>12, <1>14, <2>2, <3>1
  <2>3. CASE p # in /\ p # out
    <3>1. pqlen'[p] = pqlen[p] /\ fluid'[p] = fluid[p] /\ lost'[p] = lost[p]
      BY <1>2, <1>4, <1>5, <1>7, <1>8, <2>3
    <3>2. Den * pqlen[p] - Due(p) <= fluid[p] + lost[p]
      BY <1>1 DEF NeverAhead
    <3> QED
      BY <1>14, <2>3, <3>1, <3>2
  <2> QED
    BY <2>1, <2>2, <2>3
<1>17. MarkedOver'
  <2>1. ASSUME out \in marked' PROVE pqlen'[out] > Pthr /\ last'[out] = now'
    <3>1. last'[out] = now'
      BY <1>3, <1>4
    <3>2. CASE Marks(out, pkt, backlog)
      <4>1. OnExit(out, pkt) > Pthr /\ OnExit(out, pkt) \in Nat
        BY <1>1, <3>2, OnExitType DEF Marks
      <4>2. after > Pthr
        BY <4>1, CapType DEF after, AtMost
      <4> QED
        BY <1>6, <3>1, <4>2
    <3>3. CASE ~Marks(out, pkt, backlog)
      <4>1. out \in marked
        BY <2>1, <3>3 DEF AuditForward, Forward
      <4>2. pqlen[out] > Pthr /\ last[out] = now
        BY <1>1, <4>1 DEF MarkedOver
      <4>3. Num * (now - last[out]) = 0
        BY <1>4, <4>2, NumbersAssumption
      <4>4. Due(out) = 0
        BY <4>3 DEF Due
      <4>5. Drain(out) = 0
        <5>1. Den \in Nat /\ Den > 0
          BY NumbersAssumption
        <5>2. 0 \div Den = 0
          BY <5>1
        <5> QED
          BY <4>3, <5>2 DEF Drain
      <4>6. OnExit(out, pkt) >= pqlen[out]
        BY <1>4, <4>5, PacketType, CapType DEF OnExit, Minus
      <4>7. after > Pthr
        BY <1>1, <1>4, <4>2, <4>6, CapType, OnExitType, NumbersAssumption
           DEF after, AtMost
      <4> QED
        BY <1>6, <3>1, <4>7
    <3> QED
      BY <3>1, <3>2, <3>3
  <2>2. ASSUME NEW p \in marked', p # out PROVE pqlen'[p] > Pthr /\ last'[p] = now'
    <3>1. p \in marked /\ p \in Ports
      BY <1>1, <2>2 DEF AuditForward, Forward, TypeOK
    <3>2. pqlen[p] > Pthr /\ last[p] = now
      BY <1>1, <3>1 DEF MarkedOver
    <3>3. last'[p] = now'
      BY <1>3, <1>4, <2>2, <3>1, <3>2
    <3>4. CASE p = in
      <4>1. afterIn > Pthr
        BY <1>4, <3>2, <3>4, CapType, PacketType, NumbersAssumption
           DEF afterIn, AfterIngress, AtMost
      <4> QED
        BY <1>6, <3>3, <3>4, <4>1
    <3>5. CASE p # in
      BY <1>2, <1>4, <2>2, <3>1, <3>2, <3>3, <3>5
    <3> QED
      BY <3>4, <3>5
  <2> QED
    BY <2>1, <2>2 DEF MarkedOver
<1> QED
  BY <1>10, <1>16, <1>17 DEF AuditInv

\* Credit that comes in on a packet that goes nowhere keeps the invariant.
LEMMA ForwardNowhereAuditInv ==
  ASSUME AuditInv, TypeOK', NEW in \in Ports, NEW pkt \in Packets,
         AuditForwardNowhere(in, pkt)
  PROVE  AuditInv'
<1> DEFINE afterIn == AfterIngress(pqlen[in], pkt)
           fluidIn == Arrive(fluid[in], CreditIn(pkt))
<1>1. TypeOK /\ AuditTypeOK /\ NeverAhead /\ MarkedOver
  BY DEF AuditInv
<1>2. /\ pqlen' = [pqlen EXCEPT ![in] = afterIn]
      /\ fluid' = [fluid EXCEPT ![in] = fluidIn]
      /\ lost' = lost /\ last' = last /\ now' = now /\ marked' = marked
  BY DEF AuditForwardNowhere, ForwardNowhere
<1>3. pqlen \in [Ports -> 0 .. Cap] /\ marked \subseteq Ports
  BY <1>1 DEF TypeOK
<1>4. fluid \in [Ports -> Nat] /\ lost \in [Ports -> Nat]
  BY <1>1 DEF AuditTypeOK
<1>5. fluidIn \in Nat
  BY <1>4, BytesType, ArriveType
<1>6. AuditTypeOK'
  BY <1>2, <1>4, <1>5 DEF AuditTypeOK
<1>7. Den * afterIn - Due(in) <= fluidIn + lost[in]
  BY <1>1, CreditBehind
<1>8. \A p \in Ports : Due(p)' = Due(p)
  BY <1>2 DEF Due
<1>9. pqlen[in] > Pthr => afterIn > Pthr
  BY <1>3, CapType, PacketType, NumbersAssumption DEF AfterIngress, AtMost
<1> HIDE DEF afterIn, fluidIn
<1>10. NeverAhead'
  BY <1>1, <1>2, <1>3, <1>4, <1>7, <1>8 DEF NeverAhead
<1>11. MarkedOver'
  BY <1>1, <1>2, <1>3, <1>9 DEF MarkedOver
<1> QED
  BY <1>6, <1>10, <1>11 DEF AuditInv

\* The passing of time keeps the invariant.
LEMMA TickAuditInv == AuditInv /\ TypeOK' /\ AuditTick => AuditInv'
<1> SUFFICES ASSUME AuditInv, TypeOK', AuditTick PROVE AuditInv'
  OBVIOUS
<1>1. TypeOK /\ AuditTypeOK /\ NeverAhead
  BY DEF AuditInv
<1>2. /\ now' = now + 1 /\ marked' = {} /\ pqlen' = pqlen /\ last' = last
      /\ lost' = lost
      /\ fluid' = [p \in Ports |-> IF last[p] = 0 THEN fluid[p] ELSE Minus(fluid[p], Num)]
  BY DEF AuditTick, Tick
<1>3. AuditTypeOK'
  BY <1>1, <1>2, NumbersAssumption DEF AuditTypeOK, Minus
<1>4. MarkedOver'
  BY <1>2 DEF MarkedOver
<1>5. ASSUME NEW p \in Ports
      PROVE  Den * pqlen'[p] - Due(p)' <= fluid'[p] + lost'[p]
  <2>1. last[p] \in Nat /\ now \in Nat /\ pqlen[p] \in Nat /\ Num \in Nat
    BY <1>1, CapType, NumbersAssumption DEF TypeOK
  <2>2. fluid[p] \in Nat /\ lost[p] \in Nat
    BY <1>1 DEF AuditTypeOK
  <2>3. Den * pqlen[p] - Due(p) <= fluid[p] + lost[p]
    BY <1>1 DEF NeverAhead
  <2>4. Due(p) \in Nat
    BY <1>1, DueType
  <2>5. Den * pqlen[p] \in Nat
    BY <2>1, NumbersAssumption, TimesNat
  <2>6. CASE last[p] = 0
    BY <1>2, <2>3, <2>6 DEF Due
  <2>7. CASE last[p] # 0
    <3>1. last'[p] = last[p] /\ now' - last[p] = (now - last[p]) + 1
      BY <1>2, <2>1
    <3>2. Due(p)' = Due(p) + Num
      <4>1. Due(p)' = Num * (now' - last'[p])
        BY <2>7, <3>1, Zenon DEF Due
      <4>2. Due(p) = Num * (now - last[p])
        BY <2>7, Zenon DEF Due
      <4>3. Due(p)' = Num * ((now - last[p]) + 1)
        BY <3>1, <4>1
      <4>4. Num * ((now - last[p]) + 1) = Num * (now - last[p]) + Num
        BY <2>1
      <4> QED
        BY <4>2, <4>3, <4>4
    <3>3. fluid'[p] >= fluid[p] - Num /\ fluid'[p] \in Nat
      BY <1>2, <2>1, <2>2, <2>7 DEF Minus
    <3> QED
      BY <1>2, <2>1, <2>2, <2>3, <2>4, <2>5, <3>2, <3>3
  <2> QED
    BY <2>6, <2>7
<1> QED
  BY <1>3, <1>4, <1>5 DEF AuditInv, NeverAhead

LEMMA NextAuditInv == AuditInv /\ [AuditNext]_auditVars => AuditInv'
<1> SUFFICES ASSUME AuditInv, [AuditNext]_auditVars PROVE AuditInv'
  OBVIOUS
<1>1. [Next]_vars
  BY DEF AuditNext, AuditForward, AuditForwardNowhere, AuditTick, Next, auditVars
<1>2. TypeOK'
  BY <1>1, NextTypeOK DEF AuditInv
<1>3. CASE UNCHANGED auditVars
  BY <1>3 DEF auditVars, vars, AuditInv, TypeOK, AuditTypeOK, NeverAhead, Due, MarkedOver
<1> QED
  BY <1>2, <1>3, ForwardAuditInv, ForwardNowhereAuditInv, TickAuditInv DEF AuditNext

\* The lazily drained count never runs ahead of a queue that drains all the time
\* (ppass_egress, classifier-hash.cc:290-301), for any rate, threshold, traffic and
\* number of ports.
THEOREM CountNeverAhead == AuditSpec => []NeverAhead
<1>1. AuditInv => NeverAhead
  BY DEF AuditInv
<1> QED
  BY <1>1, InitAuditInv, NextAuditInv, PTL DEF AuditSpec

\* No packet is marked while the fluid phantom queue of its port is below the
\* threshold (classifier-hash.cc:304-310): a port marked at this instant is up to
\* date, so that NeverAhead compares the count itself with the fluid queue.
THEOREM MarksJustified == AuditSpec => []NoFalseMark
<1>1. AuditInv => NoFalseMark
  <2> SUFFICES ASSUME AuditInv, NEW p \in marked
               PROVE  fluid[p] + lost[p] > Den * Pthr
    BY DEF NoFalseMark
  <2>1. p \in Ports /\ pqlen[p] \in Nat /\ pqlen[p] >= Pthr + 1 /\ last[p] = now /\ now \in Nat
    BY CapType, NumbersAssumption DEF AuditInv, TypeOK, MarkedOver
  <2>2. fluid[p] \in Nat /\ lost[p] \in Nat
    BY <2>1 DEF AuditInv, AuditTypeOK
  <2>3. Due(p) = 0
    BY <2>1, NumbersAssumption DEF Due
  <2>4. Den * pqlen[p] - 0 <= fluid[p] + lost[p]
    BY <2>1, <2>3 DEF AuditInv, NeverAhead
  <2>5. Den * (Pthr + 1) <= Den * pqlen[p]
    BY <2>1, TimesMono, NumbersAssumption
  <2>6. Den * (Pthr + 1) = Den * Pthr + Den /\ Den * Pthr \in Int /\ Den * pqlen[p] \in Int
    BY <2>1, NumbersAssumption
  <2> QED
    BY <2>2, <2>4, <2>5, <2>6, NumbersAssumption
<1> QED
  BY <1>1, InitAuditInv, NextAuditInv, PTL DEF AuditSpec
=============================================================================
